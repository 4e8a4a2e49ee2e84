-------------------------- MODULE CommandLineProofs --------------------------
(***************************************************************************)
(* For every command line: what main() knows when it goes on is what the   *)
(* caller gave.  The invariant says which letters have been scanned, and   *)
(* which of the arguments looked at was the last word.                     *)
(***************************************************************************)
EXTENDS CommandLine, AlignmentProofs

\* The arguments whose letters count, and their letters up to getopt's position.
Reached == {k \in 2 .. Len(argv) : /\ argv[k].kind = "options"
                                   /\ \A j \in 2 .. k - 1 : argv[j].kind \notin Stops}
Passed(k, n) == k < optind \/ (k = optind /\ n < nextchar)
Scanned == {c \in Letters : \E k \in Reached : \E n \in DOMAIN argv[k].letters :
                              argv[k].letters[n] = c /\ Passed(k, n)}

\* The boot flags that the letters stand for.
Howto(letters) == {b \in {"CDROM"} : "c" \in letters}
                    \cup {b \in {"MULTIPLE", "SERIAL"} : "s" \in letters}
                    \cup {b \in {"VERBOSE"} : "V" \in letters}

\* The options o are those of the letters, and none of these ends the run.
Means(o, letters) ==
  /\ o.pretend = ("p" \in letters) /\ o.force = ("f" \in letters)
  /\ o.debug = (letters \cap {"d", "D"} # {})
  /\ o.debugAssembly = ("D" \in letters)
  /\ o.boot_howto = Howto(letters)
  /\ letters \cap {"h", "v", "?"} = {}
Match(letters) == Means(Options, letters)

\* getopt stands in a group of options or before an argument, with nothing behind it
\* that would have stopped it.
Position ==
  /\ \A j \in 2 .. optind - 1 : argv[j].kind \notin Stops
  /\ nextchar > 1 => /\ optind <= Len(argv) /\ argv[optind].kind = "options"
                     /\ nextchar <= Len(argv[optind].letters)

LastWord ==
  Options.root # NoRoot =>
    /\ Options.root \in 1 .. i - 1 /\ argv[Options.root].kind = "word"
    /\ \A k \in Options.root + 1 .. i - 1 : argv[k].kind # "word"

IInv ==
  /\ TypeOK /\ LastWord
  /\ pc = "options" => Position /\ Match(Scanned)
  /\ pc \in {"root", "geteuid"} => Match(Given)
  /\ pc = "geteuid" => i > Len(argv) /\ Options.root # NoRoot

-----------------------------------------------------------------------------
(* getopt_long                                                             *)

\* What an argument is.
LEMMA ArgumentType ==
  ASSUME argv \in CommandLines
  PROVE  /\ argv \in Seq(Argument) /\ Len(argv) \in Nat \ {0} /\ DOMAIN argv = 1 .. Len(argv)
         /\ \A k \in 1 .. Len(argv) :
              /\ argv[k] \in Argument
              /\ argv[k].letters \in Seq(Letters)
              /\ DOMAIN argv[k].letters = 1 .. Len(argv[k].letters)
              /\ Len(argv[k].letters) \in Nat
              /\ argv[k].kind = "options" => Len(argv[k].letters) > 0
<1>1. /\ argv \in Seq(Argument) /\ Len(argv) > 0
      /\ \A k \in DOMAIN argv : argv[k].kind = "options" => argv[k].letters # <<>>
  BY CommandLineAssumption
<1>2. DOMAIN argv = 1 .. Len(argv) /\ Len(argv) \in Nat \ {0}
  BY <1>1
<1>3. ASSUME NEW k \in 1 .. Len(argv)
      PROVE  /\ argv[k] \in Argument /\ argv[k].letters \in Seq(Letters)
             /\ DOMAIN argv[k].letters = 1 .. Len(argv[k].letters)
             /\ Len(argv[k].letters) \in Nat
             /\ argv[k].kind = "options" => Len(argv[k].letters) > 0
  <2>1. argv[k] \in Argument
    BY <1>1
  <2>2. argv[k].letters \in Seq(Letters)
    BY <2>1 DEF Argument
  <2>3. argv[k].kind = "options" => argv[k].letters # <<>>
    BY <1>1, <1>2
  <2> QED
    BY <2>1, <2>2, <2>3
<1> QED
  BY <1>1, <1>2, <1>3

\* The argument it looks at is the first group of options that it can reach.
LEMMA NextIsFirst ==
  ASSUME TypeOK, OptionArgs # {}
  PROVE  NextArg \in OptionArgs /\ \A j \in OptionArgs : NextArg <= j
<1>1. OptionArgs \in SUBSET Nat
  BY ArgumentType DEF TypeOK, OptionArgs
<1>2. \E k \in OptionArgs : \A j \in OptionArgs : k <= j
  BY <1>1, LeastNatural
<1> QED
  BY <1>2 DEF NextArg

\* Every call adds its letter to those scanned, and no other.
LEMMA Advance ==
  ASSUME TypeOK, Position, NEW c \in Letters, getopt_long(c), UNCHANGED <<argv, posix>>
  PROVE  /\ Position' /\ Scanned' = Scanned \cup {c}
         /\ optind' \in 2 .. Len(argv) + 1 /\ nextchar' \in Nat \ {0}
<1> DEFINE k == NextArg
           n == NextChar
<1>1. /\ argv[k].letters[n] = c
      /\ IF n < Len(argv[k].letters) THEN optind' = k /\ nextchar' = n + 1
         ELSE optind' = k + 1 /\ nextchar' = 1
  BY DEF getopt_long
<1>2. k \in OptionArgs /\ \A j \in OptionArgs : k <= j
  BY NextIsFirst DEF getopt_long
<1>3. n = IF k = optind THEN nextchar ELSE 1
  BY DEF NextChar
<1> HIDE DEF k, n
<1>4. Len(argv) \in Nat \ {0} /\ optind \in Nat /\ optind >= 2 /\ nextchar \in Nat \ {0}
  BY ArgumentType DEF TypeOK
<1>5. /\ k \in optind .. Len(argv) /\ argv[k].kind = "options"
      /\ \A j \in optind .. k - 1 : argv[j].kind \notin Stops
  BY <1>2 DEF OptionArgs
<1>6. \A j \in 2 .. k - 1 : argv[j].kind \notin Stops
  BY <1>4, <1>5 DEF Position
<1>7. k \in Reached
  BY <1>4, <1>5, <1>6 DEF Reached
<1>8. \A j \in Reached : j < k => j < optind
  <2> SUFFICES ASSUME NEW j \in Reached, j < k, j >= optind PROVE FALSE
    BY <1>4 DEF Reached
  <2>1. j \in OptionArgs
    BY <1>4 DEF Reached, OptionArgs
  <2> QED
    BY <1>2, <1>4, <1>5, <2>1 DEF Reached
<1>9. k # optind => nextchar = 1
  <2> SUFFICES ASSUME k # optind, nextchar > 1 PROVE FALSE
    BY <1>4
  <2>1. optind \in OptionArgs
    BY <1>4 DEF Position, OptionArgs
  <2> QED
    BY <1>2, <1>4, <1>5, <2>1
<1>10. /\ Len(argv[k].letters) \in Nat \ {0}
       /\ DOMAIN argv[k].letters = 1 .. Len(argv[k].letters)
  BY <1>4, <1>5, ArgumentType DEF TypeOK
<1>11. n \in 1 .. Len(argv[k].letters)
  BY <1>3, <1>4, <1>5, <1>10 DEF Position
<1>12. Stops' = Stops /\ Reached' = Reached
  BY DEF Stops, Reached
<1>13. Position'
  <2>1. CASE n < Len(argv[k].letters)
    BY <1>1, <1>5, <1>6, <1>11, <1>12, <2>1 DEF Position
  <2>2. CASE ~(n < Len(argv[k].letters))
    <3>1. optind' = k + 1 /\ nextchar' = 1
      BY <1>1, <2>2
    <3>2. argv[k].kind \notin Stops
      BY <1>5 DEF Stops, Operands
    <3>3. \A j \in 2 .. k : argv[j].kind \notin Stops
      BY <1>4, <1>5, <1>6, <3>2
    <3> QED
      BY <1>4, <1>5, <1>12, <3>1, <3>3 DEF Position
  <2> QED
    BY <2>1, <2>2
<1>14. \A j \in Reached : \A m \in DOMAIN argv[j].letters :
          Passed(j, m)' <=> Passed(j, m) \/ (j = k /\ m = n)
  <2> SUFFICES ASSUME NEW j \in Reached, NEW m \in DOMAIN argv[j].letters
               PROVE  Passed(j, m)' <=> Passed(j, m) \/ (j = k /\ m = n)
    OBVIOUS
  <2>1. j \in 2 .. Len(argv) /\ m \in 1 .. Len(argv[j].letters) /\ Len(argv[j].letters) \in Nat
    BY ArgumentType DEF TypeOK, Reached
  <2>2. Passed(j, m)' <=> j < k \/ (j = k /\ m <= n)
    BY <1>1, <1>4, <1>5, <1>10, <1>11, <2>1 DEF Passed
  <2>3. Passed(j, m) <=> j < k \/ (j = k /\ m < n)
    BY <1>3, <1>4, <1>5, <1>8, <1>9, <2>1 DEF Passed
  <2> QED
    BY <1>11, <2>1, <2>2, <2>3
<1>15. Scanned' = Scanned \cup {c}
  <2>1. Scanned' = {l \in Letters : \E j \in Reached : \E m \in DOMAIN argv[j].letters :
                       argv[j].letters[m] = l /\ Passed(j, m)'}
    BY <1>12 DEF Scanned
  <2> QED
    BY <1>1, <1>7, <1>10, <1>11, <1>14, <2>1 DEF Scanned
<1> QED
  BY <1>1, <1>4, <1>5, <1>11, <1>13, <1>15

-----------------------------------------------------------------------------
(* The steps                                                               *)

\* The record main() keeps.
Record == [debug : BOOLEAN, debugAssembly : BOOLEAN, pretend : BOOLEAN,
           force : BOOLEAN, root : DOMAIN argv \cup {NoRoot},
           boot_howto : SUBSET {"CDROM", "MULTIPLE", "SERIAL", "VERBOSE"}]

\* What a letter adds to the boot flags.
LEMMA HowtoAdds ==
  ASSUME NEW letters
  PROVE  /\ Howto(letters \cup {"c"}) = Howto(letters) \cup {"CDROM"}
         /\ Howto(letters \cup {"s"}) = Howto(letters) \cup {"MULTIPLE", "SERIAL"}
         /\ Howto(letters \cup {"V"}) = Howto(letters) \cup {"VERBOSE"}
         /\ \A c \in {"p", "f", "d", "D"} : Howto(letters \cup {c}) = Howto(letters)
<1>1. Howto(letters \cup {"c"}) = Howto(letters) \cup {"CDROM"}
  BY DEF Howto
<1>2. Howto(letters \cup {"s"}) = Howto(letters) \cup {"MULTIPLE", "SERIAL"}
  BY DEF Howto
<1>3. Howto(letters \cup {"V"}) = Howto(letters) \cup {"VERBOSE"}
  BY DEF Howto
<1>4. \A c \in {"p", "f", "d", "D"} : Howto(letters \cup {c}) = Howto(letters)
  BY DEF Howto
<1> QED
  BY <1>1, <1>2, <1>3, <1>4

LEMMA InvInit == Init => IInv
<1> SUFFICES ASSUME Init PROVE IInv
  OBVIOUS
<1>1. Len(argv) \in Nat \ {0}
  BY ArgumentType DEF Init
<1>2. TypeOK /\ LastWord
  BY <1>1 DEF Init, TypeOK, LastWord
<1>3. Position
  BY DEF Init, Position
<1>4. Scanned = {}
  <2> SUFFICES ASSUME NEW k \in Reached, NEW n \in DOMAIN argv[k].letters, Passed(k, n)
               PROVE  FALSE
    BY DEF Scanned
  <2>1. k \in 2 .. Len(argv) /\ n \in 1 .. Len(argv[k].letters) /\ Len(argv[k].letters) \in Nat
    BY ArgumentType DEF Init, Reached
  <2> QED
    BY <1>1, <2>1 DEF Init, Passed
<1>5. Match({})
  <2>1. Howto({}) = {}
    BY DEF Howto
  <2>2. /\ Options.pretend = FALSE /\ Options.force = FALSE /\ Options.debug = FALSE
        /\ Options.debugAssembly = FALSE /\ Options.boot_howto = {}
    BY DEF Init
  <2>3. Options.debug = ({} \cap {"d", "D"} # {})
    BY <2>2
  <2>4. {} \cap {"h", "v", "?"} = {}
    OBVIOUS
  <2>5. \A l : (l \in {}) = FALSE
    OBVIOUS
  <2> QED
    BY <2>1, <2>2, <2>3, <2>4, <2>5, Zenon DEF Match, Means
<1> QED
  BY <1>2, <1>3, <1>4, <1>5 DEF IInv, Init

\* An option that sets something of Options sets what its letter means.
LEMMA OptionSets ==
  ASSUME IInv, NEW c \in Letters, NEW options, getopt_long(c), Set(options),
         options \in Record, options.root = Options.root,
         \A letters : Means(Options, letters) => Means(options, letters \cup {c})
  PROVE  IInv'
<1>1. TypeOK /\ LastWord /\ Position /\ Match(Scanned) /\ pc = "options"
  BY DEF IInv, getopt_long
<1>2. UNCHANGED <<argv, posix, i, pc, status>> /\ Options' = options
  BY DEF Set
<1>3. /\ Position' /\ Scanned' = Scanned \cup {c}
      /\ optind' \in 2 .. Len(argv) + 1 /\ nextchar' \in Nat \ {0}
  BY <1>1, <1>2, Advance
<1>4. Match(Scanned)'
  BY <1>1, <1>2, <1>3 DEF Match
<1>5. TypeOK'
  BY <1>1, <1>2, <1>3 DEF TypeOK, Record
<1>6. LastWord'
  BY <1>1, <1>2 DEF LastWord
<1> QED
  BY <1>1, <1>2, <1>3, <1>4, <1>5, <1>6 DEF IInv

\* An option that ends the run leaves nothing to go wrong but the types.
LEMMA OptionReturns ==
  ASSUME IInv, NEW c \in Letters, NEW code \in {"ok", "usage"}, getopt_long(c), Return(code)
  PROVE  IInv'
<1>1. TypeOK /\ LastWord /\ Position
  BY DEF IInv, getopt_long
<1>2. UNCHANGED <<argv, posix, i, Options>> /\ pc' = "done" /\ status' = code
  BY DEF Return
<1>3. optind' \in 2 .. Len(argv) + 1 /\ nextchar' \in Nat \ {0}
  BY <1>1, <1>2, Advance
<1>4. TypeOK' /\ LastWord'
  BY <1>1, <1>2, <1>3 DEF TypeOK, LastWord
<1> QED
  BY <1>2, <1>4 DEF IInv

\* Each of the options.
LEMMA OptionStep ==
  ASSUME IInv, pretend \/ force \/ debug \/ debugAsm \/ cdrom \/ serial \/ verbose
               \/ help \/ version \/ invalid
  PROVE  IInv'
<1>1. Options \in Record
  BY DEF IInv, TypeOK, Record
<1>2. CASE pretend
  <2> DEFINE o == [Options EXCEPT !.pretend = TRUE]
  <2>1. o \in Record /\ o.root = Options.root
    BY <1>1 DEF Record
  <2>2. getopt_long("p") /\ Set(o)
    BY <1>2 DEF pretend
  <2>3. ASSUME NEW letters, Means(Options, letters) PROVE Means(o, letters \cup {"p"})
    <3>1. o.boot_howto = Howto(letters \cup {"p"})
      BY <1>1, <2>3, HowtoAdds DEF Means, Record
    <3>2. o.pretend = ("p" \in letters \cup {"p"})
      BY <1>1, <2>3 DEF Means, Record
    <3>3. o.force = ("f" \in letters \cup {"p"})
      BY <1>1, <2>3 DEF Means, Record
    <3>4. o.debug = ((letters \cup {"p"}) \cap {"d", "D"} # {})
      BY <1>1, <2>3 DEF Means, Record
    <3>5. o.debugAssembly = ("D" \in letters \cup {"p"})
      BY <1>1, <2>3 DEF Means, Record
    <3>6. (letters \cup {"p"}) \cap {"h", "v", "?"} = {}
      BY <2>3 DEF Means
    <3> QED
      BY <3>1, <3>2, <3>3, <3>4, <3>5, <3>6 DEF Means
  <2> QED
    BY <2>1, <2>2, <2>3, OptionSets DEF Letters
<1>3. CASE force
  <2> DEFINE o == [Options EXCEPT !.force = TRUE]
  <2>1. o \in Record /\ o.root = Options.root
    BY <1>1 DEF Record
  <2>2. getopt_long("f") /\ Set(o)
    BY <1>3 DEF force
  <2>3. ASSUME NEW letters, Means(Options, letters) PROVE Means(o, letters \cup {"f"})
    <3>1. o.boot_howto = Howto(letters \cup {"f"})
      BY <1>1, <2>3, HowtoAdds DEF Means, Record
    <3>2. o.pretend = ("p" \in letters \cup {"f"})
      BY <1>1, <2>3 DEF Means, Record
    <3>3. o.force = ("f" \in letters \cup {"f"})
      BY <1>1, <2>3 DEF Means, Record
    <3>4. o.debug = ((letters \cup {"f"}) \cap {"d", "D"} # {})
      BY <1>1, <2>3 DEF Means, Record
    <3>5. o.debugAssembly = ("D" \in letters \cup {"f"})
      BY <1>1, <2>3 DEF Means, Record
    <3>6. (letters \cup {"f"}) \cap {"h", "v", "?"} = {}
      BY <2>3 DEF Means
    <3> QED
      BY <3>1, <3>2, <3>3, <3>4, <3>5, <3>6 DEF Means
  <2> QED
    BY <2>1, <2>2, <2>3, OptionSets DEF Letters
<1>4. CASE debug
  <2> DEFINE o == [Options EXCEPT !.debug = TRUE]
  <2>1. o \in Record /\ o.root = Options.root
    BY <1>1 DEF Record
  <2>2. getopt_long("d") /\ Set(o)
    BY <1>4 DEF debug
  <2>3. ASSUME NEW letters, Means(Options, letters) PROVE Means(o, letters \cup {"d"})
    <3>1. o.boot_howto = Howto(letters \cup {"d"})
      BY <1>1, <2>3, HowtoAdds DEF Means, Record
    <3>2. o.pretend = ("p" \in letters \cup {"d"})
      BY <1>1, <2>3 DEF Means, Record
    <3>3. o.force = ("f" \in letters \cup {"d"})
      BY <1>1, <2>3 DEF Means, Record
    <3>4. o.debug = ((letters \cup {"d"}) \cap {"d", "D"} # {})
      BY <1>1, <2>3 DEF Means, Record
    <3>5. o.debugAssembly = ("D" \in letters \cup {"d"})
      BY <1>1, <2>3 DEF Means, Record
    <3>6. (letters \cup {"d"}) \cap {"h", "v", "?"} = {}
      BY <2>3 DEF Means
    <3> QED
      BY <3>1, <3>2, <3>3, <3>4, <3>5, <3>6 DEF Means
  <2> QED
    BY <2>1, <2>2, <2>3, OptionSets DEF Letters
<1>5. CASE debugAsm
  <2> DEFINE o == [Options EXCEPT !.debug = TRUE, !.debugAssembly = TRUE]
  <2>1. o \in Record /\ o.root = Options.root
    BY <1>1 DEF Record
  <2>2. getopt_long("D") /\ Set(o)
    BY <1>5 DEF debugAsm
  <2>3. ASSUME NEW letters, Means(Options, letters) PROVE Means(o, letters \cup {"D"})
    <3>1. o.boot_howto = Howto(letters \cup {"D"})
      BY <1>1, <2>3, HowtoAdds DEF Means, Record
    <3>2. o.pretend = ("p" \in letters \cup {"D"})
      BY <1>1, <2>3 DEF Means, Record
    <3>3. o.force = ("f" \in letters \cup {"D"})
      BY <1>1, <2>3 DEF Means, Record
    <3>4. o.debug = ((letters \cup {"D"}) \cap {"d", "D"} # {})
      BY <1>1, <2>3 DEF Means, Record
    <3>5. o.debugAssembly = ("D" \in letters \cup {"D"})
      BY <1>1, <2>3 DEF Means, Record
    <3>6. (letters \cup {"D"}) \cap {"h", "v", "?"} = {}
      BY <2>3 DEF Means
    <3> QED
      BY <3>1, <3>2, <3>3, <3>4, <3>5, <3>6 DEF Means
  <2> QED
    BY <2>1, <2>2, <2>3, OptionSets DEF Letters
<1>6. CASE cdrom
  <2> DEFINE o == [Options EXCEPT !.boot_howto = @ \cup {"CDROM"}]
  <2>1. o \in Record /\ o.root = Options.root
    BY <1>1 DEF Record
  <2>2. getopt_long("c") /\ Set(o)
    BY <1>6 DEF cdrom
  <2>3. ASSUME NEW letters, Means(Options, letters) PROVE Means(o, letters \cup {"c"})
    <3>1. o.boot_howto = Howto(letters \cup {"c"})
      BY <1>1, <2>3, HowtoAdds DEF Means, Record
    <3> QED
      BY <1>1, <2>3, <3>1 DEF Means, Record
  <2> QED
    BY <2>1, <2>2, <2>3, OptionSets DEF Letters
<1>7. CASE serial
  <2> DEFINE o == [Options EXCEPT !.boot_howto = @ \cup {"MULTIPLE", "SERIAL"}]
  <2>1. o \in Record /\ o.root = Options.root
    BY <1>1 DEF Record
  <2>2. getopt_long("s") /\ Set(o)
    BY <1>7 DEF serial
  <2>3. ASSUME NEW letters, Means(Options, letters) PROVE Means(o, letters \cup {"s"})
    <3>1. o.boot_howto = Howto(letters \cup {"s"})
      BY <1>1, <2>3, HowtoAdds DEF Means, Record
    <3> QED
      BY <1>1, <2>3, <3>1 DEF Means, Record
  <2> QED
    BY <2>1, <2>2, <2>3, OptionSets DEF Letters
<1>8. CASE verbose
  <2> DEFINE o == [Options EXCEPT !.boot_howto = @ \cup {"VERBOSE"}]
  <2>1. o \in Record /\ o.root = Options.root
    BY <1>1 DEF Record
  <2>2. getopt_long("V") /\ Set(o)
    BY <1>8 DEF verbose
  <2>3. ASSUME NEW letters, Means(Options, letters) PROVE Means(o, letters \cup {"V"})
    <3>1. o.boot_howto = Howto(letters \cup {"V"})
      BY <1>1, <2>3, HowtoAdds DEF Means, Record
    <3> QED
      BY <1>1, <2>3, <3>1 DEF Means, Record
  <2> QED
    BY <2>1, <2>2, <2>3, OptionSets DEF Letters
<1>9. CASE help
  BY <1>9, OptionReturns DEF help, Letters
<1>10. CASE version
  BY <1>10, OptionReturns DEF version, Letters
<1>11. CASE invalid
  BY <1>11, OptionReturns DEF invalid, Letters
<1> QED
  BY <1>2, <1>3, <1>4, <1>5, <1>6, <1>7, <1>8, <1>9, <1>10, <1>11

\* When getopt_long finds no more options, it has returned every letter.
LEMMA AllScanned ==
  ASSUME TypeOK, Position, OptionArgs = {}
  PROVE  Scanned = Given
<1>1. Len(argv) \in Nat \ {0} /\ optind \in Nat /\ optind >= 2 /\ nextchar \in Nat \ {0}
  BY ArgumentType DEF TypeOK
<1>2. ASSUME NEW k \in Reached PROVE k < optind
  <2> SUFFICES ASSUME k >= optind PROVE FALSE
    BY <1>1 DEF Reached
  <2>1. k \in OptionArgs
    BY <1>1 DEF Reached, OptionArgs
  <2> QED
    BY <2>1
<1>3. Scanned = {c \in Letters : \E k \in Reached : \E n \in DOMAIN argv[k].letters :
                                   argv[k].letters[n] = c}
  BY <1>2 DEF Scanned, Passed
<1>4. \A k \in Reached : \A n \in DOMAIN argv[k].letters : argv[k].letters[n] \in Letters
  BY ArgumentType DEF TypeOK, Reached
<1>5. Given = UNION {{argv[k].letters[n] : n \in DOMAIN argv[k].letters} : k \in Reached}
  BY DEF Given, Reached
<1> QED
  BY <1>3, <1>4, <1>5

\* The end of the options, and what the root loop does.
LEMMA RootStep ==
  ASSUME IInv, endOfOptions \/ positional \/ noRoot \/ run
  PROVE  IInv'
<1>1. TypeOK /\ LastWord
  BY DEF IInv
<1>2. /\ Len(argv) \in Nat \ {0} /\ DOMAIN argv = 1 .. Len(argv) /\ i \in 1 .. Len(argv) + 1
      /\ Options \in Record
  BY <1>1, ArgumentType DEF TypeOK, Record
<1>3. CASE endOfOptions
  <2>1. UNCHANGED <<argv, posix, Options, optind, nextchar, i, status>> /\ pc' = "root"
        /\ pc = "options" /\ OptionArgs = {}
    BY <1>3 DEF endOfOptions
  <2>2. Match(Given)
    BY <2>1, <1>1, AllScanned DEF IInv
  <2>3. Match(Given)'
    <3>1. Given' = Given
      BY <2>1 DEF Given, Stops
    <3> QED
      BY <2>1, <2>2, <3>1 DEF Match
  <2>4. TypeOK' /\ LastWord'
    BY <1>1, <2>1 DEF TypeOK, LastWord
  <2> QED
    BY <2>1, <2>3, <2>4 DEF IInv
<1>4. CASE positional
  <2>1. /\ pc = "root" /\ i <= Len(argv) /\ i' = i + 1
        /\ Options' = IF argv[i].kind = "word" THEN [Options EXCEPT !.root = i] ELSE Options
        /\ UNCHANGED <<argv, posix, optind, nextchar, pc, status>>
    BY <1>4 DEF positional
  <2>2. Options' \in Record
    BY <1>2, <2>1 DEF Record
  <2>3. TypeOK'
    BY <1>1, <1>2, <2>1, <2>2 DEF TypeOK, Record
  <2>4. i \in 1 .. Len(argv) /\ NoRoot \notin Nat
    BY <1>2, <2>1, CommandLineAssumption
  <2>5. LastWord'
    <3>1. CASE argv[i].kind = "word"
      <4>1. Options'.root = i
        BY <1>2, <2>1, <3>1 DEF Record
      <4> QED
        BY <2>1, <2>4, <3>1, <4>1 DEF LastWord
    <3>2. CASE argv[i].kind # "word"
      <4>1. Options' = Options
        BY <2>1, <3>2
      <4>2. 1 .. i' - 1 = (1 .. i - 1) \cup {i}
        BY <2>1, <2>4
      <4>3. \A r \in 1 .. i - 1 : r + 1 .. i' - 1 = (r + 1 .. i - 1) \cup {i}
        BY <2>1, <2>4
      <4> QED
        BY <1>1, <2>1, <3>2, <4>1, <4>2, <4>3 DEF LastWord
    <3> QED
      BY <3>1, <3>2
  <2>6. Match(Given)'
    <3>1. Match(Given)
      BY <2>1 DEF IInv
    <3>2. Given' = Given
      BY <2>1 DEF Given, Stops
    <3> QED
      BY <1>2, <2>1, <3>1, <3>2 DEF Match, Means, Record
  <2> QED
    BY <2>1, <2>3, <2>5, <2>6 DEF IInv
<1>5. CASE noRoot
  <2>1. UNCHANGED <<argv, posix, Options, optind, nextchar, i>> /\ pc' = "done" /\ status' = "usage"
    BY <1>5 DEF noRoot, Return
  <2>2. TypeOK' /\ LastWord'
    BY <1>1, <2>1 DEF TypeOK, LastWord
  <2> QED
    BY <2>1, <2>2 DEF IInv
<1>6. CASE run
  <2>1. /\ UNCHANGED <<argv, posix, Options, optind, nextchar, i, status>> /\ pc' = "geteuid"
        /\ pc = "root" /\ i > Len(argv) /\ Options.root # NoRoot
    BY <1>6 DEF run
  <2>2. TypeOK' /\ LastWord'
    BY <1>1, <2>1 DEF TypeOK, LastWord
  <2>3. Match(Given)'
    <3>1. Given' = Given
      BY <2>1 DEF Given, Stops
    <3> QED
      BY <2>1, <3>1 DEF IInv, Match
  <2> QED
    BY <2>1, <2>2, <2>3 DEF IInv
<1> QED
  BY <1>3, <1>4, <1>5, <1>6

LEMMA InvStep ==
  ASSUME IInv, [Next]_vars
  PROVE  IInv'
<1>1. CASE Parse
  BY <1>1, OptionStep, RootStep DEF Parse
<1>2. CASE UNCHANGED vars
  <2>1. Given' = Given /\ Stops' = Stops
    BY <1>2 DEF vars, Given, Stops
  <2>2. Scanned' = Scanned
    BY <1>2, <2>1 DEF vars, Scanned, Reached, Passed
  <2>3. TypeOK => TypeOK'
    BY <1>2 DEF vars, TypeOK
  <2>4. /\ LastWord => LastWord'
        /\ Match(Given) => Match(Given)'
        /\ Position => Position'
        /\ Match(Scanned) => Match(Scanned)'
    BY <1>2, <2>1, <2>2 DEF vars, LastWord, Position, Match
  <2> QED
    BY <1>2, <2>3, <2>4 DEF vars, IInv
<1> QED
  BY <1>1, <1>2 DEF Next, Decided

-----------------------------------------------------------------------------
(* The theorems                                                            *)

\* What has been scanned is what is set, and the root is the last word looked at,
\* in every state of main()'s first half.
THEOREM CommandLineInvariant == Spec => []IInv
<1>1. IInv /\ [Next]_vars => IInv'
  BY InvStep
<1> QED
  BY InvInit, <1>1, PTL DEF Spec

\* Neither getopt's scan nor the root loop runs past the arguments.
THEOREM CommandLineTyped == Spec => []TypeOK
<1>1. IInv => TypeOK
  BY DEF IInv
<1> QED
  BY CommandLineInvariant, <1>1, PTL

\* Whatever the command line, main() goes on with exactly the options given, in any
\* order, grouping and repetition.
THEOREM OptionsFollowed == Spec => []OptionsAsGiven
<1>1. IInv => OptionsAsGiven
  BY DEF IInv, OptionsAsGiven, Match, Means, Howto
<1> QED
  BY CommandLineInvariant, <1>1, PTL

\* No command line that asks for help or has an unknown option gets to the Bootloader.
THEOREM UnclearStops == Spec => []NoRunWhenUnclear
<1>1. IInv => NoRunWhenUnclear
  BY DEF IInv, NoRunWhenUnclear, Match, Means
<1> QED
  BY CommandLineInvariant, <1>1, PTL

\* The run uses the last word of the line as its root.
THEOREM LastWordIsRoot == Spec => []RootIsLastWord
<1>1. IInv => RootIsLastWord
  <2> SUFFICES ASSUME IInv, pc = "geteuid" PROVE RootIsLastWord
    BY DEF RootIsLastWord
  <2>1. i \in 1 .. Len(argv) + 1 /\ i > Len(argv) /\ Options.root # NoRoot
    BY DEF IInv, TypeOK
  <2>2. Len(argv) \in Nat \ {0}
    BY ArgumentType DEF IInv, TypeOK
  <2>3. i - 1 = Len(argv)
    BY <2>1, <2>2
  <2> QED
    BY <2>1, <2>3 DEF IInv, LastWord, RootIsLastWord
<1> QED
  BY CommandLineInvariant, <1>1, PTL
=============================================================================
