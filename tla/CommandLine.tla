----------------------------- MODULE CommandLine -----------------------------
(***************************************************************************)
(* The first half of main(): the options, then the root.  An argument is   *)
(* abstracted to what getopt_long and the root loop tell apart: a group of *)
(* options (a long one is a group of one letter), the "--" that ends them, *)
(* or an operand: a word, an empty one, or a lone "-".                     *)
(***************************************************************************)
EXTENDS Naturals, Sequences

CONSTANTS
  CommandLines,  \* the argument vectors, program name first
  NoRoot         \* the empty path Options.root starts as

\* "?" stands for anything getopt_long does not know, "--ver" included, which
\* could be --version or --verbose.
Letters  == {"h", "v", "p", "f", "d", "D", "c", "s", "V", "?"}
Operands == {"word", "empty", "dash"}
Argument == [kind : {"options", "end"} \cup Operands, letters : Seq(Letters)]

\* Words are told apart by the argument number they come from.
ASSUME CommandLineAssumption ==
  /\ \A argv \in CommandLines :
       /\ argv \in Seq(Argument) /\ Len(argv) > 0
       /\ \A k \in DOMAIN argv : argv[k].kind = "options" => argv[k].letters # <<>>
  /\ NoRoot \notin Nat

VARIABLES
  argv,
  posix,     \* is POSIXLY_CORRECT set?  getopt then stops at the first operand
  optind,    \* getopt: the argument to look at next
  nextchar,  \* getopt: and the letter in it
  Options,   \* boot_howto as the set of its bits
  i,         \* the root loop's counter
  pc, status

vars == <<argv, posix, optind, nextchar, Options, i, pc, status>>

Init ==
  /\ argv \in CommandLines
  /\ posix \in BOOLEAN
  /\ optind = 2 /\ nextchar = 1
  /\ Options = [debug |-> FALSE, debugAssembly |-> FALSE, pretend |-> FALSE,
                force |-> FALSE, root |-> NoRoot, boot_howto |-> {}]
  /\ i = 1
  /\ pc = "options" /\ status = "running"

-----------------------------------------------------------------------------
(* getopt_long                                                             *)

Stops == {"end"} \cup IF posix THEN Operands ELSE {}

\* The argument vector is scanned past operands, which getopt moves behind the
\* options without changing their order.
OptionArgs == {k \in optind .. Len(argv) :
                 /\ argv[k].kind = "options"
                 /\ \A j \in optind .. k - 1 : argv[j].kind \notin Stops}
NextArg  == CHOOSE k \in OptionArgs : \A j \in OptionArgs : k <= j
NextChar == IF NextArg = optind THEN nextchar ELSE 1

\* It returns the option letter c.
getopt_long(c) ==
  /\ pc = "options" /\ OptionArgs # {}
  /\ argv[NextArg].letters[NextChar] = c
  /\ IF NextChar < Len(argv[NextArg].letters)
     THEN optind' = NextArg /\ nextchar' = NextChar + 1
     ELSE optind' = NextArg + 1 /\ nextchar' = 1

-----------------------------------------------------------------------------
(* main()                                                                  *)

Set(options) ==
  /\ Options' = options
  /\ UNCHANGED <<argv, posix, i, pc, status>>

Return(code) ==
  /\ pc' = "done" /\ status' = code
  /\ UNCHANGED <<argv, posix, i, Options>>

pretend  == getopt_long("p") /\ Set([Options EXCEPT !.pretend = TRUE])
force    == getopt_long("f") /\ Set([Options EXCEPT !.force = TRUE])
debug    == getopt_long("d") /\ Set([Options EXCEPT !.debug = TRUE])
debugAsm == getopt_long("D") /\ Set([Options EXCEPT !.debug = TRUE, !.debugAssembly = TRUE])

\* Broken: a boot flag replaces the others.
serial_Assigned ==
  getopt_long("s") /\ Set([Options EXCEPT !.boot_howto = {"MULTIPLE", "SERIAL"}])

cdrom   == getopt_long("c") /\ Set([Options EXCEPT !.boot_howto = @ \cup {"CDROM"}])
serial  == getopt_long("s") /\ Set([Options EXCEPT !.boot_howto = @ \cup {"MULTIPLE", "SERIAL"}])
verbose == getopt_long("V") /\ Set([Options EXCEPT !.boot_howto = @ \cup {"VERBOSE"}])

help    == getopt_long("h") /\ Return("ok")
version == getopt_long("v") /\ Return("ok")

\* Broken: reports the option and goes on.
invalid_Ignored == getopt_long("?") /\ Set(Options)
invalid == getopt_long("?") /\ Return("usage")

endOfOptions ==
  /\ pc = "options" /\ OptionArgs = {}
  /\ pc' = "root"
  /\ UNCHANGED <<argv, posix, optind, nextchar, Options, i, status>>

\* Broken: the first word is kept.
positional_First ==
  /\ pc = "root" /\ i <= Len(argv)
  /\ Options' = IF argv[i].kind = "word" /\ Options.root = NoRoot
                THEN [Options EXCEPT !.root = i] ELSE Options
  /\ i' = i + 1
  /\ UNCHANGED <<argv, posix, optind, nextchar, pc, status>>

\* Broken: the argument after the word; a loop that is stuck on what it skips.
positional_AfterIncrement ==
  /\ pc = "root" /\ i <= Len(argv)
  /\ Options' = IF argv[i].kind = "word" THEN [Options EXCEPT !.root = i + 1] ELSE Options
  /\ i' = i + 1
  /\ UNCHANGED <<argv, posix, optind, nextchar, pc, status>>
positional_Stuck ==
  /\ pc = "root" /\ i <= Len(argv)
  /\ Options' = IF argv[i].kind = "word" THEN [Options EXCEPT !.root = i] ELSE Options
  /\ i' = IF argv[i].kind = "word" THEN i + 1 ELSE i
  /\ UNCHANGED <<argv, posix, optind, nextchar, pc, status>>

\* The loop skips what is empty or starts with a dash, and starts at argv[0].
positional ==
  /\ pc = "root" /\ i <= Len(argv)
  /\ Options' = IF argv[i].kind = "word" THEN [Options EXCEPT !.root = i] ELSE Options
  /\ i' = i + 1
  /\ UNCHANGED <<argv, posix, optind, nextchar, pc, status>>

noRoot ==
  /\ pc = "root" /\ i > Len(argv) /\ Options.root = NoRoot
  /\ Return("usage")
  /\ UNCHANGED <<optind, nextchar>>

\* What Bootloader.tla models starts here.
run ==
  /\ pc = "root" /\ i > Len(argv) /\ Options.root # NoRoot
  /\ pc' = "geteuid"
  /\ UNCHANGED <<argv, posix, optind, nextchar, Options, i, status>>

Decided == pc \in {"geteuid", "done"} /\ UNCHANGED vars

Parse == \/ pretend \/ force \/ debug \/ debugAsm \/ cdrom \/ serial \/ verbose
         \/ help \/ version \/ invalid \/ endOfOptions \/ positional \/ noRoot \/ run

Next == Parse \/ Decided

Spec == Init /\ [][Next]_vars /\ WF_vars(Parse)

-----------------------------------------------------------------------------
(* Properties                                                              *)

\* Every variable stays in its range: neither scan runs past the arguments.
TypeOK ==
  /\ argv \in CommandLines /\ posix \in BOOLEAN
  /\ optind \in 2 .. Len(argv) + 1 \cup {2} /\ nextchar \in Nat \ {0}
  /\ Options \in [debug : BOOLEAN, debugAssembly : BOOLEAN, pretend : BOOLEAN,
                  force : BOOLEAN, root : DOMAIN argv \cup {NoRoot},
                  boot_howto : SUBSET {"CDROM", "MULTIPLE", "SERIAL", "VERBOSE"}]
  /\ i \in 1 .. Len(argv) + 1
  /\ pc \in {"options", "root", "geteuid", "done"}
  /\ status \in {"running", "ok", "usage"}

\* The letters a reader of the command line sees before "--" (or, with
\* POSIXLY_CORRECT, before the first operand), wherever they stand.
Given ==
  UNION {{argv[k].letters[n] : n \in DOMAIN argv[k].letters} :
           k \in {k \in 2 .. Len(argv) :
                    /\ argv[k].kind = "options"
                    /\ \A j \in 2 .. k - 1 : argv[j].kind \notin Stops}}

\* A run goes ahead with exactly the options that were given, in whatever order,
\* grouping and repetition; -D brings debugging with it, -s two boot flags.
OptionsAsGiven ==
  pc = "geteuid" =>
    /\ Options.pretend = ("p" \in Given) /\ Options.force = ("f" \in Given)
    /\ Options.debug = (Given \cap {"d", "D"} # {})
    /\ Options.debugAssembly = ("D" \in Given)
    /\ Options.boot_howto = {b \in {"CDROM"} : "c" \in Given}
                              \cup {b \in {"MULTIPLE", "SERIAL"} : "s" \in Given}
                              \cup {b \in {"VERBOSE"} : "V" \in Given}

\* A command line with an unknown option or a request for help never gets as far as
\* the Bootloader, wherever in the line the option is.
NoRunWhenUnclear == pc = "geteuid" => Given \cap {"h", "v", "?"} = {}

\* The run uses the last word of the line, the program's own name if there is no
\* other, also when the word follows "--" or precedes the options.
RootIsLastWord ==
  pc = "geteuid" =>
    /\ argv[Options.root].kind = "word"
    /\ \A k \in Options.root + 1 .. Len(argv) : argv[k].kind # "word"

\* Whatever the arguments, main() gets to a decision.
EventuallyDecided == <>(pc \in {"geteuid", "done"})

\* main.cxx:119, "positional argument 0: root": the root is the first operand that
\* names something, and usage() tells the caller when there is none.
RootIsPositional0 ==
  pc = "geteuid" =>
    /\ Options.root > 1
    /\ \A k \in 2 .. Options.root - 1 : argv[k].kind # "word"
=============================================================================
