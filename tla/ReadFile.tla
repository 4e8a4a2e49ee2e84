------------------------------ MODULE ReadFile ------------------------------
(***************************************************************************)
(* zslurp, through which fontLoad reads: it looks at the first two bytes,  *)
(* rewinds, and unpacks the file or starts over with slurp, through which  *)
(* everything else is read.                                                *)
(* The two bytes are extracted with >>, which skips white space and, on a  *)
(* stream that has failed, leaves its operand as it was: uninitialised.    *)
(***************************************************************************)
EXTENDS Integers, Sequences

CONSTANTS
  Contents,   \* the contents a file may have
  StaleByte   \* what magic0 and magic1 may hold before anything is read

Bytes == {"1f", "8b", "space", "x"}

ContentsAssumption == Contents \subseteq Seq(Bytes) /\ StaleByte \subseteq Bytes

VARIABLES
  file, exists,
  pc,           \* the statement that comes next, or "returned" or "throws"
  good, tellg,  \* the stream: neither failed nor at its end; bytes before its position
  magic,
  buffer

vars == <<file, exists, pc, good, tellg, magic, buffer>>

Init ==
  /\ file \in Contents /\ exists \in BOOLEAN
  /\ pc = "open" /\ good = FALSE /\ tellg = 0
  /\ magic \in StaleByte \X StaleByte
  /\ buffer = <<>>

open ==
  /\ pc = "open"
  /\ good' = exists
  /\ pc' = "magic0"
  /\ UNCHANGED <<file, exists, tellg, magic, buffer>>

\* Where the next character that is no white space is.
NextChar(n) == /\ n \in tellg + 1 .. Len(file) /\ file[n] # "space"
               /\ \A m \in tellg + 1 .. n - 1 : file[m] = "space"

\* One byte, or the end of the file.
extract(k, next) ==
  /\ \/ /\ good
        /\ \E n \in DOMAIN file :
             NextChar(n) /\ magic' = [magic EXCEPT ![k] = file[n]] /\ tellg' = n
        /\ UNCHANGED good
     \/ /\ good => \A n \in DOMAIN file : ~NextChar(n)
        /\ good' = FALSE /\ tellg' = IF good THEN Len(file) ELSE tellg
        /\ UNCHANGED magic
  /\ pc' = next
  /\ UNCHANGED <<file, exists, buffer>>

magic0 == pc = "magic0" /\ extract(1, "magic1")
magic1 == pc = "magic1" /\ extract(2, "seekg")

\* Broken: not rewound.
seekg_Dropped ==
  /\ pc = "seekg"
  /\ pc' = IF magic = <<"1f", "8b">> THEN "unzip" ELSE "slurp"
  /\ UNCHANGED <<file, exists, good, tellg, magic, buffer>>

\* A stream that has failed stays where it is.
seekg ==
  /\ pc = "seekg"
  /\ tellg' = IF good THEN 0 ELSE tellg
  /\ pc' = IF magic = <<"1f", "8b">> THEN "unzip" ELSE "slurp"
  /\ UNCHANGED <<file, exists, good, magic, buffer>>

\* A gzip file is its magic and, here, what it unpacks to; one with less is damaged.
IsGzip(s)   == Len(s) > 2 /\ s[1] = "1f" /\ s[2] = "8b"
Unpacked(s) == SubSeq(s, 3, Len(s))

unzip ==
  /\ pc = "unzip"
  /\ LET rest == IF exists THEN SubSeq(file, tellg + 1, Len(file)) ELSE <<>>
     IN  IF IsGzip(rest) THEN buffer' = Unpacked(rest) /\ pc' = "returned"
         ELSE pc' = "throws" /\ UNCHANGED buffer
  /\ UNCHANGED <<file, exists, good, tellg, magic>>

\* It opens the file again, and throws where that fails.
slurp ==
  /\ pc = "slurp"
  /\ IF exists THEN buffer' = file /\ pc' = "returned" ELSE pc' = "throws" /\ UNCHANGED buffer
  /\ UNCHANGED <<file, exists, good, tellg, magic>>

Over == pc \in {"returned", "throws"} /\ UNCHANGED vars

Next == open \/ magic0 \/ magic1 \/ seekg \/ unzip \/ slurp \/ Over

Spec == Init /\ [][Next]_vars

-----------------------------------------------------------------------------
(* Properties                                                              *)

\* What it is given is the file, or what that unpacks to if it is a gzip file; never
\* a part of it, never a file unpacked once more, when the bytes looked at were not
\* the first two or not there, and nothing at all without a file.
ContentDelivered ==
  pc = "returned" =>
    exists /\ buffer = IF IsGzip(file) THEN Unpacked(file) ELSE file
=============================================================================
