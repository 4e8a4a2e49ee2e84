----------------------------- MODULE Environment -----------------------------
(***************************************************************************)
(* CEnvironmentWriter under writeDefaultEnv, and FreeBSD's walk over the   *)
(* static environment.  The writer keeps two zeroes behind the last        *)
(* string and puts each new string where they were; the reader goes from   *)
(* string to string and stops at an empty one.                             *)
(***************************************************************************)
EXTENDS Integers, Sequences, SequencesExt

CONSTANTS
  Strings,   \* what may be added; a string is a sequence of characters
  MaxAdded   \* how many times at most

\* writeDefaultEnv adds names with values, so none is empty; none holds a zero.
StringsAssumption == /\ Strings \subseteq Seq(Nat \ {0}) \ {<<>>}
                     /\ MaxAdded \in Nat

VARIABLES
  m_buffer, m_count,
  added,     \* the strings added so far
  pc,        \* "write", "read", "done"
  cp,        \* the reader's position
  seen       \* the strings it has passed

vars == <<m_buffer, m_count, added, pc, cp, seen>>

\* "Keep the buffer double-terminated."
clear == <<0, 0>>

Init ==
  /\ m_buffer = clear /\ m_count = 0
  /\ added = <<>> /\ pc = "write" /\ cp = 0 /\ seen = <<>>

resize(buffer, n) == buffer \o [b \in 1 .. n - Len(buffer) |-> 0]

\* Broken: behind the terminators.
place_AtEnd(end, size) == end - size

\* Where a string of that size is written in a buffer that ends there.
place(end, size) == end - size - 2

\* The string and its terminator are copied over what resize() left.
push(str) ==
  LET size   == Len(str) + 1
      buffer == resize(m_buffer, Len(m_buffer) + size)
  IN  [b \in DOMAIN buffer |->
         LET k == b - place(Len(buffer), size)
         IN  IF k \in DOMAIN str THEN str[k] ELSE IF k = size THEN 0 ELSE buffer[b]]

addString(str) ==
  /\ pc = "write" /\ m_count < MaxAdded
  /\ m_buffer' = push(str) /\ m_count' = m_count + 1
  /\ added' = Append(added, str)
  /\ UNCHANGED <<pc, cp, seen>>

\* The block is handed over, with any number of strings.
handOver ==
  /\ pc = "write"
  /\ pc' = IF m_buffer[1] = 0 THEN "done" ELSE "read"
  /\ UNCHANGED <<m_buffer, m_count, added, cp, seen>>

\* FreeBSD passes the string at cp and its zero, and stops if the next is empty.
kernenv_next ==
  /\ pc = "read"
  /\ \E n \in cp + 1 .. Len(m_buffer) - 1 :
       /\ m_buffer[n] = 0 /\ \A b \in cp + 1 .. n - 1 : m_buffer[b] # 0
       /\ seen' = Append(seen, SubSeq(m_buffer, cp + 1, n - 1))
       /\ cp' = n
       /\ pc' = IF m_buffer[n + 1] = 0 THEN "done" ELSE "read"
  /\ UNCHANGED <<m_buffer, m_count, added>>

\* A reader that finds no end is stuck.
Over == pc = "done" /\ UNCHANGED vars

Next == (\E str \in Strings : addString(str)) \/ handOver \/ kernenv_next \/ Over

Spec == Init /\ [][Next]_vars

-----------------------------------------------------------------------------
(* Properties                                                              *)

\* The reader meets the strings that were added, whole and in their order, and
\* stops only behind the last: no addition hides an earlier one or cuts it.
StringsRead ==
  /\ IsPrefix(seen, added)
  /\ pc = "done" => seen = added
=============================================================================
