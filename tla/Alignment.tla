------------------------------ MODULE Alignment ------------------------------
(***************************************************************************)
(* The size helper of misc.hxx.  C++ integer division truncates, and every *)
(* caller passes non-negative operands, so \div is the same function.      *)
(***************************************************************************)
EXTENDS Integers

\* Always adds at least one byte: a multiple of n goes up to the next multiple.
roundup(i, n) == (i \div n + 1) * n

=============================================================================
