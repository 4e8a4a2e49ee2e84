-------------------------- MODULE MCModuleMetadata --------------------------
(***************************************************************************)
(* Values for TLC: the program of writeMetadata with memory maps that do   *)
(* and do not end aligned, and two that start with data of every length    *)
(* modulo the alignment.                                                   *)
(***************************************************************************)
EXTENDS ModuleMetadata

MC_ALIGN == 8
MC_Programs ==
  {writeMetadata(SMAP(n)) : n \in 1 .. 3} \cup {writeMetadata(EFI_MAP)}
    \cup {<<[op |-> op, type |-> 6, bytes |-> n], [op |-> "var", type |-> 3, bytes |-> 8]>> :
            op \in {"str", "span"}, n \in 0 .. 8}
=============================================================================
