-------------------------- MODULE MCBootTrampoline --------------------------
(***************************************************************************)
(* Values for TLC: page tables of 32 entries instead of 512, so that a     *)
(* page has 256 bytes, a large page 32 pages, and the block just fits      *)
(* below the second frame.                                                 *)
(***************************************************************************)
EXTENDS BootTrampoline

MC_EntriesPerTable == 32
MC_BasePage == 16
MC_HalfWord == 4096

\* Entry points in the first frame, at the table's end and in the second table.
MC_Handoffs ==
  [btext : {1, 31, 32}, modulep : {4096, WordSize - 2}, kernend : {8192, WordSize - 1}]
MC_StaleStack == {0, 77}
=============================================================================
