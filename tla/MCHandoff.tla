----------------------------- MODULE MCHandoff -----------------------------
(***************************************************************************)
(* Values for TLC: page tables of 32 entries, hence pages of 256 bytes and *)
(* large pages of 8192; the kernel is at the second large page, as it is   *)
(* in the code.  One kernel is within a large page, one spans several, and *)
(* one puts its entry and what follows it into the second high table; the  *)
(* other files are those elfLoad lets through without a kernel in them.    *)
(***************************************************************************)
EXTENDS Handoff

MC_EntriesPerTable == 32
MC_PageSize == 256
MC_BootPhys == 2048
MC_KernPhys == 8192
MC_BootBlockSize == 4096
MC_HalfWord == 4096
MC_StaleStack == {77}

Kernel(type, entry, kern) == [type |-> type, entry |-> entry, kern |-> kern, sym |-> 256]
MC_KernelFiles ==
  {Kernel("REL", 0, 0), Kernel("EXEC", 8192, 0), Kernel("EXEC", 8192, 300), Kernel("EXEC", 17000, 16384),
   Kernel("EXEC", 270000, 300000)}
MC_FontFiles == {[load |-> "ok", size |-> 255]}
MC_EnvSizes == {130}
MC_MetaSizes == {255, 256}
MC_Howtos == {0}
MC_StaleAddrs == {0, 12345}
=============================================================================
