---------------------------- MODULE MCBootloader ----------------------------
(***************************************************************************)
(* Values for TLC.  Addresses are the real ones; block sizes sit on both   *)
(* sides of a page boundary, where roundup's habit of always adding a byte *)
(* shows.                                                                  *)
(***************************************************************************)
EXTENDS BootloaderContract

MC_PageSize == 4096
MC_BootPhys == 1048576      \* 0x10'0000
MC_KernPhys == 2097152      \* 0x20'0000
MC_BootBlockSize == 65536   \* 0x1'000 of text and 0xf'000 of data

Exec(entry, kern, sym) ==
  [type |-> "EXEC", entry |-> entry, kern |-> kern, sym |-> sym]
Other(type) == [type |-> type, entry |-> 0, kern |-> 0, sym |-> 0]

\* Files of a FreeBSD installation and broken ones.
MC_KernelFiles ==
  {Other("missing"), Other("invalid"), Exec(0, 4095, 24), Exec(7, 4096, 0)}
    \cup {Exec(7, k, s) : k \in {1, 4095, 4096}, s \in {24, 8192}}

\* Also what elfLoad lets through without a kernel in it.
MC_AnyFiles == {Other("REL"), Exec(7, 0, 24), Exec(7, 4096, 4096)}

MC_Font(outcome, n) == [load |-> outcome, size |-> n]
MC_FontFiles == {MC_Font("ok", 32), MC_Font("ok", 4096), MC_Font("throws", 1),
                 MC_Font("aborts", 1)}
MC_OneFont == {MC_Font("ok", 4096)}

MC_EnvSizes == {130, 4096}
MC_MetaSizes == {4095, 4104}
MC_One == {4096}
MC_Howtos == {0, 2048}
MC_StaleAddrs == {0, 12345}
=============================================================================
