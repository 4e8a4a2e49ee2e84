------------------------- MODULE BootloaderContract -------------------------
(***************************************************************************)
(* The Bootloader of main() under the contract of its caller.  An image    *)
(* counts as staged when FreeBSD could boot from it: all it will follow is *)
(* there and nothing of it is above kernend.                               *)
(***************************************************************************)
EXTENDS Bootloader

Contract == INSTANCE BootContract WITH
  wanted  <- ~opts.pretend,
  staged  <- kexec.owner = "beastie" /\ Reachable(kexec) /\ ClearOfKernend(kexec),
  run     <- IF exit = "running" THEN "active"
             ELSE IF exit \in {"replaced", "gone"} THEN "rebooting" ELSE "over",
  lost    <- lost,
  machine <- machine

\* Its safety part: every run starts and moves as the caller was promised.
ContractKept == Contract!Init /\ [][Contract!Next]_(Contract!vars)

\* Given an executable kernel or a broken file, every run of beastie is a run its caller
\* was promised, liveness included, whatever other processes do with kexec.
ContractMet == Contract!Spec
=============================================================================
