---------------------------- MODULE BootContract ----------------------------
(***************************************************************************)
(* What one run of beastie promises the person who types the command: it   *)
(* is over one way or the other, it leaves the machine alone unless a      *)
(* reboot was wanted, and it starts a reboot only once a complete FreeBSD  *)
(* image is staged.  The machine then reaches it, unless another process   *)
(* has taken the image away meanwhile.  It promises nothing about an image *)
(* left staged by a run that ends without rebooting.                       *)
(***************************************************************************)
VARIABLES
  wanted,   \* is a reboot wanted at all (no --pretend)?
  staged,   \* is a complete image installed for the next kexec?
  lost,     \* has somebody else taken the staged image away?
  run,      \* "active", "rebooting", or "over" without a reboot
  machine

vars == <<wanted, staged, lost, run, machine>>

Init ==
  /\ wanted \in BOOLEAN
  /\ staged = FALSE /\ lost = FALSE
  /\ run = "active"
  /\ machine = "linux"

Stage ==
  /\ run = "active" /\ wanted /\ ~staged /\ ~lost
  /\ staged' = TRUE
  /\ UNCHANGED <<wanted, lost, run, machine>>

\* The run does not look again, and reboots all the same.
Lose ==
  /\ staged /\ machine # "kexeced"
  /\ staged' = FALSE /\ lost' = TRUE
  /\ UNCHANGED <<wanted, run, machine>>

Reboot ==
  /\ run = "active" /\ (staged \/ lost)
  /\ run' = "rebooting"
  /\ machine' \in {"shuttingdown", "kexeced"}
  /\ UNCHANGED <<wanted, staged, lost>>

GiveUp ==
  /\ run = "active"
  /\ run' = "over"
  /\ UNCHANGED <<wanted, staged, lost, machine>>

Arrive ==
  /\ machine = "shuttingdown"
  /\ machine' = "kexeced" \/ (lost /\ machine' = "firmware")
  /\ UNCHANGED <<wanted, staged, lost, run>>

Next == Stage \/ Lose \/ Reboot \/ GiveUp \/ Arrive

Spec == /\ Init /\ [][Next]_vars
        /\ WF_vars(Reboot \/ GiveUp) /\ WF_vars(Arrive)
=============================================================================
