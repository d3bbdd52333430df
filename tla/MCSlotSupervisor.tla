-------------------------- MODULE MCSlotSupervisor --------------------------
(***************************************************************************)
(* Model checking of SlotSupervisor: the boot binding and one or two that   *)
(* the router minted, two handler threads so that one may come between the  *)
(* two gate sections of the other, and up to three faults.                  *)
(***************************************************************************)
EXTENDS SlotSupervisor

CONSTANTS boot, a, b, t1, t2

\* An owner who keeps asking for the slot, as the viewer's activate does.
AskingSpec == FairSpec /\ SF_vars(\E t \in Threads : HandleWake(t, a))

(* The docstring of adopt_binding: a browser left running is "force-stopped *)
(* here first (self-healing takeover ...): without it a stale READY         *)
(* lifecycle wedges the slot ... until a manual container restart."  A new  *)
(* owner who keeps asking is adopted sooner or later.                       *)
TakeoverHeals == []<>(bound = a)
=============================================================================
