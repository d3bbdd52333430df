----------------------------- MODULE SlotLeases -----------------------------
(***************************************************************************)
(* What RouterSessionStore (src/src/cloudbrowser/router/sessions.py)        *)
(* promises to the rest of the router: a table of sessions, each of them    *)
(* waiting, offered a browser slot, active on one or ended, in which a slot *)
(* is held by one session, a session becomes active only by activation of   *)
(* its own offer, on the slot that was offered, stays there until it ends,  *)
(* and never comes back.  When the table changes, and in whose favour, is   *)
(* the store's own affair; RouterSessions says how and keeps the promise.   *)
(***************************************************************************)
CONSTANTS
    Sessions,     \* session ids
    Slots,        \* browser slots
    NoSlot        \* the slot of a session that holds none

VARIABLE lease    \* by session id: its status and its slot

Lease == [status : {"WAITING", "OFFERED", "ACTIVE", "ENDED"}, slot : Slots \cup {NoSlot}]

\* No two sessions hold one slot, and exactly offered and active ones hold any.
Exclusive(table) ==
    /\ \A i \in Sessions :
          table[i].status \in {"OFFERED", "ACTIVE"} <=> table[i].slot # NoSlot
    /\ \A i, j \in Sessions :
          i # j /\ table[i].slot # NoSlot => table[i].slot # table[j].slot

\* What one session may become when it is not activated: it is offered a slot
\* or loses the offer, or it ends.
MayBecome(old, new) ==
    \/ new = old
    \/ old.status \in {"WAITING", "OFFERED"} /\ new.status \in {"WAITING", "OFFERED"}
    \/ new.status = "ENDED"

Rearrange ==
    /\ lease' \in [Sessions -> Lease]
    /\ \A i \in Sessions : MayBecome(lease[i], lease'[i])
    /\ Exclusive(lease')

Activate(i) ==
    /\ lease[i].status = "OFFERED"
    /\ lease' = [lease EXCEPT ![i].status = "ACTIVE"]

Init == lease = [i \in Sessions |-> [status |-> "WAITING", slot |-> NoSlot]]

Next == Rearrange \/ \E i \in Sessions : Activate(i)

Spec == Init /\ [][Next]_lease

=============================================================================
