------------------------------ MODULE LoginOnce ------------------------------
(***************************************************************************)
(* What the broker promises of one login request, however often it is       *)
(* retried: the browser operation is begun once, its outcome is settled     *)
(* once, everyone who asks is told the settled outcome, and an outcome that  *)
(* is not known is never turned into a second attempt.  Only a request whose *)
(* settled outcome has been forgotten may begin anew.                       *)
(*                                                                         *)
(* Independent requests may move in the same step.                          *)
(***************************************************************************)
CONSTANTS
    Scopes,     \* the requests, each with everything that identifies it
    Results,    \* outcomes an operation may report
    Unknown,    \* the outcome of an operation that may or may not have run
    NoOutcome

VARIABLE login  \* by scope: stage, whether the operation ran, outcome, answers

Fresh == [stage |-> "free", ran |-> FALSE, outcome |-> NoOutcome, told |-> {}]

Begun(l) ==
    {m \in {[stage |-> "pending", ran |-> FALSE, outcome |-> NoOutcome, told |-> {}]} :
        l.stage \in {"free", "settled"}}

Run(l) ==
    {m \in {[stage |-> l.stage, ran |-> TRUE, outcome |-> l.outcome, told |-> l.told]} :
        l.stage = "pending" /\ ~l.ran}

Settled(l, r, answers) ==
    [stage |-> "settled", ran |-> l.ran, outcome |-> r, told |-> answers]

\* An outcome is that of the operation, or unknown; the caller may be told it
\* at once.
Settle(l) ==
    {m \in UNION {{Settled(l, r, l.told), Settled(l, r, l.told \cup {r})} :
                     r \in IF l.ran THEN Results \cup {Unknown} ELSE {Unknown}} :
        l.stage = "pending"}

Tell(l) == {m \in {[l EXCEPT !.told = @ \cup {l.outcome}]} : l.stage = "settled"}

Forget(l) ==
    {m \in {[stage |-> "free", ran |-> l.ran, outcome |-> NoOutcome, told |-> l.told]} :
        l.stage = "settled"}

Moves(l) == Begun(l) \cup Run(l) \cup Settle(l) \cup Tell(l) \cup Forget(l)

Init == login = [s \in Scopes |-> Fresh]

Next ==
    /\ DOMAIN login' = Scopes
    /\ \A s \in Scopes : login'[s] = login[s] \/ login'[s] \in Moves(login[s])

Spec == Init /\ [][Next]_login
=============================================================================
