--------------------------- MODULE BrokerRequests ---------------------------
(***************************************************************************)
(* The guards of a credential login in the broker: BrokerHttpServer.handle  *)
(* (src/src/cloudbrowser/credential_broker/api.py), DurableNonceStore       *)
(* (nonce_store.py) and DurableIdempotencyStore (idempotency.py).           *)
(*                                                                         *)
(* The router mints a capability for each login call it forwards, with a    *)
(* nonce of its own; a caller who retries names the same request, so that   *)
(* several capabilities carry one operation scope.  Every request is served *)
(* by a thread of its own.  A store call reads the time, waits for SQLite's *)
(* write lock and is then atomic: reading the time and the transaction are  *)
(* two steps.  The tables survive a crash of the broker, the threads do     *)
(* not.  A store call may fail at any point without having changed a row.   *)
(*                                                                         *)
(* The wall clock and the monotonic clock are one integer clock that never  *)
(* runs backwards.  execute's own 30 s wait is left out: it starts after    *)
(* the deadline's window of at most 30 s, so the deadline ends first.       *)
(***************************************************************************)
EXTENDS Naturals, FiniteSets

CONSTANTS
    Scopes,         \* operation scopes (the ten columns of the primary key)
    Workers,        \* handler threads of the broker
    Ttl,            \* life of a capability
    Outer,          \* outer_timeout_s
    Lease,          \* reservation_lease_s
    Retention,      \* retention_s
    MaxNonces,      \* max_records of the nonce store
    MaxRecords,     \* max_records of the idempotency store
    MaxCaps,        \* bound of the model: capabilities ever minted
    MaxClock,       \* bound of the model: no request arrives later
    PromptReceipt   \* whether handle reads both of its clocks at one instant

ASSUME BrokerAssumption ==
    /\ Ttl \in Nat \ {0}
    /\ Outer \in Nat \ {0}
    /\ Lease \in Nat
    /\ Outer <= Lease
    /\ Retention \in Nat \ {0}
    /\ MaxNonces \in Nat
    /\ MaxRecords \in Nat
    /\ MaxCaps \in Nat
    /\ MaxClock \in Nat
    /\ PromptReceipt \in BOOLEAN

VARIABLES
    clock,
    scopeOf,    \* capabilities: what each nonce was minted for
    expires,    \*   and when it expires, 0 for one that is not minted yet
    nonces,     \* consumed_nonces
    rows,       \* operations, by scope
    tokens,     \* owner tokens ever drawn
    task,       \* what each thread is doing
    accepted,   \* observer: how often each nonce was consumed
    ran,        \* observer: whether the present reservation's operation began
    lastRun,    \* observer: when an operation of the scope last began
    told        \* observer: results answered since the last reservation

observers == <<accepted, ran, lastRun, told>>
capabilities == <<scopeOf, expires>>
vars == <<clock, capabilities, nonces, rows, tokens, task, observers>>

Nonces == 1..MaxCaps
Results == {"authenticated", "failed"}
Unknown == "unknown_outcome"
NoOutcome == "none"

NoRow == [state |-> "absent", owner |-> 0, until |-> 0, outcome |-> NoOutcome]

\* A reservation holds until its lease ends, a result until its retention ends.
Reserved(owner, now) ==
    [state |-> "reserved", owner |-> owner, until |-> now + Lease,
     outcome |-> NoOutcome]
Complete(row, outcome, now) ==
    [state |-> "complete", owner |-> row.owner, until |-> now + Retention,
     outcome |-> outcome]

Lapsed(row, now) == row.until <= now

Idle == [at |-> "idle", cap |-> 0, now |-> 0, deadline |-> 0, token |-> 0,
         outcome |-> NoOutcome]

Scope(w) == scopeOf[task[w].cap]
At(w, place) == task[w].at = place
Goto(w, place) == task' = [task EXCEPT ![w] = [@ EXCEPT !.at = place]]

\* Defect: fractions of a second are rounded up.
GotoAtRoundingUp(w, place) ==
    task' = [task EXCEPT ![w] = [@ EXCEPT !.at = place, !.now = clock + 1]]

\* Local code up to the next transaction, which begins by reading the time.
GotoAt(w, place) == task' = [task EXCEPT ![w] = [@ EXCEPT !.at = place, !.now = clock]]
Finished(w) == task' = [task EXCEPT ![w] = Idle]

Answer(w, outcome) ==
    /\ told' = [told EXCEPT ![Scope(w)] = @ \cup {outcome}]
    /\ Finished(w)

\* Defect: the deadline is not consulted.
NeverOutOfTime(w) == FALSE

\* BrokerDeadline.check raises.
OutOfTime(w) == task[w].deadline <= clock

(***************************************************************************)
(* The router, time, and a crash of the broker.                             *)
(***************************************************************************)
Mint(n, s) ==
    /\ expires[n] = 0
    /\ \A m \in Nonces : m < n => expires[m] # 0
    /\ clock < MaxClock
    /\ scopeOf' = [scopeOf EXCEPT ![n] = s]
    /\ expires' = [expires EXCEPT ![n] = clock + Ttl]
    /\ UNCHANGED <<clock, nonces, rows, tokens, task, observers>>

Tick ==
    /\ \/ clock < MaxClock
       \/ \E w \in Workers : /\ ~At(w, "idle") /\ ~At(w, "decoded")
                           /\ clock < task[w].deadline
    /\ PromptReceipt => \A w \in Workers : ~At(w, "decoded")
    /\ clock' = clock + 1
    /\ UNCHANGED <<capabilities, nonces, rows, tokens, task, observers>>

Crash ==
    /\ task' = [w \in Workers |-> Idle]
    /\ UNCHANGED <<clock, capabilities, nonces, rows, tokens, observers>>

(***************************************************************************)
(* handle: decode with the wall clock, then the deadline from the monotonic *)
(* clock.  A capability may be delivered late or more than once.            *)
(***************************************************************************)
Receive(w, n) ==
    /\ At(w, "idle")
    /\ clock < MaxClock
    /\ clock < expires[n]
    /\ task' = [task EXCEPT ![w] =
                   [Idle EXCEPT !.at = "decoded", !.cap = n, !.now = clock]]
    /\ UNCHANGED <<clock, capabilities, nonces, rows, tokens, observers>>

Budget(w) ==
    LET left == expires[task[w].cap] - task[w].now
    IN  IF left < Outer THEN left ELSE Outer

Receipt(w) ==
    /\ At(w, "decoded")
    /\ task' = [task EXCEPT ![w] =
                   [@ EXCEPT !.at = "consume", !.deadline = clock + Budget(w)]]
    /\ UNCHANGED <<clock, capabilities, nonces, rows, tokens, observers>>

(***************************************************************************)
(* DurableNonceStore.consume.  A refusal (out of time, already consumed,    *)
(* store full, store unavailable) rolls the pruning back.                   *)
(***************************************************************************)
Unexpired(now) == {n \in nonces : expires[n] > now}

\* Defect: the deadline is checked before the transaction only.
ConsumeUnchecked(w) ==
    /\ At(w, "consume")
    /\ \/ /\ task[w].cap \notin Unexpired(task[w].now)
          /\ Cardinality(Unexpired(task[w].now)) < MaxNonces
          /\ nonces' = Unexpired(task[w].now) \cup {task[w].cap}
          /\ accepted' = [accepted EXCEPT ![task[w].cap] = @ + 1]
          /\ Goto(w, "poll")
       \/ /\ Finished(w)
          /\ UNCHANGED <<nonces, accepted>>
    /\ UNCHANGED <<clock, capabilities, rows, tokens, ran, lastRun, told>>

Consume(w) ==
    /\ At(w, "consume")
    /\ \/ /\ ~OutOfTime(w)
          /\ task[w].cap \notin Unexpired(task[w].now)
          /\ Cardinality(Unexpired(task[w].now)) < MaxNonces
          /\ nonces' = Unexpired(task[w].now) \cup {task[w].cap}
          /\ accepted' = [accepted EXCEPT ![task[w].cap] = @ + 1]
          /\ Goto(w, "poll")
       \/ /\ Finished(w)
          /\ UNCHANGED <<nonces, accepted>>
    /\ UNCHANGED <<clock, capabilities, rows, tokens, ran, lastRun, told>>

(***************************************************************************)
(* DurableIdempotencyStore.execute: the loop around reserve.                *)
(***************************************************************************)
Poll(w) ==
    /\ At(w, "poll")
    /\ \/ ~OutOfTime(w) /\ GotoAt(w, "reserve")
       \/ OutOfTime(w) /\ Finished(w)
    /\ UNCHANGED <<clock, capabilities, nonces, rows, tokens, observers>>

\* Another request holds the reservation: sleep and ask again.
ReserveBusy(w) ==
    /\ rows[Scope(w)].state = "reserved"
    /\ ~Lapsed(rows[Scope(w)], task[w].now)
    /\ Goto(w, "poll")
    /\ UNCHANGED <<rows, tokens, ran, told>>

\* A reservation whose lease ended is settled as unknown.
ReserveLapsed(w) ==
    /\ rows[Scope(w)].state = "reserved"
    /\ Lapsed(rows[Scope(w)], task[w].now)
    /\ rows' = [rows EXCEPT ![Scope(w)] = Complete(@, Unknown, task[w].now)]
    /\ Answer(w, Unknown)
    /\ UNCHANGED <<tokens, ran>>

ReserveReplay(w) ==
    /\ rows[Scope(w)].state = "complete"
    /\ ~Lapsed(rows[Scope(w)], task[w].now)
    /\ Answer(w, rows[Scope(w)].outcome)
    /\ UNCHANGED <<rows, tokens, ran>>

\* Defect: the sweep deletes reservations whose lease ended as well.
SweptDropping(R, now) ==
    [s \in Scopes |-> IF Lapsed(R[s], now) THEN NoRow ELSE R[s]]

\* The sweep over every other row before an insertion.
Swept(R, now) ==
    [s \in Scopes |->
        CASE R[s].state = "reserved" /\ Lapsed(R[s], now) -> Complete(R[s], Unknown, now)
          [] R[s].state = "complete" /\ Lapsed(R[s], now) -> NoRow
          [] OTHER -> R[s]]

Room(R) == Cardinality({s \in Scopes : R[s].state # "absent"}) < MaxRecords

\* No row, or a result no longer retained: reserve it when there is room.
ReserveAnew(w) ==
    LET R == Swept([rows EXCEPT ![Scope(w)] = NoRow], task[w].now)
    IN  /\ \/ rows[Scope(w)].state = "absent"
           \/ rows[Scope(w)].state = "complete" /\ Lapsed(rows[Scope(w)], task[w].now)
        /\ \/ /\ Room(R)
              /\ rows' = [R EXCEPT ![Scope(w)] = Reserved(tokens + 1, task[w].now)]
              /\ tokens' = tokens + 1
              /\ ran' = [ran EXCEPT ![Scope(w)] = FALSE]
              /\ told' = [told EXCEPT ![Scope(w)] = {}]
              /\ task' = [task EXCEPT ![w] =
                             [@ EXCEPT !.at = "acquired", !.token = tokens + 1]]
           \/ /\ ~Room(R)
              /\ rows' = R
              /\ Finished(w)
              /\ UNCHANGED <<tokens, ran, told>>

\* Out of time, or the store is unavailable.
ReserveRefused(w) ==
    /\ Finished(w)
    /\ UNCHANGED <<rows, tokens, ran, told>>

Reserve(w) ==
    /\ At(w, "reserve")
    /\ \/ /\ ~OutOfTime(w)
          /\ ReserveBusy(w) \/ ReserveLapsed(w) \/ ReserveReplay(w) \/ ReserveAnew(w)
       \/ ReserveRefused(w)
    /\ UNCHANGED <<clock, capabilities, nonces, accepted, lastRun>>

(***************************************************************************)
(* The operation under the reservation, and what becomes of its outcome.    *)
(***************************************************************************)
\* Defect: the deadline is not checked again once the reservation is granted.
DispatchUnchecked(w) ==
    /\ At(w, "acquired")
    /\ Goto(w, "running")
    /\ ran' = [ran EXCEPT ![Scope(w)] = TRUE]
    /\ lastRun' = [lastRun EXCEPT ![Scope(w)] = clock]
    /\ UNCHANGED <<clock, capabilities, nonces, rows, tokens, accepted, told>>

\* The last check before operation(), the coordinator's login in the browser.
Dispatch(w) ==
    /\ At(w, "acquired")
    /\ \/ /\ ~OutOfTime(w)
          /\ Goto(w, "running")
          /\ ran' = [ran EXCEPT ![Scope(w)] = TRUE]
          /\ lastRun' = [lastRun EXCEPT ![Scope(w)] = clock]
       \/ /\ OutOfTime(w)
          /\ GotoAt(w, "unsure")
          /\ UNCHANGED <<ran, lastRun>>
    /\ UNCHANGED <<clock, capabilities, nonces, rows, tokens, accepted, told>>

Reporting(t, r) ==
    [at |-> "complete", cap |-> t.cap, now |-> clock, deadline |-> t.deadline,
     token |-> t.token, outcome |-> r]

\* operation() returns in time to be recorded, or raises or returns too late.
Return(w) ==
    /\ At(w, "running")
    /\ \/ /\ ~OutOfTime(w)
          /\ \E r \in Results : task' = [task EXCEPT ![w] = Reporting(@, r)]
       \/ GotoAt(w, "unsure")
    /\ UNCHANGED <<clock, capabilities, nonces, rows, tokens, observers>>

Owns(w) == rows[Scope(w)].state = "reserved" /\ rows[Scope(w)].owner = task[w].token

\* Defect: a result that could not be recorded is answered all the same.
RecordAnsweringAnyway(w) ==
    /\ At(w, "complete")
    /\ \/ /\ ~OutOfTime(w)
          /\ Owns(w)
          /\ rows' = [rows EXCEPT ![Scope(w)] = Complete(@, task[w].outcome, task[w].now)]
       \/ UNCHANGED rows
    /\ Answer(w, task[w].outcome)
    /\ UNCHANGED <<clock, capabilities, nonces, tokens, accepted, ran, lastRun>>

\* complete: out of time, not owned or unavailable leaves the outcome unsure.
Record(w) ==
    /\ At(w, "complete")
    /\ \/ /\ ~OutOfTime(w)
          /\ Owns(w)
          /\ rows' = [rows EXCEPT ![Scope(w)] = Complete(@, task[w].outcome, task[w].now)]
          /\ Answer(w, task[w].outcome)
       \/ /\ GotoAt(w, "unsure")
          /\ UNCHANGED <<rows, told>>
    /\ UNCHANGED <<clock, capabilities, nonces, tokens, accepted, ran, lastRun>>

\* Defect: a request that failed gives its reservation up.
MarkReleasing(w) ==
    /\ At(w, "unsure")
    /\ \/ /\ Owns(w)
          /\ rows' = [rows EXCEPT ![Scope(w)] = NoRow]
       \/ UNCHANGED rows
    /\ Finished(w)
    /\ UNCHANGED <<clock, capabilities, nonces, tokens, observers>>

\* _mark_unknown, whose own failure is ignored.
MarkUnknown(w) ==
    /\ At(w, "unsure")
    /\ \/ /\ Owns(w)
          /\ rows' = [rows EXCEPT ![Scope(w)] = Complete(@, Unknown, task[w].now)]
       \/ UNCHANGED rows
    /\ Finished(w)
    /\ UNCHANGED <<clock, capabilities, nonces, tokens, observers>>

Init ==
    /\ clock = 1
    /\ scopeOf \in [Nonces -> Scopes]
    /\ expires = [n \in Nonces |-> 0]
    /\ nonces = {}
    /\ rows = [s \in Scopes |-> NoRow]
    /\ tokens = 0
    /\ task = [w \in Workers |-> Idle]
    /\ accepted = [n \in Nonces |-> 0]
    /\ ran = [s \in Scopes |-> FALSE]
    /\ lastRun = [s \in Scopes |-> 0]
    /\ told = [s \in Scopes |-> {}]

Step(w) == \/ Receipt(w) \/ Consume(w) \/ Poll(w) \/ Reserve(w)
           \/ Dispatch(w) \/ Return(w) \/ Record(w) \/ MarkUnknown(w)

Next ==
    \/ \E n \in Nonces, s \in Scopes : Mint(n, s)
    \/ \E w \in Workers, n \in Nonces : Receive(w, n)
    \/ \E w \in Workers : Step(w)
    \/ Tick
    \/ Crash

Spec == Init /\ [][Next]_vars

\* Every thread goes on: SQLite's busy timeout and the network timeouts of an
\* operation are bounded by the deadline; and time passes however often a
\* request arrives in between.
FairSpec == Spec /\ SF_vars(Tick) /\ \A w \in Workers : WF_vars(Step(w))

-----------------------------------------------------------------------------
(***************************************************************************)
(* Properties.                                                              *)
(***************************************************************************)
Row ==
    {NoRow}
    \cup [state : {"reserved"}, owner : 1..tokens, until : Nat, outcome : {NoOutcome}]
    \cup [state : {"complete"}, owner : 1..tokens, until : Nat,
          outcome : Results \cup {Unknown}]

Places == {"idle", "decoded", "consume", "poll", "reserve", "acquired",
           "running", "complete", "unsure"}

Task == [at : Places, cap : Nonces \cup {0}, now : 0..clock, deadline : Nat,
         token : 0..tokens, outcome : Results \cup {NoOutcome}]

(* Every table and every thread keeps its type: among others, no thread     *)
(* remembers a time that has not come or a token nobody drew.               *)
TypeOK ==
    /\ clock \in Nat
    /\ scopeOf \in [Nonces -> Scopes]
    /\ expires \in [Nonces -> Nat]
    /\ nonces \subseteq Nonces
    /\ tokens \in Nat
    /\ rows \in [Scopes -> Row]
    /\ task \in [Workers -> Task]
    /\ \A w \in Workers : task[w].at # "idle" => task[w].cap # 0
    /\ accepted \in [Nonces -> Nat]
    /\ ran \in [Scopes -> BOOLEAN]
    /\ lastRun \in [Scopes -> 0..clock]
    /\ told \in [Scopes -> SUBSET (Results \cup {Unknown})]

(* "Consume (deployment, audience, nonce) once across threads/restarts":    *)
(* although each thread prunes and compares with a time it read before it   *)
(* waited for the write lock, no nonce is accepted a second time after its  *)
(* row was pruned.                                                          *)
NonceOnce == \A n \in Nonces : accepted[n] <= 1

(* "This deliberately prefers an indeterminate result over repeating a      *)
(* browser side effect that may already have happened": two operations of   *)
(* one scope begin at least the retention period apart, whatever threads    *)
(* crash, outlive their lease, or compare with a stale time.                *)
RunsAreApart ==
    [][\A w \in Workers :
         At(w, "acquired") /\ task'[w].at = "running" /\ lastRun[Scope(w)] # 0
         => clock >= lastRun[Scope(w)] + Retention]_vars

(* All callers of one operation that get a result get the same one, be it   *)
(* the thread that ran it, one that waited for it, or one that came after a *)
(* crash and was told that the outcome is unknown.                          *)
AnswersAgree == \A s \in Scopes : Cardinality(told[s]) <= 1

(* A request does not wait for ever, in particular not for a reservation    *)
(* whose owner died with a crash.                                           *)
RequestEnds == \A w \in Workers : ~At(w, "idle") ~> At(w, "idle")

(***************************************************************************)
(* The rows keep the promise of LoginOnce.                                  *)
(***************************************************************************)
Stage(row) == CASE row.state = "absent" -> "free"
                [] row.state = "reserved" -> "pending"
                [] OTHER -> "settled"

Promise == INSTANCE LoginOnce WITH
    login <- [s \in Scopes |-> [stage |-> Stage(rows[s]), ran |-> ran[s],
                                outcome |-> rows[s].outcome, told |-> told[s]]]

(* Expiry sweeps, stale times, lost leases and crashes included, the tables *)
(* treat every request as LoginOnce says: one operation at most for a       *)
(* reservation, begun only while the reservation stands; one outcome, which *)
(* is never changed until it is forgotten.                                  *)
ImplementsLoginOnce == Promise!Spec
=============================================================================
