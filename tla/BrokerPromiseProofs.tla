------------------------ MODULE BrokerPromiseProofs ------------------------
(***************************************************************************)
(* Proofs about BrokerRequests: operations of one scope begin at least the  *)
(* retention apart, and the rows keep the promise of LoginOnce.             *)
(*                                                                         *)
(* The argument in one paragraph: a thread that was granted a reservation   *)
(* dispatches only within its deadline, which ends before the lease does    *)
(* (Outer <= Lease), so its row still stands; a row changes only when its   *)
(* time is up or at the hand of its owner, and owners' tokens differ; and   *)
(* whoever settles a row does so with a time not earlier than the operation *)
(* began, so that a result is retained for Retention from then on.          *)
(***************************************************************************)
EXTENDS BrokerRequestsProofs

-----------------------------------------------------------------------------
(***************************************************************************)
(* How a thread may move.                                                   *)
(***************************************************************************)
Holds(w) == task[w].at \in {"acquired", "running", "complete", "unsure"}

Course(w) ==
    \/ /\ task'[w].at \in {"idle", "poll"}
       /\ tokens' = tokens
    \/ /\ task'[w].at = "reserve"
       /\ task'[w].now = clock
       /\ tokens' = tokens
    \/ /\ task[w].at = "reserve" /\ task'[w].at = "acquired"
       /\ task'[w].now = task[w].now
       /\ task'[w].token = tokens + 1 /\ tokens' = tokens + 1
    \/ /\ task[w].at = "acquired" /\ task'[w].at = "running"
       /\ task'[w].token = task[w].token /\ tokens' = tokens
    \/ /\ Holds(w) /\ task'[w].at \in {"complete", "unsure"}
       /\ task'[w].at = "complete" => task[w].at = "running"
       /\ task'[w].now = clock
       /\ task'[w].token = task[w].token /\ tokens' = tokens

\* Every step of a request after its receipt follows the course.
LEMMA StepCourse ==
    ASSUME TypeInv, NEW w \in Workers,
           \/ Consume(w) \/ Poll(w) \/ Reserve(w) \/ Dispatch(w)
           \/ Return(w) \/ Record(w) \/ MarkUnknown(w)
    PROVE  Course(w)
<1>1. task \in [Workers -> Task] /\ task[w] \in Task
  BY DEF TypeInv, ThreadsTyped
<1>2. /\ \A place \in Places : Goto(w, place) =>
             /\ task'[w].at = place /\ task'[w].token = task[w].token
      /\ \A place \in Places : GotoAt(w, place) =>
             /\ task'[w].at = place /\ task'[w].now = clock
             /\ task'[w].token = task[w].token
      /\ Finished(w) => task'[w].at = "idle"
  <2>1. \A place \in Places : Goto(w, place) =>
             task'[w].at = place /\ task'[w].token = task[w].token
    BY <1>1 DEF Goto, Task
  <2>2. \A place \in Places : GotoAt(w, place) =>
             /\ task'[w].at = place /\ task'[w].now = clock
             /\ task'[w].token = task[w].token
    BY <1>1 DEF GotoAt, Task
  <2>3. Finished(w) => task'[w].at = "idle"
    BY <1>1 DEF Finished, Idle
  <2>4. QED
    BY <2>1, <2>2, <2>3
<1>3. {"poll", "reserve", "running", "unsure"} \subseteq Places
  BY DEF Places
<1>4. ASSUME Consume(w) \/ Poll(w) \/ MarkUnknown(w) PROVE Course(w)
  BY <1>2, <1>3, <1>4 DEF Consume, Poll, MarkUnknown, Course
<1>5. ASSUME Dispatch(w) \/ Record(w) PROVE Course(w)
  BY <1>2, <1>3, <1>5 DEF Dispatch, Record, Answer, Course, Holds, At
<1>6. ASSUME Return(w) PROVE Course(w)
  <2>1. ASSUME NEW r \in Results, task' = [task EXCEPT ![w] = Reporting(@, r)]
        PROVE  task'[w].at = "complete" /\ task'[w].now = clock
               /\ task'[w].token = task[w].token
    BY <1>1, <2>1 DEF Reporting
  <2>2. QED
    BY <1>2, <1>3, <1>6, <2>1 DEF Return, Course, Holds, At
<1>7. ASSUME Reserve(w) PROVE Course(w)
  <2>1. ASSUME task' = [task EXCEPT ![w] =
                           [@ EXCEPT !.at = "acquired", !.token = tokens + 1]]
        PROVE  /\ task'[w].at = "acquired" /\ task'[w].now = task[w].now
               /\ task'[w].token = tokens + 1
    BY <1>1, <2>1 DEF Task
  <2>2. QED
    BY <1>2, <1>3, <1>7, <2>1
    DEF Reserve, ReserveBusy, ReserveLapsed, ReserveReplay, ReserveAnew, ReserveRefused,
        Answer, Course, At
<1>8. QED
  BY <1>4, <1>5, <1>6, <1>7

-----------------------------------------------------------------------------
(***************************************************************************)
(* A deadline is at most Outer away, also from the time that was read       *)
(* before reserving; and no two threads hold the same token.                *)
(***************************************************************************)
Window(w) ==
    /\ task[w].at \notin {"idle", "decoded"} => task[w].deadline <= clock + Outer
    /\ task[w].at \in {"reserve", "acquired"} => task[w].deadline <= task[w].now + Outer

Apart(v, w) == Holds(v) /\ Holds(w) => task[v].token # task[w].token

HoldInv ==
    /\ \A w \in Workers : Window(w)
    /\ \A v, w \in Workers : v # w => Apart(v, w)

\* No thread has a deadline or a token in the beginning.
LEMMA HoldInit == Init => HoldInv
BY DEF Init, HoldInv, Window, Apart, Holds, Idle

\* A step along the course keeps deadlines near and tokens distinct.
LEMMA StepHold ==
    ASSUME TypeInv, HoldInv, NEW w \in Workers, Onward(w), Course(w)
    PROVE  HoldInv'
<1>1. clock \in Nat /\ tokens \in Nat /\ clock' = clock /\ Outer \in Nat
  BY Constants DEF TypeInv, TablesTyped, Onward
<1>2. \A v \in Workers : task[v].token \in Nat /\ task[v].token <= tokens
  BY FieldsTyped
<1>3. Window(w)'
  BY <1>1 DEF HoldInv, Window, Onward, Course, Idle, Holds
<1>4. \A v \in Workers \ {w} : Window(v)'
  BY <1>1 DEF HoldInv, Window, Onward
<1>5. \A v \in Workers \ {w} : Apart(v, w)' /\ Apart(w, v)'
  BY <1>1, <1>2 DEF HoldInv, Apart, Holds, Onward, Course
<1>6. \A u, v \in Workers \ {w} : u # v => Apart(u, v)'
  BY DEF HoldInv, Apart, Holds, Onward
<1>7. QED
  BY <1>3, <1>4, <1>5, <1>6 DEF HoldInv

\* HoldInv is inductive, given the types.
LEMMA HoldNext ==
    ASSUME TypeInv, HoldInv, [Next]_vars
    PROVE  HoldInv'
<1>1. ASSUME NEW w \in Workers,
             \/ Consume(w) \/ Poll(w) \/ Reserve(w) \/ Dispatch(w)
             \/ Return(w) \/ Record(w) \/ MarkUnknown(w)
      PROVE  HoldInv'
  BY <1>1, StepOnward, StepCourse, StepHold
<1>2. ASSUME NEW w \in Workers, NEW n \in Nonces, Receive(w, n) PROVE HoldInv'
  <2>1. task \in [Workers -> Task]
    BY DEF TypeInv, ThreadsTyped
  <2>2. task'[w].at = "decoded" /\ \A v \in Workers \ {w} : task'[v] = task[v]
    BY <1>2, <2>1 DEF Receive, Idle
  <2>3. QED
    BY <1>2, <2>2 DEF HoldInv, Window, Apart, Holds, Receive
<1>3. ASSUME NEW w \in Workers, Receipt(w) PROVE HoldInv'
  <2>1. /\ task \in [Workers -> Task] /\ task[w] \in Task /\ clock \in Nat
        /\ Budget(w) \in Nat /\ Budget(w) <= Outer
    BY <1>3, BudgetTyped DEF TypeInv, ThreadsTyped, TablesTyped, Receipt, At
  <2> HIDE DEF Budget
  <2>2. /\ task'[w].at = "consume" /\ task'[w].deadline = clock + Budget(w)
        /\ \A v \in Workers \ {w} : task'[v] = task[v]
    BY <1>3, <2>1 DEF Receipt, Task
  <2>3. QED
    BY <1>3, <2>1, <2>2, Constants DEF HoldInv, Window, Apart, Holds, Receipt
<1>4. ASSUME Tick PROVE HoldInv'
  <2>1. clock \in Nat /\ clock' = clock + 1 /\ task' = task /\ Outer \in Nat
    BY <1>4, Constants DEF Tick, TypeInv, TablesTyped
  <2>2. \A w \in Workers : task[w].deadline \in Nat
    BY FieldsTyped
  <2>3. QED
    BY <2>1, <2>2 DEF HoldInv, Window, Apart, Holds
<1>5. ASSUME Crash PROVE HoldInv'
  BY <1>5 DEF Crash, HoldInv, Window, Apart, Holds, Idle
<1>6. ASSUME NEW n \in Nonces, NEW s \in Scopes, Mint(n, s) PROVE HoldInv'
  BY <1>6 DEF Mint, HoldInv, Window, Apart, Holds
<1>7. ASSUME UNCHANGED vars PROVE HoldInv'
  BY <1>7 DEF vars, HoldInv, Window, Apart, Holds
<1>8. QED
  BY <1>1, <1>2, <1>3, <1>4, <1>5, <1>6, <1>7 DEF Next, Step

-----------------------------------------------------------------------------
(***************************************************************************)
(* What a step makes of the row of one scope.                               *)
(***************************************************************************)
Kept(s) ==
    rows'[s] = rows[s] /\ ran'[s] = ran[s] /\ lastRun'[s] = lastRun[s]

Asked(s) ==
    /\ Kept(s)
    /\ \/ told'[s] = told[s]
       \/ rows[s].state = "complete" /\ told'[s] = told[s] \cup {rows[s].outcome}

Doubted(s, now) ==
    /\ rows[s].state = "reserved"
    /\ rows'[s] = Complete(rows[s], Unknown, now)
    /\ ran'[s] = ran[s] /\ lastRun'[s] = lastRun[s]
    /\ told'[s] \in {told[s], told[s] \cup {Unknown}}

Dropped(s, now) ==
    /\ rows[s].state = "complete" /\ Lapsed(rows[s], now)
    /\ rows'[s] = NoRow
    /\ ran'[s] = ran[s] /\ lastRun'[s] = lastRun[s] /\ told'[s] = told[s]

Granted(s, w) ==
    /\ s = Scope(w)
    /\ \/ rows[s].state = "absent"
       \/ rows[s].state = "complete" /\ Lapsed(rows[s], task[w].now)
    /\ rows'[s] = Reserved(tokens + 1, task[w].now)
    /\ ran'[s] = FALSE /\ lastRun'[s] = lastRun[s] /\ told'[s] = {}
    /\ task[w].at = "reserve"
    /\ task'[w].at = "acquired" /\ task'[w].token = tokens + 1
    /\ task'[w].now = task[w].now

Turn(s, w) ==
    \/ Asked(s)
    \/ Doubted(s, task[w].now) /\ Lapsed(rows[s], task[w].now)
    \/ Dropped(s, task[w].now)
    \/ Granted(s, w)

\* The sweep drops what is no longer retained and settles what has lapsed.
LEMMA SweptRow ==
    ASSUME NEW R, NEW now, NEW s \in Scopes
    PROVE  \/ Swept(R, now)[s] = R[s]
           \/ /\ R[s].state = "reserved" /\ Lapsed(R[s], now)
              /\ Swept(R, now)[s] = Complete(R[s], Unknown, now)
           \/ /\ R[s].state = "complete" /\ Lapsed(R[s], now)
              /\ Swept(R, now)[s] = NoRow
BY DEF Swept

\* The transaction of reserve gives every scope, its own and the swept ones, one turn.
LEMMA ReserveTurns ==
    ASSUME TypeInv, NEW w \in Workers, Reserve(w), NEW s \in Scopes
    PROVE  Turn(s, w)
<1>1. /\ Scope(w) \in Scopes /\ rows \in [Scopes -> Row]
      /\ ran \in [Scopes -> BOOLEAN] /\ lastRun' = lastRun
      /\ told \in [Scopes -> SUBSET (Results \cup {Unknown})]
      /\ task[w].at = "reserve"
      /\ task \in [Workers -> Task] /\ task[w] \in Task
  BY FieldsTyped DEF Reserve, At, TypeInv, TablesTyped, ThreadsTyped
<1>2. CASE ReserveBusy(w) \/ ReserveRefused(w)
  BY <1>1, <1>2 DEF ReserveBusy, ReserveRefused, Turn, Asked, Kept
<1>3. CASE ReserveReplay(w)
  BY <1>1, <1>3 DEF ReserveReplay, Answer, Turn, Asked, Kept
<1>4. CASE ReserveLapsed(w)
  BY <1>1, <1>4 DEF ReserveLapsed, Answer, Turn, Asked, Kept, Doubted
<1>5. CASE ReserveAnew(w)
  <2> DEFINE Q == [rows EXCEPT ![Scope(w)] = NoRow]
             R == Swept(Q, task[w].now)
  <2>1. /\ R[Scope(w)] = NoRow
        /\ R \in [Scopes -> Row]
    <3>1. Q \in [Scopes -> Row] /\ Q[Scope(w)] = NoRow
      BY <1>1 DEF Row
    <3>2. task[w].now \in Nat
      BY FieldsTyped
    <3> HIDE DEF Q
    <3>3. QED
      BY <1>1, <3>1, <3>2, SweptTyped, SweptRow DEF NoRow
  <2>2. ASSUME s # Scope(w), rows'[s] = R[s], ran'[s] = ran[s], told'[s] = told[s]
        PROVE  Turn(s, w)
    <3>1. Q[s] = rows[s]
      BY <1>1, <2>2
    <3> HIDE DEF Q
    <3>2. QED
      BY <1>1, <2>2, <3>1, SweptRow DEF Turn, Asked, Kept, Doubted, Dropped
  <2> HIDE DEF R
  <2>3. ASSUME rows' = [R EXCEPT ![Scope(w)] = Reserved(tokens + 1, task[w].now)],
               ran' = [ran EXCEPT ![Scope(w)] = FALSE],
               told' = [told EXCEPT ![Scope(w)] = {}],
               task' = [task EXCEPT ![w] =
                           [@ EXCEPT !.at = "acquired", !.token = tokens + 1]]
        PROVE  Turn(s, w)
    <3>1. CASE s # Scope(w)
      BY <1>1, <2>1, <2>2, <2>3, <3>1
    <3>2. CASE s = Scope(w)
      <4>1. /\ task'[w].at = "acquired" /\ task'[w].token = tokens + 1
            /\ task'[w].now = task[w].now
        BY <1>1, <2>3 DEF Task
      <4>2. rows'[s] = Reserved(tokens + 1, task[w].now) /\ ran'[s] = FALSE /\ told'[s] = {}
        BY <1>1, <2>1, <2>3, <3>2
      <4>3. QED
        BY <1>1, <1>5, <3>2, <4>1, <4>2 DEF ReserveAnew, Turn, Granted
    <3>3. QED
      BY <3>1, <3>2
  <2>4. ASSUME rows' = R, UNCHANGED <<ran, told>>
        PROVE  Turn(s, w)
    <3>1. CASE s # Scope(w)
      BY <2>2, <2>4, <3>1
    <3>2. CASE s = Scope(w)
      <4>1. rows[s].state = "absent" => rows[s] = NoRow
        BY <1>1 DEF Row
      <4>2. QED
        BY <1>1, <1>5, <2>1, <2>4, <3>2, <4>1
        DEF ReserveAnew, Turn, Dropped, Asked, Kept
    <3>3. QED
      BY <3>1, <3>2
  <2>5. QED
    BY <1>5, <2>3, <2>4 DEF ReserveAnew, R
<1>6. QED
  BY <1>2, <1>3, <1>4, <1>5 DEF Reserve

-----------------------------------------------------------------------------
(***************************************************************************)
(* RunsAreApart.  When a row lets a new operation begin, the last one began  *)
(* at least the retention ago.                                              *)
(***************************************************************************)
LongAgo(s) == lastRun[s] = 0 \/ clock >= lastRun[s] + Retention

RowApart(s) ==
    /\ rows[s].state = "reserved" /\ ran[s] => rows[s].until >= lastRun[s]
    /\ rows[s].state = "reserved" /\ ~ran[s] => LongAgo(s)
    /\ rows[s].state = "complete" => LongAgo(s) \/ rows[s].until >= lastRun[s] + Retention
    /\ rows[s].state = "absent" => LongAgo(s)

\* A fresh reservation stands, unused, while its lease lasts; the operation of
\* an owner has begun, and what the owner will write is not older than it.
OwnerApart(w) ==
    /\ task[w].at = "acquired" /\ clock < task[w].now + Lease =>
           Owns(w) /\ rows[Scope(w)].until = task[w].now + Lease /\ ~ran[Scope(w)]
    /\ task[w].at \in {"running", "complete"} /\ Owns(w) => ran[Scope(w)]
    /\ task[w].at \in {"complete", "unsure"} /\ Owns(w) /\ ran[Scope(w)] =>
           task[w].now >= lastRun[Scope(w)]

ApartInv == (\A s \in Scopes : RowApart(s)) /\ (\A w \in Workers : OwnerApart(w))

\* Nothing has run in the beginning.
LEMMA ApartInit == Init => ApartInv
BY DEF Init, ApartInv, RowApart, OwnerApart, LongAgo, NoRow, Idle

\* The fields of a row and of the observers of its scope are typed.
LEMMA RowFields ==
    ASSUME TypeInv, NEW s \in Scopes
    PROVE  /\ rows[s] \in Row /\ rows[s].state \in {"absent", "reserved", "complete"}
           /\ rows[s].until \in Nat
           /\ rows[s].owner \in Nat /\ rows[s].owner <= tokens
           /\ rows[s].state = "absent" => rows[s] = NoRow
           /\ lastRun[s] \in Nat /\ lastRun[s] <= clock
           /\ clock \in Nat /\ tokens \in Nat /\ ran[s] \in BOOLEAN
<1>1. rows[s] \in Row /\ lastRun[s] \in 0..clock /\ clock \in Nat /\ tokens \in Nat
      /\ ran[s] \in BOOLEAN
  BY DEF TypeInv, TablesTyped
<1>2. QED
  BY <1>1 DEF Row, NoRow

\* The rows stay apart under every turn of Reserve.
LEMMA TurnApart ==
    ASSUME TypeInv, ApartInv, NEW w \in Workers, NEW s \in Scopes, Turn(s, w),
           clock' = clock
    PROVE  RowApart(s)'
<1>1. /\ task[w].now \in Nat /\ task[w].now <= clock /\ clock \in Nat
      /\ rows[s].until \in Nat /\ lastRun[s] \in Nat /\ Retention \in Nat /\ Lease \in Nat
  BY FieldsTyped, RowFields, Constants
<1>2. RowApart(s)
  BY DEF ApartInv
<1>3. CASE Asked(s)
  BY <1>2, <1>3 DEF Asked, Kept, RowApart, LongAgo
<1>4. CASE Doubted(s, task[w].now) /\ Lapsed(rows[s], task[w].now)
  BY <1>1, <1>2, <1>4 DEF Doubted, Lapsed, Complete, RowApart, LongAgo
<1>5. CASE Dropped(s, task[w].now)
  BY <1>1, <1>2, <1>5 DEF Dropped, Lapsed, NoRow, RowApart, LongAgo
<1>6. CASE Granted(s, w)
  BY <1>1, <1>2, <1>6 DEF Granted, Lapsed, Reserved, RowApart, LongAgo
<1>7. QED
  BY <1>3, <1>4, <1>5, <1>6 DEF Turn

\* A turn of Reserve disturbs no other thread's claims.
LEMMA TurnOthers ==
    ASSUME TypeInv, ApartInv, NEW w \in Workers, Onward(w),
           NEW v \in Workers \ {w}, task[v].at # "idle", Turn(Scope(v), w)
    PROVE  OwnerApart(v)'
<1> DEFINE s == Scope(v)
<1>1. /\ task'[v] = task[v] /\ scopeOf' = scopeOf /\ clock' = clock
      /\ Scope(v)' = s
  BY DEF Onward, Scope
<1>2. /\ s \in Scopes
      /\ task[v].token \in Nat /\ task[v].token <= tokens /\ tokens \in Nat
      /\ task[v].now \in Nat /\ task[w].now \in Nat /\ task[w].now <= clock
      /\ clock \in Nat /\ Lease \in Nat
  BY FieldsTyped, Constants DEF TypeInv, TablesTyped
<1>3. OwnerApart(v)
  BY DEF ApartInv
<1>4. rows[s].until \in Nat
  BY <1>2, RowFields
<1> HIDE DEF s
<1>5. CASE Asked(s)
  BY <1>1, <1>3, <1>5 DEF Asked, Kept, OwnerApart, Owns, s
<1>6. CASE Doubted(s, task[w].now) /\ Lapsed(rows[s], task[w].now)
  BY <1>1, <1>2, <1>3, <1>4, <1>6
  DEF Doubted, Lapsed, Complete, OwnerApart, Owns, s
<1>7. CASE Dropped(s, task[w].now)
  BY <1>1, <1>3, <1>7 DEF Dropped, NoRow, OwnerApart, Owns, s
<1>8. CASE Granted(s, w)
  BY <1>1, <1>2, <1>3, <1>8 DEF Granted, Reserved, OwnerApart, Owns, s
<1>9. QED
  BY <1>5, <1>6, <1>7, <1>8 DEF Turn, s

\* A thread that acquires was granted the row.
LEMMA ReserveGrants ==
    ASSUME TypeInv, NEW w \in Workers, Reserve(w), task'[w].at = "acquired"
    PROVE  /\ rows'[Scope(w)] = Reserved(tokens + 1, task[w].now)
           /\ ran'[Scope(w)] = FALSE
           /\ task'[w].token = tokens + 1 /\ task'[w].now = task[w].now
<1>1. /\ Scope(w) \in Scopes /\ rows \in [Scopes -> Row] /\ ran \in [Scopes -> BOOLEAN]
      /\ task \in [Workers -> Task] /\ task[w] \in Task /\ task[w].now \in Nat
  BY FieldsTyped DEF Reserve, At, TypeInv, TablesTyped, ThreadsTyped
<1>2. /\ ~Goto(w, "poll") /\ ~Finished(w)
  BY <1>1 DEF Goto, Finished, Idle, Task
<1>3. ReserveAnew(w)
  BY <1>2 DEF Reserve, ReserveBusy, ReserveLapsed, ReserveReplay, ReserveRefused, Answer
<1> DEFINE Q == [rows EXCEPT ![Scope(w)] = NoRow]
           R == Swept(Q, task[w].now)
<1>4. R \in [Scopes -> Row]
  <2>1. Q \in [Scopes -> Row]
    BY <1>1 DEF Row
  <2> HIDE DEF Q
  <2>2. QED
    BY <1>1, <2>1, SweptTyped
<1>5. /\ rows' = [R EXCEPT ![Scope(w)] = Reserved(tokens + 1, task[w].now)]
      /\ ran' = [ran EXCEPT ![Scope(w)] = FALSE]
      /\ task' = [task EXCEPT ![w] = [@ EXCEPT !.at = "acquired", !.token = tokens + 1]]
  BY <1>2, <1>3 DEF ReserveAnew
<1> HIDE DEF R
<1>6. task'[w].token = tokens + 1 /\ task'[w].now = task[w].now
  BY <1>1, <1>5 DEF Task
<1>7. QED
  BY <1>1, <1>4, <1>5, <1>6

\* A transaction of reserve keeps operations apart.
LEMMA ReserveApart ==
    ASSUME TypeInv, ApartInv, NEW w \in Workers, Reserve(w)
    PROVE  ApartInv'
<1>1. Onward(w) /\ Course(w)
  BY StepOnward, StepCourse
<1>2. clock' = clock
  BY <1>1 DEF Onward
<1>3. \A s \in Scopes : RowApart(s)'
  BY <1>2, ReserveTurns, TurnApart
<1>4. \A v \in Workers \ {w} : task[v].at # "idle" => OwnerApart(v)'
  BY <1>1, FieldsTyped, ReserveTurns, TurnOthers
<1>5. \A v \in Workers \ {w} : task[v].at = "idle" => OwnerApart(v)'
  BY <1>1 DEF Onward, OwnerApart
<1>6. OwnerApart(w)'
  <2>1. task[w].at = "reserve" /\ Scope(w) \in Scopes /\ scopeOf' = scopeOf
    BY <1>1, FieldsTyped DEF Reserve, At, Onward
  <2>2. CASE task'[w].at # "acquired"
    BY <1>1, <2>1, <2>2 DEF Course, Holds, OwnerApart
  <2>3. CASE task'[w].at = "acquired"
    <3>1. /\ rows'[Scope(w)] = Reserved(tokens + 1, task[w].now) /\ ran'[Scope(w)] = FALSE
          /\ task'[w].token = tokens + 1 /\ task'[w].now = task[w].now
      BY <2>3, ReserveGrants
    <3>2. Scope(w)' = Scope(w)
      BY <1>1, <2>1, <2>3 DEF Onward, Idle, Scope
    <3>3. QED
      BY <2>3, <3>1, <3>2 DEF OwnerApart, Owns, Reserved
  <2>4. QED
    BY <2>2, <2>3
<1>7. QED
  BY <1>3, <1>4, <1>5, <1>6 DEF ApartInv

\* What Dispatch, Record and MarkUnknown make of the row: only an owner's turn.
LEMMA DispatchApart ==
    ASSUME TypeInv, HoldInv, ApartInv, NEW w \in Workers, Dispatch(w)
    PROVE  /\ ApartInv'
           /\ task'[w].at = "running" =>
                 /\ rows[Scope(w)].state = "reserved" /\ ~ran[Scope(w)]
                 /\ LongAgo(Scope(w))
<1> DEFINE s == Scope(w)
<1>1. /\ Onward(w) /\ Course(w) /\ task[w].at = "acquired"
      /\ rows' = rows /\ clock' = clock /\ scopeOf' = scopeOf
  BY StepOnward, StepCourse DEF Dispatch, At, capabilities
<1>2. /\ s \in Scopes /\ task[w].now \in Nat /\ task[w].deadline \in Nat
      /\ task[w].now <= clock /\ clock \in Nat
      /\ Lease \in Nat /\ Outer \in Nat /\ Outer <= Lease /\ Retention \in Nat
      /\ lastRun \in [Scopes -> 0..clock] /\ ran \in [Scopes -> BOOLEAN]
      /\ task \in [Workers -> Task] /\ task[w] \in Task
  BY <1>1, FieldsTyped, Constants DEF TypeInv, TablesTyped, ThreadsTyped
<1>3. \A v \in Workers \ {w} : task'[v] = task[v] /\ Scope(v)' = Scope(v)
  BY <1>1 DEF Onward, Scope
<1>4. ASSUME ~OutOfTime(w), Goto(w, "running"),
             ran' = [ran EXCEPT ![s] = TRUE], lastRun' = [lastRun EXCEPT ![s] = clock]
      PROVE  /\ ApartInv' /\ rows[s].state = "reserved" /\ ~ran[s] /\ LongAgo(s)
  <2>1. /\ clock < task[w].now + Lease
        /\ Owns(w) /\ rows[s].until = task[w].now + Lease /\ ~ran[s]
    BY <1>1, <1>2, <1>4 DEF OutOfTime, HoldInv, Window, ApartInv, OwnerApart
  <2>2. rows[s].state = "reserved" /\ LongAgo(s)
    BY <1>2, <2>1 DEF Owns, ApartInv, RowApart
  <2>3. \A v \in Workers \ {w} : Holds(v) /\ Scope(v) = s => ~Owns(v)
    BY <1>1, <2>1 DEF HoldInv, Apart, Holds, Owns
  <2> HIDE DEF s
  <2>4. \A q \in Scopes : RowApart(q)'
    <3>1. \A q \in Scopes : q = s => RowApart(q)'
      <4>1. /\ rows'[s] = rows[s] /\ ran'[s] = TRUE /\ lastRun'[s] = clock
            /\ rows[s].until >= clock /\ rows[s].state = "reserved"
        BY <1>1, <1>2, <1>4, <2>1, <2>2
      <4>2. QED
        BY <4>1 DEF RowApart
    <3>2. \A q \in Scopes : q # s => RowApart(q)'
      BY <1>1, <1>2, <1>4 DEF ApartInv, RowApart, LongAgo
    <3>3. QED
      BY <3>1, <3>2
  <2>5. \A v \in Workers \ {w} : OwnerApart(v)'
    BY <1>1, <1>2, <1>3, <1>4, <2>3 DEF ApartInv, OwnerApart, Owns, Holds
  <2>6. OwnerApart(w)'
    BY <1>1, <1>2, <1>4 DEF OwnerApart, Goto, Scope, s, Task
  <2>7. QED
    BY <2>1, <2>2, <2>4, <2>5, <2>6 DEF ApartInv
<1>5. ASSUME GotoAt(w, "unsure"), UNCHANGED <<ran, lastRun>>
      PROVE  ApartInv' /\ task'[w].at # "running"
  <2>1. /\ task'[w].at = "unsure" /\ task'[w].now = clock /\ Scope(w)' = s
    BY <1>1, <1>2, <1>5 DEF GotoAt, Scope, Task
  <2>2. \A q \in Scopes : RowApart(q)'
    BY <1>1, <1>5 DEF ApartInv, RowApart, LongAgo
  <2>3. \A v \in Workers \ {w} : OwnerApart(v)'
    BY <1>1, <1>3, <1>5 DEF ApartInv, OwnerApart, Owns
  <2>4. OwnerApart(w)'
    BY <1>1, <1>2, <1>5, <2>1 DEF OwnerApart
  <2>5. QED
    BY <2>1, <2>2, <2>3, <2>4 DEF ApartInv
<1>6. QED
  BY <1>4, <1>5 DEF Dispatch

\* An owner that settles its row does so not earlier than its operation began.
LEMMA OwnerSettles ==
    ASSUME TypeInv, HoldInv, ApartInv, NEW w \in Workers, Onward(w), Course(w),
           task[w].at \in {"complete", "unsure"},
           NEW o \in Results \cup {Unknown},
           ran' = ran, lastRun' = lastRun,
           \/ rows' = rows
           \/ /\ Owns(w)
              /\ rows' = [rows EXCEPT ![Scope(w)] = Complete(@, o, task[w].now)]
              /\ task'[w] = Idle
    PROVE  ApartInv'
<1> DEFINE s == Scope(w)
<1>1. /\ s \in Scopes /\ task[w].now \in Nat /\ clock \in Nat /\ Retention \in Nat
      /\ lastRun[s] \in Nat /\ rows \in [Scopes -> Row]
      /\ clock' = clock /\ scopeOf' = scopeOf
  BY FieldsTyped, RowFields, Constants DEF TypeInv, TablesTyped, Onward
<1>2. \A v \in Workers \ {w} : task'[v] = task[v] /\ Scope(v)' = Scope(v)
  BY <1>1 DEF Onward, Scope
<1>3. CASE rows' = rows
  <2>1. \A q \in Scopes : RowApart(q)'
    BY <1>1, <1>3 DEF ApartInv, RowApart, LongAgo
  <2>2. \A v \in Workers \ {w} : OwnerApart(v)'
    BY <1>1, <1>2, <1>3 DEF ApartInv, OwnerApart, Owns
  <2>3. OwnerApart(w)'
    <3>1. CASE task'[w] = Idle
      BY <3>1 DEF OwnerApart, Idle
    <3>2. CASE task'[w].at \in {"idle", "poll", "reserve"}
      BY <3>2 DEF OwnerApart
    <3>3. CASE /\ task'[w].at = "unsure" /\ task'[w].now = clock
               /\ task'[w].token = task[w].token /\ task'[w].cap = task[w].cap
      <4>1. Scope(w)' = s /\ Owns(w)' = Owns(w)
        BY <1>1, <1>3, <3>3 DEF Scope, Owns
      <4>2. lastRun[s] <= clock
        BY <1>1, RowFields
      <4>3. QED
        BY <1>1, <3>3, <4>1, <4>2 DEF OwnerApart, ApartInv
    <3>4. QED
      BY <3>1, <3>2, <3>3 DEF Onward, Course
  <2>4. QED
    BY <2>1, <2>2, <2>3 DEF ApartInv
<1>4. ASSUME Owns(w), task'[w] = Idle,
             rows' = [rows EXCEPT ![s] = Complete(@, o, task[w].now)]
      PROVE  ApartInv'
  <2>1. rows[s].state = "reserved" /\ (ran[s] => task[w].now >= lastRun[s])
    BY <1>4 DEF Owns, ApartInv, OwnerApart
  <2>2. \A v \in Workers \ {w} : Holds(v) /\ Scope(v) = s => ~Owns(v)
    BY <1>4 DEF HoldInv, Apart, Holds, Owns
  <2>3. \A v \in Workers \ {w} : OwnerApart(v)'
    BY <1>1, <1>2, <1>4, <2>2 DEF ApartInv, OwnerApart, Owns, Holds, Complete
  <2>4. OwnerApart(w)'
    BY <1>4 DEF OwnerApart, Idle
  <2> HIDE DEF s
  <2>5. \A q \in Scopes : q # s => RowApart(q)'
    BY <1>1, <1>4 DEF ApartInv, RowApart, LongAgo
  <2>6. \A q \in Scopes : q = s => RowApart(q)'
    BY <1>1, <1>4, <2>1 DEF ApartInv, RowApart, LongAgo, Complete
  <2>7. QED
    BY <2>3, <2>4, <2>5, <2>6 DEF ApartInv
<1>5. QED
  BY <1>3, <1>4

\* complete and _mark_unknown keep operations apart.
LEMMA RecordApart ==
    ASSUME TypeInv, HoldInv, ApartInv, NEW w \in Workers, Record(w) \/ MarkUnknown(w)
    PROVE  ApartInv'
<1>1. Onward(w) /\ Course(w) /\ ran' = ran /\ lastRun' = lastRun
      /\ task[w].at \in {"complete", "unsure"}
      /\ task \in [Workers -> Task]
  BY StepOnward, StepCourse DEF Record, MarkUnknown, observers, At, TypeInv, ThreadsTyped
<1>2. CASE Record(w)
  <2>1. task[w].outcome \in Results
    BY <1>2 DEF Record, At, TypeInv, ThreadsTyped, Carried
  <2>2. \/ rows' = rows
        \/ /\ Owns(w) /\ task'[w] = Idle
           /\ rows' = [rows EXCEPT ![Scope(w)] =
                          Complete(@, task[w].outcome, task[w].now)]
    BY <1>1, <1>2 DEF Record, Answer, Finished
  <2>3. QED
    BY <1>1, <2>1, <2>2, OwnerSettles
<1>3. CASE MarkUnknown(w)
  <2>1. \/ rows' = rows
        \/ /\ Owns(w) /\ task'[w] = Idle
           /\ rows' = [rows EXCEPT ![Scope(w)] = Complete(@, Unknown, task[w].now)]
    BY <1>1, <1>3 DEF MarkUnknown, Finished
  <2>2. QED
    BY <1>1, <2>1, OwnerSettles
<1>4. QED
  BY <1>2, <1>3

\* A thread that does not move stays apart while the rows and the clock rest.
LEMMA OwnerRests ==
    ASSUME NEW v, OwnerApart(v), task'[v] = task[v],
           UNCHANGED <<clock, scopeOf, rows, ran, lastRun>>
    PROVE  OwnerApart(v)'
<1>1. Scope(v)' = Scope(v)
  BY DEF Scope
<1>2. Owns(v)' <=> Owns(v)
  BY <1>1 DEF Owns
<1>3. QED
  BY <1>1, <1>2 DEF OwnerApart

\* A row stays apart while it and the clock rest.
LEMMA RowRests ==
    ASSUME NEW s, RowApart(s), UNCHANGED <<clock, rows, ran, lastRun>>
    PROVE  RowApart(s)'
BY DEF RowApart, LongAgo

\* Nothing else touches the rows.
LEMMA QuietApart ==
    ASSUME TypeInv, ApartInv, NEW w \in Workers,
           Consume(w) \/ Poll(w) \/ Return(w)
    PROVE  ApartInv'
<1>1. Onward(w) /\ Course(w) /\ rows' = rows /\ ran' = ran /\ lastRun' = lastRun
      /\ clock' = clock /\ scopeOf' = scopeOf
      /\ task'[w].at # "running" /\ task'[w].at # "acquired"
  <2>1. /\ Onward(w) /\ Course(w) /\ task[w].at # "acquired" /\ task[w].at # "reserve"
    BY StepOnward, StepCourse DEF Consume, Poll, Return, At
  <2>2. QED
    BY <2>1 DEF Consume, Poll, Return, observers, capabilities, Course
<1>2. \A q \in Scopes : RowApart(q)'
  BY <1>1 DEF ApartInv, RowApart, LongAgo
<1>3. \A v \in Workers \ {w} : OwnerApart(v)'
  BY <1>1, OwnerRests DEF ApartInv, Onward
<1>4. OwnerApart(w)'
  <2>1. CASE task'[w].at \in {"idle", "poll", "reserve"}
    BY <2>1 DEF OwnerApart
  <2>2. CASE task'[w].at \in {"complete", "unsure"}
    <3>1. /\ task'[w].now = clock /\ task'[w].token = task[w].token
          /\ task'[w].cap = task[w].cap
          /\ task'[w].at = "complete" => task[w].at = "running"
      BY <1>1, <2>2 DEF Course, Onward, Idle
    <3>2. Scope(w)' = Scope(w) /\ Owns(w)' = Owns(w)
      BY <1>1, <3>1 DEF Scope, Owns
    <3>3. Scope(w) \in Scopes /\ lastRun[Scope(w)] <= clock
      BY <1>1, FieldsTyped, RowFields DEF Onward
    <3>4. QED
      BY <1>1, <2>2, <3>1, <3>2, <3>3 DEF OwnerApart, ApartInv
  <2>3. QED
    BY <1>1, <2>1, <2>2 DEF Course
<1>5. QED
  BY <1>2, <1>3, <1>4 DEF ApartInv

\* ApartInv is inductive, given the types and HoldInv.
LEMMA ApartNext ==
    ASSUME TypeInv, HoldInv, ApartInv, [Next]_vars
    PROVE  ApartInv'
<1>1. ASSUME NEW w \in Workers,
             \/ Consume(w) \/ Poll(w) \/ Reserve(w) \/ Dispatch(w)
             \/ Return(w) \/ Record(w) \/ MarkUnknown(w)
      PROVE  ApartInv'
  BY <1>1, QuietApart, ReserveApart, DispatchApart, RecordApart
<1>2. ASSUME NEW n \in Nonces, NEW s \in Scopes, Mint(n, s) PROVE ApartInv'
  <2>1. /\ scopeOf \in [Nonces -> Scopes] /\ expires[n] = 0
        /\ task' = task /\ clock' = clock /\ rows' = rows
        /\ ran' = ran /\ lastRun' = lastRun
    BY <1>2 DEF TypeInv, TablesTyped, Mint, observers
  <2>2. \A v \in Workers : task[v].at # "idle" => Scope(v)' = Scope(v)
    <3>1. \A v \in Workers : task[v].at # "idle" => task[v].cap \in Nonces \ {n}
      BY <2>1, FieldsTyped
    <3>2. QED
      BY <1>2, <2>1, <3>1 DEF Mint, Scope
  <2>3. QED
    BY <2>1, <2>2 DEF ApartInv, RowApart, OwnerApart, LongAgo, Owns
<1>3. ASSUME NEW w \in Workers, NEW n \in Nonces, Receive(w, n) PROVE ApartInv'
  <2>1. task \in [Workers -> Task]
    BY DEF TypeInv, ThreadsTyped
  <2>2. /\ task'[w].at = "decoded" /\ \A v \in Workers \ {w} : task'[v] = task[v]
        /\ UNCHANGED <<clock, scopeOf, rows, ran, lastRun>>
    BY <1>3, <2>1 DEF Receive, Idle, capabilities, observers
  <2>3. OwnerApart(w)'
    BY <2>2 DEF OwnerApart
  <2>4. \A v \in Workers \ {w} : OwnerApart(v)'
    BY <2>2, OwnerRests DEF ApartInv
  <2>5. \A s \in Scopes : RowApart(s)'
    BY <2>2, RowRests DEF ApartInv
  <2>6. QED
    BY <2>3, <2>4, <2>5 DEF ApartInv
<1>4. ASSUME NEW w \in Workers, Receipt(w) PROVE ApartInv'
  <2>1. task \in [Workers -> Task] /\ task[w] \in Task
    BY DEF TypeInv, ThreadsTyped
  <2>2. /\ task'[w].at = "consume" /\ \A v \in Workers \ {w} : task'[v] = task[v]
        /\ UNCHANGED <<clock, scopeOf, rows, ran, lastRun>>
    BY <1>4, <2>1 DEF Receipt, Task, capabilities, observers
  <2>3. OwnerApart(w)'
    BY <2>2 DEF OwnerApart
  <2>4. \A v \in Workers \ {w} : OwnerApart(v)'
    BY <2>2, OwnerRests DEF ApartInv
  <2>5. \A s \in Scopes : RowApart(s)'
    BY <2>2, RowRests DEF ApartInv
  <2>6. QED
    BY <2>3, <2>4, <2>5 DEF ApartInv
<1>5. ASSUME Tick PROVE ApartInv'
  <2>1. /\ clock \in Nat /\ clock' = clock + 1 /\ Lease \in Nat /\ Retention \in Nat
        /\ UNCHANGED <<scopeOf, rows, ran, lastRun, task>>
    BY <1>5, Constants DEF Tick, TypeInv, TablesTyped, capabilities, observers
  <2>2. /\ \A s \in Scopes : lastRun[s] \in Nat
        /\ \A v \in Workers : task[v].now \in Nat
    BY FieldsTyped, RowFields
  <2>3. \A s \in Scopes : RowApart(s)'
    BY <2>1, <2>2 DEF ApartInv, RowApart, LongAgo
  <2>4. \A v \in Workers : OwnerApart(v)'
    <3>1. TAKE v \in Workers
    <3>2. Scope(v)' = Scope(v) /\ task' = task /\ OwnerApart(v)
      BY <2>1 DEF Scope, ApartInv
    <3>3. Owns(v)' <=> Owns(v)
      BY <2>1, <3>2 DEF Owns
    <3>4. clock' < task[v].now + Lease => clock < task[v].now + Lease
      BY <2>1, <2>2
    <3>5. QED
      BY <2>1, <3>2, <3>3, <3>4 DEF OwnerApart
  <2>5. QED
    BY <2>3, <2>4 DEF ApartInv
<1>6. ASSUME Crash PROVE ApartInv'
  BY <1>6 DEF Crash, Idle, ApartInv, RowApart, OwnerApart, LongAgo, capabilities, observers
<1>7. ASSUME UNCHANGED vars PROVE ApartInv'
  BY <1>7 DEF vars, ApartInv, RowApart, OwnerApart, LongAgo, Owns, Scope,
              capabilities, observers
<1>8. QED
  BY <1>1, <1>2, <1>3, <1>4, <1>5, <1>6, <1>7 DEF Next, Step

\* A thread that begins its operation does so by Dispatch.
LEMMA OnlyDispatchRuns ==
    ASSUME TypeInv, [Next]_vars, NEW w \in Workers,
           task[w].at = "acquired", task'[w].at = "running"
    PROVE  Dispatch(w)
<1>1. task \in [Workers -> Task]
  BY DEF TypeInv, ThreadsTyped
<1>2. ~(\E n \in Nonces, s \in Scopes : Mint(n, s)) /\ ~Tick /\ ~Crash /\ ~UNCHANGED vars
  BY DEF Mint, Tick, Crash, Idle, vars
<1>3. \A v \in Workers, n \in Nonces : ~Receive(v, n)
  BY <1>1 DEF Receive, At
<1>4. \A v \in Workers : ~Receipt(v)
  BY <1>1 DEF Receipt, At
<1>5. PICK v \in Workers : \/ Consume(v) \/ Poll(v) \/ Reserve(v) \/ Dispatch(v)
                           \/ Return(v) \/ Record(v) \/ MarkUnknown(v)
  BY <1>2, <1>3, <1>4 DEF Next, Step
<1>6. v = w
  BY <1>5, StepOnward DEF Onward
<1>7. QED
  BY <1>5, <1>6 DEF Consume, Poll, Reserve, Return, Record, MarkUnknown, At

\* Two browser operations of one login scope begin at least the retention period
\* apart, whatever threads crash, outlive their lease or act on a stale time.
THEOREM BrokerRunsAreApart == Spec => RunsAreApart
<1> DEFINE Inv == TypeInv /\ HoldInv /\ ApartInv
<1>1. Init => Inv
  BY InitTyped, HoldInit, ApartInit
<1>2. Inv /\ [Next]_vars => Inv'
  BY NextTyped, HoldNext, ApartNext
<1>3. ASSUME Inv, [Next]_vars
      PROVE  [\A w \in Workers :
                At(w, "acquired") /\ task'[w].at = "running" /\ lastRun[Scope(w)] # 0
                => clock >= lastRun[Scope(w)] + Retention]_vars
  <2> SUFFICES ASSUME NEW w \in Workers, At(w, "acquired"), task'[w].at = "running",
                      lastRun[Scope(w)] # 0
               PROVE  clock >= lastRun[Scope(w)] + Retention
    OBVIOUS
  <2>1. Dispatch(w)
    BY <1>3, OnlyDispatchRuns DEF At
  <2>2. QED
    BY <1>3, <2>1, DispatchApart DEF LongAgo
<1>4. QED
  BY <1>1, <1>2, <1>3, PTL DEF Spec, RunsAreApart

-----------------------------------------------------------------------------
(***************************************************************************)
(* The refinement: every step moves each login as LoginOnce allows.         *)
(***************************************************************************)
Login(s) == [stage |-> Stage(rows[s]), ran |-> ran[s],
             outcome |-> rows[s].outcome, told |-> told[s]]

Promised(s) == Login(s)' = Login(s) \/ Login(s)' \in Promise!Moves(Login(s))

\* The stage of a row, by its state.
LEMMA Stages ==
    ASSUME NEW row
    PROVE  /\ row.state = "absent" => Stage(row) = "free"
           /\ row.state = "reserved" => Stage(row) = "pending"
           /\ row.state = "complete" => Stage(row) = "settled"
BY DEF Stage

\* The row that a transaction leaves behind, as a login.
LEMMA LoginAfter ==
    ASSUME NEW s, NEW row, rows'[s] = row
    PROVE  Login(s)' = [stage |-> Stage(row), ran |-> ran'[s],
                        outcome |-> row.outcome, told |-> told'[s]]
BY DEF Login, Stage

\* A reserved row that is completed is a settlement of its login.
LEMMA SettleMove ==
    ASSUME NEW s, NEW r, r = Unknown \/ (ran[s] /\ r \in Results),
           rows[s].state = "reserved", NEW now,
           rows'[s] = Complete(rows[s], r, now), ran'[s] = ran[s],
           told'[s] \in {told[s], told[s] \cup {r}}
    PROVE  Promised(s)
<1> DEFINE l == Login(s)
<1>1. l.stage = "pending" /\ l.ran = ran[s] /\ l.told = told[s]
  BY Stages DEF Login
<1>2. Login(s)' = [stage |-> "settled", ran |-> ran[s], outcome |-> r, told |-> told'[s]]
  <2>1. Complete(rows[s], r, now).state = "complete"
        /\ Complete(rows[s], r, now).outcome = r
    BY DEF Complete
  <2>2. QED
    BY <2>1, Stages, LoginAfter
<1>3. r \in IF l.ran THEN Results \cup {Unknown} ELSE {Unknown}
  BY <1>1
<1> HIDE DEF l
<1>4. Login(s)' \in {Promise!Settled(l, r, l.told), Promise!Settled(l, r, l.told \cup {r})}
  BY <1>1, <1>2 DEF Promise!Settled
<1>5. Login(s)' \in Promise!Settle(l)
  BY <1>1, <1>3, <1>4 DEF Promise!Settle
<1>6. QED
  BY <1>5 DEF Promised, Promise!Moves, l

\* Each turn of reserve is a move of LoginOnce.
LEMMA TurnPromised ==
    ASSUME TypeInv, NEW w \in Workers, NEW s \in Scopes, Turn(s, w)
    PROVE  Promised(s)
<1>1. CASE Asked(s)
  <2>1. CASE told'[s] = told[s]
    BY <1>1, <2>1 DEF Asked, Kept, Promised, Login
  <2>2. CASE rows[s].state = "complete" /\ told'[s] = told[s] \cup {rows[s].outcome}
    <3>1. /\ Login(s).stage = "settled"
          /\ Login(s)' = [Login(s) EXCEPT !.told = @ \cup {Login(s).outcome}]
      BY <1>1, <2>2, Stages DEF Asked, Kept, Login
    <3>2. QED
      BY <3>1 DEF Promised, Promise!Moves, Promise!Tell
  <2>3. QED
    BY <1>1, <2>1, <2>2 DEF Asked
<1>2. CASE Doubted(s, task[w].now)
  BY <1>2, SettleMove DEF Doubted
<1>3. CASE Dropped(s, task[w].now)
  <2>1. /\ Login(s).stage = "settled"
        /\ Login(s).ran = ran[s] /\ Login(s).told = told[s]
        /\ Login(s)' = [stage |-> "free", ran |-> ran[s], outcome |-> NoOutcome,
                        told |-> told[s]]
    BY <1>3, Stages, LoginAfter DEF Dropped, NoRow, Login
  <2>2. QED
    BY <2>1 DEF Promised, Promise!Moves, Promise!Forget
<1>4. CASE Granted(s, w)
  <2>1. Login(s).stage \in {"free", "settled"}
    BY <1>4, Stages DEF Granted, Login
  <2>2. /\ Reserved(tokens + 1, task[w].now).state = "reserved"
        /\ Reserved(tokens + 1, task[w].now).outcome = NoOutcome
    BY DEF Reserved
  <2>3. Login(s)' = [stage |-> "pending", ran |-> FALSE, outcome |-> NoOutcome, told |-> {}]
    BY <1>4, <2>2, Stages, LoginAfter DEF Granted
  <2>4. QED
    BY <2>1, <2>3 DEF Promised, Promise!Moves, Promise!Begun
<1>5. QED
  BY <1>1, <1>2, <1>3, <1>4 DEF Turn

\* The operation begins on a pending login, where none has begun.
LEMMA DispatchPromised ==
    ASSUME TypeInv, HoldInv, ApartInv, NEW w \in Workers, Dispatch(w), NEW s \in Scopes
    PROVE  Promised(s)
<1>1. rows' = rows /\ told' = told /\ ran \in [Scopes -> BOOLEAN]
      /\ task \in [Workers -> Task] /\ task[w] \in Task
  BY DEF Dispatch, TypeInv, TablesTyped, ThreadsTyped
<1>2. CASE ran' = ran
  BY <1>1, <1>2 DEF Promised, Login
<1>3. CASE Goto(w, "running") /\ ran' = [ran EXCEPT ![Scope(w)] = TRUE]
  <2>1. task'[w].at = "running"
    BY <1>1, <1>3 DEF Goto, Task
  <2>2. rows[Scope(w)].state = "reserved" /\ ~ran[Scope(w)]
    BY <2>1, DispatchApart
  <2>3. CASE s # Scope(w)
    BY <1>1, <1>3, <2>3 DEF Promised, Login
  <2>4. CASE s = Scope(w)
    <3>1. /\ Login(s).stage = "pending" /\ ~Login(s).ran
          /\ Login(s)' = [stage |-> Login(s).stage, ran |-> TRUE,
                          outcome |-> Login(s).outcome, told |-> Login(s).told]
      <4>1. rows'[s] = rows[s] /\ ran'[s] = TRUE /\ told'[s] = told[s]
        BY <1>1, <1>3, <2>4
      <4>2. Login(s)' = [stage |-> Stage(rows[s]), ran |-> TRUE,
                         outcome |-> rows[s].outcome, told |-> told[s]]
        BY <4>1, LoginAfter
      <4>3. /\ Login(s).stage = Stage(rows[s]) /\ Login(s).ran = ran[s]
            /\ Login(s).outcome = rows[s].outcome /\ Login(s).told = told[s]
        BY DEF Login
      <4>4. Stage(rows[s]) = "pending"
        BY <2>2, <2>4, Stages
      <4>5. ~Login(s).ran
        BY <2>2, <2>4, <4>3
      <4>6. QED
        BY <4>2, <4>3, <4>4, <4>5
    <3>2. QED
      BY <3>1 DEF Promised, Promise!Moves, Promise!Run
  <2>5. QED
    BY <2>3, <2>4
<1>4. QED
  BY <1>2, <1>3 DEF Dispatch

\* complete and _mark_unknown settle the owner's login or leave it alone.
LEMMA SettlePromised ==
    ASSUME TypeInv, HoldInv, ApartInv, NEW w \in Workers, Record(w) \/ MarkUnknown(w),
           NEW s \in Scopes
    PROVE  Promised(s)
<1>1. /\ rows \in [Scopes -> Row] /\ Scope(w) \in Scopes /\ ran' = ran
      /\ told \in [Scopes -> SUBSET (Results \cup {Unknown})]
  BY FieldsTyped DEF Record, MarkUnknown, At, observers, TypeInv, TablesTyped
<1>2. CASE rows' = rows /\ told' = told
  BY <1>1, <1>2 DEF Promised, Login
<1>3. ASSUME NEW r, r = Unknown \/ (ran[Scope(w)] /\ r \in Results), Owns(w),
             rows' = [rows EXCEPT ![Scope(w)] = Complete(@, r, task[w].now)],
             \/ told' = told
             \/ told' = [told EXCEPT ![Scope(w)] = @ \cup {r}]
      PROVE  Promised(s)
  <2>1. CASE s # Scope(w)
    BY <1>1, <1>3, <2>1 DEF Promised, Login
  <2>2. CASE s = Scope(w)
    <3>1. /\ rows'[s] = Complete(rows[s], r, task[w].now) /\ rows[s].state = "reserved"
          /\ told'[s] \in {told[s], told[s] \cup {r}}
      BY <1>1, <1>3, <2>2 DEF Owns
    <3>2. QED
      BY <1>1, <1>3, <2>2, <3>1, SettleMove
  <2>3. QED
    BY <2>1, <2>2
<1>4. CASE Record(w)
  <2>1. task[w].outcome \in Results /\ (Owns(w) => ran[Scope(w)])
    BY <1>4 DEF Record, At, TypeInv, ThreadsTyped, Carried, ApartInv, OwnerApart
  <2>2. QED
    BY <1>2, <1>3, <1>4, <2>1 DEF Record, Answer
<1>5. CASE MarkUnknown(w)
  BY <1>2, <1>3, <1>5 DEF MarkUnknown, observers
<1>6. QED
  BY <1>4, <1>5

\* Every step of the broker moves every login as promised.
LEMMA NextPromised ==
    ASSUME TypeInv, HoldInv, ApartInv, [Next]_vars, NEW s \in Scopes
    PROVE  Promised(s)
<1>1. ASSUME UNCHANGED <<rows, ran, told>> PROVE Promised(s)
  BY <1>1 DEF Promised, Login
<1>2. ASSUME NEW w \in Workers, Step(w) PROVE Promised(s)
  <2>1. CASE Reserve(w)
    BY <2>1, ReserveTurns, TurnPromised
  <2>2. CASE Dispatch(w)
    BY <2>2, DispatchPromised
  <2>3. CASE Record(w) \/ MarkUnknown(w)
    BY <2>3, SettlePromised
  <2>4. CASE Receipt(w) \/ Consume(w) \/ Poll(w) \/ Return(w)
    BY <1>1, <2>4 DEF Receipt, Consume, Poll, Return, observers
  <2>5. QED
    BY <1>2, <2>1, <2>2, <2>3, <2>4 DEF Step
<1>3. (\E n \in Nonces, q \in Scopes : Mint(n, q)) \/ Tick \/ Crash
      \/ (\E w \in Workers, n \in Nonces : Receive(w, n)) \/ UNCHANGED vars
      => UNCHANGED <<rows, ran, told>>
  BY DEF Mint, Tick, Crash, Receive, vars, observers
<1>4. QED
  BY <1>1, <1>2, <1>3 DEF Next

\* The broker's tables implement LoginOnce for every number of threads, scopes
\* and capabilities and every capacity of its stores.
THEOREM BrokerImplementsLoginOnce == Spec => ImplementsLoginOnce
<1> DEFINE Inv == TypeInv /\ HoldInv /\ ApartInv
           login == [s \in Scopes |-> [stage |-> Stage(rows[s]), ran |-> ran[s],
                                       outcome |-> rows[s].outcome, told |-> told[s]]]
<1>1. Init => Inv
  BY InitTyped, HoldInit, ApartInit
<1>2. Inv /\ [Next]_vars => Inv'
  BY NextTyped, HoldNext, ApartNext
<1>3. Init => Promise!Init
  BY DEF Init, Promise!Init, Promise!Fresh, NoRow, Stage
<1>4. ASSUME Inv, [Next]_vars PROVE [Promise!Next]_login
  <2>1. \A s \in Scopes : Promised(s)
    BY <1>4, NextPromised
  <2>2. \A s \in Scopes : login[s] = Login(s) /\ login'[s] = Login(s)'
    BY DEF Login
  <2>3. DOMAIN login' = Scopes
    OBVIOUS
  <2>4. QED
    BY <2>1, <2>2, <2>3 DEF Promised, Promise!Next
<1>5. QED
  BY <1>1, <1>2, <1>3, <1>4, PTL DEF Spec, ImplementsLoginOnce, Promise!Spec

-----------------------------------------------------------------------------
(***************************************************************************)
(* AnswersAgree follows from the promise: nobody is told anything before a  *)
(* login is settled, and then nothing but the settled outcome.              *)
(***************************************************************************)
Agrees(l) ==
    /\ l.stage = "pending" => l.told = {}
    /\ l.stage = "settled" => l.told \subseteq {l.outcome}
    /\ \E r \in Results \cup {Unknown} : l.told \subseteq {r}

\* No move of LoginOnce makes answers differ.
LEMMA MovesAgree ==
    ASSUME NEW l, Agrees(l), l.stage = "settled" => l.outcome \in Results \cup {Unknown},
           NEW m \in Promise!Moves(l)
    PROVE  Agrees(m)
<1>1. CASE m \in Promise!Begun(l)
  BY <1>1 DEF Promise!Begun, Agrees
<1>2. CASE m \in Promise!Run(l)
  BY <1>2 DEF Promise!Run, Agrees
<1>3. CASE m \in Promise!Settle(l)
  <2>1. l.told = {}
    BY <1>3 DEF Promise!Settle, Agrees
  <2>2. PICK r \in Results \cup {Unknown} :
           m = Promise!Settled(l, r, l.told) \/ m = Promise!Settled(l, r, l.told \cup {r})
    BY <1>3 DEF Promise!Settle
  <2>3. m.stage = "settled" /\ m.outcome = r /\ m.told \subseteq {r}
    BY <2>1, <2>2 DEF Promise!Settled
  <2>4. QED
    BY <2>2, <2>3 DEF Agrees
<1>4. CASE m \in Promise!Tell(l)
  <2>1. l.stage = "settled" /\ m = [l EXCEPT !.told = @ \cup {l.outcome}]
    BY <1>4 DEF Promise!Tell
  <2>2. QED
    BY <2>1 DEF Agrees
<1>5. CASE m \in Promise!Forget(l)
  BY <1>5 DEF Promise!Forget, Agrees
<1>6. QED
  BY <1>1, <1>2, <1>3, <1>4, <1>5 DEF Promise!Moves

\* Whoever gets a result of one operation gets the same one.
THEOREM BrokerAnswersAgree == Spec => []AnswersAgree
<1> DEFINE Agreement == \A s \in Scopes : Agrees(Login(s))
           Inv == TypeInv /\ HoldInv /\ ApartInv /\ Agreement
<1>1. Init => Inv
  <2>1. Init => Agreement
    BY Stages DEF Init, Agrees, Login, NoRow, Results
  <2>2. QED
    BY <2>1, InitTyped, HoldInit, ApartInit
<1>2. Inv /\ [Next]_vars => Inv'
  <2> SUFFICES ASSUME Inv, [Next]_vars PROVE Inv'
    OBVIOUS
  <2>1. Agreement'
    <3> SUFFICES ASSUME NEW s \in Scopes PROVE Agrees(Login(s)')
      BY DEF Agrees
    <3>1. Agrees(Login(s)) /\ Promised(s)
      BY NextPromised
    <3>2. Login(s).stage = "settled" => Login(s).outcome \in Results \cup {Unknown}
      <4>1. rows[s] \in Row /\ rows[s].state \in {"absent", "reserved", "complete"}
        BY RowFields
      <4>2. rows[s].state = "complete" => rows[s].outcome \in Results \cup {Unknown}
        BY <4>1 DEF Row, NoRow
      <4>3. /\ Login(s).stage = Stage(rows[s]) /\ Login(s).outcome = rows[s].outcome
            /\ Stage(rows[s]) = "settled" => rows[s].state = "complete"
        BY <4>1, Stages DEF Login
      <4>4. QED
        BY <4>2, <4>3
    <3>3. QED
      BY <3>1, <3>2, MovesAgree DEF Promised
  <2>2. QED
    BY <2>1, NextTyped, HoldNext, ApartNext
<1>3. Inv => AnswersAgree
  <2> SUFFICES ASSUME Inv, NEW s \in Scopes PROVE Cardinality(told[s]) <= 1
    BY DEF AnswersAgree
  <2>1. PICK r : told[s] \subseteq {r}
    BY DEF Agrees, Login
  <2>2. IsFiniteSet({r}) /\ Cardinality({r}) = 1
    BY FS_Singleton
  <2>3. QED
    BY <2>1, <2>2, FS_Subset, FS_CardinalityType
<1>4. QED
  BY <1>1, <1>2, <1>3, PTL DEF Spec
=============================================================================
