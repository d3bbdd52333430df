------------------------ MODULE BrokerRequestsProofs ------------------------
(***************************************************************************)
(* Proofs about BrokerRequests: the type invariant, that a nonce is         *)
(* accepted once, and that neither store outgrows its bound.                *)
(***************************************************************************)
EXTENDS BrokerRequests, FiniteSetTheorems, TLAPS

\* A thread with a request carries a minted capability, and decoded it alive;
\* one that goes to record an outcome has one.
Carried ==
    \A w \in Workers :
        /\ task[w].at # "idle" => expires[task[w].cap] # 0
        /\ task[w].at = "decoded" => task[w].now < expires[task[w].cap]
        /\ task[w].at = "complete" => task[w].outcome \in Results

ThreadsTyped ==
    /\ task \in [Workers -> Task]
    /\ \A w \in Workers : task[w].at # "idle" => task[w].cap # 0
    /\ Carried

TablesTyped ==
    /\ clock \in Nat
    /\ scopeOf \in [Nonces -> Scopes]
    /\ expires \in [Nonces -> Nat]
    /\ nonces \subseteq Nonces
    /\ tokens \in Nat
    /\ rows \in [Scopes -> Row]
    /\ accepted \in [Nonces -> Nat]
    /\ ran \in [Scopes -> BOOLEAN]
    /\ lastRun \in [Scopes -> 0..clock]
    /\ told \in [Scopes -> SUBSET (Results \cup {Unknown})]

TypeInv == ThreadsTyped /\ TablesTyped

-----------------------------------------------------------------------------
\* The timing constants, and that a request ends within a reservation's lease.
LEMMA Constants ==
    /\ Ttl \in Nat /\ Outer \in Nat /\ Lease \in Nat /\ Retention \in Nat
    /\ Ttl > 0 /\ Outer > 0 /\ Outer <= Lease /\ Retention > 0
BY BrokerAssumption

\* The record of a thread without a request is typed.
LEMMA IdleTyped == TablesTyped => Idle \in Task
BY DEF TablesTyped, Task, Places, Idle

\* The types hold in the beginning.
LEMMA InitTyped == Init => TypeInv
<1> SUFFICES ASSUME Init PROVE TypeInv
  OBVIOUS
<1>1. task \in [Workers -> Task] /\ \A w \in Workers : task[w].at = "idle"
  BY DEF Init, Task, Places, Idle
<1>2. rows \in [Scopes -> Row]
  BY DEF Init, Row, NoRow
<1>3. QED
  BY <1>1, <1>2 DEF Init, TypeInv, ThreadsTyped, TablesTyped, Carried

\* A thread with a request has a capability with a scope, and its fields are typed.
LEMMA FieldsTyped ==
    ASSUME TypeInv, NEW w \in Workers
    PROVE  /\ task[w] \in Task
           /\ task[w].now \in Nat /\ task[w].now <= clock /\ clock \in Nat
           /\ task[w].deadline \in Nat
           /\ task[w].token \in Nat /\ task[w].token <= tokens
           /\ task[w].outcome \in Results \cup {NoOutcome}
           /\ task[w].at # "idle" => /\ task[w].cap \in Nonces
                                     /\ expires[task[w].cap] \in Nat
                                     /\ expires[task[w].cap] # 0
                                     /\ Scope(w) \in Scopes
<1>1. task[w] \in Task /\ (task[w].at # "idle" => task[w].cap # 0)
  BY DEF TypeInv, ThreadsTyped
<1>2. clock \in Nat /\ tokens \in Nat
  BY DEF TypeInv, TablesTyped
<1>3. task[w].at # "idle" => task[w].cap \in Nonces
  BY <1>1 DEF Task
<1>4. QED
  BY <1>1, <1>2, <1>3 DEF TypeInv, ThreadsTyped, TablesTyped, Carried, Task, Scope

\* The threads stay typed when one of them moves to a typed record.
LEMMA TaskTyped ==
    ASSUME TypeInv, NEW w \in Workers, NEW r \in Task,
           task' = [task EXCEPT ![w] = r],
           r.at # "idle" => r.cap # 0 /\ expires[r.cap] # 0,
           r.at = "decoded" => r.now < expires[r.cap],
           r.at = "complete" => r.outcome \in Results,
           clock' = clock, expires' = expires,
           tokens' \in Nat, tokens <= tokens'
    PROVE  ThreadsTyped'
<1>1. task \in [Workers -> Task] /\ tokens \in Nat
  BY DEF TypeInv, ThreadsTyped, TablesTyped
<1>2. Task \subseteq Task'
  BY <1>1 DEF Task
<1>3. \A v \in Workers : task'[v] = IF v = w THEN r ELSE task[v]
  BY <1>1
<1>4. task' \in [Workers -> Task']
  BY <1>1, <1>2
<1>5. \A v \in Workers : task'[v].at # "idle" => task'[v].cap # 0
  BY <1>3 DEF TypeInv, ThreadsTyped
<1>6. Carried'
  BY <1>3 DEF TypeInv, ThreadsTyped, Carried
<1>7. QED
  BY <1>4, <1>5, <1>6 DEF ThreadsTyped

\* The three ways a thread goes on within a request.
LEMMA GoOnTyped ==
    ASSUME TypeInv, NEW w \in Workers, task[w].at # "idle",
           NEW place \in Places \ {"idle", "decoded", "complete"},
           clock' = clock, expires' = expires, tokens' = tokens,
           Goto(w, place) \/ GotoAt(w, place) \/ Finished(w)
    PROVE  ThreadsTyped'
<1> tokens' \in Nat /\ tokens <= tokens'
  BY DEF TypeInv, TablesTyped
<1>0. /\ task[w] \in Task /\ task[w].cap # 0 /\ expires[task[w].cap] # 0
      /\ clock \in Nat /\ clock \in 0..clock /\ tokens \in Nat
  BY DEF TypeInv, ThreadsTyped, TablesTyped, Carried
<1>1. CASE Goto(w, place)
  <2> DEFINE r == [task[w] EXCEPT !.at = place]
  <2>1. r \in Task /\ r.cap = task[w].cap /\ r.at = place
    BY <1>0 DEF Task
  <2>2. QED
    BY <1>0, <1>1, <2>1, TaskTyped DEF Goto
<1>2. CASE GotoAt(w, place)
  <2> DEFINE r == [task[w] EXCEPT !.at = place, !.now = clock]
  <2>1. r \in Task /\ r.cap = task[w].cap /\ r.at = place
    BY <1>0 DEF Task
  <2>2. QED
    BY <1>0, <1>2, <2>1, TaskTyped DEF GotoAt
<1>3. CASE Finished(w)
  <2>1. Idle \in Task /\ Idle.at = "idle"
    BY IdleTyped DEF TypeInv, Idle
  <2>2. QED
    BY <1>0, <1>3, <2>1, TaskTyped DEF Finished
<1>4. QED
  BY <1>1, <1>2, <1>3

\* Decoding a capability keeps the types.
LEMMA ReceiveTyped ==
    ASSUME TypeInv, NEW w \in Workers, NEW n \in Nonces, Receive(w, n)
    PROVE  TypeInv'
<1> DEFINE r == [Idle EXCEPT !.at = "decoded", !.cap = n, !.now = clock]
<1>0. clock \in 0..clock /\ tokens \in Nat
  BY DEF TypeInv, TablesTyped
<1>1. r \in Task /\ r.at = "decoded" /\ r.cap = n /\ r.now = clock
  BY <1>0, IdleTyped DEF TypeInv, Task, Places, Idle
<1>2. n # 0 /\ expires[n] # 0 /\ clock < expires[n]
  BY DEF TypeInv, TablesTyped, Receive, Nonces
<1>3. ThreadsTyped'
  <2>1. /\ tokens' \in Nat /\ tokens <= tokens'
        /\ clock' = clock /\ expires' = expires
        /\ task' = [task EXCEPT ![w] = r]
    BY <1>0 DEF Receive, capabilities
  <2> HIDE DEF r
  <2>2. QED
    BY <1>1, <1>2, <2>1, TaskTyped
<1>4. TablesTyped'
  BY DEF TypeInv, TablesTyped, Receive, capabilities, observers, Row
<1>5. QED
  BY <1>3, <1>4 DEF TypeInv

\* The time a request has is a number, bounded by both of its limits.
LEMMA BudgetTyped ==
    ASSUME TypeInv, NEW w \in Workers, task[w].at = "decoded"
    PROVE  /\ Budget(w) \in Nat /\ Budget(w) <= Outer
           /\ Budget(w) <= expires[task[w].cap] - task[w].now
<1>1. task[w].now \in Nat /\ expires[task[w].cap] \in Nat
  BY FieldsTyped
<1>2. task[w].now < expires[task[w].cap]
  BY DEF TypeInv, ThreadsTyped, Carried
<1>3. QED
  BY <1>1, <1>2, Constants DEF Budget

\* Setting the deadline keeps the types.
LEMMA ReceiptTyped ==
    ASSUME TypeInv, NEW w \in Workers, Receipt(w)
    PROVE  TypeInv'
<1> DEFINE r == [task[w] EXCEPT !.at = "consume", !.deadline = clock + Budget(w)]
<1>0. /\ task[w] \in Task /\ task[w].cap # 0 /\ expires[task[w].cap] # 0
      /\ clock + Budget(w) \in Nat /\ tokens \in Nat
  BY BudgetTyped DEF TypeInv, ThreadsTyped, TablesTyped, Carried, Receipt, At
<1>1. r \in Task /\ r.at = "consume" /\ r.cap = task[w].cap
  <2> HIDE DEF Budget
  <2>1. QED
    BY <1>0 DEF Task, Places
<1>2. ThreadsTyped'
  <2>1. /\ tokens' \in Nat /\ tokens <= tokens'
        /\ clock' = clock /\ expires' = expires
        /\ task' = [task EXCEPT ![w] = r]
    BY <1>0 DEF Receipt, capabilities
  <2> HIDE DEF r
  <2>2. QED
    BY <1>0, <1>1, <2>1, TaskTyped
<1>3. TablesTyped'
  BY DEF TypeInv, TablesTyped, Receipt, capabilities, observers, Row
<1>4. QED
  BY <1>2, <1>3 DEF TypeInv

\* DurableNonceStore.consume keeps the types.
LEMMA ConsumeTyped ==
    ASSUME TypeInv, NEW w \in Workers, Consume(w)
    PROVE  TypeInv'
<1>0. task[w].at # "idle" /\ "poll" \in Places \ {"idle", "decoded", "complete"}
  BY DEF Consume, At, Places
<1>1. task[w].cap \in Nonces
  BY <1>0, FieldsTyped
<1>2. ThreadsTyped'
  BY <1>0, GoOnTyped DEF Consume, capabilities
<1>3. TablesTyped'
  BY <1>1 DEF TypeInv, TablesTyped, Consume, Unexpired, capabilities, Row
<1>4. QED
  BY <1>2, <1>3 DEF TypeInv

\* The loop around reserve keeps the types.
LEMMA PollTyped ==
    ASSUME TypeInv, NEW w \in Workers, Poll(w)
    PROVE  TypeInv'
<1>0. task[w].at # "idle" /\ "reserve" \in Places \ {"idle", "decoded", "complete"}
  BY DEF Poll, At, Places
<1>1. ThreadsTyped'
  BY <1>0, GoOnTyped DEF Poll, capabilities
<1>2. TablesTyped'
  BY DEF TypeInv, TablesTyped, Poll, capabilities, observers, Row
<1>3. QED
  BY <1>1, <1>2 DEF TypeInv

\* The return of the operation keeps the types.
LEMMA ReturnTyped ==
    ASSUME TypeInv, NEW w \in Workers, Return(w)
    PROVE  TypeInv'
<1>0. task[w].at # "idle" /\ "unsure" \in Places \ {"idle", "decoded", "complete"}
  BY DEF Return, At, Places
<1>1. /\ task[w] \in Task /\ task[w].cap # 0 /\ expires[task[w].cap] # 0
      /\ clock \in 0..clock
  BY <1>0 DEF TypeInv, ThreadsTyped, TablesTyped, Carried
<1>2. clock' = clock /\ expires' = expires /\ tokens' = tokens
  BY DEF Return, capabilities
<1>3. ASSUME NEW o \in Results, task' = [task EXCEPT ![w] = Reporting(@, o)]
      PROVE  ThreadsTyped'
  <2>1. /\ Reporting(task[w], o) \in Task /\ Reporting(task[w], o).at = "complete"
        /\ Reporting(task[w], o).cap = task[w].cap
        /\ Reporting(task[w], o).outcome \in Results
    BY <1>1 DEF Task, Places, Reporting
  <2>2. tokens' \in Nat /\ tokens <= tokens'
    BY <1>2 DEF TypeInv, TablesTyped
  <2>3. QED
    BY <1>1, <1>2, <1>3, <2>1, <2>2, TaskTyped
<1>4. ThreadsTyped'
  BY <1>0, <1>2, <1>3, GoOnTyped DEF Return
<1>5. TablesTyped'
  BY DEF TypeInv, TablesTyped, Return, capabilities, observers, Row
<1>6. QED
  BY <1>4, <1>5 DEF TypeInv

\* The beginning of the operation keeps the types.
LEMMA DispatchTyped ==
    ASSUME TypeInv, NEW w \in Workers, Dispatch(w)
    PROVE  TypeInv'
<1>0. /\ task[w].at # "idle" /\ "unsure" \in Places \ {"idle", "decoded", "complete"}
      /\ "running" \in Places \ {"idle", "decoded", "complete"}
  BY DEF Dispatch, At, Places
<1>1. Scope(w) \in Scopes /\ clock \in 0..clock
  BY <1>0, FieldsTyped
<1>2. ThreadsTyped'
  <2>1. clock' = clock /\ expires' = expires /\ tokens' = tokens
    BY DEF Dispatch, capabilities
  <2>2. QED
    BY <1>0, <2>1, GoOnTyped DEF Dispatch
<1>3. TablesTyped'
  <2>1. ran' \in [Scopes -> BOOLEAN]
    BY <1>1 DEF TypeInv, TablesTyped, Dispatch
  <2>2. lastRun' \in [Scopes -> 0..clock]
    BY <1>1 DEF TypeInv, TablesTyped, Dispatch
  <2>3. QED
    BY <2>1, <2>2 DEF TypeInv, TablesTyped, Dispatch, capabilities, Row
<1>4. QED
  BY <1>2, <1>3 DEF TypeInv

\* What the stores write into a row is typed.
LEMMA RowTyped ==
    ASSUME TypeInv, NEW row \in Row, row.state = "reserved", NEW now \in Nat,
           NEW o \in Results \cup {Unknown}
    PROVE  Complete(row, o, now) \in Row
<1>1. tokens \in Nat /\ now + Retention \in Nat
  BY Constants DEF TypeInv, TablesTyped
<1>2. QED
  BY <1>1 DEF Complete, NoRow, Row

\* Answering a typed result keeps the types.
LEMMA AnswerTyped ==
    ASSUME TypeInv, NEW w \in Workers, task[w].at # "idle",
           NEW o \in Results \cup {Unknown}, Answer(w, o),
           clock' = clock, expires' = expires, tokens' = tokens
    PROVE  ThreadsTyped' /\ told' \in [Scopes -> SUBSET (Results \cup {Unknown})]
<1>1. ThreadsTyped'
  <2>1. "poll" \in Places \ {"idle", "decoded", "complete"}
    BY DEF Places
  <2>2. QED
    BY <2>1, GoOnTyped DEF Answer
<1>2. QED
  BY <1>1, FieldsTyped DEF Answer, TypeInv, TablesTyped

\* complete keeps the types.
LEMMA RecordTyped ==
    ASSUME TypeInv, NEW w \in Workers, Record(w)
    PROVE  TypeInv'
<1>0. /\ task[w].at # "idle" /\ "unsure" \in Places \ {"idle", "decoded", "complete"}
      /\ At(w, "complete")
      /\ clock' = clock /\ expires' = expires /\ tokens' = tokens
  BY DEF Record, At, Places, capabilities
<1>1. /\ Scope(w) \in Scopes /\ task[w].now \in Nat
      /\ task[w].outcome \in Results
      /\ rows[Scope(w)] \in Row
  <2>1. Scope(w) \in Scopes /\ task[w].now \in Nat
    BY <1>0, FieldsTyped
  <2>2. QED
    BY <1>0, <2>1 DEF TypeInv, TablesTyped, ThreadsTyped, Carried, At
<1>2. ASSUME Owns(w), Answer(w, task[w].outcome),
             rows' = [rows EXCEPT ![Scope(w)] = Complete(@, task[w].outcome, task[w].now)]
      PROVE  TypeInv'
  <2>1. ThreadsTyped' /\ told' \in [Scopes -> SUBSET (Results \cup {Unknown})]
    BY <1>0, <1>1, <1>2, AnswerTyped
  <2>2. rows' \in [Scopes -> Row]
    BY <1>1, <1>2, RowTyped DEF TypeInv, TablesTyped, Owns
  <2>3. QED
    BY <1>0, <2>1, <2>2 DEF TypeInv, TablesTyped, Record, capabilities, Row
<1>3. ASSUME GotoAt(w, "unsure"), UNCHANGED <<rows, told>>
      PROVE  TypeInv'
  <2>1. ThreadsTyped'
    BY <1>0, <1>3, GoOnTyped
  <2>2. QED
    BY <1>0, <1>3, <2>1 DEF TypeInv, TablesTyped, Record, capabilities, Row
<1>4. QED
  BY <1>2, <1>3 DEF Record

\* _mark_unknown keeps the types.
LEMMA MarkUnknownTyped ==
    ASSUME TypeInv, NEW w \in Workers, MarkUnknown(w)
    PROVE  TypeInv'
<1>0. /\ task[w].at # "idle" /\ "poll" \in Places \ {"idle", "decoded", "complete"}
      /\ clock' = clock /\ expires' = expires /\ tokens' = tokens
  BY DEF MarkUnknown, At, Places, capabilities
<1>1. Scope(w) \in Scopes /\ task[w].now \in Nat /\ rows[Scope(w)] \in Row
  BY <1>0, FieldsTyped DEF TypeInv, TablesTyped
<1>2. rows' \in [Scopes -> Row]
  BY <1>1, RowTyped DEF MarkUnknown, TypeInv, TablesTyped, Owns
<1>3. ThreadsTyped'
  BY <1>0, GoOnTyped DEF MarkUnknown
<1>4. QED
  BY <1>0, <1>2, <1>3
  DEF TypeInv, TablesTyped, MarkUnknown, capabilities, observers, Row

\* The sweep of typed rows yields typed rows.
LEMMA SweptTyped ==
    ASSUME TypeInv, NEW R \in [Scopes -> Row], NEW now \in Nat
    PROVE  Swept(R, now) \in [Scopes -> Row]
<1>1. \A s \in Scopes : R[s].state = "reserved" => Complete(R[s], Unknown, now) \in Row
  BY RowTyped
<1>2. NoRow \in Row
  BY DEF Row
<1>3. QED
  BY <1>1, <1>2 DEF Swept

\* Owner tokens are never reused: a new one makes every type grow.
LEMMA TokenGrows ==
    ASSUME TypeInv, tokens' = tokens + 1
    PROVE  /\ tokens' \in Nat /\ tokens <= tokens' /\ tokens + 1 \in 1..tokens'
           /\ Row \subseteq Row' /\ Task \subseteq [at : Places, cap : Nonces \cup {0},
                  now : 0..clock, deadline : Nat, token : 0..tokens',
                  outcome : Results \cup {NoOutcome}]
<1>1. tokens \in Nat
  BY DEF TypeInv, TablesTyped
<1>2. QED
  BY <1>1 DEF Row, Task

\* reserve keeps the types in each of its outcomes.
LEMMA ReserveTyped ==
    ASSUME TypeInv, NEW w \in Workers, Reserve(w)
    PROVE  TypeInv'
<1>0. /\ task[w].at # "idle" /\ "poll" \in Places \ {"idle", "decoded", "complete"}
      /\ clock' = clock /\ expires' = expires /\ scopeOf' = scopeOf
      /\ nonces' = nonces /\ accepted' = accepted /\ lastRun' = lastRun
  BY DEF Reserve, At, Places, capabilities
<1>1. /\ Scope(w) \in Scopes /\ task[w].now \in Nat /\ rows[Scope(w)] \in Row
      /\ rows \in [Scopes -> Row]
  BY <1>0, FieldsTyped DEF TypeInv, TablesTyped
<1>2. ASSUME ReserveBusy(w) PROVE TypeInv'
  <2>1. ThreadsTyped'
    BY <1>0, <1>2, GoOnTyped DEF ReserveBusy
  <2>2. QED
    BY <1>0, <1>2, <2>1 DEF ReserveBusy, TypeInv, TablesTyped, Row
<1>3. ASSUME ReserveLapsed(w) PROVE TypeInv'
  <2>1. ThreadsTyped' /\ told' \in [Scopes -> SUBSET (Results \cup {Unknown})]
    BY <1>0, <1>3, AnswerTyped DEF ReserveLapsed
  <2>2. rows' \in [Scopes -> Row]
    BY <1>1, <1>3, RowTyped DEF ReserveLapsed
  <2>3. QED
    BY <1>0, <1>3, <2>1, <2>2 DEF ReserveLapsed, TypeInv, TablesTyped, Row
<1>4. ASSUME ReserveRefused(w) PROVE TypeInv'
  <2>1. ThreadsTyped'
    BY <1>0, <1>4, GoOnTyped DEF ReserveRefused
  <2>2. QED
    BY <1>0, <1>4, <2>1 DEF ReserveRefused, TypeInv, TablesTyped, Row
<1>5. ASSUME ReserveAnew(w) PROVE TypeInv'
  <2> DEFINE R == Swept([rows EXCEPT ![Scope(w)] = NoRow], task[w].now)
             r == [task[w] EXCEPT !.at = "acquired", !.token = tokens + 1]
  <2>1. R \in [Scopes -> Row]
    <3>1. [rows EXCEPT ![Scope(w)] = NoRow] \in [Scopes -> Row]
      BY <1>1 DEF Row
    <3>2. QED
      BY <1>1, <3>1, SweptTyped
  <2> HIDE DEF R
  <2>2. ASSUME rows' = [R EXCEPT ![Scope(w)] = Reserved(tokens + 1, task[w].now)],
               tokens' = tokens + 1,
               ran' = [ran EXCEPT ![Scope(w)] = FALSE],
               told' = [told EXCEPT ![Scope(w)] = {}],
               task' = [task EXCEPT ![w] = r]
        PROVE  TypeInv'
    <3>1. Reserved(tokens + 1, task[w].now) \in Row'
      <4>1. task[w].now + Lease \in Nat
        BY <1>1, Constants
      <4>2. QED
        BY <2>2, <4>1, TokenGrows DEF Reserved, Row
    <3>2. rows' \in [Scopes -> Row']
      BY <2>1, <2>2, <3>1, TokenGrows
    <3>3. ThreadsTyped'
      <4>1. /\ task \in [Workers -> Task] /\ task[w].cap # 0
            /\ expires[task[w].cap] # 0 /\ Carried
            /\ \A v \in Workers : task[v].at # "idle" => task[v].cap # 0
        BY <1>0 DEF TypeInv, ThreadsTyped, Carried
      <4>2. r \in Task' /\ r.at = "acquired" /\ r.cap = task[w].cap
        <5>1. tokens + 1 \in 0..tokens' /\ task[w] \in Task /\ tokens' \in Nat
          BY <2>2, <4>1, TokenGrows
        <5>2. r \in [at : Places, cap : Nonces \cup {0}, now : 0..clock, deadline : Nat,
                     token : 0..tokens', outcome : Results \cup {NoOutcome}]
          BY <5>1 DEF Task, Places
        <5>3. QED
          BY <1>0, <5>1, <5>2 DEF Task
      <4>3. Task \subseteq Task'
        BY <1>0, <2>2, TokenGrows DEF Task
      <4> HIDE DEF r
      <4>4. task' \in [Workers -> Task']
        BY <2>2, <4>1, <4>2, <4>3
      <4>5. \A v \in Workers : task'[v] = IF v = w THEN r ELSE task[v]
        BY <2>2, <4>1
      <4>6. QED
        BY <1>0, <4>1, <4>2, <4>4, <4>5 DEF ThreadsTyped, Carried
    <3>4. QED
      <4>1. /\ ran' \in [Scopes -> BOOLEAN]
            /\ told' \in [Scopes -> SUBSET (Results \cup {Unknown})]
            /\ tokens' \in Nat
        BY <1>1, <2>2, TokenGrows DEF TypeInv, TablesTyped
      <4>2. QED
        BY <1>0, <3>2, <3>3, <4>1 DEF TypeInv, TablesTyped
  <2>3. ASSUME rows' = R, Finished(w), UNCHANGED <<tokens, ran, told>>
        PROVE  TypeInv'
    <3>1. ThreadsTyped'
      BY <1>0, <2>3, GoOnTyped
    <3>2. QED
      BY <1>0, <2>1, <2>3, <3>1 DEF TypeInv, TablesTyped, Row
  <2>4. QED
    BY <1>5, <2>2, <2>3 DEF ReserveAnew, R
<1>6. ASSUME ReserveReplay(w) PROVE TypeInv'
  <2>1. rows[Scope(w)].outcome \in Results \cup {Unknown}
    BY <1>1, <1>6 DEF ReserveReplay, Row, NoRow
  <2>2. ThreadsTyped' /\ told' \in [Scopes -> SUBSET (Results \cup {Unknown})]
    BY <1>0, <1>6, <2>1, AnswerTyped DEF ReserveReplay
  <2>3. QED
    BY <1>0, <1>6, <2>2 DEF ReserveReplay, TypeInv, TablesTyped, Row
<1>7. QED
  BY <1>2, <1>3, <1>4, <1>5, <1>6 DEF Reserve

\* A new capability is one that no thread carries.
LEMMA MintTyped ==
    ASSUME TypeInv, NEW n \in Nonces, NEW s \in Scopes, Mint(n, s)
    PROVE  TypeInv'
<1>1. clock + Ttl \in Nat /\ clock + Ttl # 0
  BY Constants DEF TypeInv, TablesTyped
<1>2. expires \in [Nonces -> Nat] /\ expires[n] = 0
  BY DEF Mint, TypeInv, TablesTyped
<1>3. task' = task /\ tokens' = tokens /\ clock' = clock
  BY DEF Mint
<1>4. \A v \in Workers : /\ task[v] \in Task
                        /\ task[v].at # "idle" => task[v].cap \in Nonces \ {n}
  BY <1>2 DEF TypeInv, ThreadsTyped, Carried, Task
<1>5. \A m \in Nonces \ {n} : expires'[m] = expires[m]
  BY <1>2 DEF Mint
<1>6. Carried'
  BY <1>3, <1>4, <1>5 DEF TypeInv, ThreadsTyped, Carried
<1>7. ThreadsTyped'
  BY <1>3, <1>6 DEF TypeInv, ThreadsTyped, Task
<1>8. scopeOf' \in [Nonces -> Scopes] /\ expires' \in [Nonces -> Nat]
  BY <1>1 DEF TypeInv, TablesTyped, Mint
<1>9. TablesTyped'
  BY <1>3, <1>8 DEF TypeInv, TablesTyped, Mint, observers, Row
<1>10. QED
  BY <1>7, <1>9 DEF TypeInv

\* The passing of time keeps the types.
LEMMA TickTyped ==
    ASSUME TypeInv, Tick
    PROVE  TypeInv'
<1>1. clock \in Nat /\ clock' = clock + 1 /\ tokens' = tokens /\ task' = task
  BY DEF TypeInv, TablesTyped, Tick
<1>2. Task \subseteq Task'
  BY <1>1 DEF Task
<1>3. ThreadsTyped'
  <2>1. task' \in [Workers -> Task']
    BY <1>1, <1>2 DEF TypeInv, ThreadsTyped
  <2>2. QED
    BY <1>1, <2>1 DEF TypeInv, ThreadsTyped, Carried, Tick, capabilities
<1>4. lastRun' \in [Scopes -> 0..clock']
  <2>1. 0..clock \subseteq 0..clock' /\ lastRun \in [Scopes -> 0..clock] /\ lastRun' = lastRun
    BY <1>1 DEF TypeInv, TablesTyped, Tick, observers
  <2>2. QED
    BY <2>1
<1>5. TablesTyped'
  BY <1>1, <1>4 DEF TypeInv, TablesTyped, Tick, capabilities, observers, Row
<1>6. QED
  BY <1>3, <1>5 DEF TypeInv

\* A crash of the broker keeps the types.
LEMMA CrashTyped ==
    ASSUME TypeInv, Crash
    PROVE  TypeInv'
<1>1. Idle \in Task /\ Idle.at = "idle"
  BY IdleTyped DEF TypeInv, Idle
<1>2. clock' = clock /\ tokens' = tokens /\ expires' = expires
  BY DEF Crash, capabilities
<1>3. task' \in [Workers -> Task] /\ \A w \in Workers : task'[w].at = "idle"
  BY <1>1 DEF Crash
<1>4. ThreadsTyped'
  BY <1>2, <1>3 DEF ThreadsTyped, Carried, Task
<1>5. TablesTyped'
  BY <1>2 DEF TypeInv, TablesTyped, Crash, capabilities, observers, Row
<1>6. QED
  BY <1>4, <1>5 DEF TypeInv

\* A stuttering step keeps the types.
LEMMA StutterTyped ==
    ASSUME TypeInv, UNCHANGED vars
    PROVE  TypeInv'
BY DEF TypeInv, ThreadsTyped, TablesTyped, Carried, Task, Row, vars,
       capabilities, observers

\* TypeInv is inductive.
LEMMA NextTyped == TypeInv /\ [Next]_vars => TypeInv'
BY MintTyped, ReceiveTyped, ReceiptTyped, ConsumeTyped, PollTyped, ReserveTyped,
   DispatchTyped, ReturnTyped, RecordTyped, MarkUnknownTyped, TickTyped, CrashTyped,
   StutterTyped
DEF Next, Step

\* The type invariant of the tables and of the threads, whatever the constants.
THEOREM BrokerTyped == Spec => []TypeOK
<1>1. TypeInv => TypeOK
  BY DEF TypeInv, ThreadsTyped, TablesTyped, TypeOK
<1>2. QED
  BY InitTyped, NextTyped, <1>1, PTL DEF Spec

-----------------------------------------------------------------------------
(***************************************************************************)
(* NonceOnce.  A thread that may still consume its nonce is within its      *)
(* deadline, which is not later than the nonce's expiry; a nonce that was   *)
(* accepted is remembered until then.  So the row that makes the second     *)
(* attempt fail is there whenever the attempt is in time.                   *)
(***************************************************************************)
NonceSafe(n) ==
    /\ accepted[n] <= 1
    /\ accepted[n] # 0 => expires[n] # 0 /\ (n \in nonces \/ clock >= expires[n])

\* Both clocks were read at one instant: the deadline respects the expiry.
InTime(w) ==
    /\ task[w].at = "decoded" => task[w].now = clock
    /\ task[w].at \notin {"idle", "decoded"} => task[w].deadline <= expires[task[w].cap]

NonceInv == (\A n \in Nonces : NonceSafe(n)) /\ (\A w \in Workers : InTime(w))

\* After its receipt a request keeps its capability and its deadline until it
\* ends, and the other threads and the capabilities stay as they are.
Onward(w) ==
    /\ task[w].at \notin {"idle", "decoded"}
    /\ \A v \in Workers \ {w} : task'[v] = task[v]
    /\ \/ task'[w] = Idle
       \/ /\ task'[w].at \notin {"idle", "decoded"}
          /\ task'[w].cap = task[w].cap
          /\ task'[w].deadline = task[w].deadline
    /\ clock' = clock /\ scopeOf' = scopeOf /\ expires' = expires

\* The three ways a thread goes on are onward.
LEMMA MoveOnward ==
    ASSUME TypeInv, NEW w \in Workers, task[w].at \notin {"idle", "decoded"},
           NEW place \in Places \ {"idle", "decoded"},
           clock' = clock, scopeOf' = scopeOf, expires' = expires,
           Goto(w, place) \/ GotoAt(w, place) \/ Finished(w)
    PROVE  Onward(w)
<1>1. task \in [Workers -> Task] /\ task[w] \in Task
  BY DEF TypeInv, ThreadsTyped
<1>2. ASSUME Goto(w, place) PROVE Onward(w)
  BY <1>1, <1>2 DEF Goto, Onward, Task
<1>3. ASSUME GotoAt(w, place) PROVE Onward(w)
  BY <1>1, <1>3 DEF GotoAt, Onward, Task
<1>4. ASSUME Finished(w) PROVE Onward(w)
  BY <1>1, <1>4 DEF Finished, Onward
<1>5. QED
  BY <1>2, <1>3, <1>4

\* Every step of a request after its receipt is onward.
LEMMA StepOnward ==
    ASSUME TypeInv, NEW w \in Workers,
           \/ Consume(w) \/ Poll(w) \/ Reserve(w) \/ Dispatch(w)
           \/ Return(w) \/ Record(w) \/ MarkUnknown(w)
    PROVE  Onward(w)
<1>1. /\ task[w].at \notin {"idle", "decoded"}
      /\ clock' = clock /\ scopeOf' = scopeOf /\ expires' = expires
  BY DEF Consume, Poll, Reserve, Dispatch, Return, Record, MarkUnknown, At, capabilities
<1>2. {"poll", "reserve", "running", "unsure"} \subseteq Places \ {"idle", "decoded"}
  BY DEF Places
<1>3. task \in [Workers -> Task] /\ task[w] \in Task
  BY DEF TypeInv, ThreadsTyped
<1>4. ASSUME Consume(w) \/ Poll(w) \/ Dispatch(w) \/ Record(w) \/ MarkUnknown(w)
      PROVE  Onward(w)
  BY <1>1, <1>2, <1>4, MoveOnward DEF Consume, Poll, Dispatch, Record, MarkUnknown, Answer
<1>5. ASSUME Return(w) PROVE Onward(w)
  <2>1. ASSUME NEW r \in Results, task' = [task EXCEPT ![w] = Reporting(@, r)]
        PROVE  Onward(w)
    BY <1>1, <1>3, <2>1 DEF Reporting, Onward
  <2>2. QED
    BY <1>1, <1>2, <1>5, <2>1, MoveOnward DEF Return
<1>6. ASSUME Reserve(w) PROVE Onward(w)
  <2>1. ASSUME task' = [task EXCEPT ![w] =
                           [@ EXCEPT !.at = "acquired", !.token = tokens + 1]]
        PROVE  Onward(w)
    BY <1>1, <1>3, <2>1 DEF Onward, Task
  <2>2. Goto(w, "poll") \/ Finished(w) => Onward(w)
    BY <1>1, <1>2, MoveOnward
  <2>3. QED
    BY <1>6, <2>1, <2>2
    DEF Reserve, ReserveBusy, ReserveLapsed, ReserveReplay, ReserveAnew, ReserveRefused, Answer
<1>7. QED
  BY <1>4, <1>5, <1>6

\* No nonce was accepted in the beginning.
LEMMA NonceInit == Init => NonceInv
BY DEF Init, NonceInv, NonceSafe, InTime, Idle

\* Deadlines stay within the expiry while requests go on.
LEMMA OnwardInTime ==
    ASSUME TypeInv, NonceInv, NEW w \in Workers, Onward(w)
    PROVE  \A v \in Workers : InTime(v)'
BY DEF NonceInv, InTime, Onward, Idle

\* A nonce accepted in time was not accepted before.
LEMMA ConsumeNonce ==
    ASSUME TypeInv, NonceInv, NEW w \in Workers, Consume(w)
    PROVE  NonceInv'
<1>1. \A v \in Workers : InTime(v)'
  BY StepOnward, OnwardInTime
<1>2. /\ task[w].cap \in Nonces /\ task[w].now \in Nat /\ task[w].now <= clock
      /\ task[w].deadline \in Nat /\ clock \in Nat
      /\ clock' = clock /\ expires' = expires
  BY FieldsTyped DEF Consume, At, capabilities
<1>3. expires \in [Nonces -> Nat] /\ accepted \in [Nonces -> Nat]
  BY DEF TypeInv, TablesTyped
<1>4. CASE UNCHANGED <<nonces, accepted>>
  BY <1>1, <1>2, <1>4 DEF NonceInv, NonceSafe
<1>5. ASSUME ~OutOfTime(w), task[w].cap \notin Unexpired(task[w].now),
             nonces' = Unexpired(task[w].now) \cup {task[w].cap},
             accepted' = [accepted EXCEPT ![task[w].cap] = @ + 1]
      PROVE  \A n \in Nonces : NonceSafe(n)'
  <2>1. clock < expires[task[w].cap]
    BY <1>2, <1>3, <1>5 DEF OutOfTime, NonceInv, InTime, Consume, At
  <2>2. accepted[task[w].cap] = 0
    BY <1>2, <1>3, <1>5, <2>1 DEF Unexpired, NonceInv, NonceSafe
  <2>3. \A n \in Nonces \ {task[w].cap} : NonceSafe(n)'
    BY <1>2, <1>3, <1>5 DEF Unexpired, NonceInv, NonceSafe
  <2>4. \A n \in Nonces : n = task[w].cap => NonceSafe(n)'
    BY <1>2, <1>3, <1>5, <2>1, <2>2 DEF NonceSafe
  <2>5. QED
    BY <2>3, <2>4
<1>6. QED
  BY <1>1, <1>4, <1>5 DEF Consume, NonceInv

\* A new capability's nonce was not accepted.
LEMMA MintNonce ==
    ASSUME TypeInv, NonceInv, NEW n \in Nonces, NEW s \in Scopes, Mint(n, s)
    PROVE  NonceInv'
<1>1. /\ expires \in [Nonces -> Nat] /\ expires[n] = 0
      /\ task' = task /\ clock' = clock /\ nonces' = nonces /\ accepted' = accepted
  BY DEF TypeInv, TablesTyped, Mint, observers
<1>2. \A m \in Nonces \ {n} : expires'[m] = expires[m]
  BY <1>1 DEF Mint
<1>3. \A v \in Workers : task[v].at # "idle" => task[v].cap \in Nonces \ {n}
  BY <1>1, FieldsTyped
<1>4. \A v \in Workers : InTime(v)'
  BY <1>1, <1>2, <1>3 DEF NonceInv, InTime
<1>5. accepted[n] = 0
  BY <1>1 DEF NonceInv, NonceSafe
<1>6. \A m \in Nonces : NonceSafe(m)'
  BY <1>1, <1>2, <1>5 DEF NonceInv, NonceSafe
<1>7. QED
  BY <1>4, <1>6 DEF NonceInv

\* NonceInv is inductive when both clocks are read at one instant.
LEMMA NonceNext ==
    ASSUME PromptReceipt, TypeInv, NonceInv, [Next]_vars
    PROVE  NonceInv'
<1>1. ASSUME NEW n \in Nonces, NEW s \in Scopes, Mint(n, s) PROVE NonceInv'
  BY <1>1, MintNonce
<1>2. ASSUME NEW w \in Workers, NEW n \in Nonces, Receive(w, n) PROVE NonceInv'
  <2>1. task \in [Workers -> Task]
    BY DEF TypeInv, ThreadsTyped
  <2>2. /\ task'[w].at = "decoded" /\ task'[w].now = clock
        /\ \A v \in Workers \ {w} : task'[v] = task[v]
    BY <1>2, <2>1 DEF Receive, Idle
  <2>3. QED
    BY <1>2, <2>2 DEF NonceInv, NonceSafe, InTime, Receive, capabilities, observers
<1>3. ASSUME NEW w \in Workers, Receipt(w) PROVE NonceInv'
  <2>1. /\ task \in [Workers -> Task] /\ task[w] \in Task
        /\ clock \in Nat /\ task[w].now \in Nat /\ task[w].now = clock
        /\ expires[task[w].cap] \in Nat
    BY <1>3, FieldsTyped DEF TypeInv, ThreadsTyped, NonceInv, InTime, Receipt, At
  <2>2. clock + Budget(w) <= expires[task[w].cap]
    BY <1>3, <2>1, BudgetTyped DEF Receipt, At
  <2> HIDE DEF Budget
  <2>3. /\ task'[w].at = "consume" /\ task'[w].cap = task[w].cap
        /\ task'[w].deadline = clock + Budget(w)
        /\ \A v \in Workers \ {w} : task'[v] = task[v]
    BY <1>3, <2>1 DEF Receipt, Task
  <2>4. QED
    BY <1>3, <2>2, <2>3 DEF NonceInv, NonceSafe, InTime, Receipt, capabilities, observers
<1>4. ASSUME NEW w \in Workers, Consume(w) PROVE NonceInv'
  BY <1>4, ConsumeNonce
<1>5. ASSUME NEW w \in Workers,
             \/ Poll(w) \/ Reserve(w) \/ Dispatch(w)
             \/ Return(w) \/ Record(w) \/ MarkUnknown(w)
      PROVE  NonceInv'
  <2>1. \A v \in Workers : InTime(v)'
    BY <1>5, StepOnward, OnwardInTime
  <2>2. UNCHANGED <<clock, expires, nonces, accepted>>
    BY <1>5 DEF Poll, Reserve, Dispatch, Return, Record, MarkUnknown, capabilities, observers
  <2>3. QED
    BY <2>1, <2>2 DEF NonceInv, NonceSafe
<1>6. ASSUME Tick PROVE NonceInv'
  <2>1. /\ \A w \in Workers : task[w].at # "decoded"
        /\ clock \in Nat /\ clock' = clock + 1 /\ expires \in [Nonces -> Nat]
    BY <1>6 DEF Tick, At, TypeInv, TablesTyped
  <2>2. QED
    BY <1>6, <2>1 DEF NonceInv, NonceSafe, InTime, Tick, capabilities, observers
<1>7. ASSUME Crash PROVE NonceInv'
  BY <1>7 DEF NonceInv, NonceSafe, InTime, Crash, Idle, capabilities, observers
<1>8. ASSUME UNCHANGED vars PROVE NonceInv'
  BY <1>8 DEF NonceInv, NonceSafe, InTime, vars, capabilities, observers
<1>9. QED
  BY <1>1, <1>2, <1>3, <1>4, <1>5, <1>6, <1>7, <1>8 DEF Next, Step

\* DurableNonceStore.consume accepts a nonce once, across threads, stale times,
\* prunings and crashes, provided handle reads its two clocks at one instant.
THEOREM BrokerNonceOnce ==
    ASSUME PromptReceipt
    PROVE  Spec => []NonceOnce
<1>1. NonceInv => NonceOnce
  BY DEF NonceInv, NonceSafe, NonceOnce
<1>2. TypeInv /\ NonceInv /\ [Next]_vars => NonceInv'
  BY NonceNext
<1>3. QED
  BY InitTyped, NextTyped, NonceInit, <1>1, <1>2, PTL DEF Spec

-----------------------------------------------------------------------------
(* The two stores never hold more records than they are configured for, for  *)
(* all the threads that found room in them.                                 *)
Present(R) == {s \in Scopes : R[s].state # "absent"}

StoresBounded ==
    /\ Cardinality(nonces) <= MaxNonces
    /\ IsFiniteSet(Present(rows)) /\ Cardinality(Present(rows)) <= MaxRecords

\* A set with fewer elements than it may have takes one more.
LEMMA OneMore ==
    ASSUME NEW S, NEW T, NEW x, NEW max \in Nat,
           IsFiniteSet(S), Cardinality(S) < max, T \subseteq S \cup {x}
    PROVE  IsFiniteSet(T) /\ Cardinality(T) <= max
<1>1. Cardinality(S) \in Nat
  BY FS_CardinalityType
<1>2. /\ IsFiniteSet(S \cup {x})
      /\ Cardinality(S \cup {x}) = Cardinality(S)
         \/ Cardinality(S \cup {x}) = Cardinality(S) + 1
  BY FS_AddElement
<1>3. Cardinality(S \cup {x}) \in Nat /\ Cardinality(S \cup {x}) <= max
  BY <1>1, <1>2
<1>4. IsFiniteSet(T) /\ Cardinality(T) <= Cardinality(S \cup {x})
  BY <1>2, FS_Subset
<1>5. Cardinality(T) \in Nat
  BY <1>4, FS_CardinalityType
<1>6. QED
  BY <1>3, <1>4, <1>5

\* A set that loses elements stays within its bound.
LEMMA NoMore ==
    ASSUME NEW S, NEW T, NEW max \in Nat,
           IsFiniteSet(S), Cardinality(S) <= max, T \subseteq S
    PROVE  IsFiniteSet(T) /\ Cardinality(T) <= max
<1>1. IsFiniteSet(T) /\ Cardinality(T) <= Cardinality(S)
  BY FS_Subset
<1>2. Cardinality(S) \in Nat /\ Cardinality(T) \in Nat
  BY <1>1, FS_CardinalityType
<1>3. QED
  BY <1>1, <1>2

\* consume prunes before it looks for room.
LEMMA NoncesBounded ==
    ASSUME TypeInv, StoresBounded, NEW w \in Workers, Consume(w)
    PROVE  Cardinality(nonces') <= MaxNonces
<1>1. IsFiniteSet(nonces) /\ MaxNonces \in Nat
  <2>1. nonces \subseteq 1..MaxCaps /\ MaxCaps \in Nat /\ MaxNonces \in Nat
    BY BrokerAssumption DEF TypeInv, TablesTyped, Nonces
  <2>2. IsFiniteSet(1..MaxCaps)
    BY <2>1, FS_Interval
  <2>3. QED
    BY <2>1, <2>2, FS_Subset
<1>2. Unexpired(task[w].now) \subseteq nonces
  BY DEF Unexpired
<1>3. IsFiniteSet(Unexpired(task[w].now))
  BY <1>1, <1>2, FS_Subset
<1>4. CASE /\ Cardinality(Unexpired(task[w].now)) < MaxNonces
           /\ nonces' = Unexpired(task[w].now) \cup {task[w].cap}
  <2> DEFINE S == Unexpired(task[w].now)
             T == nonces'
             x == task[w].cap
  <2>1. /\ IsFiniteSet(S) /\ Cardinality(S) < MaxNonces
        /\ T \subseteq S \cup {x} /\ MaxNonces \in Nat
    BY <1>1, <1>3, <1>4
  <2> HIDE DEF S, T, x
  <2>2. Cardinality(T) <= MaxNonces
    BY <2>1, OneMore
  <2>3. QED
    BY <2>2 DEF T
<1>5. CASE nonces' = nonces
  BY <1>5 DEF StoresBounded
<1>6. QED
  BY <1>4, <1>5 DEF Consume

\* The sweep makes no new record.
LEMMA SweptPresent ==
    ASSUME NEW w, NEW now, rows \in [Scopes -> Row], NEW s \in Scopes,
           Swept([rows EXCEPT ![Scope(w)] = NoRow], now)[s].state # "absent"
    PROVE  rows[s].state # "absent"
<1> DEFINE Q == [rows EXCEPT ![Scope(w)] = NoRow]
<1>1. Q[s].state # "absent"
  BY DEF Swept, NoRow
<1>2. Q[s] = rows[s] \/ Q[s] = NoRow
  OBVIOUS
<1>3. QED
  BY <1>1, <1>2 DEF NoRow

\* reserve adds a record only where the sweep has left room.
LEMMA ReserveBounded ==
    ASSUME TypeInv, StoresBounded, NEW w \in Workers, Reserve(w)
    PROVE  IsFiniteSet(Present(rows')) /\ Cardinality(Present(rows')) <= MaxRecords
<1>1. /\ rows \in [Scopes -> Row] /\ MaxRecords \in Nat
      /\ IsFiniteSet(Present(rows)) /\ Cardinality(Present(rows)) <= MaxRecords
  BY BrokerAssumption DEF TypeInv, TablesTyped, StoresBounded
<1>2. ASSUME \A s \in Scopes : rows'[s].state # "absent" => rows[s].state # "absent"
      PROVE  IsFiniteSet(Present(rows')) /\ Cardinality(Present(rows')) <= MaxRecords
  <2>1. Present(rows') \subseteq Present(rows)
    BY <1>2 DEF Present
  <2>2. QED
    BY <1>1, <2>1, NoMore
<1>3. CASE UNCHANGED rows
  BY <1>2, <1>3
<1>4. CASE ReserveLapsed(w)
  <2>1. /\ rows[Scope(w)].state = "reserved"
        /\ \A s \in Scopes : s # Scope(w) => rows'[s] = rows[s]
    BY <1>1, <1>4 DEF ReserveLapsed
  <2>2. QED
    BY <1>2, <2>1
<1>5. CASE ReserveAnew(w)
  <2> DEFINE R == Swept([rows EXCEPT ![Scope(w)] = NoRow], task[w].now)
  <2>1. \A s \in Scopes : R[s].state # "absent" => rows[s].state # "absent"
    BY <1>1, SweptPresent
  <2>2. R = [s \in Scopes |-> R[s]]
    BY DEF Swept
  <2>3. \/ Room(R) /\ rows' = [R EXCEPT ![Scope(w)] = Reserved(tokens + 1, task[w].now)]
        \/ rows' = R
    BY <1>5 DEF ReserveAnew
  <2> HIDE DEF R
  <2>4. CASE rows' = R
    BY <1>2, <2>1, <2>4
  <2>5. CASE Room(R) /\ rows' = [R EXCEPT ![Scope(w)] = Reserved(tokens + 1, task[w].now)]
    <3>1. Present(R) \subseteq Present(rows) /\ Cardinality(Present(R)) < MaxRecords
      BY <2>1, <2>5 DEF Present, Room
    <3>2. IsFiniteSet(Present(R))
      BY <1>1, <3>1, FS_Subset
    <3>3. \A s \in Scopes : s # Scope(w) => rows'[s] = R[s]
      BY <2>2, <2>5
    <3>4. Present(rows') \subseteq Present(R) \cup {Scope(w)}
      BY <3>3 DEF Present
    <3>5. QED
      BY <1>1, <3>1, <3>2, <3>4, OneMore
  <2>6. QED
    BY <2>3, <2>4, <2>5
<1>6. QED
  BY <1>3, <1>4, <1>5 DEF Reserve, ReserveBusy, ReserveReplay, ReserveRefused

\* Settling a row leaves it there.
LEMMA SettleBounded ==
    ASSUME TypeInv, StoresBounded, NEW w \in Workers, Record(w) \/ MarkUnknown(w)
    PROVE  IsFiniteSet(Present(rows')) /\ Cardinality(Present(rows')) <= MaxRecords
<1>1. /\ rows \in [Scopes -> Row] /\ MaxRecords \in Nat
      /\ IsFiniteSet(Present(rows)) /\ Cardinality(Present(rows)) <= MaxRecords
  BY BrokerAssumption DEF TypeInv, TablesTyped, StoresBounded
<1>2. \/ rows' = rows
      \/ /\ Owns(w)
         /\ \E outcome : rows' = [rows EXCEPT ![Scope(w)] =
                                     Complete(@, outcome, task[w].now)]
  BY DEF Record, MarkUnknown
<1>3. \A s \in Scopes : rows'[s].state # "absent" => rows[s].state # "absent"
  <2>1. CASE rows' = rows
    BY <2>1
  <2>2. CASE Owns(w) /\ \A s \in Scopes : s # Scope(w) => rows'[s] = rows[s]
    BY <2>2 DEF Owns
  <2>3. QED
    BY <1>1, <1>2, <2>1, <2>2
<1>4. Present(rows') \subseteq Present(rows)
  BY <1>3 DEF Present
<1>5. QED
  BY <1>1, <1>4, NoMore

\* StoresBounded is inductive, given the types.
LEMMA BoundedNext ==
    ASSUME TypeInv, StoresBounded, [Next]_vars
    PROVE  StoresBounded'
<1>1. ASSUME UNCHANGED rows, Cardinality(nonces') <= MaxNonces PROVE StoresBounded'
  BY <1>1 DEF StoresBounded, Present
<1>2. ASSUME UNCHANGED <<nonces, rows>> PROVE StoresBounded'
  BY <1>2 DEF StoresBounded, Present
<1>3. ASSUME NEW w \in Workers, Consume(w) PROVE StoresBounded'
  BY <1>1, <1>3, NoncesBounded DEF Consume
<1>4. ASSUME UNCHANGED nonces, IsFiniteSet(Present(rows')),
             Cardinality(Present(rows')) <= MaxRecords
      PROVE  StoresBounded'
  BY <1>4 DEF StoresBounded, Present
<1>5. ASSUME NEW w \in Workers, Reserve(w) \/ Record(w) \/ MarkUnknown(w)
      PROVE  StoresBounded'
  <2>1. UNCHANGED nonces
    BY <1>5 DEF Reserve, Record, MarkUnknown
  <2>2. IsFiniteSet(Present(rows')) /\ Cardinality(Present(rows')) <= MaxRecords
    BY <1>5, ReserveBounded, SettleBounded
  <2>3. QED
    BY <1>4, <2>1, <2>2
<1>6. ASSUME NEW w \in Workers, Receipt(w) \/ Poll(w) \/ Dispatch(w) \/ Return(w)
      PROVE  StoresBounded'
  BY <1>2, <1>6 DEF Receipt, Poll, Dispatch, Return
<1>7. ASSUME NEW n \in Nonces, \/ \E s \in Scopes : Mint(n, s)
                               \/ \E w \in Workers : Receive(w, n)
      PROVE  StoresBounded'
  BY <1>2, <1>7 DEF Mint, Receive
<1>8. CASE Tick \/ Crash
  BY <1>2, <1>8 DEF Tick, Crash
<1>9. CASE UNCHANGED vars
  BY <1>2, <1>9 DEF vars
<1>10. QED
  BY <1>3, <1>5, <1>6, <1>7, <1>8, <1>9 DEF Next, Step

\* However many threads find room at once, and whatever expires or is swept in
\* between, the nonce store and the idempotency store keep within max_records
\* (DurableNonceStore.consume and DurableIdempotencyStore.reserve).
THEOREM BrokerStoresBounded == Spec => []StoresBounded
<1>1. Init => StoresBounded
  <2> SUFFICES ASSUME Init PROVE StoresBounded
    OBVIOUS
  <2>1. nonces = {} /\ Present(rows) = {}
    BY DEF Init, Present, NoRow
  <2>2. MaxNonces \in Nat /\ MaxRecords \in Nat
    BY BrokerAssumption
  <2>3. QED
    BY <2>1, <2>2, FS_EmptySet DEF StoresBounded
<1>2. TypeInv /\ StoresBounded /\ [Next]_vars => StoresBounded'
  BY BoundedNext
<1>3. QED
  BY InitTyped, NextTyped, <1>1, <1>2, PTL DEF Spec
=============================================================================
