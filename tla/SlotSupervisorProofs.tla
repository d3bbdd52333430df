------------------------ MODULE SlotSupervisorProofs ------------------------
(***************************************************************************)
(* Theorems about SlotSupervisor for any set of bindings, any number of     *)
(* handler threads and any number of faults.                                *)
(*                                                                         *)
(* The gate is the whole argument: TypeOK says that at most one thread is   *)
(* past it, so a lifecycle found "starting" belongs to the thread inside.   *)
(* Two facts have to be added to make the invariant inductive: no call is   *)
(* late more often than the environment misbehaved, and a thread inside the *)
(* gate after the adoption works for the binding in force.                  *)
(*                                                                         *)
(* That a ready lifecycle and a running Chromium agree on the owner needs a *)
(* count besides: OwnerInv says which late calls can still be on their way. *)
(***************************************************************************)
EXTENDS SlotSupervisor, TLAPS

LateCounted == \A call \in Calls : late[call] <= faults

InsideIsBound ==
    \A t \in Threads :
        pc[t] \in {"recheck", "start", "await", "restore", "cleanup", "halt"}
            => req[t] = bound

\* The part of the types the environment can disturb, and the part it cannot.
BrowserTyped ==
    /\ chrome \in {"stopped", "ready", "failed"}
    /\ chromeFor \in Bindings
    /\ late \in [Calls -> 0..MaxFaults]
    /\ faults \in 0..MaxFaults
    /\ LateCounted

ThreadsTyped ==
    /\ life \in {"stopped", "starting", "ready", "suspended"}
    /\ bound \in Bindings
    /\ held \in Threads \cup {"free"}
    /\ pc \in [Threads -> Unlocked \cup Locked]
    /\ \A t \in Threads : pc[t] \in Locked <=> held = t
    /\ op \in [Threads -> {"wake", "suspend", "stop", "recreate"}]
    /\ req \in [Threads -> Bindings]

SupervisorInv ==
    /\ ThreadsTyped
    /\ BrowserTyped
    /\ NoAbandonedStart
    /\ InsideIsBound

-----------------------------------------------------------------------------
\* Carrying out a call keeps the browser's types.
LEMMA CarryTyped ==
    ASSUME BrowserTyped, NEW call \in Calls, NEW ok \in BOOLEAN, Carry(call, ok)
    PROVE  chrome' \in {"stopped", "ready", "failed"} /\ chromeFor' \in Bindings
BY SupervisorAssumption DEF BrowserTyped, Carry, Calls, StartCall, StopCall, Push

\* A call keeps the types, however it ends.
LEMMA CallTyped ==
    ASSUME BrowserTyped, NEW call \in Calls, NEW ok \in BOOLEAN, Call(call, ok)
    PROVE  BrowserTyped'
<1>0. MaxFaults \in Nat
  BY SupervisorAssumption
<1>1. CASE Carry(call, ok) /\ UNCHANGED <<late, faults>>
  BY <1>1, CarryTyped DEF BrowserTyped, LateCounted
<1>2. CASE /\ faults < MaxFaults /\ faults' = faults + 1
           /\ UNCHANGED late
           /\ UNCHANGED browser
  BY <1>0, <1>2 DEF BrowserTyped, LateCounted, browser
<1>3. CASE /\ faults < MaxFaults /\ faults' = faults + 1
           /\ late' = [late EXCEPT ![call] = @ + 1]
           /\ UNCHANGED browser
  <2>1. \A c \in Calls : late[c] \in Nat /\ late[c] <= faults /\ faults \in Nat
    BY <1>0 DEF BrowserTyped, LateCounted
  <2>2. \A c \in Calls : late'[c] \in 0..MaxFaults /\ late'[c] <= faults'
    BY <1>0, <1>3, <2>1 DEF BrowserTyped
  <2>3. late' \in [Calls -> 0..MaxFaults]
    BY <1>3, <2>2 DEF BrowserTyped
  <2>4. QED
    BY <1>0, <1>3, <2>2, <2>3 DEF BrowserTyped, LateCounted, browser
<1>4. QED
  BY <1>1, <1>2, <1>3 DEF Call

\* So does a look at the readiness.
LEMMA ReadyTyped ==
    ASSUME BrowserTyped, NEW ok \in BOOLEAN, Ready(ok)
    PROVE  BrowserTyped'
BY SupervisorAssumption DEF BrowserTyped, Ready, LateCounted, browser

\* The calls of the browser service that the actions make are in Calls.
LEMMA CallsAreCalls ==
    /\ StartCall \in Calls /\ StopCall \in Calls
    /\ \A b \in Bindings : Push(b) \in Calls
BY DEF Calls

-----------------------------------------------------------------------------
\* A new request is outside the gate.
LEMMA RequestInv ==
    ASSUME SupervisorInv, NEW t \in Threads, Request(t)
    PROVE  SupervisorInv' /\ UNCHANGED <<life, bound>>
<1> USE DEF SupervisorInv
<1>1. /\ pc[t] = "idle" /\ UNCHANGED <<life, bound, held, browser, late, faults>>
      /\ \E place \in {"adopt", "wake", "check"} : pc' = [pc EXCEPT ![t] = place]
      /\ \E b \in Bindings : req' = [req EXCEPT ![t] = b]
      /\ \E o \in {"wake", "suspend", "stop", "recreate"} : op' = [op EXCEPT ![t] = o]
  BY SupervisorAssumption DEF Request, HandleWake, HandleOther, Goto
<1>2. ThreadsTyped'
  BY <1>1 DEF ThreadsTyped, Unlocked, Locked
<1>3. BrowserTyped'
  BY <1>1 DEF BrowserTyped, LateCounted, browser
<1>4. NoAbandonedStart' /\ InsideIsBound'
  BY <1>1 DEF NoAbandonedStart, InsideIsBound, ThreadsTyped
<1>5. QED
  BY <1>1, <1>2, <1>3, <1>4

\* What a step of a thread needs of the gate, in one place: the invariant
\* follows from how the step moves the thread and the lifecycle.
LEMMA MoveInv ==
    ASSUME SupervisorInv, NEW t \in Threads, BrowserTyped',
           NEW place \in Unlocked \cup Locked, Goto(t, place),
           UNCHANGED <<op, req>>,
           bound' \in Bindings,
           life' \in {"stopped", "starting", "ready", "suspended"},
           held = t \/ held = "free",
           held' = IF place \in Locked THEN t ELSE "free",
           life' = "starting" => place \in {"start", "await", "cleanup"},
           place \in {"recheck", "start", "await", "restore", "cleanup", "halt"}
               => req[t] = bound'
    PROVE  SupervisorInv'
<1> USE SupervisorAssumption DEF SupervisorInv
<1>1. /\ pc' = [pc EXCEPT ![t] = place] /\ pc[t] \in Unlocked \cup Locked
      /\ \A u \in Threads : u # t => pc[u] \notin Locked /\ pc'[u] = pc[u]
      /\ pc'[t] = place
  BY DEF Goto, ThreadsTyped
<1>2. ThreadsTyped'
  BY <1>1 DEF ThreadsTyped, Unlocked, Locked
<1>3. NoAbandonedStart'
  BY <1>1 DEF NoAbandonedStart
<1>4. InsideIsBound'
  BY <1>1 DEF InsideIsBound, Locked
<1>5. QED
  BY <1>2, <1>3, <1>4

\* Each step of a thread keeps the invariant.
LEMMA StepInv ==
    ASSUME SupervisorInv, NEW t \in Threads, Step(t)
    PROVE  SupervisorInv' /\ (req[t] # bound /\ (life' # life \/ bound' # bound)
                                => chrome' = "stopped")
<1> USE SupervisorAssumption, CallsAreCalls DEF Within, SupervisorInv
<1>0. /\ bound \in Bindings /\ req[t] \in Bindings
      /\ life \in {"stopped", "starting", "ready", "suspended"}
      /\ pc[t] \in Locked <=> held = t
  BY DEF ThreadsTyped
<1>i. pc[t] \in {"recheck", "start", "await", "restore", "cleanup", "halt"}
        => req[t] = bound
  BY DEF InsideIsBound
<1>f. held = "free" => life # "starting"
  <2> SUFFICES ASSUME held = "free", life = "starting" PROVE FALSE
    OBVIOUS
  <2>1. PICK u \in Threads : pc[u] \in {"start", "await", "cleanup"}
    BY DEF NoAbandonedStart
  <2>2. held = u
    BY <2>1 DEF ThreadsTyped, Locked
  <2>3. QED
    BY <2>2
<1>h. ASSUME held = t, life = "starting"
      PROVE  pc[t] \in {"start", "await", "cleanup"}
  BY <1>h DEF NoAbandonedStart, ThreadsTyped, Locked
<1>1. CASE AdoptEnter(t)
  <2>1. BrowserTyped' /\ UNCHANGED <<life, bound, op, req>>
    BY <1>1 DEF AdoptEnter, BrowserTyped, LateCounted, browser
  <2>2. PICK place \in {"adopt_stop", "adopt_push"} :
            held = "free" /\ held' = t /\ Goto(t, place)
    BY <1>1 DEF AdoptEnter, Enter
  <2>3. QED
    BY <1>0, <1>f, <2>1, <2>2, MoveInv DEF Locked
<1>2. CASE AdoptStop(t)
  <2>1. PICK ok \in BOOLEAN :
          /\ Call(StopCall, ok)
          /\ IF ok
             THEN life' = "stopped" /\ Goto(t, "adopt_push") /\ UNCHANGED held
             ELSE UNCHANGED life /\ Leave(t, "idle")
    BY <1>2 DEF AdoptStop
  <2>2. BrowserTyped'
    BY <2>1, CallTyped
  <2>3. held = t /\ pc[t] = "adopt_stop" /\ UNCHANGED <<bound, op, req>>
    BY <1>0, <1>2 DEF AdoptStop, Locked
  <2>4. life # "starting"
    BY <1>h, <2>3
  <2>5. CASE ok
    <3>1. SupervisorInv'
      BY <1>0, <2>1, <2>2, <2>3, <2>5, MoveInv DEF Locked
    <3>2. chrome' = "stopped"
      BY <2>1, <2>5 DEF Call, Carry, StopCall
    <3>3. QED
      BY <3>1, <3>2
  <2>6. CASE ~ok
    BY <1>0, <2>1, <2>2, <2>3, <2>4, <2>6, MoveInv DEF Leave, Locked, Unlocked
  <2>7. QED
    BY <2>5, <2>6
<1>3. CASE AdoptPush(t)
  <2>1. PICK ok \in BOOLEAN :
          /\ Call(Push(req[t]), ok)
          /\ IF ok
             THEN bound' = req[t] /\ Leave(t, "wake")
             ELSE UNCHANGED bound /\ Leave(t, "idle")
    BY <1>3 DEF AdoptPush
  <2>2. BrowserTyped'
    BY <1>0, <2>1, CallTyped
  <2>3. held = t /\ pc[t] = "adopt_push" /\ UNCHANGED <<life, op, req>>
    BY <1>0, <1>3 DEF AdoptPush, Locked
  <2>4. life # "starting"
    BY <1>h, <2>3
  <2>5. SupervisorInv'
    BY <1>0, <2>1, <2>2, <2>3, <2>4, MoveInv DEF Leave, Locked, Unlocked
  <2>6. ok => chrome' = "stopped"
    BY <2>1 DEF Call, Carry, Push
  <2>7. QED
    BY <2>1, <2>3, <2>5, <2>6
<1>4. CASE WakeEnter(t)
  <2>1. BrowserTyped' /\ UNCHANGED <<bound, op, req>> /\ held = "free"
    BY <1>4 DEF WakeEnter, BrowserTyped, LateCounted, browser
  <2>2. PICK place \in {"recheck", "start", "idle"} :
          /\ Goto(t, place)
          /\ place = "recheck" => bound = req[t] /\ held' = t /\ life' = life
          /\ place = "start" => bound = req[t] /\ held' = t /\ life' = "starting"
          /\ place = "idle" => held' = "free" /\ life' = life
    BY <1>4 DEF WakeEnter, BeginWake, Leave
  <2>3. place # "start" => life' = life /\ life' # "starting"
    BY <1>f, <2>1, <2>2
  <2>4. SupervisorInv'
    BY <1>0, <2>1, <2>2, <2>3, MoveInv DEF Locked, Unlocked
  <2>5. QED
    BY <2>1, <2>2, <2>4
<1>5. CASE Recheck(t)
  <2>1. BrowserTyped' /\ UNCHANGED <<life, bound, op, req>> /\ Leave(t, "idle")
    BY <1>5, ReadyTyped DEF Recheck
  <2>2. held = t /\ life # "starting"
    BY <1>0, <1>5, <1>h DEF Recheck, Locked
  <2>3. QED
    BY <1>0, <2>1, <2>2, MoveInv DEF Leave, Locked, Unlocked
<1>6. CASE WakeStart(t)
  <2>1. BrowserTyped' /\ UNCHANGED <<life, bound, held, op, req>>
    BY <1>6, CallTyped DEF WakeStart
  <2>2. held = t /\ req[t] = bound
    BY <1>0, <1>6, <1>i DEF WakeStart, Locked
  <2>3. PICK place \in {"await", "cleanup"} : Goto(t, place)
    BY <1>6 DEF WakeStart
  <2>4. QED
    BY <1>0, <2>1, <2>2, <2>3, MoveInv DEF Locked
<1>7. CASE WakeAwait(t)
  <2>1. PICK ok \in BOOLEAN :
          /\ Ready(ok)
          /\ IF ok
             THEN life' = "ready" /\ Goto(t, "restore")
             ELSE UNCHANGED life /\ Goto(t, "cleanup")
    BY <1>7 DEF WakeAwait
  <2>2. BrowserTyped' /\ UNCHANGED <<bound, held, op, req>>
    BY <1>7, <2>1, ReadyTyped DEF WakeAwait
  <2>3. held = t /\ req[t] = bound
    BY <1>0, <1>7, <1>i DEF WakeAwait, Locked
  <2>4. QED
    BY <1>0, <2>1, <2>2, <2>3, MoveInv DEF Locked
<1>8. CASE WakeRestore(t)
  <2>1. BrowserTyped' /\ UNCHANGED <<life, bound, op, req>>
    BY <1>8 DEF WakeRestore, BrowserTyped, LateCounted, browser
  <2>2. held = t /\ req[t] = bound /\ life # "starting"
    BY <1>0, <1>8, <1>i, <1>h DEF WakeRestore, Locked
  <2>3. PICK place \in {"idle", "cleanup"} :
          Goto(t, place) /\ held' = IF place = "idle" THEN "free" ELSE held
    BY <1>8 DEF WakeRestore, Leave
  <2>4. QED
    BY <1>0, <2>1, <2>2, <2>3, MoveInv DEF Locked, Unlocked
<1>9. CASE WakeCleanup(t)
  <2>1. BrowserTyped' /\ UNCHANGED <<bound, op, req>>
        /\ life' = "stopped" /\ Leave(t, "idle")
    BY <1>9, CallTyped DEF WakeCleanup
  <2>2. held = t /\ req[t] = bound
    BY <1>0, <1>9, <1>i DEF WakeCleanup, Locked
  <2>3. QED
    BY <1>0, <2>1, <2>2, MoveInv DEF Leave, Locked, Unlocked
<1>10. CASE CheckOwner(t)
  <2>1. BrowserTyped' /\ UNCHANGED <<life, bound, op, req>> /\ held = "free"
    BY <1>10, ReadyTyped DEF CheckOwner
  <2>2. PICK place \in {"idle", "halt"} :
          /\ Goto(t, place)
          /\ held' = IF place = "halt" THEN t ELSE "free"
          /\ place = "halt" => bound = req[t]
    BY <1>10 DEF CheckOwner, Leave
  <2>3. QED
    BY <1>0, <1>f, <2>1, <2>2, MoveInv DEF Locked, Unlocked
<1>11. CASE Halt(t)
  <2>1. BrowserTyped' /\ UNCHANGED <<bound, op, req>>
    BY <1>11, CallTyped DEF Halt
  <2>2. held = t /\ req[t] = bound /\ life # "starting"
    BY <1>0, <1>11, <1>i, <1>h DEF Halt, Locked
  <2>3. \/ life' \in {life, "suspended", "stopped"} /\ Leave(t, "idle")
        \/ life' = "starting" /\ Goto(t, "start") /\ UNCHANGED held
    BY <1>11 DEF Halt
  <2>4. CASE life' \in {life, "suspended", "stopped"} /\ Leave(t, "idle")
    BY <1>0, <2>1, <2>2, <2>4, MoveInv DEF Leave, Locked, Unlocked
  <2>5. CASE life' = "starting" /\ Goto(t, "start") /\ UNCHANGED held
    BY <1>0, <2>1, <2>2, <2>5, MoveInv DEF Locked
  <2>6. QED
    BY <2>2, <2>3, <2>4, <2>5
<1>12. QED
  BY <1>1, <1>2, <1>3, <1>4, <1>5, <1>6, <1>7, <1>8, <1>9, <1>10, <1>11 DEF Step

\* The environment: late calls, crashes of Chromium, restarts.
LEMMA EnvironmentInv ==
    ASSUME SupervisorInv,
           \/ ChromeFails \/ ChromeRecovers \/ BrowserRestarts
           \/ \E call \in Calls : LateCall(call)
    PROVE  SupervisorInv' /\ UNCHANGED <<life, bound>>
<1> USE SupervisorAssumption DEF SupervisorInv
<1>1. UNCHANGED <<life, bound, held, pc, op, req>>
  BY DEF ChromeFails, ChromeRecovers, BrowserRestarts, LateCall, supervisor
<1>2. CASE ChromeFails \/ ChromeRecovers
  BY <1>2 DEF ChromeFails, ChromeRecovers, supervisor, ThreadsTyped, BrowserTyped,
              LateCounted, NoAbandonedStart, InsideIsBound
<1>3. CASE BrowserRestarts
  BY <1>3 DEF BrowserRestarts, supervisor, ThreadsTyped, BrowserTyped,
              LateCounted, NoAbandonedStart, InsideIsBound
<1>4. ASSUME NEW call \in Calls, LateCall(call)
      PROVE  SupervisorInv'
  <2>1. chrome' \in {"stopped", "ready", "failed"} /\ chromeFor' \in Bindings
    BY <1>4, CarryTyped DEF LateCall
  <2>2. \A c \in Calls : late[c] \in 0..MaxFaults /\ late[c] <= faults
    BY DEF BrowserTyped, LateCounted
  <2>3. late' = [late EXCEPT ![call] = @ - 1] /\ late[call] > 0 /\ faults' = faults
    BY <1>4 DEF LateCall
  <2>4. \A c \in Calls : late'[c] \in 0..MaxFaults /\ late'[c] <= faults'
    BY <2>2, <2>3 DEF BrowserTyped
  <2>5. late' \in [Calls -> 0..MaxFaults]
    BY <2>3, <2>4 DEF BrowserTyped
  <2>6. BrowserTyped'
    BY <2>1, <2>3, <2>4, <2>5 DEF BrowserTyped, LateCounted
  <2>7. QED
    BY <1>1, <2>6 DEF supervisor, ThreadsTyped, NoAbandonedStart, InsideIsBound
<1>5. QED
  BY <1>1, <1>2, <1>3, <1>4 DEF supervisor

\* A restart of the supervisor keeps the invariant.
LEMMA RestartInv ==
    ASSUME SupervisorInv, SupervisorRestarts
    PROVE  SupervisorInv'
BY SupervisorAssumption
   DEF SupervisorInv, SupervisorRestarts, browser, ThreadsTyped, BrowserTyped, LateCounted,
       NoAbandonedStart, InsideIsBound, Unlocked, Locked

\* The invariant holds in the beginning.
LEMMA InitSupervisorInv == Init => SupervisorInv
BY SupervisorAssumption
   DEF SupervisorInv, Init, ThreadsTyped, BrowserTyped, LateCounted,
       NoAbandonedStart, InsideIsBound, Unlocked, Locked

\* Only the thread in the gate writes the lifecycle.
LEMMA OnlyHolderWrites ==
    ASSUME SupervisorInv, NEW t \in Threads, held = t,
           NEW u \in Threads, Step(u), life' # life \/ bound' # bound
    PROVE  u = t
<1> USE SupervisorAssumption DEF SupervisorInv
<1>1. held # "free"
  OBVIOUS
<1>2. pc[u] \in Locked
  BY <1>1 DEF Step, Within, AdoptEnter, AdoptStop, AdoptPush, WakeEnter, Recheck,
              WakeStart, WakeAwait, WakeRestore, WakeCleanup, CheckOwner, Halt,
              Locked, Enter
<1>3. QED
  BY <1>2 DEF ThreadsTyped

\* SupervisorInv is inductive.
LEMMA NextSupervisorInv ==
    SupervisorInv /\ [Next]_vars =>
        /\ SupervisorInv'
        /\ \A t \in Threads :
             /\ held = t /\ req[t] # bound
             /\ life' # life \/ bound' # bound
             => chrome' = "stopped" \/ SupervisorRestarts
<1> SUFFICES ASSUME SupervisorInv, [Next]_vars
             PROVE  /\ SupervisorInv'
                    /\ \A t \in Threads :
                         /\ held = t /\ req[t] # bound
                         /\ life' # life \/ bound' # bound
                         => chrome' = "stopped" \/ SupervisorRestarts
  OBVIOUS
<1>1. ASSUME NEW t \in Threads, Request(t)
      PROVE  SupervisorInv' /\ UNCHANGED <<life, bound>>
  BY <1>1, RequestInv
<1>2. ASSUME NEW u \in Threads, Step(u)
      PROVE  /\ SupervisorInv'
             /\ \A t \in Threads :
                  /\ held = t /\ req[t] # bound
                  /\ life' # life \/ bound' # bound
                  => chrome' = "stopped"
  BY <1>2, StepInv, OnlyHolderWrites
<1>3. CASE \/ ChromeFails \/ ChromeRecovers \/ BrowserRestarts
           \/ \E call \in Calls : LateCall(call)
  BY <1>3, EnvironmentInv
<1>4. CASE SupervisorRestarts
  BY <1>4, RestartInv
<1>5. CASE UNCHANGED vars
  BY <1>5 DEF vars, supervisor, browser, SupervisorInv, ThreadsTyped, BrowserTyped,
              LateCounted, NoAbandonedStart, InsideIsBound
<1>6. QED
  BY <1>1, <1>2, <1>3, <1>4, <1>5 DEF Next

-----------------------------------------------------------------------------
(***************************************************************************)
(* The owner of a ready lifecycle.  To part it from a running Chromium      *)
(* takes a late stop, a late push of another binding and a late start, each *)
(* a fault of its own; a restart of the browser service costs one as well   *)
(* and takes the late calls with it.                                        *)
(***************************************************************************)
\* A call that is late has cost a fault, and so have three of them together.
FaultsCounted ==
    \A b \in Bindings : late[StartCall] + late[StopCall] + late[Push(b)] <= faults

\* What the lifecycle is while a thread pushes a binding or starts Chromium.
PlaceAndLife ==
    \A t \in Threads : /\ pc[t] = "adopt_push" => life = "stopped"
                       /\ pc[t] \in {"start", "await"} => life = "starting"

\* While the lifecycle is ready, a Chromium that is up belongs to the owner,
\* and one that a late start may yet bring up will.
Together ==
    life = "ready" /\ faults < 3 =>
        /\ chrome # "stopped" => chromeFor = bound
        /\ chrome = "stopped" /\ late[StartCall] > 0 =>
             /\ chromeFor = bound
             /\ \A b \in Bindings : b # bound => late[Push(b)] = 0

OwnerInv == SupervisorInv /\ FaultsCounted /\ PlaceAndLife /\ Together

\* The three kinds of call are told apart.
LEMMA CallsDiffer ==
    /\ StartCall # StopCall
    /\ \A b \in Bindings : Push(b) # StartCall /\ Push(b) # StopCall
    /\ \A b, c \in Bindings : Push(b) = Push(c) => b = c
BY DEF StartCall, StopCall, Push

\* The counters are natural numbers.
LEMMA LateNat ==
    ASSUME SupervisorInv
    PROVE  /\ \A call \in Calls : late[call] \in Nat
           /\ faults \in Nat /\ MaxFaults \in Nat
           /\ late \in [Calls -> 0..MaxFaults]
BY SupervisorAssumption DEF SupervisorInv, BrowserTyped

\* A call, however it ends, is counted.
LEMMA CallCounted ==
    ASSUME SupervisorInv, FaultsCounted,
           NEW call \in Calls, NEW ok \in BOOLEAN, Call(call, ok)
    PROVE  FaultsCounted'
<1>1. CASE UNCHANGED late /\ faults' \in {faults, faults + 1}
  BY <1>1, LateNat, CallsAreCalls DEF FaultsCounted
<1>2. CASE faults' = faults + 1 /\ late' = [late EXCEPT ![call] = @ + 1]
  <2>1. \A c \in Calls : late'[c] = IF c = call THEN late[c] + 1 ELSE late[c]
    BY <1>2, LateNat
  <2>2. SUFFICES ASSUME NEW b \in Bindings
                 PROVE  late'[StartCall] + late'[StopCall] + late'[Push(b)] <= faults'
    BY DEF FaultsCounted
  <2>3. late[StartCall] + late[StopCall] + late[Push(b)] <= faults
    BY DEF FaultsCounted
  <2>4. /\ late[StartCall] \in Nat /\ late[StopCall] \in Nat /\ late[Push(b)] \in Nat
        /\ faults \in Nat
    BY LateNat, CallsAreCalls
  <2>5. QED
    BY <1>2, <2>1, <2>3, <2>4, CallsAreCalls, CallsDiffer
<1>3. QED
  BY <1>1, <1>2 DEF Call

\* A late call that is carried out is no longer counted, and does not part
\* the owners.
LEMMA LateTogether ==
    ASSUME OwnerInv, NEW call \in Calls, LateCall(call)
    PROVE  FaultsCounted' /\ PlaceAndLife' /\ Together'
<1>1. /\ UNCHANGED <<life, bound, held, pc, op, req, faults>>
      /\ late[call] > 0 /\ late' = [late EXCEPT ![call] = @ - 1]
  BY DEF LateCall, supervisor
<1>2. PICK ok \in BOOLEAN : Carry(call, ok)
  BY DEF LateCall
<1>3. \A c \in Calls : /\ late[c] \in Nat /\ faults \in Nat
                       /\ late'[c] = IF c = call THEN late[c] - 1 ELSE late[c]
                       /\ late'[c] \in Nat /\ late'[c] <= late[c]
  BY <1>1, LateNat DEF OwnerInv
<1>4. \A b \in Bindings : late[StartCall] + late[StopCall] + late[Push(b)] <= faults
  BY DEF OwnerInv, FaultsCounted
<1>5. FaultsCounted'
  <2> SUFFICES ASSUME NEW b \in Bindings
               PROVE  late'[StartCall] + late'[StopCall] + late'[Push(b)] <= faults
    BY <1>1 DEF FaultsCounted
  <2>1. QED
    BY <1>3, <1>4, CallsAreCalls
<1>6. PlaceAndLife'
  BY <1>1 DEF OwnerInv, PlaceAndLife
<1>7. Together'
  <2> SUFFICES ASSUME life = "ready", faults < 3
               PROVE  /\ chrome' # "stopped" => chromeFor' = bound
                      /\ chrome' = "stopped" /\ late'[StartCall] > 0 =>
                           /\ chromeFor' = bound
                           /\ \A b \in Bindings : b # bound => late'[Push(b)] = 0
    BY <1>1 DEF Together
  <2>1. /\ chrome # "stopped" => chromeFor = bound
        /\ chrome = "stopped" /\ late[StartCall] > 0 =>
             /\ chromeFor = bound
             /\ \A b \in Bindings : b # bound => late[Push(b)] = 0
    BY DEF OwnerInv, Together
  <2>2. late'[StartCall] > 0 => late[StartCall] > 0
    BY <1>3, CallsAreCalls
  <2>3. \A b \in Bindings : late[Push(b)] = 0 => late'[Push(b)] = 0
    BY <1>3, CallsAreCalls
  <2>4. CASE call = StartCall
    <3>1. chrome' # "stopped" /\ chromeFor' = chromeFor
      BY <1>2, <2>4 DEF Carry, StartCall
    <3>2. QED
      BY <1>1, <2>1, <2>4, <3>1
  <2>5. CASE call = StopCall
    <3>1. chrome' = "stopped" /\ chromeFor' = chromeFor
      BY <1>2, <2>5 DEF Carry, StopCall
    <3>2. ASSUME chrome # "stopped", late'[StartCall] > 0, NEW b \in Bindings
          PROVE  late[Push(b)] = 0
      <4>1. late[StopCall] >= 1 /\ late[StartCall] >= 1
        BY <1>1, <1>3, <2>2, <2>5, <3>2, CallsAreCalls
      <4>2. /\ late[StartCall] \in Nat /\ late[StopCall] \in Nat
            /\ late[Push(b)] \in Nat /\ faults \in Nat
        BY <1>3, CallsAreCalls
      <4>3. QED
        BY <1>4, <4>1, <4>2
    <3>3. QED
      BY <2>1, <2>2, <2>3, <3>1, <3>2
  <2>6. ASSUME NEW c \in Bindings, call = Push(c)
        PROVE  /\ chrome' # "stopped" => chromeFor' = bound
               /\ chrome' = "stopped" /\ late'[StartCall] > 0 =>
                    /\ chromeFor' = bound
                    /\ \A b \in Bindings : b # bound => late'[Push(b)] = 0
    <3>1. /\ chrome' = chrome
          /\ chromeFor' = IF chrome = "stopped" THEN c ELSE chromeFor
      BY <1>2, <2>6 DEF Carry, Push
    <3>2. late[Push(c)] # 0
      BY <1>1, <1>3, <2>6
    <3>3. QED
      BY <2>1, <2>2, <2>3, <3>1, <3>2
  <2>7. QED
    BY <2>4, <2>5, <2>6 DEF Calls
<1>8. QED
  BY <1>5, <1>6, <1>7

\* The rest of the environment.
LEMMA EnvironmentTogether ==
    ASSUME OwnerInv,
           ChromeFails \/ ChromeRecovers \/ BrowserRestarts \/ SupervisorRestarts
    PROVE  FaultsCounted' /\ PlaceAndLife' /\ Together'
<1>1. CASE ChromeFails \/ ChromeRecovers
  BY <1>1 DEF OwnerInv, ChromeFails, ChromeRecovers, supervisor, FaultsCounted,
              PlaceAndLife, Together
<1>2. CASE BrowserRestarts
  <2>1. /\ UNCHANGED <<life, bound, held, pc, op, req>>
        /\ chrome' = "stopped" /\ faults' = faults + 1
        /\ \A c \in Calls : late'[c] = 0
    BY <1>2 DEF BrowserRestarts, supervisor
  <2>2. FaultsCounted'
    BY <2>1, LateNat, CallsAreCalls DEF OwnerInv, FaultsCounted
  <2>3. PlaceAndLife' /\ Together'
    BY <2>1, CallsAreCalls DEF OwnerInv, PlaceAndLife, Together
  <2>4. QED
    BY <2>2, <2>3
<1>3. CASE SupervisorRestarts
  <2>1. /\ UNCHANGED <<chrome, chromeFor, late>> /\ faults' = faults + 1
        /\ life' = "stopped" /\ pc' = [t \in Threads |-> "idle"]
    BY <1>3 DEF SupervisorRestarts, browser
  <2>2. FaultsCounted'
    BY <2>1, LateNat, CallsAreCalls DEF OwnerInv, FaultsCounted
  <2>3. QED
    BY <2>1, <2>2 DEF PlaceAndLife, Together
<1>4. QED
  BY <1>1, <1>2, <1>3

\* How a step of a thread keeps the three parts: either it makes the lifecycle
\* ready, on a Chromium it has just found to be the owner's, or it leaves it
\* ready with the browser as it was, or it does not leave it ready.
LEMMA MoveTogether ==
    ASSUME OwnerInv, SupervisorInv', FaultsCounted', NEW t \in Threads,
           NEW place \in Unlocked \cup Locked, Goto(t, place),
           held = t \/ held = "free",
           place = "adopt_push" => life' = "stopped",
           place \in {"start", "await"} => life' = "starting",
           \/ life' # "ready"
           \/ chrome' = "ready" /\ chromeFor' = bound'
           \/ /\ life = "ready" /\ faults <= faults'
              /\ UNCHANGED <<bound, chrome, chromeFor>>
              /\ late'[StartCall] <= late[StartCall]
              /\ \A b \in Bindings : late'[Push(b)] <= late[Push(b)]
    PROVE  PlaceAndLife' /\ Together'
<1>1. /\ pc'[t] = place
      /\ \A u \in Threads : u # t => pc[u] \notin Locked /\ pc'[u] = pc[u]
  BY SupervisorAssumption DEF Goto, OwnerInv, SupervisorInv, ThreadsTyped
<1>2. PlaceAndLife'
  BY <1>1 DEF PlaceAndLife, Locked
<1>3. /\ \A c \in Calls : late[c] \in Nat /\ late'[c] \in Nat
      /\ faults \in Nat /\ faults' \in Nat
  BY LateNat, SupervisorAssumption DEF OwnerInv, SupervisorInv, BrowserTyped
<1>4. CASE life' # "ready"
  BY <1>2, <1>4 DEF Together
<1>5. CASE chrome' = "ready" /\ chromeFor' = bound'
  BY <1>2, <1>5 DEF Together
<1>6. CASE /\ life = "ready" /\ faults <= faults'
           /\ UNCHANGED <<bound, chrome, chromeFor>>
           /\ late'[StartCall] <= late[StartCall]
           /\ \A b \in Bindings : late'[Push(b)] <= late[Push(b)]
  <2>1. faults' < 3 => faults < 3
    BY <1>3, <1>6
  <2>2. late'[StartCall] > 0 => late[StartCall] > 0
    BY <1>3, <1>6, CallsAreCalls
  <2>3. \A b \in Bindings : late[Push(b)] = 0 => late'[Push(b)] = 0
    BY <1>3, <1>6, CallsAreCalls
  <2>4. QED
    BY <1>2, <1>6, <2>1, <2>2, <2>3 DEF OwnerInv, Together
<1>7. QED
  BY <1>4, <1>5, <1>6

\* A stop that is not acknowledged leaves the browser as it was and makes at
\* most another stop late; one that is acknowledged has stopped it.
LEMMA StopRefused ==
    ASSUME SupervisorInv, NEW ok \in BOOLEAN, Call(StopCall, ok), ~ok
    PROVE  /\ UNCHANGED <<chrome, chromeFor>> /\ faults <= faults'
           /\ late'[StartCall] <= late[StartCall]
           /\ \A b \in Bindings : late'[Push(b)] <= late[Push(b)]
<1>1. ~Carry(StopCall, ok)
  BY DEF Carry, StopCall
<1>2. /\ UNCHANGED <<chrome, chromeFor>> /\ faults' = faults + 1
      /\ UNCHANGED late \/ late' = [late EXCEPT ![StopCall] = @ + 1]
  BY <1>1 DEF Call, browser
<1>3. \A c \in Calls : c # StopCall => late'[c] = late[c]
  BY <1>2, LateNat
<1>4. QED
  BY <1>2, <1>3, LateNat, CallsAreCalls, CallsDiffer

\* Each step of a thread keeps the three parts.
LEMMA StepTogether ==
    ASSUME OwnerInv, NEW t \in Threads, Step(t)
    PROVE  FaultsCounted' /\ PlaceAndLife' /\ Together'
<1> USE CallsAreCalls DEF Within
<1>0. /\ SupervisorInv /\ SupervisorInv' /\ FaultsCounted
      /\ pc[t] \in Locked <=> held = t
      /\ req[t] \in Bindings /\ faults \in Nat
      /\ pc[t] = "adopt_push" => life = "stopped"
      /\ pc[t] \in {"start", "await"} => life = "starting"
  BY StepInv, LateNat DEF OwnerInv, PlaceAndLife, SupervisorInv, ThreadsTyped
<1>s. ASSUME UNCHANGED <<bound, browser, late, faults>>
      PROVE  /\ FaultsCounted'
             /\ life' = life => /\ life = "ready" => faults <= faults'
                                /\ UNCHANGED <<bound, chrome, chromeFor>>
                                /\ late'[StartCall] <= late[StartCall]
                                /\ \A b \in Bindings : late'[Push(b)] <= late[Push(b)]
  BY <1>0, <1>s, LateNat DEF FaultsCounted, browser
<1>r. ASSUME NEW ok \in BOOLEAN, Ready(ok)
      PROVE  /\ FaultsCounted' /\ faults <= faults'
             /\ UNCHANGED <<chrome, chromeFor, late>>
             /\ late'[StartCall] <= late[StartCall]
             /\ \A b \in Bindings : late'[Push(b)] <= late[Push(b)]
             /\ ok => chrome = "ready" /\ chromeFor = bound
  BY <1>0, <1>r, LateNat DEF Ready, FaultsCounted, browser
<1>1. CASE AdoptEnter(t)
  <2>1. PICK place \in {"adopt_stop", "adopt_push"} :
          /\ held = "free" /\ Goto(t, place) /\ UNCHANGED <<life, bound, browser, late, faults>>
          /\ place = "adopt_push" => life = "stopped"
    BY <1>1 DEF AdoptEnter, Enter
  <2>2. QED
    BY <1>0, <1>s, <2>1, MoveTogether DEF Locked
<1>2. CASE AdoptStop(t)
  <2>1. PICK ok \in BOOLEAN :
          /\ Call(StopCall, ok)
          /\ IF ok
             THEN life' = "stopped" /\ Goto(t, "adopt_push")
             ELSE UNCHANGED life /\ Goto(t, "idle")
    BY <1>2 DEF AdoptStop, Leave
  <2>2. FaultsCounted' /\ held = t /\ bound' = bound
    BY <1>0, <1>2, <2>1, CallCounted DEF AdoptStop, Locked
  <2>3. CASE ok
    BY <1>0, <2>1, <2>2, <2>3, MoveTogether DEF Locked
  <2>4. CASE ~ok
    BY <1>0, <2>1, <2>2, <2>4, StopRefused, MoveTogether DEF Unlocked
  <2>5. QED
    BY <2>3, <2>4
<1>3. CASE AdoptPush(t)
  <2>1. PICK ok \in BOOLEAN, place \in {"wake", "idle"} :
          Call(Push(req[t]), ok) /\ Goto(t, place) /\ life' = life
    BY <1>3 DEF AdoptPush, Leave
  <2>2. FaultsCounted' /\ held = t /\ life = "stopped"
    BY <1>0, <1>3, <2>1, CallCounted DEF AdoptPush, Locked
  <2>3. QED
    BY <1>0, <2>1, <2>2, MoveTogether DEF Unlocked
<1>4. CASE WakeEnter(t)
  <2>1. PICK place \in {"recheck", "start", "idle"} :
          /\ held = "free" /\ Goto(t, place) /\ UNCHANGED <<bound, browser, late, faults>>
          /\ life' = IF place = "start" THEN "starting" ELSE life
    BY <1>4 DEF WakeEnter, BeginWake, Leave
  <2>2. QED
    BY <1>0, <1>s, <2>1, MoveTogether DEF Locked, Unlocked
<1>5. CASE Recheck(t)
  <2>1. PICK ok \in BOOLEAN : Ready(ok)
    BY <1>5 DEF Recheck
  <2>2. held = t /\ Goto(t, "idle") /\ UNCHANGED <<life, bound>>
    BY <1>0, <1>5 DEF Recheck, Leave, Locked
  <2>3. QED
    BY <1>0, <1>r, <2>1, <2>2, MoveTogether DEF Unlocked
<1>6. CASE WakeStart(t)
  <2>1. PICK ok \in BOOLEAN :
          Call(StartCall, ok) /\ Goto(t, IF ok THEN "await" ELSE "cleanup")
    BY <1>6 DEF WakeStart
  <2>2. FaultsCounted' /\ held = t /\ life' = "starting"
    BY <1>0, <1>6, <2>1, CallCounted DEF WakeStart, Locked
  <2>3. QED
    BY <1>0, <2>1, <2>2, MoveTogether DEF Locked
<1>7. CASE WakeAwait(t)
  <2>1. PICK ok \in BOOLEAN :
          /\ Ready(ok)
          /\ IF ok
             THEN life' = "ready" /\ Goto(t, "restore")
             ELSE UNCHANGED life /\ Goto(t, "cleanup")
    BY <1>7 DEF WakeAwait
  <2>2. held = t /\ bound' = bound /\ life = "starting"
    BY <1>0, <1>7 DEF WakeAwait, Locked
  <2>3. FaultsCounted' /\ UNCHANGED <<chrome, chromeFor>>
        /\ (ok => chrome = "ready" /\ chromeFor = bound)
    BY <1>r, <2>1
  <2>4. CASE ok
    BY <1>0, <2>1, <2>2, <2>3, <2>4, MoveTogether DEF Locked
  <2>5. CASE ~ok
    BY <1>0, <2>1, <2>2, <2>3, <2>5, MoveTogether DEF Locked
  <2>6. QED
    BY <2>4, <2>5
<1>8. CASE WakeRestore(t)
  <2>1. PICK place \in {"idle", "cleanup"} :
          /\ Goto(t, place) /\ UNCHANGED <<life, bound, browser, late>>
          /\ faults' \in {faults, faults + 1}
    BY <1>8 DEF WakeRestore, Leave
  <2>2. FaultsCounted' /\ held = t
    BY <1>0, <1>8, <2>1, LateNat DEF WakeRestore, FaultsCounted, Locked
  <2>3. /\ faults <= faults' /\ UNCHANGED <<chrome, chromeFor>>
        /\ late'[StartCall] <= late[StartCall]
        /\ \A b \in Bindings : late'[Push(b)] <= late[Push(b)]
    BY <1>0, <2>1, LateNat DEF browser
  <2>4. QED
    BY <1>0, <2>1, <2>2, <2>3, MoveTogether DEF Locked, Unlocked
<1>9. CASE WakeCleanup(t)
  <2>1. PICK ok \in BOOLEAN : Call(StopCall, ok)
    BY <1>9 DEF WakeCleanup
  <2>2. FaultsCounted' /\ held = t /\ life' = "stopped" /\ Goto(t, "idle")
    BY <1>0, <1>9, <2>1, CallCounted DEF WakeCleanup, Leave, Locked
  <2>3. QED
    BY <1>0, <2>2, MoveTogether DEF Unlocked
<1>10. CASE CheckOwner(t)
  <2>1. PICK ok \in BOOLEAN, place \in {"idle", "halt"} : Ready(ok) /\ Goto(t, place)
    BY <1>10 DEF CheckOwner, Leave
  <2>2. held = "free" /\ UNCHANGED <<life, bound>>
    BY <1>10 DEF CheckOwner
  <2>3. QED
    BY <1>0, <1>r, <2>1, <2>2, MoveTogether DEF Locked, Unlocked
<1>11. CASE Halt(t)
  <2>1. PICK ok \in BOOLEAN :
          /\ Call(StopCall, ok)
          /\ \/ ~ok /\ Goto(t, "idle") /\ UNCHANGED life
             \/ ok /\ Goto(t, "idle") /\ life' \in {"suspended", "stopped"}
             \/ ok /\ Goto(t, "start") /\ life' = "starting"
    BY <1>11 DEF Halt, Leave
  <2>2. FaultsCounted' /\ held = t /\ bound' = bound
    BY <1>0, <1>11, <2>1, CallCounted DEF Halt, Locked
  <2>3. CASE ~ok
    BY <1>0, <2>1, <2>2, <2>3, StopRefused, MoveTogether DEF Unlocked
  <2>4. CASE ok
    BY <1>0, <2>1, <2>2, <2>4, MoveTogether DEF Locked, Unlocked
  <2>5. QED
    BY <2>3, <2>4
<1>12. QED
  BY <1>1, <1>2, <1>3, <1>4, <1>5, <1>6, <1>7, <1>8, <1>9, <1>10, <1>11 DEF Step

\* OwnerInv holds in the beginning and is inductive.
LEMMA InitOwnerInv == Init => OwnerInv
<1> SUFFICES ASSUME Init PROVE OwnerInv
  OBVIOUS
<1>1. SupervisorInv
  BY InitSupervisorInv
<1>2. FaultsCounted /\ PlaceAndLife /\ Together
  BY CallsAreCalls DEF Init, FaultsCounted, PlaceAndLife, Together
<1>3. QED
  BY <1>1, <1>2 DEF OwnerInv

\* Every step keeps what the owners' agreement rests on.
LEMMA NextOwnerInv == OwnerInv /\ [Next]_vars => OwnerInv'
<1> SUFFICES ASSUME OwnerInv, [Next]_vars PROVE OwnerInv'
  OBVIOUS
<1>1. SupervisorInv'
  BY NextSupervisorInv DEF OwnerInv
<1>2. SUFFICES FaultsCounted' /\ PlaceAndLife' /\ Together'
  BY <1>1 DEF OwnerInv
<1>3. ASSUME NEW t \in Threads, Request(t)
      PROVE  FaultsCounted' /\ PlaceAndLife' /\ Together'
  <2>1. /\ UNCHANGED <<life, bound, chrome, chromeFor, late, faults>>
        /\ \E place \in {"adopt", "wake", "check"} : pc' = [pc EXCEPT ![t] = place]
    BY <1>3 DEF Request, HandleWake, HandleOther, Goto, browser
  <2>2. PlaceAndLife'
    BY <2>1 DEF OwnerInv, SupervisorInv, ThreadsTyped, PlaceAndLife
  <2>3. QED
    BY <2>1, <2>2 DEF OwnerInv, FaultsCounted, Together
<1>4. ASSUME NEW t \in Threads, Step(t)
      PROVE  FaultsCounted' /\ PlaceAndLife' /\ Together'
  BY <1>4, StepTogether
<1>5. CASE ChromeFails \/ ChromeRecovers \/ BrowserRestarts \/ SupervisorRestarts
  BY <1>5, EnvironmentTogether
<1>6. ASSUME NEW call \in Calls, LateCall(call)
      PROVE  FaultsCounted' /\ PlaceAndLife' /\ Together'
  BY <1>6, LateTogether
<1>7. CASE UNCHANGED vars
  BY <1>7 DEF vars, supervisor, browser, OwnerInv, FaultsCounted, PlaceAndLife, Together
<1>8. QED
  BY <1>3, <1>4, <1>5, <1>6, <1>7 DEF Next

-----------------------------------------------------------------------------
(***************************************************************************)
(* That the gate is released under fairness is checked by TLC only, but not *)
(* that a request inside it never turns back: each of its steps leaves the  *)
(* gate or brings the end nearer, and only a restart else moves it.         *)
(***************************************************************************)
\* How many places are at most to come before the gate is left.
ToGo == [place \in Locked |->
            CASE place = "halt" -> 5
              [] place = "start" -> 4
              [] place = "await" -> 3
              [] place \in {"restore", "adopt_stop"} -> 2
              [] OTHER -> 1]

Advances(t) ==
    \/ held' = "free"
    \/ held' = t /\ pc'[t] = pc[t]
    \/ held' = t /\ pc'[t] \in Locked /\ ToGo[pc'[t]] < ToGo[pc[t]]

GateAdvances == [][\A t \in Threads : held = t => Advances(t)]_vars

LEMMA Distances ==
    /\ ToGo["halt"] = 5 /\ ToGo["start"] = 4 /\ ToGo["await"] = 3
    /\ ToGo["restore"] = 2 /\ ToGo["adopt_stop"] = 2
    /\ ToGo["adopt_push"] = 1 /\ ToGo["recheck"] = 1 /\ ToGo["cleanup"] = 1
BY DEF ToGo, Locked

\* A step inside the gate either leaves it or goes to one of the next places.
LEMMA StepAdvances ==
    ASSUME SupervisorInv, NEW t \in Threads, held = t, Step(t)
    PROVE  Advances(t)
<1>1. /\ pc[t] \in Locked /\ held # "free"
      /\ pc \in [Threads -> Unlocked \cup Locked]
  BY SupervisorAssumption DEF SupervisorInv, ThreadsTyped
<1>2. CASE held' = "free"
  BY <1>2 DEF Advances
<1>3. ASSUME NEW place \in Locked, UNCHANGED held, Goto(t, place),
             ToGo[place] < ToGo[pc[t]]
      PROVE  Advances(t)
  BY <1>1, <1>3 DEF Goto, Advances
<1>4. CASE AdoptEnter(t) \/ WakeEnter(t) \/ CheckOwner(t)
  BY <1>1, <1>4 DEF AdoptEnter, WakeEnter, CheckOwner, Within, Locked
<1>5. CASE AdoptStop(t)
  <2>1. /\ pc[t] = "adopt_stop"
        /\ held' = "free" \/ (UNCHANGED held /\ Goto(t, "adopt_push"))
    BY <1>5 DEF AdoptStop, Within, Leave
  <2>2. "adopt_push" \in Locked
    BY DEF Locked
  <2>3. QED
    BY <1>2, <1>3, <2>1, <2>2, Distances
<1>6. CASE AdoptPush(t) \/ Recheck(t) \/ WakeCleanup(t)
  BY <1>2, <1>6 DEF AdoptPush, Recheck, WakeCleanup, Leave
<1>7. CASE WakeStart(t)
  <2>1. /\ pc[t] = "start" /\ UNCHANGED held
        /\ Goto(t, "await") \/ Goto(t, "cleanup")
    BY <1>7 DEF WakeStart, Within
  <2>2. {"await", "cleanup"} \subseteq Locked
    BY DEF Locked
  <2>3. QED
    BY <1>3, <2>1, <2>2, Distances
<1>8. CASE WakeAwait(t)
  <2>1. /\ pc[t] = "await" /\ UNCHANGED held
        /\ Goto(t, "restore") \/ Goto(t, "cleanup")
    BY <1>8 DEF WakeAwait, Within
  <2>2. {"restore", "cleanup"} \subseteq Locked
    BY DEF Locked
  <2>3. QED
    BY <1>3, <2>1, <2>2, Distances
<1>9. CASE WakeRestore(t)
  <2>1. /\ pc[t] = "restore"
        /\ held' = "free" \/ (UNCHANGED held /\ Goto(t, "cleanup"))
    BY <1>9 DEF WakeRestore, Within, Leave
  <2>2. "cleanup" \in Locked
    BY DEF Locked
  <2>3. QED
    BY <1>2, <1>3, <2>1, <2>2, Distances
<1>10. CASE Halt(t)
  <2>1. /\ pc[t] = "halt"
        /\ held' = "free" \/ (UNCHANGED held /\ Goto(t, "start"))
    BY <1>10 DEF Halt, Within, Leave
  <2>2. "start" \in Locked
    BY DEF Locked
  <2>3. QED
    BY <1>2, <1>3, <2>1, <2>2, Distances
<1>11. QED
  BY <1>4, <1>5, <1>6, <1>7, <1>8, <1>9, <1>10 DEF Step

\* A step of another thread, which is outside, leaves the holder where it is.
LEMMA OutsideAdvances ==
    ASSUME SupervisorInv, NEW t \in Threads, held = t,
           NEW u \in Threads, u # t, Step(u) \/ Request(u)
    PROVE  Advances(t)
<1>1. /\ pc[u] \notin Locked /\ held # "free"
      /\ pc \in [Threads -> Unlocked \cup Locked]
  BY SupervisorAssumption DEF SupervisorInv, ThreadsTyped
<1>2. ASSUME UNCHANGED held, NEW place, Goto(u, place) PROVE Advances(t)
  BY <1>1, <1>2 DEF Goto, Advances
<1>3. CASE Request(u)
  BY <1>2, <1>3 DEF Request, HandleWake, HandleOther
<1>4. CASE Step(u)
  BY <1>1, <1>4 DEF Step, AdoptEnter, AdoptStop, AdoptPush, WakeEnter, Recheck,
     WakeStart, WakeAwait, WakeRestore, WakeCleanup, CheckOwner, Halt,
     Within, Enter, Locked
<1>5. QED
  BY <1>3, <1>4

\* Whatever step is taken while a thread holds the gate.
LEMMA NextAdvances ==
    ASSUME SupervisorInv, [Next]_vars, NEW t \in Threads, held = t
    PROVE  Advances(t)
<1>1. ASSUME NEW u \in Threads, Step(u) PROVE Advances(t)
  BY <1>1, StepAdvances, OutsideAdvances
<1>2. ASSUME NEW u \in Threads, Request(u) PROVE Advances(t)
  <2>1. u # t
    BY <1>2 DEF Request, HandleWake, HandleOther, SupervisorInv, ThreadsTyped, Locked
  <2>2. QED
    BY <1>2, <2>1, OutsideAdvances
<1>3. CASE SupervisorRestarts
  BY <1>3 DEF SupervisorRestarts, Advances
<1>4. CASE UNCHANGED supervisor
  BY <1>4 DEF supervisor, Advances
<1>5. CASE \/ ChromeFails \/ ChromeRecovers \/ BrowserRestarts
           \/ \E call \in Calls : LateCall(call)
  BY <1>4, <1>5 DEF ChromeFails, ChromeRecovers, BrowserRestarts, LateCall, supervisor
<1>6. CASE UNCHANGED vars
  BY <1>4, <1>6 DEF vars
<1>7. QED
  BY <1>1, <1>2, <1>3, <1>5, <1>6 DEF Next

-----------------------------------------------------------------------------
(* The types, and at most one handler thread past the gate, which is what   *)
(* the decorator _serialized is for (SlotSupervisor).                       *)
THEOREM SupervisorTypeOK == Spec => []TypeOK
<1>1. SupervisorInv => TypeOK
  BY DEF SupervisorInv, ThreadsTyped, BrowserTyped, TypeOK
<1>2. SupervisorInv /\ [Next]_vars => SupervisorInv'
  BY NextSupervisorInv
<1>3. QED
  BY <1>1, <1>2, InitSupervisorInv, PTL DEF Spec

(* Whatever call of a wake fails, and however often, the lifecycle is never *)
(* left "starting" (SlotSupervisor.wake and _safe_stop).                    *)
THEOREM SupervisorNoAbandonedStart == Spec => []NoAbandonedStart
<1>1. SupervisorInv => NoAbandonedStart
  BY DEF SupervisorInv
<1>2. SupervisorInv /\ [Next]_vars => SupervisorInv'
  BY NextSupervisorInv
<1>3. QED
  BY <1>1, <1>2, InitSupervisorInv, PTL DEF Spec

(* A request for another binding touches the lifecycle, or its owner, only  *)
(* once Chromium is stopped (SlotSupervisor.adopt_binding).                 *)
THEOREM SupervisorTakeoverStopsFirst == Spec => TakeoverStopsFirst
<1>1. SupervisorInv /\ [Next]_vars
        => [\A t \in Threads :
              /\ held = t /\ req[t] # bound
              /\ life' # life \/ bound' # bound
              => chrome' = "stopped" \/ SupervisorRestarts]_vars
  BY NextSupervisorInv
<1>2. SupervisorInv /\ [Next]_vars => SupervisorInv'
  BY NextSupervisorInv
<1>3. QED
  BY <1>1, <1>2, InitSupervisorInv, PTL DEF Spec, TakeoverStopsFirst

(* No two faults, whichever calls they make late and whichever service they *)
(* restart, part a ready lifecycle from the owner of a running Chromium     *)
(* (SlotSupervisor.wake and adopt_binding over the browser service).        *)
THEOREM SupervisorReadyOwner == Spec => []ReadyOwner
<1>1. OwnerInv => ReadyOwner
  BY DEF OwnerInv, Together, ReadyOwner
<1>2. QED
  BY <1>1, InitOwnerInv, NextOwnerInv, PTL DEF Spec

(* A request that holds the gate only ever moves forward in it, through at  *)
(* most five places, whatever the others and Chromium do, and loses the     *)
(* gate otherwise only to a restart of the supervisor: what is left of      *)
(* GateIsReleased is that its thread goes on (SlotSupervisor.wake,          *)
(* adopt_binding, suspend, stop and recreate under _serialized).            *)
THEOREM SupervisorGateAdvances == Spec => GateAdvances
<1>1. SupervisorInv /\ [Next]_vars
        => [\A t \in Threads : held = t => Advances(t)]_vars
  BY NextAdvances
<1>2. SupervisorInv /\ [Next]_vars => SupervisorInv'
  BY NextSupervisorInv
<1>3. QED
  BY <1>1, <1>2, InitSupervisorInv, PTL DEF Spec, GateAdvances

=============================================================================
