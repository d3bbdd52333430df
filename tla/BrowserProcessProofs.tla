------------------------ MODULE BrowserProcessProofs ------------------------
(***************************************************************************)
(* Theorems about BrowserProcess for any set of bindings, any number of     *)
(* children and any bound of epochs.                                        *)
(*                                                                         *)
(* ReadyServesOwner is not inductive: StartReady makes a browser ready      *)
(* because its thread was not cancelled, so the invariant has to say what   *)
(* being uncancelled implies.  BrowserInv adds that the owned child was     *)
(* launched for the binding in force, that a stopped browser owns no child, *)
(* that a waiting start launched one, and that a recovery whose epoch is    *)
(* still current finds a browser nobody stopped.                            *)
(***************************************************************************)
EXTENDS BrowserProcess, TLAPS

OwnedIsBound   == proc # None => bornFor[proc] = owner
StoppedOwnsNone == state = "stopped" => proc = None
ReadyOwnsOne   == state = "ready" => proc # None
WaitingLaunched ==
    \A t \in Threads : pc[t] \in {"starting", "answered"} => mine[t] # None
RecoveryCurrent ==
    pc["watcher"] = "recovering" /\ seen["watcher"] = epoch => state # "stopped"

BrowserInv ==
    /\ TypeOK
    /\ OwnedIsBound
    /\ StoppedOwnsNone
    /\ ReadyOwnsOne
    /\ WaitingLaunched
    /\ RecoveryCurrent

USE DEF Threads, None

-----------------------------------------------------------------------------
\* A launch, from either thread: the new child is bound to the owner in force.
LEMMA LaunchInv ==
    ASSUME BrowserInv, NEW t \in Threads, Launch(t)
    PROVE  BrowserInv' /\ state' # "stopped"
<1> USE DEF BrowserInv
<1>0. /\ epoch' = epoch + 1 /\ epoch \in Nat /\ epoch' \in Nat
      /\ owner' = owner /\ closing' = closing
      /\ \A u \in Threads : seen[u] \in 0..epoch /\ seen[u] # epoch'
      /\ Raised(t) \in Places /\ Raised(t) \notin {"starting", "answered", "recovering"}
  BY DEF Launch, TypeOK, Raised, Places
<1>1. CASE \E c \in Children :
             /\ child' = [child EXCEPT ![c] = "alive"]
             /\ bornFor' = [bornFor EXCEPT ![c] = owner]
             /\ proc' = c
             /\ state' = "starting"
             /\ mine' = [mine EXCEPT ![t] = c]
             /\ seen' = [seen EXCEPT ![t] = epoch + 1]
             /\ Goto(t, "starting")
  <2>1. PICK c \in Children :
             /\ child' = [child EXCEPT ![c] = "alive"]
             /\ bornFor' = [bornFor EXCEPT ![c] = owner]
             /\ proc' = c
             /\ state' = "starting"
             /\ mine' = [mine EXCEPT ![t] = c]
             /\ seen' = [seen EXCEPT ![t] = epoch + 1]
             /\ Goto(t, "starting")
    BY <1>1
  <2>2. c # None
    BY DEF Children
  <2>3. TypeOK'
    BY <1>0, <2>1 DEF TypeOK, Goto, Places, States
  <2>4. OwnedIsBound'
    BY <1>0, <2>1 DEF OwnedIsBound, TypeOK
  <2>5. WaitingLaunched'
    BY <2>1, <2>2 DEF WaitingLaunched, TypeOK, Goto
  <2>6. QED
    BY <2>1, <2>2, <2>3, <2>4, <2>5
       DEF StoppedOwnsNone, ReadyOwnsOne, RecoveryCurrent
<1>2. CASE /\ proc' = None
           /\ state' = "failed"
           /\ Goto(t, Raised(t))
           /\ UNCHANGED <<child, bornFor, mine, seen>>
  <2>1. TypeOK'
    BY <1>0, <1>2 DEF TypeOK, Goto, States
  <2>2. WaitingLaunched'
    BY <1>0, <1>2 DEF WaitingLaunched, TypeOK, Goto
  <2>3. QED
    BY <1>2, <2>1, <2>2
       DEF OwnedIsBound, StoppedOwnsNone, ReadyOwnsOne, RecoveryCurrent
<1>3. QED
  BY <1>1, <1>2 DEF Launch

\* stop() keeps the invariant whoever calls it: the epoch moves on, so no
\* recovery under way is current any more.
LEMMA StopInv ==
    ASSUME BrowserInv, Stop, closing' \in BOOLEAN
    PROVE  BrowserInv' /\ state' = "stopped"
<1> USE DEF BrowserInv
<1>1. /\ epoch' = epoch + 1 /\ epoch \in Nat /\ epoch' \in Nat
      /\ \A u \in Threads : seen[u] \in 0..epoch' /\ seen[u] # epoch'
  BY DEF Stop, TypeOK
<1>2. TypeOK'
  BY <1>1 DEF Stop, TypeOK, States
<1>3. QED
  BY <1>1, <1>2 DEF Stop, OwnedIsBound, StoppedOwnsNone, ReadyOwnsOne,
                   WaitingLaunched, RecoveryCurrent

\* A step of a start that is waiting.  Only a start that was not cancelled
\* writes the state, and its child is then the owned one.
LEMMA StartStepInv ==
    ASSUME BrowserInv, NEW t \in Threads, StartStep(t)
    PROVE  BrowserInv' /\ (state = "stopped" => state' = "stopped")
<1> USE DEF BrowserInv
<1>0. Raised(t) \in Places /\ Raised(t) \notin {"starting", "answered", "recovering"}
  BY DEF Raised, Places
<1>a. pc[t] \in {"starting", "answered"} /\ ~Cancelled(t)
         => proc # None /\ proc \in Children /\ state # "stopped"
  BY DEF Cancelled, WaitingLaunched, StoppedOwnsNone, TypeOK
<1>1. CASE StartCancelled(t)
  <2>1. TypeOK'
    BY <1>0, <1>1 DEF StartCancelled, TypeOK, Goto
  <2>2. QED
    BY <1>0, <1>1, <2>1 DEF StartCancelled, TypeOK, Goto, OwnedIsBound,
       StoppedOwnsNone, ReadyOwnsOne, WaitingLaunched, RecoveryCurrent
<1>2. CASE StartExited(t)
  <2>1. TypeOK'
    BY <1>0, <1>2 DEF StartExited, TypeOK, Goto, States
  <2>2. QED
    BY <1>0, <1>2, <1>a, <2>1 DEF StartExited, TypeOK, Goto, OwnedIsBound,
       StoppedOwnsNone, ReadyOwnsOne, WaitingLaunched, RecoveryCurrent
<1>3. CASE StartAnswered(t)
  <2>1. TypeOK'
    BY <1>3 DEF StartAnswered, TypeOK, Goto, Places
  <2>2. QED
    BY <1>3, <2>1 DEF StartAnswered, TypeOK, Goto, OwnedIsBound,
       StoppedOwnsNone, ReadyOwnsOne, WaitingLaunched, RecoveryCurrent
<1>4. CASE StartReady(t)
  <2>1. TypeOK'
    BY <1>4 DEF StartReady, TypeOK, Goto, Places, States
  <2>2. QED
    BY <1>4, <1>a, <2>1 DEF StartReady, TypeOK, Goto, OwnedIsBound,
       StoppedOwnsNone, ReadyOwnsOne, WaitingLaunched, RecoveryCurrent
<1>5. CASE StartTimeout(t)
  <2>1. TypeOK'
    BY <1>0, <1>5, <1>a DEF StartTimeout, TypeOK, Goto, States
  <2>2. QED
    BY <1>0, <1>5, <1>a, <2>1 DEF StartTimeout, TypeOK, Goto, OwnedIsBound,
       StoppedOwnsNone, ReadyOwnsOne, WaitingLaunched, RecoveryCurrent
<1>6. QED
  BY <1>1, <1>2, <1>3, <1>4, <1>5 DEF StartStep

\* A step of watch() and recover_if_crashed outside start()'s waiting loop.
LEMMA WatcherInv ==
    ASSUME BrowserInv, WatchTick \/ Recover \/ RecoveryStart \/ WatchFailed
    PROVE  BrowserInv' /\ (state = "stopped" => state' = "stopped")
<1> USE DEF BrowserInv
<1>1. CASE WatchTick
  <2>1. TypeOK'
    BY <1>1 DEF WatchTick, TypeOK, Goto, Places
  <2>2. QED
    BY <1>1, <2>1 DEF WatchTick, TypeOK, Goto, OwnedIsBound,
       StoppedOwnsNone, ReadyOwnsOne, WaitingLaunched, RecoveryCurrent
<1>2. CASE Recover
  <2>1. epoch \in Nat /\ \A u \in Threads : seen[u] \in 0..epoch
    BY DEF TypeOK
  <2>2. TypeOK'
    BY <1>2, <2>1 DEF Recover, TypeOK, Goto, Places, States
  <2>3. QED
    BY <1>2, <2>2 DEF Recover, OwnedDead, TypeOK, Goto, OwnedIsBound,
       StoppedOwnsNone, ReadyOwnsOne, WaitingLaunched, RecoveryCurrent
<1>3. CASE RecoveryStart
  <2>1. CASE seen["watcher"] = epoch /\ Launch("watcher")
    BY <1>3, <2>1, LaunchInv DEF RecoveryStart, RecoveryCurrent
  <2>2. CASE /\ pc' = [pc EXCEPT !["watcher"] = pc'["watcher"]]
             /\ pc'["watcher"] \in {"idle", "raised"}
             /\ UNCHANGED <<state, proc, epoch, owner, child, bornFor, mine, seen, closing>>
    <3>1. TypeOK'
      BY <2>2 DEF TypeOK, Places
    <3>2. QED
      BY <2>2, <3>1 DEF TypeOK, OwnedIsBound,
         StoppedOwnsNone, ReadyOwnsOne, WaitingLaunched, RecoveryCurrent
  <2>3. QED
    BY <1>3, <2>1, <2>2 DEF RecoveryStart, Goto, TypeOK
<1>4. CASE WatchFailed
  <2>1. TypeOK'
    BY <1>4 DEF WatchFailed, TypeOK, Goto, Places, States
  <2>2. QED
    BY <1>4, <2>1 DEF WatchFailed, TypeOK, Goto, OwnedIsBound,
       StoppedOwnsNone, ReadyOwnsOne, WaitingLaunched, RecoveryCurrent
<1>5. QED
  BY <1>1, <1>2, <1>3, <1>4

\* The browser is stopped and owns no child in the beginning.
LEMMA InitBrowserInv == Init => BrowserInv
<1> SUFFICES ASSUME Init PROVE BrowserInv
  OBVIOUS
<1>1. pc \in [Threads -> Places] /\ \A t \in Threads : pc[t] = "idle"
  BY DEF Init, Places
<1>2. epoch = 0 /\ seen \in [Threads -> 0..epoch] /\ mine \in [Threads -> {None}]
  BY DEF Init
<1>3. TypeOK
  <2>1. mine \in [Threads -> Children \cup {None}]
    BY <1>2
  <2>2. child \in [Children -> {"unborn", "alive", "dead"}]
    BY DEF Init
  <2>3. bornFor \in [Children -> Owners] /\ owner \in Owners
    BY DEF Init
  <2>4. state \in States /\ proc \in Children \cup {None} /\ closing \in BOOLEAN
    BY DEF Init, States
  <2>5. QED
    BY <1>1, <1>2, <2>1, <2>2, <2>3, <2>4 DEF TypeOK
<1>4. QED
  BY <1>1, <1>3 DEF Init, BrowserInv, OwnedIsBound, StoppedOwnsNone,
                    ReadyOwnsOne, WaitingLaunched, RecoveryCurrent

\* Every step keeps the invariant, and only HttpStart leaves "stopped".
LEMMA NextBrowserInv ==
    BrowserInv /\ [Next]_vars =>
        BrowserInv' /\ (state = "stopped" /\ state' # "stopped" => HttpStart)
<1> SUFFICES ASSUME BrowserInv, [Next]_vars
             PROVE  BrowserInv' /\ (state = "stopped" /\ state' # "stopped" => HttpStart)
  OBVIOUS
<1>u. ASSUME UNCHANGED vars PROVE BrowserInv' /\ state' = state
  BY <1>u DEF vars, BrowserInv, TypeOK, OwnedIsBound, StoppedOwnsNone,
              ReadyOwnsOne, WaitingLaunched, RecoveryCurrent
<1>1. CASE HttpStart
  BY <1>1, <1>u, LaunchInv DEF HttpStart
<1>2. CASE HttpStop
  BY <1>2, StopInv DEF HttpStop, BrowserInv, TypeOK
<1>3. CASE HttpObserve
  <2>1. Observed \in States /\ (Observed = "stopped" <=> state = "stopped")
          /\ (Observed = "ready" => state = "ready")
    BY DEF Observed, BrowserInv, TypeOK, States
  <2>2. QED
    BY <1>3, <2>1 DEF HttpObserve, BrowserInv, TypeOK, OwnedIsBound, StoppedOwnsNone,
                      ReadyOwnsOne, WaitingLaunched, RecoveryCurrent
<1>4. ASSUME NEW o \in Owners, HttpRebind(o)
      PROVE  BrowserInv' /\ state' = state
  <2>1. proc = None
    BY <1>4 DEF HttpRebind, Observed, BrowserInv, StoppedOwnsNone
  <2>2. QED
    BY <1>4, <2>1 DEF HttpRebind, BrowserInv, TypeOK, OwnedIsBound, StoppedOwnsNone,
                      ReadyOwnsOne, WaitingLaunched, RecoveryCurrent
<1>5. CASE StartStep("http")
  BY <1>5, StartStepInv
<1>6. CASE WatcherStep
  BY <1>6, StartStepInv, WatcherInv DEF WatcherStep
<1>7. CASE Shutdown
  BY <1>7, StopInv DEF Shutdown
<1>8. ASSUME NEW c \in Children, ChildExits(c)
      PROVE  BrowserInv' /\ state' = state
  BY <1>8 DEF ChildExits, BrowserInv, TypeOK, OwnedIsBound, StoppedOwnsNone,
              ReadyOwnsOne, WaitingLaunched, RecoveryCurrent
<1>9. QED
  BY <1>u, <1>1, <1>2, <1>3, <1>4, <1>5, <1>6, <1>7, <1>8 DEF Next

-----------------------------------------------------------------------------
(* That a start ends is checked by TLC only, but not that somebody is there *)
(* to end it: a thread waits for Chromium and nothing has cancelled it.     *)
Awaits(t) == pc[t] \in {"starting", "answered"} /\ ~Cancelled(t)

StartIsAwaited == state = "starting" => \E t \in Threads : Awaits(t)

\* Whoever awaits the start goes on doing so, or the browser is not starting.
LEMMA StillAwaited ==
    ASSUME StartIsAwaited, state' # "starting" \/ state = "starting",
           \A t \in Threads : state' = "starting" /\ Awaits(t) => Awaits(t)'
    PROVE  StartIsAwaited'
BY DEF StartIsAwaited

\* A launch that leaves the browser starting is awaited by its own thread.
LEMMA LaunchAwaited ==
    ASSUME BrowserInv, NEW t \in Threads, Launch(t)
    PROVE  StartIsAwaited'
<1>1. CASE state' = "failed"
  BY <1>1 DEF StartIsAwaited
<1>2. CASE \E c \in Children :
             /\ proc' = c
             /\ mine' = [mine EXCEPT ![t] = c]
             /\ seen' = [seen EXCEPT ![t] = epoch + 1]
             /\ Goto(t, "starting")
  <2>1. Awaits(t)'
    BY <1>2 DEF Awaits, Cancelled, Launch, Goto, BrowserInv, TypeOK
  <2>2. QED
    BY <2>1 DEF StartIsAwaited
<1>3. QED
  BY <1>1, <1>2 DEF Launch

\* A thread that is not the one awaiting moves; the epoch and the owned child
\* stay, and so does the state.
LEMMA OthersAwait ==
    ASSUME BrowserInv, StartIsAwaited, NEW u \in Threads, ~Awaits(u),
           NEW place, Goto(u, place),
           UNCHANGED <<state, proc, epoch, mine, seen>>
    PROVE  StartIsAwaited'
<1>1. \A t \in Threads : Awaits(t) => Awaits(t)'
  BY DEF Awaits, Cancelled, Goto, BrowserInv, TypeOK
<1>2. QED
  BY <1>1, StillAwaited

\* A step of a start that is waiting.
LEMMA StartStepAwaited ==
    ASSUME BrowserInv, StartIsAwaited, NEW u \in Threads, StartStep(u)
    PROVE  StartIsAwaited'
<1>1. CASE StartCancelled(u)
  <2>1. ~Awaits(u) /\ Goto(u, Raised(u)) /\ UNCHANGED <<state, proc, epoch, mine, seen>>
    BY <1>1 DEF StartCancelled, Awaits
  <2>2. QED
    BY <2>1, OthersAwait
<1>2. CASE StartAnswered(u)
  <2>1. \A t \in Threads : Awaits(t) => Awaits(t)'
    BY <1>2 DEF StartAnswered, Awaits, Cancelled, Goto, BrowserInv, TypeOK
  <2>2. QED
    BY <1>2, <2>1, StillAwaited DEF StartAnswered
<1>3. CASE StartExited(u) \/ StartReady(u) \/ StartTimeout(u)
  BY <1>3 DEF StartExited, StartReady, StartTimeout, StartIsAwaited
<1>4. QED
  BY <1>1, <1>2, <1>3 DEF StartStep

\* A step of watch() and recover_if_crashed outside start()'s waiting loop.
LEMMA WatcherAwaited ==
    ASSUME BrowserInv, StartIsAwaited,
           WatchTick \/ Recover \/ RecoveryStart \/ WatchFailed
    PROVE  StartIsAwaited'
<1>1. CASE state' = "failed" \/ (state # "starting" /\ state' = state)
  BY <1>1 DEF StartIsAwaited
<1>2. CASE Launch("watcher")
  BY <1>2, LaunchAwaited
<1>3. CASE /\ pc["watcher"] \notin {"starting", "answered"}
           /\ \E place : Goto("watcher", place)
           /\ UNCHANGED <<state, proc, epoch, mine, seen>>
  <2>1. ~Awaits("watcher")
    BY <1>3 DEF Awaits
  <2>2. QED
    BY <1>3, <2>1, OthersAwait
<1>4. CASE WatchTick
  BY <1>3, <1>4 DEF WatchTick
<1>5. CASE Recover
  BY <1>1, <1>3, <1>5 DEF Recover
<1>6. CASE RecoveryStart
  BY <1>2, <1>3, <1>6 DEF RecoveryStart
<1>7. CASE WatchFailed
  <2>1. state' = "failed" \/ (state = "stopped" /\ state' = state)
    BY <1>7 DEF WatchFailed
  <2>2. QED
    BY <1>1, <2>1
<1>8. QED
  BY <1>4, <1>5, <1>6, <1>7

\* StartIsAwaited is inductive, given the invariant.
LEMMA NextAwaited ==
    ASSUME BrowserInv, StartIsAwaited, [Next]_vars
    PROVE  StartIsAwaited'
<1>1. ASSUME UNCHANGED <<state, proc, epoch, pc, mine, seen>> PROVE StartIsAwaited'
  <2>1. \A t \in Threads : Awaits(t) => Awaits(t)'
    BY <1>1 DEF Awaits, Cancelled
  <2>2. QED
    BY <1>1, <2>1, StillAwaited
<1>2. CASE HttpStart
  BY <1>1, <1>2, LaunchAwaited DEF HttpStart, vars
<1>3. CASE HttpStop \/ Shutdown
  BY <1>3 DEF HttpStop, Shutdown, Stop, StartIsAwaited
<1>4. CASE HttpObserve
  <2>1. state' = state \/ state' = "failed"
    BY <1>4 DEF HttpObserve, Observed
  <2>2. CASE state' = state
    BY <1>1, <1>4, <2>2 DEF HttpObserve
  <2>3. CASE state' = "failed"
    BY <2>3 DEF StartIsAwaited
  <2>4. QED
    BY <2>1, <2>2, <2>3
<1>5. ASSUME NEW o \in Owners, HttpRebind(o) PROVE StartIsAwaited'
  BY <1>1, <1>5 DEF HttpRebind
<1>6. ASSUME NEW c \in Children, ChildExits(c) PROVE StartIsAwaited'
  BY <1>1, <1>6 DEF ChildExits
<1>7. CASE StartStep("http") \/ StartStep("watcher")
  BY <1>7, StartStepAwaited
<1>8. CASE WatchTick \/ Recover \/ RecoveryStart \/ WatchFailed
  BY <1>8, WatcherAwaited
<1>9. CASE UNCHANGED vars
  BY <1>1, <1>9 DEF vars
<1>10. QED
  BY <1>2, <1>3, <1>4, <1>5, <1>6, <1>7, <1>8, <1>9 DEF Next, WatcherStep

-----------------------------------------------------------------------------
(* Every variable of BrowserProcess keeps its type; no thread carries an    *)
(* epoch from the future, which the comparisons of the code rely on.        *)
THEOREM BrowserTypeOK == Spec => []TypeOK
<1>1. BrowserInv => TypeOK
  BY DEF BrowserInv
<1>2. BrowserInv /\ [Next]_vars => BrowserInv'
  BY NextBrowserInv
<1>3. QED
  BY <1>1, <1>2, InitBrowserInv, PTL DEF Spec

(* A ready browser runs the child launched for the binding in force,        *)
(* whatever the interleaving of requests, recovery and shutdown             *)
(* (BrowserProcess.rebind, start, stop, recover_if_crashed).                *)
THEOREM BrowserReadyServesOwner == Spec => []ReadyServesOwner
<1>1. BrowserInv => ReadyServesOwner
  BY DEF BrowserInv, ReadyOwnsOne, OwnedIsBound, ReadyServesOwner
<1>2. BrowserInv /\ [Next]_vars => BrowserInv'
  BY NextBrowserInv
<1>3. QED
  BY <1>1, <1>2, InitBrowserInv, PTL DEF Spec

(* Only a request to start takes a stopped browser out of "stopped": the    *)
(* epoch of BrowserProcess.stop cancels every start and recovery under way. *)
THEOREM BrowserStoppedStaysStopped == Spec => StoppedStaysStopped
<1>1. BrowserInv /\ [Next]_vars
        => [state = "stopped" /\ state' # "stopped" => HttpStart]_vars
  BY NextBrowserInv
<1>2. BrowserInv /\ [Next]_vars => BrowserInv'
  BY NextBrowserInv
<1>3. QED
  BY <1>1, <1>2, InitBrowserInv, PTL DEF Spec, StoppedStaysStopped

(* A browser in "starting", where every further start is refused, is never  *)
(* left there alone: some thread inside start() is waiting for it and has   *)
(* not been cancelled, so its deadline will end it (BrowserProcess.start,   *)
(* stop, recover_if_crashed and watch over one state).                      *)
THEOREM BrowserStartIsAwaited == Spec => []StartIsAwaited
<1>1. Init => StartIsAwaited
  BY DEF Init, StartIsAwaited
<1>2. BrowserInv /\ StartIsAwaited /\ [Next]_vars => StartIsAwaited'
  BY NextAwaited
<1>3. BrowserInv /\ [Next]_vars => BrowserInv'
  BY NextBrowserInv
<1>4. QED
  BY <1>1, <1>2, <1>3, InitBrowserInv, PTL DEF Spec

=============================================================================
