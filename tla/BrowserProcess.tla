--------------------------- MODULE BrowserProcess ---------------------------
(***************************************************************************)
(* BrowserProcess (src/src/cloudbrowser/browser_slots/browser_process.py):  *)
(* the owner of one slot's Chromium.  Two threads and a shutdown call it:   *)
(*   http     - request handlers, one at a time under the lifecycle gate of *)
(*              browser_server.py (start, stop, rebind, readiness);         *)
(*   watcher  - watch(), which restarts a crashed child, outside that gate; *)
(*   shutdown - run_browser_service's last stop(), outside it as well.      *)
(* Each holds the instance lock for one action of this module; start()      *)
(* releases it while it waits for Chromium to answer.                       *)
(*                                                                         *)
(* _recovering is left out: only watch() calls recover_if_crashed, so the   *)
(* flag is never seen set.  A killed child is taken to die.                 *)
(***************************************************************************)
EXTENDS Naturals, FiniteSets

CONSTANTS
    Owners,        \* (owner, generation) bindings a supervisor may push
    MaxChildren,   \* bound of the model: Chromium processes ever launched
    MaxEpoch       \* bound of the model: no request starts or stops beyond it

ASSUME BrowserAssumption ==
    /\ Owners # {}
    /\ MaxChildren \in Nat
    /\ MaxEpoch \in Nat

VARIABLES
    state,     \* _state
    proc,      \* _process: a child, or None
    epoch,     \* _start_epoch
    owner,     \* config.owner and config.generation
    child,     \* what the operating system knows of each child
    bornFor,   \* the binding each child was launched for
    pc,        \* where each thread is between two lock regions
    mine,      \* the child a thread's start() launched
    seen,      \* the epoch a thread's start() or recovery remembers
    closing    \* stop_event

vars == <<state, proc, epoch, owner, child, bornFor, pc, mine, seen, closing>>

None == 0
Children == 1..MaxChildren
Threads == {"http", "watcher"}

Alive == {c \in Children : child[c] = "alive"}
\* _poll(self._process) is not None: the owned child has exited.
OwnedDead == proc # None /\ child[proc] = "dead"

Goto(t, place) == pc' = [pc EXCEPT ![t] = place]

(***************************************************************************)
(* start().  The first lock region launches the child; a thread that finds  *)
(* the browser ready, or already starting, returns or raises at once.       *)
(***************************************************************************)
\* The state property: a ready browser whose child has exited has failed.
Observed == IF state = "ready" /\ OwnedDead THEN "failed" ELSE state

\* Where a start() that raises, or that returns, leaves its thread.
Raised(t) == IF t = "http" THEN "idle" ELSE "raised"

Launch(t) ==
    /\ epoch' = epoch + 1
    /\ \/ \E c \in Children :
          /\ child[c] = "unborn"
          /\ \A d \in Children : d < c => child[d] # "unborn"
          /\ child' = [child EXCEPT ![c] = "alive"]
          /\ bornFor' = [bornFor EXCEPT ![c] = owner]
          /\ proc' = c
          /\ state' = "starting"
          /\ mine' = [mine EXCEPT ![t] = c]
          /\ seen' = [seen EXCEPT ![t] = epoch + 1]
          /\ Goto(t, "starting")
       \/ \* Popen raises
          /\ proc' = None
          /\ state' = "failed"
          /\ Goto(t, Raised(t))
          /\ UNCHANGED <<child, bornFor, mine, seen>>
    /\ UNCHANGED <<owner, closing>>

\* start() called over HTTP: state "ready" returns, "starting" raises.
HttpStart ==
    /\ pc["http"] = "idle"
    /\ \/ /\ Observed \in {"stopped", "failed"}
          /\ epoch < MaxEpoch
          /\ Launch("http")
       \/ /\ Observed \in {"ready", "starting"}
          /\ UNCHANGED vars

\* A start whose epoch or process was taken over by a stop or a recovery.
Cancelled(t) == seen[t] # epoch \/ proc # mine[t]

StartCancelled(t) ==
    /\ pc[t] \in {"starting", "answered"}
    /\ Cancelled(t)
    /\ Goto(t, Raised(t))
    /\ UNCHANGED <<state, proc, epoch, owner, child, bornFor, mine, seen, closing>>

\* "browser process exited during startup"
StartExited(t) ==
    /\ pc[t] = "starting"
    /\ ~Cancelled(t)
    /\ OwnedDead
    /\ state' = "failed"
    /\ Goto(t, Raised(t))
    /\ UNCHANGED <<proc, epoch, owner, child, bornFor, mine, seen, closing>>

\* The probe asks whatever Chromium answers on the port, outside the lock.
StartAnswered(t) ==
    /\ pc[t] = "starting"
    /\ Alive # {}
    /\ Goto(t, "answered")
    /\ UNCHANGED <<state, proc, epoch, owner, child, bornFor, mine, seen, closing>>

StartReady(t) ==
    /\ pc[t] = "answered"
    /\ ~Cancelled(t)
    /\ state' = "ready"
    /\ Goto(t, "idle")
    /\ UNCHANGED <<proc, epoch, owner, child, bornFor, mine, seen, closing>>

\* Defect: a start that times out leaves the state as it was.
TimeoutKeepingState(t) ==
    /\ pc[t] = "starting"
    /\ ~Cancelled(t)
    /\ child' = [child EXCEPT ![proc] = "dead"]
    /\ proc' = None
    /\ Goto(t, Raised(t))
    /\ UNCHANGED <<state, epoch, owner, bornFor, mine, seen, closing>>

\* "browser readiness timed out": the child is terminated under the lock.
StartTimeout(t) ==
    /\ pc[t] = "starting"
    /\ ~Cancelled(t)
    /\ child' = [child EXCEPT ![proc] = "dead"]
    /\ proc' = None
    /\ state' = "failed"
    /\ Goto(t, Raised(t))
    /\ UNCHANGED <<epoch, owner, bornFor, mine, seen, closing>>

(***************************************************************************)
(* stop(): cancels any start and keeps the lock until the child is dead.    *)
(***************************************************************************)
\* Defect: stop() starts the count of epochs again.
StopResettingEpoch ==
    /\ epoch' = 0
    /\ proc' = None
    /\ state' = "stopped"
    /\ child' = [c \in Children |-> IF c = proc THEN "dead" ELSE child[c]]
    /\ UNCHANGED <<owner, bornFor, mine, seen, pc>>

Stop ==
    /\ epoch' = epoch + 1
    /\ proc' = None
    /\ state' = "stopped"
    /\ child' = [c \in Children |-> IF c = proc THEN "dead" ELSE child[c]]
    /\ UNCHANGED <<owner, bornFor, mine, seen, pc>>

\* /browser/stop, and server_close at shutdown, hold the lifecycle gate.
HttpStop == pc["http"] = "idle" /\ epoch < MaxEpoch /\ Stop /\ UNCHANGED closing

\* run_browser_service's own last stop() does not take the lifecycle gate.
Shutdown == ~closing /\ closing' = TRUE /\ Stop

\* Defect: the binding changes whatever the browser is doing.
RebindAnyTime(o) ==
    /\ pc["http"] = "idle"
    /\ owner' = o
    /\ UNCHANGED <<state, proc, epoch, child, bornFor, pc, mine, seen, closing>>

\* A binding push: only a stopped browser is rebound.
HttpRebind(o) ==
    /\ pc["http"] = "idle"
    /\ Observed = "stopped"
    /\ owner' = o
    /\ UNCHANGED <<state, proc, epoch, child, bornFor, pc, mine, seen, closing>>

\* readiness and health read the state property, which records a crash.
HttpObserve ==
    /\ pc["http"] = "idle"
    /\ state' = Observed
    /\ UNCHANGED <<proc, epoch, owner, child, bornFor, pc, mine, seen, closing>>

(***************************************************************************)
(* watch() and recover_if_crashed().                                        *)
(***************************************************************************)
\* Defect: only a browser recorded as ready is watched.
WatchReadyOnly ==
    /\ pc["watcher"] = "idle"
    /\ ~closing
    /\ OwnedDead /\ state = "ready"
    /\ Goto("watcher", "crashed")
    /\ UNCHANGED <<state, proc, epoch, owner, child, bornFor, mine, seen, closing>>

WatchTick ==
    /\ pc["watcher"] = "idle"
    /\ ~closing
    /\ OwnedDead
    /\ Goto("watcher", "crashed")
    /\ UNCHANGED <<state, proc, epoch, owner, child, bornFor, mine, seen, closing>>

\* recover_if_crashed up to the release of the lock.
Recover ==
    /\ pc["watcher"] = "crashed"
    /\ \/ /\ OwnedDead
          /\ epoch' = epoch + 1
          /\ seen' = [seen EXCEPT !["watcher"] = epoch + 1]
          /\ proc' = None
          /\ state' = "failed"
          /\ Goto("watcher", "recovering")
       \/ /\ ~OwnedDead
          /\ Goto("watcher", "idle")
          /\ UNCHANGED <<epoch, seen, proc, state>>
    /\ UNCHANGED <<owner, child, bornFor, mine, closing>>

\* Defect: the recovery's start does not compare the epoch.
RecoveryStartAnyEpoch ==
    /\ pc["watcher"] = "recovering"
    /\ \/ Observed \in {"stopped", "failed"} /\ Launch("watcher")
       \/ /\ Observed \in {"ready", "starting"}
          /\ Goto("watcher", IF Observed = "ready" THEN "idle" ELSE "raised")
          /\ UNCHANGED <<state, proc, epoch, owner, child, bornFor, mine, seen, closing>>

\* start(_expected_epoch=...): cancelled when anybody stopped or started since.
RecoveryStart ==
    /\ pc["watcher"] = "recovering"
    /\ \/ /\ seen["watcher"] = epoch
          /\ Observed \in {"stopped", "failed"}
          /\ Launch("watcher")
       \/ /\ \/ seen["watcher"] # epoch
             \/ Observed \in {"ready", "starting"}
          /\ Goto("watcher",
                  IF seen["watcher"] = epoch /\ Observed = "ready" THEN "idle" ELSE "raised")
          /\ UNCHANGED <<state, proc, epoch, owner, child, bornFor, mine, seen, closing>>

\* watch() on a recovery that raised: anything but stopped becomes failed.
WatchFailed ==
    /\ pc["watcher"] = "raised"
    /\ state' = IF state # "stopped" THEN "failed" ELSE state
    /\ Goto("watcher", "idle")
    /\ UNCHANGED <<proc, epoch, owner, child, bornFor, mine, seen, closing>>

\* Chromium exits by itself.
ChildExits(c) ==
    /\ child[c] = "alive"
    /\ child' = [child EXCEPT ![c] = "dead"]
    /\ UNCHANGED <<state, proc, epoch, owner, bornFor, pc, mine, seen, closing>>

Init ==
    /\ state = "stopped"
    /\ proc = None
    /\ epoch = 0
    /\ owner \in Owners
    /\ child = [c \in Children |-> "unborn"]
    /\ bornFor = [c \in Children |-> owner]
    /\ pc = [t \in Threads |-> "idle"]
    /\ mine = [t \in Threads |-> None]
    /\ seen = [t \in Threads |-> 0]
    /\ closing = FALSE

StartStep(t) == \/ StartCancelled(t) \/ StartExited(t) \/ StartAnswered(t)
                \/ StartReady(t) \/ StartTimeout(t)

WatcherStep == \/ WatchTick \/ Recover \/ RecoveryStart \/ WatchFailed
               \/ StartStep("watcher")

Next ==
    \/ HttpStart \/ HttpStop \/ HttpObserve
    \/ \E o \in Owners : HttpRebind(o)
    \/ StartStep("http")
    \/ WatcherStep
    \/ Shutdown
    \/ \E c \in Children : ChildExits(c)

Spec == Init /\ [][Next]_vars

\* Both threads keep running: a handler inside start() has a deadline, and the
\* watcher wakes every interval.
FairSpec == Spec /\ WF_vars(StartStep("http")) /\ WF_vars(WatcherStep)

-----------------------------------------------------------------------------
(***************************************************************************)
(* Properties.                                                              *)
(***************************************************************************)
States == {"stopped", "starting", "ready", "failed"}
Places == {"idle", "starting", "answered", "crashed", "recovering", "raised"}

(* Every variable keeps its type; in particular _process is None or one of  *)
(* the children, and no epoch is remembered that was never reached.         *)
TypeOK ==
    /\ state \in States
    /\ proc \in Children \cup {None}
    /\ epoch \in Nat
    /\ owner \in Owners
    /\ child \in [Children -> {"unborn", "alive", "dead"}]
    /\ bornFor \in [Children -> Owners]
    /\ pc \in [Threads -> Places]
    /\ mine \in [Threads -> Children \cup {None}]
    /\ seen \in [Threads -> 0..epoch]
    /\ closing \in BOOLEAN

(* A browser reported ready runs the child launched for the binding now in  *)
(* force: rebind, stop, the watcher's recovery and a start still waiting    *)
(* for Chromium never combine into a ready browser of another owner.        *)
ReadyServesOwner ==
    state = "ready" => proc # None /\ bornFor[proc] = owner

(* Once stop() has returned, only a new request to start leaves "stopped":  *)
(* neither a start that was waiting, nor a recovery between its two lock    *)
(* regions, nor the failure handler of watch() brings the browser back.     *)
StoppedStaysStopped ==
    [][state = "stopped" /\ state' # "stopped" => HttpStart]_vars

(* A crash of the owned child does not stay unnoticed: it is recovered,     *)
(* stopped or replaced, unless the service is shutting down.                *)
CrashIsHandled == OwnedDead ~> (~OwnedDead \/ closing)

(* A browser does not stay "starting", where every further start is refused *)
(* ("browser is already starting").                                         *)
StartingEnds == (state = "starting") ~> (state # "starting")

(* The comment in stop(): "A concurrent start must not launch a new         *)
(* browser/profile while the old child still owns the profile and           *)
(* endpoint."                                                               *)
OneLiveChild == Cardinality(Alive) <= 1

=============================================================================
