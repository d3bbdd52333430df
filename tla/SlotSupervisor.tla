--------------------------- MODULE SlotSupervisor ---------------------------
(***************************************************************************)
(* The slot supervisor of one slot (router/control_api.py over              *)
(* browser_slots/supervisor.py, lifecycle.py and http_transport.py) and the *)
(* browser service it commands over HTTP (browser_server.py).               *)
(*                                                                         *)
(* ControlApi.handle runs in a thread of its own for each request.  Every   *)
(* SlotSupervisor operation holds the re-entrant gate from its first line   *)
(* to its last, but a wake under a new binding takes it twice: once to      *)
(* adopt the binding and once to wake.  Inside the gate each call to the    *)
(* browser service is a step of its own: it may be answered, be lost before *)
(* it arrives, or outlast the client's timeout and be carried out later,    *)
(* when the thread has long gone on.                                        *)
(*                                                                         *)
(* The transport's expected owner changes only together with the binding of *)
(* the lifecycle, so `bound` stands for both.  The boot binding is also the *)
(* one ControlApi keeps for suspend, stop and recreate.  Page URLs (what    *)
(* suspend captures and wake restores) are left out: listing and restoring  *)
(* them succeeds or fails.                                                  *)
(***************************************************************************)
EXTENDS Naturals

CONSTANTS
    Bindings,     \* owner bindings of this slot that the router may mint
    Boot,         \* the binding both services are configured with
    Threads,      \* handler threads of the control server
    MaxFaults     \* bound of the model: lost or late calls and restarts

ASSUME SupervisorAssumption ==
    /\ Boot \in Bindings
    /\ MaxFaults \in Nat
    /\ "free" \notin Threads

VARIABLES
    life,       \* OwnerBoundLifecycle._state (FAILED is never assigned)
    bound,      \* OwnerBoundLifecycle._binding
    held,       \* the thread in SlotSupervisor._lifecycle_gate, or "free"
    pc,         \* where each handler thread is
    op,         \* the control operation each thread carries out
    req,        \* the binding it carries it out for
    chrome,     \* browser service: state of its Chromium
    chromeFor,  \* browser service: the binding it was last pushed
    late,       \* calls still to be carried out whose client has given up
    faults      \* how often the environment misbehaved

supervisor == <<life, bound, held, pc, op, req>>
browser == <<chrome, chromeFor>>
vars == <<supervisor, browser, late, faults>>

\* What the supervisor may ask of the browser service; only a push carries a
\* binding.
StartCall == [do |-> "start", for |-> Boot]
StopCall == [do |-> "stop", for |-> Boot]
Push(b) == [do |-> "push", for |-> b]
Calls == {StartCall, StopCall} \cup {Push(b) : b \in Bindings}

(***************************************************************************)
(* The browser service.  Handlers run one at a time under its own gate.     *)
(***************************************************************************)
\* What carrying out a call does, and whether it is acknowledged.
Carry(call, ok) ==
    \/ /\ call.do = "start"
       /\ \/ chrome' = "ready" /\ ok
          \/ chrome # "ready" /\ chrome' = "failed" /\ ~ok
       /\ UNCHANGED chromeFor
    \/ /\ call.do = "stop"
       /\ chrome' = "stopped" /\ ok
       /\ UNCHANGED chromeFor
    \/ /\ call.do = "push"
       /\ IF chrome = "stopped"
          THEN chromeFor' = call.for /\ ok
          ELSE UNCHANGED chromeFor /\ ~ok
       /\ UNCHANGED chrome

\* A call as its client sees it: ok is the acknowledgement.
Call(call, ok) ==
    \/ Carry(call, ok) /\ UNCHANGED <<late, faults>>
    \/ /\ faults < MaxFaults /\ ~ok
       /\ faults' = faults + 1
       /\ \/ UNCHANGED late                               \* never arrives
          \/ late' = [late EXCEPT ![call] = @ + 1]        \* times out first
       /\ UNCHANGED browser

LateCall(call) ==
    /\ late[call] > 0
    /\ late' = [late EXCEPT ![call] = @ - 1]
    /\ \E ok \in BOOLEAN : Carry(call, ok)
    /\ UNCHANGED <<supervisor, faults>>

\* Defect: readiness does not compare the owner.
ReadyAnyOwner(ok) ==
    /\ \/ ok /\ chrome = "ready" /\ UNCHANGED faults
       \/ ~ok /\ chrome # "ready" /\ UNCHANGED faults
       \/ ~ok /\ faults < MaxFaults /\ faults' = faults + 1
    /\ UNCHANGED <<browser, late>>

\* GET /browser/readiness: only a ready Chromium of the expected owner passes;
\* everything else reaches the supervisor as an exception.
Ready(ok) ==
    /\ \/ ok /\ chrome = "ready" /\ chromeFor = bound /\ UNCHANGED faults
       \/ ~ok /\ ~(chrome = "ready" /\ chromeFor = bound) /\ UNCHANGED faults
       \/ ~ok /\ faults < MaxFaults /\ faults' = faults + 1
    /\ UNCHANGED <<browser, late>>

\* Chromium exits, or the watcher of the browser service starts it again.
ChromeFails ==
    /\ chrome = "ready" /\ chrome' = "failed"
    /\ UNCHANGED <<supervisor, chromeFor, late, faults>>

ChromeRecovers ==
    /\ chrome = "failed" /\ chrome' = "ready"
    /\ UNCHANGED <<supervisor, chromeFor, late, faults>>

BrowserRestarts ==
    /\ faults < MaxFaults /\ faults' = faults + 1
    /\ chrome' = "stopped"
    /\ chromeFor' = Boot
    /\ late' = [call \in Calls |-> 0]
    /\ UNCHANGED supervisor

(***************************************************************************)
(* Control flow of a handler thread.                                        *)
(***************************************************************************)
Goto(t, place) == pc' = [pc EXCEPT ![t] = place]

\* Enter the gate and go on; leave it, ending the request or wanting it again.
Enter(t, place) == held = "free" /\ held' = t /\ Goto(t, place)
Leave(t, place) == held' = "free" /\ Goto(t, place)
Within(t, place) == pc[t] = place

\* ControlApi.handle reads the current binding without the gate.
HandleWake(t, b) ==
    /\ pc[t] = "idle"
    /\ op' = [op EXCEPT ![t] = "wake"]
    /\ req' = [req EXCEPT ![t] = b]
    /\ Goto(t, IF b # bound THEN "adopt" ELSE "wake")
    /\ UNCHANGED <<life, bound, held, browser, late, faults>>

\* suspend, stop and recreate are carried out for the boot binding.
HandleOther(t, operation) ==
    /\ pc[t] = "idle"
    /\ op' = [op EXCEPT ![t] = operation]
    /\ req' = [req EXCEPT ![t] = Boot]
    /\ Goto(t, "check")
    /\ UNCHANGED <<life, bound, held, browser, late, faults>>

(***************************************************************************)
(* adopt_binding: stop what runs, push the binding, adopt it.               *)
(***************************************************************************)
AdoptEnter(t) ==
    /\ Within(t, "adopt")
    /\ Enter(t, IF life # "stopped" THEN "adopt_stop" ELSE "adopt_push")
    /\ UNCHANGED <<life, bound, op, req, browser, late, faults>>

\* Defect: the lifecycle is stopped before the browser.
AdoptStopLifecycleFirst(t) ==
    /\ Within(t, "adopt_stop")
    /\ \E ok \in BOOLEAN :
        /\ Call(StopCall, ok)
        /\ life' = "stopped"
        /\ IF ok THEN Goto(t, "adopt_push") /\ UNCHANGED held ELSE Leave(t, "idle")
    /\ UNCHANGED <<bound, op, req>>

AdoptStop(t) ==
    /\ Within(t, "adopt_stop")
    /\ \E ok \in BOOLEAN :
        /\ Call(StopCall, ok)
        /\ IF ok
           THEN life' = "stopped" /\ Goto(t, "adopt_push") /\ UNCHANGED held
           ELSE UNCHANGED life /\ Leave(t, "idle")
    /\ UNCHANGED <<bound, op, req>>

AdoptPush(t) ==
    /\ Within(t, "adopt_push")
    /\ \E ok \in BOOLEAN :
        /\ Call(Push(req[t]), ok)
        /\ IF ok
           THEN bound' = req[t] /\ Leave(t, "wake")
           ELSE UNCHANGED bound /\ Leave(t, "idle")
    /\ UNCHANGED <<life, op, req>>

(***************************************************************************)
(* wake.                                                                    *)
(***************************************************************************)
\* The first lines of wake, inside the gate: a ready browser of this binding
\* is only looked at, and the lifecycle starts from stopped or suspended.
BeginWake(t) ==
    \/ /\ life = "ready" /\ bound = req[t]
       /\ Goto(t, "recheck")
       /\ held' = t
       /\ UNCHANGED life
    \/ /\ bound = req[t] /\ life \in {"stopped", "suspended"}
       /\ life' = "starting"
       /\ Goto(t, "start")
       /\ held' = t
    \/ /\ bound # req[t] \/ life = "starting"
       /\ Leave(t, "idle")
       /\ UNCHANGED life

\* Defect: wake does not take the gate.
WakeEnterUngated(t) ==
    /\ Within(t, "wake")
    /\ BeginWake(t)
    /\ UNCHANGED <<bound, op, req, browser, late, faults>>

WakeEnter(t) ==
    /\ Within(t, "wake")
    /\ held = "free"
    /\ BeginWake(t)
    /\ UNCHANGED <<bound, op, req, browser, late, faults>>

\* A re-wake of a ready browser ends here whatever it finds.
Recheck(t) ==
    /\ Within(t, "recheck")
    /\ \E ok \in BOOLEAN : Ready(ok)
    /\ Leave(t, "idle")
    /\ UNCHANGED <<life, bound, op, req>>

WakeStart(t) ==
    /\ Within(t, "start")
    /\ \E ok \in BOOLEAN :
        /\ Call(StartCall, ok)
        /\ Goto(t, IF ok THEN "await" ELSE "cleanup")
    /\ UNCHANGED <<life, bound, held, op, req>>

\* Defect: readiness is asked for again and again, without a deadline.
AwaitForever(t) ==
    /\ Within(t, "await")
    /\ \E ok \in BOOLEAN :
        /\ Ready(ok)
        /\ IF ok
           THEN life' = "ready" /\ Goto(t, "restore")
           ELSE UNCHANGED life /\ Goto(t, "await")
    /\ UNCHANGED <<bound, held, op, req>>

\* _wait_ready, then mark_ready.
WakeAwait(t) ==
    /\ Within(t, "await")
    /\ \E ok \in BOOLEAN :
        /\ Ready(ok)
        /\ IF ok
           THEN life' = "ready" /\ Goto(t, "restore")
           ELSE UNCHANGED life /\ Goto(t, "cleanup")
    /\ UNCHANGED <<bound, held, op, req>>

\* Restoring the tabs: one failing call is enough to give the wake up.
WakeRestore(t) ==
    /\ Within(t, "restore")
    /\ \/ chrome = "ready" /\ Leave(t, "idle") /\ UNCHANGED faults
       \/ chrome # "ready" /\ Goto(t, "cleanup") /\ UNCHANGED <<held, faults>>
       \/ /\ faults < MaxFaults /\ faults' = faults + 1
          /\ Goto(t, "cleanup") /\ UNCHANGED held
    /\ UNCHANGED <<life, bound, op, req, browser, late>>

\* Defect: a stop that fails also keeps the lifecycle from being stopped.
CleanupWithoutFinally(t) ==
    /\ Within(t, "cleanup")
    /\ \E ok \in BOOLEAN :
        /\ Call(StopCall, ok)
        /\ life' = IF ok THEN "stopped" ELSE life
    /\ Leave(t, "idle")
    /\ UNCHANGED <<bound, op, req>>

\* _safe_stop: the lifecycle is stopped whether or not the browser was.
WakeCleanup(t) ==
    /\ Within(t, "cleanup")
    /\ \E ok \in BOOLEAN : Call(StopCall, ok)
    /\ life' = "stopped"
    /\ Leave(t, "idle")
    /\ UNCHANGED <<bound, op, req>>

(***************************************************************************)
(* suspend, stop and recreate.                                              *)
(***************************************************************************)
\* _require_transport_owner; suspend also records the tabs, while ready.
CheckOwner(t) ==
    /\ Within(t, "check")
    /\ held = "free"
    /\ \E ok \in BOOLEAN :
        /\ Ready(ok)
        /\ IF ok /\ bound = req[t] /\ (op[t] = "suspend" => life = "ready")
           THEN held' = t /\ Goto(t, "halt")
           ELSE Leave(t, "idle")
    /\ UNCHANGED <<life, bound, op, req>>

\* The stop itself, and for recreate the beginning of the wake.
Halt(t) ==
    /\ Within(t, "halt")
    /\ \E ok \in BOOLEAN :
        /\ Call(StopCall, ok)
        /\ \/ ~ok /\ Leave(t, "idle") /\ UNCHANGED life
           \/ ok /\ op[t] = "suspend" /\ life' = "suspended" /\ Leave(t, "idle")
           \/ ok /\ op[t] = "stop" /\ life' = "stopped" /\ Leave(t, "idle")
           \/ /\ ok /\ op[t] = "recreate"
              /\ life' = "starting"
              /\ Goto(t, "start") /\ UNCHANGED held
    /\ UNCHANGED <<bound, op, req>>

\* The container of the supervisor is restarted; nothing of it is persisted.
SupervisorRestarts ==
    /\ faults < MaxFaults /\ faults' = faults + 1
    /\ life' = "stopped"
    /\ bound' = Boot
    /\ held' = "free"
    /\ pc' = [t \in Threads |-> "idle"]
    /\ UNCHANGED <<op, req, browser, late>>

Init ==
    /\ life = "stopped" /\ bound = Boot
    /\ held = "free"
    /\ pc = [t \in Threads |-> "idle"]
    /\ op = [t \in Threads |-> "wake"]
    /\ req = [t \in Threads |-> Boot]
    /\ chrome = "stopped" /\ chromeFor = Boot
    /\ late = [call \in Calls |-> 0]
    /\ faults = 0

Step(t) == \/ AdoptEnter(t) \/ AdoptStop(t) \/ AdoptPush(t)
           \/ WakeEnter(t) \/ Recheck(t) \/ WakeStart(t) \/ WakeAwait(t)
           \/ WakeRestore(t) \/ WakeCleanup(t)
           \/ CheckOwner(t) \/ Halt(t)

Request(t) == \/ \E b \in Bindings : HandleWake(t, b)
              \/ \E o \in {"suspend", "stop", "recreate"} : HandleOther(t, o)

Next ==
    \/ \E t \in Threads : Request(t) \/ Step(t)
    \/ ChromeFails \/ ChromeRecovers \/ BrowserRestarts \/ SupervisorRestarts
    \/ \E call \in Calls : LateCall(call)

Spec == Init /\ [][Next]_vars

\* A thread that may go on does: each call has the client's timeout and
\* _wait_ready its deadline.
FairSpec == Spec /\ \A t \in Threads : WF_vars(Step(t))

-----------------------------------------------------------------------------
(***************************************************************************)
(* Properties.                                                              *)
(***************************************************************************)
Unlocked == {"idle", "adopt", "wake", "check"}
Locked == {"adopt_stop", "adopt_push", "recheck", "start", "await", "restore",
           "cleanup", "halt"}

(* Every variable keeps its type, and a thread is past the gate exactly     *)
(* when it holds it.                                                        *)
TypeOK ==
    /\ life \in {"stopped", "starting", "ready", "suspended"}
    /\ bound \in Bindings
    /\ held \in Threads \cup {"free"}
    /\ pc \in [Threads -> Unlocked \cup Locked]
    /\ \A t \in Threads : pc[t] \in Locked <=> held = t
    /\ op \in [Threads -> {"wake", "suspend", "stop", "recreate"}]
    /\ req \in [Threads -> Bindings]
    /\ chrome \in {"stopped", "ready", "failed"}
    /\ chromeFor \in Bindings
    /\ late \in [Calls -> 0..MaxFaults]
    /\ faults \in 0..MaxFaults

(* A wake that gives up, at whatever call, never leaves the lifecycle       *)
(* "starting", from which no later wake could start it.                     *)
NoAbandonedStart ==
    life = "starting" => \E t \in Threads : pc[t] \in {"start", "await", "cleanup"}

(* A lifecycle that says "ready" and a Chromium that runs agree on the      *)
(* owner.  One or two lost calls, late calls or restarts never part them;   *)
(* with three (a stop, a push and a start, all carried out late, after a    *)
(* wake has succeeded) they do, and the next readiness check refuses.       *)
ReadyOwner ==
    life = "ready" /\ chrome = "ready" /\ faults < 3 => chromeFor = bound

(* The comment in adopt_binding: "stop the browser first, then the          *)
(* lifecycle, so a refused stop leaves the previous owner untouched."  A    *)
(* request for another binding changes the lifecycle or its owner only in a *)
(* step that leaves Chromium stopped.                                       *)
TakeoverStopsFirst ==
    [][\A t \in Threads :
         /\ held = t /\ req[t] # bound
         /\ life' # life \/ bound' # bound
         => chrome' = "stopped" \/ SupervisorRestarts]_vars

(* Whatever fails, a request that entered the gate leaves it again.         *)
GateIsReleased == (held # "free") ~> (held = "free")

(* The docstring of wake(): "a re-wake of the same binding converges to     *)
(* ready without restarting, so router retries and activate-after-wake      *)
(* never bounce a live session."  No wake stops the ready browser of the    *)
(* very binding it was asked to wake.                                       *)
NeverBounced ==
    [][\A t \in Threads :
         pc[t] = "adopt_stop" /\ life = "ready" /\ life' = "stopped"
           => req[t] # bound]_vars

=============================================================================
