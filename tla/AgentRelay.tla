----------------------------- MODULE AgentRelay -----------------------------
(***************************************************************************)
(* The router's handlers that work on a browser outside the session store's *)
(* lock (router/router_api.py over supervisor_client.py and                 *)
(* agent_control_forwarder.py), and the agent control service of each slot  *)
(* that they relay page actions to (agent_control.py, agent_browser_http.py *)
(* and the /agent paths of browser_slots/browser_server.py).                *)
(*                                                                         *)
(* Both kinds of call read the caller's session, then spend up to 30        *)
(* seconds with other services while the table of sessions, the browser     *)
(* and the agent's lease move on.  The store is SlotLeases, which           *)
(* RouterSessions implements; the slot supervisor is reduced to its two     *)
(* gate sections (SlotSupervisor has the steps inside them).  The binding   *)
(* of a session on a slot is a function of both, so within one slot the     *)
(* session stands for it; a tab is named by the run of the browser it       *)
(* belongs to, since Chromium never uses a target id twice.                 *)
(***************************************************************************)
EXTENDS SlotLeases, Naturals

CONSTANTS
    Boot,        \* the binding every service of a slot is configured with
    Owner,       \* the principal of each binding
    Calls,       \* requests the router can be working on at a time
    MaxRuns      \* bound of the model: how often a browser is started

Bindings == Sessions \cup {Boot}

ASSUME RelayAssumption ==
    /\ Boot \notin Sessions
    /\ NoSlot \notin Slots
    /\ MaxRuns \in Nat

VARIABLES
    browser,     \* by slot: the binding pushed, the state, the run
    agent,       \* by slot: agent control's lease and its transport's expectation
    call         \* by call: what the router asked for and how far it has got

vars == <<lease, browser, agent, call>>

Browser == [for : Bindings, state : {"stopped", "ready", "failed"}, run : 0..MaxRuns]
Agent == [lease : Bindings, owner : {Owner[b] : b \in Bindings}, generation : Bindings]

\* Where a call is: with the router, the supervisor or agent control.
Resting == {"idle", "ok", "failed"}
WithSupervisor == {"adopt", "start"}
WithAgent == {"post", "handle", "ask", "match", "own", "act", "ask again",
              "match again", "own again", "rotate", "owner", "generation", "repost"}
Places == Resting \cup WithSupervisor \cup WithAgent \cup {"woken"}

Call == [kind : {"activate", "page", "list"},
         session : Sessions,
         slot : Slots,
         tab : 0..MaxRuns,          \* params["target_tab_id"]
         home : BOOLEAN,            \* which the session's own browser showed
         seen : Bindings,           \* whom the browser last said it runs for
         at : Places,
         acted : BOOLEAN,           \* the page action has been dispatched
         gone : BOOLEAN,            \* the router has given up waiting
         steady : BOOLEAN,          \* the lease has not left its session since
         alone : BOOLEAN]           \* nothing else has touched what it uses

\* What agent control is started with.
Configured == [lease |-> Boot, owner |-> Owner[Boot], generation |-> Boot]

Idle(i, s) == [kind |-> "list", session |-> i, slot |-> s, tab |-> 0,
               home |-> FALSE, seen |-> Boot, at |-> "idle", acted |-> FALSE,
               gone |-> FALSE, steady |-> FALSE, alone |-> FALSE]

Serves(s, i) == browser[s].for = i /\ browser[s].state = "ready"

\* No rotation is under way, and the transport expects what the lease says.
Settled(s) ==
    /\ \A c \in Calls : call[c].slot = s =>
                            call[c].at \notin {"rotate", "owner", "generation"}
    /\ agent[s].owner = Owner[agent[s].lease]
    /\ agent[s].generation = agent[s].lease

(***************************************************************************)
(* Bookkeeping: a call moves on; the calls that used what this step changes *)
(* are no longer alone.                                                     *)
(***************************************************************************)
\* The browser's last answer is dropped once it has been compared, and of a
\* call that has ended only what its caller learns is kept.
Moved(c, place) ==
    IF place \in Resting
    THEN [Idle(call[c].session, call[c].slot) EXCEPT
            !.kind = call[c].kind, !.at = place, !.alone = call[c].alone]
    ELSE [call[c] EXCEPT !.at = place,
                         !.seen = IF place \in {"own", "own again"} THEN @ ELSE Boot]

\* c becomes r, and no other call on its slot is alone any longer.
Disturbing(c, r) ==
    call' = [d \in Calls |->
               IF d = c THEN r
               ELSE [call[d] EXCEPT !.alone = @ /\ call[d].slot # call[c].slot]]

\* The same, and the agent's lease is taken from other sessions' calls.
Unsteadying(c, r) ==
    call' = [d \in Calls |->
               IF d = c THEN r
               ELSE [call[d] EXCEPT
                       !.alone = @ /\ call[d].slot # call[c].slot,
                       !.steady = @ /\ (call[d].slot = call[c].slot
                                          => call[d].session = call[c].session)]]

Quietly(c, r) == call' = [call EXCEPT ![c] = r]

\* The call fails for a reason outside the router: it was not alone.
Broken(c) == [Moved(c, "failed") EXCEPT !.alone = FALSE]

(***************************************************************************)
(* activate_session: read the session, wake its slot, activate it by id.    *)
(***************************************************************************)
\* Defect: any session of the caller will do.
BeginActivateAny(c, i) ==
    /\ call[c].at \in Resting
    /\ Quietly(c, [Idle(i, lease[i].slot) EXCEPT !.kind = "activate", !.at = "adopt",
                                                 !.alone = TRUE])
    /\ UNCHANGED <<lease, browser, agent>>

BeginActivate(c, i) ==
    /\ call[c].at \in Resting
    /\ lease[i].status \in {"OFFERED", "ACTIVE"}
    /\ Quietly(c, [Idle(i, lease[i].slot) EXCEPT !.kind = "activate", !.at = "adopt",
                                                 !.alone = TRUE])
    /\ UNCHANGED <<lease, browser, agent>>

\* Defect: a wake of a running browser returns before it compares the binding.
AdoptUnlessRunning(c) ==
    LET s == call[c].slot
        i == call[c].session
    IN  /\ call[c].at = "adopt"
        /\ \/ /\ browser[s].state = "ready"
              /\ Quietly(c, Moved(c, "woken"))
              /\ UNCHANGED browser
           \/ /\ browser[s].state # "ready"
              /\ browser' = [browser EXCEPT ![s].for = i, ![s].state = "stopped"]
              /\ Disturbing(c, Moved(c, "start"))
        /\ UNCHANGED <<lease, agent>>

\* First gate section of a wake: stop what runs for another binding and push
\* this one; either call to the browser service may fail.
Adopt(c) ==
    LET s == call[c].slot
        i == call[c].session
    IN  /\ call[c].at = "adopt"
        /\ \/ /\ browser[s].for = i
              /\ Quietly(c, Moved(c, "start"))
              /\ UNCHANGED browser
           \/ /\ browser[s].for # i
              /\ browser' = [browser EXCEPT ![s].for = i, ![s].state = "stopped"]
              /\ Disturbing(c, Moved(c, "start"))
           \/ /\ browser[s].for # i
              /\ browser' \in {browser, [browser EXCEPT ![s].state = "stopped"]}
              /\ Disturbing(c, Broken(c))
        /\ UNCHANGED <<lease, agent>>

Started(s) == browser[s].run < MaxRuns
              /\ browser' = [browser EXCEPT ![s].state = "ready", ![s].run = @ + 1]

\* Second gate section: refused when another binding was adopted in between;
\* a running browser is only looked at, and a failed start is stopped again.
Start(c) ==
    LET s == call[c].slot
        i == call[c].session
    IN  /\ call[c].at = "start"
        /\ \/ /\ browser[s].for # i
              /\ Quietly(c, Moved(c, "failed"))
              /\ UNCHANGED browser
           \/ /\ Serves(s, i)
              /\ Quietly(c, Moved(c, "woken"))
              /\ UNCHANGED browser
           \/ /\ browser[s].for = i /\ browser[s].state = "failed"
              /\ Quietly(c, Broken(c))
              /\ UNCHANGED browser
           \/ /\ browser[s].for = i /\ browser[s].state = "stopped"
              /\ Started(s)
              /\ Disturbing(c, Moved(c, "woken"))
           \/ /\ browser[s].for = i /\ browser[s].state = "stopped"
              /\ Quietly(c, Broken(c))
              /\ UNCHANGED browser
        /\ UNCHANGED <<lease, agent>>

\* store.activate: an active session stays as it is, another must be offered.
Woken(c) ==
    LET i == call[c].session
    IN  /\ call[c].at = "woken"
        /\ \/ /\ ~call[c].gone /\ Activate(i)
              /\ Quietly(c, Moved(c, "ok"))
           \/ /\ ~call[c].gone /\ lease[i].status = "ACTIVE"
              /\ Quietly(c, Moved(c, "ok"))
              /\ UNCHANGED lease
           \/ /\ call[c].gone \/ lease[i].status \notin {"OFFERED", "ACTIVE"}
              /\ Quietly(c, Moved(c, "failed"))
              /\ UNCHANGED lease
        /\ UNCHANGED <<browser, agent>>

(***************************************************************************)
(* agent_action and AgentControlForwarder.forward: post the action under    *)
(* the session's binding, and after a 401 rotate the agent's lease to it    *)
(* and post once more.  The caller names any tab that exists by then.       *)
(***************************************************************************)
BeginRelay(c, i, kind, tab) ==
    LET s == lease[i].slot
    IN  /\ call[c].at \in Resting
        /\ lease[i].status = "ACTIVE"
        /\ tab <= browser[s].run
        /\ Quietly(c, [Idle(i, s) EXCEPT
                         !.kind = kind, !.tab = tab, !.at = "post",
                         !.home = Serves(s, i) /\ tab = browser[s].run,
                         !.alone = /\ Serves(s, i) /\ Settled(s)
                                   /\ kind = "page" => tab = browser[s].run])
        /\ UNCHANGED <<lease, browser, agent>>

\* do_POST compares the binding headers with the lease.
Post(c) ==
    /\ call[c].at \in {"post", "repost"}
    /\ \/ /\ agent[call[c].slot].lease = call[c].session
          /\ Quietly(c, Moved(c, "handle"))
       \/ /\ agent[call[c].slot].lease # call[c].session
          /\ Quietly(c, Moved(c, IF call[c].at = "post" /\ ~call[c].gone
                                 THEN "rotate" ELSE "failed"))
    /\ UNCHANGED <<lease, browser, agent>>

\* handle compares them once more, under the lock again.
Handle(c) ==
    /\ call[c].at = "handle"
    /\ \/ /\ agent[call[c].slot].lease = call[c].session
          /\ Quietly(c, [Moved(c, "ask") EXCEPT !.steady = TRUE])
       \/ /\ agent[call[c].slot].lease # call[c].session
          /\ Quietly(c, Moved(c, "failed"))
    /\ UNCHANGED <<lease, browser, agent>>

\* GET /agent/readiness: a browser that is not ready, or an answer that does
\* not arrive, raises.
Ask(c, place, next) ==
    /\ call[c].at = place
    /\ LET s == call[c].slot
       IN  \/ /\ browser[s].state = "ready"
              /\ Quietly(c, [Moved(c, next) EXCEPT !.seen = browser[s].for])
           \/ Quietly(c, Broken(c))
    /\ UNCHANGED <<lease, browser, agent>>

\* The transport raises unless the answer is from the owner and generation it
\* expects; the expectation is read when the answer is there, without a lock.
Match(c, place, next) ==
    LET ours == agent[call[c].slot]
        seen == call[c].seen
    IN  /\ call[c].at = place
        /\ Quietly(c, Moved(c, IF ours.owner = Owner[seen] /\ ours.generation = seen
                               THEN next ELSE "failed"))
        /\ UNCHANGED <<lease, browser, agent>>

\* _matches compares it with the lease, also read anew and without the lock;
\* the first time the action follows, the second time the answer.
Own(c, place, next) ==
    /\ call[c].at = place
    /\ Quietly(c, Moved(c, IF agent[call[c].slot].lease = call[c].seen
                           THEN next ELSE "failed"))
    /\ UNCHANGED <<lease, browser, agent>>

OwnAgain(c) == Own(c, "own again", IF call[c].gone THEN "failed" ELSE "ok")

\* Defect: an action falls on whatever page the browser shows.
ActOnAnyPage(c) ==
    /\ call[c].at = "act"
    /\ browser[call[c].slot].state = "ready"
    /\ Quietly(c, [Moved(c, "ask again") EXCEPT !.acted = TRUE])
    /\ UNCHANGED <<lease, browser, agent>>

\* The browser lists its tabs, or has a tab of that name, for whoever asks: the
\* /agent paths carry no binding.
Found(c) ==
    LET there == browser[call[c].slot]
    IN  there.state = "ready" /\ (call[c].kind = "page" => call[c].tab = there.run)

\* Defect: an action whose answer does not arrive is sent again.
ActUntilAnswered(c) ==
    /\ call[c].at = "act"
    /\ Found(c)
    /\ \E place \in {"act", "ask again"} :
          Quietly(c, [Moved(c, place) EXCEPT !.acted = TRUE])
    /\ UNCHANGED <<lease, browser, agent>>

\* The action is carried out there; the page may not have what it names, and
\* DevTools may not answer although it has carried it out.
Act(c) ==
    /\ call[c].at = "act"
    /\ \/ /\ Found(c)
          /\ Quietly(c, [Moved(c, "ask again") EXCEPT !.acted = TRUE])
       \/ /\ Found(c)
          /\ \E done \in BOOLEAN : Quietly(c, [Broken(c) EXCEPT !.acted = done])
       \/ /\ ~Found(c)
          /\ Quietly(c, Moved(c, "failed"))
    /\ UNCHANGED <<lease, browser, agent>>

(***************************************************************************)
(* POST /agent-control/lease: rotate_lease sets the lease under its lock    *)
(* and tells the transport afterwards, owner first, then generation.        *)
(***************************************************************************)
\* Defect: the transport keeps expecting whom it expected.
RotateLeaseOnly(c) ==
    /\ call[c].at = "rotate"
    /\ agent' = [agent EXCEPT ![call[c].slot].lease = call[c].session]
    /\ Unsteadying(c, Moved(c, IF call[c].gone THEN "failed" ELSE "repost"))
    /\ UNCHANGED <<lease, browser>>

Rotate(c) ==
    /\ call[c].at = "rotate"
    /\ agent' = [agent EXCEPT ![call[c].slot].lease = call[c].session]
    /\ Unsteadying(c, Moved(c, "owner"))
    /\ UNCHANGED <<lease, browser>>

RotateOwner(c) ==
    /\ call[c].at = "owner"
    /\ agent' = [agent EXCEPT ![call[c].slot].owner = Owner[call[c].session]]
    /\ Disturbing(c, Moved(c, "generation"))
    /\ UNCHANGED <<lease, browser>>

RotateGeneration(c) ==
    /\ call[c].at = "generation"
    /\ agent' = [agent EXCEPT ![call[c].slot].generation = call[c].session]
    /\ Disturbing(c, Moved(c, IF call[c].gone THEN "failed" ELSE "repost"))
    /\ UNCHANGED <<lease, browser>>

(***************************************************************************)
(* The environment.                                                         *)
(***************************************************************************)
\* A request that never reaches the other service.
Lost(c) ==
    /\ call[c].at \in {"adopt", "post", "rotate", "repost"}
    /\ Quietly(c, Broken(c))
    /\ UNCHANGED <<lease, browser, agent>>

\* The router's timeout: the caller is told of a failure, and the other
\* service goes on with what it was asked.
GiveUp(c) ==
    /\ call[c].at \in WithSupervisor \cup WithAgent
    /\ ~call[c].gone
    /\ Quietly(c, [call[c] EXCEPT !.gone = TRUE, !.alone = FALSE])
    /\ UNCHANGED <<lease, browser, agent>>

\* Every other step of the session store; what a call read is stale when the
\* session it read has changed.
StoreStep ==
    /\ Rearrange
    /\ lease' # lease
    /\ call' = [c \in Calls |->
                  [call[c] EXCEPT !.alone = @ /\ lease'[call[c].session]
                                                   = lease[call[c].session]]]
    /\ UNCHANGED <<browser, agent>>

BrowserStep(s) ==
    /\ \/ /\ browser[s].state = "ready"
          /\ browser' = [browser EXCEPT ![s].state = "failed"]
       \/ browser[s].state = "failed" /\ Started(s)
       \/ browser[s].for = Boot /\ browser[s].state = "stopped" /\ Started(s)
       \/ /\ browser[s].for = Boot /\ browser[s].state = "ready"
          /\ browser' = [browser EXCEPT ![s].state = "stopped"]
       \/ \* slot_command's wake, and a browser service that restarts
          /\ browser[s] # [browser[s] EXCEPT !.for = Boot, !.state = "stopped"]
          /\ browser' = [browser EXCEPT ![s].for = Boot, ![s].state = "stopped"]
    /\ call' = [c \in Calls |->
                  [call[c] EXCEPT !.alone = @ /\ call[c].slot # s]]
    /\ UNCHANGED <<lease, agent>>

\* Agent control dies with the requests it was working on.
AgentRestart(s) ==
    /\ agent' = [agent EXCEPT ![s] = Configured]
    /\ call' = [c \in Calls |->
                  IF call[c].slot # s THEN call[c]
                  ELSE IF call[c].at \in WithAgent THEN Broken(c)
                  ELSE [call[c] EXCEPT !.alone = FALSE]]
    /\ UNCHANGED <<lease, browser>>

RelayInit ==
    /\ Init
    /\ browser = [s \in Slots |-> [for |-> Boot, state |-> "stopped", run |-> 0]]
    /\ agent = [s \in Slots |-> Configured]
    /\ \E i \in Sessions, s \in Slots : call = [c \in Calls |-> Idle(i, s)]

ActivationStep(c) ==
    \/ \E i \in Sessions : BeginActivate(c, i)
    \/ Adopt(c)
    \/ Start(c)
    \/ Woken(c)

RelayStep(c) ==
    \/ \E i \in Sessions :
          \/ BeginRelay(c, i, "list", 0)
          \/ \E tab \in 0..MaxRuns : BeginRelay(c, i, "page", tab)
    \/ Post(c)
    \/ Handle(c)
    \/ Ask(c, "ask", "match")
    \/ Match(c, "match", "own")
    \/ Own(c, "own", "act")
    \/ Act(c)
    \/ Ask(c, "ask again", "match again")
    \/ Match(c, "match again", "own again")
    \/ OwnAgain(c)
    \/ Rotate(c)
    \/ RotateOwner(c)
    \/ RotateGeneration(c)

RelayNext ==
    \/ \E c \in Calls : ActivationStep(c) \/ RelayStep(c) \/ Lost(c) \/ GiveUp(c)
    \/ StoreStep
    \/ \E s \in Slots : BrowserStep(s) \/ AgentRestart(s)

RelaySpec == RelayInit /\ [][RelayNext]_vars

-----------------------------------------------------------------------------
(***************************************************************************)
(* Properties.                                                              *)
(***************************************************************************)

\* Every variable has the shape its owner gives it.
TypeOK ==
    /\ lease \in [Sessions -> Lease]
    /\ browser \in [Slots -> Browser]
    /\ agent \in [Slots -> Agent]
    /\ call \in [Calls -> Call]

\* A page action read the session and the browser's owner long before it is
\* carried out, and the browser does not ask for whom it is.  Yet whatever
\* handoffs and late wakes happen in between, it lands on a browser that runs
\* for the session it was relayed for, if nobody else's call has taken the
\* agent's lease or if the tab was one of the session's own when the call came
\* in: a rotation in between can make a foreign browser look right, but that
\* browser has no tab of this name.
PageActionsStayHome ==
    [][\A c \in Calls :
         /\ Act(c) /\ call[c].kind = "page" /\ call'[c].acted
         /\ call[c].steady \/ call[c].home
         => browser[call[c].slot].for = call[c].session]_vars

\* The retry after a 401 never repeats an action: one relayed call is carried
\* out at most once, whoever rotates the lease meanwhile.
ActsOnce == [][\A c \in Calls : Act(c) => ~call[c].acted]_vars

\* A relay that finds the session's browser running and the agent's lease and
\* expectation in agreement, for whichever earlier session, and a wake of the
\* caller's own slot, succeed unless something else touches the slot meanwhile:
\* one rotation and one retry are enough to follow any handoff.
AloneSucceeds == \A c \in Calls : call[c].alone => call[c].at # "failed"

\* Once such an activation has answered, the session is active on the slot that
\* was woken, and the browser there runs for it.
ActivationServes ==
    \A c \in Calls :
        LET r == call[c]
        IN  r.alone /\ r.kind = "activate" /\ r.at = "ok"
            => /\ lease[r.session] = [status |-> "ACTIVE", slot |-> r.slot]
               /\ Serves(r.slot, r.session)

=============================================================================
