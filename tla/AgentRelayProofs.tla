--------------------------- MODULE AgentRelayProofs ---------------------------
(***************************************************************************)
(* Theorems about AgentRelay for any sessions, slots, calls and bound.      *)
(*                                                                         *)
(* RelayInv is the inductive invariant.  That a page action lands on the    *)
(* browser of its session rests on two facts about a call that is past the  *)
(* second comparison of its binding: the agent's lease is its session's as  *)
(* long as nobody has taken it, and a browser that still shows the tab the  *)
(* caller named has not been stopped since the tab existed, so that it runs *)
(* for whom it said it runs.                                                *)
(*                                                                         *)
(* AloneInv adds what a call that nothing has disturbed relies on at each   *)
(* place of its way (Undisturbed), from which it follows that such a call   *)
(* does not fail, and that an activation which answered serves.             *)
(***************************************************************************)
EXTENDS AgentRelay, TLAPS

\* The action has been dispatched and its outcome is being checked.
Answering == {"ask again", "match again", "own again"}

\* The browser runs, and still is the run in which the named tab existed.
SameRun(r) ==
    /\ r.kind = "page"
    /\ browser[r.slot].state = "ready"
    /\ r.tab = browser[r.slot].run

Good(r) ==
    /\ r.at \notin Resting \cup Answering => ~r.acted
    /\ r.kind = "page" /\ r.at \in WithAgent => r.tab <= browser[r.slot].run
    /\ r.steady /\ r.at \in {"ask", "match", "own", "act"} =>
          agent[r.slot].lease = r.session
    /\ SameRun(r) /\ r.at \in {"match", "own"} => browser[r.slot].for = r.seen
    /\ SameRun(r) /\ r.at = "act" /\ r.steady => browser[r.slot].for = r.session
    /\ SameRun(r) /\ r.at \in WithAgent /\ r.home => browser[r.slot].for = r.session

RelayInv ==
    /\ TypeOK
    /\ Exclusive(lease)
    /\ \A c \in Calls : Good(call[c])

-----------------------------------------------------------------------------
(* How a step may change what a call relies on.                             *)

\* A browser that is stopped or started is another run before it is ready.
BrowserGoes ==
    \A s \in Slots :
        /\ browser[s].run <= browser'[s].run
        /\ browser'[s].state = "ready" /\ browser'[s].run = browser[s].run =>
              browser[s].state = "ready" /\ browser'[s].for = browser[s].for

\* What a call has read and done stays; the lease is left to it or it is no
\* longer steady.
Kept(d) ==
    /\ call'[d] \in Call
    /\ call'[d].kind = call[d].kind /\ call'[d].session = call[d].session
    /\ call'[d].slot = call[d].slot /\ call'[d].tab = call[d].tab
    /\ call'[d].seen = call[d].seen /\ call'[d].at = call[d].at
    /\ call'[d].acted => call[d].acted
    /\ call'[d].home => call[d].home
    /\ call'[d].steady => /\ call[d].steady
                          /\ \/ agent'[call[d].slot].lease = agent[call[d].slot].lease
                             \/ agent'[call[d].slot].lease = call[d].session

\* What holds of a call holds after a step that keeps what the call relies on.
LEMMA KeptIsGood ==
    ASSUME RelayInv, BrowserGoes, browser' \in [Slots -> Browser],
           NEW d \in Calls, Kept(d)
    PROVE  Good(call[d])'
<1>1. /\ Good(call[d])
      /\ call[d].slot \in Slots
      /\ call[d].tab \in Nat
      /\ browser[call[d].slot].run \in Nat /\ browser'[call[d].slot].run \in Nat
  BY RelayAssumption DEF RelayInv, TypeOK, Call, Browser
<1> DEFINE s == call[d].slot
<1>2. /\ browser[s].run <= browser'[s].run
      /\ browser'[s].state = "ready" /\ browser'[s].run = browser[s].run =>
              browser[s].state = "ready" /\ browser'[s].for = browser[s].for
  BY <1>1 DEF BrowserGoes
<1>3. (call[d].kind = "page" /\ call[d].at \in WithAgent /\ call[d].tab = browser'[s].run)
      => browser'[s].run = browser[s].run
  <2>1. call[d].kind = "page" /\ call[d].at \in WithAgent => call[d].tab <= browser[s].run
    BY <1>1 DEF Good
  <2>2. QED
    BY <1>1, <1>2, <2>1
<1>4. {"match", "own", "act"} \subseteq WithAgent
  BY DEF WithAgent
<1> DEFINE k == call[d]
           m == call'[d]
<1>5. /\ m.kind = k.kind /\ m.session = k.session /\ m.slot = k.slot
      /\ m.tab = k.tab /\ m.seen = k.seen /\ m.at = k.at
      /\ m.acted => k.acted
      /\ m.home => k.home
      /\ m.steady => k.steady
      /\ m.steady /\ agent[s].lease = k.session => agent'[s].lease = k.session
  BY DEF Kept
<1>6. /\ m.at \notin Resting \cup Answering => ~m.acted
      /\ m.kind = "page" /\ m.at \in WithAgent => m.tab <= browser'[m.slot].run
  <2>1. /\ k.at \notin Resting \cup Answering => ~k.acted
        /\ k.kind = "page" /\ k.at \in WithAgent => k.tab <= browser[s].run
    BY <1>1 DEF Good
  <2>2. QED
    BY <1>1, <1>2, <1>5, <2>1
<1>7. m.steady /\ m.at \in {"ask", "match", "own", "act"} =>
          agent'[m.slot].lease = m.session
  BY <1>1, <1>5 DEF Good
<1>8. SameRun(k)' /\ k.at \in WithAgent =>
          SameRun(k) /\ browser'[s].for = browser[s].for
  BY <1>2, <1>3, <1>5 DEF SameRun
<1>9. /\ SameRun(k)' /\ m.at \in {"match", "own"} => browser'[m.slot].for = m.seen
      /\ SameRun(k)' /\ m.at = "act" /\ m.steady => browser'[m.slot].for = m.session
      /\ SameRun(k)' /\ m.at \in WithAgent /\ m.home => browser'[m.slot].for = m.session
  BY <1>1, <1>4, <1>5, <1>8 DEF Good
<1>10. QED
  BY <1>6, <1>7, <1>9 DEF Good

\* One call changes, and what the others rely on stays.
LEMMA OneCallChanges ==
    ASSUME RelayInv, NEW c \in Calls, NEW r \in Call,
           call' \in [Calls -> Call], call'[c] = r,
           Good(r)',
           \A d \in Calls \ {c} : Kept(d),
           lease' \in [Sessions -> Lease], Exclusive(lease)',
           browser' \in [Slots -> Browser], agent' \in [Slots -> Agent],
           BrowserGoes
    PROVE  RelayInv'
<1>1. TypeOK'
  BY DEF TypeOK
<1>2. \A d \in Calls : Good(call[d])'
  <2>1. SUFFICES ASSUME NEW d \in Calls PROVE Good(call[d])'
    OBVIOUS
  <2>2. CASE d = c
    BY <2>2 DEF Good, SameRun
  <2>3. CASE d # c
    BY <2>3, KeptIsGood
  <2>4. QED
    BY <2>2, <2>3
<1>3. QED
  BY <1>1, <1>2 DEF RelayInv

\* Every call stays, as far as it relies on anything.
LEMMA NoCallChanges ==
    ASSUME RelayInv,
           call' \in [Calls -> Call],
           \A d \in Calls : Kept(d) \/ Good(call[d])',
           lease' \in [Sessions -> Lease], Exclusive(lease)',
           browser' \in [Slots -> Browser], agent' \in [Slots -> Agent],
           BrowserGoes
    PROVE  RelayInv'
<1>1. TypeOK'
  BY DEF TypeOK
<1>2. \A d \in Calls : Good(call[d])'
  BY KeptIsGood
<1>3. QED
  BY <1>1, <1>2 DEF RelayInv

\* A step that leaves the browsers alone.
LEMMA BrowserRests ==
    ASSUME RelayInv, UNCHANGED browser
    PROVE  BrowserGoes /\ browser' \in [Slots -> Browser]
BY RelayAssumption DEF BrowserGoes, RelayInv, TypeOK, Browser

\* Nothing but one call and perhaps the table of sessions.
LEMMA QuietStep ==
    ASSUME RelayInv, NEW c \in Calls, NEW r \in Call, Quietly(c, r), Good(r),
           UNCHANGED <<browser, agent>>,
           lease' \in [Sessions -> Lease], Exclusive(lease)'
    PROVE  RelayInv'
<1>1. call \in [Calls -> Call] /\ agent' \in [Slots -> Agent]
  BY DEF RelayInv, TypeOK
<1>2. call' \in [Calls -> Call] /\ call'[c] = r /\ \A d \in Calls \ {c} : call'[d] = call[d]
  BY <1>1 DEF Quietly
<1>3. Good(r)'
  BY DEF Good, SameRun
<1>4. \A d \in Calls \ {c} : Kept(d)
  BY <1>1, <1>2 DEF Kept
<1>5. QED
  BY <1>1, <1>2, <1>3, <1>4, BrowserRests, OneCallChanges

\* The other calls on the slot are no longer alone.
LEMMA DisturbingStep ==
    ASSUME RelayInv, NEW c \in Calls, NEW r \in Call, Disturbing(c, r), Good(r)',
           UNCHANGED lease,
           browser' \in [Slots -> Browser], BrowserGoes,
           agent' \in [Slots -> Agent],
           \A s \in Slots : agent'[s].lease = agent[s].lease
    PROVE  RelayInv'
<1>1. call \in [Calls -> Call] /\ call[c] \in Call
  BY DEF RelayInv, TypeOK
<1>2. call'[c] = r
  BY DEF Disturbing
<1>3. \A d \in Calls \ {c} : Kept(d)
  <2>1. SUFFICES ASSUME NEW d \in Calls \ {c} PROVE Kept(d)
    OBVIOUS
  <2>2. call'[d] = [call[d] EXCEPT !.alone = @ /\ call[d].slot # call[c].slot]
    BY DEF Disturbing
  <2>3. call[d] \in Call
    BY <1>1
  <2>4. /\ call'[d] \in Call
        /\ call'[d].kind = call[d].kind /\ call'[d].session = call[d].session
        /\ call'[d].slot = call[d].slot /\ call'[d].tab = call[d].tab
        /\ call'[d].seen = call[d].seen /\ call'[d].at = call[d].at
        /\ (call'[d].acted <=> call[d].acted) /\ (call'[d].steady <=> call[d].steady)
        /\ (call'[d].home <=> call[d].home)
    BY <2>2, <2>3 DEF Call
  <2>5. call[d].slot \in Slots
    BY <2>3 DEF Call
  <2>6. QED
    BY <2>4, <2>5 DEF Kept
<1>4. call' \in [Calls -> Call]
  <2>1. \A d \in Calls : call'[d] \in Call
    BY <1>2, <1>3 DEF Kept
  <2>2. QED
    BY <2>1 DEF Disturbing
<1>5. lease' \in [Sessions -> Lease] /\ Exclusive(lease)'
  BY DEF RelayInv, TypeOK, Exclusive
<1>6. QED
  BY <1>2, <1>3, <1>4, <1>5, OneCallChanges

\* The agent's lease becomes a session's: other sessions' calls on the slot are
\* no longer steady.
LEMMA UnsteadyingStep ==
    ASSUME RelayInv, NEW c \in Calls, NEW r \in Call, Unsteadying(c, r), Good(r)',
           UNCHANGED <<lease, browser>>,
           agent' = [agent EXCEPT ![call[c].slot].lease = call[c].session]
    PROVE  RelayInv'
<1> DEFINE k == call[c]
           a == [agent[k.slot] EXCEPT !.lease = k.session]
<1>1. call \in [Calls -> Call] /\ k \in Call /\ agent \in [Slots -> Agent]
  BY DEF RelayInv, TypeOK
<1>2. k.slot \in Slots /\ k.session \in Sessions
  BY <1>1 DEF Call
<1>3. a \in Agent /\ a.lease = k.session /\ agent' = [agent EXCEPT ![k.slot] = a]
  BY <1>1, <1>2 DEF Agent, Bindings
<1> HIDE DEF a
<1>4. /\ agent' \in [Slots -> Agent]
      /\ agent'[k.slot].lease = k.session
      /\ \A s \in Slots \ {k.slot} : agent'[s] = agent[s]
  BY <1>1, <1>2, <1>3
<1>5. call'[c] = r
  BY DEF Unsteadying
<1>6. \A d \in Calls \ {c} : Kept(d)
  <2>1. SUFFICES ASSUME NEW d \in Calls \ {c} PROVE Kept(d)
    OBVIOUS
  <2>2. call'[d] = [call[d] EXCEPT
                       !.alone = @ /\ call[d].slot # k.slot,
                       !.steady = @ /\ (call[d].slot = k.slot
                                          => call[d].session = k.session)]
    BY DEF Unsteadying
  <2>3. call[d] \in Call
    BY <1>1
  <2> HIDE DEF k
  <2>4. /\ call'[d] \in Call
        /\ call'[d].kind = call[d].kind /\ call'[d].session = call[d].session
        /\ call'[d].slot = call[d].slot /\ call'[d].tab = call[d].tab
        /\ call'[d].seen = call[d].seen /\ call'[d].at = call[d].at
        /\ (call'[d].acted <=> call[d].acted) /\ (call'[d].home <=> call[d].home)
        /\ call'[d].steady <=> (call[d].steady /\ (call[d].slot = k.slot
                                                    => call[d].session = k.session))
    BY <2>2, <2>3 DEF Call
  <2>5. call[d].slot \in Slots
    BY <2>3 DEF Call
  <2>6. QED
    BY <1>4, <2>4, <2>5 DEF Kept
<1>7. call' \in [Calls -> Call]
  <2>1. \A d \in Calls : call'[d] \in Call
    BY <1>5, <1>6 DEF Kept
  <2>2. QED
    BY <2>1 DEF Unsteadying
<1>8. lease' \in [Sessions -> Lease] /\ Exclusive(lease)'
  BY DEF RelayInv, TypeOK, Exclusive
<1>9. QED
  BY <1>4, <1>5, <1>6, <1>7, <1>8, BrowserRests, OneCallChanges

-----------------------------------------------------------------------------
(* What a call's record becomes.                                            *)

\* A call at rest relies on nothing.
LEMMA RestingIsGood ==
    ASSUME NEW r \in Call, r.at \in Resting
    PROVE  Good(r) /\ Good(r)'
BY DEF Good, Resting, WithAgent

\* The record of a caller before its request.
LEMMA IdleRecord ==
    ASSUME NEW i \in Sessions, NEW s \in Slots
    PROVE  /\ Idle(i, s) \in Call
           /\ Idle(i, s).at = "idle" /\ ~Idle(i, s).acted /\ ~Idle(i, s).gone
           /\ ~Idle(i, s).steady /\ ~Idle(i, s).alone
           /\ Idle(i, s).session = i /\ Idle(i, s).slot = s
BY RelayAssumption DEF Idle, Call, Places, Resting, Bindings

\* A call ends.
LEMMA Ended ==
    ASSUME RelayInv, NEW c \in Calls, NEW place \in Resting
    PROVE  LET r == Moved(c, place)
           IN  /\ r \in Call /\ r.at = place /\ ~r.acted /\ ~r.gone
               /\ r.kind = call[c].kind /\ r.session = call[c].session
               /\ r.slot = call[c].slot /\ (r.alone <=> call[c].alone)
<1>1. call[c] \in Call
  BY DEF RelayInv, TypeOK
<1>2. call[c].session \in Sessions /\ call[c].slot \in Slots
  BY <1>1 DEF Call
<1> DEFINE o == Idle(call[c].session, call[c].slot)
<1>3. /\ o \in Call /\ ~o.acted /\ ~o.gone
      /\ o.session = call[c].session /\ o.slot = call[c].slot
  BY <1>2, IdleRecord
<1>4. Moved(c, place) = [o EXCEPT !.kind = call[c].kind, !.at = place,
                                 !.alone = call[c].alone]
  BY DEF Moved
<1> HIDE DEF o
<1>5. QED
  BY <1>1, <1>3, <1>4 DEF Call, Places

\* It ends for a reason outside the router.
LEMMA BrokenRecord ==
    ASSUME RelayInv, NEW c \in Calls
    PROVE  Broken(c) \in Call /\ Broken(c).at = "failed" /\ ~Broken(c).alone
<1>1. Moved(c, "failed") \in Call /\ Moved(c, "failed").at = "failed"
  BY Ended DEF Resting
<1> DEFINE m == Moved(c, "failed")
<1>2. Broken(c) = [m EXCEPT !.alone = FALSE]
  BY DEF Broken
<1> HIDE DEF m
<1>3. QED
  BY <1>1, <1>2 DEF Call, m

\* It moves on.
LEMMA Onward ==
    ASSUME RelayInv, NEW c \in Calls, NEW place \in Places \ Resting
    PROVE  LET r == Moved(c, place)
           IN  /\ r \in Call /\ r.at = place
               /\ r.kind = call[c].kind /\ r.session = call[c].session
               /\ r.slot = call[c].slot /\ r.tab = call[c].tab
               /\ place \in {"own", "own again"} => r.seen = call[c].seen
               /\ (r.acted <=> call[c].acted) /\ (r.home <=> call[c].home)
               /\ (r.steady <=> call[c].steady)
               /\ (r.alone <=> call[c].alone) /\ (r.gone <=> call[c].gone)
<1>1. call[c] \in Call
  BY DEF RelayInv, TypeOK
<1>2. Moved(c, place) = [call[c] EXCEPT !.at = place,
                           !.seen = IF place \in {"own", "own again"} THEN @ ELSE Boot]
  BY DEF Moved
<1>3. QED
  BY <1>1, <1>2 DEF Call, Bindings

\* Places at which a call relies on nothing but that its action is not behind
\* it already, and that the tab it names existed.
Plain == {"start", "woken", "handle", "rotate", "owner", "generation", "repost"}
            \cup Answering

\* A call may move to any place where nothing is asked of it.
LEMMA PlainMove ==
    ASSUME RelayInv, NEW c \in Calls, NEW place \in Plain,
           call[c].at \notin Resting,
           place \notin Answering => call[c].at \notin Answering,
           place \in WithAgent => call[c].at \in WithAgent
    PROVE  /\ Moved(c, place) \in Call /\ Good(Moved(c, place))
           /\ \A r \in Call : r = Moved(c, place) /\ BrowserGoes
                              /\ browser' \in [Slots -> Browser] => Good(r)'
<1> DEFINE m == Moved(c, place)
<1>1. place \in Places \ Resting
  BY DEF Plain, Answering, Places, WithSupervisor, WithAgent, Resting
<1>2. /\ m \in Call /\ m.at = place
      /\ m.kind = call[c].kind /\ m.session = call[c].session
      /\ m.slot = call[c].slot /\ m.tab = call[c].tab
      /\ (m.acted <=> call[c].acted) /\ (m.home <=> call[c].home)
  BY <1>1, Onward
<1> HIDE DEF m
<1>3. /\ Good(call[c]) /\ m.slot \in Slots /\ m.tab \in Nat
      /\ browser[m.slot].run \in Nat
      /\ browser \in [Slots -> Browser]
  BY <1>2, RelayAssumption DEF RelayInv, TypeOK, Call, Browser
<1>4. place \notin {"ask", "match", "own", "act"}
  BY DEF Plain, Answering
<1>5. Good(m)
  BY <1>2, <1>3, <1>4 DEF Good, Plain, SameRun
<1>6. ASSUME NEW r \in Call, r = m, BrowserGoes, browser' \in [Slots -> Browser]
      PROVE  Good(r)'
  <2>1. /\ browser'[r.slot].run \in Nat
        /\ browser[r.slot].run <= browser'[r.slot].run
    BY <1>3, <1>6, RelayAssumption DEF BrowserGoes, Browser
  <2>2. r.kind = "page" /\ r.at \in WithAgent => r.tab <= browser'[r.slot].run
    BY <1>2, <1>3, <1>6, <2>1 DEF Good
  <2>3. r.at \notin Resting \cup Answering => ~r.acted
    BY <1>2, <1>3, <1>6 DEF Good
  <2>4. SameRun(r)' /\ r.at \in WithAgent /\ r.home => browser'[r.slot].for = r.session
    <3>1. SUFFICES ASSUME SameRun(r)', r.at \in WithAgent, r.home
                   PROVE  browser'[r.slot].for = r.session
      OBVIOUS
    <3>2. r.tab <= browser[r.slot].run /\ r.tab = browser'[r.slot].run
      BY <1>2, <1>3, <1>6, <3>1 DEF Good, SameRun
    <3>3. browser'[r.slot].run = browser[r.slot].run
      BY <1>3, <1>6, <2>1, <3>2
    <3>4. SameRun(r) /\ browser'[r.slot].for = browser[r.slot].for
      BY <1>3, <1>6, <3>1, <3>3 DEF BrowserGoes, SameRun
    <3>5. QED
      BY <1>5, <1>6, <3>1, <3>4 DEF Good
  <2>5. QED
    BY <1>2, <1>4, <1>6, <2>2, <2>3, <2>4 DEF Good
<1>7. QED
  BY <1>2, <1>5, <1>6 DEF m

\* A step that leaves the table alone.
LEMMA LeaseRests ==
    ASSUME RelayInv, UNCHANGED lease
    PROVE  lease' \in [Sessions -> Lease] /\ Exclusive(lease)'
BY DEF RelayInv, TypeOK, Exclusive

\* A session that holds a slot.
LEMMA Holds ==
    ASSUME RelayInv, NEW i \in Sessions, lease[i].status \in {"OFFERED", "ACTIVE"}
    PROVE  lease[i].slot \in Slots
BY DEF RelayInv, TypeOK, Exclusive, Lease

-----------------------------------------------------------------------------
(* The steps of a call.                                                     *)

\* Steps that change one call alone, to rest.
LEMMA QuietEnd ==
    ASSUME RelayInv, NEW c \in Calls, NEW place \in Resting, Quietly(c, Moved(c, place)),
           UNCHANGED <<lease, browser, agent>>
    PROVE  RelayInv'
<1>1. PICK r \in Call : r = Moved(c, place) /\ r.at = place
  BY Ended
<1>2. Quietly(c, r)
  BY <1>1
<1>3. QED
  BY <1>1, <1>2, LeaseRests, RestingIsGood, QuietStep

\* A call that fails, and changes nothing else.
LEMMA QuietBroken ==
    ASSUME RelayInv, NEW c \in Calls, Quietly(c, Broken(c)),
           UNCHANGED <<lease, browser, agent>>
    PROVE  RelayInv'
<1>1. PICK r \in Call : r = Broken(c) /\ r.at = "failed"
  BY BrokenRecord
<1>2. Quietly(c, r)
  BY <1>1
<1>3. QED
  BY <1>1, <1>2, LeaseRests, RestingIsGood, QuietStep DEF Resting

\* Steps that change one call alone, to a plain place.
LEMMA QuietPlain ==
    ASSUME RelayInv, NEW c \in Calls, NEW place \in Plain,
           call[c].at \notin Resting,
           place \notin Answering => call[c].at \notin Answering,
           place \in WithAgent => call[c].at \in WithAgent,
           Quietly(c, Moved(c, place)),
           UNCHANGED <<lease, browser, agent>>
    PROVE  RelayInv'
<1>1. PICK r \in Call : r = Moved(c, place) /\ Good(r)
  BY PlainMove
<1>2. Quietly(c, r)
  BY <1>1
<1>3. QED
  BY <1>1, <1>2, LeaseRests, QuietStep

\* A request comes in and reads its session, once.
LEMMA BeginInv ==
    ASSUME RelayInv, NEW c \in Calls, NEW i \in Sessions,
           \/ BeginActivate(c, i)
           \/ BeginRelay(c, i, "list", 0)
           \/ \E tab \in 0..MaxRuns : BeginRelay(c, i, "page", tab)
    PROVE  RelayInv'
<1>1. UNCHANGED <<lease, browser, agent>> /\ lease[i].status \in {"OFFERED", "ACTIVE"}
  BY DEF BeginActivate, BeginRelay
<1>2. lease[i].slot \in Slots
  BY <1>1, Holds
<1> DEFINE o == Idle(i, lease[i].slot)
<1>3. /\ o \in Call /\ ~o.acted /\ ~o.steady
      /\ o.slot = lease[i].slot /\ o.session = i
  BY <1>2, IdleRecord
<1> HIDE DEF o
<1>4. PICK r \in Call : Quietly(c, r) /\ Good(r)
  <2>1. CASE BeginActivate(c, i)
    <3> DEFINE r == [o EXCEPT !.kind = "activate", !.at = "adopt", !.alone = TRUE]
    <3>1. Quietly(c, r)
      BY <2>1 DEF BeginActivate, o
    <3>2. r \in Call /\ r.kind = "activate" /\ r.at = "adopt" /\ ~r.acted /\ ~r.steady
      BY <1>3 DEF Call, Places, WithSupervisor
    <3> HIDE DEF r
    <3>3. Good(r)
      BY <3>2 DEF Good, SameRun
    <3>4. QED
      BY <3>1, <3>2, <3>3
  <2>2. ASSUME NEW kind \in {"list", "page"}, NEW tab \in 0..MaxRuns,
               BeginRelay(c, i, kind, tab)
        PROVE  \E r \in Call : Quietly(c, r) /\ Good(r)
    <3> DEFINE undisturbed == /\ Serves(lease[i].slot, i) /\ Settled(lease[i].slot)
                              /\ kind = "page" => tab = browser[lease[i].slot].run
               own == Serves(lease[i].slot, i) /\ tab = browser[lease[i].slot].run
               r == [o EXCEPT !.kind = kind, !.tab = tab, !.at = "post",
                              !.home = own, !.alone = undisturbed]
    <3>1. Quietly(c, r) /\ tab <= browser[lease[i].slot].run
      BY <2>2 DEF BeginRelay, o
    <3>2. /\ undisturbed \in BOOLEAN /\ own \in BOOLEAN
          /\ own => browser[lease[i].slot].for = i
      BY DEF Serves
    <3> HIDE DEF undisturbed, own
    <3>3. /\ r \in Call /\ r.kind = kind /\ r.at = "post" /\ r.tab = tab
          /\ r.slot = lease[i].slot /\ r.session = i /\ ~r.acted /\ ~r.steady
          /\ r.home => own
      BY <1>3, <3>2 DEF Call, Places, WithAgent
    <3> HIDE DEF r
    <3>4. Good(r)
      BY <3>1, <3>2, <3>3 DEF Good, SameRun
    <3>5. QED
      BY <3>1, <3>3, <3>4
  <2>3. 0 \in 0..MaxRuns
    BY RelayAssumption
  <2>4. QED
    BY <2>1, <2>2, <2>3
<1>5. QED
  BY <1>1, <1>4, LeaseRests, QuietStep

-----------------------------------------------------------------------------
(* What a step does to a browser: it ends, or it becomes another run.       *)

\* A browser that ends keeps its run; one that starts has a new one.
LEMMA BrowserBecomes ==
    ASSUME RelayInv, NEW s \in Slots, NEW b \in Browser,
           browser' = [browser EXCEPT ![s] = b],
           \/ b.run = browser[s].run /\ b.state # "ready"
           \/ b.run = browser[s].run + 1
    PROVE  BrowserGoes /\ browser' \in [Slots -> Browser]
<1>1. browser \in [Slots -> Browser]
  BY DEF RelayInv, TypeOK
<1>2. \A x \in Slots : browser[x].run \in Nat
  BY <1>1, RelayAssumption DEF Browser
<1>3. \A x \in Slots : browser'[x] = IF x = s THEN b ELSE browser[x]
  BY <1>1
<1>4. BrowserGoes
  BY <1>2, <1>3 DEF BrowserGoes
<1>5. QED
  BY <1>1, <1>4

\* A browser that is stopped, given to another owner, or fails.
LEMMA StopsGoes ==
    ASSUME RelayInv, NEW s \in Slots,
           \/ \E i \in Bindings : browser' = [browser EXCEPT ![s].for = i,
                                                            ![s].state = "stopped"]
           \/ \E x \in {"stopped", "failed"} : browser' = [browser EXCEPT ![s].state = x]
    PROVE  BrowserGoes /\ browser' \in [Slots -> Browser]
<1>1. browser[s] \in Browser
  BY DEF RelayInv, TypeOK
<1>2. ASSUME NEW i \in Bindings,
             browser' = [browser EXCEPT ![s].for = i, ![s].state = "stopped"]
      PROVE  BrowserGoes /\ browser' \in [Slots -> Browser]
  <2> DEFINE b == [browser[s] EXCEPT !.for = i, !.state = "stopped"]
  <2>1. b \in Browser /\ b.run = browser[s].run /\ b.state # "ready"
    BY <1>1 DEF Browser
  <2>2. browser' = [browser EXCEPT ![s] = b]
    BY <1>2
  <2> HIDE DEF b
  <2>3. QED
    BY <2>1, <2>2, BrowserBecomes
<1>3. ASSUME NEW x \in {"stopped", "failed"}, browser' = [browser EXCEPT ![s].state = x]
      PROVE  BrowserGoes /\ browser' \in [Slots -> Browser]
  <2> DEFINE b == [browser[s] EXCEPT !.state = x]
  <2>1. b \in Browser /\ b.run = browser[s].run /\ b.state # "ready"
    BY <1>1 DEF Browser
  <2>2. browser' = [browser EXCEPT ![s] = b]
    BY <1>3
  <2> HIDE DEF b
  <2>3. QED
    BY <2>1, <2>2, BrowserBecomes
<1>4. QED
  BY <1>2, <1>3

\* A browser that is started.
LEMMA StartedGoes ==
    ASSUME RelayInv, NEW s \in Slots, Started(s)
    PROVE  BrowserGoes /\ browser' \in [Slots -> Browser]
<1> DEFINE b == [browser[s] EXCEPT !.state = "ready", !.run = browser[s].run + 1]
<1>1. browser[s] \in Browser
  BY DEF RelayInv, TypeOK
<1>2. browser[s].run + 1 \in 0..MaxRuns
  BY <1>1, RelayAssumption DEF Started, Browser
<1>3. b \in Browser /\ b.run = browser[s].run + 1
  BY <1>1, <1>2 DEF Browser
<1>4. browser' = [browser EXCEPT ![s] = b]
  BY DEF Started
<1> HIDE DEF b
<1>5. QED
  BY <1>3, <1>4, BrowserBecomes

-----------------------------------------------------------------------------
(* The steps of an activation.                                              *)

\* A call names a session and a slot that exist.
LEMMA CallSlot ==
    ASSUME RelayInv, NEW c \in Calls
    PROVE  call[c] \in Call /\ call[c].slot \in Slots /\ call[c].session \in Bindings
BY DEF RelayInv, TypeOK, Call, Bindings

\* A step of the call that changes the browser, to a plain place or to its end.
LEMMA DisturbingMove ==
    ASSUME RelayInv, NEW c \in Calls,
           \/ /\ Disturbing(c, Moved(c, "start"))
              /\ call[c].at = "adopt"
           \/ /\ Disturbing(c, Moved(c, "woken"))
              /\ call[c].at = "start"
           \/ Disturbing(c, Broken(c)),
           UNCHANGED <<lease, agent>>,
           BrowserGoes, browser' \in [Slots -> Browser]
    PROVE  RelayInv'
<1>1. PICK r \in Call : Disturbing(c, r) /\ Good(r)'
  <2>1. CASE Disturbing(c, Moved(c, "start")) /\ call[c].at = "adopt"
    BY <2>1, PlainMove DEF Plain, Resting, Answering, WithAgent
  <2>2. CASE Disturbing(c, Moved(c, "woken")) /\ call[c].at = "start"
    BY <2>2, PlainMove DEF Plain, Resting, Answering, WithAgent
  <2>3. CASE Disturbing(c, Broken(c))
    <3>1. PICK r \in Call : r = Broken(c) /\ r.at = "failed"
      BY BrokenRecord
    <3>2. Good(r)'
      BY <3>1, RestingIsGood DEF Resting
    <3>3. QED
      BY <2>3, <3>1, <3>2
  <2>4. QED
    BY <2>1, <2>2, <2>3
<1>2. agent' \in [Slots -> Agent]
  BY DEF RelayInv, TypeOK
<1>3. QED
  BY <1>1, <1>2, DisturbingStep

\* The first gate section of a wake: the slot is adopted for the session.
LEMMA AdoptInv ==
    ASSUME RelayInv, NEW c \in Calls, Adopt(c)
    PROVE  RelayInv'
<1> DEFINE s == call[c].slot
           i == call[c].session
<1>1. /\ call[c].at = "adopt" /\ UNCHANGED <<lease, agent>>
      /\ s \in Slots /\ i \in Bindings
  BY CallSlot DEF Adopt
<1>2. CASE Quietly(c, Moved(c, "start")) /\ UNCHANGED browser
  BY <1>1, <1>2, QuietPlain DEF Plain, Resting, Answering, WithAgent
<1>3. CASE /\ browser' = [browser EXCEPT ![s].for = i, ![s].state = "stopped"]
           /\ Disturbing(c, Moved(c, "start"))
  BY <1>1, <1>3, StopsGoes, DisturbingMove
<1>4. CASE /\ browser' \in {browser, [browser EXCEPT ![s].state = "stopped"]}
           /\ Disturbing(c, Broken(c))
  BY <1>1, <1>4, BrowserRests, StopsGoes, DisturbingMove
<1>5. QED
  BY <1>2, <1>3, <1>4 DEF Adopt

\* The second gate section: the browser is started for whomever it was adopted.
LEMMA StartInv ==
    ASSUME RelayInv, NEW c \in Calls, Start(c)
    PROVE  RelayInv'
<1> DEFINE s == call[c].slot
<1>1. /\ call[c].at = "start" /\ UNCHANGED <<lease, agent>> /\ s \in Slots
  BY CallSlot DEF Start
<1>2. CASE Quietly(c, Moved(c, "failed")) /\ UNCHANGED browser
  BY <1>1, <1>2, QuietEnd DEF Resting
<1>3. CASE Quietly(c, Moved(c, "woken")) /\ UNCHANGED browser
  BY <1>1, <1>3, QuietPlain DEF Plain, Resting, Answering, WithAgent
<1>4. CASE Quietly(c, Broken(c)) /\ UNCHANGED browser
  BY <1>1, <1>4, QuietBroken
<1>5. CASE Started(s) /\ Disturbing(c, Moved(c, "woken"))
  BY <1>1, <1>5, StartedGoes, DisturbingMove
<1>6. QED
  BY <1>2, <1>3, <1>4, <1>5 DEF Start

\* Activation of an offer keeps the table exclusive.
LEMMA ActivateKeeps ==
    ASSUME RelayInv, NEW i \in Sessions, Activate(i)
    PROVE  lease' \in [Sessions -> Lease] /\ Exclusive(lease)'
<1> DEFINE l == [lease[i] EXCEPT !.status = "ACTIVE"]
<1>1. lease \in [Sessions -> Lease] /\ Exclusive(lease)
  BY DEF RelayInv, TypeOK
<1>2. l \in Lease /\ l.slot = lease[i].slot /\ l.status = "ACTIVE"
  BY <1>1 DEF Lease
<1>3. lease' = [lease EXCEPT ![i] = l]
  BY DEF Activate
<1> HIDE DEF l
<1>4. \A j \in Sessions : /\ lease'[j].slot = lease[j].slot
                          /\ lease'[j].status = IF j = i THEN "ACTIVE" ELSE lease[j].status
  BY <1>1, <1>2, <1>3
<1>5. lease[i].status = "OFFERED"
  BY DEF Activate
<1>6. Exclusive(lease)'
  BY <1>1, <1>4, <1>5 DEF Exclusive
<1>7. QED
  BY <1>1, <1>2, <1>3, <1>6

\* The session is activated by id, if it still can be.
LEMMA WokenInv ==
    ASSUME RelayInv, NEW c \in Calls, Woken(c)
    PROVE  RelayInv'
<1> DEFINE i == call[c].session
<1>1. UNCHANGED <<browser, agent>> /\ i \in Sessions
  BY CallSlot DEF Woken, Call
<1>2. CASE Activate(i) /\ Quietly(c, Moved(c, "ok"))
  <2>1. PICK r \in Call : r = Moved(c, "ok") /\ r.at = "ok"
    BY Ended DEF Resting
  <2>2. Quietly(c, r) /\ Good(r)
    BY <1>2, <2>1, RestingIsGood DEF Resting
  <2>3. lease' \in [Sessions -> Lease] /\ Exclusive(lease)'
    BY <1>1, <1>2, ActivateKeeps
  <2>4. QED
    BY <1>1, <2>2, <2>3, QuietStep
<1>3. CASE \E place \in {"ok", "failed"} : Quietly(c, Moved(c, place)) /\ UNCHANGED lease
  BY <1>1, <1>3, QuietEnd DEF Resting
<1>4. QED
  BY <1>2, <1>3 DEF Woken

-----------------------------------------------------------------------------
(* The steps of a relay.                                                    *)

\* The action is posted, or cannot be.
LEMMA PostInv ==
    ASSUME RelayInv, NEW c \in Calls, Post(c)
    PROVE  RelayInv'
<1>1. call[c].at \in {"post", "repost"} /\ UNCHANGED <<lease, browser, agent>>
  BY DEF Post
<1>2. PICK place \in {"handle", "rotate", "failed"} : Quietly(c, Moved(c, place))
  BY DEF Post
<1>3. CASE place = "failed"
  BY <1>1, <1>2, <1>3, QuietEnd DEF Resting
<1>4. CASE place \in {"handle", "rotate"}
  BY <1>1, <1>2, <1>4, QuietPlain DEF Plain, Resting, Answering, WithAgent
<1>5. QED
  BY <1>3, <1>4

\* The second comparison: from here on the lease is the session's, or taken.
LEMMA HandleInv ==
    ASSUME RelayInv, NEW c \in Calls, Handle(c)
    PROVE  RelayInv'
<1>1. call[c].at = "handle" /\ UNCHANGED <<lease, browser, agent>>
  BY DEF Handle
<1>2. CASE /\ agent[call[c].slot].lease = call[c].session
           /\ Quietly(c, [Moved(c, "ask") EXCEPT !.steady = TRUE])
  <2> DEFINE m == Moved(c, "ask")
             r == [m EXCEPT !.steady = TRUE]
  <2>1. /\ m \in Call /\ m.at = "ask"
        /\ m.kind = call[c].kind /\ m.session = call[c].session
        /\ m.slot = call[c].slot /\ m.tab = call[c].tab
        /\ (m.acted <=> call[c].acted) /\ (m.home <=> call[c].home)
    BY Onward DEF Places, Resting, WithAgent
  <2> HIDE DEF m
  <2>2. /\ r \in Call /\ r.at = "ask"
        /\ r.kind = call[c].kind /\ r.session = call[c].session
        /\ r.slot = call[c].slot /\ r.tab = call[c].tab
        /\ (r.acted <=> call[c].acted) /\ (r.home <=> call[c].home)
    BY <2>1 DEF Call
  <2>3. Quietly(c, r)
    BY <1>2 DEF m
  <2> HIDE DEF r
  <2>4. Good(call[c])
    BY DEF RelayInv
  <2>5. Good(r)
    BY <1>1, <1>2, <2>2, <2>4 DEF Good, SameRun, Resting, Answering, WithAgent
  <2>6. QED
    BY <1>1, <2>2, <2>3, <2>5, LeaseRests, QuietStep
<1>3. CASE Quietly(c, Moved(c, "failed"))
  BY <1>1, <1>3, QuietEnd DEF Resting
<1>4. QED
  BY <1>2, <1>3 DEF Handle

\* What the browser answers is true of its present run.
LEMMA AskInv ==
    ASSUME RelayInv, NEW c \in Calls,
           Ask(c, "ask", "match") \/ Ask(c, "ask again", "match again")
    PROVE  RelayInv'
<1>1. UNCHANGED <<lease, browser, agent>>
  BY DEF Ask
<1>2. CASE Quietly(c, Broken(c))
  BY <1>1, <1>2, QuietBroken
<1>3. ASSUME NEW place \in {"match", "match again"},
             call[c].at = IF place = "match" THEN "ask" ELSE "ask again",
             Quietly(c, [Moved(c, place) EXCEPT !.seen = browser[call[c].slot].for])
      PROVE  RelayInv'
  <2> DEFINE m == Moved(c, place)
             r == [m EXCEPT !.seen = browser[call[c].slot].for]
  <2>1. /\ m \in Call /\ m.at = place
        /\ m.kind = call[c].kind /\ m.session = call[c].session
        /\ m.slot = call[c].slot /\ m.tab = call[c].tab
        /\ (m.acted <=> call[c].acted) /\ (m.home <=> call[c].home)
        /\ (m.steady <=> call[c].steady)
    BY Onward DEF Places, Resting, WithAgent
  <2> HIDE DEF m
  <2>2. browser[call[c].slot].for \in Bindings
    BY CallSlot DEF RelayInv, TypeOK, Browser
  <2>3. /\ r \in Call /\ r.at = place /\ r.seen = browser[call[c].slot].for
        /\ r.kind = call[c].kind /\ r.session = call[c].session
        /\ r.slot = call[c].slot /\ r.tab = call[c].tab
        /\ (r.acted <=> call[c].acted) /\ (r.home <=> call[c].home)
        /\ (r.steady <=> call[c].steady)
    BY <2>1, <2>2 DEF Call
  <2>4. Quietly(c, r)
    BY <1>3 DEF m
  <2> HIDE DEF r
  <2>5. Good(call[c])
    BY DEF RelayInv
  <2>6. Good(r)
    <3>1. CASE place = "match"
      BY <1>3, <2>3, <2>5, <3>1 DEF Good, SameRun, Resting, Answering, WithAgent
    <3>2. CASE place = "match again"
      BY <1>3, <2>3, <2>5, <3>2 DEF Good, SameRun, Resting, Answering, WithAgent
    <3>3. QED
      BY <3>1, <3>2
  <2>7. QED
    BY <1>1, <2>3, <2>4, <2>6, LeaseRests, QuietStep
<1>4. QED
  BY <1>2, <1>3 DEF Ask

\* The readiness answer is compared with the expectation of the transport.
LEMMA MatchInv ==
    ASSUME RelayInv, NEW c \in Calls,
           Match(c, "match", "own") \/ Match(c, "match again", "own again")
    PROVE  RelayInv'
<1>1. UNCHANGED <<lease, browser, agent>>
  BY DEF Match
<1>2. CASE Quietly(c, Moved(c, "failed"))
  BY <1>1, <1>2, QuietEnd DEF Resting
<1>3. CASE call[c].at = "match again" /\ Quietly(c, Moved(c, "own again"))
  BY <1>1, <1>3, QuietPlain DEF Plain, Resting, Answering, WithAgent
<1>4. CASE call[c].at = "match" /\ Quietly(c, Moved(c, "own"))
  <2> DEFINE r == Moved(c, "own")
  <2>1. /\ r \in Call /\ r.at = "own"
        /\ r.kind = call[c].kind /\ r.session = call[c].session
        /\ r.slot = call[c].slot /\ r.tab = call[c].tab /\ r.seen = call[c].seen
        /\ (r.acted <=> call[c].acted) /\ (r.home <=> call[c].home)
        /\ (r.steady <=> call[c].steady)
    BY Onward DEF Places, Resting, WithAgent
  <2> HIDE DEF r
  <2>2. Good(call[c])
    BY DEF RelayInv
  <2>3. Good(r)
    BY <1>4, <2>1, <2>2 DEF Good, SameRun, Resting, Answering, WithAgent
  <2>4. Quietly(c, r)
    BY <1>4 DEF r
  <2>5. QED
    BY <1>1, <2>1, <2>3, <2>4, LeaseRests, QuietStep
<1>5. QED
  BY <1>2, <1>3, <1>4 DEF Match

\* The answer is the lease's, and a steady lease is the session's.
LEMMA OwnInv ==
    ASSUME RelayInv, NEW c \in Calls, Own(c, "own", "act") \/ OwnAgain(c)
    PROVE  RelayInv'
<1>1. UNCHANGED <<lease, browser, agent>>
  BY DEF Own, OwnAgain
<1>2. CASE \E place \in {"ok", "failed"} : Quietly(c, Moved(c, place))
  BY <1>1, <1>2, QuietEnd DEF Resting
<1>3. CASE /\ call[c].at = "own" /\ agent[call[c].slot].lease = call[c].seen
           /\ Quietly(c, Moved(c, "act"))
  <2> DEFINE r == Moved(c, "act")
  <2>1. /\ r \in Call /\ r.at = "act"
        /\ r.kind = call[c].kind /\ r.session = call[c].session
        /\ r.slot = call[c].slot /\ r.tab = call[c].tab
        /\ (r.acted <=> call[c].acted) /\ (r.home <=> call[c].home)
        /\ (r.steady <=> call[c].steady)
    BY Onward DEF Places, Resting, WithAgent
  <2> HIDE DEF r
  <2>2. Good(call[c])
    BY DEF RelayInv
  <2>3. Good(r)
    BY <1>3, <2>1, <2>2 DEF Good, SameRun, Resting, Answering, WithAgent
  <2>4. Quietly(c, r)
    BY <1>3 DEF r
  <2>5. QED
    BY <1>1, <2>1, <2>3, <2>4, LeaseRests, QuietStep
<1>4. QED
  BY <1>2, <1>3 DEF Own, OwnAgain

\* The action is carried out, or raises.
LEMMA ActInv ==
    ASSUME RelayInv, NEW c \in Calls, Act(c)
    PROVE  RelayInv'
<1>1. call[c].at = "act" /\ UNCHANGED <<lease, browser, agent>>
  BY DEF Act
<1>2. CASE Quietly(c, [Moved(c, "ask again") EXCEPT !.acted = TRUE])
  <2> DEFINE m == Moved(c, "ask again")
             r == [m EXCEPT !.acted = TRUE]
  <2>1. /\ m \in Call /\ m.at = "ask again" /\ Good(m)
    BY <1>1, PlainMove, Onward DEF Plain, Places, Resting, Answering, WithAgent
  <2> HIDE DEF m
  <2>2. /\ r \in Call /\ r.at = m.at /\ r.kind = m.kind /\ r.slot = m.slot
        /\ r.tab = m.tab /\ r.session = m.session /\ (r.home <=> m.home)
    BY <2>1 DEF Call
  <2>3. Quietly(c, r)
    BY <1>2 DEF m
  <2> HIDE DEF r
  <2>4. Good(r)
    BY <2>1, <2>2 DEF Good, SameRun, Answering
  <2>5. QED
    BY <1>1, <2>2, <2>3, <2>4, LeaseRests, QuietStep
<1>3. CASE \E done \in BOOLEAN : Quietly(c, [Broken(c) EXCEPT !.acted = done])
  <2>1. PICK done \in BOOLEAN : Quietly(c, [Broken(c) EXCEPT !.acted = done])
    BY <1>3
  <2> DEFINE m == Broken(c)
             r == [m EXCEPT !.acted = done]
  <2>2. m \in Call /\ m.at = "failed"
    BY BrokenRecord
  <2>3. Quietly(c, r)
    BY <2>1
  <2> HIDE DEF m
  <2>4. r \in Call /\ r.at = "failed"
    BY <2>2 DEF Call
  <2> HIDE DEF r
  <2>5. QED
    BY <1>1, <2>3, <2>4, LeaseRests, RestingIsGood, QuietStep DEF Resting
<1>4. CASE Quietly(c, Moved(c, "failed"))
  BY <1>1, <1>4, QuietEnd DEF Resting
<1>5. QED
  BY <1>2, <1>3, <1>4 DEF Act

\* The three writes of a rotation.
LEMMA RotateInv ==
    ASSUME RelayInv, NEW c \in Calls,
           Rotate(c) \/ RotateOwner(c) \/ RotateGeneration(c)
    PROVE  RelayInv'
<1> DEFINE s == call[c].slot
           i == call[c].session
<1>1. /\ s \in Slots /\ i \in Bindings /\ agent[s] \in Agent
      /\ agent \in [Slots -> Agent]
      /\ UNCHANGED <<lease, browser>> /\ BrowserGoes
      /\ browser' \in [Slots -> Browser]
  BY CallSlot, BrowserRests DEF RelayInv, TypeOK, Rotate, RotateOwner, RotateGeneration
<1>2. CASE Rotate(c)
  <2>1. PICK r \in Call : r = Moved(c, "owner") /\ Good(r)'
    BY <1>1, <1>2, PlainMove DEF Rotate, Plain, Resting, Answering, WithAgent
  <2>2. /\ Unsteadying(c, r)
        /\ agent' = [agent EXCEPT ![call[c].slot].lease = call[c].session]
    BY <1>2, <2>1 DEF Rotate
  <2>3. QED
    BY <1>1, <2>1, <2>2, UnsteadyingStep
<1>3. CASE RotateOwner(c)
  <2> DEFINE a == [agent[s] EXCEPT !.owner = Owner[i]]
  <2>1. PICK r \in Call : r = Moved(c, "generation") /\ Good(r)'
    BY <1>1, <1>3, PlainMove DEF RotateOwner, Plain, Resting, Answering, WithAgent
  <2>2. Disturbing(c, r) /\ agent' = [agent EXCEPT ![s] = a]
    BY <1>3, <2>1 DEF RotateOwner
  <2>3. a \in Agent /\ a.lease = agent[s].lease
    BY <1>1 DEF Agent
  <2> HIDE DEF a
  <2>4. agent' \in [Slots -> Agent] /\ \A x \in Slots : agent'[x].lease = agent[x].lease
    BY <1>1, <2>2, <2>3
  <2>5. QED
    BY <1>1, <2>1, <2>2, <2>4, DisturbingStep
<1>4. CASE RotateGeneration(c)
  <2> DEFINE a == [agent[s] EXCEPT !.generation = i]
  <2>1. PICK r \in Call : Disturbing(c, r) /\ Good(r)'
    <3>1. CASE Disturbing(c, Moved(c, "repost"))
      BY <1>1, <1>4, <3>1, PlainMove
         DEF RotateGeneration, Plain, Resting, Answering, WithAgent
    <3>2. CASE Disturbing(c, Moved(c, "failed"))
      <4>1. PICK r \in Call : r = Moved(c, "failed") /\ r.at = "failed"
        BY Ended DEF Resting
      <4>2. QED
        BY <3>2, <4>1, RestingIsGood DEF Resting
    <3>3. QED
      BY <1>4, <3>1, <3>2 DEF RotateGeneration
  <2>2. agent' = [agent EXCEPT ![s] = a]
    BY <1>4 DEF RotateGeneration
  <2>3. a \in Agent /\ a.lease = agent[s].lease
    BY <1>1 DEF Agent
  <2> HIDE DEF a
  <2>4. agent' \in [Slots -> Agent] /\ \A x \in Slots : agent'[x].lease = agent[x].lease
    BY <1>1, <2>2, <2>3
  <2>5. QED
    BY <1>1, <2>1, <2>4, DisturbingStep
<1>5. QED
  BY <1>2, <1>3, <1>4

-----------------------------------------------------------------------------
(* The environment.                                                         *)

\* An answer is lost, or the router stops waiting for it.
LEMMA LostGiveUpInv ==
    ASSUME RelayInv, NEW c \in Calls, Lost(c) \/ GiveUp(c)
    PROVE  RelayInv'
<1>1. UNCHANGED <<lease, browser, agent>>
  BY DEF Lost, GiveUp
<1>2. CASE Lost(c)
  BY <1>1, <1>2, QuietBroken DEF Lost
<1>3. CASE GiveUp(c)
  <2> DEFINE r == [call[c] EXCEPT !.gone = TRUE, !.alone = FALSE]
  <2>1. call[c] \in Call /\ Good(call[c])
    BY DEF RelayInv, TypeOK
  <2>2. /\ r \in Call /\ r.at = call[c].at /\ r.seen = call[c].seen
        /\ r.kind = call[c].kind /\ r.session = call[c].session
        /\ r.slot = call[c].slot /\ r.tab = call[c].tab
        /\ (r.acted <=> call[c].acted) /\ (r.home <=> call[c].home)
        /\ (r.steady <=> call[c].steady)
    BY <2>1 DEF Call
  <2>3. Quietly(c, r)
    BY <1>3 DEF GiveUp
  <2> HIDE DEF r
  <2>4. Good(r)
    BY <2>1, <2>2 DEF Good, SameRun
  <2>5. QED
    BY <1>1, <2>2, <2>3, <2>4, LeaseRests, QuietStep
<1>4. QED
  BY <1>2, <1>3

\* The session store rearranges the table.
LEMMA StoreStepInv ==
    ASSUME RelayInv, StoreStep
    PROVE  RelayInv'
<1>1. UNCHANGED <<browser, agent>> /\ agent \in [Slots -> Agent]
  BY DEF StoreStep, RelayInv, TypeOK
<1>2. lease' \in [Sessions -> Lease] /\ Exclusive(lease)'
  BY DEF StoreStep, Rearrange, Exclusive
<1>3. \A d \in Calls : Kept(d)
  <2>1. TAKE d \in Calls
  <2>2. call[d] \in Call
    BY CallSlot
  <2>3. call'[d] = [call[d] EXCEPT !.alone = @ /\ lease'[call[d].session]
                                                   = lease[call[d].session]]
    BY DEF StoreStep
  <2>4. /\ call'[d] \in Call
        /\ call'[d].kind = call[d].kind /\ call'[d].session = call[d].session
        /\ call'[d].slot = call[d].slot /\ call'[d].tab = call[d].tab
        /\ call'[d].seen = call[d].seen /\ call'[d].at = call[d].at
        /\ (call'[d].acted <=> call[d].acted) /\ (call'[d].steady <=> call[d].steady)
        /\ (call'[d].home <=> call[d].home)
    BY <2>2, <2>3 DEF Call
  <2>5. QED
    BY <1>1, <2>4 DEF Kept
<1>4. call' \in [Calls -> Call]
  <2>1. \A d \in Calls : call'[d] \in Call
    BY <1>3 DEF Kept
  <2>2. QED
    BY <2>1 DEF StoreStep
<1>5. QED
  BY <1>1, <1>2, <1>3, <1>4, BrowserRests, NoCallChanges

\* A browser fails, is stopped, or is woken by somebody else.
LEMMA BrowserStepInv ==
    ASSUME RelayInv, NEW s \in Slots, BrowserStep(s)
    PROVE  RelayInv'
<1>1. UNCHANGED <<lease, agent>> /\ agent \in [Slots -> Agent] /\ Boot \in Bindings
  BY DEF BrowserStep, RelayInv, TypeOK, Bindings
<1>2. BrowserGoes /\ browser' \in [Slots -> Browser]
  BY <1>1, StopsGoes, StartedGoes DEF BrowserStep
<1>3. \A d \in Calls : Kept(d)
  <2>1. TAKE d \in Calls
  <2>2. call[d] \in Call
    BY CallSlot
  <2>3. call'[d] = [call[d] EXCEPT !.alone = @ /\ call[d].slot # s]
    BY DEF BrowserStep
  <2>4. /\ call'[d] \in Call
        /\ call'[d].kind = call[d].kind /\ call'[d].session = call[d].session
        /\ call'[d].slot = call[d].slot /\ call'[d].tab = call[d].tab
        /\ call'[d].seen = call[d].seen /\ call'[d].at = call[d].at
        /\ (call'[d].acted <=> call[d].acted) /\ (call'[d].steady <=> call[d].steady)
        /\ (call'[d].home <=> call[d].home)
    BY <2>2, <2>3 DEF Call
  <2>5. QED
    BY <1>1, <2>4 DEF Kept
<1>4. call' \in [Calls -> Call]
  <2>1. \A d \in Calls : call'[d] \in Call
    BY <1>3 DEF Kept
  <2>2. QED
    BY <2>1 DEF BrowserStep
<1>5. QED
  BY <1>1, <1>2, <1>3, <1>4, LeaseRests, NoCallChanges

\* Agent control comes back with its configured lease.
LEMMA AgentRestartInv ==
    ASSUME RelayInv, NEW s \in Slots, AgentRestart(s)
    PROVE  RelayInv'
<1>1. UNCHANGED <<lease, browser>> /\ agent \in [Slots -> Agent]
  BY DEF AgentRestart, RelayInv, TypeOK
<1>2. Configured \in Agent
  BY DEF Configured, Agent, Bindings
<1>3. /\ agent' \in [Slots -> Agent]
      /\ \A x \in Slots \ {s} : agent'[x] = agent[x]
  BY <1>1, <1>2 DEF AgentRestart
<1>4. ASSUME NEW d \in Calls
      PROVE  call'[d] \in Call /\ (Kept(d) \/ Good(call[d])')
  <2>1. call[d] \in Call /\ Good(call[d]) /\ call[d].slot \in Slots
    BY CallSlot DEF RelayInv
  <2>2. CASE call[d].slot # s
    <3>1. call'[d] = call[d] /\ agent'[call[d].slot] = agent[call[d].slot]
      BY <1>3, <2>1, <2>2 DEF AgentRestart
    <3>2. QED
      BY <2>1, <3>1 DEF Kept
  <2>3. CASE call[d].slot = s /\ call[d].at \in WithAgent
    <3>1. call'[d] = Broken(d)
      BY <2>3 DEF AgentRestart
    <3>2. call'[d] \in Call /\ call'[d].at = "failed"
      BY <3>1, BrokenRecord
    <3>3. QED
      BY <3>2 DEF Good, SameRun, Resting, WithAgent
  <2>4. CASE call[d].slot = s /\ call[d].at \notin WithAgent
    <3>1. call'[d] = [call[d] EXCEPT !.alone = FALSE]
      BY <2>4 DEF AgentRestart
    <3>2. /\ call'[d] \in Call /\ call'[d].at = call[d].at
          /\ (call'[d].acted <=> call[d].acted)
      BY <2>1, <3>1 DEF Call
    <3>3. QED
      BY <2>1, <2>4, <3>2 DEF Good, SameRun, Resting, Answering, WithAgent
  <2>5. QED
    BY <2>2, <2>3, <2>4
<1>5. call' \in [Calls -> Call]
  BY <1>4 DEF AgentRestart
<1>6. QED
  BY <1>1, <1>3, <1>4, <1>5, LeaseRests, BrowserRests, NoCallChanges

-----------------------------------------------------------------------------
(* The theorems.                                                            *)

\* Nobody has asked for anything.
LEMMA RelayInitInv == RelayInit => RelayInv
<1> SUFFICES ASSUME RelayInit PROVE RelayInv
  OBVIOUS
<1>1. PICK i \in Sessions, s \in Slots : call = [c \in Calls |-> Idle(i, s)]
  BY DEF RelayInit
<1>2. \A c \in Calls : call[c] \in Call /\ call[c].at = "idle"
  BY <1>1, IdleRecord
<1>3. call \in [Calls -> Call]
  BY <1>1, <1>2
<1>4. lease \in [Sessions -> Lease] /\ Exclusive(lease)
  BY DEF RelayInit, Init, Lease, Exclusive
<1>5. browser \in [Slots -> Browser] /\ agent \in [Slots -> Agent]
  BY RelayAssumption DEF RelayInit, Configured, Browser, Agent, Bindings
<1>6. \A c \in Calls : Good(call[c])
  BY <1>2, RestingIsGood DEF Resting
<1>7. QED
  BY <1>3, <1>4, <1>5, <1>6 DEF RelayInv, TypeOK

\* Every step of a call and of its environment.
LEMMA RelayNextInv == RelayInv /\ [RelayNext]_vars => RelayInv'
<1> SUFFICES ASSUME RelayInv, [RelayNext]_vars PROVE RelayInv'
  OBVIOUS
<1>1. ASSUME NEW c \in Calls, ActivationStep(c) PROVE RelayInv'
  BY <1>1, BeginInv, AdoptInv, StartInv, WokenInv DEF ActivationStep
<1>2. ASSUME NEW c \in Calls, RelayStep(c) PROVE RelayInv'
  BY <1>2, BeginInv, PostInv, HandleInv, AskInv, MatchInv, OwnInv, ActInv, RotateInv
     DEF RelayStep
<1>3. ASSUME NEW c \in Calls, Lost(c) \/ GiveUp(c) PROVE RelayInv'
  BY <1>3, LostGiveUpInv
<1>4. CASE StoreStep
  BY <1>4, StoreStepInv
<1>5. ASSUME NEW s \in Slots, BrowserStep(s) \/ AgentRestart(s) PROVE RelayInv'
  BY <1>5, BrowserStepInv, AgentRestartInv
<1>6. CASE UNCHANGED vars
  <2>1. UNCHANGED <<lease, browser, agent, call>>
    BY <1>6 DEF vars
  <2>2. QED
    BY <2>1 DEF RelayInv, TypeOK, Exclusive, Good, SameRun
<1>7. QED
  BY <1>1, <1>2, <1>3, <1>4, <1>5, <1>6 DEF RelayNext

\* The invariant of the relay.
LEMMA RelayInvariant == RelaySpec => []RelayInv
BY RelayInitInv, RelayNextInv, PTL DEF RelaySpec

\* Every variable has its shape, for any sessions, slots and calls.
THEOREM RelayTypeOK == RelaySpec => []TypeOK
BY RelayInvariant, PTL DEF RelayInv

\* No relayed call carries its action out a second time.
THEOREM RelayActsOnce == RelaySpec => ActsOnce
<1>1. RelayInv => \A c \in Calls : Act(c) => ~call[c].acted
  BY DEF RelayInv, Good, Act, Resting, Answering
<1>2. RelayInv => [\A c \in Calls : Act(c) => ~call[c].acted]_vars
  BY <1>1
<1>3. QED
  BY <1>2, RelayInvariant, PTL DEF ActsOnce

\* A page action that is carried out while the agent's lease has not left its
\* session, or on a tab that was the session's own when the call came in, finds
\* the browser running for that session.
THEOREM RelayPageActionsStayHome == RelaySpec => PageActionsStayHome
<1> DEFINE StaysHome(c) ==
      /\ Act(c) /\ call[c].kind = "page" /\ call'[c].acted
      /\ call[c].steady \/ call[c].home
      => browser[call[c].slot].for = call[c].session
<1>1. RelayInv => \A c \in Calls : StaysHome(c)
  <2>1. SUFFICES ASSUME RelayInv, NEW c \in Calls, Act(c), call[c].kind = "page",
                        call'[c].acted, call[c].steady \/ call[c].home
                 PROVE  browser[call[c].slot].for = call[c].session
    OBVIOUS
  <2>2. call[c].at = "act" /\ Good(call[c]) /\ call \in [Calls -> Call]
    BY <2>1 DEF Act, RelayInv, TypeOK
  <2>3. Found(c)
    <3>1. SUFFICES ASSUME ~Found(c) PROVE FALSE
      OBVIOUS
    <3>2. Quietly(c, Moved(c, "failed"))
      BY <2>1, <3>1 DEF Act
    <3>3. call'[c] = Moved(c, "failed")
      BY <2>2, <3>2 DEF Quietly
    <3>4. QED
      BY <2>1, <3>3, Ended DEF Resting
  <2>4. SameRun(call[c])
    BY <2>1, <2>3 DEF Found, SameRun
  <2>5. QED
    BY <2>1, <2>2, <2>4 DEF Good, WithAgent
<1>2. RelayInv => [\A c \in Calls : StaysHome(c)]_vars
  BY <1>1
<1>3. QED
  BY <1>2, RelayInvariant, PTL DEF PageActionsStayHome

\* Whatever the router's handlers do with a session, they do to the table only
\* what SlotLeases allows: a handler that read it long before activates an offer
\* that still stands, by id, or nothing.
THEOREM RelayKeepsLeases == RelaySpec => Spec
<1>1. RelayInit => Init
  BY DEF RelayInit
<1>2. ASSUME RelayInv, [RelayNext]_vars PROVE [Next]_lease
  <2>1. ASSUME NEW c \in Calls, ActivationStep(c) PROVE [Next]_lease
    <3>1. CASE Woken(c)
      <4>1. call[c].session \in Sessions
        BY <1>2 DEF RelayInv, TypeOK, Call
      <4>2. Activate(call[c].session) \/ UNCHANGED lease
        BY <3>1 DEF Woken
      <4>3. QED
        BY <4>1, <4>2 DEF Next
    <3>2. CASE \E i \in Sessions : BeginActivate(c, i)
      BY <3>2 DEF BeginActivate
    <3>3. CASE Adopt(c) \/ Start(c)
      BY <3>3 DEF Adopt, Start
    <3>4. QED
      BY <2>1, <3>1, <3>2, <3>3 DEF ActivationStep
  <2>2. ASSUME NEW c \in Calls, RelayStep(c) PROVE UNCHANGED lease
    BY <2>2 DEF RelayStep, BeginRelay, Post, Handle, Ask, Match, Own,
       Act, OwnAgain, Rotate, RotateOwner, RotateGeneration
  <2>3. ASSUME NEW c \in Calls, Lost(c) \/ GiveUp(c) PROVE UNCHANGED lease
    BY <2>3 DEF Lost, GiveUp
  <2>4. CASE StoreStep
    BY <2>4 DEF StoreStep, Next
  <2>5. ASSUME NEW s \in Slots, BrowserStep(s) \/ AgentRestart(s) PROVE UNCHANGED lease
    BY <2>5 DEF BrowserStep, AgentRestart
  <2>6. CASE UNCHANGED vars
    BY <2>6 DEF vars
  <2>7. QED
    BY <1>2, <2>1, <2>2, <2>3, <2>4, <2>5, <2>6 DEF RelayNext
<1>3. QED
  BY <1>1, <1>2, RelayInvariant, PTL DEF RelaySpec, Spec

-----------------------------------------------------------------------------
(* Calls that nothing disturbs.  Undisturbed is what such a call can rely on  *)
(* at each place: an activation on its session holding the slot and, once     *)
(* woken, on a browser that runs for it; a relay on that browser, on the tab   *)
(* it names and, from the rotation on, on agent control being its session's.  *)

\* The transport expects whom the agent's lease is for.
Agrees(s) ==
    /\ agent[s].owner = Owner[agent[s].lease]
    /\ agent[s].generation = agent[s].lease

\* What an activation has reached at each place on its way.
Waking(r) ==
    /\ lease[r.session].slot = r.slot
    /\ r.at = "start" => browser[r.slot].for = r.session
    /\ r.at = "woken" => Serves(r.slot, r.session)

\* What a relayed call finds at each place on its way.
Relaying(r) ==
    /\ r.kind # "activate"
    /\ Serves(r.slot, r.session)
    /\ r.kind = "page" => r.tab = browser[r.slot].run
    /\ r.at = "post" => Agrees(r.slot)
    /\ r.at \notin {"post", "rotate"} => agent[r.slot].lease = r.session
    /\ r.at \notin {"post", "rotate", "owner"} => agent[r.slot].owner = Owner[r.session]
    /\ r.at \notin {"post", "rotate", "owner", "generation"} =>
          agent[r.slot].generation = r.session
    /\ r.at \in {"match", "own", "match again", "own again"} => r.seen = r.session

\* What an activation that has answered promises.
Served(r) ==
    /\ lease[r.session].status = "ACTIVE" /\ lease[r.session].slot = r.slot
    /\ Serves(r.slot, r.session)

Undisturbed(r) ==
    r.alone =>
        /\ ~r.gone /\ r.at # "failed"
        /\ r.at \in {"adopt", "start", "woken"} => Waking(r)
        /\ r.at \in WithAgent => Relaying(r)
        /\ r.at = "ok" /\ r.kind = "activate" => Served(r)

AllUndisturbed == \A c \in Calls : Undisturbed(call[c])

AloneInv == RelayInv /\ AllUndisturbed

\* Undisturbed, of a call that is under way.
LEMMA OnItsWay ==
    ASSUME NEW r
    PROVE  /\ r.at \in {"adopt", "start", "woken"} =>
                 /\ Undisturbed(r) <=> (r.alone => ~r.gone /\ Waking(r))
                 /\ Undisturbed(r)' <=> (r.alone => ~r.gone /\ Waking(r)')
           /\ r.at \in WithAgent =>
                 /\ Undisturbed(r) <=> (r.alone => ~r.gone /\ Relaying(r))
                 /\ Undisturbed(r)' <=> (r.alone => ~r.gone /\ Relaying(r)')
BY DEF Undisturbed, WithAgent

\* A step leaves what the call relies on as it is, or the call is no longer
\* alone.
Left(d) ==
    call'[d].alone =>
        /\ call[d].alone
        /\ call'[d].kind = call[d].kind /\ call'[d].session = call[d].session
        /\ call'[d].slot = call[d].slot /\ call'[d].tab = call[d].tab
        /\ call'[d].seen = call[d].seen /\ call'[d].at = call[d].at
        /\ call'[d].gone = call[d].gone
        /\ browser'[call[d].slot] = browser[call[d].slot]
        /\ agent'[call[d].slot] = agent[call[d].slot]
        /\ lease'[call[d].session].slot = lease[call[d].session].slot
        /\ lease[call[d].session].status = "ACTIVE" =>
              lease'[call[d].session] = lease[call[d].session]

\* A call that a step leaves alone stays undisturbed.
LEMMA LeftUndisturbed ==
    ASSUME NEW d \in Calls, Undisturbed(call[d]), Left(d)
    PROVE  Undisturbed(call[d])'
<1>1. CASE ~call'[d].alone
  BY <1>1 DEF Undisturbed
<1>2. CASE call'[d].alone
  <2> DEFINE k == call[d]
             m == call'[d]
  <2>1. /\ k.alone /\ m.kind = k.kind /\ m.session = k.session /\ m.slot = k.slot
        /\ m.tab = k.tab /\ m.seen = k.seen /\ m.at = k.at /\ m.gone = k.gone
        /\ browser'[k.slot] = browser[k.slot] /\ agent'[k.slot] = agent[k.slot]
        /\ lease'[k.session].slot = lease[k.session].slot
        /\ lease[k.session].status = "ACTIVE" =>
              lease'[k.session] = lease[k.session]
    BY <1>2 DEF Left
  <2>2. Waking(k) => Waking(k)'
    BY <2>1 DEF Waking, Serves
  <2>3. Relaying(k) => Relaying(k)'
    <3>1. Serves(k.slot, k.session) => Serves(k.slot, k.session)'
      BY <2>1 DEF Serves
    <3>2. Agrees(k.slot) => Agrees(k.slot)'
      BY <2>1 DEF Agrees
    <3>3. QED
      BY <2>1, <3>1, <3>2 DEF Relaying
  <2>4. Served(k) => Served(k)'
    BY <2>1 DEF Served, Serves
  <2>5. QED
    BY <2>1, <2>2, <2>3, <2>4 DEF Undisturbed
<1>3. QED
  BY <1>1, <1>2

\* What holds of the record a call becomes holds of the call.
LEMMA BecomesUndisturbed ==
    ASSUME NEW c, NEW r, call'[c] = r, Undisturbed(r)'
    PROVE  Undisturbed(call[c])'
<1>1. Waking(r)' => Waking(call[c])'
  BY DEF Waking, Serves
<1>2. Relaying(r)' => Relaying(call[c])'
  BY DEF Relaying, Serves, Agrees
<1>3. Served(r)' => Served(call[c])'
  BY DEF Served, Serves
<1>4. QED
  BY <1>1, <1>2, <1>3 DEF Undisturbed

\* A step of one call that changes nothing outside it.
LEMMA QuietLeft ==
    ASSUME AloneInv, NEW c \in Calls, NEW r \in Call, Quietly(c, r), Undisturbed(r),
           UNCHANGED <<lease, browser, agent>>
    PROVE  AllUndisturbed'
<1>1. call \in [Calls -> Call]
  BY DEF AloneInv, RelayInv, TypeOK
<1>2. call'[c] = r /\ \A d \in Calls \ {c} : call'[d] = call[d]
  BY <1>1 DEF Quietly
<1>3. Undisturbed(r)'
  <2>1. Waking(r) => Waking(r)'
    BY DEF Waking, Serves
  <2>2. Relaying(r) => Relaying(r)'
    BY DEF Relaying, Serves, Agrees
  <2>3. Served(r) => Served(r)'
    BY DEF Served, Serves
  <2>4. QED
    BY <2>1, <2>2, <2>3 DEF Undisturbed
<1>4. \A d \in Calls \ {c} : Undisturbed(call[d])'
  <2>1. TAKE d \in Calls \ {c}
  <2>2. Left(d)
    BY <1>2 DEF Left
  <2>3. QED
    BY <2>2, LeftUndisturbed DEF AloneInv, AllUndisturbed
<1>5. Undisturbed(call[c])'
  BY <1>2, <1>3, BecomesUndisturbed
<1>6. QED
  BY <1>4, <1>5 DEF AllUndisturbed

\* A step of one call that changes its own slot disturbs all others there.
LEMMA DisturbingLeft ==
    ASSUME AloneInv, NEW c \in Calls, NEW r \in Call,
           Disturbing(c, r) \/ Unsteadying(c, r), Undisturbed(r)',
           UNCHANGED lease,
           \A s \in Slots \ {call[c].slot} : /\ browser'[s] = browser[s]
                                             /\ agent'[s] = agent[s]
    PROVE  AllUndisturbed'
<1>1. call \in [Calls -> Call]
  BY DEF AloneInv, RelayInv, TypeOK
<1>2. call'[c] = r
  BY DEF Disturbing, Unsteadying
<1>3. \A d \in Calls \ {c} : Left(d)
  <2>1. TAKE d \in Calls \ {c}
  <2>2. call[d] \in Call /\ call[d].slot \in Slots
    BY <1>1 DEF Call
  <2>3. /\ call'[d].alone <=> (call[d].alone /\ call[d].slot # call[c].slot)
        /\ call'[d].kind = call[d].kind /\ call'[d].session = call[d].session
        /\ call'[d].slot = call[d].slot /\ call'[d].tab = call[d].tab
        /\ call'[d].seen = call[d].seen /\ call'[d].at = call[d].at
        /\ call'[d].gone = call[d].gone
    <3>1. CASE Disturbing(c, r)
      <4>1. call'[d] = [call[d] EXCEPT !.alone = @ /\ call[d].slot # call[c].slot]
        BY <3>1 DEF Disturbing
      <4>2. QED
        BY <2>2, <4>1 DEF Call
    <3>2. CASE Unsteadying(c, r)
      <4>1. call'[d] = [call[d] EXCEPT
                       !.alone = @ /\ call[d].slot # call[c].slot,
                       !.steady = @ /\ (call[d].slot = call[c].slot
                                          => call[d].session = call[c].session)]
        BY <3>2 DEF Unsteadying
      <4>2. QED
        BY <2>2, <4>1 DEF Call
    <3>3. QED
      BY <3>1, <3>2
  <2>4. QED
    BY <2>2, <2>3 DEF Left
<1>4. \A d \in Calls \ {c} : Undisturbed(call[d])'
  BY <1>3, LeftUndisturbed DEF AloneInv, AllUndisturbed
<1>5. Undisturbed(call[c])'
  BY <1>2, BecomesUndisturbed
<1>6. QED
  BY <1>4, <1>5 DEF AllUndisturbed

\* A call that fails after it was disturbed.
LEMMA BrokenLeft ==
    ASSUME AloneInv, NEW c \in Calls, UNCHANGED <<lease, agent>>,
           \/ Quietly(c, Broken(c)) /\ UNCHANGED browser
           \/ /\ Disturbing(c, Broken(c))
              /\ \A s \in Slots \ {call[c].slot} : browser'[s] = browser[s]
    PROVE  AllUndisturbed'
<1>1. PICK r \in Call : r = Broken(c) /\ ~r.alone
  BY BrokenRecord DEF AloneInv
<1>2. Undisturbed(r) /\ Undisturbed(r)'
  BY <1>1 DEF Undisturbed
<1>3. QED
  BY <1>1, <1>2, QuietLeft, DisturbingLeft

\* A call that ends well, or fails because it was not alone.
LEMMA QuietEndLeft ==
    ASSUME AloneInv, NEW c \in Calls, NEW place \in {"ok", "failed"},
           Quietly(c, Moved(c, place)), UNCHANGED <<lease, browser, agent>>,
           call[c].alone => place = "ok" /\ call[c].kind # "activate"
    PROVE  AllUndisturbed'
<1>1. PICK r \in Call : /\ r = Moved(c, place) /\ r.at = place /\ ~r.gone
                        /\ r.kind = call[c].kind /\ (r.alone <=> call[c].alone)
  BY Ended DEF AloneInv, Resting
<1>2. Undisturbed(r)
  BY <1>1 DEF Undisturbed, WithAgent
<1>3. QED
  BY <1>1, <1>2, QuietLeft

\* The record r of a call that has moved on to a place.
Follows(c, r, place) ==
    /\ r.at = place
    /\ r.kind = call[c].kind /\ r.session = call[c].session
    /\ r.slot = call[c].slot /\ r.tab = call[c].tab
    /\ place \in {"own", "own again"} => r.seen = call[c].seen
    /\ (r.alone <=> call[c].alone) /\ (r.gone <=> call[c].gone)

\* Moving on changes the place alone.
LEMMA MovedFollows ==
    ASSUME RelayInv, NEW c \in Calls, NEW place \in Places \ Resting
    PROVE  Moved(c, place) \in Call /\ Follows(c, Moved(c, place), place)
BY Onward DEF Follows

\* A call that moves on by itself finds what it should at its new place.
LEMMA QuietMoveLeft ==
    ASSUME AloneInv, NEW c \in Calls, NEW place \in Places \ Resting,
           Quietly(c, Moved(c, place)), UNCHANGED <<lease, browser, agent>>,
           \A r \in Call : Follows(c, r, place) => Undisturbed(r)
    PROVE  AllUndisturbed'
<1>1. PICK r \in Call : r = Moved(c, place) /\ Follows(c, r, place)
  BY MovedFollows DEF AloneInv
<1>2. QED
  BY <1>1, QuietLeft

-----------------------------------------------------------------------------
(* The steps of a call that is undisturbed.                                 *)

\* A call begins undisturbed only where it finds everything settled.
LEMMA BeginAlone ==
    ASSUME AloneInv, NEW c \in Calls, NEW i \in Sessions,
           \/ BeginActivate(c, i)
           \/ BeginRelay(c, i, "list", 0)
           \/ \E tab \in 0..MaxRuns : BeginRelay(c, i, "page", tab)
    PROVE  AllUndisturbed'
<1>1. UNCHANGED <<lease, browser, agent>> /\ lease[i].status \in {"OFFERED", "ACTIVE"}
  BY DEF BeginActivate, BeginRelay
<1>2. lease[i].slot \in Slots
  BY <1>1, Holds DEF AloneInv
<1> DEFINE s == lease[i].slot
           o == Idle(i, s)
<1>3. o \in Call /\ ~o.gone /\ o.slot = s /\ o.session = i
  BY <1>2, IdleRecord
<1> HIDE DEF o
<1>4. PICK r \in Call : Quietly(c, r) /\ Undisturbed(r)
  <2>1. CASE BeginActivate(c, i)
    <3> DEFINE r == [o EXCEPT !.kind = "activate", !.at = "adopt", !.alone = TRUE]
    <3>1. Quietly(c, r)
      BY <2>1 DEF BeginActivate, o
    <3>2. /\ r \in Call /\ r.kind = "activate" /\ r.at = "adopt" /\ ~r.gone
          /\ r.slot = s /\ r.session = i
      BY <1>3 DEF Call, Places, WithSupervisor
    <3> HIDE DEF r
    <3>3. Undisturbed(r)
      BY <3>2, OnItsWay DEF Waking
    <3>4. QED
      BY <3>1, <3>2, <3>3
  <2>2. ASSUME NEW kind \in {"list", "page"}, NEW tab \in 0..MaxRuns,
               BeginRelay(c, i, kind, tab)
        PROVE  \E r \in Call : Quietly(c, r) /\ Undisturbed(r)
    <3> DEFINE ready == /\ Serves(s, i) /\ Settled(s)
                        /\ kind = "page" => tab = browser[s].run
               own == Serves(s, i) /\ tab = browser[s].run
               r == [o EXCEPT !.kind = kind, !.tab = tab, !.at = "post",
                              !.home = own, !.alone = ready]
    <3>1. Quietly(c, r)
      BY <2>2 DEF BeginRelay, o
    <3>2. ready \in BOOLEAN /\ own \in BOOLEAN
      BY DEF Serves
    <3>3. ready => /\ Serves(s, i) /\ Agrees(s)
                   /\ kind = "page" => tab = browser[s].run
      BY DEF Settled, Agrees
    <3> HIDE DEF ready, own
    <3>4. /\ r \in Call /\ r.kind = kind /\ r.at = "post" /\ r.tab = tab /\ ~r.gone
          /\ r.slot = s /\ r.session = i /\ (r.alone <=> ready)
      BY <1>3, <3>2 DEF Call, Places, WithAgent
    <3> HIDE DEF r
    <3>5. Undisturbed(r)
      BY <3>3, <3>4, OnItsWay DEF Relaying, WithAgent
    <3>6. QED
      BY <3>1, <3>4, <3>5
  <2>3. 0 \in 0..MaxRuns
    BY RelayAssumption
  <2>4. QED
    BY <2>1, <2>2, <2>3
<1>5. QED
  BY <1>1, <1>4, QuietLeft

\* What is known of the call that takes the step.
LEMMA Known ==
    ASSUME AloneInv, NEW c \in Calls
    PROVE  /\ RelayInv /\ call[c] \in Call /\ Undisturbed(call[c])
           /\ call[c].slot \in Slots /\ call[c].session \in Sessions
           /\ browser \in [Slots -> Browser] /\ agent \in [Slots -> Agent]
           /\ agent[call[c].slot] \in Agent /\ browser[call[c].slot] \in Browser
BY CallSlot DEF AloneInv, AllUndisturbed, RelayInv, TypeOK, Call

\* An adoption for the session that holds the slot.
LEMMA AdoptAlone ==
    ASSUME AloneInv, NEW c \in Calls, Adopt(c)
    PROVE  AllUndisturbed'
<1> DEFINE s == call[c].slot
           i == call[c].session
<1>1. call[c].at = "adopt" /\ UNCHANGED <<lease, agent>>
  BY DEF Adopt
<1>2. CASE browser[s].for = i /\ Quietly(c, Moved(c, "start")) /\ UNCHANGED browser
  <2>1. ASSUME NEW r \in Call, Follows(c, r, "start") PROVE Undisturbed(r)
    BY <1>1, <1>2, <2>1, Known, OnItsWay DEF Follows, Waking
  <2>2. "start" \in Places \ Resting
    BY DEF Places, WithSupervisor, Resting
  <2>3. QED
    BY <1>1, <1>2, <2>1, <2>2, QuietMoveLeft
<1>3. CASE /\ browser' = [browser EXCEPT ![s].for = i, ![s].state = "stopped"]
           /\ Disturbing(c, Moved(c, "start"))
  <2>1. PICK r \in Call : r = Moved(c, "start") /\ Follows(c, r, "start")
    BY Known, MovedFollows DEF Places, WithSupervisor, Resting
  <2>2. browser'[s].for = i /\ \A x \in Slots \ {s} : browser'[x] = browser[x]
    BY <1>3, Known DEF Browser
  <2>3. Undisturbed(r)'
    BY <1>1, <2>1, <2>2, Known, OnItsWay DEF Follows, Waking
  <2>4. QED
    BY <1>1, <1>3, <2>1, <2>2, <2>3, DisturbingLeft
<1>4. CASE /\ browser' \in {browser, [browser EXCEPT ![s].state = "stopped"]}
           /\ Disturbing(c, Broken(c))
  <2>1. \A x \in Slots \ {s} : browser'[x] = browser[x]
    BY <1>4, Known
  <2>2. QED
    BY <1>1, <1>4, <2>1, BrokenLeft
<1>5. QED
  BY <1>2, <1>3, <1>4 DEF Adopt

\* A start on a slot that nobody else has adopted in between.
LEMMA StartAlone ==
    ASSUME AloneInv, NEW c \in Calls, Start(c)
    PROVE  AllUndisturbed'
<1> DEFINE s == call[c].slot
           i == call[c].session
<1>1. call[c].at = "start" /\ UNCHANGED <<lease, agent>>
  BY DEF Start
<1>2. CASE browser[s].for # i /\ Quietly(c, Moved(c, "failed")) /\ UNCHANGED browser
  <2>1. ~call[c].alone
    BY <1>1, <1>2, Known, OnItsWay DEF Waking
  <2>2. QED
    BY <1>1, <1>2, <2>1, QuietEndLeft
<1>3. CASE Serves(s, i) /\ Quietly(c, Moved(c, "woken")) /\ UNCHANGED browser
  <2>1. ASSUME NEW r \in Call, Follows(c, r, "woken") PROVE Undisturbed(r)
    BY <1>1, <1>3, <2>1, Known, OnItsWay DEF Follows, Waking
  <2>2. "woken" \in Places \ Resting
    BY DEF Places, Resting
  <2>3. QED
    BY <1>1, <1>3, <2>1, <2>2, QuietMoveLeft
<1>4. CASE Quietly(c, Broken(c)) /\ UNCHANGED browser
  BY <1>1, <1>4, BrokenLeft
<1>5. CASE browser[s].for = i /\ Started(s) /\ Disturbing(c, Moved(c, "woken"))
  <2>1. PICK r \in Call : r = Moved(c, "woken") /\ Follows(c, r, "woken")
    BY Known, MovedFollows DEF Places, WithSupervisor, Resting
  <2>2. /\ browser'[s].for = i /\ browser'[s].state = "ready"
        /\ \A x \in Slots \ {s} : browser'[x] = browser[x]
    BY <1>5, Known DEF Browser, Started
  <2>3. Undisturbed(r)'
    <3>1. call[c].alone => ~call[c].gone /\ lease[i].slot = s
      BY <1>1, Known, OnItsWay DEF Waking
    <3>2. r.alone => ~r.gone /\ Waking(r)'
      BY <1>1, <2>1, <2>2, <3>1 DEF Follows, Waking, Serves
    <3>3. QED
      BY <2>1, <3>2, OnItsWay DEF Follows
  <2>4. QED
    BY <1>1, <1>5, <2>1, <2>2, <2>3, DisturbingLeft
<1>6. QED
  BY <1>2, <1>3, <1>4, <1>5 DEF Start

\* The session is activated on the slot that was woken for it.
LEMMA WokenAlone ==
    ASSUME AloneInv, NEW c \in Calls, Woken(c)
    PROVE  AllUndisturbed'
<1> DEFINE s == call[c].slot
           i == call[c].session
<1>1. call[c].at = "woken" /\ UNCHANGED <<browser, agent>>
  BY DEF Woken
<1>2. call[c].alone => ~call[c].gone /\ lease[i].slot = s /\ Serves(s, i)
  BY <1>1, Known, OnItsWay DEF Waking
<1>3. PICK r \in Call : /\ r = Moved(c, "ok") /\ r.at = "ok" /\ ~r.gone
                        /\ r.kind = call[c].kind /\ r.session = i
                        /\ r.slot = s /\ (r.alone <=> call[c].alone)
  BY Known, Ended DEF Resting
<1>4. CASE Activate(i) /\ Quietly(c, r)
  <2>1. lease \in [Sessions -> Lease] /\ call \in [Calls -> Call]
    BY Known DEF RelayInv, TypeOK
  <2>2. \A j \in Sessions : /\ lease'[j].slot = lease[j].slot
                            /\ lease'[j].status = IF j = i THEN "ACTIVE"
                                                  ELSE lease[j].status
                            /\ lease[j].status = "ACTIVE" => lease'[j] = lease[j]
    BY <1>4, <2>1, Known DEF Activate, Lease
  <2>3. call'[c] = r /\ \A d \in Calls \ {c} : call'[d] = call[d]
    BY <1>4, <2>1 DEF Quietly
  <2>4. ASSUME NEW d \in Calls, d # c PROVE Undisturbed(call[d])'
    <3>1. call[d] \in Call /\ call[d].session \in Sessions /\ Undisturbed(call[d])
      BY Known
    <3>2. Left(d)
      BY <1>1, <2>2, <2>3, <2>4, <3>1 DEF Left
    <3>3. QED
      BY <3>1, <3>2, LeftUndisturbed
  <2>5. Undisturbed(call[c])'
    <3>1. r.alone => Served(r)'
      BY <1>1, <1>2, <1>3, <2>2, Known DEF Served, Serves
    <3>2. Undisturbed(r)'
      BY <1>3, <3>1 DEF Undisturbed, WithAgent
    <3>3. QED
      BY <2>3, <3>2, BecomesUndisturbed
  <2>6. QED
    BY <2>4, <2>5 DEF AllUndisturbed
<1>5. CASE lease[i].status = "ACTIVE" /\ Quietly(c, r) /\ UNCHANGED lease
  <2>1. Undisturbed(r)
    BY <1>2, <1>3, <1>5 DEF Undisturbed, Served, WithAgent
  <2>2. QED
    BY <1>1, <1>5, <2>1, QuietLeft
<1>6. CASE /\ call[c].gone \/ lease[i].status \notin {"OFFERED", "ACTIVE"}
           /\ Quietly(c, Moved(c, "failed")) /\ UNCHANGED lease
  <2>1. ~call[c].alone
    <3>1. Exclusive(lease) /\ s \in Slots /\ i \in Sessions
      BY Known DEF RelayInv
    <3>2. QED
      BY <1>2, <1>6, <3>1, RelayAssumption DEF Exclusive
  <2>2. QED
    BY <1>1, <1>6, <2>1, QuietEndLeft
<1>7. QED
  BY <1>3, <1>4, <1>5, <1>6 DEF Woken

\* A lease that is the caller's lets the action in; another sends it to rotate.
LEMMA PostAlone ==
    ASSUME AloneInv, NEW c \in Calls, Post(c)
    PROVE  AllUndisturbed'
<1> DEFINE k == call[c]
<1>1. k.at \in {"post", "repost"} /\ UNCHANGED <<lease, browser, agent>>
  BY DEF Post
<1>2. CASE agent[k.slot].lease = k.session /\ Quietly(c, Moved(c, "handle"))
  <2>1. ASSUME NEW r \in Call, Follows(c, r, "handle") PROVE Undisturbed(r)
    <3>1. k.alone => ~k.gone /\ Relaying(k)
      BY <1>1, Known, OnItsWay DEF WithAgent
    <3>2. r.alone => ~r.gone /\ Relaying(r)
      BY <1>1, <1>2, <2>1, <3>1 DEF Follows, Relaying, Agrees
    <3>3. QED
      BY <2>1, <3>2, OnItsWay DEF Follows, WithAgent
  <2>2. "handle" \in Places \ Resting
    BY DEF Places, WithAgent, Resting
  <2>3. QED
    BY <1>1, <1>2, <2>1, <2>2, QuietMoveLeft
<1>3. CASE k.at = "post" /\ Quietly(c, Moved(c, "rotate"))
  <2>1. ASSUME NEW r \in Call, Follows(c, r, "rotate") PROVE Undisturbed(r)
    <3>1. k.alone => ~k.gone /\ Relaying(k)
      BY <1>1, Known, OnItsWay DEF WithAgent
    <3>2. r.alone => ~r.gone /\ Relaying(r)
      BY <1>3, <2>1, <3>1 DEF Follows, Relaying
    <3>3. QED
      BY <2>1, <3>2, OnItsWay DEF Follows, WithAgent
  <2>2. "rotate" \in Places \ Resting
    BY DEF Places, WithAgent, Resting
  <2>3. QED
    BY <1>1, <1>3, <2>1, <2>2, QuietMoveLeft
<1>4. CASE /\ agent[k.slot].lease # k.session /\ (k.at = "repost" \/ k.gone)
           /\ Quietly(c, Moved(c, "failed"))
  <2>1. ~k.alone
    BY <1>1, <1>4, Known, OnItsWay DEF Relaying, WithAgent
  <2>2. QED
    BY <1>1, <1>4, <2>1, QuietEndLeft
<1>5. QED
  BY <1>1, <1>2, <1>3, <1>4 DEF Post

\* The lease is compared once more, and is still the caller's.
LEMMA HandleAlone ==
    ASSUME AloneInv, NEW c \in Calls, Handle(c)
    PROVE  AllUndisturbed'
<1> DEFINE k == call[c]
<1>1. k.at = "handle" /\ UNCHANGED <<lease, browser, agent>>
  BY DEF Handle
<1>2. CASE Quietly(c, [Moved(c, "ask") EXCEPT !.steady = TRUE])
  <2> DEFINE m == Moved(c, "ask")
             r == [m EXCEPT !.steady = TRUE]
  <2>1. m \in Call /\ Follows(c, m, "ask")
    BY Known, MovedFollows DEF Places, WithAgent, Resting
  <2>2. Quietly(c, r)
    BY <1>2
  <2> HIDE DEF m
  <2>3. r \in Call /\ Follows(c, r, "ask")
    BY <2>1 DEF Call, Follows
  <2> HIDE DEF r
  <2>4. Undisturbed(r)
    <3>1. k.alone => ~k.gone /\ Relaying(k)
      BY <1>1, Known, OnItsWay DEF WithAgent
    <3>2. r.alone => ~r.gone /\ Relaying(r)
      BY <1>1, <2>3, <3>1 DEF Follows, Relaying
    <3>3. QED
      BY <2>3, <3>2, OnItsWay DEF Follows, WithAgent
  <2>5. QED
    BY <1>1, <2>2, <2>3, <2>4, QuietLeft
<1>3. CASE agent[k.slot].lease # k.session /\ Quietly(c, Moved(c, "failed"))
  <2>1. ~k.alone
    BY <1>1, <1>3, Known, OnItsWay DEF Relaying, WithAgent
  <2>2. QED
    BY <1>1, <1>3, <2>1, QuietEndLeft
<1>4. QED
  BY <1>2, <1>3 DEF Handle

\* The browser answers for the session it runs for.
LEMMA AskAlone ==
    ASSUME AloneInv, NEW c \in Calls,
           Ask(c, "ask", "match") \/ Ask(c, "ask again", "match again")
    PROVE  AllUndisturbed'
<1> DEFINE k == call[c]
<1>1. UNCHANGED <<lease, browser, agent>>
  BY DEF Ask
<1>2. CASE Quietly(c, Broken(c))
  BY <1>1, <1>2, BrokenLeft
<1>3. ASSUME NEW place \in {"match", "match again"}, k.at \in {"ask", "ask again"},
             Quietly(c, [Moved(c, place) EXCEPT !.seen = browser[call[c].slot].for])
      PROVE  AllUndisturbed'
  <2> DEFINE m == Moved(c, place)
             r == [m EXCEPT !.seen = browser[call[c].slot].for]
  <2>1. m \in Call /\ Follows(c, m, place)
    BY Known, MovedFollows DEF Places, WithAgent, Resting
  <2>2. Quietly(c, r)
    BY <1>3
  <2>3. browser[k.slot].for \in Bindings
    BY Known DEF Browser
  <2> HIDE DEF m
  <2>4. r \in Call /\ Follows(c, r, place) /\ r.seen = browser[k.slot].for
    BY <2>1, <2>3 DEF Call, Follows
  <2> HIDE DEF r
  <2>5. Undisturbed(r)
    <3>1. k.alone => ~k.gone /\ Relaying(k)
      BY <1>3, Known, OnItsWay DEF WithAgent
    <3>2. r.alone => ~r.gone /\ Relaying(r)
      BY <1>3, <2>4, <3>1 DEF Follows, Relaying, Serves
    <3>3. QED
      BY <2>4, <3>2, OnItsWay DEF Follows, WithAgent
  <2>6. QED
    BY <1>1, <2>2, <2>4, <2>5, QuietLeft
<1>4. QED
  BY <1>2, <1>3 DEF Ask

\* A browser that runs for the caller passes the comparison.
LEMMA MatchAlone ==
    ASSUME AloneInv, NEW c \in Calls,
           Match(c, "match", "own") \/ Match(c, "match again", "own again")
    PROVE  AllUndisturbed'
<1> DEFINE k == call[c]
<1>1. UNCHANGED <<lease, browser, agent>> /\ k.at \in {"match", "match again"}
  BY DEF Match
<1>2. k.alone => /\ k.seen = k.session /\ agent[k.slot].owner = Owner[k.session]
                 /\ agent[k.slot].generation = k.session
  <2>1. k.alone => Relaying(k)
    BY <1>1, Known, OnItsWay DEF WithAgent
  <2>2. QED
    BY <1>1, <2>1 DEF Relaying
<1>3. CASE Quietly(c, Moved(c, "failed")) /\ ~k.alone
  BY <1>1, <1>3, QuietEndLeft
<1>4. ASSUME NEW place \in {"own", "own again"}, Quietly(c, Moved(c, place))
      PROVE  AllUndisturbed'
  <2>1. ASSUME NEW r \in Call, Follows(c, r, place) PROVE Undisturbed(r)
    <3>1. k.alone => ~k.gone /\ Relaying(k)
      BY <1>1, Known, OnItsWay DEF WithAgent
    <3>2. r.alone => ~r.gone /\ Relaying(r)
      BY <1>1, <2>1, <3>1 DEF Follows, Relaying
    <3>3. QED
      BY <2>1, <3>2, OnItsWay DEF Follows, WithAgent
  <2>2. place \in Places \ Resting
    BY DEF Places, WithAgent, Resting
  <2>3. QED
    BY <1>1, <1>4, <2>1, <2>2, QuietMoveLeft
<1>5. QED
  BY <1>2, <1>3, <1>4 DEF Match

\* The lease that is read again is still the caller's.
LEMMA OwnAlone ==
    ASSUME AloneInv, NEW c \in Calls, Own(c, "own", "act") \/ OwnAgain(c)
    PROVE  AllUndisturbed'
<1> DEFINE k == call[c]
<1>1. UNCHANGED <<lease, browser, agent>> /\ k.at \in {"own", "own again"}
  BY DEF Own, OwnAgain
<1>2. k.alone => ~k.gone /\ Relaying(k)
  BY <1>1, Known, OnItsWay DEF WithAgent
<1>3. k.alone => /\ k.seen = k.session /\ agent[k.slot].lease = k.session
                 /\ k.kind # "activate"
  BY <1>1, <1>2 DEF Relaying
<1>4. CASE Quietly(c, Moved(c, "failed")) /\ ~k.alone
  BY <1>1, <1>4, QuietEndLeft
<1>5. CASE Quietly(c, Moved(c, "ok"))
  BY <1>1, <1>3, <1>5, QuietEndLeft
<1>6. CASE Quietly(c, Moved(c, "act"))
  <2>1. ASSUME NEW r \in Call, Follows(c, r, "act") PROVE Undisturbed(r)
    <3>1. r.alone => ~r.gone /\ Relaying(r)
      BY <1>1, <1>2, <2>1 DEF Follows, Relaying
    <3>2. QED
      BY <2>1, <3>1, OnItsWay DEF Follows, WithAgent
  <2>2. "act" \in Places \ Resting
    BY DEF Places, WithAgent, Resting
  <2>3. QED
    BY <1>1, <1>6, <2>1, <2>2, QuietMoveLeft
<1>7. QED
  BY <1>2, <1>3, <1>4, <1>5, <1>6 DEF Own, OwnAgain

\* The browser is ready, and the page is one of its present run.
LEMMA ActAlone ==
    ASSUME AloneInv, NEW c \in Calls, Act(c)
    PROVE  AllUndisturbed'
<1> DEFINE k == call[c]
<1>1. UNCHANGED <<lease, browser, agent>> /\ k.at = "act"
  BY DEF Act
<1>2. k.alone => ~k.gone /\ Relaying(k)
  BY <1>1, Known, OnItsWay DEF WithAgent
<1>3. CASE Quietly(c, [Moved(c, "ask again") EXCEPT !.acted = TRUE])
  <2> DEFINE m == Moved(c, "ask again")
             r == [m EXCEPT !.acted = TRUE]
  <2>1. m \in Call /\ Follows(c, m, "ask again")
    BY Known, MovedFollows DEF Places, WithAgent, Resting
  <2>2. Quietly(c, r)
    BY <1>3
  <2> HIDE DEF m
  <2>3. r \in Call /\ Follows(c, r, "ask again")
    BY <2>1 DEF Call, Follows
  <2> HIDE DEF r
  <2>4. r.alone => ~r.gone /\ Relaying(r)
    BY <1>1, <1>2, <2>3 DEF Follows, Relaying
  <2>5. Undisturbed(r)
    BY <2>3, <2>4, OnItsWay DEF Follows, WithAgent
  <2>6. QED
    BY <1>1, <2>2, <2>3, <2>5, QuietLeft
<1>4. CASE \E done \in BOOLEAN : Quietly(c, [Broken(c) EXCEPT !.acted = done])
  <2>1. PICK done \in BOOLEAN : Quietly(c, [Broken(c) EXCEPT !.acted = done])
    BY <1>4
  <2> DEFINE m == Broken(c)
             r == [m EXCEPT !.acted = done]
  <2>2. m \in Call /\ ~m.alone
    BY Known, BrokenRecord
  <2>3. Quietly(c, r)
    BY <2>1
  <2> HIDE DEF m
  <2>4. r \in Call /\ ~r.alone
    BY <2>2 DEF Call
  <2> HIDE DEF r
  <2>5. QED
    BY <1>1, <2>3, <2>4, QuietLeft DEF Undisturbed
<1>5. CASE ~Found(c) /\ Quietly(c, Moved(c, "failed"))
  <2>1. ~k.alone
    BY <1>2, <1>5 DEF Relaying, Serves, Found
  <2>2. QED
    BY <1>1, <1>5, <2>1, QuietEndLeft
<1>6. QED
  BY <1>3, <1>4, <1>5 DEF Act

\* A rotation brings the lease, then the expectation to the session.
LEMMA RotateAlone ==
    ASSUME AloneInv, NEW c \in Calls,
           Rotate(c) \/ RotateOwner(c) \/ RotateGeneration(c)
    PROVE  AllUndisturbed'
<1> DEFINE k == call[c]
           s == k.slot
           i == k.session
<1>1. /\ UNCHANGED <<lease, browser>> /\ k.at \in {"rotate", "owner", "generation"}
      /\ s \in Slots /\ agent[s] \in Agent /\ agent \in [Slots -> Agent]
  BY Known DEF Rotate, RotateOwner, RotateGeneration
<1>2. k.alone => ~k.gone /\ Relaying(k)
  BY <1>1, Known, OnItsWay DEF WithAgent
<1>3. ASSUME NEW place \in {"owner", "generation", "repost"}, NEW a \in Agent,
             agent' = [agent EXCEPT ![s] = a],
             Disturbing(c, Moved(c, place)) \/ Unsteadying(c, Moved(c, place)),
             k.alone => /\ a.lease = i
                        /\ place # "owner" => a.owner = Owner[i]
                        /\ place = "repost" => a.generation = i
      PROVE  AllUndisturbed'
  <2>1. PICK r \in Call : r = Moved(c, place) /\ Follows(c, r, place)
    BY Known, MovedFollows DEF Places, WithAgent, Resting
  <2>2. agent'[s] = a /\ \A x \in Slots \ {s} : agent'[x] = agent[x]
    BY <1>1, <1>3
  <2>3. r.alone => ~r.gone /\ Relaying(r)'
    BY <1>1, <1>2, <1>3, <2>1, <2>2 DEF Follows, Relaying, Serves
  <2>4. Undisturbed(r)'
    BY <2>1, <2>3, OnItsWay DEF Follows, WithAgent
  <2>5. QED
    BY <1>1, <1>3, <2>1, <2>2, <2>4, DisturbingLeft
<1>4. CASE Rotate(c)
  <2> DEFINE a == [agent[s] EXCEPT !.lease = i]
  <2>1. a \in Agent /\ a.lease = i
    BY <1>1, Known DEF Agent, Bindings
  <2>2. agent' = [agent EXCEPT ![s] = a] /\ Unsteadying(c, Moved(c, "owner"))
    BY <1>4 DEF Rotate
  <2> HIDE DEF a
  <2>3. QED
    BY <1>3, <2>1, <2>2
<1>5. CASE RotateOwner(c)
  <2> DEFINE a == [agent[s] EXCEPT !.owner = Owner[i]]
  <2>1. a \in Agent /\ a.lease = agent[s].lease /\ a.owner = Owner[i]
    BY <1>1, Known DEF Agent, Bindings
  <2>2. agent' = [agent EXCEPT ![s] = a] /\ Disturbing(c, Moved(c, "generation"))
    BY <1>5 DEF RotateOwner
  <2>3. k.alone => agent[s].lease = i
    BY <1>2, <1>5 DEF RotateOwner, Relaying
  <2> HIDE DEF a
  <2>4. QED
    BY <1>3, <2>1, <2>2, <2>3
<1>6. CASE RotateGeneration(c)
  <2> DEFINE a == [agent[s] EXCEPT !.generation = i]
  <2>1. /\ a \in Agent /\ a.lease = agent[s].lease /\ a.owner = agent[s].owner
        /\ a.generation = i
    BY <1>1, Known DEF Agent, Bindings
  <2>2. agent' = [agent EXCEPT ![s] = a]
    BY <1>6 DEF RotateGeneration
  <2>3. k.alone => agent[s].lease = i /\ agent[s].owner = Owner[i]
    BY <1>2, <1>6 DEF RotateGeneration, Relaying
  <2> HIDE DEF a
  <2>4. CASE k.gone /\ Disturbing(c, Moved(c, "failed"))
    <3>1. PICK r \in Call : r = Moved(c, "failed") /\ (r.alone <=> k.alone)
      BY Known, Ended DEF Resting
    <3>2. Undisturbed(r)'
      BY <1>2, <2>4, <3>1 DEF Undisturbed
    <3>3. \A x \in Slots \ {s} : agent'[x] = agent[x]
      BY <1>1, <2>2
    <3>4. QED
      BY <1>1, <2>4, <3>1, <3>2, <3>3, DisturbingLeft
  <2>5. CASE Disturbing(c, Moved(c, "repost"))
    BY <1>3, <2>1, <2>2, <2>3, <2>5
  <2>6. QED
    BY <1>6, <2>4, <2>5 DEF RotateGeneration
<1>7. QED
  BY <1>4, <1>5, <1>6

-----------------------------------------------------------------------------
(* The environment ends or disturbs the calls it touches.                   *)

\* A call whose answer is lost or given up was disturbed.
LEMMA LostGiveUpAlone ==
    ASSUME AloneInv, NEW c \in Calls, Lost(c) \/ GiveUp(c)
    PROVE  AllUndisturbed'
<1>1. CASE Lost(c)
  BY <1>1, BrokenLeft DEF Lost
<1>2. CASE GiveUp(c)
  <2> DEFINE r == [call[c] EXCEPT !.gone = TRUE, !.alone = FALSE]
  <2>1. r \in Call /\ ~r.alone
    BY Known DEF Call
  <2>2. Quietly(c, r) /\ UNCHANGED <<lease, browser, agent>>
    BY <1>2 DEF GiveUp
  <2> HIDE DEF r
  <2>3. QED
    BY <2>1, <2>2, QuietLeft DEF Undisturbed
<1>3. QED
  BY <1>1, <1>2

\* A session whose entry changes disturbs its calls.
LEMMA StoreStepAlone ==
    ASSUME AloneInv, StoreStep
    PROVE  AllUndisturbed'
<1>1. ASSUME NEW d \in Calls PROVE Undisturbed(call[d])'
  <2>1. call'[d] = [call[d] EXCEPT !.alone = @ /\ lease'[call[d].session]
                                                   = lease[call[d].session]]
    BY DEF StoreStep
  <2>2. /\ call'[d].alone <=> (call[d].alone /\ lease'[call[d].session]
                                                  = lease[call[d].session])
        /\ call'[d].kind = call[d].kind /\ call'[d].session = call[d].session
        /\ call'[d].slot = call[d].slot /\ call'[d].tab = call[d].tab
        /\ call'[d].seen = call[d].seen /\ call'[d].at = call[d].at
        /\ call'[d].gone = call[d].gone
    BY <2>1, Known DEF Call
  <2>3. Left(d)
    BY <2>2 DEF Left, StoreStep
  <2>4. QED
    BY <2>3, Known, LeftUndisturbed
<1>2. QED
  BY <1>1 DEF AllUndisturbed

\* Whatever happens to a browser disturbs the calls of its slot.
LEMMA BrowserStepAlone ==
    ASSUME AloneInv, NEW s \in Slots, BrowserStep(s)
    PROVE  AllUndisturbed'
<1>1. UNCHANGED <<lease, agent>> /\ \A x \in Slots \ {s} : browser'[x] = browser[x]
  <2>1. browser \in [Slots -> Browser]
    BY DEF AloneInv, RelayInv, TypeOK
  <2>2. QED
    BY <2>1 DEF BrowserStep, Started
<1>2. ASSUME NEW d \in Calls PROVE Undisturbed(call[d])'
  <2>1. call'[d] = [call[d] EXCEPT !.alone = @ /\ call[d].slot # s]
    BY DEF BrowserStep
  <2>2. /\ call'[d].alone <=> (call[d].alone /\ call[d].slot # s)
        /\ call'[d].kind = call[d].kind /\ call'[d].session = call[d].session
        /\ call'[d].slot = call[d].slot /\ call'[d].tab = call[d].tab
        /\ call'[d].seen = call[d].seen /\ call'[d].at = call[d].at
        /\ call'[d].gone = call[d].gone
    BY <2>1, Known DEF Call
  <2>3. Left(d)
    BY <1>1, <2>2, Known DEF Left
  <2>4. QED
    BY <2>3, Known, LeftUndisturbed
<1>3. QED
  BY <1>2 DEF AllUndisturbed

\* A restart of agent control disturbs the calls of its slot.
LEMMA AgentRestartAlone ==
    ASSUME AloneInv, NEW s \in Slots, AgentRestart(s)
    PROVE  AllUndisturbed'
<1>1. UNCHANGED <<lease, browser>> /\ \A x \in Slots \ {s} : agent'[x] = agent[x]
  BY DEF AgentRestart, AloneInv, RelayInv, TypeOK
<1>2. ASSUME NEW d \in Calls PROVE Undisturbed(call[d])'
  <2>1. CASE call[d].slot # s
    <3>1. call'[d] = call[d]
      BY <2>1 DEF AgentRestart
    <3>2. Left(d)
      BY <1>1, <2>1, <3>1, Known DEF Left
    <3>3. QED
      BY <3>2, Known, LeftUndisturbed
  <2>2. CASE call[d].slot = s
    <3>1. call'[d] = Broken(d) \/ call'[d] = [call[d] EXCEPT !.alone = FALSE]
      BY <2>2 DEF AgentRestart
    <3>2. ~call'[d].alone
      BY <3>1, Known, BrokenRecord DEF Call
    <3>3. QED
      BY <3>2 DEF Undisturbed
  <2>3. QED
    BY <2>1, <2>2
<1>3. QED
  BY <1>2 DEF AllUndisturbed

\* What an undisturbed call relies on holds wherever it is.
LEMMA AloneInvariant == RelaySpec => []AloneInv
<1>1. RelayInit => AllUndisturbed
  BY DEF RelayInit, AllUndisturbed, Undisturbed, Idle
<1>2. AloneInv /\ [RelayNext]_vars => AllUndisturbed'
  <2> SUFFICES ASSUME AloneInv, [RelayNext]_vars PROVE AllUndisturbed'
    OBVIOUS
  <2>1. ASSUME NEW c \in Calls, ActivationStep(c) PROVE AllUndisturbed'
    BY <2>1, BeginAlone, AdoptAlone, StartAlone, WokenAlone DEF ActivationStep
  <2>2. ASSUME NEW c \in Calls, RelayStep(c) PROVE AllUndisturbed'
    BY <2>2, BeginAlone, PostAlone, HandleAlone, AskAlone, MatchAlone, OwnAlone,
       ActAlone, RotateAlone
       DEF RelayStep
  <2>3. ASSUME NEW c \in Calls, Lost(c) \/ GiveUp(c) PROVE AllUndisturbed'
    BY <2>3, LostGiveUpAlone
  <2>4. CASE StoreStep
    BY <2>4, StoreStepAlone
  <2>5. ASSUME NEW s \in Slots, BrowserStep(s) \/ AgentRestart(s) PROVE AllUndisturbed'
    BY <2>5, BrowserStepAlone, AgentRestartAlone
  <2>6. CASE UNCHANGED vars
    BY <2>6, LeftUndisturbed DEF vars, Left, AloneInv, AllUndisturbed
  <2>7. QED
    BY <2>1, <2>2, <2>3, <2>4, <2>5, <2>6 DEF RelayNext
<1>3. QED
  BY <1>1, <1>2, RelayInvariant, PTL DEF RelaySpec, AloneInv

\* A wake of one's own slot and a relay that meets a settled slot fail only if
\* something else touches what they use.
THEOREM RelayAloneSucceeds == RelaySpec => []AloneSucceeds
<1>1. AloneInv => AloneSucceeds
  BY DEF AloneInv, AllUndisturbed, Undisturbed, AloneSucceeds
<1>2. QED
  BY <1>1, AloneInvariant, PTL

\* An activation that has answered has made the session active on the slot it
\* woke, and the browser there runs for it, until something else touches them.
THEOREM RelayActivationServes == RelaySpec => []ActivationServes
<1>1. AloneInv => ActivationServes
  <2>1. SUFFICES ASSUME AloneInv, NEW c \in Calls, call[c].alone,
                        call[c].kind = "activate", call[c].at = "ok"
                 PROVE  /\ lease[call[c].session] = [status |-> "ACTIVE",
                                                    slot |-> call[c].slot]
                        /\ Serves(call[c].slot, call[c].session)
    BY DEF ActivationServes
  <2>2. Served(call[c])
    BY <2>1, Known DEF Undisturbed
  <2>3. lease[call[c].session] \in Lease
    BY <2>1, Known DEF RelayInv, TypeOK
  <2>4. QED
    BY <2>2, <2>3 DEF Served, Lease
<1>2. QED
  BY <1>1, AloneInvariant, PTL

=============================================================================
