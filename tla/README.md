# Cloudbrowser: a verification development

This directory holds TLA+ models of the cloudbrowser product code
(`src/src/cloudbrowser/`, Python), the TLC configurations that check them on
small instances, and TLAPS proofs of what matters most for every value of the
constants.  The specifications under `src/specs/` and the tests were read to
know what the code is meant to do; every definition follows the code itself.
Paths below are relative to `src/src/cloudbrowser/` unless they start with
`src/`.

How to use it (in this directory):

    tlasany RouterSessions.tla                              # parse
    tlc -workers 2 -config MCRouterSessions_core.cfg MCRouterSessions
    tlapm RouterSessionsProofs.tla                          # check the proofs

`PROJECT.json` is the index: components, runs, the source lines every
definition stands for, hazards, findings, theorems, and for every property a
defective variant of a definition (a comment "Defect:" marks it in the module)
under which TLC finds the property violated.

## 1. The system and its parts

A principal (an authenticated person, or an agent acting for one) shares a
small, fixed number of Chromium slots with others.  The router queues
principals and lends them slots; each slot has a supervisor that wakes, rebinds
and stops the browser service of that slot; the browser service owns the
Chromium process; a credential broker performs logins in that browser without
showing secrets to the agent; files downloaded there are attributed to the
principal who held the slot.

    edge auth -> router API -> session store            (lock, state file)
                     |  forwarders
                     v
          control API -> slot supervisor -> lifecycle   (gate, snapshot files)
                              |  HTTP, 5 s timeout
                              v
          browser server -> browser process -> Chromium (lock, watcher thread)
                     ^
          credential broker -> adapters                 (SQLite: nonces,
                                                         idempotency, grants)
          downloads / CloudFiles, viewer, identity link

| component | state | operations | hard behaviour | what makes it correct |
|---|---|---|---|---|
| session store `router/sessions.py` | records, next sequence, JSON state file | enqueue, for_principal, roster, get, activate, leave, renew, backoff, promote_next, load | lapses at any time, crash between save and reply, failing saves, re-sorting of the queue | one holder per slot, one live session per principal, first come first served, lapsed is over, acknowledged is durable |
| browser process `browser_slots/browser_process.py`, `browser_service.py` | state, child, start epoch, binding | start, stop, rebind, readiness, watch, recover | the lock is released while Chromium boots and inside a recovery; crash at any time; shutdown outside the gate | ready serves the binding in force, stopped stays stopped, crashes are handled, no start hangs, one child per profile |
| slot supervisor `router/control_api.py`, `browser_slots/supervisor.py`, `lifecycle.py`, `http_transport.py` | lifecycle state, binding, gate | wake, adopt_binding, suspend, stop, recreate | calls lost or carried out after their timeout, restarts of either container, two requests between gate sections | exclusive gate that is always released, no abandoned start, a takeover stops the previous owner first, owners agree |
| lifecycle and tab snapshots `browser_slots/lifecycle.py` | state machine, two JSON files | capture, restore, transitions | a crash between the two files, files of an earlier generation | tabs are restored for their owner only |
| browser HTTP service `browser_slots/browser_server.py`, `chrome_adapter.py` | lifecycle gate, submit gate, pending submissions | start, stop, binding push, readiness, page actions, broker submissions | requests of three clients around one gate | no page action during a rebind, one submission in flight |
| router API `router/router_api.py`, forwarders | none of its own | open, activate, leave, agent action, credential login, slot commands | reads a session, then calls another service without the lock, then writes by id; gives up on an answer that still comes | an activation that answered serves its session, a call that nothing disturbs succeeds |
| agent control `agent_control.py`, `agent_browser_http.py` | lease, expectation of the transport | rotate, act | two comparisons with other people's state between the request and the action; rotations of two calls; retry after a refusal | an action lands on its own session's page, and once |
| page actions `browser_slots/page_actions.py` | - | the actions on a tab | an action that was carried out and not answered | the named tab or none |
| broker service `credential_broker/service.py`, `coordinator.py`, `api.py` | SQLite database | execute a login | lost replies after a submit, deadline, two workers | a login is dispatched at most once, an unknown outcome is never retried |
| broker request guards `credential_broker/idempotency.py`, `nonce_store.py` | rows | reserve, complete, release, execute, consume | retries racing the first attempt, crash in between, expiry | at most one execution per key, one use per nonce |
| grants and custody `credential_broker/grant_custody.py`, `grant_store.py` | grants, generations, encrypted tokens | provision, revoke, resolve, checkout, rotate, invalidate, rollback | rotation at a remote vault within a local transaction; revocation by another process during a login | no revoked or older grant is used, the stored token is the vault's, a refused token is never sent again |
| login adapters `credential_broker/adapters/*` | per attempt | SSO, form, basic, TOTP, human handoff | page protocols against a third party | secrets go to the expected origin only |
| downloads and CloudFiles `cloudfiles/*`, `downloads/*` | watcher and its binding, staged copies, owners' areas | scan, submit, stage, scan for malware, publish, purge | a download that ends after a handoff, a submission given up while it goes on, two publications to one area | a file belongs to the principal who downloaded it, none is removed before it is stored, a publication that no other overlaps overwrites none |
| viewer `viewer/*` | tokens | mint, resolve, revoke | expiry and revocation during a stream | a token opens its own session only |
| identity link and edge authentication `identity_link_service.py`, `identity_links.py`, `edge_auth.py` | links | resolve, link | two first logins at once | one principal for an external subject |
| service wiring `service_runtime.py`, `health.py` | environment | start the servers | restarts of single containers | - |
| legacy scripts, browser extension, vendored code | - | - | - | left aside |

## 2. Modules

| module | models | kind |
|---|---|---|
| `RouterSessions` | the session store | 4 variables, 12 actions |
| `SlotLeases` | what the session store promises; implemented by `RouterSessions`, used by `AgentRelay` | 1 variable, abstract |
| `AgentRelay` | activation and relayed agent actions over `SlotLeases`, the browsers and agent control | 4 variables, 20 actions |
| `SlotSupervisor` | control API, supervisor and lifecycle over an unreliable browser service | 10 variables, 18 actions |
| `BrowserProcess` | the Chromium owner with its two threads and the shutdown | 10 variables, 16 actions |
| `BrokerRequests` | a login request through the broker's nonce and idempotency stores | 11 variables (4 of them observers), 12 actions |
| `LoginOnce` | what the broker promises of a login request; implemented by `BrokerRequests` | 1 variable, abstract |
| `GrantCustody` | a login under a grant, with the vault, revocations and crashes | 7 variables, 15 actions |
| `DownloadIngest` | a download from the browser's directory into its owner's area | 13 variables, 18 actions |
| `RouterSessionsProofs`, `AgentRelayProofs`, `SlotSupervisorProofs`, `BrowserProcessProofs`, `BrokerRequestsProofs`, `BrokerPromiseProofs`, `GrantCustodyProofs`, `DownloadIngestProofs` | theorems | TLAPS |
| `MC...` | instances for TLC | model values, symmetry, `AskingSpec` |

The composition has two levels.  `AgentRelay` EXTENDS `SlotLeases` and puts the
router's handlers, the browsers and agent control beside the table of sessions;
`RouterSessions` implements that table (`LeasesKept`), so what the relay is shown
to do over any table that keeps the promise it does over the store.
`SlotSupervisor` and `BrowserProcess` look inside two steps of the relay (`Adopt`,
`Start`) and of each other.  `BrokerRequests` ends where a login is dispatched;
`GrantCustody` is what happens then.

### RouterSessions

One action per public method, because each method holds the store's lock from
its first read to its save.  `sessions` is `_sessions`, `nextSeq` is
`_next_sequence`, `disk` is the last file that `_persist_locked` put in place.
`Expired`, `Before`/`Zips`/`Offer` and `Image`/`SaveOver` are
`_expire_locked`, `_assign_waiters_locked` and `_persist_locked`; every action
contains the expiry, the assignment and the save its method performs, in that
order, with the code's own decision whether to save at all.  `Restart` is a
crash followed by `_load`.  `Spec` has the calls the services make;
`StoreSpec` adds `backoff` and `promote_next`, which only tests call.  With
`DiskFaults` a save may raise after memory has changed, and memory keeps the
change, as in the code.

Abstractions.  The ids `q-<n>` are numbers (the code compares them as strings,
which is the same order up to nine of them); display e-mails and request ids
are left out; time is an integer that does not run backwards, where the code
reads `time.time()`; the binding string of an offer is a function of session
and slot, so the slot stands for it.

### SlotLeases

A table of sessions, each waiting, offered a slot, active on one or ended.  It may
be rearranged at any time, as long as no slot is held twice, no session becomes
active except by `Activate` of its own offer on the slot offered, and none comes
back after it ended.  The refinement reads "backed off" as waiting and every
terminal status as ended.

### AgentRelay

A call (`call[c].at`) is the router's handler thread and, while it waits for
them, the threads that serve it in agent control and the supervisor.  An
activation reads the session (`BeginActivate`), wakes its slot in the
supervisor's two gate sections (`Adopt`, `Start`), and activates by id (`Woken`).  A
relayed action reads the session and its slot (`BeginRelay`), posts, and goes
through agent control: the lease is compared (`Post`, `Handle`), the browser is
asked for its readiness (`Ask`), the answer is compared with the transport's
expectation (`Match`) and with the lease (`Own`), the action falls on the named tab
(`Act`), and the browser is asked and compared a second time.  A refusal rotates the agent's lease, which
assigns lease, owner and generation one after the other (`Rotate`, `RotateOwner`,
`RotateGeneration`), and posts once more.  `GiveUp` is the router's timeout: the
action it no longer waits for goes on.  `Lost` is a failing call; the store, the
browsers and agent control take steps of their own (`StoreStep`, `BrowserStep`,
`AgentRestart`) between any two steps of a call.

`steady`, `alone` and `home` are observers: whether the agent's lease has stayed
with the call's session, whether nothing else has touched what the call uses, and
whether the named tab was one of the session's own when the call came in.  No guard
reads them.  The binding of a session on a slot is a function of both, so the
session stands for it; a tab is named by the run of the browser it belongs to,
because Chromium never uses a target id twice.

### SlotSupervisor

A handler thread (`Threads`) goes through places (`pc`), each ended by one call
of the code: a gate entry, one HTTP call, a readiness wait.  `held` is the
supervisor's re-entrant gate; a wake under a new binding takes it twice, in
`adopt_binding` and in `wake`, after `ControlApi.handle` has compared the
bindings without it.  `Call` is one request to the browser service: answered;
lost; or outliving the client's 5 s and carried out later by `LateCall`, in any
order, since Python's RLock does not queue fairly.  `chrome` and `chromeFor` are
the browser service seen from outside: whether Chromium runs and the binding in
force there.  Both containers may restart by themselves.

Abstractions.  Page URLs are left out, so listing and restoring tabs succeeds
or fails.  The transport's expected owner changes only together with the
lifecycle's binding, so `bound` is both.  `LifecycleState.FAILED` is assigned
nowhere in the code and is not in the model.

### BrowserProcess

One action per lock region of `start`, `stop`, `recover_if_crashed` and
`watch`.  `start` is four of them (launch; the probe outside the lock; ready,
exited, timed out or cancelled), and `mine` and `seen` are the local variables
a thread carries from one to the next: the child it launched and the epoch it
compares.  The HTTP handlers are one thread since `browser_server.py` holds
`lifecycle_gate` around start, stop and rebind; the watcher and the shutdown
are outside that gate.  `child` is what the operating system knows, and
`bornFor` remembers for whom a child was launched (an observer: no action reads
it).  `Observed` is the `state` property, which reads a dead child as failed.

### BrokerRequests and LoginOnce

A handler thread of the broker (`task[w].at`) goes through `BrokerHttpServer.handle`:
decode the capability with the wall clock (`Receive`), derive the deadline from
the monotonic clock (`Receipt`), consume the nonce (`Consume`), loop around
`reserve` (`Poll`, `Reserve`), check the deadline and call the coordinator
(`Dispatch`), and record its result (`Return`, `Record`) or mark it unknown
(`MarkUnknown`).  Each of `Consume`, `Reserve`, `Record` and `MarkUnknown` is one
SQLite transaction.  The time it compares with was read before it waited for the
write lock, so `task[w].now` may be older than the clock.  `nonces` and `rows` are
the two tables; they survive `Crash`, which ends every thread.  Any store call may
fail without effect, so the refusing branch of each is always possible.

`Scope` stands for the ten columns of the primary key; a retry is another
capability of the same scope.  `accepted`, `ran`, `lastRun` and `told` are
observers that no action reads.

Abstractions.  The wall clock and the monotonic clock are one clock that does not
run backwards.  The 30 s wait of `execute` is left out, because the deadline of at
most 30 s begins before it and ends first.  What the coordinator does in the
browser is one step between `Dispatch` and `Return`.

`LoginOnce` is the promise to the callers: a login is free, pending or settled;
its operation begins at most once for each time it is pending; it is settled once,
with the operation's own result or "unknown"; every answer is the settled outcome;
and only a settled login may be forgotten.  The refinement mapping reads the stage
off the row of a scope.

### GrantCustody

A login (`login[l].at`) resolves its grant, is revalidated before the fetch and
before the fill (`Resolve`, `Revalidate`), and enters `authorized_operation`: the
process-wide lock of the scope (`TakeLock`), the write reservation of the whole
file and the row (`Reserve`).  Inside it sends the stored token to the vault
(`Mint`), which accepts, replaces or refuses it, reads the vault (`Sync`), stores
the replaced token (`Store`), decrypts and works on the browser (`Use`) and
commits (`Commit`).  Any of these steps may raise (`Abort`), which rolls back
everything since the reservation; a refusal invalidates the grant
(`Invalidate`), by the transaction the code leaves open or opens anew.  `Provision` and
`Revoke` are transactions of their own, possibly of another process; `VaultEnds` is
a session ended at the vault; `Crash` ends all logins and rolls back.

Abstractions.  A grant id is random, here the epoch it was provisioned at;
tokens are numbered in the order the vault gives them out; documents and
cryptography are readable or not.  `refused` and `excused` are observers.

### DownloadIngest

A binding is adopted by a push while the browser is stopped (`Push`), and the
listener rotates the watcher or raises (`Tell`), after which the push is answered
either way.  Push and listener are in one request, which holds the lifecycle gate
to its end: the next push and `StartBrowser` wait for it.  A
completed download (`Complete`) is submitted by the watcher (`Submit`), which
waits three seconds (`GiveUp`) and removes the file on success (`Consume`).  The
receiver's thread stages the body, whole or truncated, and scans it (`Stage`),
puts it in quarantine (`Quarantine`) or chooses a free name (`ChooseName`), checks
the quota (`CheckQuota`), moves the file into the owner's area (`Replace`) and answers (`Accept`,
`Refuse`).  `Purge` empties an area; either service may crash at any step.

Abstractions.  All downloads have one name, since Chromium renames a download whose
name is taken and other names never meet; a file counts one towards the quota;
an adoption is numbered by its push.  `born`, `kept`, `told` and `rivals` are
observers.  The configuration is the deployed one, `CB_BROWSER_AUTOSTART=0`.

## 3. Runs

| run | instance | asks |
|---|---|---|
| `router_sessions` | 3 principals, 2 slots, 4 session ids, 3 instants, offers and leases live 1 | the properties of the store under crashes and lapses, refinement of `SlotLeases` |
| `router_faults` | 2 principals, 1 slot, 2 ids, 3 instants, failing saves, `StoreSpec` | that slots stay exclusive when saves fail |
| `browser_process` | 2 bindings, 3 children, requests up to epoch 4, fair threads | safety and liveness of start, stop, rebind, recovery |
| `browser_orphan` | the same | finding 1: two live children |
| `slot_supervisor` | 2 bindings, 2 threads, 3 faults, fair threads | safety of wake and takeover, release of the gate |
| `supervisor_bounce` | the same | finding 2: a live browser bounced by a retry |
| `supervisor_wedge` | 3 bindings, 1 thread, 1 fault, fair threads, an owner who keeps asking | finding 3: a takeover refused for good |
| `broker_once` | 1 scope, 2 threads, 2 capabilities, 5 instants | agreement of answers, distance of operations, refinement of `LoginOnce` |
| `broker_nonces` | 2 scopes, room for 1 row, 3 instants, both clocks read at once, fair threads and time | a nonce is accepted once; every request ends |
| `agent_relay` | 1 slot, 2 sessions of two principals, 2 calls, 2 runs of the browser | where and how often an action lands; calls that nothing disturbs succeed |
| `grant_custody` | 2 scopes, 2 logins, 3 epochs, 3 tokens, fair logins | what a login may assume of its grant; that the reservation is given up |
| `download_ingest` | 1 owner, 2 adoptions, 2 downloads, 2 submissions, 3 names, quota 2 | attribution when a listener raises, no loss before storing, what overlapping publications may overwrite or exceed |

Stopping is not an error in `agent_relay`, `grant_custody` and `download_ingest`: with
every bound used up nothing is left to do, so their configurations do not check
for deadlock; the other runs do.

### What they show

*Session store.*  `SlotExclusive` relates every pair of sessions, in memory and
in the file a restart would load.  `OneLivePerPrincipal` and `ActiveIsDurable`
are about the difference between memory and file: `enqueue` and `get` may leave
an expiry unsaved, and `_load` expires and assigns anew, so that a restart
replays lapses rather than reviving what had lapsed.  `FifoOrder` and
`LapsedOfferYields` are the queue's fairness in safety form: nobody overtakes a
waiter who keeps its place, and a lapsed offer goes to the tail.
`WaitsForHoldersOnly` is the other half, work conservation: a poll leaves a
session waiting only when every slot is held by a session that has not run out.
`LapsedNeverRenewed` is the sentence "a session that just lapsed is never
resurrected" of `renew`.  `LeasesKept` is the refinement of `SlotLeases`; it
has in it that an id never comes back from a terminal status and keeps its
slot while it is active.  With failing saves only `SlotExclusive` is
claimed: a change whose save failed stays in memory, and a second activate of the
now active session is acknowledged without being saved.

*Browser process.*  `ReadyServesOwner` is the reason for the epoch: a start
that was waiting when the browser was stopped and rebound must not report ready.
`StoppedStaysStopped` says it of the three writers that run late (a start, a
recovery, the failure handler of `watch`).  `CrashIsHandled` and `StartingEnds`
are the liveness of watcher and start-up.

*Supervisor.*  `NoAbandonedStart`: a lifecycle left "starting" would refuse
every later wake, and the clean-up itself makes a call that may fail.
`TakeoverStopsFirst`: the previous owner is untouched until Chromium has
stopped.  `ReadyOwner` relates the two services: it takes three faults in one
wake to make a ready lifecycle and a running Chromium disagree on the owner, and
the bound in the property says so.  `GateIsReleased` is liveness of the gate.

*Broker requests.*  `RunsAreApart` is the store's comment "prefers an
indeterminate result over repeating a browser side effect": two operations of one
scope never begin within a retention period, although a thread may be delayed
between the grant of its reservation and the operation, its lease may end while
the operation runs, another request may settle its row, and the broker may crash
at any point.  `AnswersAgree` says that the late thread does not answer its own
result then.  `NonceOnce` needs the deadline to end no later than the nonce's
expiry, which holds when `handle` reads its two clocks at one instant
(`PromptReceipt`): if time passes between decoding and building the deadline, the
deadline is later by as much, and a thread that waits for the lock in that window
may consume a nonce whose row was already pruned.  Only the idempotency store
guards then, so `broker_once` runs without that assumption.
`RequestEnds` includes the wait for a reservation whose owner died.

*Agent relay.*  An action reads the session, the lease and the browser's owner
long before it is carried out, and the browser's action path does not ask for
whom it acts.  `PageActionsStayHome` says it lands on a browser that runs for its
session, as long as no other session's call takes the agent's lease: a tab that existed
when the call came in does not outlive the owner it was compared with.  If one
does take it, the second comparison is with the wrong session and lets a foreign
browser pass; then it says so still of an action that names a tab of its own
session, since no foreign browser has a tab of that name.  `ActsOnce`
says that the retry after a refusal never repeats an action.  `AloneSucceeds` and
`ActivationServes` are what the retry is for: a call that nothing disturbs
succeeds, whichever earlier session the agent's lease was left with, and an
activation that answered has its session active on a browser that runs for it.

*Grant custody.*  `UsedUnderItsGrant`: from the minting to the end of the work in
the browser the grant is the one that was authorized, whatever other processes
do.  `StoredTokenIsCurrent` relates the file to the vault: outside the gate an active
grant holds the token the vault accepts, unless the vault itself ended the
session or a login that had made the vault replace the token did not get to its
commit (see section 4).  `RefusedNeverRetried`: the invalidation survives the
exception that the refusal raises through the open transaction.
`GateIsReleased`: the reservation of the whole file, which shuts out
revocations, is given up.

*Downloads.*  `AsLastTold`: a download is never submitted for an adoption earlier
than the last one, up to its own, that the listener has taken.  If no listener
raises, that is the adoption it was made under; if one does, the watcher stays
where it was although the push was answered 200, and goes back no further.  It
needs the gate around push and listener: its mutant starts the browser between them.
`ConsumedWasStored`: the watcher removes a file only when the store has had a whole
copy.  `PublicationsCounted`: choosing a name, checking the quota and replacing are
three steps without a lock, so publications that overlap can overwrite each other
and exceed the quota; but a name is taken from another only when one has
overlapped, and the excess is at most one file for each that has, with
retries, purges and crashes in between.

### Bounds and why they are enough

Three principals for two slots make one wait while two hold; four session ids
let one principal leave and come back; three instants let an offer lapse, be
re-offered, become a lease and lapse.  Two children are needed for a
second launch and a third for the launch after a recovery; epoch 4 lets a stop
and a start fall between the two lock regions of a recovery and bounds requests
only, so that the bound never blocks a step that a liveness property waits for.
Two threads are what one gate can interleave; three faults are the fewest that
can part the two owners.  In the broker two threads give a stale time its chance, one that
reads it and one that acts before it is used; two capabilities are a call and its
retry, delivered any number of times; and the clock runs past the last expiry,
lease and retention.  Lengths of two instants leave room to act before and after
each; among the nonces an expiry and a deadline of one instant suffice, which the
lease outlasts.  Two scopes with room for one row make the sweep and the refusal for
capacity happen.  Of the relay, one slot is where two sessions can meet (nothing
but the table is shared by two slots), two calls give each step of one a step of
another in between, and the second run of the browser is a handoff from
one session to the other; the theorems of section 5 cover every number
of runs.  Three epochs are a grant, its replacement and one more; three tokens
a rotation that is lost and the next; two scopes share the file and
not the lock.  Two adoptions, two downloads and two submissions are a handoff with
a file left over and a retry beside the submission it replaces; a quota of
two below three names lets either limit be met first.
`MaxSessions`, `MaxClock`, `MaxChildren`, `MaxEpoch`, `MaxFaults`, `MaxCaps`, `MaxRuns`,
`MaxToken`, `MaxPushes` and `MaxFiles` are the only bounds; the theorems hold for
every value of them.

### Fairness

`BrowserProcess!FairSpec`: a start under way has a deadline that ends it
whatever Chromium does, and the watcher thread wakes every interval, so each of
the two threads takes its next step in the end.  Requests, crashes and the
shutdown carry no fairness.  `SlotSupervisor!FairSpec`: a thread that can go on
does, since each call has the client's timeout and `_wait_ready` its deadline;
no thread is promised the gate ahead of others (weak fairness only).
`BrokerRequests!FairSpec`: each thread goes on, since SQLite's busy timeout
and the network timeouts are cut at the deadline, and time passes however often
requests arrive in between (strong fairness of `Tick`, because an arriving request
disables it for a moment when receipts are prompt).  `GrantCustody!FairSpec`: each
login goes on, because every wait of it (lock, reservation, vault, browser) is
cut at its deadline; revocations, the vault and crashes carry no fairness.
`AskingSpec` adds an owner who keeps asking, which is an assumption about the
environment and is used by one run only, to show that even then the takeover
fails.

## 4. Findings

1. `browser_orphan` (`browser_slots/browser_process.py:275`): a recovery that
   was cancelled marks the browser another start has made ready as failed; the
   next start launches a second Chromium on the same profile and port.
2. `supervisor_bounce` (`router/control_api.py:78`): two wakes of one new
   binding compare it before either has adopted it; the second then
   force-stops the live browser the first has made ready.
3. `supervisor_wedge` (`browser_slots/supervisor.py:138`): a lifecycle that
   says stopped while Chromium runs for another owner is never stopped, and
   every push is refused.

Seen while reading, without a run of their own:

- *Supervisor.*  `suspend`, `stop` and `recreate` are carried out for the boot
  binding that `ControlApi` was constructed with, so after an adoption they are
  refused with `owner_mismatch`, and a wake without a binding adopts the boot
  binding.  A binding push that fails raises `BrowserUnavailable`, which
  `ControlApi.handle` does not catch, so the caller sees a dropped connection.
- *Session store.*  `_load` looks for duplicates of a principal among session
  ids, which never matches.
- *Agent handoff.*  `AgentControlService.handle` compares the readiness with the lease it
  reads again (`agent_control.py:243`), where its docstring (169-171) speaks of
  the lease the action came with, so that an action which names another session's tab,
  with a rotation in between, can fall on it (the case `PageActionsStayHome`
  leaves out); two rotations at once can leave the lease of one session and the expectation of another, which only a further rotation heals; `tabs_list`
  names no tab and can list another session's; a page action the router gave up
  after 3 s is still carried out.
- *Custody.*  When the adapter or the browser raises after the vault has replaced
  the token, the rollback forgets the new token (`grant_custody.py:1069`): the
  next login is refused and the grant invalidated.  `excused` marks exactly this.
  The browser's owner is last compared before the wait for the gate.
- *Downloads.*  With `CB_BROWSER_AUTOSTART=1` (not deployed) the watcher of the
  boot is built outside the registry, so the first push adds a second one while the
  first keeps the boot binding.  A listener that raises leaves the watcher at the
  previous adoption while the push is answered 200 (`browser_server.py:470-478`),
  and `PrincipalBinding` (`cloudfiles/contracts.py:60-91`) refuses names that
  `parse_binding_push` (`browser_service.py:244-256`) takes: the next owner's downloads go
  to the previous one then, where `browser_downloads.py:145-146` says "downloads are
  never attributed to a stale principal".  A file left in the directory at a handoff is
  attributed to the next owner, where `supervisor.py:126-127` says "one
  generation's downloads can never be attributed to another owner".  Two
  publications that overlap can overwrite each other and exceed the quota; a body cut short is published as complete; a scan
  slower than the client's 3 s makes each retry a further copy.
- *HTTP Basic login.*  `browser_server.py:366-395` answers every question after
  the state of a Basic login by `probe`, which reloads the page and raises when no
  challenge appears.  After a password has been accepted none appears, so the
  questions that `credential_broker/adapters/basic.py` asks after its submission
  fail and the login is answered `browser_unavailable`.  The product document
  expects it to succeed (`src/specs/proposals/v0.2/85-credential-broker-prd.md:306`)
  and the test of it calls the browser's object without that path.
- *Configuration.*  `CB_CREDENTIAL_BROKER_TIMEOUT_S` is validated in
  `credential_broker/runtime.py` but not passed on: the server keeps its default
  of 30 s.

## 5. What is proved

| theorem | statement |
|---|---|
| `StoreTypeOK` | `StoreSpec => []TypeOK` |
| `StoreSlotExclusive`, `RouterSlotExclusive` | `StoreSpec => []SlotExclusive`, `Spec => []SlotExclusive` |
| `RouterOneLivePerPrincipal` | `Spec => []OneLivePerPrincipal` |
| `RouterWaitsForHoldersOnly` | `Spec => []WaitsForHoldersOnly` |
| `RouterFifoOrder` | no failing saves: `Spec => FifoOrder` |
| `RouterLapsedOfferYields` | `Spec => LapsedOfferYields` |
| `RouterActiveIsDurable` | no failing saves: `Spec => []ActiveIsDurable` |
| `RouterLapsedNeverRenewed` | no failing saves: `Spec => LapsedNeverRenewed` |
| `RouterLeasesKept` | no failing saves: `Spec => LeasesKept`, the refinement of `SlotLeases` |
| `BrowserTypeOK` | `Spec => []TypeOK` |
| `BrowserReadyServesOwner` | `Spec => []ReadyServesOwner` |
| `BrowserStoppedStaysStopped` | `Spec => StoppedStaysStopped` |
| `BrowserStartIsAwaited` | `Spec => []StartIsAwaited`: a start has a thread to end it |
| `SupervisorTypeOK` | `Spec => []TypeOK` |
| `SupervisorNoAbandonedStart` | `Spec => []NoAbandonedStart` |
| `SupervisorReadyOwner` | `Spec => []ReadyOwner` |
| `SupervisorTakeoverStopsFirst` | `Spec => TakeoverStopsFirst` |
| `SupervisorGateAdvances` | `Spec => GateAdvances`: who is in the gate only moves forward |
| `BrokerTyped` | `Spec => []TypeOK` |
| `BrokerNonceOnce` | `PromptReceipt` implies `Spec => []NonceOnce` |
| `BrokerStoresBounded` | `Spec => []StoresBounded`: neither store outgrows its bound |
| `BrokerRunsAreApart` | `Spec => RunsAreApart` |
| `BrokerImplementsLoginOnce` | `Spec => ImplementsLoginOnce` |
| `BrokerAnswersAgree` | `Spec => []AnswersAgree` |
| `RelayTypeOK` | `RelaySpec => []TypeOK` |
| `RelayActsOnce`, `RelayPageActionsStayHome` | `RelaySpec => ActsOnce`, `RelaySpec => PageActionsStayHome` |
| `RelayAloneSucceeds` | `RelaySpec => []AloneSucceeds` |
| `RelayActivationServes` | `RelaySpec => []ActivationServes` |
| `RelayKeepsLeases` | `RelaySpec => SlotLeases!Spec`, the other half of the composition |
| `CustodyTypeOK` | `Spec => []TypeOK` |
| `CustodyUsedUnderItsGrant` | `Spec => []UsedUnderItsGrant` |
| `CustodyStoredTokenIsCurrent` | `Spec => []StoredTokenIsCurrent` |
| `CustodyRefusedNeverRetried` | `Spec => RefusedNeverRetried` |
| `CustodyLocksOwned` | `Spec => []LocksOwned`: a scope's lock is held by the login at work on it |
| `CustodyGateAdvances` | `Spec => GateAdvances`: who is in the gate only moves forward, over a file that stands still |
| `IngestTypeOK`, `IngestAsLastTold` | `Spec => []TypeOK`, `Spec => []AsLastTold` |
| `IngestConsumedWasStored`, `IngestPublicationsCounted` | `Spec => ConsumedWasStored`, `Spec => PublicationsCounted` |

The assumptions are `RouterAssumption`, `BrowserAssumption`, `SupervisorAssumption`,
`BrokerAssumption`, `RelayAssumption`, `CustodyAssumption` and `IngestAssumption`, each
in the module that declares the constants.  The one that is more than a type is
`Outer <= Lease`: the request timeout is at most the reservation lease.  They are
30 s and 60 s: no caller passes another value, but no check compares the two either.

*Router.*  `IInv` is `TypeOK /\ SlotExclusive`, inductive because `SlotsHeldOnce`
ties "offered or active" to "has a slot" for memory and file alike.  The lemmas
say that `Expired` keeps a set of records exclusive, and that an offer along a
zip does: a zip is an injection into the free slots.  Each action is then an
expiry, an offer and a change of one record, and the file is one of the exclusive
sets the action passed through.  `PInv` adds that live sessions, in memory and
in the file, have distinct principals and that offers and windows carry their
deadlines; with it an expiry frees every slot whose holder has run out, and a
zip that is as long as it can be leaves a waiter only when no slot is free.
`RInv` adds, while no save fails, that each record of the file is the one in
memory or differs by lapses and offers alone that have happened since (`Recorded`),
so that a reload is one more refresh; durability, lapses that stay lapsed and the
refinement follow from it.
`FifoOrder` is the hardest of these for a reload, which starts from a file in which
a session may still wait that memory has offered a slot: were it left waiting now,
it would join ahead of those that came after it.  `QInv` therefore says that the
file lags only by offers that some assignment made from the file's own records gave
(`Reached`), that no place lies in the future and that nobody has backed off.  The
lemma `ZipAgain` does the rest by counting: an assignment made later from the same
records has at least the free slots of the earlier one, since time only frees them;
whoever lapsed in between joined behind; so if it left out a session that the earlier
one reached, it would fill at least as many slots with fewer sessions.
With `backoff`, which no service calls, `QInv` would not hold: a session whose
backoff ends takes its old place again.

*Browser.*  `BrowserInv` adds to `TypeOK`: an owned child was born for the
binding in force; a stopped browser owns none; a ready one owns one; a thread in
a start that was not cancelled owns the child it launched in state "starting" or
later; a recovery whose epoch is current has seen the browser failed, not
stopped.  The last two are what makes the epoch comparison sufficient.
`StartIsAwaited` is the safety half of `StartingEnds`: whoever cancels the thread
that waits for Chromium has, in the same locked section, ended the start or become
the one that waits.

*Supervisor.*  `SupervisorInv` joins the types, "past the gate iff holding it",
`NoAbandonedStart`, and: a thread past the wake's entry or the owner check works
for the binding in force.  The last is what the takeover theorem needs: a holder
whose request is for another binding can only be in the two adoption places.
`OwnerInv` adds what `ReadyOwner` needs: the late starts, stops and pushes still
on their way have cost a fault each; a push is made while the lifecycle is
stopped and a start while it is starting; and while it is ready with fewer than
three faults, a Chromium that is up, or that a late start may yet bring up,
belongs to the owner.  To part them a late stop, a late push and a late start
have to be on their way at once.
`GateAdvances` orders the places past the gate by how many are still to come
(`ToGo`, at most five) and shows that each step of the holder goes down in it: the
safety half of `GateIsReleased`, which needs only that the holder's thread goes on.

*Broker.*  `NonceInv` joins "a nonce that was accepted is in the table or has
expired" with "a thread's deadline is not later than the expiry of its nonce".
`RunsAreApart` rests on three layers.  `HoldInv`: a deadline is at most `Outer` from
the time a thread read before reserving, and no two threads hold one owner token.
`ApartInv` for rows: a row that lets a new operation begin, now or when its time is
up, is at least a retention away from the last one.  `ApartInv` for owners: within
its lease a granted row still stands and is unused, so that a dispatch, which the
deadline keeps within the lease, is the first; and what an owner writes back
carries a time not older than its operation.  The refinement then reads each
transaction as a set of turns (`Turn`), one per scope, each of which is a move of
`LoginOnce`; `AnswersAgree` is proved of `LoginOnce`'s moves alone.
`StoresBounded` counts: a store takes one more (`OneMore`) only in the transaction
that found room in what its sweep left.

*Relay.*  `RelayInv` joins the types, the table's `Exclusive`, and one fact `Good`
about each call that depends on no other call: before `Act` it has not acted;
while it is steady the agent's lease is its session's; and as long as the browser
is still in the run of the named tab, it runs for whom it answered it runs for,
and at `Act` for the call's session; and if that tab was the session's own when the
call came in, it runs for the session at every place.  A browser that is given to another owner is
stopped, so it is another run before it is ready again: that is why a tab's name
is enough to protect it.
`AloneInv` adds, for each call that nothing has disturbed, what it relies on at its
place (`Undisturbed`): an activation that its session holds the slot, and from
"woken" on that the browser runs for it; a relayed action that the browser runs for
its session in the run of the tab it names, and one more of the three writes of a
rotation (lease, owner, generation) at each place that follows.  A step of another
call or of the environment leaves all that alone or ends the being alone (`Left`);
a step of the call itself brings it to the next place, and failing is not among
the steps whose guards it meets.  `RelayKeepsLeases` says that the handlers do
nothing to the table that `SlotLeases` forbids; with `RouterLeasesKept` it is what
allows the relay to be read over the table alone.

*Custody.*  `CustodyInv`: the writer is the one login past the reservation and
holds its scope's lock (`Gate`); a login in the gate is authorized for the committed
row; the tokens a login carries are the row's and the vault's (`Tokens`); an active
row holds no refused token (`Rows`).  Provision and revoke need the reservation,
so they find no login in the gate; that is the whole of `UsedUnderItsGrant`.
`LocksOwned` is an invariant beside it: a lock names a login exactly while that
login is between taking it and its end, so none is ever left behind.  `GateAdvances`
is the safety half of `GateIsReleased`, as in the supervisor.

*Downloads.*  `IngestInv`: what is in flight is a download that was made, for a
binding that was pushed (`InFlight`); at most one
submission is waited for, of the download in the directory (`Heard`); "stored" means
that the download in the directory was kept (`Done`); the browser runs only when
no push is being handled, and the watcher, when there is one, is at no earlier
adoption than any the listener has taken (`Followed`), which with the adoption in
force being the last one makes `AsLastTold` inductive.
`Publication` counts.  A publication knows every other one to its owner's
area that is under way (`rivals`); one that has none has its name free still; and one
that has passed the quota check has room for as many files as it has rivals, less
those that stored before it: the taken names and the rivals that are still
`Ahead` of it, past their checks, stay together below quota and rivals.  A rival
that stores leaves `Ahead` as it takes a name, so the sum stands.  This is where
`Submissions` has to be finite.

## 6. Only model-checked

Every safety and action property of a passing run is stated by a theorem.  All liveness
(`CrashIsHandled`, `StartingEnds`, both `GateIsReleased`, `RequestEnds`) stays with
TLC, because the prover does not reason about `ENABLED` and so about fairness; so
does what the violation runs show.  Of `StartingEnds` and of both `GateIsReleased`
the part that needs no fairness is proved (`BrowserStartIsAwaited`,
`SupervisorGateAdvances`, `CustodyGateAdvances`).  `StartIsAwaited`, `LocksOwned`,
`StoresBounded` and the two `GateAdvances` are defined beside their proofs and are
checked by no run.

## 7. Not modelled

- *Tab snapshots* (`lifecycle.py:125`): two files written one after the other; what
  a crash between them leaves is page data that no other state depends on.
- *Page actions and browser HTTP service*, in part: framing, bounds on page text
  and JavaScript; the submission endpoints of the login adapters.
- *Broker service*, in part: target preflight, declarations, the audit line.
- *Custody*, in part: offline backup, migration and schema rollback, status and
  audit reads, the older `grant_store.py`, `fetch()` (not wired), the cryptography.
- *Downloads*, in part: listing and reading, `cloudfiles/store.py` (not wired).
- *Login adapters*: each is one thread driving a third party's page inside the
  gate of `GrantCustody`, where it is a step that returns or raises.
- *Viewer*: a table of tokens under one lock, no step of which spans two states.
- *Identity link, edge authentication*: one transaction per operation, stateless
  checks; the principal they yield is taken as given.
- *Service wiring*: its effect, a boot binding per service, is assumed.
- *Legacy scripts, browser extension, vendored code*: kept for migration.
