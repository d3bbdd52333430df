--------------------------- MODULE RouterSessions ---------------------------
(***************************************************************************)
(* RouterSessionStore (src/src/cloudbrowser/router/sessions.py): the FIFO   *)
(* queue that hands the browser slots to principals, under one re-entrant   *)
(* lock, with a wall clock read inside the lock and one state file replaced *)
(* atomically.  Every public method is one action: it runs under the lock   *)
(* from the first read to the save.  Restart is a crash followed by _load.  *)
(*                                                                         *)
(* Session ids are the numbers of "q-<n>", slots the positions of the slot  *)
(* tuple, and 0 stands for None in a time or slot field.  The binding of an *)
(* offered session is a function of the session and its slot (profile,      *)
(* principal, browser, generation), so the slot field stands for both.      *)
(***************************************************************************)
EXTENDS Naturals, FiniteSets

CONSTANTS
    Principals,    \* identities the edge resolves to
    NoPrincipal,   \* owner of a session id that is not in use yet
    NumSlots,      \* length of the configured slot tuple
    OfferTtl,      \* offer_ttl_s
    SessionTtl,    \* session_ttl_s
    BackoffTtl,    \* backoff_ttl_s
    MaxSessions,   \* bound of the model: session ids ever created
    MaxClock,      \* bound of the model: last instant
    DiskFaults     \* whether a save may raise after memory has changed

ASSUME RouterAssumption ==
    /\ NoPrincipal \notin Principals
    /\ NumSlots \in Nat \ {0}
    /\ OfferTtl \in Nat \ {0}
    /\ SessionTtl \in Nat \ {0}
    /\ BackoffTtl \in Nat \ {0}
    /\ MaxSessions \in Nat
    /\ MaxClock \in Nat
    /\ DiskFaults \in BOOLEAN

VARIABLES
    clock,         \* time.time(), an integer here, starting at 1
    sessions,      \* _sessions: every record ever created, by session id
    nextSeq,       \* _next_sequence
    disk           \* the state file: the last saved records and sequence

vars == <<clock, sessions, nextSeq, disk>>

Absent == 0
Ids == 1..MaxSessions
Slots == 1..NumSlots

\* Defect: a queued session does not count as live.
LiveWithoutWaiting == {"OFFERED", "ACTIVE", "BACKED_OFF"}

Live == {"WAITING", "OFFERED", "ACTIVE", "BACKED_OFF"}
Terminal == {"STOPPED", "LEFT"}
Holding == {"OFFERED", "ACTIVE"}

Session == [principal : Principals \cup {NoPrincipal},
            status : Live \cup Terminal \cup {"NONE"},
            enqueuedAt : Nat,
            slot : Slots \cup {Absent},
            offerExpiresAt : Nat,
            sessionExpiresAt : Nat,
            backoffUntil : Nat]

\* A session id that has not been handed out.
Unused == [principal |-> NoPrincipal, status |-> "NONE", enqueuedAt |-> Absent,
           slot |-> Absent, offerExpiresAt |-> Absent,
           sessionExpiresAt |-> Absent, backoffUntil |-> Absent]

NewSession(p, now) ==
    [Unused EXCEPT !.principal = p, !.status = "WAITING", !.enqueuedAt = now]

(***************************************************************************)
(* _expire_locked: what one record becomes when the clock reads now.        *)
(***************************************************************************)
\* Defect: a deadline has to be passed, not reached.
LapsedAfter(deadline, now) == deadline # Absent /\ now > deadline

Lapsed(deadline, now) == deadline # Absent /\ now >= deadline

\* Defect: a lapsed offer keeps its old place in the queue.
ExpiredKeepingPlace(r, now) ==
    CASE r.status = "OFFERED" /\ Lapsed(r.offerExpiresAt, now) ->
           [r EXCEPT !.status = "WAITING", !.slot = Absent, !.offerExpiresAt = Absent]
      [] r.status = "ACTIVE" /\ Lapsed(r.sessionExpiresAt, now) ->
           [r EXCEPT !.status = "STOPPED", !.slot = Absent,
                     !.sessionExpiresAt = Absent]
      [] OTHER -> r

Expired(r, now) ==
    CASE r.status = "OFFERED" /\ Lapsed(r.offerExpiresAt, now) ->
           \* back to the tail of the queue
           [r EXCEPT !.status = "WAITING", !.slot = Absent,
                     !.offerExpiresAt = Absent, !.enqueuedAt = now]
      [] r.status = "ACTIVE" /\ Lapsed(r.sessionExpiresAt, now) ->
           [r EXCEPT !.status = "STOPPED", !.slot = Absent,
                     !.sessionExpiresAt = Absent]
      [] r.status = "BACKED_OFF" /\ Lapsed(r.backoffUntil, now) ->
           [r EXCEPT !.status = "WAITING", !.backoffUntil = Absent]
      [] OTHER -> r

Expire(S, now) == [i \in Ids |-> Expired(S[i], now)]

(***************************************************************************)
(* _assign_waiters_locked: zip(sorted waiters, free slots in tuple order).  *)
(* A zip is the order-preserving function from the first waiters to the     *)
(* first free slots whose domain is as large as both allow.                 *)
(***************************************************************************)
Waiting(S) == {i \in Ids : S[i].status = "WAITING"}
\* Defect: an offer does not reserve its slot until it is activated.
OccupiedByActive(S) == {S[i].slot : i \in {j \in Ids : S[j].status = "ACTIVE"}}
Occupied(S) == {S[i].slot : i \in {j \in Ids : S[j].status \in Holding}}
\* Defect: one slot more than the configured tuple has.
FreeOneTooMany(S) == 1..(NumSlots + 1) \ Occupied(S)
Free(S) == Slots \ Occupied(S)

\* Defect: waiters sorted by session id alone.
BeforeById(S, i, j) == i < j

\* The sort key (enqueued_at, session_id).
Before(S, i, j) ==
    \/ S[i].enqueuedAt < S[j].enqueuedAt
    \/ S[i].enqueuedAt = S[j].enqueuedAt /\ i < j

IsZip(S, f) ==
    /\ \A i, j \in DOMAIN f : Before(S, i, j) => f[i] < f[j]
    /\ \A i \in DOMAIN f, j \in Waiting(S) \ DOMAIN f : Before(S, i, j)
    /\ \A i \in DOMAIN f, s \in Free(S) : s < f[i] => \E j \in DOMAIN f : f[j] = s
    /\ DOMAIN f = Waiting(S) \/ {f[i] : i \in DOMAIN f} = Free(S)

Zips(S) == {f \in UNION {[P -> Free(S)] : P \in SUBSET Waiting(S)} : IsZip(S, f)}

Offer(S, f, now) ==
    [i \in Ids |-> IF i \in DOMAIN f
                   THEN [S[i] EXCEPT !.status = "OFFERED", !.slot = f[i],
                                     !.offerExpiresAt = now + OfferTtl]
                   ELSE S[i]]

(***************************************************************************)
(* _persist_locked replaces the file with what is in memory; when it raises *)
(* the file keeps what it held before and memory keeps the change.          *)
(***************************************************************************)
Image(S, n) == [sessions |-> S, nextSeq |-> n]

\* Defect: the save is skipped.
SkippedSave(kept) == disk' = kept

SaveOver(kept) ==
    disk' \in {Image(sessions', nextSeq')} \cup (IF DiskFaults THEN {kept} ELSE {})

Save == SaveOver(disk)

SaveIf(changed) == IF changed THEN Save ELSE UNCHANGED disk

LiveOf(S, p) == {i \in Ids : S[i].principal = p /\ S[i].status \in Live}

(***************************************************************************)
(* for_principal and roster: expire, assign, save when either did anything. *)
(***************************************************************************)
Poll ==
    \E f \in Zips(Expire(sessions, clock)) :
        /\ sessions' = Offer(Expire(sessions, clock), f, clock)
        /\ UNCHANGED <<clock, nextSeq>>
        /\ SaveIf(sessions' # sessions)

\* get: expire without assigning.
Get ==
    /\ sessions' = Expire(sessions, clock)
    /\ UNCHANGED <<clock, nextSeq>>
    /\ SaveIf(sessions' # sessions)

(***************************************************************************)
(* enqueue when the caller already has a live session: its own expiry step  *)
(* is never saved unless the nested for_principal also offers something.    *)
(***************************************************************************)
EnqueueExisting(p) ==
    LET E == Expire(sessions, clock)
    IN  \E f \in Zips(E) :
            /\ LiveOf(E, p) # {}
            /\ sessions' = Offer(E, f, clock)
            /\ UNCHANGED <<clock, nextSeq>>
            /\ SaveIf(DOMAIN f # {})

\* enqueue of a caller without a live session: a new record at the tail.
EnqueueNew(p) ==
    LET E == Expire(sessions, clock)
    IN  \E f \in Zips(E), id \in Ids :
            LET T == Offer(E, f, clock)
                N == [T EXCEPT ![id] = NewSession(p, clock)]
            IN  /\ LiveOf(E, p) = {}
                /\ id >= nextSeq /\ T[id].status = "NONE"
                /\ \A j \in nextSeq..(id - 1) : T[j].status # "NONE"
                /\ \E g \in Zips(N) : sessions' = Offer(N, g, clock)
                /\ nextSeq' = id + 1
                /\ UNCHANGED clock
                /\ SaveOver(IF DOMAIN f # {} THEN Image(T, nextSeq) ELSE disk)

\* Defect: activation does not check the status.
ActivateAnyStatus(i) ==
    /\ sessions[i].status # "NONE"
    /\ sessions' = [sessions EXCEPT ![i].status = "ACTIVE",
                                    ![i].offerExpiresAt = Absent,
                                    ![i].sessionExpiresAt = clock + SessionTtl]
    /\ UNCHANGED <<clock, nextSeq>>
    /\ Save

\* activate of an offered session; the offer's own deadline is not consulted.
Activate(i) ==
    /\ sessions[i].status = "OFFERED"
    /\ sessions' = [sessions EXCEPT ![i].status = "ACTIVE",
                                    ![i].offerExpiresAt = Absent,
                                    ![i].sessionExpiresAt = clock + SessionTtl]
    /\ UNCHANGED <<clock, nextSeq>>
    /\ Save

\* leave, from any status; the slot is freed but not handed on here.
Leave(i) ==
    /\ sessions[i].status # "NONE"
    /\ sessions' = [sessions EXCEPT ![i].status = "LEFT", ![i].slot = Absent,
                                    ![i].offerExpiresAt = Absent,
                                    ![i].sessionExpiresAt = Absent]
    /\ UNCHANGED <<clock, nextSeq>>
    /\ Save

(***************************************************************************)
(* renew: for_principal, then a full window for the caller's active lease.  *)
(* for_principal returns the best candidate: active, offered, waiting, then *)
(* backed off; the most recently enqueued among equals.                     *)
(***************************************************************************)
Rank(status) == CASE status = "ACTIVE" -> 0
                  [] status = "OFFERED" -> 1
                  [] status = "WAITING" -> 2
                  [] OTHER -> 3

IsCurrent(S, p, i) ==
    /\ i \in LiveOf(S, p)
    /\ \A j \in LiveOf(S, p) \ {i} :
          \/ Rank(S[i].status) < Rank(S[j].status)
          \/ /\ Rank(S[i].status) = Rank(S[j].status)
             /\ \/ S[i].enqueuedAt > S[j].enqueuedAt
                \/ S[i].enqueuedAt = S[j].enqueuedAt /\ i < j

\* Defect: renewal without expiring first.
RenewWithoutExpiry(p) ==
    \E i \in Ids :
        /\ IsCurrent(sessions, p, i)
        /\ sessions[i].status = "ACTIVE"
        /\ sessions' = [sessions EXCEPT ![i].sessionExpiresAt = clock + SessionTtl]
        /\ UNCHANGED <<clock, nextSeq>>
        /\ Save

Renew(p) ==
    LET E == Expire(sessions, clock)
    IN  \E f \in Zips(E), i \in Ids :
            LET T == Offer(E, f, clock)
            IN  /\ IsCurrent(T, p, i)
                /\ T[i].status = "ACTIVE"
                /\ sessions' = [T EXCEPT ![i].sessionExpiresAt = clock + SessionTtl]
                /\ UNCHANGED <<clock, nextSeq>>
                /\ SaveOver(IF T # sessions THEN Image(T, nextSeq) ELSE disk)

(***************************************************************************)
(* backoff and promote_next: methods of the store that no service calls.    *)
(***************************************************************************)
Backoff(i) ==
    /\ sessions[i].status # "NONE"
    /\ LET B == [sessions EXCEPT ![i].status = "BACKED_OFF", ![i].slot = Absent,
                                 ![i].offerExpiresAt = Absent,
                                 ![i].backoffUntil = clock + BackoffTtl]
       IN  \E f \in Zips(B) : sessions' = Offer(B, f, clock)
    /\ UNCHANGED <<clock, nextSeq>>
    /\ Save

PromoteNext ==
    LET E == Expire(sessions, clock)
    IN  /\ UNCHANGED <<clock, nextSeq>>
        /\ \/ /\ Waiting(E) = {} \/ Free(E) = {}
              /\ sessions' = E
              /\ UNCHANGED disk
           \/ \E i \in Waiting(E), s \in Free(E) :
              /\ \A j \in Waiting(E) \ {i} : Before(E, i, j)
              /\ \A t \in Free(E) : s <= t
              /\ sessions' = Offer(E, [x \in {i} |-> s], clock)
              /\ Save

(***************************************************************************)
(* A crash of the router at any point between two calls, and _load in the   *)
(* new process: expire and assign what the file holds, and save nothing.    *)
(* _load's duplicate check looks a principal up among session ids and never *)
(* drops a record.                                                          *)
(***************************************************************************)
IsLoadedSeq(n) ==
    /\ n >= disk.nextSeq
    /\ \A i \in Ids : disk.sessions[i].status # "NONE" => n > i
    /\ n = disk.nextSeq \/ \E i \in Ids : disk.sessions[i].status # "NONE" /\ n = i + 1

Restart ==
    LET E == Expire(disk.sessions, clock)
    IN  /\ \E f \in Zips(E) : sessions' = Offer(E, f, clock)
        /\ \E n \in 1..(MaxSessions + 1) : IsLoadedSeq(n) /\ nextSeq' = n
        /\ UNCHANGED <<clock, disk>>

Tick ==
    /\ clock < MaxClock
    /\ clock' = clock + 1
    /\ UNCHANGED <<sessions, nextSeq, disk>>

Init ==
    /\ clock = 1
    /\ sessions = [i \in Ids |-> Unused]
    /\ nextSeq = 1
    /\ disk = Image(sessions, nextSeq)

\* What the router's HTTP handlers do, time and crashes.
Next ==
    \/ \E p \in Principals : EnqueueExisting(p) \/ EnqueueNew(p) \/ Renew(p)
    \/ \E i \in Ids : Activate(i) \/ Leave(i)
    \/ Poll
    \/ Get
    \/ Restart
    \/ Tick

Spec == Init /\ [][Next]_vars

\* The whole class, with the two methods no service calls.
StoreNext ==
    \/ Next
    \/ \E i \in Ids : Backoff(i)
    \/ PromoteNext

StoreSpec == Init /\ [][StoreNext]_vars

-----------------------------------------------------------------------------
(***************************************************************************)
(* Properties.                                                              *)
(***************************************************************************)

Disk == [sessions : [Ids -> Session], nextSeq : 1..(MaxSessions + 1)]

\* Every record, in memory and on disk, has the shape RouterSession declares.
TypeOK ==
    /\ clock \in Nat
    /\ sessions \in [Ids -> Session]
    /\ nextSeq \in 1..(MaxSessions + 1)
    /\ disk \in Disk

\* Of one set of records: an offered or active session holds a slot, nobody
\* else holds any, and no slot is held twice.
SlotsHeldOnce(S) ==
    /\ \A i \in Ids : S[i].status \in Holding <=> S[i].slot # Absent
    /\ \A i, j \in Ids : i # j /\ S[i].slot # Absent => S[i].slot # S[j].slot

\* No interleaving of requests, lapses and crashes offers or leaves one browser
\* slot with two sessions, and an ended session never keeps one: neither in
\* memory nor in the file a restart would load.
SlotExclusive == SlotsHeldOnce(sessions) /\ SlotsHeldOnce(disk.sessions)

\* enqueue returns the caller's live session instead of queueing it again, so
\* a principal never has two places in the queue or two slots, across
\* lapses, leaves and restarts from a file that may lag behind memory.
OneLivePerPrincipal == \A p \in Principals : Cardinality(LiveOf(sessions, p)) <= 1

\* The queue is first come, first served: between two waiters that keep their
\* enqueue time over a step, the later one is not offered a slot while the
\* earlier one still waits, and nobody joins ahead of a waiter (_assign_waiters,
\* _expire and _load together).
KeepsPlace(i) ==
    /\ sessions[i].status = "WAITING"
    /\ sessions'[i].enqueuedAt = sessions[i].enqueuedAt

FifoOrder ==
    [][\A i, j \in Ids :
         /\ KeepsPlace(i)
         /\ sessions'[i].status = "WAITING"
         /\ i # j
         => /\ KeepsPlace(j) /\ sessions[i].enqueuedAt < sessions[j].enqueuedAt
               => sessions'[j].status # "OFFERED"
            /\ sessions[j].status # "WAITING" /\ sessions'[j].status = "WAITING"
               => sessions'[i].enqueuedAt <= sessions'[j].enqueuedAt]_vars

\* "a waiting session polling GET /v1/session is not starved by an absent
\* principal whose offer keeps being re-granted": a lapsed offer is only
\* renewed when no session that was already waiting is left waiting.  A crash
\* may forget a lapse that no save recorded, so the step is not a restart.
LapsedOfferYields ==
    [][\A i, j \in Ids :
         /\ sessions[i].status = "OFFERED" /\ sessions[i].offerExpiresAt <= clock
         /\ sessions'[i].status = "OFFERED"
         /\ sessions'[i].offerExpiresAt # sessions[i].offerExpiresAt
         /\ sessions[j].status = "WAITING" /\ sessions[j].enqueuedAt < clock
         => sessions'[j].status # "WAITING" \/ Restart]_vars

\* "a session that just lapsed is never resurrected": no renewal, activation
\* or reload extends the window of an active session that has run out.
LapsedNeverRenewed ==
    [][\A i \in Ids :
         sessions[i].status = "ACTIVE" /\ sessions[i].sessionExpiresAt <= clock
         => \/ sessions'[i].status # "ACTIVE"
            \/ sessions'[i].sessionExpiresAt = sessions[i].sessionExpiresAt]_vars

\* A waiting principal who polls is served as soon as anything can be served:
\* when a session is left waiting by the poll that may come next, every slot is
\* held by a session whose offer or window has not run out, so no lapsed or
\* ended session keeps the queue standing, whatever a restart forgot.
WaitsForHoldersOnly ==
    LET E == Expire(sessions, clock)
    IN  \A f \in Zips(E) :
            LET T == Offer(E, f, clock)
            IN  Waiting(T) # {} =>
                \A s \in Slots : \E i \in Ids :
                    /\ T[i].slot = s
                    /\ \/ T[i].status = "OFFERED" /\ T[i].offerExpiresAt > clock
                       \/ T[i].status = "ACTIVE" /\ T[i].sessionExpiresAt > clock

\* What a crash would restore: an unexpired active session is in the file with
\* the same slot and the same window, so a restart neither ends it nor hands
\* its browser to another principal.
ActiveIsDurable ==
    \A i \in Ids : sessions[i].status = "ACTIVE" /\ sessions[i].sessionExpiresAt > clock
                  => disk.sessions[i] = sessions[i]

\* What SlotLeases sees of a status: a session that backed off waits.
Promised(status) ==
    CASE status \in {"OFFERED", "ACTIVE"} -> status
      [] status \in Terminal -> "ENDED"
      [] OTHER -> "WAITING"

Leases == INSTANCE SlotLeases WITH
    Sessions <- Ids,
    NoSlot <- Absent,
    lease <- [i \in Ids |-> [status |-> Promised(sessions[i].status),
                             slot |-> sessions[i].slot]]

\* The whole queue, with its clock and its file, does to the table of sessions
\* only what SlotLeases promises: across lapses, offers and restarts a session
\* becomes active only through activate and only on the slot it was offered,
\* an ended session never comes back, and no slot is given to two sessions.
LeasesKept == Leases!Spec

=============================================================================
