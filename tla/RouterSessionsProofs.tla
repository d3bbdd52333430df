------------------------ MODULE RouterSessionsProofs ------------------------
(***************************************************************************)
(* For every set of principals, number of slots, time to live and bound:    *)
(* the records keep their type and no browser slot is ever held by two      *)
(* sessions, in memory or in the state file, with failing saves and with    *)
(* the methods no service calls.  The inductive invariant is TypeOK and     *)
(* SlotExclusive together: a restart loads the file, so the claim about     *)
(* memory needs the claim about the file.                                   *)
(*                                                                         *)
(* Of the calls the handlers make, PInv adds that live sessions have        *)
(* principals of their own and that offers and windows carry a deadline;    *)
(* and RInv, while no save fails, that the file lags behind memory only by  *)
(* lapses and offers, which a reload makes again.  From RInv follow the     *)
(* durability of windows and the refinement of SlotLeases.  QInv adds that   *)
(* nobody's place lies in the future and that an offer the file does not     *)
(* hold was reached by an assignment made from the file, and is by every     *)
(* later one: the queue stays first come, first served across a reload.     *)
(***************************************************************************)
EXTENDS RouterSessions, FiniteSetTheorems, TLAPS

Records == [Ids -> Session]

\* A set of records and a file image that satisfy the invariant.
Sound(S) == S \in Records /\ SlotsHeldOnce(S)
SoundFile(d) == d \in Disk /\ SlotsHeldOnce(d.sessions)

IInv == /\ clock \in Nat
        /\ nextSeq \in 1..(MaxSessions + 1)
        /\ Sound(sessions)
        /\ SoundFile(disk)

-----------------------------------------------------------------------------
(* What the store's helpers do to one record and to all of them.            *)

\* _expire_locked on one record gives a record that holds its old slot or none.
LEMMA ExpiredRecord ==
    ASSUME NEW r \in Session, NEW now \in Nat,
           r.status \in Holding <=> r.slot # Absent
    PROVE  /\ Expired(r, now) \in Session
           /\ Expired(r, now).status \in Holding <=> Expired(r, now).slot # Absent
           /\ Expired(r, now).slot \in {r.slot, Absent}
<1> DEFINE e == Expired(r, now)
<1>1. CASE r.status = "OFFERED" /\ Lapsed(r.offerExpiresAt, now)
  <2>1. e = [r EXCEPT !.status = "WAITING", !.slot = Absent,
                      !.offerExpiresAt = Absent, !.enqueuedAt = now]
    BY <1>1 DEF Expired
  <2> HIDE DEF e
  <2>2. e \in Session /\ e.status = "WAITING" /\ e.slot = Absent
    BY <2>1 DEF Session, Absent, Live
  <2>3. QED
    BY <2>2 DEF Holding, e
<1>2. CASE r.status = "ACTIVE" /\ Lapsed(r.sessionExpiresAt, now)
  <2>1. e = [r EXCEPT !.status = "STOPPED", !.slot = Absent,
                      !.sessionExpiresAt = Absent]
    BY <1>2 DEF Expired
  <2> HIDE DEF e
  <2>2. e \in Session /\ e.status = "STOPPED" /\ e.slot = Absent
    BY <2>1 DEF Session, Absent, Terminal
  <2>3. QED
    BY <2>2 DEF Holding, e
<1>3. CASE r.status = "BACKED_OFF" /\ Lapsed(r.backoffUntil, now)
  <2>1. e = [r EXCEPT !.status = "WAITING", !.backoffUntil = Absent]
    BY <1>3 DEF Expired
  <2> HIDE DEF e
  <2>2. e \in Session /\ e.status = "WAITING" /\ e.slot = r.slot /\ r.slot = Absent
    BY <1>3, <2>1 DEF Session, Absent, Live, Holding
  <2>3. QED
    BY <2>2 DEF Holding, e
<1>4. CASE /\ ~(r.status = "OFFERED" /\ Lapsed(r.offerExpiresAt, now))
           /\ ~(r.status = "ACTIVE" /\ Lapsed(r.sessionExpiresAt, now))
           /\ ~(r.status = "BACKED_OFF" /\ Lapsed(r.backoffUntil, now))
  BY <1>4 DEF Expired
<1>5. QED
  BY <1>1, <1>2, <1>3, <1>4

\* _expire_locked never gives a slot to anybody.
LEMMA ExpireSound ==
    ASSUME NEW S, Sound(S), NEW now \in Nat
    PROVE  Sound(Expire(S, now))
<1> DEFINE E == Expire(S, now)
<1>1. \A i \in Ids : S[i] \in Session /\ (S[i].status \in Holding <=> S[i].slot # Absent)
  BY DEF Sound, Records, SlotsHeldOnce
<1>2. \A i \in Ids : /\ E[i] \in Session
                     /\ E[i].status \in Holding <=> E[i].slot # Absent
                     /\ E[i].slot \in {S[i].slot, Absent}
  BY <1>1, ExpiredRecord DEF Expire
<1>3. E \in Records
  BY <1>2 DEF Records, Expire
<1>4. \A i, j \in Ids : i # j /\ E[i].slot # Absent => E[i].slot # E[j].slot
  BY <1>2 DEF Sound, SlotsHeldOnce
<1>5. QED
  BY <1>2, <1>3, <1>4 DEF Sound, SlotsHeldOnce

\* Offering free slots to waiters, each slot once.
LEMMA OfferSound ==
    ASSUME NEW S, Sound(S), NEW now \in Nat, NEW P \in SUBSET Waiting(S),
           NEW f \in [P -> Free(S)],
           \A i, j \in P : i # j => f[i] # f[j]
    PROVE  Sound(Offer(S, f, now))
<1> DEFINE T == Offer(S, f, now)
<1> USE RouterAssumption
<1>1. \A i \in Ids : S[i] \in Session
  BY DEF Sound, Records
<1>2. P \subseteq Ids /\ DOMAIN f = P
  BY DEF Waiting
<1>3. \A i \in P : /\ T[i] = [S[i] EXCEPT !.status = "OFFERED", !.slot = f[i],
                                          !.offerExpiresAt = now + OfferTtl]
                   /\ f[i] \in Slots \ Occupied(S)
  BY <1>2 DEF Offer, Free
<1>4. \A i \in Ids \ P : T[i] = S[i]
  BY <1>2 DEF Offer
<1>5. ASSUME NEW i \in P
      PROVE  /\ T[i] \in Session
             /\ T[i].status = "OFFERED" /\ T[i].slot = f[i]
             /\ f[i] # Absent /\ f[i] \notin Occupied(S)
  <2>1. S[i] \in Session /\ f[i] \in Slots /\ now + OfferTtl \in Nat
    <3>1. f[i] \in Slots
      BY <1>3
    <3>2. S[i] \in Session
      BY <1>1, <1>2
    <3>3. QED
      BY <3>1, <3>2, RouterAssumption
  <2>2. f[i] # Absent
    BY <2>1 DEF Slots, Absent
  <2>3. T[i] = [S[i] EXCEPT !.status = "OFFERED", !.slot = f[i],
                            !.offerExpiresAt = now + OfferTtl]
    BY <1>3
  <2> HIDE DEF T
  <2>4. T[i] \in Session /\ T[i].status = "OFFERED" /\ T[i].slot = f[i]
    BY <2>1, <2>3 DEF Session, Live
  <2>5. QED
    BY <1>3, <2>2, <2>4
<1>6. T \in Records
  BY <1>1, <1>4, <1>5 DEF Records, Offer
<1> HIDE DEF T
<1>7. \A i \in Ids : T[i].status \in Holding <=> T[i].slot # Absent
  BY <1>4, <1>5 DEF Sound, SlotsHeldOnce, Holding
<1>8. \A j \in Ids : S[j].slot # Absent => S[j].slot \in Occupied(S)
  BY DEF Sound, SlotsHeldOnce, Occupied
<1>9. ASSUME NEW i \in Ids, NEW j \in Ids, i # j, T[i].slot # Absent
      PROVE  T[i].slot # T[j].slot
  <2>1. CASE i \in P /\ j \in P
    BY <1>5, <1>9, <2>1
  <2>2. CASE i \in P /\ j \notin P
    <3>1. T[i].slot = f[i] /\ f[i] # Absent /\ f[i] \notin Occupied(S)
      BY <1>5, <2>2
    <3>2. T[j] = S[j]
      BY <1>4, <2>2
    <3>3. QED
      BY <1>8, <3>1, <3>2
  <2>3. CASE i \notin P /\ j \in P
    <3>1. T[j].slot = f[j] /\ f[j] \notin Occupied(S)
      BY <1>5, <2>3
    <3>2. T[i] = S[i]
      BY <1>4, <2>3
    <3>3. QED
      BY <1>8, <1>9, <3>1, <3>2
  <2>4. CASE i \notin P /\ j \notin P
    BY <1>4, <1>9, <2>4 DEF Sound, SlotsHeldOnce
  <2>5. QED
    BY <2>1, <2>2, <2>3, <2>4
<1>10. QED
  BY <1>6, <1>7, <1>9 DEF Sound, SlotsHeldOnce, T

\* A zip gives different waiters different slots, because the sort key orders any
\* two of them.
LEMMA ZipInjective ==
    ASSUME NEW S \in Records, NEW f \in Zips(S)
    PROVE  /\ DOMAIN f \subseteq Waiting(S)
           /\ f \in Injection(DOMAIN f, Free(S))
<1>1. PICK P \in SUBSET Waiting(S) : f \in [P -> Free(S)]
  BY DEF Zips
<1>2. \A i, j \in P : Before(S, i, j) => f[i] < f[j]
  BY <1>1 DEF Zips, IsZip
<1>3. \A i \in P : i \in Ids /\ S[i].enqueuedAt \in Nat
  BY DEF Waiting, Records, Session
<1>4. \A i \in P : f[i] \in Nat
  BY <1>1, RouterAssumption DEF Free, Slots
<1>5. \A i, j \in P : i # j => Before(S, i, j) \/ Before(S, j, i)
  BY <1>3, RouterAssumption DEF Before, Ids
<1>6. \A i, j \in P : i # j => f[i] # f[j]
  BY <1>2, <1>4, <1>5
<1>7. QED
  BY <1>1, <1>6 DEF Injection, IsInjective

\* _assign_waiters_locked: the zip is one such assignment.
LEMMA ZipSound ==
    ASSUME NEW S, Sound(S), NEW now \in Nat, NEW f \in Zips(S)
    PROVE  Sound(Offer(S, f, now))
<1>1. PICK P \in SUBSET Waiting(S) : f \in [P -> Free(S)]
  BY DEF Zips
<1>2. f \in Injection(P, Free(S))
  BY <1>1, ZipInjective DEF Sound
<1>3. \A i, j \in P : i # j => f[i] # f[j]
  BY <1>2 DEF Injection, IsInjective
<1>4. QED
  BY <1>1, <1>3, OfferSound

\* One step of expiry and assignment, as every poll, enqueue and load makes it.
LEMMA RefreshSound ==
    ASSUME NEW S, Sound(S), NEW now \in Nat, NEW f \in Zips(Expire(S, now))
    PROVE  Sound(Offer(Expire(S, now), f, now))
BY ExpireSound, ZipSound

\* Replacing one record by one that holds its old slot, or by one without a slot.
LEMMA ReplaceSound ==
    ASSUME NEW S, Sound(S), NEW i \in Ids, NEW r \in Session,
           r.status \in Holding <=> r.slot # Absent,
           r.slot \in {S[i].slot, Absent}
    PROVE  Sound([S EXCEPT ![i] = r])
BY DEF Sound, Records, SlotsHeldOnce

\* A save leaves the file sound when memory and the kept file are.
LEMMA SaveSound ==
    ASSUME NEW kept, SoundFile(kept), Sound(sessions'),
           nextSeq' \in 1..(MaxSessions + 1), SaveOver(kept)
    PROVE  SoundFile(disk')
BY DEF SaveOver, SoundFile, Sound, Records, Image, Disk

-----------------------------------------------------------------------------
(* The invariant holds initially and is kept by every operation.            *)

\* An empty store is typed and exclusive.
LEMMA InitIInv == Init => IInv
<1> SUFFICES ASSUME Init PROVE IInv
  OBVIOUS
<1> USE RouterAssumption DEF Init
<1>1. Unused \in Session /\ Unused.status \notin Holding /\ Unused.slot = Absent
  BY DEF Unused, Session, Holding, Absent
<1>2. Sound(sessions)
  BY <1>1 DEF Sound, Records, SlotsHeldOnce
<1>3. SoundFile(disk)
  BY <1>2 DEF Sound, SoundFile, Records, Image, Disk
<1>4. QED
  BY <1>2, <1>3 DEF IInv

\* Every operation of the store, every crash and every tick.
LEMMA NextIInv == IInv /\ [StoreNext]_vars => IInv'
<1> SUFFICES ASSUME IInv, [StoreNext]_vars PROVE IInv'
  OBVIOUS
<1> USE RouterAssumption
<1>0. /\ clock \in Nat /\ nextSeq \in 1..(MaxSessions + 1)
      /\ Sound(sessions) /\ SoundFile(disk)
  BY DEF IInv
<1>a. \A i \in Ids : /\ sessions[i] \in Session
                     /\ sessions[i].status \in Holding <=> sessions[i].slot # Absent
  BY <1>0 DEF Sound, Records, SlotsHeldOnce
<1>1. ASSUME NEW p \in Principals, EnqueueExisting(p)
      PROVE  IInv'
  <2>1. clock' = clock /\ nextSeq' = nextSeq /\ Sound(sessions')
    BY <1>0, <1>1, RefreshSound DEF EnqueueExisting
  <2>2. SaveOver(disk) \/ disk' = disk
    BY <1>1 DEF EnqueueExisting, SaveIf, Save
  <2>3. QED
    BY <1>0, <2>1, <2>2, SaveSound DEF IInv
<1>2. ASSUME NEW p \in Principals, EnqueueNew(p)
      PROVE  IInv'
  <2> DEFINE E == Expire(sessions, clock)
  <2>1. PICK f \in Zips(E), id \in Ids :
          LET T == Offer(E, f, clock)
              N == [T EXCEPT ![id] = NewSession(p, clock)]
          IN  /\ \E g \in Zips(N) : sessions' = Offer(N, g, clock)
              /\ nextSeq' = id + 1
              /\ UNCHANGED clock
              /\ SaveOver(IF DOMAIN f # {} THEN Image(T, nextSeq) ELSE disk)
    BY <1>2 DEF EnqueueNew
  <2> DEFINE T == Offer(E, f, clock)
             N == [T EXCEPT ![id] = NewSession(p, clock)]
             kept == IF DOMAIN f # {} THEN Image(T, nextSeq) ELSE disk
  <2>2. Sound(T)
    BY <1>0, RefreshSound
  <2>3. NewSession(p, clock) \in Session /\ NewSession(p, clock).slot = Absent
        /\ NewSession(p, clock).status \notin Holding
    BY <1>0 DEF NewSession, Unused, Session, Live, Absent, Holding
  <2>4. Sound(N)
    <3> HIDE DEF T
    <3>1. QED
      BY <2>2, <2>3, ReplaceSound
  <2>5. PICK g \in Zips(N) : sessions' = Offer(N, g, clock)
    BY <2>1
  <2>6. Sound(sessions')
    <3> HIDE DEF N
    <3>1. QED
      BY <1>0, <2>4, <2>5, ZipSound
  <2>7. nextSeq' \in 1..(MaxSessions + 1)
    BY <2>1 DEF Ids
  <2>8. SoundFile(kept)
    <3> HIDE DEF T
    <3>1. QED
      BY <1>0, <2>2 DEF SoundFile, Sound, Records, Image, Disk
  <2>9. SoundFile(disk')
    <3>1. SaveOver(kept)
      BY <2>1
    <3> HIDE DEF kept
    <3>2. QED
      BY <2>6, <2>7, <2>8, <3>1, SaveSound
  <2>10. QED
    BY <1>0, <2>1, <2>6, <2>7, <2>9 DEF IInv
<1>3. ASSUME NEW p \in Principals, Renew(p)
      PROVE  IInv'
  <2> DEFINE E == Expire(sessions, clock)
  <2>1. PICK f \in Zips(E), i \in Ids :
          LET T == Offer(E, f, clock)
          IN  /\ T[i].status = "ACTIVE"
              /\ sessions' = [T EXCEPT ![i].sessionExpiresAt = clock + SessionTtl]
              /\ UNCHANGED <<clock, nextSeq>>
              /\ SaveOver(IF T # sessions THEN Image(T, nextSeq) ELSE disk)
    BY <1>3 DEF Renew
  <2> DEFINE T == Offer(E, f, clock)
             r == [T[i] EXCEPT !.sessionExpiresAt = clock + SessionTtl]
             kept == IF T # sessions THEN Image(T, nextSeq) ELSE disk
  <2>2. Sound(T)
    BY <1>0, RefreshSound
  <2>3. sessions' = [T EXCEPT ![i] = r]
    BY <2>1
  <2>4. /\ r \in Session /\ r.slot = T[i].slot
        /\ r.status \in Holding <=> r.slot # Absent
    <3> HIDE DEF T
    <3>1. T[i] \in Session /\ (T[i].status \in Holding <=> T[i].slot # Absent)
      BY <2>2 DEF Sound, Records, SlotsHeldOnce
    <3>2. clock + SessionTtl \in Nat
      BY <1>0
    <3>3. QED
      BY <3>1, <3>2 DEF Session
  <2>5. Sound(sessions')
    <3> HIDE DEF T, r
    <3>1. QED
      BY <2>2, <2>3, <2>4, ReplaceSound
  <2>6. SoundFile(kept)
    <3> HIDE DEF T
    <3>1. QED
      BY <1>0, <2>2 DEF SoundFile, Sound, Records, Image, Disk
  <2>7. SoundFile(disk')
    <3>1. SaveOver(kept) /\ nextSeq' = nextSeq
      BY <2>1
    <3> HIDE DEF kept
    <3>2. QED
      BY <1>0, <2>5, <2>6, <3>1, SaveSound
  <2>8. QED
    BY <1>0, <2>1, <2>5, <2>7 DEF IInv
<1>4. ASSUME NEW i \in Ids, Activate(i)
      PROVE  IInv'
  <2> DEFINE r == [sessions[i] EXCEPT !.status = "ACTIVE", !.offerExpiresAt = Absent,
                                      !.sessionExpiresAt = clock + SessionTtl]
  <2>1. /\ clock' = clock /\ nextSeq' = nextSeq /\ SaveOver(disk)
        /\ sessions' = [sessions EXCEPT ![i] = r]
    BY <1>4 DEF Activate, Save
  <2>2. /\ r \in Session /\ r.slot = sessions[i].slot
        /\ r.status \in Holding <=> r.slot # Absent
    <3>1. clock + SessionTtl \in Nat /\ sessions[i].status = "OFFERED"
      BY <1>0, <1>4 DEF Activate
    <3>2. sessions[i] \in Session /\ sessions[i].slot # Absent
      BY <1>a, <3>1 DEF Holding
    <3>3. QED
      BY <3>1, <3>2 DEF Session, Holding, Live, Absent
  <2>3. Sound(sessions')
    <3> HIDE DEF r
    <3>1. QED
      BY <1>0, <2>1, <2>2, ReplaceSound
  <2>4. QED
    BY <1>0, <2>1, <2>3, SaveSound DEF IInv
<1>5. ASSUME NEW i \in Ids, Leave(i)
      PROVE  IInv'
  <2> DEFINE r == [sessions[i] EXCEPT !.status = "LEFT", !.slot = Absent,
                                      !.offerExpiresAt = Absent,
                                      !.sessionExpiresAt = Absent]
  <2>1. /\ clock' = clock /\ nextSeq' = nextSeq /\ SaveOver(disk)
        /\ sessions' = [sessions EXCEPT ![i] = r]
    BY <1>5 DEF Leave, Save
  <2>2. /\ r \in Session /\ r.slot = Absent
        /\ r.status \in Holding <=> r.slot # Absent
    BY <1>a DEF Session, Holding, Terminal, Absent
  <2>3. Sound(sessions')
    <3> HIDE DEF r
    <3>1. QED
      BY <1>0, <2>1, <2>2, ReplaceSound
  <2>4. QED
    BY <1>0, <2>1, <2>3, SaveSound DEF IInv
<1>6. CASE Poll
  <2>1. clock' = clock /\ nextSeq' = nextSeq /\ Sound(sessions')
    BY <1>0, <1>6, RefreshSound DEF Poll
  <2>2. SaveOver(disk) \/ disk' = disk
    BY <1>6 DEF Poll, SaveIf, Save
  <2>3. QED
    BY <1>0, <2>1, <2>2, SaveSound DEF IInv
<1>7. CASE Get
  <2>1. clock' = clock /\ nextSeq' = nextSeq /\ Sound(sessions')
    BY <1>0, <1>7, ExpireSound DEF Get
  <2>2. SaveOver(disk) \/ disk' = disk
    BY <1>7 DEF Get, SaveIf, Save
  <2>3. QED
    BY <1>0, <2>1, <2>2, SaveSound DEF IInv
<1>8. CASE Restart
  <2>1. Sound(disk.sessions)
    BY <1>0 DEF SoundFile, Sound, Records, Disk
  <2>2. Sound(sessions')
    BY <1>0, <1>8, <2>1, RefreshSound DEF Restart
  <2>3. nextSeq' \in 1..(MaxSessions + 1) /\ clock' = clock /\ disk' = disk
    BY <1>8 DEF Restart
  <2>4. QED
    BY <1>0, <2>2, <2>3 DEF IInv
<1>9. CASE Tick
  BY <1>0, <1>9 DEF Tick, IInv
<1>10. ASSUME NEW i \in Ids, Backoff(i)
       PROVE  IInv'
  <2> DEFINE r == [sessions[i] EXCEPT !.status = "BACKED_OFF", !.slot = Absent,
                                      !.offerExpiresAt = Absent,
                                      !.backoffUntil = clock + BackoffTtl]
             B == [sessions EXCEPT ![i] = r]
  <2>1. /\ clock' = clock /\ nextSeq' = nextSeq /\ SaveOver(disk)
        /\ \E f \in Zips(B) : sessions' = Offer(B, f, clock)
    BY <1>10 DEF Backoff, Save
  <2>2. /\ r \in Session /\ r.slot = Absent
        /\ r.status \in Holding <=> r.slot # Absent
    <3>1. clock + BackoffTtl \in Nat
      BY <1>0
    <3>2. QED
      BY <1>a, <3>1 DEF Session, Holding, Live, Absent
  <2>3. Sound(B)
    <3> HIDE DEF r
    <3>1. QED
      BY <1>0, <2>2, ReplaceSound
  <2>4. Sound(sessions')
    <3> HIDE DEF B
    <3>1. QED
      BY <1>0, <2>1, <2>3, ZipSound
  <2>5. QED
    BY <1>0, <2>1, <2>4, SaveSound DEF IInv
<1>11. CASE PromoteNext
  <2> DEFINE E == Expire(sessions, clock)
  <2>1. Sound(E)
    BY <1>0, ExpireSound
  <2>2. CASE sessions' = E /\ UNCHANGED disk
    BY <1>0, <1>11, <2>1, <2>2 DEF PromoteNext, IInv
  <2>3. CASE \E i \in Waiting(E), s \in Free(E) :
               sessions' = Offer(E, [x \in {i} |-> s], clock) /\ Save
    <3>1. PICK i \in Waiting(E), s \in Free(E) :
               sessions' = Offer(E, [x \in {i} |-> s], clock) /\ Save
      BY <2>3
    <3> DEFINE P == {i}
               f == [x \in P |-> s]
    <3>2. P \in SUBSET Waiting(E) /\ f \in [P -> Free(E)]
      OBVIOUS
    <3>3. Sound(Offer(E, f, clock))
      <4> HIDE DEF E
      <4>1. QED
        BY <1>0, <2>1, <3>2, OfferSound
    <3>4. QED
      BY <1>0, <1>11, <3>1, <3>3, SaveSound DEF PromoteNext, Save, IInv
  <2>4. QED
    BY <1>11, <2>2, <2>3 DEF PromoteNext
<1>12. CASE UNCHANGED vars
  BY <1>0, <1>12 DEF vars, IInv
<1>13. QED
  BY <1>1, <1>2, <1>3, <1>4, <1>5, <1>6, <1>7, <1>8, <1>9, <1>10, <1>11, <1>12
  DEF StoreNext, Next

-----------------------------------------------------------------------------
\* The inductive invariant holds of every behaviour of the store.
LEMMA StoreInvariant == StoreSpec => []IInv
<1>1. QED
  BY InitIInv, NextIInv, PTL DEF StoreSpec

\* Every record RouterSessionStore keeps or saves has its declared shape.
THEOREM StoreTypeOK == StoreSpec => []TypeOK
<1>1. IInv => TypeOK
  BY DEF IInv, TypeOK, Sound, SoundFile, Records
<1>2. QED
  BY <1>1, StoreInvariant, PTL

\* No slot is offered to or held by two sessions, under every operation of
\* RouterSessionStore, failing saves, and restarts from the file.
THEOREM StoreSlotExclusive == StoreSpec => []SlotExclusive
<1>1. IInv => SlotExclusive
  BY DEF IInv, SlotExclusive, Sound, SoundFile
<1>2. QED
  BY <1>1, StoreInvariant, PTL

\* The same of the operations the router's handlers use.
THEOREM RouterSlotExclusive == Spec => []SlotExclusive
<1>1. Init => IInv
  BY InitIInv
<1>2. IInv /\ [Next]_vars => IInv'
  BY NextIInv DEF StoreNext
<1>3. IInv => SlotExclusive
  BY DEF IInv, SlotExclusive, Sound, SoundFile
<1>4. QED
  BY <1>1, <1>2, <1>3, PTL DEF Spec

-----------------------------------------------------------------------------
(* What a refresh, an expiry and an assignment, makes of one record.        *)

Queued == {"NONE", "WAITING", "OFFERED", "BACKED_OFF"}

\* An offer and a window always carry the deadline that ends them.
Windowed(r) ==
    /\ r.status = "OFFERED" => r.offerExpiresAt # Absent
    /\ r.status = "ACTIVE" => r.sessionExpiresAt # Absent

\* A refresh keeps a session among the queued ones or ended, and ends an active
\* one exactly when its window has run out.
Refreshes(old, new, now) ==
    /\ new.principal = old.principal
    /\ new.status \in Live => old.status \in Live
    /\ Windowed(old) => Windowed(new)
    /\ \/ old.status \in Queued /\ new.status \in Queued
       \/ old.status = "ACTIVE" /\ ~Lapsed(old.sessionExpiresAt, now) /\ new = old
       \/ /\ old.status = "ACTIVE" /\ Lapsed(old.sessionExpiresAt, now)
          /\ new.status = "STOPPED"
       \/ old.status \in Terminal /\ new = old

\* _expire_locked on one record.
LEMMA ExpiredRefreshes ==
    ASSUME NEW r \in Session, NEW now \in Nat
    PROVE  Refreshes(r, Expired(r, now), now)
<1> DEFINE e == Expired(r, now)
<1>1. CASE r.status = "OFFERED" /\ Lapsed(r.offerExpiresAt, now)
  <2>1. e = [r EXCEPT !.status = "WAITING", !.slot = Absent,
                      !.offerExpiresAt = Absent, !.enqueuedAt = now]
    BY <1>1 DEF Expired
  <2> HIDE DEF e
  <2>2. e.principal = r.principal /\ e.status = "WAITING"
    BY <2>1 DEF Session
  <2>3. QED
    BY <1>1, <2>2 DEF Refreshes, Windowed, Queued, Live, e
<1>2. CASE r.status = "ACTIVE" /\ Lapsed(r.sessionExpiresAt, now)
  <2>1. e = [r EXCEPT !.status = "STOPPED", !.slot = Absent,
                      !.sessionExpiresAt = Absent]
    BY <1>2 DEF Expired
  <2> HIDE DEF e
  <2>2. e.principal = r.principal /\ e.status = "STOPPED"
    BY <2>1 DEF Session
  <2>3. QED
    BY <1>2, <2>2 DEF Refreshes, Windowed, Live, e
<1>3. CASE r.status = "BACKED_OFF" /\ Lapsed(r.backoffUntil, now)
  <2>1. e = [r EXCEPT !.status = "WAITING", !.backoffUntil = Absent]
    BY <1>3 DEF Expired
  <2> HIDE DEF e
  <2>2. e.principal = r.principal /\ e.status = "WAITING"
    BY <2>1 DEF Session
  <2>3. QED
    BY <1>3, <2>2 DEF Refreshes, Windowed, Queued, Live, e
<1>4. CASE /\ ~(r.status = "OFFERED" /\ Lapsed(r.offerExpiresAt, now))
           /\ ~(r.status = "ACTIVE" /\ Lapsed(r.sessionExpiresAt, now))
           /\ ~(r.status = "BACKED_OFF" /\ Lapsed(r.backoffUntil, now))
  <2>1. Expired(r, now) = r
    BY <1>4 DEF Expired
  <2>2. r.status \in Queued \cup {"ACTIVE"} \cup Terminal
    BY DEF Session, Live, Terminal, Queued
  <2>3. QED
    BY <1>4, <2>1, <2>2 DEF Refreshes
<1>5. QED
  BY <1>1, <1>2, <1>3, <1>4

\* _assign_waiters_locked on one record: nothing, or an offer to a waiter.
LEMMA OfferedRecord ==
    ASSUME NEW S \in Records, NEW now \in Nat, NEW f \in Zips(S), NEW i \in Ids
    PROVE  \/ i \notin DOMAIN f /\ Offer(S, f, now)[i] = S[i]
           \/ /\ i \in DOMAIN f
              /\ S[i].status = "WAITING"
              /\ Offer(S, f, now)[i].status = "OFFERED"
              /\ Offer(S, f, now)[i].principal = S[i].principal
              /\ Offer(S, f, now)[i].slot = f[i]
              /\ Offer(S, f, now)[i].offerExpiresAt = now + OfferTtl
<1> DEFINE T == Offer(S, f, now)
<1>1. PICK P \in SUBSET Waiting(S) : f \in [P -> Free(S)]
  BY DEF Zips
<1>2. CASE i \notin P
  BY <1>1, <1>2 DEF Offer
<1>3. CASE i \in P
  <2>1. T[i] = [S[i] EXCEPT !.status = "OFFERED", !.slot = f[i],
                            !.offerExpiresAt = now + OfferTtl]
    BY <1>1, <1>3 DEF Offer
  <2>2. S[i] \in Session /\ S[i].status = "WAITING"
    BY <1>1, <1>3 DEF Waiting, Records
  <2> HIDE DEF T
  <2>3. /\ T[i].status = "OFFERED" /\ T[i].principal = S[i].principal
        /\ T[i].slot = f[i] /\ T[i].offerExpiresAt = now + OfferTtl
    BY <2>1, <2>2 DEF Session
  <2>4. QED
    BY <1>1, <1>3, <2>2, <2>3 DEF T
<1>4. QED
  BY <1>2, <1>3

\* An assignment alone is a refresh in which no window ran out.
LEMMA OfferedQueued ==
    ASSUME NEW S \in Records, NEW now \in Nat, NEW f \in Zips(S), NEW i \in Ids
    PROVE  LET t == Offer(S, f, now)[i]
           IN  /\ t.principal = S[i].principal
               /\ t.status \in Live => S[i].status \in Live
               /\ Windowed(S[i]) => Windowed(t)
               /\ t = S[i] \/ (S[i].status = "WAITING" /\ t.status = "OFFERED")
<1> DEFINE t == Offer(S, f, now)[i]
<1>1. now + OfferTtl # Absent
  BY RouterAssumption DEF Absent
<1>2. \/ t = S[i]
      \/ /\ S[i].status = "WAITING" /\ t.status = "OFFERED"
         /\ t.principal = S[i].principal /\ t.offerExpiresAt = now + OfferTtl
  BY OfferedRecord
<1> HIDE DEF t
<1>3. QED
  BY <1>1, <1>2 DEF Windowed, Live, t

\* Expiry and assignment together.
LEMMA RefreshedRecord ==
    ASSUME NEW S, Sound(S), NEW now \in Nat, NEW f \in Zips(Expire(S, now)),
           NEW i \in Ids
    PROVE  Refreshes(S[i], Offer(Expire(S, now), f, now)[i], now)
<1> DEFINE E == Expire(S, now)
           t == Offer(E, f, now)[i]
<1>1. E \in Records
  BY ExpireSound DEF Sound
<1>2. S[i] \in Session
  BY DEF Sound, Records
<1>3. Refreshes(S[i], E[i], now)
  BY <1>2, ExpiredRefreshes DEF Expire
<1> HIDE DEF E
<1>4. /\ t.principal = E[i].principal
      /\ t.status \in Live => E[i].status \in Live
      /\ Windowed(E[i]) => Windowed(t)
      /\ t = E[i] \/ (E[i].status = "WAITING" /\ t.status = "OFFERED")
  BY <1>1, OfferedQueued DEF E
<1> HIDE DEF t
<1>5. QED
  BY <1>3, <1>4 DEF Refreshes, Queued, Terminal, E, t

-----------------------------------------------------------------------------
(* One live session for each principal, and deadlines wherever they belong, *)
(* in memory and in the file.                                               *)

\* No two live sessions have one principal.
Apart(S) ==
    \A i, j \in Ids :
        i # j /\ S[i].status \in Live /\ S[j].status \in Live
        => S[i].principal # S[j].principal

Proper(S) == Apart(S) /\ \A i \in Ids : Windowed(S[i])

\* A file image of proper records.
ProperFile(d) == Proper(d.sessions)

PInv == IInv /\ Proper(sessions) /\ ProperFile(disk)

\* A step that refreshes every record, or part of it, keeps records proper.
LEMMA RefreshProper ==
    ASSUME NEW S, Proper(S), NEW T,
           \A i \in Ids : /\ T[i].principal = S[i].principal
                          /\ T[i].status \in Live => S[i].status \in Live
                          /\ Windowed(S[i]) => Windowed(T[i])
    PROVE  Proper(T)
BY DEF Proper, Apart

\* Replacing one record by one that is not live, or that takes nobody's place.
LEMMA ReplaceProper ==
    ASSUME NEW S \in Records, Proper(S), NEW i \in Ids, NEW r \in Session,
           Windowed(r),
           r.status \in Live =>
              \A j \in Ids \ {i} : S[j].status \in Live => S[j].principal # r.principal
    PROVE  Proper([S EXCEPT ![i] = r])
<1> DEFINE T == [S EXCEPT ![i] = r]
<1>1. T[i] = r /\ \A j \in Ids \ {i} : T[j] = S[j]
  BY DEF Records
<1> HIDE DEF T
<1>2. QED
  BY <1>1 DEF Proper, Apart, T

\* A save leaves a proper file when memory and the kept file are proper.
LEMMA SaveProper ==
    ASSUME NEW kept, ProperFile(kept), Proper(sessions'), SaveOver(kept)
    PROVE  ProperFile(disk')
BY DEF SaveOver, ProperFile, Image

\* An empty store has no live session.
LEMMA InitPInv == Init => PInv
<1> SUFFICES ASSUME Init PROVE PInv
  OBVIOUS
<1>1. \A i \in Ids : sessions[i].status = "NONE"
  BY DEF Init, Unused
<1>2. Proper(sessions)
  BY <1>1 DEF Proper, Apart, Windowed, Live
<1>3. QED
  BY <1>2, InitIInv DEF PInv, ProperFile, Init, Image

\* Every call of the handlers keeps records and file proper; backoff, which no
\* handler calls, would queue an ended session again.
LEMMA NextPInv == PInv /\ [Next]_vars => PInv'
<1> SUFFICES ASSUME PInv, [Next]_vars PROVE PInv'
  OBVIOUS
<1>0. /\ clock \in Nat /\ Sound(sessions) /\ SoundFile(disk)
      /\ Proper(sessions) /\ ProperFile(disk)
  BY DEF PInv, IInv
<1>i. IInv'
  BY NextIInv DEF PInv, StoreNext
<1>a. /\ sessions \in Records /\ disk.sessions \in Records
      /\ Sound(disk.sessions) /\ Proper(disk.sessions)
  BY <1>0 DEF Sound, SoundFile, Disk, Records, ProperFile
<1>b. \A i \in Ids : sessions[i] \in Session
  BY <1>a DEF Records
<1>e. Sound(Expire(sessions, clock)) /\ Expire(sessions, clock) \in Records
  BY <1>0, ExpireSound DEF Sound
<1>x. Proper(Expire(sessions, clock))
  <2>1. \A i \in Ids : Refreshes(sessions[i], Expire(sessions, clock)[i], clock)
    BY <1>0, <1>b, ExpiredRefreshes DEF Expire
  <2>2. QED
    BY <1>0, <2>1, RefreshProper DEF Refreshes
<1>y. \A f \in Zips(Expire(sessions, clock)) :
         /\ Proper(Offer(Expire(sessions, clock), f, clock))
         /\ Sound(Offer(Expire(sessions, clock), f, clock))
  <2> TAKE f \in Zips(Expire(sessions, clock))
  <2>1. \A i \in Ids :
           Refreshes(sessions[i], Offer(Expire(sessions, clock), f, clock)[i], clock)
    BY <1>0, RefreshedRecord
  <2>2. QED
    BY <1>0, <2>1, RefreshProper, RefreshSound DEF Refreshes
<1>1. ASSUME NEW p \in Principals, EnqueueExisting(p)
      PROVE  PInv'
  <2>1. Proper(sessions')
    BY <1>1, <1>y DEF EnqueueExisting
  <2>2. SaveOver(disk) \/ disk' = disk
    BY <1>1 DEF EnqueueExisting, SaveIf, Save
  <2>3. QED
    BY <1>0, <1>i, <2>1, <2>2, SaveProper DEF PInv
<1>2. ASSUME NEW p \in Principals, EnqueueNew(p)
      PROVE  PInv'
  <2> DEFINE E == Expire(sessions, clock)
  <2>1. PICK f \in Zips(E), id \in Ids :
          LET T == Offer(E, f, clock)
              N == [T EXCEPT ![id] = NewSession(p, clock)]
          IN  /\ LiveOf(E, p) = {}
              /\ \E g \in Zips(N) : sessions' = Offer(N, g, clock)
              /\ SaveOver(IF DOMAIN f # {} THEN Image(T, nextSeq) ELSE disk)
    BY <1>2 DEF EnqueueNew
  <2> DEFINE T == Offer(E, f, clock)
             r == NewSession(p, clock)
             N == [T EXCEPT ![id] = r]
             kept == IF DOMAIN f # {} THEN Image(T, nextSeq) ELSE disk
  <2>2. Proper(T) /\ Sound(T)
    BY <1>y
  <2>3. \A j \in Ids : /\ T[j].principal = E[j].principal
                       /\ T[j].status \in Live => E[j].status \in Live
    BY <1>0, <1>e, OfferedQueued
  <2>4. \A j \in Ids : T[j].status \in Live => T[j].principal # p
    <3> HIDE DEF E, T
    <3>1. QED
      BY <2>1, <2>3 DEF LiveOf, E
  <2>5. /\ r \in Session /\ Windowed(r) /\ r.principal = p
        /\ r.slot = Absent /\ r.status \notin Holding
    BY <1>0 DEF NewSession, Unused, Session, Live, Absent, Windowed, Holding
  <2>6. Proper(N) /\ Sound(N)
    <3> HIDE DEF T, r
    <3>1. T \in Records
      BY <2>2 DEF Sound
    <3>2. Proper(N)
      BY <2>2, <2>4, <2>5, <3>1, ReplaceProper
    <3>3. Sound(N)
      BY <2>2, <2>5, ReplaceSound
    <3>4. QED
      BY <3>2, <3>3
  <2>7. PICK g \in Zips(N) : sessions' = Offer(N, g, clock)
    BY <2>1
  <2>8. Proper(sessions')
    <3> HIDE DEF N
    <3>1. N \in Records
      BY <2>6 DEF Sound
    <3>2. \A i \in Ids : /\ sessions'[i].principal = N[i].principal
                         /\ sessions'[i].status \in Live => N[i].status \in Live
                         /\ Windowed(N[i]) => Windowed(sessions'[i])
      BY <1>0, <2>7, <3>1, OfferedQueued
    <3>3. QED
      BY <2>6, <3>2, RefreshProper
  <2>9. ProperFile(kept)
    <3> HIDE DEF T
    <3>1. QED
      BY <1>0, <2>2 DEF ProperFile, Image
  <2>10. SaveOver(kept)
    BY <2>1
  <2>11. ProperFile(disk')
    <3> HIDE DEF kept
    <3>1. QED
      BY <2>8, <2>9, <2>10, SaveProper
  <2>12. QED
    BY <1>i, <2>8, <2>11 DEF PInv, ProperFile
<1>3. ASSUME NEW p \in Principals, Renew(p)
      PROVE  PInv'
  <2> DEFINE E == Expire(sessions, clock)
  <2>1. PICK f \in Zips(E), i \in Ids :
          LET T == Offer(E, f, clock)
          IN  /\ T[i].status = "ACTIVE"
              /\ sessions' = [T EXCEPT ![i].sessionExpiresAt = clock + SessionTtl]
              /\ SaveOver(IF T # sessions THEN Image(T, nextSeq) ELSE disk)
    BY <1>3 DEF Renew
  <2> DEFINE T == Offer(E, f, clock)
             r == [T[i] EXCEPT !.sessionExpiresAt = clock + SessionTtl]
             kept == IF T # sessions THEN Image(T, nextSeq) ELSE disk
  <2>2. Proper(T) /\ T \in Records
    BY <1>y DEF Sound
  <2>3. sessions' = [T EXCEPT ![i] = r]
    BY <2>1
  <2>4. Proper(sessions')
    <3> HIDE DEF T
    <3>1. T[i] \in Session /\ T[i].status = "ACTIVE"
      BY <2>1, <2>2 DEF Records, T
    <3>2. clock + SessionTtl \in Nat /\ clock + SessionTtl # Absent
      BY <1>0, RouterAssumption DEF Absent
    <3>3. /\ r.principal = T[i].principal
          /\ r.status = T[i].status /\ r.sessionExpiresAt = clock + SessionTtl
      BY <3>1 DEF Session
    <3>4. Windowed(r)
      BY <3>1, <3>2, <3>3 DEF Windowed
    <3> HIDE DEF r
    <3>5. \A j \in Ids : /\ sessions'[j].principal = T[j].principal
                         /\ sessions'[j].status \in Live => T[j].status \in Live
                         /\ Windowed(T[j]) => Windowed(sessions'[j])
      BY <2>2, <2>3, <3>3, <3>4 DEF Records
    <3>6. QED
      BY <2>2, <3>5, RefreshProper
  <2>5. ProperFile(kept)
    <3> HIDE DEF T
    <3>1. QED
      BY <1>0, <2>2 DEF ProperFile, Image
  <2>6. SaveOver(kept)
    BY <2>1
  <2>7. ProperFile(disk')
    <3> HIDE DEF kept
    <3>1. QED
      BY <2>4, <2>5, <2>6, SaveProper
  <2>8. QED
    BY <1>i, <2>4, <2>7 DEF PInv, ProperFile
<1>4. ASSUME NEW i \in Ids, Activate(i)
      PROVE  PInv'
  <2> DEFINE r == [sessions[i] EXCEPT !.status = "ACTIVE", !.offerExpiresAt = Absent,
                                      !.sessionExpiresAt = clock + SessionTtl]
  <2>1. /\ SaveOver(disk) /\ sessions' = [sessions EXCEPT ![i] = r]
        /\ sessions[i].status = "OFFERED"
    BY <1>4 DEF Activate, Save
  <2>2. clock + SessionTtl # Absent
    BY <1>0, RouterAssumption DEF Absent
  <2>3. /\ r.principal = sessions[i].principal
        /\ r.status = "ACTIVE" /\ r.sessionExpiresAt = clock + SessionTtl
    BY <1>b DEF Session
  <2> HIDE DEF r
  <2>4. \A j \in Ids : /\ sessions'[j].principal = sessions[j].principal
                       /\ sessions'[j].status \in Live => sessions[j].status \in Live
                       /\ Windowed(sessions[j]) => Windowed(sessions'[j])
    BY <1>a, <2>1, <2>2, <2>3 DEF Records, Windowed, Live
  <2>5. Proper(sessions')
    BY <1>0, <2>4, RefreshProper
  <2>6. QED
    BY <1>0, <1>i, <2>1, <2>5, SaveProper DEF PInv
<1>5. ASSUME NEW i \in Ids, Leave(i)
      PROVE  PInv'
  <2> DEFINE r == [sessions[i] EXCEPT !.status = "LEFT", !.slot = Absent,
                                      !.offerExpiresAt = Absent,
                                      !.sessionExpiresAt = Absent]
  <2>1. SaveOver(disk) /\ sessions' = [sessions EXCEPT ![i] = r]
    BY <1>5 DEF Leave, Save
  <2>2. r.principal = sessions[i].principal /\ r.status = "LEFT"
    BY <1>b DEF Session
  <2> HIDE DEF r
  <2>3. \A j \in Ids : /\ sessions'[j].principal = sessions[j].principal
                       /\ sessions'[j].status \in Live => sessions[j].status \in Live
                       /\ Windowed(sessions[j]) => Windowed(sessions'[j])
    BY <1>a, <2>1, <2>2 DEF Records, Windowed, Live
  <2>4. Proper(sessions')
    BY <1>0, <2>3, RefreshProper
  <2>5. QED
    BY <1>0, <1>i, <2>1, <2>4, SaveProper DEF PInv
<1>6. CASE Poll
  <2>1. Proper(sessions')
    BY <1>6, <1>y DEF Poll
  <2>2. SaveOver(disk) \/ disk' = disk
    BY <1>6 DEF Poll, SaveIf, Save
  <2>3. QED
    BY <1>0, <1>i, <2>1, <2>2, SaveProper DEF PInv
<1>7. CASE Get
  <2>1. Proper(sessions')
    BY <1>7, <1>x DEF Get
  <2>2. SaveOver(disk) \/ disk' = disk
    BY <1>7 DEF Get, SaveIf, Save
  <2>3. QED
    BY <1>0, <1>i, <2>1, <2>2, SaveProper DEF PInv
<1>8. CASE Restart
  <2>1. PICK f \in Zips(Expire(disk.sessions, clock)) :
           sessions' = Offer(Expire(disk.sessions, clock), f, clock) /\ disk' = disk
    BY <1>8 DEF Restart
  <2>2. \A i \in Ids : Refreshes(disk.sessions[i], sessions'[i], clock)
    BY <1>0, <1>a, <2>1, RefreshedRecord
  <2>3. Proper(sessions')
    BY <1>a, <2>2, RefreshProper DEF Refreshes
  <2>4. QED
    BY <1>0, <1>i, <2>1, <2>3 DEF PInv
<1>9. CASE Tick
  BY <1>0, <1>i, <1>9 DEF Tick, PInv
<1>10. CASE UNCHANGED vars
  BY <1>0, <1>i, <1>10 DEF vars, PInv
<1>11. QED
  BY <1>1, <1>2, <1>3, <1>4, <1>5, <1>6, <1>7, <1>8, <1>9, <1>10 DEF Next

\* The strengthened invariant holds of everything the handlers do.
LEMMA HandlersInvariant == Spec => []PInv
<1>1. QED
  BY InitPInv, NextPInv, PTL DEF Spec

\* enqueue and renew never leave a principal with two live sessions, whatever
\* lapses, crashes and failing saves come between them.
THEOREM RouterOneLivePerPrincipal == Spec => []OneLivePerPrincipal
<1>1. ASSUME PInv, NEW p \in Principals
      PROVE  Cardinality(LiveOf(sessions, p)) <= 1
  <2>1. \A i, j \in LiveOf(sessions, p) : i = j
    BY <1>1 DEF PInv, Proper, Apart, LiveOf
  <2>2. CASE LiveOf(sessions, p) = {}
    BY <2>2, FS_EmptySet
  <2>3. CASE \E i : LiveOf(sessions, p) = {i}
    BY <2>3, FS_Singleton
  <2>4. QED
    BY <2>1, <2>2, <2>3
<1>2. PInv => OneLivePerPrincipal
  BY <1>1 DEF OneLivePerPrincipal
<1>3. QED
  BY <1>2, HandlersInvariant, PTL

\* The poll that may come next leaves a session waiting only when every slot is
\* held by an offer or a window that is still running.
THEOREM RouterWaitsForHoldersOnly == Spec => []WaitsForHoldersOnly
<1>1. ASSUME PInv, NEW f \in Zips(Expire(sessions, clock)),
             Waiting(Offer(Expire(sessions, clock), f, clock)) # {},
             NEW s \in Slots
      PROVE  \E i \in Ids :
                LET t == Offer(Expire(sessions, clock), f, clock)[i]
                IN  /\ t.slot = s
                    /\ \/ t.status = "OFFERED" /\ t.offerExpiresAt > clock
                       \/ t.status = "ACTIVE" /\ t.sessionExpiresAt > clock
  <2> DEFINE E == Expire(sessions, clock)
             T == Offer(E, f, clock)
  <2>1. /\ clock \in Nat /\ Sound(sessions) /\ Sound(E) /\ E \in Records
        /\ \A i \in Ids : sessions[i] \in Session /\ Windowed(sessions[i])
    BY <1>1, ExpireSound DEF PInv, IInv, Proper, Sound, Records
  <2>2. PICK P \in SUBSET Waiting(E) : f \in [P -> Free(E)]
    BY DEF Zips
  <2>3. IsZip(E, f)
    BY DEF Zips
  <2> HIDE DEF E
  <2>4. \A i \in Ids : \/ i \notin P /\ T[i] = E[i]
                       \/ /\ i \in P /\ T[i].status = "OFFERED" /\ T[i].slot = f[i]
                          /\ T[i].offerExpiresAt = clock + OfferTtl
    BY <2>1, <2>2, OfferedRecord DEF E
  <2>5. P # Waiting(E)
    <3>1. PICK i \in Ids : T[i].status = "WAITING"
      BY <1>1 DEF Waiting, E
    <3> HIDE DEF T
    <3>2. i \notin P /\ E[i].status = "WAITING"
      BY <2>4, <3>1
    <3>3. QED
      BY <3>1, <3>2 DEF Waiting
  <2>6. {f[j] : j \in P} = Free(E)
    BY <2>2, <2>3, <2>5 DEF IsZip
  <2> HIDE DEF T
  <2>7. CASE s \in Free(E)
    <3>1. PICK j \in P : f[j] = s
      BY <2>6, <2>7
    <3>2. j \in Ids
      BY <2>2 DEF Waiting
    <3>3. /\ T[j].slot = s /\ T[j].status = "OFFERED"
          /\ T[j].offerExpiresAt > clock
      BY <2>1, <2>4, <3>1, <3>2, RouterAssumption
    <3>4. QED
      BY <3>2, <3>3 DEF E, T
  <2>8. CASE s \notin Free(E)
    <3>1. PICK j \in Ids : E[j].status \in Holding /\ E[j].slot = s
      BY <2>8 DEF Free, Occupied
    <3>2. j \notin P
      BY <2>2, <3>1 DEF Waiting, Holding
    <3>3. T[j] = E[j]
      BY <2>4, <3>2
    <3> DEFINE r == sessions[j]
    <3>4. E[j] = Expired(r, clock) /\ r \in Session /\ Windowed(r)
      BY <2>1 DEF E, Expire
    <3>5. CASE r.status = "OFFERED" /\ Lapsed(r.offerExpiresAt, clock)
      <4>1. E[j] = [r EXCEPT !.status = "WAITING", !.slot = Absent,
                             !.offerExpiresAt = Absent, !.enqueuedAt = clock]
        BY <3>4, <3>5 DEF Expired
      <4> HIDE DEF r
      <4>2. E[j].status = "WAITING"
        BY <3>4, <4>1 DEF Session
      <4>3. QED
        BY <3>1, <4>2 DEF Holding
    <3>6. CASE r.status = "ACTIVE" /\ Lapsed(r.sessionExpiresAt, clock)
      <4>1. E[j] = [r EXCEPT !.status = "STOPPED", !.slot = Absent,
                             !.sessionExpiresAt = Absent]
        BY <3>4, <3>6 DEF Expired
      <4> HIDE DEF r
      <4>2. E[j].status = "STOPPED"
        BY <3>4, <4>1 DEF Session
      <4>3. QED
        BY <3>1, <4>2 DEF Holding
    <3>7. CASE r.status = "BACKED_OFF" /\ Lapsed(r.backoffUntil, clock)
      <4>1. E[j] = [r EXCEPT !.status = "WAITING", !.backoffUntil = Absent]
        BY <3>4, <3>7 DEF Expired
      <4> HIDE DEF r
      <4>2. E[j].status = "WAITING"
        BY <3>4, <4>1 DEF Session
      <4>3. QED
        BY <3>1, <4>2 DEF Holding
    <3>8. CASE /\ ~(r.status = "OFFERED" /\ Lapsed(r.offerExpiresAt, clock))
               /\ ~(r.status = "ACTIVE" /\ Lapsed(r.sessionExpiresAt, clock))
               /\ ~(r.status = "BACKED_OFF" /\ Lapsed(r.backoffUntil, clock))
      <4>1. E[j] = r
        BY <3>4, <3>8 DEF Expired
      <4> HIDE DEF r
      <4>2. \/ r.status = "OFFERED" /\ r.offerExpiresAt # Absent
                                    /\ ~Lapsed(r.offerExpiresAt, clock)
            \/ r.status = "ACTIVE" /\ r.sessionExpiresAt # Absent
                                   /\ ~Lapsed(r.sessionExpiresAt, clock)
        BY <3>1, <3>4, <3>8, <4>1 DEF Holding, Windowed
      <4>3. r.offerExpiresAt \in Nat /\ r.sessionExpiresAt \in Nat
        BY <3>4 DEF Session
      <4>4. \/ r.status = "OFFERED" /\ r.offerExpiresAt > clock
            \/ r.status = "ACTIVE" /\ r.sessionExpiresAt > clock
        BY <2>1, <4>2, <4>3 DEF Lapsed
      <4>5. QED
        BY <3>1, <3>3, <4>1, <4>4 DEF E, T
    <3>9. QED
      BY <3>5, <3>6, <3>7, <3>8
  <2>9. QED
    BY <2>7, <2>8
<1>2. PInv => WaitsForHoldersOnly
  BY <1>1 DEF WaitsForHoldersOnly
<1>3. QED
  BY <1>2, HandlersInvariant, PTL

\* Of two waiters the zip does not pass over the one that came before.
LEMMA ZipInOrder ==
    ASSUME NEW S \in Records, NEW f \in Zips(S), NEW i \in DOMAIN f,
           NEW j \in Waiting(S), S[j].enqueuedAt < S[i].enqueuedAt
    PROVE  j \in DOMAIN f
<1>1. PICK P \in SUBSET Waiting(S) : f \in [P -> Free(S)]
  BY DEF Zips
<1>2. S[i].enqueuedAt \in Nat /\ S[j].enqueuedAt \in Nat
  BY <1>1 DEF Waiting, Records, Session
<1>3. ASSUME j \notin P PROVE FALSE
  <2>1. Before(S, i, j)
    BY <1>1, <1>3 DEF Zips, IsZip
  <2>2. QED
    BY <1>2, <2>1 DEF Before
<1>4. QED
  BY <1>1, <1>3

\* A lapsed offer goes to the tail of the queue.
LEMMA LapsedToTail ==
    ASSUME NEW S \in Records, NEW now \in Nat, NEW i \in Ids, Windowed(S[i]),
           S[i].status = "OFFERED", S[i].offerExpiresAt <= now
    PROVE  /\ Expire(S, now)[i].status = "WAITING"
           /\ Expire(S, now)[i].enqueuedAt = now
<1> DEFINE e == Expire(S, now)[i]
<1>1. S[i] \in Session
  BY DEF Records
<1>2. Lapsed(S[i].offerExpiresAt, now)
  BY <1>1 DEF Windowed, Lapsed, Session
<1>3. e = [S[i] EXCEPT !.status = "WAITING", !.slot = Absent,
                       !.offerExpiresAt = Absent, !.enqueuedAt = now]
  BY <1>2 DEF Expire, Expired
<1> HIDE DEF e
<1>4. e.status = "WAITING" /\ e.enqueuedAt = now
  BY <1>1, <1>3 DEF Session
<1>5. QED
  BY <1>4 DEF e

\* The tail of the queue: an offer that lapsed is made again in a refresh only
\* when every earlier waiter is offered a slot as well.
LEMMA RefreshYields ==
    ASSUME NEW S, Sound(S), NEW now \in Nat, NEW f \in Zips(Expire(S, now)),
           NEW i \in Ids, NEW j \in Ids,
           Windowed(S[i]), S[i].status = "OFFERED", S[i].offerExpiresAt <= now,
           S[j].status = "WAITING", S[j].enqueuedAt < now
    PROVE  LET E == Expire(S, now)
               T == Offer(E, f, now)
           IN  /\ E[i].status = "WAITING" /\ E[i].enqueuedAt = now
               /\ E[j] = S[j]
               /\ T[i].status = "OFFERED" => T[j].status = "OFFERED"
               /\ T[i].status # "OFFERED" => T[i] = E[i]
               /\ T[j].status # "OFFERED" => T[j] = S[j]
<1> DEFINE E == Expire(S, now)
           T == Offer(E, f, now)
<1>1. S \in Records /\ E \in Records
  BY ExpireSound DEF Sound
<1>2. E[j] = S[j]
  BY DEF Expire, Expired
<1>3. E[i].status = "WAITING" /\ E[i].enqueuedAt = now
  BY <1>1, LapsedToTail
<1> HIDE DEF E
<1>4. j \in Waiting(E) /\ E[j].enqueuedAt < E[i].enqueuedAt
  BY <1>2, <1>3 DEF Waiting
<1>5. i \in DOMAIN f => j \in DOMAIN f
  BY <1>1, <1>4, ZipInOrder DEF E
<1>6. \A k \in {i, j} : \/ k \notin DOMAIN f /\ T[k] = E[k]
                        \/ k \in DOMAIN f /\ T[k].status = "OFFERED"
  BY <1>1, OfferedRecord DEF E
<1> HIDE DEF T
<1>7. QED
  BY <1>2, <1>3, <1>5, <1>6 DEF E, T

\* A lapsed offer is not renewed over the head of a session that was already
\* waiting, by any request of the router's handlers.
THEOREM RouterLapsedOfferYields == Spec => LapsedOfferYields
<1> DEFINE Yields == \A i, j \in Ids :
         /\ sessions[i].status = "OFFERED" /\ sessions[i].offerExpiresAt <= clock
         /\ sessions'[i].status = "OFFERED"
         /\ sessions'[i].offerExpiresAt # sessions[i].offerExpiresAt
         /\ sessions[j].status = "WAITING" /\ sessions[j].enqueuedAt < clock
         => sessions'[j].status # "WAITING" \/ Restart
<1>1. ASSUME PInv, [Next]_vars PROVE [Yields]_vars
  <2> SUFFICES ASSUME NEW i \in Ids, NEW j \in Ids,
                 sessions[i].status = "OFFERED", sessions[i].offerExpiresAt <= clock,
                 sessions'[i].status = "OFFERED",
                 sessions'[i].offerExpiresAt # sessions[i].offerExpiresAt,
                 sessions[j].status = "WAITING", sessions[j].enqueuedAt < clock
               PROVE  sessions'[j].status # "WAITING" \/ Restart
    OBVIOUS
  <2> DEFINE E == Expire(sessions, clock)
  <2>0. /\ clock \in Nat /\ Sound(sessions) /\ sessions \in Records
        /\ Windowed(sessions[i]) /\ i # j
        /\ sessions[i] \in Session /\ sessions[j] \in Session
    BY <1>1 DEF PInv, IInv, Sound, Proper, Records
  <2>f. \A f \in Zips(E) :
          LET T == Offer(E, f, clock)
          IN  /\ Sound(T)
              /\ E[i].status = "WAITING" /\ E[i].enqueuedAt = clock
              /\ E[j] = sessions[j]
              /\ T[i].status = "OFFERED" => T[j].status = "OFFERED"
              /\ T[i].status # "OFFERED" => T[i] = E[i]
              /\ T[j].status # "OFFERED" => T[j] = sessions[j]
    BY <2>0, RefreshYields, RefreshSound
  <2>1. CASE \E f \in Zips(E) : sessions' = Offer(E, f, clock)
    BY <2>1, <2>f
  <2>2. ASSUME NEW p \in Principals, EnqueueNew(p)
        PROVE  sessions'[j].status # "WAITING"
    <3>1. PICK f \in Zips(E), id \in Ids :
            LET T == Offer(E, f, clock)
                N == [T EXCEPT ![id] = NewSession(p, clock)]
            IN  /\ T[id].status = "NONE"
                /\ \E g \in Zips(N) : sessions' = Offer(N, g, clock)
      BY <2>2 DEF EnqueueNew
    <3> DEFINE T == Offer(E, f, clock)
               r == NewSession(p, clock)
               N == [T EXCEPT ![id] = r]
    <3>2. /\ Sound(T)
          /\ T[i].status = "OFFERED" => T[j].status = "OFFERED"
          /\ T[i].status # "OFFERED" => T[i].status = "WAITING" /\ T[i].enqueuedAt = clock
          /\ T[j].status # "OFFERED" => T[j] = sessions[j]
      BY <2>f
    <3>3. PICK g \in Zips(N) : sessions' = Offer(N, g, clock)
      BY <3>1
    <3>4. T[id].status = "NONE"
      BY <3>1
    <3>5. r \in Session
      BY <2>0 DEF NewSession, Unused, Session, Live, Absent
    <3> HIDE DEF T, r
    <3>6. i # id /\ j # id
      BY <3>2, <3>4
    <3>7. N \in Records /\ N[i] = T[i] /\ N[j] = T[j]
      BY <3>2, <3>5, <3>6 DEF Sound, Records
    <3> HIDE DEF N
    <3>8. \A k \in {i, j} : \/ k \notin DOMAIN g /\ sessions'[k] = N[k]
                            \/ /\ k \in DOMAIN g /\ N[k].status = "WAITING"
                               /\ sessions'[k].status = "OFFERED"
      BY <2>0, <3>3, <3>7, OfferedRecord
    <3>9. CASE T[j].status = "OFFERED"
      BY <3>7, <3>8, <3>9
    <3>10. CASE T[j].status # "OFFERED"
      <4>1. T[j] = sessions[j] /\ T[i].status = "WAITING" /\ T[i].enqueuedAt = clock
        BY <3>2, <3>10
      <4>2. i \in DOMAIN g
        BY <3>7, <3>8, <4>1
      <4>3. j \in Waiting(N) /\ N[j].enqueuedAt < N[i].enqueuedAt
        BY <3>7, <4>1 DEF Waiting
      <4>4. j \in DOMAIN g
        BY <3>7, <4>2, <4>3, ZipInOrder
      <4>5. QED
        BY <3>8, <4>4
    <3>11. QED
      BY <3>9, <3>10
  <2>3. ASSUME NEW p \in Principals, Renew(p)
        PROVE  sessions'[j].status # "WAITING"
    <3>1. PICK f \in Zips(E), k \in Ids :
            sessions' = [Offer(E, f, clock) EXCEPT ![k].sessionExpiresAt = clock + SessionTtl]
      BY <2>3 DEF Renew
    <3> DEFINE T == Offer(E, f, clock)
    <3>2. /\ T \in Records
          /\ T[i].status = "OFFERED" => T[j].status = "OFFERED"
      BY <2>f DEF Sound
    <3>3. sessions' = [T EXCEPT ![k].sessionExpiresAt = clock + SessionTtl]
      BY <3>1
    <3> HIDE DEF T
    <3>4. \A m \in Ids : sessions'[m].status = T[m].status
      BY <3>2, <3>3 DEF Records, Session
    <3>5. QED
      BY <3>2, <3>4
  <2>4. ASSUME NEW k \in Ids, Activate(k) \/ Leave(k)
        PROVE  FALSE
    <3>1. CASE k = i
      BY <2>0, <2>4, <3>1 DEF Activate, Leave, Records, Session
    <3>2. CASE k # i
      BY <2>0, <2>4, <3>2 DEF Activate, Leave, Records
    <3>3. QED
      BY <3>1, <3>2
  <2>5. ASSUME Get
        PROVE  FALSE
    <3>1. E[i].status = "WAITING"
      BY <2>0, LapsedToTail
    <3>2. QED
      BY <2>5, <3>1 DEF Get
  <2>6. CASE Tick \/ UNCHANGED vars
    BY <2>6 DEF Tick, vars
  <2>7. CASE \E p \in Principals : EnqueueExisting(p)
    BY <2>1, <2>7 DEF EnqueueExisting
  <2>8. CASE Poll
    BY <2>1, <2>8 DEF Poll
  <2>9. QED
    BY <1>1, <2>2, <2>3, <2>4, <2>5, <2>6, <2>7, <2>8 DEF Next
<1>2. QED
  BY <1>1, HandlersInvariant, PTL DEF Spec, LapsedOfferYields

-----------------------------------------------------------------------------
(* While no save fails: what the file says of a session that memory has     *)
(* changed since, and what a call, a lapse or a crash may make of it.       *)

\* The file lags behind memory only by lapses, which a reload repeats, and by
\* offers: the window of an active session is in it, to the instant.
Recorded(d, s, now) ==
    \/ d.status \in Queued /\ s.status \in Queued
    \/ d.status = "ACTIVE" /\ s = d
    \/ /\ d.status \in Terminal \/ (d.status = "ACTIVE" /\ Lapsed(d.sessionExpiresAt, now))
       /\ s.status \in Terminal

\* Everything that can happen to a session short of its activation.
Turn(s, t, now) ==
    \/ s = t
    \/ s.status \in Queued /\ t.status \in Queued
    \/ /\ s.status = "ACTIVE" /\ ~Lapsed(s.sessionExpiresAt, now)
       /\ t.status = "ACTIVE" /\ t.slot = s.slot
    \/ t.status \in Terminal

RInv == PInv /\ \A i \in Ids : Recorded(disk.sessions[i], sessions[i], clock)

\* A record that was just saved is recorded.
LEMMA RecordedItself ==
    ASSUME NEW r \in Session, NEW now
    PROVE  Recorded(r, r, now)
BY DEF Recorded, Session, Live, Terminal, Queued

\* A refresh that is not saved is one the next reload makes again.
LEMMA RecordedRefresh ==
    ASSUME NEW d, NEW s, NEW t, NEW now,
           Recorded(d, s, now), Refreshes(s, t, now)
    PROVE  Recorded(d, t, now)
BY DEF Recorded, Refreshes, Queued, Terminal

\* A refresh is a turn.
LEMMA RefreshTurn ==
    ASSUME NEW s, NEW t, NEW now, Refreshes(s, t, now)
    PROVE  Turn(s, t, now)
BY DEF Refreshes, Turn, Terminal

\* What a reload makes of the file is a turn of what memory held.
LEMMA ReloadTurn ==
    ASSUME NEW d, NEW s, NEW t, NEW now,
           Recorded(d, s, now), Refreshes(d, t, now)
    PROVE  Recorded(d, t, now) /\ Turn(s, t, now)
BY DEF Recorded, Refreshes, Turn, Queued, Terminal

\* An empty store and its file agree.
LEMMA InitRInv == Init => RInv
<1> SUFFICES ASSUME Init PROVE RInv
  OBVIOUS
<1>1. \A i \in Ids : sessions[i].status = "NONE" /\ disk.sessions[i].status = "NONE"
  BY DEF Init, Unused, Image
<1>2. QED
  BY <1>1, InitPInv DEF RInv, Recorded, Queued

\* Every step keeps the file so, and is a turn of each session or an activation.
LEMMA NextRInv ==
    ASSUME DiskFaults = FALSE, RInv, [Next]_vars
    PROVE  /\ RInv'
           /\ \/ \A i \in Ids : Turn(sessions[i], sessions'[i], clock)
              \/ \E i \in Ids : Activate(i)
<1> DEFINE Kept == \A i \in Ids : Recorded(disk.sessions[i], sessions[i], clock)
           Turned == \A i \in Ids : Turn(sessions[i], sessions'[i], clock)
<1>0. /\ clock \in Nat /\ Sound(sessions) /\ SoundFile(disk) /\ Kept
  BY DEF RInv, PInv, IInv
<1>p. PInv'
  BY NextPInv DEF RInv
<1>a. sessions \in Records /\ sessions' \in Records
  BY <1>0, <1>p DEF Sound, PInv, IInv
<1>b. \A i \in Ids : sessions[i] \in Session /\ sessions'[i] \in Session
  BY <1>a DEF Records
<1>e. Expire(sessions, clock) \in Records
  BY <1>0, ExpireSound DEF Sound
<1>s. ASSUME NEW kept, SaveOver(kept)
      PROVE  Kept'
  <2>1. disk'.sessions = sessions'
    BY <1>s DEF SaveOver, Image
  <2>2. QED
    BY <1>b, <2>1, RecordedItself
<1>f. \A f \in Zips(Expire(sessions, clock)), i \in Ids :
         Refreshes(sessions[i], Offer(Expire(sessions, clock), f, clock)[i], clock)
  BY <1>0, RefreshedRecord
<1>r. ASSUME \A i \in Ids : Refreshes(sessions[i], sessions'[i], clock),
             clock' = clock, disk' = disk \/ SaveOver(disk)
      PROVE  Kept' /\ Turned
  <2>1. Turned
    BY <1>r, RefreshTurn
  <2>2. CASE disk' = disk
    BY <1>0, <1>r, <2>1, <2>2, RecordedRefresh
  <2>3. QED
    BY <1>r, <1>s, <2>1, <2>2
<1>1. ASSUME NEW p \in Principals, EnqueueExisting(p)
      PROVE  Kept' /\ Turned
  BY <1>1, <1>f, <1>r DEF EnqueueExisting, SaveIf, Save
<1>2. ASSUME NEW p \in Principals, EnqueueNew(p)
      PROVE  Kept' /\ Turned
  <2> DEFINE E == Expire(sessions, clock)
  <2>1. PICK f \in Zips(E), id \in Ids :
          LET T == Offer(E, f, clock)
              N == [T EXCEPT ![id] = NewSession(p, clock)]
          IN  /\ T[id].status = "NONE"
              /\ \E g \in Zips(N) : sessions' = Offer(N, g, clock)
              /\ SaveOver(IF DOMAIN f # {} THEN Image(T, nextSeq) ELSE disk)
    BY <1>2 DEF EnqueueNew
  <2> DEFINE T == Offer(E, f, clock)
             r == NewSession(p, clock)
             N == [T EXCEPT ![id] = r]
  <2>2. Sound(T) /\ \A i \in Ids : Refreshes(sessions[i], T[i], clock)
    BY <1>0, <1>f, RefreshSound
  <2>3. r \in Session /\ r.status = "WAITING" /\ r.slot = Absent
    BY <1>0 DEF NewSession, Unused, Session, Live, Absent
  <2>4. PICK g \in Zips(N) : sessions' = Offer(N, g, clock)
    BY <2>1
  <2>5. N \in Records /\ N[id] = r /\ \A i \in Ids \ {id} : N[i] = T[i]
    <3> HIDE DEF T, r
    <3>1. QED
      BY <2>2, <2>3 DEF Sound, Records
  <2>6. \A i \in Ids : \/ sessions'[i] = N[i]
                       \/ N[i].status = "WAITING" /\ sessions'[i].status = "OFFERED"
    <3> HIDE DEF N
    <3>1. QED
      BY <1>0, <2>4, <2>5, OfferedQueued
  <2>7. T[id].status = "NONE"
    BY <2>1
  <2> HIDE DEF N, T, r
  <2>8. Turned
    <3> SUFFICES ASSUME NEW i \in Ids PROVE Turn(sessions[i], sessions'[i], clock)
      OBVIOUS
    <3>1. CASE i = id
      <4>1. sessions[i].status \in Queued
        BY <2>2, <2>7, <3>1 DEF Refreshes, Queued, Terminal
      <4>2. sessions'[i].status \in Queued
        BY <2>3, <2>5, <2>6, <3>1 DEF Queued
      <4>3. QED
        BY <4>1, <4>2 DEF Turn
    <3>2. CASE i # id
      <4>1. Refreshes(sessions[i], T[i], clock)
        BY <2>2
      <4>2. \/ sessions'[i] = T[i]
            \/ T[i].status = "WAITING" /\ sessions'[i].status = "OFFERED"
        BY <2>5, <2>6, <3>2
      <4>3. QED
        BY <4>1, <4>2 DEF Refreshes, Turn, Queued, Terminal
    <3>3. QED
      BY <3>1, <3>2
  <2>9. QED
    BY <1>s, <2>1, <2>8
<1>3. ASSUME NEW p \in Principals, Renew(p)
      PROVE  Kept' /\ Turned
  <2> DEFINE E == Expire(sessions, clock)
  <2>1. PICK f \in Zips(E), k \in Ids :
          LET T == Offer(E, f, clock)
          IN  /\ T[k].status = "ACTIVE"
              /\ sessions' = [T EXCEPT ![k].sessionExpiresAt = clock + SessionTtl]
              /\ SaveOver(IF T # sessions THEN Image(T, nextSeq) ELSE disk)
    BY <1>3 DEF Renew
  <2> DEFINE T == Offer(E, f, clock)
  <2>2. Sound(T) /\ \A i \in Ids : Refreshes(sessions[i], T[i], clock)
    BY <1>0, <1>f, RefreshSound
  <2>3. /\ T[k].status = "ACTIVE"
        /\ sessions' = [T EXCEPT ![k].sessionExpiresAt = clock + SessionTtl]
    BY <2>1
  <2> HIDE DEF T
  <2>4. \A i \in Ids \ {k} : sessions'[i] = T[i]
    BY <2>2, <2>3 DEF Sound, Records
  <2>5. sessions'[k].status = "ACTIVE" /\ sessions'[k].slot = T[k].slot
    BY <2>2, <2>3 DEF Sound, Records, Session
  <2>6. T[k] = sessions[k] /\ ~Lapsed(sessions[k].sessionExpiresAt, clock)
    BY <2>2, <2>3 DEF Refreshes, Queued, Terminal
  <2>7. Turned
    <3>1. Turn(sessions[k], sessions'[k], clock)
      BY <2>3, <2>5, <2>6 DEF Turn
    <3>2. \A i \in Ids \ {k} : Turn(sessions[i], sessions'[i], clock)
      BY <2>2, <2>4, RefreshTurn
    <3>3. QED
      BY <3>1, <3>2
  <2>8. QED
    BY <1>s, <2>1, <2>7
<1>4. ASSUME NEW i \in Ids, Activate(i)
      PROVE  Kept'
  BY <1>4, <1>s DEF Activate, Save
<1>5. ASSUME NEW i \in Ids, Leave(i)
      PROVE  Kept' /\ Turned
  <2>1. \A j \in Ids \ {i} : sessions'[j] = sessions[j]
    BY <1>a, <1>5 DEF Leave, Records
  <2>2. sessions'[i].status = "LEFT"
    BY <1>b, <1>a, <1>5 DEF Leave, Records, Session
  <2>3. QED
    BY <1>5, <1>s, <2>1, <2>2 DEF Leave, Save, Turn, Terminal
<1>6. ASSUME Poll PROVE Kept' /\ Turned
  BY <1>6, <1>f, <1>r DEF Poll, SaveIf, Save
<1>7. ASSUME Get PROVE Kept' /\ Turned
  <2>1. \A i \in Ids : Refreshes(sessions[i], sessions'[i], clock)
    BY <1>0, <1>b, <1>7, ExpiredRefreshes DEF Get, Expire
  <2>2. QED
    BY <1>7, <1>r, <2>1 DEF Get, SaveIf, Save
<1>8. ASSUME Restart PROVE Kept' /\ Turned
  <2>1. PICK f \in Zips(Expire(disk.sessions, clock)) :
           sessions' = Offer(Expire(disk.sessions, clock), f, clock)
    BY <1>8 DEF Restart
  <2>2. disk' = disk /\ clock' = clock /\ Sound(disk.sessions)
    BY <1>0, <1>8 DEF Restart, SoundFile, Sound, Disk, Records
  <2>3. \A i \in Ids : Refreshes(disk.sessions[i], sessions'[i], clock)
    BY <1>0, <2>1, <2>2, RefreshedRecord
  <2>4. QED
    BY <1>0, <2>2, <2>3, ReloadTurn
<1>9. ASSUME Tick PROVE Kept' /\ Turned
  <2>1. sessions' = sessions /\ disk' = disk /\ clock' = clock + 1
    BY <1>9 DEF Tick
  <2>2. \A i \in Ids : disk.sessions[i].sessionExpiresAt \in Nat
    BY <1>0 DEF SoundFile, Disk, Session
  <2>3. QED
    BY <1>0, <2>1, <2>2 DEF Recorded, Lapsed, Turn
<1>10. ASSUME UNCHANGED vars PROVE Kept' /\ Turned
  BY <1>0, <1>10 DEF vars, Turn
<1>11. QED
  BY <1>p, <1>1, <1>2, <1>3, <1>4, <1>5, <1>6, <1>7, <1>8, <1>9, <1>10
  DEF Next, RInv

\* While no save fails, the file keeps what a crash would restore.
LEMMA CleanInvariant == ASSUME DiskFaults = FALSE PROVE Spec => []RInv
<1>1. Init => RInv
  BY InitRInv
<1>2. RInv /\ [Next]_vars => RInv'
  BY NextRInv
<1>3. QED
  BY <1>1, <1>2, PTL DEF Spec

\* An active session that has not run out is in the state file with the same
\* slot and window, after every method's own decision whether to save.
THEOREM RouterActiveIsDurable ==
    ASSUME DiskFaults = FALSE PROVE Spec => []ActiveIsDurable
<1>1. RInv => ActiveIsDurable
  BY DEF RInv, ActiveIsDurable, Recorded, Queued, Terminal
<1>2. QED
  BY <1>1, CleanInvariant, PTL

\* No renewal, activation or reload extends a window that has run out.
THEOREM RouterLapsedNeverRenewed ==
    ASSUME DiskFaults = FALSE PROVE Spec => LapsedNeverRenewed
<1> DEFINE Kept == \A i \in Ids :
               sessions[i].status = "ACTIVE" /\ sessions[i].sessionExpiresAt <= clock
               => \/ sessions'[i].status # "ACTIVE"
                  \/ sessions'[i].sessionExpiresAt = sessions[i].sessionExpiresAt
<1>1. ASSUME RInv, [Next]_vars PROVE [Kept]_vars
  <2> SUFFICES ASSUME NEW i \in Ids, sessions[i].status = "ACTIVE",
                      sessions[i].sessionExpiresAt <= clock
               PROVE  \/ sessions'[i].status # "ACTIVE"
                      \/ sessions'[i].sessionExpiresAt = sessions[i].sessionExpiresAt
    OBVIOUS
  <2>1. /\ sessions[i] \in Session /\ clock \in Nat /\ sessions \in Records
        /\ Lapsed(sessions[i].sessionExpiresAt, clock)
    BY <1>1 DEF RInv, PInv, IInv, Sound, Records, Proper, Windowed, Lapsed, Session
  <2>2. CASE Turn(sessions[i], sessions'[i], clock)
    BY <2>1, <2>2 DEF Turn, Queued, Terminal
  <2>3. CASE \E k \in Ids : Activate(k)
    <3>1. PICK k \in Ids : Activate(k)
      BY <2>3
    <3>2. k # i
      BY <3>1 DEF Activate
    <3>3. QED
      BY <2>1, <3>1, <3>2 DEF Activate, Records
  <2>4. QED
    BY <1>1, <2>2, <2>3, NextRInv
<1>2. QED
  BY <1>1, CleanInvariant, PTL DEF Spec, LapsedNeverRenewed

-----------------------------------------------------------------------------
(* The store implements SlotLeases.                                         *)

\* The table of leases that a set of records shows.
Table(S) == [i \in Ids |-> [status |-> Promised(S[i].status), slot |-> S[i].slot]]

\* Records that hold every slot once show an exclusive table.
LEMMA TableExclusive ==
    ASSUME NEW S, Sound(S)
    PROVE  /\ Table(S) \in [Ids -> Leases!Lease]
           /\ Leases!Exclusive(Table(S))
<1>1. \A i \in Ids : /\ S[i] \in Session
                     /\ S[i].status \in Holding <=> S[i].slot # Absent
  BY DEF Sound, Records, SlotsHeldOnce
<1>2. \A i \in Ids : /\ Promised(S[i].status) \in {"WAITING", "OFFERED", "ACTIVE", "ENDED"}
                     /\ Promised(S[i].status) \in {"OFFERED", "ACTIVE"}
                          <=> S[i].status \in Holding
  BY <1>1 DEF Promised, Session, Live, Terminal, Holding
<1>3. \A i \in Ids : /\ Table(S)[i].status = Promised(S[i].status)
                     /\ Table(S)[i].slot = S[i].slot
  BY DEF Table
<1>4. Table(S) \in [Ids -> Leases!Lease]
  BY <1>1, <1>2 DEF Table, Leases!Lease, Session
<1>5. Leases!Exclusive(Table(S))
  BY <1>1, <1>2, <1>3 DEF Leases!Exclusive, Sound, SlotsHeldOnce
<1>6. QED
  BY <1>4, <1>5

\* A turn of a session is a change the abstract table allows.
LEMMA TurnAllowed ==
    ASSUME NEW s \in Session, NEW t \in Session, NEW now, Turn(s, t, now)
    PROVE  Leases!MayBecome([status |-> Promised(s.status), slot |-> s.slot],
                            [status |-> Promised(t.status), slot |-> t.slot])
<1>1. ASSUME NEW r \in Session, r.status \in Queued
      PROVE  Promised(r.status) \in {"WAITING", "OFFERED"}
  BY <1>1 DEF Promised, Queued, Terminal
<1>2. ASSUME NEW r \in Session, r.status \in Terminal
      PROVE  Promised(r.status) = "ENDED"
  BY <1>2 DEF Promised, Terminal
<1>3. QED
  BY <1>1, <1>2 DEF Turn, Leases!MayBecome

\* While no save fails, everything RouterSessionStore does, lapses, offers and
\* restarts included, is what SlotLeases allows: a session becomes active only
\* by activation of its own offer and keeps its slot until it ends for good.
THEOREM RouterLeasesKept == ASSUME DiskFaults = FALSE PROVE Spec => LeasesKept
<1>1. Init => Leases!Init
  <2> SUFFICES ASSUME Init PROVE Leases!Init
    OBVIOUS
  <2>1. \A i \in Ids : /\ sessions[i].status = "NONE" /\ sessions[i].slot = Absent
                       /\ Promised(sessions[i].status) = "WAITING"
    BY DEF Init, Unused, Promised, Terminal
  <2>2. QED
    BY <2>1 DEF Leases!Init
<1>2. ASSUME RInv, [Next]_vars
      PROVE  [Leases!Next]_(Table(sessions))
  <2>1. RInv' /\ \/ \A i \in Ids : Turn(sessions[i], sessions'[i], clock)
                 \/ \E i \in Ids : Activate(i)
    BY <1>2, NextRInv
  <2>2. /\ Sound(sessions) /\ Sound(sessions')
        /\ \A i \in Ids : sessions[i] \in Session /\ sessions'[i] \in Session
    BY <1>2, <2>1 DEF RInv, PInv, IInv, Sound, Records
  <2>3. CASE \A i \in Ids : Turn(sessions[i], sessions'[i], clock)
    <3>1. \A i \in Ids : Leases!MayBecome(Table(sessions)[i], Table(sessions')[i])
      BY <2>2, <2>3, TurnAllowed DEF Table
    <3>2. Table(sessions') \in [Ids -> Leases!Lease] /\ Leases!Exclusive(Table(sessions'))
      BY <2>2, TableExclusive
    <3>3. Leases!Rearrange
      BY <3>1, <3>2 DEF Leases!Rearrange, Table
    <3>4. QED
      BY <3>3 DEF Leases!Next
  <2>4. CASE \E i \in Ids : Activate(i)
    <3>1. PICK k \in Ids : Activate(k)
      BY <2>4
    <3>2. \A j \in Ids \ {k} : sessions'[j] = sessions[j]
      BY <2>2, <3>1 DEF Activate, Sound, Records
    <3>3. /\ sessions[k].status = "OFFERED" /\ sessions'[k].status = "ACTIVE"
          /\ sessions'[k].slot = sessions[k].slot
      BY <2>2, <3>1 DEF Activate, Sound, Records, Session
    <3>4. Promised("OFFERED") = "OFFERED" /\ Promised("ACTIVE") = "ACTIVE"
      BY DEF Promised, Terminal
    <3>5. Table(sessions') = [Table(sessions) EXCEPT ![k].status = "ACTIVE"]
      BY <3>2, <3>3, <3>4 DEF Table
    <3>6. Leases!Activate(k)
      BY <3>3, <3>4, <3>5 DEF Leases!Activate, Table
    <3>7. QED
      BY <3>6 DEF Leases!Next
  <2>5. QED
    BY <2>1, <2>3, <2>4
<1>3. QED
  BY <1>1, <1>2, CleanInvariant, PTL DEF Spec, LeasesKept, Leases!Spec, Table

-----------------------------------------------------------------------------
(* First come, first served, while no save fails.                           *)

\* Nobody's place in the queue is in the future, and nobody backed off.
Dated(S, now) ==
    \A i \in Ids : S[i].status # "BACKED_OFF" /\ S[i].enqueuedAt <= now

\* An assignment made at an instant since i was queued gave i a slot.
Reached(S, i, now) ==
    \E t \in 1..now : /\ S[i].enqueuedAt <= t
                      /\ \E f \in Zips(Expire(S, t)) : i \in DOMAIN f

\* The file lags behind memory only by offers that a reload makes again.
OffersRecorded(D, S, now) ==
    \A i \in Ids :
        /\ D[i].status = "OFFERED" /\ ~Lapsed(D[i].offerExpiresAt, now) => S[i] = D[i]
        /\ D[i].status = "WAITING" /\ S[i].status # "WAITING" => Reached(D, i, now)

QInv == /\ PInv
        /\ clock >= 1
        /\ Dated(sessions, clock)
        /\ Dated(disk.sessions, clock)
        /\ OffersRecorded(disk.sessions, sessions, clock)

\* What expiry does to one record when nobody backed off.
LEMMA ExpiredPlace ==
    ASSUME NEW S \in Records, NEW now \in Nat, Dated(S, now), NEW i \in Ids
    PROVE  LET e == Expire(S, now)[i]
           IN  \/ e = S[i] /\ ~(S[i].status = "OFFERED" /\ Lapsed(S[i].offerExpiresAt, now))
               \/ /\ S[i].status = "OFFERED" /\ Lapsed(S[i].offerExpiresAt, now)
                  /\ e.status = "WAITING" /\ e.enqueuedAt = now
               \/ /\ S[i].status = "ACTIVE" /\ Lapsed(S[i].sessionExpiresAt, now)
                  /\ e.status = "STOPPED" /\ e.enqueuedAt = S[i].enqueuedAt
<1> DEFINE e == Expire(S, now)[i]
<1>0. S[i] \in Session /\ S[i].status # "BACKED_OFF"
  BY DEF Records, Dated
<1>1. CASE S[i].status = "OFFERED" /\ Lapsed(S[i].offerExpiresAt, now)
  <2>1. e = [S[i] EXCEPT !.status = "WAITING", !.slot = Absent,
                         !.offerExpiresAt = Absent, !.enqueuedAt = now]
    BY <1>1 DEF Expire, Expired
  <2> HIDE DEF e
  <2>2. e.status = "WAITING" /\ e.enqueuedAt = now
    BY <1>0, <2>1 DEF Session
  <2>3. QED
    BY <1>1, <2>2 DEF e
<1>2. CASE S[i].status = "ACTIVE" /\ Lapsed(S[i].sessionExpiresAt, now)
  <2>1. e = [S[i] EXCEPT !.status = "STOPPED", !.slot = Absent,
                         !.sessionExpiresAt = Absent]
    BY <1>2 DEF Expire, Expired
  <2> HIDE DEF e
  <2>2. e.status = "STOPPED" /\ e.enqueuedAt = S[i].enqueuedAt
    BY <1>0, <2>1 DEF Session
  <2>3. QED
    BY <1>2, <2>2 DEF e
<1>3. CASE /\ ~(S[i].status = "OFFERED" /\ Lapsed(S[i].offerExpiresAt, now))
           /\ ~(S[i].status = "ACTIVE" /\ Lapsed(S[i].sessionExpiresAt, now))
  BY <1>0, <1>3 DEF Expire, Expired
<1>4. QED
  BY <1>1, <1>2, <1>3

\* An assignment moves nobody in the queue.
LEMMA OfferedPlace ==
    ASSUME NEW S \in Records, NEW now \in Nat, NEW f \in Zips(S), NEW i \in Ids
    PROVE  Offer(S, f, now)[i].enqueuedAt = S[i].enqueuedAt
<1> DEFINE t == Offer(S, f, now)[i]
<1>1. S[i] \in Session
  BY DEF Records
<1>2. t = S[i] \/ t = [S[i] EXCEPT !.status = "OFFERED", !.slot = f[i],
                                   !.offerExpiresAt = now + OfferTtl]
  BY DEF Offer
<1> HIDE DEF t
<1>3. t.enqueuedAt = S[i].enqueuedAt
  BY <1>1, <1>2 DEF Session
<1>4. QED
  BY <1>3 DEF t

\* Expiry keeps every place dated: the tail of the queue is now.
LEMMA ExpireDated ==
    ASSUME NEW S \in Records, NEW now \in Nat, Dated(S, now)
    PROVE  Dated(Expire(S, now), now)
<1>1. \A i \in Ids : S[i].status # "BACKED_OFF" /\ S[i].enqueuedAt <= now
  BY DEF Dated
<1>2. \A i \in Ids : /\ Expire(S, now)[i].status # "BACKED_OFF"
                     /\ Expire(S, now)[i].enqueuedAt <= now
  <2> TAKE i \in Ids
  <2> DEFINE e == Expire(S, now)[i]
  <2>1. \/ e = S[i]
        \/ e.status = "WAITING" /\ e.enqueuedAt = now
        \/ e.status = "STOPPED" /\ e.enqueuedAt = S[i].enqueuedAt
    BY ExpiredPlace
  <2> HIDE DEF e
  <2>2. e.status # "BACKED_OFF" /\ e.enqueuedAt <= now
    BY <1>1, <2>1
  <2>3. QED
    BY <2>2 DEF e
<1>3. QED
  BY <1>2 DEF Dated

\* An assignment keeps every place dated.
LEMMA OfferDated ==
    ASSUME NEW S \in Records, NEW now \in Nat, Dated(S, now), NEW f \in Zips(S)
    PROVE  Dated(Offer(S, f, now), now)
<1>1. \A i \in Ids : Offer(S, f, now)[i].enqueuedAt = S[i].enqueuedAt
  BY OfferedPlace
<1>2. \A i \in Ids : \/ Offer(S, f, now)[i] = S[i]
                     \/ Offer(S, f, now)[i].status = "OFFERED"
  BY OfferedRecord
<1>3. \A i \in Ids : S[i].status # "BACKED_OFF" /\ S[i].enqueuedAt <= now
  BY DEF Dated
<1> DEFINE T == Offer(S, f, now)
<1> HIDE DEF T
<1>4. \A i \in Ids : T[i].status # "BACKED_OFF" /\ T[i].enqueuedAt <= now
  BY <1>1, <1>2, <1>3 DEF T
<1>5. QED
  BY <1>4 DEF Dated, T

\* A later assignment from the same records passes over nobody whom an earlier
\* one reached: what lapsed in between joined behind, and freed its slot.
LEMMA ZipAgain ==
    ASSUME NEW S \in Records, NEW t \in Nat, NEW now \in Nat, t <= now,
           Dated(S, now), NEW j \in Ids,
           S[j].status = "WAITING", S[j].enqueuedAt <= t,
           NEW f \in Zips(Expire(S, t)), j \in DOMAIN f,
           NEW g \in Zips(Expire(S, now)), Sound(S)
    PROVE  j \in DOMAIN g
<1> DEFINE A == Expire(S, t)
           B == Expire(S, now)
           P == DOMAIN f
           Q == DOMAIN g
<1>1. A \in Records /\ B \in Records
  BY ExpireSound DEF Sound
<1>2. \A k \in Ids : /\ S[k] \in Session /\ S[k].status # "BACKED_OFF"
                     /\ S[k].enqueuedAt \in Nat
  BY DEF Records, Dated, Session
<1>3. A[j] = S[j] /\ B[j] = S[j]
  BY DEF Expire, Expired
<1>4. \A k \in Ids : B[k].status = "WAITING" =>
         \/ S[k].status = "WAITING" /\ A[k] = S[k] /\ B[k] = S[k]
         \/ B[k].enqueuedAt = now
  <2> TAKE k \in Ids
  <2>1. CASE S[k].status = "WAITING"
    BY <2>1 DEF Expire, Expired
  <2>2. CASE S[k].status # "WAITING"
    BY <2>2, ExpiredPlace
  <2>3. QED
    BY <2>1, <2>2
<1>5. \A k \in Ids : B[k].status \in Holding => A[k] = B[k]
  <2> TAKE k \in Ids
  <2>1. \A d \in Nat : Lapsed(d, t) => Lapsed(d, now)
    BY DEF Lapsed
  <2>2. S[k].offerExpiresAt \in Nat /\ S[k].sessionExpiresAt \in Nat
    BY <1>2 DEF Session
  <2>3. HAVE B[k].status \in Holding
  <2>4. B[k] = S[k] /\ ~(S[k].status = "OFFERED" /\ Lapsed(S[k].offerExpiresAt, now))
    BY <2>3, ExpiredPlace DEF Holding
  <2>5. ~(S[k].status = "ACTIVE" /\ Lapsed(S[k].sessionExpiresAt, now))
    <3>1. SUFFICES ASSUME S[k].status = "ACTIVE", Lapsed(S[k].sessionExpiresAt, now)
                   PROVE  FALSE
      OBVIOUS
    <3> DEFINE b == B[k]
    <3>2. b = [S[k] EXCEPT !.status = "STOPPED", !.slot = Absent,
                           !.sessionExpiresAt = Absent]
      BY <3>1 DEF Expire, Expired
    <3>3. b.status \in Holding
      BY <2>3
    <3> HIDE DEF b
    <3>4. b.status = "STOPPED"
      BY <1>2, <3>2 DEF Session
    <3>5. QED
      BY <3>3, <3>4 DEF Holding
  <2>6. ~(S[k].status = "OFFERED" /\ Lapsed(S[k].offerExpiresAt, t))
    BY <2>1, <2>2, <2>4
  <2>7. ~(S[k].status = "ACTIVE" /\ Lapsed(S[k].sessionExpiresAt, t))
    BY <2>1, <2>2, <2>5
  <2>8. A[k] = S[k]
    BY <1>2, <2>6, <2>7 DEF Expire, Expired
  <2>9. QED
    BY <2>4, <2>8
<1>f. P \subseteq Waiting(A) /\ f \in Injection(P, Free(A))
  BY <1>1, ZipInjective
<1>g. Q \subseteq Waiting(B) /\ g \in Injection(Q, Free(B))
  BY <1>1, ZipInjective
<1>h. A = B \/ t < now
  BY DEF Expire
<1>p. \A k \in Waiting(A) \ P : Before(A, j, k)
  BY <1>f DEF Zips, IsZip
<1>q. j \in Waiting(B) \ Q => \A k \in Q : Before(B, k, j)
  BY DEF Zips, IsZip
<1>r. Q = Waiting(B) \/ {g[i] : i \in Q} = Free(B)
  BY DEF Zips, IsZip
<1> HIDE DEF A, B, P, Q
<1>6. SUFFICES ASSUME j \notin Q PROVE FALSE
  BY DEF Q
<1>7. j \in Waiting(B) \ Q
  BY <1>3, <1>6 DEF Waiting
<1>8. Q \subseteq P \ {j}
  <2> SUFFICES ASSUME NEW k \in Q PROVE k \in P
    BY <1>6
  <2>1. k \in Ids /\ B[k].status = "WAITING" /\ Before(B, k, j)
    BY <1>g, <1>7, <1>q DEF Waiting
  <2>2. A[k] = B[k]
    <3>1. CASE A[k] = S[k] /\ B[k] = S[k]
      BY <3>1
    <3>2. CASE B[k].enqueuedAt = now
      BY <1>2, <1>3, <1>h, <2>1, <3>2 DEF Before
    <3>3. QED
      BY <1>4, <2>1, <3>1, <3>2
  <2>3. SUFFICES ASSUME k \notin P PROVE FALSE
    OBVIOUS
  <2>4. Before(A, j, k)
    BY <1>p, <2>1, <2>2, <2>3 DEF Waiting
  <2>5. A[k].enqueuedAt \in Nat /\ A[j] = B[j] /\ A[j].enqueuedAt \in Nat
    BY <1>1, <1>3, <2>1 DEF Records, Session
  <2>6. k \in Nat /\ j \in Nat
    BY <2>1, RouterAssumption DEF Ids
  <2>7. QED
    BY <2>1, <2>2, <2>4, <2>5, <2>6 DEF Before
<1>9. Free(A) \subseteq Free(B)
  BY <1>5 DEF Free, Occupied
<1>10. IsFiniteSet(P) /\ IsFiniteSet(Q) /\ IsFiniteSet(Free(B))
  <2>1. IsFiniteSet(Ids) /\ IsFiniteSet(Slots)
    BY FS_Interval, RouterAssumption DEF Ids, Slots
  <2>2. P \in SUBSET Ids /\ Q \in SUBSET Ids /\ Free(B) \in SUBSET Slots
    BY <1>f, <1>g DEF Waiting, Free
  <2>3. QED
    BY <2>1, <2>2, FS_Subset
<1>11. Cardinality(P) <= Cardinality(Free(B))
  <2>1. f \in Injection(P, Free(B))
    BY <1>f, <1>9 DEF Injection, IsInjective
  <2>2. QED
    BY <1>10, <2>1, FS_Injection
<1>12. Cardinality(Free(B)) <= Cardinality(Q)
  <2>1. g \in Surjection(Q, Free(B))
    BY <1>7, <1>g, <1>r DEF Injection, Surjection
  <2>2. QED
    BY <1>10, <2>1, FS_Surjection
<1>13. Cardinality(Q) <= Cardinality(P \ {j}) /\ IsFiniteSet(P \ {j})
  <2>1. IsFiniteSet(P \ {j})
    BY <1>10, FS_RemoveElement
  <2>2. QED
    BY <1>8, <2>1, FS_Subset
<1>14. Cardinality(P \ {j}) = Cardinality(P) - 1
  BY <1>10, FS_RemoveElement DEF P
<1>15. /\ Cardinality(P) \in Nat /\ Cardinality(Q) \in Nat
       /\ Cardinality(Free(B)) \in Nat
  BY <1>10, FS_CardinalityType
<1>16. QED
  BY <1>11, <1>12, <1>13, <1>14, <1>15

\* An empty store has nobody queued.
LEMMA InitQInv == Init => QInv
<1> SUFFICES ASSUME Init PROVE QInv
  OBVIOUS
<1>1. /\ clock = 1
      /\ \A i \in Ids : sessions[i].status = "NONE" /\ sessions[i].enqueuedAt = 0
      /\ disk.sessions = sessions
  BY DEF Init, Unused, Image, Absent
<1>2. QED
  BY <1>1, InitPInv DEF QInv, Dated, OffersRecorded

\* A refresh leaves a waiter at its place, offers nothing over its head, and
\* lets nobody in before it.
InTurn(S, T, now) ==
    \A i, j \in Ids :
        S[i].status = "WAITING" /\ T[i].status = "WAITING"
        => /\ T[i] = S[i]
           /\ S[j].status = "WAITING" /\ S[i].enqueuedAt < S[j].enqueuedAt => T[j] = S[j]
           /\ S[j].status # "WAITING" /\ T[j].status = "WAITING" => T[j].enqueuedAt = now

\* Expiry moves nobody who waits.
LEMMA ExpireInTurn ==
    ASSUME NEW S \in Records, NEW now \in Nat, Dated(S, now)
    PROVE  InTurn(S, Expire(S, now), now)
<1>1. \A i \in Ids : /\ S[i].status = "WAITING" => Expire(S, now)[i] = S[i]
                     /\ S[i].status # "WAITING" /\ Expire(S, now)[i].status = "WAITING"
                        => Expire(S, now)[i].enqueuedAt = now
  BY ExpiredPlace DEF Expire, Expired
<1>2. QED
  BY <1>1 DEF InTurn

\* Expiry and an assignment after it serve the queue in turn.
LEMMA RefreshInTurn ==
    ASSUME NEW S, Sound(S), NEW now \in Nat, Dated(S, now),
           NEW f \in Zips(Expire(S, now))
    PROVE  InTurn(S, Offer(Expire(S, now), f, now), now)
<1> DEFINE E == Expire(S, now)
           T == Offer(E, f, now)
<1>1. S \in Records /\ E \in Records
  BY ExpireSound DEF Sound
<1>2. \A i \in Ids : /\ S[i].status = "WAITING" => E[i] = S[i]
                     /\ S[i].status # "WAITING" /\ E[i].status = "WAITING"
                        => E[i].enqueuedAt = now
  BY <1>1, ExpiredPlace DEF Expire, Expired
<1>3. \A i \in Ids : \/ i \notin DOMAIN f /\ T[i] = E[i]
                     \/ /\ i \in DOMAIN f /\ E[i].status = "WAITING"
                        /\ T[i].status = "OFFERED"
  BY <1>1, OfferedRecord
<1>4. \A i \in DOMAIN f : i \in Waiting(E)
  BY <1>1, ZipInjective
<1>5. \A i \in DOMAIN f, j \in Waiting(E) :
         E[j].enqueuedAt < E[i].enqueuedAt => j \in DOMAIN f
  BY <1>1, ZipInOrder
<1> HIDE DEF E, T
<1>6. InTurn(S, T, now)
  <2> SUFFICES ASSUME NEW i \in Ids, NEW j \in Ids,
                 S[i].status = "WAITING", T[i].status = "WAITING"
               PROVE /\ T[i] = S[i]
                     /\ S[j].status = "WAITING" /\ S[i].enqueuedAt < S[j].enqueuedAt
                        => T[j] = S[j]
                     /\ S[j].status # "WAITING" /\ T[j].status = "WAITING"
                        => T[j].enqueuedAt = now
    BY DEF InTurn
  <2>1. E[i] = S[i] /\ i \notin DOMAIN f /\ T[i] = E[i] /\ i \in Waiting(E)
    BY <1>2, <1>3 DEF Waiting
  <2>2. ASSUME S[j].status = "WAITING", S[i].enqueuedAt < S[j].enqueuedAt
        PROVE  T[j] = S[j]
    BY <1>2, <1>3, <1>5, <2>1, <2>2
  <2>3. ASSUME S[j].status # "WAITING", T[j].status = "WAITING"
        PROVE  T[j].enqueuedAt = now
    BY <1>2, <1>3, <2>3
  <2>4. QED
    BY <2>1, <2>2, <2>3
<1>7. QED
  BY <1>6 DEF E, T

\* What FifoOrder asks of a step from S to T.
InOrder(S, T) ==
    \A i, j \in Ids :
        /\ S[i].status = "WAITING" /\ T[i].enqueuedAt = S[i].enqueuedAt
        /\ T[i].status = "WAITING" /\ i # j
        => /\ /\ S[j].status = "WAITING" /\ T[j].enqueuedAt = S[j].enqueuedAt
              /\ S[i].enqueuedAt < S[j].enqueuedAt
              => T[j].status # "OFFERED"
           /\ S[j].status # "WAITING" /\ T[j].status = "WAITING"
              => T[i].enqueuedAt <= T[j].enqueuedAt

\* Serving the queue in turn is serving it in order.
LEMMA InTurnInOrder ==
    ASSUME NEW S, NEW T, NEW now \in Nat, Dated(S, now), InTurn(S, T, now)
    PROVE  InOrder(S, T)
BY DEF InTurn, InOrder, Dated

\* A reload repeats every offer that memory made, so it too keeps the order.
LEMMA ReloadInOrder ==
    ASSUME NEW D, Sound(D), NEW S \in Records, NEW now \in Nat,
           Dated(D, now), Dated(S, now), OffersRecorded(D, S, now),
           NEW g \in Zips(Expire(D, now))
    PROVE  InOrder(S, Offer(Expire(D, now), g, now))
<1> DEFINE E == Expire(D, now)
           T == Offer(E, g, now)
<1>1. D \in Records /\ E \in Records
  BY ExpireSound DEF Sound
<1>2. \A i \in Ids : /\ D[i].enqueuedAt \in Nat /\ S[i].enqueuedAt \in Nat
                     /\ S[i].enqueuedAt <= now
  BY <1>1 DEF Records, Session, Dated
<1>3. \A i \in Ids :
         \/ E[i] = D[i] /\ ~(D[i].status = "OFFERED" /\ Lapsed(D[i].offerExpiresAt, now))
         \/ D[i].status = "OFFERED" /\ E[i].status = "WAITING" /\ E[i].enqueuedAt = now
         \/ D[i].status = "ACTIVE" /\ E[i].status = "STOPPED"
  BY <1>1, ExpiredPlace
<1>4. \A i \in Ids : \/ i \notin DOMAIN g /\ T[i] = E[i]
                     \/ /\ i \in DOMAIN g /\ E[i].status = "WAITING"
                        /\ T[i].status = "OFFERED"
  BY <1>1, OfferedRecord
<1>5. \A i \in Ids : T[i].enqueuedAt = E[i].enqueuedAt
  BY <1>1, OfferedPlace
<1>6. \A i \in DOMAIN g, j \in Waiting(E) :
         E[j].enqueuedAt < E[i].enqueuedAt => j \in DOMAIN g
  BY <1>1, ZipInOrder
<1>7. \A i \in Ids : D[i].status = "WAITING" /\ S[i].status # "WAITING" => i \in DOMAIN g
  <2> SUFFICES ASSUME NEW i \in Ids, D[i].status = "WAITING", Reached(D, i, now)
               PROVE  i \in DOMAIN g
    BY DEF OffersRecorded
  <2>0. PICK t \in 1..now :
          /\ D[i].enqueuedAt <= t
          /\ \E f \in Zips(Expire(D, t)) : i \in DOMAIN f
    BY DEF Reached
  <2>1. PICK f \in Zips(Expire(D, t)) : i \in DOMAIN f
    BY <2>0
  <2>2. t \in Nat /\ t <= now
    OBVIOUS
  <2>3. QED
    BY <1>1, <2>0, <2>1, <2>2, ZipAgain
<1>8. \A i \in Ids : D[i].status = "OFFERED" /\ E[i] = D[i] => S[i].status = "OFFERED"
  BY <1>3 DEF OffersRecorded
<1> HIDE DEF E, T
<1>9. SUFFICES ASSUME NEW i \in Ids, NEW j \in Ids,
               S[i].status = "WAITING", T[i].enqueuedAt = S[i].enqueuedAt,
               T[i].status = "WAITING"
      PROVE  /\ /\ S[j].status = "WAITING" /\ T[j].enqueuedAt = S[j].enqueuedAt
                /\ S[i].enqueuedAt < S[j].enqueuedAt
                => T[j].status # "OFFERED"
             /\ S[j].status # "WAITING" /\ T[j].status = "WAITING"
                => T[i].enqueuedAt <= T[j].enqueuedAt
  BY DEF InOrder, E, T
<1>10. i \notin DOMAIN g /\ i \in Waiting(E) /\ E[i].enqueuedAt = S[i].enqueuedAt
  BY <1>4, <1>5, <1>9 DEF Waiting
<1>11. ASSUME S[j].status = "WAITING", T[j].enqueuedAt = S[j].enqueuedAt,
              S[i].enqueuedAt < S[j].enqueuedAt, T[j].status = "OFFERED"
       PROVE  FALSE
  <2>1. j \notin DOMAIN g
    BY <1>5, <1>6, <1>10, <1>11
  <2>2. E[j].status = "OFFERED"
    BY <1>4, <1>11, <2>1
  <2>3. QED
    BY <1>3, <1>8, <1>11, <2>2
<1>12. ASSUME S[j].status # "WAITING", T[j].status = "WAITING"
       PROVE  T[i].enqueuedAt <= T[j].enqueuedAt
  <2>1. j \notin DOMAIN g /\ E[j].status = "WAITING"
    BY <1>4, <1>12
  <2>2. E[j].enqueuedAt = now
    BY <1>3, <1>7, <1>12, <2>1
  <2>3. QED
    BY <1>2, <1>5, <1>9, <2>2
<1>13. QED
  BY <1>11, <1>12

\* A record that was just saved cannot lag.
LEMMA SavedOffers ==
    ASSUME DiskFaults = FALSE, NEW kept, SaveOver(kept), clock' = clock,
           PInv', clock >= 1, Dated(sessions', clock)
    PROVE  QInv'
<1>1. disk'.sessions = sessions'
  BY DEF SaveOver, Image
<1>2. QED
  BY <1>1 DEF QInv, Dated, OffersRecorded

\* What a refresh that nobody saved makes of the file's lag: a lapse only.
LEMMA UnsavedLapses ==
    ASSUME NEW D, NEW S \in Records, NEW now \in Nat, Dated(S, now),
           OffersRecorded(D, S, now)
    PROVE  OffersRecorded(D, Expire(S, now), now)
<1> DEFINE E == Expire(S, now)
<1>1. \A i \in Ids : /\ S[i].status = "WAITING" => E[i] = S[i]
                     /\ \/ E[i] = S[i]
                        \/ S[i].status = "OFFERED" /\ Lapsed(S[i].offerExpiresAt, now)
                        \/ S[i].status = "ACTIVE"
  BY ExpiredPlace DEF Expire, Expired
<1> HIDE DEF E
<1>2. ASSUME NEW i \in Ids,
             D[i].status = "OFFERED", ~Lapsed(D[i].offerExpiresAt, now)
      PROVE  E[i] = D[i]
  BY <1>1, <1>2 DEF OffersRecorded
<1>3. ASSUME NEW i \in Ids, D[i].status = "WAITING", E[i].status # "WAITING"
      PROVE  Reached(D, i, now)
  BY <1>1, <1>3 DEF OffersRecorded
<1>4. QED
  BY <1>2, <1>3 DEF OffersRecorded, E

\* Every step keeps the file so, and serves the queue in order.
LEMMA NextQInv ==
    ASSUME DiskFaults = FALSE, QInv, [Next]_vars
    PROVE  QInv' /\ InOrder(sessions, sessions')
<1> DEFINE E == Expire(sessions, clock)
           D == disk.sessions
<1>0. /\ clock \in Nat /\ clock >= 1 /\ PInv /\ Sound(sessions) /\ sessions \in Records
      /\ Sound(D) /\ D \in Records
      /\ Dated(sessions, clock) /\ Dated(D, clock) /\ OffersRecorded(D, sessions, clock)
  BY DEF QInv, PInv, IInv, Sound, SoundFile, Disk, Records
<1>p. PInv' /\ sessions' \in Records
  BY <1>0, NextPInv DEF PInv, IInv, Sound
<1>b. \A i \in Ids : /\ sessions[i] \in Session
                     /\ sessions[i].status # "BACKED_OFF"
                     /\ sessions[i].enqueuedAt <= clock
                     /\ sessions[i].enqueuedAt \in Nat
  BY <1>0 DEF Records, Dated, Session
<1>e. E \in Records /\ Dated(E, clock) /\ InTurn(sessions, E, clock)
  BY <1>0, ExpireSound, ExpireDated, ExpireInTurn DEF Sound
<1>f. \A f \in Zips(E) : LET T == Offer(E, f, clock)
                         IN  /\ Sound(T) /\ T \in Records /\ Dated(T, clock)
                             /\ InTurn(sessions, T, clock)
  BY <1>0, <1>e, RefreshSound, OfferDated, RefreshInTurn DEF Sound
<1> HIDE DEF E, D
<1>1. ASSUME NEW p \in Principals, EnqueueExisting(p)
      PROVE  QInv' /\ InOrder(sessions, sessions')
  <2>1. PICK f \in Zips(E) : /\ sessions' = Offer(E, f, clock)
                             /\ IF DOMAIN f # {} THEN SaveOver(disk) ELSE disk' = disk
    BY <1>1 DEF EnqueueExisting, SaveIf, Save, E
  <2>2. clock' = clock /\ Dated(sessions', clock) /\ InTurn(sessions, sessions', clock)
    BY <1>1, <1>f, <2>1 DEF EnqueueExisting
  <2>3. CASE DOMAIN f # {}
    BY <1>0, <1>p, <2>1, <2>2, <2>3, InTurnInOrder, SavedOffers
  <2>4. CASE DOMAIN f = {}
    <3>1. \A i \in Ids : sessions'[i] = E[i]
      BY <1>0, <1>e, <2>1, <2>4, OfferedRecord
    <3>2. OffersRecorded(D, E, clock)
      BY <1>0, UnsavedLapses DEF E
    <3>3. disk'.sessions = D
      BY <2>1, <2>4 DEF D
    <3>4. OffersRecorded(D, sessions', clock)
      BY <3>1, <3>2 DEF OffersRecorded
    <3>5. QInv'
      BY <1>0, <1>p, <2>2, <3>3, <3>4 DEF QInv
    <3>6. QED
      BY <1>0, <2>2, <3>5, InTurnInOrder
  <2>5. QED
    BY <2>3, <2>4
<1>2. ASSUME NEW p \in Principals, EnqueueNew(p)
      PROVE  QInv' /\ InOrder(sessions, sessions')
  <2>1. PICK f \in Zips(E), id \in Ids :
          LET T == Offer(E, f, clock)
              N == [T EXCEPT ![id] = NewSession(p, clock)]
          IN  /\ T[id].status = "NONE"
              /\ \E g \in Zips(N) : sessions' = Offer(N, g, clock)
              /\ SaveOver(IF DOMAIN f # {} THEN Image(T, nextSeq) ELSE disk)
    BY <1>2 DEF EnqueueNew, E
  <2> DEFINE T == Offer(E, f, clock)
             r == NewSession(p, clock)
             N == [T EXCEPT ![id] = r]
             kept == IF DOMAIN f # {} THEN Image(T, nextSeq) ELSE disk
  <2>2. /\ T \in Records /\ Dated(T, clock) /\ InTurn(sessions, T, clock)
        /\ T[id].status = "NONE"
    BY <1>f, <2>1
  <2>w. \A i \in Ids : sessions[i].status = "WAITING" => T[i].status \in {"WAITING", "OFFERED"}
    <3>1. \A i \in Ids : sessions[i].status = "WAITING" => E[i] = sessions[i]
      BY DEF E, Expire, Expired
    <3>2. \A i \in Ids : T[i] = E[i] \/ T[i].status = "OFFERED"
      BY <1>0, <1>e, OfferedRecord
    <3> HIDE DEF T
    <3>3. QED
      BY <3>1, <3>2
  <2>3. r \in Session /\ r.status = "WAITING" /\ r.enqueuedAt = clock
    BY <1>0 DEF NewSession, Unused, Session, Live, Absent
  <2>4. PICK g \in Zips(N) : sessions' = Offer(N, g, clock)
    BY <2>1
  <2>5. SaveOver(kept) /\ clock' = clock
    BY <1>2, <2>1 DEF EnqueueNew
  <2> HIDE DEF T, r, kept
  <2>6. N \in Records /\ N[id] = r /\ \A i \in Ids \ {id} : N[i] = T[i]
    BY <2>2, <2>3 DEF Records
  <2> HIDE DEF N
  <2>7. Dated(N, clock)
    BY <1>0, <2>2, <2>3, <2>6 DEF Dated
  <2>8. Dated(sessions', clock)
    BY <1>0, <2>4, <2>6, <2>7, OfferDated
  <2>9. \A i \in Ids : \/ i \notin DOMAIN g /\ sessions'[i] = N[i]
                       \/ /\ i \in DOMAIN g /\ N[i].status = "WAITING"
                          /\ sessions'[i].status = "OFFERED"
    BY <1>0, <2>4, <2>6, OfferedRecord
  <2>10. \A i \in DOMAIN g, j \in Waiting(N) :
            N[j].enqueuedAt < N[i].enqueuedAt => j \in DOMAIN g
    BY <2>6, ZipInOrder
  <2>11. InTurn(sessions, sessions', clock)
    <3> SUFFICES ASSUME NEW i \in Ids, NEW j \in Ids,
                   sessions[i].status = "WAITING", sessions'[i].status = "WAITING"
                 PROVE  /\ sessions'[i] = sessions[i]
                        /\ sessions[j].status = "WAITING"
                           /\ sessions[i].enqueuedAt < sessions[j].enqueuedAt
                           => sessions'[j] = sessions[j]
                        /\ sessions[j].status # "WAITING" /\ sessions'[j].status = "WAITING"
                           => sessions'[j].enqueuedAt = clock
      BY DEF InTurn
    <3>1. i # id /\ (sessions[j].status = "WAITING" => j # id)
      BY <2>2, <2>w
    <3>2. i \in Waiting(N) /\ i \notin DOMAIN g /\ sessions'[i] = T[i] /\ N[i] = T[i]
      BY <2>6, <2>9, <3>1 DEF Waiting
    <3>3. /\ T[i] = sessions[i]
          /\ sessions[j].status = "WAITING" /\ sessions[i].enqueuedAt < sessions[j].enqueuedAt
             => T[j] = sessions[j]
          /\ sessions[j].status # "WAITING" /\ T[j].status = "WAITING"
             => T[j].enqueuedAt = clock
      BY <2>2, <2>9, <3>2 DEF InTurn
    <3>4. ASSUME sessions[j].status = "WAITING", sessions[i].enqueuedAt < sessions[j].enqueuedAt
          PROVE  sessions'[j] = sessions[j]
      <4>1. N[j] = sessions[j]
        BY <2>6, <3>1, <3>3, <3>4
      <4>2. j \notin DOMAIN g
        BY <2>10, <3>2, <3>3, <3>4, <4>1
      <4>3. QED
        BY <2>9, <4>1, <4>2
    <3>5. ASSUME sessions[j].status # "WAITING", sessions'[j].status = "WAITING"
          PROVE  sessions'[j].enqueuedAt = clock
      BY <2>3, <2>6, <2>9, <3>3, <3>5
    <3>6. QED
      BY <3>2, <3>3, <3>4, <3>5
  <2>12. QED
    BY <1>0, <1>p, <2>5, <2>8, <2>11, InTurnInOrder, SavedOffers
<1>3. ASSUME NEW p \in Principals, Renew(p)
      PROVE  QInv' /\ InOrder(sessions, sessions')
  <2>1. PICK f \in Zips(E), k \in Ids :
          LET T == Offer(E, f, clock)
          IN  /\ T[k].status = "ACTIVE"
              /\ sessions' = [T EXCEPT ![k].sessionExpiresAt = clock + SessionTtl]
              /\ SaveOver(IF T # sessions THEN Image(T, nextSeq) ELSE disk)
    BY <1>3 DEF Renew, E
  <2> DEFINE T == Offer(E, f, clock)
             kept == IF T # sessions THEN Image(T, nextSeq) ELSE disk
  <2>2. T \in Records /\ Dated(T, clock) /\ InTurn(sessions, T, clock)
    BY <1>f
  <2>3. /\ T[k].status = "ACTIVE"
        /\ sessions' = [T EXCEPT ![k].sessionExpiresAt = clock + SessionTtl]
        /\ SaveOver(kept) /\ clock' = clock
    BY <1>3, <2>1 DEF Renew
  <2> HIDE DEF T, kept
  <2>4. /\ \A i \in Ids \ {k} : sessions'[i] = T[i]
        /\ sessions'[k].status = "ACTIVE" /\ sessions'[k].enqueuedAt = T[k].enqueuedAt
    BY <2>2, <2>3 DEF Records, Session
  <2>5. Dated(sessions', clock)
    BY <2>2, <2>4 DEF Dated
  <2>6. InOrder(sessions, T)
    BY <1>0, <2>2, InTurnInOrder
  <2>7. InOrder(sessions, sessions')
    <3>1. \A i \in Ids : \/ sessions'[i] = T[i]
                         \/ sessions'[i].status = "ACTIVE"
      BY <2>4
    <3>2. QED
      BY <2>6, <3>1 DEF InOrder
  <2>8. QED
    BY <1>0, <1>p, <2>3, <2>5, <2>7, SavedOffers
<1>4. ASSUME NEW k \in Ids, Activate(k) \/ Leave(k)
      PROVE  QInv' /\ InOrder(sessions, sessions')
  <2>1. SaveOver(disk) /\ clock' = clock
    BY <1>4 DEF Activate, Leave, Save
  <2>2. /\ \A i \in Ids \ {k} : sessions'[i] = sessions[i]
        /\ sessions'[k].status \in {"ACTIVE", "LEFT"}
        /\ sessions'[k].enqueuedAt = sessions[k].enqueuedAt
    BY <1>0, <1>4 DEF Activate, Leave, Records, Session
  <2>3. Dated(sessions', clock)
    BY <1>b, <2>2 DEF Dated
  <2>4. InOrder(sessions, sessions')
    BY <2>2 DEF InOrder
  <2>5. QED
    BY <1>0, <1>p, <2>1, <2>3, <2>4, SavedOffers
<1>5. ASSUME Poll
      PROVE  QInv' /\ InOrder(sessions, sessions')
  <2>1. PICK f \in Zips(E) : sessions' = Offer(E, f, clock)
    BY <1>5 DEF Poll, E
  <2>2. clock' = clock /\ Dated(sessions', clock) /\ InTurn(sessions, sessions', clock)
    BY <1>5, <1>f, <2>1 DEF Poll
  <2>3. SaveOver(disk) \/ (sessions' = sessions /\ disk' = disk)
    BY <1>5 DEF Poll, SaveIf, Save
  <2>4. QInv'
    <3>1. CASE SaveOver(disk)
      BY <1>0, <1>p, <2>2, <3>1, SavedOffers
    <3>2. CASE sessions' = sessions /\ disk' = disk
      BY <1>0, <1>p, <2>2, <3>2 DEF QInv, D
    <3>3. QED
      BY <2>3, <3>1, <3>2
  <2>5. QED
    BY <1>0, <2>2, <2>4, InTurnInOrder
<1>6. ASSUME Get
      PROVE  QInv' /\ InOrder(sessions, sessions')
  <2>1. /\ sessions' = E /\ clock' = clock
        /\ SaveOver(disk) \/ (sessions' = sessions /\ disk' = disk)
    BY <1>6 DEF Get, SaveIf, Save, E
  <2>2. QInv'
    <3>1. CASE SaveOver(disk)
      BY <1>0, <1>e, <1>p, <2>1, <3>1, SavedOffers
    <3>2. CASE sessions' = sessions /\ disk' = disk
      BY <1>0, <1>p, <2>1, <3>2 DEF QInv, D
    <3>3. QED
      BY <2>1, <3>1, <3>2
  <2>3. QED
    BY <1>0, <1>e, <2>1, <2>2, InTurnInOrder
<1>7. ASSUME Restart
      PROVE  QInv' /\ InOrder(sessions, sessions')
  <2> DEFINE F == Expire(D, clock)
  <2>1. PICK g \in Zips(F) : sessions' = Offer(F, g, clock)
    BY <1>7 DEF Restart, D
  <2>2. clock' = clock /\ disk' = disk
    BY <1>7 DEF Restart
  <2>3. F \in Records /\ Dated(F, clock)
    BY <1>0, ExpireSound, ExpireDated DEF Sound
  <2>4. Dated(sessions', clock)
    BY <1>0, <2>1, <2>3, OfferDated
  <2>5. InOrder(sessions, sessions')
    BY <1>0, <2>1, ReloadInOrder
  <2>6. \A i \in Ids : \/ i \notin DOMAIN g /\ sessions'[i] = F[i]
                       \/ /\ i \in DOMAIN g /\ F[i].status = "WAITING"
                          /\ sessions'[i].status = "OFFERED"
    BY <1>0, <2>1, <2>3, OfferedRecord
  <2>7. OffersRecorded(D, sessions', clock)
    <3>1. ASSUME NEW i \in Ids, D[i].status = "OFFERED", ~Lapsed(D[i].offerExpiresAt, clock)
          PROVE  sessions'[i] = D[i]
      <4>1. F[i] = D[i]
        BY <3>1 DEF Expire, Expired
      <4>2. QED
        BY <2>6, <3>1, <4>1
    <3>2. ASSUME NEW i \in Ids, D[i].status = "WAITING", sessions'[i].status # "WAITING"
          PROVE  Reached(D, i, clock)
      <4>1. F[i] = D[i]
        BY <3>2 DEF Expire, Expired
      <4>2. i \in DOMAIN g
        BY <2>6, <3>2, <4>1
      <4>3. D[i].enqueuedAt <= clock /\ clock \in 1..clock
        BY <1>0 DEF Dated
      <4>4. QED
        BY <4>2, <4>3 DEF Reached
    <3>3. QED
      BY <3>1, <3>2 DEF OffersRecorded
  <2>8. QED
    BY <1>0, <1>p, <2>2, <2>4, <2>5, <2>7 DEF QInv, D
<1>8. ASSUME Tick
      PROVE  QInv' /\ InOrder(sessions, sessions')
  <2>1. sessions' = sessions /\ disk' = disk /\ clock' = clock + 1
    BY <1>8 DEF Tick
  <2>2. \A i \in Ids : /\ D[i].enqueuedAt \in Nat /\ D[i].offerExpiresAt \in Nat
                       /\ D[i].enqueuedAt <= clock /\ D[i].status # "BACKED_OFF"
    BY <1>0 DEF Records, Session, Dated
  <2>3. Dated(sessions, clock + 1) /\ Dated(D, clock + 1)
    BY <1>0, <1>b, <2>2 DEF Dated
  <2>4. \A i \in Ids : Reached(D, i, clock) => Reached(D, i, clock + 1)
    BY <1>0 DEF Reached
  <2>5. OffersRecorded(D, sessions, clock + 1)
    BY <1>0, <2>2, <2>4 DEF OffersRecorded, Lapsed
  <2>6. InOrder(sessions, sessions)
    BY DEF InOrder
  <2>7. QED
    BY <1>0, <1>p, <2>1, <2>3, <2>5, <2>6 DEF QInv, D
<1>9. ASSUME UNCHANGED vars
      PROVE  QInv' /\ InOrder(sessions, sessions')
  BY <1>0, <1>p, <1>9 DEF vars, QInv, InOrder, D
<1>10. QED
  BY <1>1, <1>2, <1>3, <1>4, <1>5, <1>6, <1>7, <1>8, <1>9 DEF Next

\* The queue is first come, first served over every call of the handlers, every
\* lapse and every crash and reload, while no save fails: nobody is offered a
\* slot over the head of a session that waited before, and nobody joins ahead.
THEOREM RouterFifoOrder == ASSUME DiskFaults = FALSE PROVE Spec => FifoOrder
<1> DEFINE Fifo ==
      \A i, j \in Ids :
         /\ KeepsPlace(i)
         /\ sessions'[i].status = "WAITING"
         /\ i # j
         => /\ KeepsPlace(j) /\ sessions[i].enqueuedAt < sessions[j].enqueuedAt
               => sessions'[j].status # "OFFERED"
            /\ sessions[j].status # "WAITING" /\ sessions'[j].status = "WAITING"
               => sessions'[i].enqueuedAt <= sessions'[j].enqueuedAt
<1>1. Init => QInv
  BY InitQInv
<1>2. QInv /\ [Next]_vars => QInv'
  BY NextQInv
<1>3. QInv /\ [Next]_vars => [Fifo]_vars
  BY NextQInv DEF InOrder, KeepsPlace
<1>4. QED
  BY <1>1, <1>2, <1>3, PTL DEF Spec, FifoOrder

=============================================================================
