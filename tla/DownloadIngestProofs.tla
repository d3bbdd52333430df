------------------------ MODULE DownloadIngestProofs ------------------------
(***************************************************************************)
(* Theorems about DownloadIngest for any principals, pushes, submissions,   *)
(* names and quota.                                                         *)
(*                                                                         *)
(* IngestInv is the inductive invariant: what a submission that the watcher *)
(* still waits for says about the directory, whose listener the watcher has *)
(* followed while the browser runs (Followed), and what a publication may   *)
(* rely on between choosing its name and using it, given the publications   *)
(* that have overlapped it (Publication).                                   *)
(***************************************************************************)
EXTENDS DownloadIngest, FiniteSetTheorems, TLAPS

\* A submission is of a completed download, for a binding that was pushed.
InFlight ==
    \A u \in Submissions : sub[u].at # "free" =>
        sub[u].for \in 1..pushes /\ sub[u].file \in 1..made

\* The watcher waits for one submission at most, of the download that is in the
\* directory, every byte of which has arrived once it is past staging.
Heard ==
    \A u \in Submissions : sub[u].heard =>
        /\ sub[u].at # "free" /\ sub[u].file = dir
        /\ sub[u].at \notin {"staging", "written"} => sub[u].whole
        /\ sub[u].at = "written" => dir \in kept
        /\ \A v \in Submissions : sub[v].heard => v = u

Done == stored => /\ dir \in kept /\ dir # 0
                  /\ \A u \in Submissions : ~sub[u].heard

\* The browser runs only when the listener of the last push has returned, and the
\* watcher is at the last adoption that a listener has taken.
Followed ==
    /\ running => ~telling
    /\ telling => /\ binding = pushes /\ pushes \in (1..MaxPushes) \ told
                  /\ \A f \in Files : born[f] < pushes
    /\ watch # 0 => \A n \in told : n <= watch

\* The submissions that have overlapped u and may store before it does.
Ahead(u) == {v \in sub[u].rivals : sub[v].at = "allowed" /\ Target(v) = Target(u)}

\* A publication still has the name it has chosen if none has overlapped it, has
\* room for each that has and is ahead of it, and knows every one that overlaps it.
Publication ==
    \A u \in Submissions : sub[u].at \in Publishing =>
        /\ sub[u].rivals = {} => sub[u].name \notin entries[Target(u)]
        /\ sub[u].at = "allowed" =>
              Cardinality(entries[Target(u)]) + Cardinality(Ahead(u))
                 < Quota + Cardinality(sub[u].rivals)
        /\ \A v \in Submissions \ {u} :
              sub[v].at \in Publishing /\ Target(v) = Target(u) => v \in sub[u].rivals

IngestInv ==
    /\ TypeOK
    /\ InFlight
    /\ Heard
    /\ Done
    /\ Followed
    /\ AsLastTold
    /\ Publication

-----------------------------------------------------------------------------
(* What a submission's record becomes.                                      *)

\* The watcher no longer waits for it.
LEMMA Unheard ==
    ASSUME NEW r \in Submission, NEW q, q = [r EXCEPT !.heard = FALSE]
    PROVE  /\ q \in Submission
           /\ q.file = r.file /\ q.for = r.for /\ q.at = r.at /\ q.name = r.name
           /\ ~q.heard /\ (q.whole <=> r.whole) /\ q.rivals = r.rivals
BY DEF Submission

\* A place of the receiver that works on nothing.
LEMMA FreeRecord ==
    /\ Free \in Submission
    /\ Free.at = "free" /\ ~Free.heard /\ Free.rivals = {}
BY IngestAssumption DEF Submission, Places, Free, Names, Adoptions

-----------------------------------------------------------------------------
(* Counting submissions and names, of which there are finitely many.        *)

\* A set of submissions has no more members than one that holds it.
LEMMA Counted ==
    ASSUME NEW S \in SUBSET Submissions, NEW T \in SUBSET S
    PROVE  /\ Cardinality(S) \in Nat /\ Cardinality(T) \in Nat
           /\ Cardinality(T) <= Cardinality(S)
<1>1. IsFiniteSet(S)
  BY IngestAssumption, FS_Subset
<1>2. QED
  BY <1>1, FS_Subset, FS_CardinalityType

\* It has fewer if it lacks one.
LEMMA CountedLess ==
    ASSUME NEW S \in SUBSET Submissions, NEW u \in S, NEW T \in SUBSET (S \ {u})
    PROVE  /\ Cardinality(S) \in Nat /\ Cardinality(T) \in Nat
           /\ Cardinality(T) < Cardinality(S)
<1>1. IsFiniteSet(S)
  BY IngestAssumption, FS_Subset
<1>2. Cardinality(S \ {u}) = Cardinality(S) - 1
  BY <1>1, FS_RemoveElement
<1>3. Cardinality(T) <= Cardinality(S \ {u})
  BY Counted
<1>4. Cardinality(S) \in Nat /\ Cardinality(T) \in Nat
  BY Counted
<1>5. QED
  BY <1>2, <1>3, <1>4

\* So it is with names, and one more name adds one at most.
LEMMA CountedNames ==
    ASSUME NEW S \in SUBSET Names, NEW T \in SUBSET S, NEW n \in Names
    PROVE  /\ Cardinality(S) \in Nat /\ Cardinality(T) \in Nat
           /\ Cardinality(T) <= Cardinality(S)
           /\ Cardinality(S \cup {n}) \in Nat
           /\ Cardinality(S \cup {n}) <= Cardinality(S) + 1
<1>1. IsFiniteSet(Names)
  BY FS_Interval, IngestAssumption DEF Names
<1>2. IsFiniteSet(S)
  BY <1>1, FS_Subset
<1>3. /\ Cardinality(S) \in Nat /\ Cardinality(T) \in Nat
      /\ Cardinality(T) <= Cardinality(S)
  BY <1>2, FS_Subset, FS_CardinalityType
<1>4. /\ IsFiniteSet(S \cup {n})
      /\ n \in S => Cardinality(S \cup {n}) = Cardinality(S)
      /\ n \notin S => Cardinality(S \cup {n}) = Cardinality(S) + 1
  BY <1>2, FS_AddElement
<1>5. QED
  BY <1>3, <1>4

\* What the invariant counts for a publication.
LEMMA AheadFacts ==
    ASSUME IngestInv, NEW u \in Submissions, sub[u].at \in Publishing
    PROVE  /\ Target(u) \in Principals
           /\ entries[Target(u)] \in SUBSET Names
           /\ sub[u].rivals \in SUBSET Submissions
           /\ Ahead(u) \in SUBSET sub[u].rivals
           /\ Cardinality(entries[Target(u)]) \in Nat
           /\ Cardinality(sub[u].rivals) \in Nat
           /\ Cardinality(Ahead(u)) \in Nat
           /\ Cardinality(Ahead(u)) <= Cardinality(sub[u].rivals)
<1>1. sub[u].for \in 1..MaxPushes
  BY IngestAssumption DEF IngestInv, TypeOK, InFlight, Publishing, Adoptions
<1>2. Target(u) \in Principals
  BY <1>1, IngestAssumption DEF Target
<1>3. entries[Target(u)] \in SUBSET Names /\ sub[u].rivals \in SUBSET Submissions
  BY <1>2 DEF IngestInv, TypeOK, Submission
<1>4. Ahead(u) \in SUBSET sub[u].rivals
  BY DEF Ahead
<1>5. 0 \in Names
  BY IngestAssumption DEF Names
<1>6. QED
  BY <1>2, <1>3, <1>4, <1>5, Counted, CountedNames

\* No publication begins, and none is written.
LEMMA PublicationKept ==
    ASSUME IngestInv, UNCHANGED entries,
           \A v \in Submissions : sub'[v].at \in Publishing =>
               /\ sub'[v].at = sub[v].at /\ sub'[v].for = sub[v].for
               /\ sub'[v].name = sub[v].name /\ sub'[v].rivals = sub[v].rivals
    PROVE  Publication'
<1>1. SUFFICES ASSUME NEW u \in Submissions, sub'[u].at \in Publishing
               PROVE  /\ sub'[u].rivals = {} => sub'[u].name \notin entries[Target(u)']
                      /\ sub'[u].at = "allowed" =>
                            Cardinality(entries[Target(u)']) + Cardinality(Ahead(u)')
                               < Quota + Cardinality(sub'[u].rivals)
                      /\ \A v \in Submissions \ {u} :
                            sub'[v].at \in Publishing /\ Target(v)' = Target(u)'
                            => v \in sub'[u].rivals
  BY DEF Publication
<1>2. \A v \in Submissions : sub'[v].at \in Publishing =>
          /\ Target(v)' = Target(v) /\ sub[v].at \in Publishing
  BY DEF Target
<1>3. /\ sub'[u].rivals = {} => sub'[u].name \notin entries[Target(u)']
      /\ \A v \in Submissions \ {u} :
            sub'[v].at \in Publishing /\ Target(v)' = Target(u)'
            => v \in sub'[u].rivals
  BY <1>1, <1>2 DEF IngestInv, Publication
<1>4. ASSUME sub'[u].at = "allowed"
      PROVE  Cardinality(entries[Target(u)']) + Cardinality(Ahead(u)')
                < Quota + Cardinality(sub'[u].rivals)
  <2>1. sub[u].at \in Publishing /\ Target(u)' = Target(u)
        /\ sub'[u].rivals = sub[u].rivals /\ sub[u].at = "allowed"
    BY <1>1, <1>2, <1>4
  <2>2. Ahead(u)' \in SUBSET Ahead(u)
    <3>1. SUFFICES ASSUME NEW v \in Ahead(u)' PROVE v \in Ahead(u)
      OBVIOUS
    <3>2. /\ v \in sub'[u].rivals /\ sub'[v].at = "allowed"
          /\ Target(v)' = Target(u)'
      BY <3>1 DEF Ahead
    <3>3. v \in Submissions /\ sub'[v].at \in Publishing
      BY <2>1, <3>2, AheadFacts DEF Publishing
    <3>4. QED
      BY <1>2, <2>1, <3>2, <3>3 DEF Ahead
  <2>3. Cardinality(Ahead(u)') \in Nat /\ Cardinality(Ahead(u)') <= Cardinality(Ahead(u))
    BY <2>1, <2>2, AheadFacts, Counted
  <2>4. Cardinality(entries[Target(u)]) + Cardinality(Ahead(u))
                < Quota + Cardinality(sub[u].rivals)
    BY <2>1 DEF IngestInv, Publication
  <2>5. QED
    BY <2>1, <2>3, <2>4, AheadFacts, IngestAssumption
<1>5. QED
  BY <1>3, <1>4

-----------------------------------------------------------------------------
(* The slot's steps.                                                        *)

\* A push is numbered, and is not yet anything that a listener has taken.
LEMMA PushInv ==
    ASSUME IngestInv, Push
    PROVE  IngestInv'
<1> USE IngestAssumption DEF IngestInv
<1>1. TypeOK'
  BY DEF Push, TypeOK, Adoptions, downloads
<1>2. InFlight'
  BY DEF Push, InFlight, downloads, TypeOK, Adoptions
<1>3. Heard' /\ Done' /\ AsLastTold'
  BY DEF Push, Heard, Done, AsLastTold, downloads
<1>4. Followed'
  BY DEF Push, Followed, TypeOK, downloads, Adoptions
<1>5. Publication'
  BY DEF Push, Publication, Ahead, Target
<1>6. QED
  BY <1>1, <1>2, <1>3, <1>4, <1>5

\* The listener takes the last push, under which nothing has been downloaded yet,
\* or raises.
LEMMA TellInv ==
    ASSUME IngestInv, Tell
    PROVE  IngestInv'
<1> USE IngestAssumption DEF IngestInv
<1>1. /\ telling /\ telling' = FALSE
      /\ UNCHANGED <<running, pushes, binding, dir, born, made, stored, sub, entries, kept>>
      /\ \/ watch' = binding /\ told' = told \cup {binding}
         \/ UNCHANGED <<watch, told>>
  BY DEF Tell, downloads
<1>2. /\ binding = pushes /\ pushes \in Nat /\ binding \in 1..pushes
      /\ \A f \in Files : born[f] \in Nat /\ born[f] < pushes
      /\ \A n \in told : n \in Nat /\ n <= pushes
  <2>1. pushes \in Nat /\ told \subseteq 1..pushes /\ born \in [Files -> 0..pushes]
    BY DEF TypeOK, Adoptions
  <2>2. /\ binding = pushes /\ pushes \in 1..MaxPushes
        /\ \A f \in Files : born[f] < pushes
    BY <1>1 DEF Followed
  <2>3. QED
    BY <2>1, <2>2
<1>3. TypeOK'
  BY <1>1, <1>2 DEF TypeOK
<1>4. InFlight' /\ Heard' /\ Done'
  BY <1>1 DEF InFlight, Heard, Done
<1>5. Followed'
  BY <1>1, <1>2 DEF Followed
<1>6. AsLastTold'
  <2>1. SUFFICES ASSUME NEW u \in Submissions, sub[u].at # "free",
                        NEW n \in told', n <= born[sub[u].file]
                 PROVE  n <= sub[u].for
    BY <1>1 DEF AsLastTold
  <2>2. sub[u].file \in Files
    BY <2>1 DEF InFlight, Files, TypeOK
  <2>3. n \in told
    BY <1>1, <1>2, <2>1, <2>2
  <2>4. QED
    BY <2>1, <2>3 DEF AsLastTold
<1>7. Publication'
  BY <1>1 DEF Publication, Ahead, Target
<1>8. QED
  BY <1>3, <1>4, <1>5, <1>6, <1>7

\* The browser is started under the last push, or stopped.
LEMMA StartStopInv ==
    ASSUME IngestInv, StartBrowser \/ StopBrowser
    PROVE  IngestInv'
<1> USE DEF IngestInv
<1>1. TypeOK'
  BY DEF StartBrowser, StopBrowser, TypeOK, downloads
<1>2. InFlight' /\ Heard' /\ Done'
  BY DEF StartBrowser, StopBrowser, InFlight, Heard, Done, downloads
<1>3. Followed' /\ AsLastTold'
  BY DEF StartBrowser, StopBrowser, Followed, AsLastTold, downloads
<1>4. Publication'
  BY DEF StartBrowser, StopBrowser, Publication, Ahead, Target
<1>5. QED
  BY <1>1, <1>2, <1>3, <1>4

\* The new download is made under the binding the watcher attributes it to.
LEMMA CompleteInv ==
    ASSUME IngestInv, Complete
    PROVE  IngestInv'
<1> USE IngestAssumption DEF IngestInv
<1>1. /\ made \in Nat /\ made + 1 \in Files /\ made' = made + 1 /\ dir' = made + 1
      /\ dir = 0 /\ running
      /\ born \in [Files -> 0..pushes]
      /\ born'[made + 1] = binding
      /\ \A f \in Files : f # made + 1 => born'[f] = born[f]
      /\ UNCHANGED <<running, pushes, binding, telling, watch, told, stored, sub,
                     entries, kept>>
  BY DEF Complete, TypeOK, slot, Files
<1>2. TypeOK'
  BY DEF Complete, TypeOK, slot, Files
<1>3. InFlight' /\ \A u \in Submissions : ~sub[u].heard
  BY <1>1 DEF InFlight, Heard
<1>4. Heard' /\ Done'
  BY <1>1, <1>3 DEF Heard, Done
<1>5. Followed'
  BY <1>1 DEF Followed, TypeOK
<1>6. AsLastTold'
  <2>1. SUFFICES ASSUME NEW u \in Submissions, sub[u].at # "free"
                 PROVE  \A n \in told : n <= born'[sub[u].file] => n <= sub[u].for
    BY <1>1 DEF AsLastTold
  <2>2. sub[u].file \in Files /\ sub[u].file # made + 1
    BY <1>1, <2>1 DEF InFlight, Files, TypeOK
  <2>3. QED
    BY <1>1, <2>1, <2>2 DEF AsLastTold
<1>7. Publication'
  BY <1>1 DEF Publication, Ahead, Target
<1>8. QED
  BY <1>2, <1>3, <1>4, <1>5, <1>6, <1>7

\* The watcher hears of the success and removes the download.
LEMMA ConsumeInv ==
    ASSUME IngestInv, Consume
    PROVE  IngestInv'
<1> USE DEF IngestInv
<1>1. TypeOK'
  <2>1. dir' \in 0..made'
    BY IngestAssumption DEF Consume, TypeOK
  <2>a. stored' \in BOOLEAN
    BY DEF Consume
  <2>2. UNCHANGED <<running, pushes, binding, telling, watch, told, born, made, sub,
                    entries, kept>>
    BY DEF Consume, slot
  <2>3. QED
    BY <2>1, <2>a, <2>2 DEF TypeOK
<1>2. InFlight' /\ Heard' /\ Done'
  BY DEF Consume, InFlight, Heard, Done, slot
<1>3. Followed' /\ AsLastTold'
  BY DEF Consume, Followed, AsLastTold, slot
<1>4. Publication'
  BY DEF Consume, Publication, Ahead, Target
<1>5. QED
  BY <1>1, <1>2, <1>3, <1>4

\* What is purged gives names and quota back.
LEMMA PurgeInv ==
    ASSUME IngestInv, NEW p \in Principals, Purge(p)
    PROVE  IngestInv'
<1> USE DEF IngestInv
<1>1. /\ UNCHANGED <<slot, downloads, stored, sub, kept>>
      /\ \A q \in Principals : entries'[q] \subseteq entries[q]
      /\ entries' \in [Principals -> SUBSET Names]
      /\ entries \in [Principals -> SUBSET Names]
  BY DEF Purge, TypeOK
<1>2. TypeOK'
  BY <1>1 DEF TypeOK, slot, downloads
<1>3. InFlight' /\ Heard' /\ Done' /\ Followed' /\ AsLastTold'
  BY <1>1 DEF InFlight, Heard, Done, Followed, AsLastTold, slot, downloads
<1>4. ASSUME NEW q \in Principals
      PROVE  /\ Cardinality(entries[q]) \in Nat /\ Cardinality(entries'[q]) \in Nat
             /\ Cardinality(entries'[q]) <= Cardinality(entries[q])
  <2>1. 0 \in Names
    BY IngestAssumption DEF Names
  <2>2. QED
    BY <1>1, <2>1, CountedNames
<1>5. Publication'
  <2>1. SUFFICES ASSUME NEW u \in Submissions, sub[u].at \in Publishing
                 PROVE  /\ sub[u].rivals = {} => sub[u].name \notin entries'[Target(u)]
                        /\ sub[u].at = "allowed" =>
                              Cardinality(entries'[Target(u)]) + Cardinality(Ahead(u))
                                 < Quota + Cardinality(sub[u].rivals)
                        /\ \A v \in Submissions \ {u} :
                              sub[v].at \in Publishing /\ Target(v) = Target(u)
                              => v \in sub[u].rivals
    BY <1>1 DEF Publication, Ahead, Target
  <2>2. /\ Target(u) \in Principals
        /\ Cardinality(Ahead(u)) \in Nat /\ Cardinality(sub[u].rivals) \in Nat
    BY <2>1, AheadFacts
  <2>3. /\ sub[u].rivals = {} => sub[u].name \notin entries[Target(u)]
        /\ sub[u].at = "allowed" => Cardinality(entries[Target(u)]) + Cardinality(Ahead(u))
                                       < Quota + Cardinality(sub[u].rivals)
        /\ \A v \in Submissions \ {u} :
              sub[v].at \in Publishing /\ Target(v) = Target(u) => v \in sub[u].rivals
    BY <2>1 DEF Publication
  <2>4. QED
    BY <1>1, <1>4, <2>2, <2>3, IngestAssumption
<1>6. QED
  BY <1>2, <1>3, <1>5

\* The browser service crashes with its watcher.
LEMMA CrashBrowserInv ==
    ASSUME IngestInv, CrashBrowserService
    PROVE  IngestInv'
<1> USE DEF IngestInv
<1>1. \A u \in Submissions :
          /\ sub[u] \in Submission
          /\ sub'[u] = [sub[u] EXCEPT !.heard = FALSE]
  BY DEF CrashBrowserService, TypeOK
<1>2. \A u \in Submissions :
          /\ sub'[u] \in Submission
          /\ sub'[u].file = sub[u].file /\ sub'[u].for = sub[u].for
          /\ sub'[u].at = sub[u].at /\ ~sub'[u].heard
          /\ sub'[u].name = sub[u].name /\ sub'[u].rivals = sub[u].rivals
  <2>1. TAKE u \in Submissions
  <2>2. sub[u] \in Submission /\ sub'[u] = [sub[u] EXCEPT !.heard = FALSE]
    BY <1>1
  <2>3. QED
    BY <2>2 DEF Submission
<1>3. sub' \in [Submissions -> Submission]
  BY <1>2 DEF CrashBrowserService
<1>4. /\ ~running' /\ binding' = 0 /\ telling' = FALSE /\ watch' = 0 /\ ~stored'
      /\ UNCHANGED <<pushes, told, dir, born, made, entries, kept>>
      /\ running' \in BOOLEAN /\ stored' \in BOOLEAN /\ telling' \in BOOLEAN
  BY DEF CrashBrowserService, downloads
<1>5. TypeOK'
  BY <1>3, <1>4, IngestAssumption DEF TypeOK, Adoptions
<1>6. InFlight' /\ Heard' /\ Done' /\ Followed' /\ AsLastTold'
  BY <1>2, <1>4 DEF InFlight, Heard, Done, Followed, AsLastTold
<1>7. Publication'
  BY <1>2, <1>4, PublicationKept
<1>8. QED
  BY <1>5, <1>6, <1>7

-----------------------------------------------------------------------------
(* The steps of submissions.                                                *)

\* Submissions go on or end, and the watcher waits for no more of them.
LEMMA Progresses ==
    ASSUME IngestInv, UNCHANGED <<slot, downloads>>,
           sub' \in [Submissions -> Submission],
           stored' \in BOOLEAN,
           entries' \in [Principals -> SUBSET Names],
           kept \subseteq kept', kept' \subseteq Files,
           \A v \in Submissions : sub'[v].at # "free" =>
               sub[v].at # "free" /\ sub'[v].for = sub[v].for /\ sub'[v].file = sub[v].file,
           \A v \in Submissions : sub'[v].heard =>
               /\ sub[v].heard /\ sub'[v].at # "free"
               /\ sub'[v].at \notin {"staging", "written"} => sub'[v].whole
               /\ sub'[v].at = "written" => sub'[v].file \in kept',
           stored' => \/ stored
                      \/ /\ dir \in kept' /\ dir # 0
                         /\ \A v \in Submissions : ~sub'[v].heard,
           Publication'
    PROVE  IngestInv'
<1> USE DEF IngestInv
<1>1. UNCHANGED <<running, pushes, binding, telling, watch, told, dir, born, made>>
  BY DEF slot, downloads
<1>2. TypeOK'
  BY <1>1 DEF TypeOK
<1>3. InFlight'
  BY <1>1 DEF InFlight
<1>4. Heard'
  BY <1>1 DEF Heard
<1>5. Done'
  BY <1>1 DEF Done
<1>6. Followed'
  BY <1>1 DEF Followed
<1>7. AsLastTold'
  BY <1>1 DEF AsLastTold
<1>8. QED
  BY <1>2, <1>3, <1>4, <1>5, <1>6, <1>7

\* A file whose submission is heard past staging is in the directory.
LEMMA HeardFacts ==
    ASSUME IngestInv, NEW u \in Submissions
    PROVE  /\ sub[u] \in Submission
           /\ sub \in [Submissions -> Submission]
           /\ stored \in BOOLEAN /\ entries \in [Principals -> SUBSET Names]
           /\ kept \subseteq Files
           /\ sub[u].at # "free" => sub[u].file \in Files /\ sub[u].for \in 1..MaxPushes
           /\ sub[u].heard =>
                 /\ sub[u].at # "free" /\ sub[u].file = dir /\ dir # 0
                 /\ sub[u].at \notin {"staging", "written"} => sub[u].whole
                 /\ sub[u].at = "written" => dir \in kept
                 /\ \A v \in Submissions : sub[v].heard => v = u
<1>1. /\ sub[u] \in Submission
      /\ sub \in [Submissions -> Submission]
      /\ stored \in BOOLEAN /\ entries \in [Principals -> SUBSET Names]
      /\ kept \subseteq Files
  BY DEF IngestInv, TypeOK
<1>2. sub[u].at # "free" =>
          /\ sub[u].file \in Files /\ sub[u].for \in 1..MaxPushes /\ sub[u].file # 0
  BY IngestAssumption DEF IngestInv, TypeOK, InFlight, Files, Adoptions
<1>3. sub[u].heard =>
          /\ sub[u].at # "free" /\ sub[u].file = dir
          /\ sub[u].at \notin {"staging", "written"} => sub[u].whole
          /\ sub[u].at = "written" => dir \in kept
          /\ \A v \in Submissions : sub[v].heard => v = u
  BY DEF IngestInv, Heard
<1>4. QED
  BY <1>1, <1>2, <1>3

\* One submission changes, without a name in the store.
LEMMA OneProgresses ==
    ASSUME IngestInv, NEW u \in Submissions, NEW r \in Submission,
           sub' = [sub EXCEPT ![u] = r],
           UNCHANGED <<slot, downloads, entries>>,
           stored' \in BOOLEAN,
           kept \subseteq kept', kept' \subseteq Files,
           r.at # "free" => /\ sub[u].at # "free"
                            /\ r.for = sub[u].for /\ r.file = sub[u].file,
           r.heard => /\ sub[u].heard /\ r.at # "free"
                      /\ r.at \notin {"staging", "written"} => r.whole
                      /\ r.at = "written" => r.file \in kept',
           stored' => \/ stored
                      \/ sub[u].heard /\ ~r.heard /\ dir \in kept',
           r.at \in Publishing => /\ r.at = sub[u].at /\ r.name = sub[u].name
                                  /\ r.rivals = sub[u].rivals
    PROVE  IngestInv'
<1>1. \A v \in Submissions : sub'[v] = IF v = u THEN r ELSE sub[v]
  BY HeardFacts
<1>2. sub' \in [Submissions -> Submission] /\ entries' \in [Principals -> SUBSET Names]
  BY HeardFacts
<1>3. \A v \in Submissions : sub'[v].at # "free" =>
          sub[v].at # "free" /\ sub'[v].for = sub[v].for /\ sub'[v].file = sub[v].file
  BY <1>1
<1>4. \A v \in Submissions : sub'[v].heard =>
               /\ sub[v].heard /\ sub'[v].at # "free"
               /\ sub'[v].at \notin {"staging", "written"} => sub'[v].whole
               /\ sub'[v].at = "written" => sub'[v].file \in kept'
  <2>1. TAKE v \in Submissions
  <2>2. CASE v = u
    BY <1>1, <2>2
  <2>3. CASE v # u
    BY <1>1, <2>3, HeardFacts
  <2>4. QED
    BY <2>2, <2>3
<1>5. stored' => \/ stored
                 \/ /\ dir \in kept' /\ dir # 0
                    /\ \A v \in Submissions : ~sub'[v].heard
  BY <1>1, HeardFacts
<1>6. Publication'
  BY <1>1, <1>3, PublicationKept DEF Publishing
<1>7. QED
  BY <1>2, <1>3, <1>4, <1>5, <1>6, Progresses

\* The watcher submits what is in the directory, for its own adoption.
LEMMA SubmitInv ==
    ASSUME IngestInv, NEW u \in Submissions, Submit(u)
    PROVE  IngestInv'
<1> DEFINE r == [Free EXCEPT !.file = dir, !.for = watch, !.at = "staging", !.heard = TRUE]
<1>1. /\ watch \in 1..pushes /\ dir \in 1..made /\ ~stored
      /\ \A v \in Submissions : ~sub[v].heard
      /\ sub' = [sub EXCEPT ![u] = r]
      /\ UNCHANGED <<running, pushes, binding, telling, watch, told, dir, born, made,
                     stored, entries, kept>>
  BY DEF Submit, Waiting, IngestInv, TypeOK, slot, downloads
<1>2. watch \in Adoptions /\ dir \in 0..MaxFiles
  BY IngestAssumption DEF IngestInv, TypeOK, Adoptions
<1>3. /\ r \in Submission
      /\ r.file = dir /\ r.for = watch /\ r.at = "staging" /\ r.heard
  BY <1>2, FreeRecord DEF Submission, Places
<1> HIDE DEF r
<1>4. \A v \in Submissions : sub'[v] = IF v = u THEN r ELSE sub[v]
  BY <1>1, HeardFacts
<1>5. TypeOK'
  BY <1>1, <1>3 DEF IngestInv, TypeOK
<1>6. InFlight'
  BY <1>1, <1>3, <1>4 DEF IngestInv, InFlight
<1>7. Heard'
  BY <1>1, <1>3, <1>4 DEF Heard
<1>8. Done' /\ Followed'
  BY <1>1 DEF IngestInv, Done, Followed
<1>9. AsLastTold'
  <2>1. SUFFICES ASSUME NEW v \in Submissions, sub'[v].at # "free",
                        NEW n \in told, n <= born[sub'[v].file]
                 PROVE  n <= sub'[v].for
    BY <1>1 DEF AsLastTold
  <2>2. CASE v = u
    BY <1>1, <1>3, <1>4, <2>2 DEF IngestInv, Followed
  <2>3. CASE v # u
    BY <1>4, <2>1, <2>3 DEF IngestInv, AsLastTold
  <2>4. QED
    BY <2>2, <2>3
<1>10. Publication'
  BY <1>1, <1>3, <1>4, PublicationKept DEF Publishing
<1>11. QED
  BY <1>5, <1>6, <1>7, <1>8, <1>9, <1>10 DEF IngestInv

\* The watcher gives up, or the request ends without a receipt.
LEMMA GiveUpRefuseInv ==
    ASSUME IngestInv, NEW u \in Submissions, GiveUp(u) \/ Refuse(u)
    PROVE  IngestInv'
<1>1. CASE GiveUp(u)
  <2> DEFINE r == [sub[u] EXCEPT !.heard = FALSE]
  <2>1. /\ r \in Submission
        /\ r.file = sub[u].file /\ r.for = sub[u].for /\ r.at = sub[u].at
        /\ r.name = sub[u].name /\ ~r.heard /\ r.rivals = sub[u].rivals
    BY HeardFacts, Unheard
  <2>2. sub' = [sub EXCEPT ![u] = r]
    BY <1>1 DEF GiveUp
  <2> HIDE DEF r
  <2>3. UNCHANGED <<slot, downloads, stored, entries, kept>>
    BY <1>1 DEF GiveUp
  <2>4. QED
    BY <2>1, <2>2, <2>3, HeardFacts, OneProgresses
<1>2. CASE Refuse(u)
  <2>1. /\ sub' = [sub EXCEPT ![u] = Free]
        /\ UNCHANGED <<slot, downloads, stored, entries, kept>>
    BY <1>2 DEF Refuse
  <2>2. QED
    BY <2>1, FreeRecord, HeardFacts, OneProgresses DEF Publishing
<1>3. QED
  BY <1>1, <1>2

\* The body is staged, whole or truncated, and scanned.
LEMMA StageInv ==
    ASSUME IngestInv, NEW u \in Submissions, Stage(u)
    PROVE  IngestInv'
<1>1. PICK whole \in BOOLEAN, verdict \in {"clean", "unclean"} :
          /\ sub[u].heard => whole
          /\ sub' = [sub EXCEPT ![u].whole = whole, ![u].at = verdict]
  BY DEF Stage
<1> DEFINE r == [sub[u] EXCEPT !.whole = whole, !.at = verdict]
<1>2. /\ r \in Submission
      /\ r.file = sub[u].file /\ r.for = sub[u].for /\ r.at = verdict
      /\ (r.heard <=> sub[u].heard) /\ (r.whole <=> whole)
  <2>1. sub[u] \in Submission
    BY HeardFacts
  <2>2. QED
    BY <2>1 DEF Submission, Places
<1>3. sub' = [sub EXCEPT ![u] = r]
  BY <1>1
<1> HIDE DEF r
<1>4. sub[u].at = "staging" /\ UNCHANGED <<slot, downloads, stored, entries, kept>>
  BY DEF Stage
<1>5. /\ r.heard => sub[u].heard /\ r.whole
      /\ r.at \in {"clean", "unclean"}
  BY <1>1, <1>2
<1>6. stored' \in BOOLEAN
  BY <1>4, HeardFacts
<1>7. QED
  BY <1>2, <1>3, <1>4, <1>5, <1>6, HeardFacts, OneProgresses DEF Publishing

\* What Written does: the copy that arrived whole is kept.
LEMMA WrittenStep ==
    ASSUME IngestInv, NEW u \in Submissions, sub[u].at \in {"unclean", "allowed"},
           Written(u)
    PROVE  \E r \in Submission :
             /\ sub' = [sub EXCEPT ![u] = r]
             /\ r.file = sub[u].file /\ r.for = sub[u].for /\ r.at = "written"
             /\ (r.heard <=> sub[u].heard)
             /\ r.heard => r.file \in kept'
             /\ kept \subseteq kept' /\ kept' \subseteq Files
<1> DEFINE r == [Free EXCEPT !.file = sub[u].file, !.for = sub[u].for,
                             !.at = "written", !.heard = sub[u].heard]
<1>2. /\ r \in Submission
      /\ r.file = sub[u].file /\ r.for = sub[u].for /\ r.at = "written"
      /\ (r.heard <=> sub[u].heard)
  <2>1. sub[u] \in Submission
    BY HeardFacts
  <2>2. QED
    BY <2>1, FreeRecord DEF Submission, Places
<1>3. sub' = [sub EXCEPT ![u] = r]
  BY DEF Written
<1> HIDE DEF r
<1>4. kept' = IF sub[u].whole THEN kept \cup {sub[u].file} ELSE kept
  BY DEF Written
<1>5. QED
  BY <1>2, <1>3, <1>4, HeardFacts

\* A body that the scan rejects is put aside.
LEMMA QuarantineInv ==
    ASSUME IngestInv, NEW u \in Submissions, Quarantine(u)
    PROVE  IngestInv'
<1>1. PICK r \in Submission :
             /\ sub' = [sub EXCEPT ![u] = r]
             /\ r.file = sub[u].file /\ r.for = sub[u].for /\ r.at = "written"
             /\ (r.heard <=> sub[u].heard)
             /\ r.heard => r.file \in kept'
             /\ kept \subseteq kept' /\ kept' \subseteq Files
  BY WrittenStep DEF Quarantine
<1>2. sub[u].at = "unclean" /\ UNCHANGED <<slot, downloads, stored, entries>>
  BY DEF Quarantine
<1>3. QED
  BY <1>1, <1>2, HeardFacts, OneProgresses DEF Publishing

\* The receipt reaches the watcher only for a download the store has.
LEMMA AcceptInv ==
    ASSUME IngestInv, NEW u \in Submissions, Accept(u)
    PROVE  IngestInv'
<1>1. /\ sub[u].at = "written"
      /\ sub' = [sub EXCEPT ![u] = Free]
      /\ stored' = (stored \/ sub[u].heard)
      /\ UNCHANGED <<slot, downloads, entries, kept>>
  BY DEF Accept
<1>2. stored' \in BOOLEAN
  BY <1>1
<1>3. QED
  BY <1>1, <1>2, FreeRecord, HeardFacts, OneProgresses DEF Publishing

\* The name is the first that is not taken; the publications under way for the same
\* owner and this one come to know each other.
LEMMA ChooseNameInv ==
    ASSUME IngestInv, NEW u \in Submissions, ChooseName(u)
    PROVE  IngestInv'
<1> DEFINE overlaps == {v \in Submissions : sub[v].at \in Publishing
                                            /\ Target(v) = Target(u)}
<1>1. PICK n \in Untaken(Target(u)) :
         sub' = [v \in Submissions |->
                   IF v = u
                   THEN [sub[u] EXCEPT !.at = "named", !.name = n, !.rivals = overlaps]
                   ELSE [sub[v] EXCEPT !.rivals = IF v \in overlaps
                                                  THEN @ \cup {u} ELSE @]]
  BY DEF ChooseName
<1>2. sub[u].at = "clean" /\ UNCHANGED <<slot, downloads, stored, entries, kept>>
  BY DEF ChooseName
<1>3. n \in Names /\ n \notin entries[Target(u)]
  BY DEF Untaken
<1>4. /\ sub'[u] \in Submission
      /\ sub'[u].file = sub[u].file /\ sub'[u].for = sub[u].for
      /\ sub'[u].at = "named" /\ sub'[u].name = n
      /\ (sub'[u].heard <=> sub[u].heard) /\ (sub'[u].whole <=> sub[u].whole)
      /\ sub'[u].rivals = overlaps
  <2>0. sub[u] \in Submission
    BY HeardFacts
  <2>1. sub'[u] = [sub[u] EXCEPT !.at = "named", !.name = n, !.rivals = overlaps]
    BY <1>1
  <2>2. overlaps \in SUBSET Submissions
    OBVIOUS
  <2> HIDE DEF overlaps
  <2>3. QED
    BY <1>3, <2>1, <2>2, <2>0 DEF Submission, Places, Publishing
<1>5. \A v \in Submissions \ {u} :
          /\ sub'[v] \in Submission
          /\ sub'[v].file = sub[v].file /\ sub'[v].for = sub[v].for
          /\ sub'[v].at = sub[v].at /\ sub'[v].name = sub[v].name
          /\ (sub'[v].heard <=> sub[v].heard) /\ (sub'[v].whole <=> sub[v].whole)
          /\ sub'[v].rivals = IF v \in overlaps THEN sub[v].rivals \cup {u}
                                              ELSE sub[v].rivals
  <2>1. TAKE v \in Submissions \ {u}
  <2>0. sub[v] \in Submission
    BY HeardFacts
  <2>2. sub'[v] = [sub[v] EXCEPT !.rivals = IF v \in overlaps THEN @ \cup {u} ELSE @]
    BY <1>1
  <2> HIDE DEF overlaps
  <2>4. QED
    BY <2>2, <2>0 DEF Submission
<1>6. sub' \in [Submissions -> Submission]
  <2>1. \A v \in Submissions : sub'[v] \in Submission
    BY <1>4, <1>5
  <2>2. QED
    BY <1>1, <2>1
<1>7. Publication'
  <2>1. \A v \in Submissions : sub'[v].for = sub[v].for
    BY <1>4, <1>5
  <2>2. SUFFICES ASSUME NEW v \in Submissions, sub'[v].at \in Publishing
                 PROVE  /\ sub'[v].rivals = {} => sub'[v].name \notin entries[Target(v)]
                        /\ sub'[v].at = "allowed" =>
                              Cardinality(entries[Target(v)]) + Cardinality(Ahead(v)')
                                 < Quota + Cardinality(sub'[v].rivals)
                        /\ \A x \in Submissions \ {v} :
                              sub'[x].at \in Publishing /\ Target(x) = Target(v)
                              => x \in sub'[v].rivals
    BY <1>2, <2>1 DEF Publication, Target
  <2>3. CASE v = u
    <3>1. \A x \in Submissions \ {u} :
              sub'[x].at \in Publishing /\ Target(x) = Target(u) => x \in overlaps
      BY <1>5
    <3>2. QED
      BY <1>3, <1>4, <2>3, <3>1
  <2>4. CASE v # u
    <3>1. /\ sub[v].at \in Publishing /\ sub'[v].at = sub[v].at
          /\ sub'[v].name = sub[v].name
          /\ sub'[v].rivals = IF v \in overlaps THEN sub[v].rivals \cup {u}
                                                ELSE sub[v].rivals
          /\ v \notin overlaps => Target(u) # Target(v)
      BY <1>5, <2>2, <2>4
    <3> HIDE DEF overlaps
    <3>2. /\ sub[v].rivals = {} => sub[v].name \notin entries[Target(v)]
          /\ \A x \in Submissions \ {v} :
                sub[x].at \in Publishing /\ Target(x) = Target(v) => x \in sub[v].rivals
      BY <3>1 DEF IngestInv, Publication
    <3>3. ASSUME NEW x \in Submissions \ {v}, sub'[x].at \in Publishing,
                 Target(x) = Target(v)
          PROVE  x \in sub'[v].rivals
      <4>1. CASE x = u
        BY <3>1, <3>3, <4>1
      <4>2. CASE x # u
        BY <1>5, <3>1, <3>2, <3>3, <4>2
      <4>3. QED
        BY <4>1, <4>2
    <3>4. ASSUME sub'[v].at = "allowed"
          PROVE  Cardinality(entries[Target(v)]) + Cardinality(Ahead(v)')
                    < Quota + Cardinality(sub'[v].rivals)
      <4>1. Ahead(v)' \in SUBSET Ahead(v)
        <5>1. SUFFICES ASSUME NEW x \in Ahead(v)' PROVE x \in Ahead(v)
          OBVIOUS
        <5>2. /\ x \in sub'[v].rivals /\ sub'[x].at = "allowed"
              /\ Target(x)' = Target(v)'
          BY <5>1 DEF Ahead
        <5>3. x # u
          BY <1>4, <5>2
        <5>4. x \in sub[v].rivals /\ x \in Submissions
          BY <3>1, <5>2, <5>3, AheadFacts
        <5>5. sub[x].at = "allowed" /\ Target(x) = Target(v)
          BY <1>5, <2>1, <5>2, <5>3, <5>4 DEF Target
        <5>6. QED
          BY <5>4, <5>5 DEF Ahead
      <4>2. /\ Cardinality(Ahead(v)') \in Nat
            /\ Cardinality(Ahead(v)') <= Cardinality(Ahead(v))
        BY <3>1, <4>1, AheadFacts, Counted
      <4>3. /\ Cardinality(sub'[v].rivals) \in Nat
            /\ Cardinality(sub[v].rivals) <= Cardinality(sub'[v].rivals)
        <5>1. /\ sub'[v].rivals \in SUBSET Submissions
              /\ sub[v].rivals \in SUBSET sub'[v].rivals
          BY <3>1, AheadFacts
        <5>2. QED
          BY <5>1, Counted
      <4>4. Cardinality(entries[Target(v)]) + Cardinality(Ahead(v))
               < Quota + Cardinality(sub[v].rivals)
        BY <3>1, <3>4 DEF IngestInv, Publication
      <4>5. QED
        BY <3>1, <4>2, <4>3, <4>4, AheadFacts, IngestAssumption
    <3>5. QED
      BY <3>1, <3>2, <3>3, <3>4
  <2>5. QED
    BY <2>3, <2>4
<1> HIDE DEF overlaps
<1>8. \A v \in Submissions : sub'[v].at # "free" =>
          sub[v].at # "free" /\ sub'[v].for = sub[v].for /\ sub'[v].file = sub[v].file
  BY <1>2, <1>4, <1>5
<1>9. \A v \in Submissions : sub'[v].heard =>
               /\ sub[v].heard /\ sub'[v].at # "free"
               /\ sub'[v].at \notin {"staging", "written"} => sub'[v].whole
               /\ sub'[v].at = "written" => sub'[v].file \in kept'
  <2>1. TAKE v \in Submissions
  <2>2. CASE v = u
    BY <1>2, <1>4, <2>2, HeardFacts
  <2>3. CASE v # u
    <3>1. /\ sub'[v].file = sub[v].file /\ sub'[v].at = sub[v].at
          /\ (sub'[v].heard <=> sub[v].heard) /\ (sub'[v].whole <=> sub[v].whole)
      BY <1>5, <2>3
    <3>2. QED
      BY <1>2, <3>1, HeardFacts
  <2>4. QED
    BY <2>2, <2>3
<1>10. QED
  BY <1>2, <1>6, <1>7, <1>8, <1>9, HeardFacts, Progresses

\* The quota is read; the publication goes on or is refused.
LEMMA CheckQuotaInv ==
    ASSUME IngestInv, NEW u \in Submissions, CheckQuota(u)
    PROVE  IngestInv'
<1> DEFINE r == [sub[u] EXCEPT !.at = "allowed"]
<1>1. /\ sub[u].at = "named" /\ Cardinality(entries[Target(u)]) < Quota
      /\ UNCHANGED <<slot, downloads, stored, entries, kept>>
  BY DEF CheckQuota
<1>2. sub' = [sub EXCEPT ![u] = r]
  BY DEF CheckQuota, Moved
<1>3. sub[u] \in Submission
  BY HeardFacts
<1>4. /\ r \in Submission
      /\ r.file = sub[u].file /\ r.for = sub[u].for /\ r.at = "allowed"
      /\ r.name = sub[u].name
      /\ (r.heard <=> sub[u].heard) /\ (r.whole <=> sub[u].whole)
      /\ r.rivals = sub[u].rivals
  BY <1>3 DEF Submission, Places, Publishing
<1> HIDE DEF r
<1>5. \A v \in Submissions : sub'[v] = IF v = u THEN r ELSE sub[v]
  BY <1>2, HeardFacts
<1>6. sub' \in [Submissions -> Submission] /\ entries' \in [Principals -> SUBSET Names]
      /\ stored' \in BOOLEAN
  BY <1>1, <1>2, <1>4, HeardFacts
<1>7. \A v \in Submissions : sub'[v].at # "free" =>
          sub[v].at # "free" /\ sub'[v].for = sub[v].for /\ sub'[v].file = sub[v].file
  BY <1>1, <1>4, <1>5
<1>8. \A v \in Submissions : sub'[v].heard =>
               /\ sub[v].heard /\ sub'[v].at # "free"
               /\ sub'[v].at \notin {"staging", "written"} => sub'[v].whole
               /\ sub'[v].at = "written" => sub'[v].file \in kept'
  <2>1. TAKE v \in Submissions
  <2>2. CASE v = u
    BY <1>1, <1>4, <1>5, <2>2, HeardFacts
  <2>3. CASE v # u
    BY <1>1, <1>5, <2>3, HeardFacts
  <2>4. QED
    BY <2>2, <2>3
<1>9. Publication'
  <2>1. \A v \in Submissions :
           /\ sub'[v].at \in Publishing <=> sub[v].at \in Publishing
           /\ sub'[v].for = sub[v].for /\ sub'[v].name = sub[v].name
           /\ sub'[v].rivals = sub[v].rivals
           /\ sub'[v].at = "allowed" => sub[v].at = "allowed" \/ v = u
    BY <1>1, <1>4, <1>5 DEF Publishing
  <2>2. SUFFICES ASSUME NEW v \in Submissions, sub'[v].at \in Publishing
                 PROVE  /\ sub[v].rivals = {} => sub[v].name \notin entries[Target(v)]
                        /\ sub'[v].at = "allowed" =>
                              Cardinality(entries[Target(v)]) + Cardinality(Ahead(v)')
                                 < Quota + Cardinality(sub[v].rivals)
                        /\ \A x \in Submissions \ {v} :
                              sub[x].at \in Publishing /\ Target(x) = Target(v)
                              => x \in sub[v].rivals
    BY <1>1, <2>1 DEF Publication, Target
  <2>3. sub[v].at \in Publishing
    BY <2>1, <2>2
  <2>4. /\ sub[v].rivals = {} => sub[v].name \notin entries[Target(v)]
        /\ \A x \in Submissions \ {v} :
              sub[x].at \in Publishing /\ Target(x) = Target(v) => x \in sub[v].rivals
    BY <2>3 DEF IngestInv, Publication
  <2>5. CASE Target(v) = Target(u)
    <3>1. Ahead(v)' \in SUBSET sub[v].rivals
      BY <2>1 DEF Ahead
    <3>2. /\ Cardinality(Ahead(v)') \in Nat
          /\ Cardinality(Ahead(v)') <= Cardinality(sub[v].rivals)
      BY <2>3, <3>1, AheadFacts, Counted
    <3>3. QED
      BY <1>1, <2>3, <2>4, <2>5, <3>2, AheadFacts, IngestAssumption
  <2>6. CASE Target(v) # Target(u)
    <3>1. Ahead(v)' \in SUBSET Ahead(v)
      <4>1. SUFFICES ASSUME NEW x \in Ahead(v)' PROVE x \in Ahead(v)
        OBVIOUS
      <4>2. x \in sub[v].rivals /\ sub'[x].at = "allowed" /\ Target(x)' = Target(v)'
        BY <2>1, <4>1 DEF Ahead
      <4>3. x \in Submissions
        BY <2>3, <4>2, AheadFacts
      <4>4. Target(x) = Target(v) /\ sub[x].at = "allowed"
        BY <2>1, <2>6, <4>2, <4>3 DEF Target
      <4>5. QED
        BY <4>2, <4>4 DEF Ahead
    <3>2. /\ Cardinality(Ahead(v)') \in Nat
          /\ Cardinality(Ahead(v)') <= Cardinality(Ahead(v))
      BY <2>3, <3>1, AheadFacts, Counted
    <3>3. sub'[v].at = "allowed" => sub[v].at = "allowed"
      BY <2>1, <2>6
    <3>4. sub[v].at = "allowed" => Cardinality(entries[Target(v)]) + Cardinality(Ahead(v))
                                      < Quota + Cardinality(sub[v].rivals)
      BY <2>3 DEF IngestInv, Publication
    <3>5. QED
      BY <2>3, <2>4, <3>2, <3>3, <3>4, AheadFacts, IngestAssumption
  <2>7. QED
    BY <2>5, <2>6
<1>10. QED
  BY <1>1, <1>6, <1>7, <1>8, <1>9, HeardFacts, Progresses

\* The name is taken; a publication to the same owner that is under way knew of it,
\* and had counted it as ahead if it has its own quota behind it.
LEMMA ReplaceInv ==
    ASSUME IngestInv, NEW u \in Submissions, Replace(u)
    PROVE  IngestInv'
<1>1. PICK r \in Submission :
             /\ sub' = [sub EXCEPT ![u] = r]
             /\ r.file = sub[u].file /\ r.for = sub[u].for /\ r.at = "written"
             /\ (r.heard <=> sub[u].heard)
             /\ r.heard => r.file \in kept'
             /\ kept \subseteq kept' /\ kept' \subseteq Files
  BY WrittenStep DEF Replace
<1>2. /\ sub[u].at = "allowed"
      /\ entries' = [entries EXCEPT ![Target(u)] = @ \cup {sub[u].name}]
      /\ UNCHANGED <<slot, downloads, stored>>
  BY DEF Replace
<1>3. \A v \in Submissions : sub'[v] = IF v = u THEN r ELSE sub[v]
  BY <1>1, HeardFacts
<1>4. sub[u].name \in Names
  BY HeardFacts DEF Submission
<1>5. sub' \in [Submissions -> Submission] /\ entries' \in [Principals -> SUBSET Names]
      /\ stored' \in BOOLEAN
  BY <1>1, <1>2, <1>4, HeardFacts
<1>6. \A v \in Submissions : sub'[v].at # "free" =>
          sub[v].at # "free" /\ sub'[v].for = sub[v].for /\ sub'[v].file = sub[v].file
  BY <1>1, <1>2, <1>3
<1>7. \A v \in Submissions : sub'[v].heard =>
               /\ sub[v].heard /\ sub'[v].at # "free"
               /\ sub'[v].at \notin {"staging", "written"} => sub'[v].whole
               /\ sub'[v].at = "written" => sub'[v].file \in kept'
  <2>1. TAKE v \in Submissions
  <2>2. CASE v = u
    BY <1>1, <1>2, <1>3, <2>2
  <2>3. CASE v # u
    BY <1>1, <1>3, <2>3, HeardFacts
  <2>4. QED
    BY <2>2, <2>3
<1>8. Publication'
  <2>1. /\ \A v \in Submissions : sub'[v].for = sub[v].for
        /\ \A v \in Submissions \ {u} : sub'[v] = sub[v]
        /\ sub'[u].at \notin Publishing
    BY <1>1, <1>3 DEF Publishing
  <2>2. SUFFICES ASSUME NEW v \in Submissions, sub'[v].at \in Publishing
                 PROVE  /\ sub'[v].rivals = {} => sub'[v].name \notin entries'[Target(v)]
                        /\ sub'[v].at = "allowed" =>
                              Cardinality(entries'[Target(v)]) + Cardinality(Ahead(v)')
                                 < Quota + Cardinality(sub'[v].rivals)
                        /\ \A x \in Submissions \ {v} :
                              sub'[x].at \in Publishing /\ Target(x) = Target(v)
                              => x \in sub'[v].rivals
    BY <2>1 DEF Publication, Target
  <2>3. v # u /\ sub'[v] = sub[v] /\ sub[v].at \in Publishing /\ sub[u].at \in Publishing
    BY <1>2, <2>1, <2>2 DEF Publishing
  <2>4. /\ sub[v].rivals = {} => sub[v].name \notin entries[Target(v)]
        /\ sub[v].at = "allowed" => Cardinality(entries[Target(v)]) + Cardinality(Ahead(v))
                                       < Quota + Cardinality(sub[v].rivals)
        /\ \A x \in Submissions \ {v} :
              sub[x].at \in Publishing /\ Target(x) = Target(v) => x \in sub[v].rivals
    BY <2>3 DEF IngestInv, Publication
  <2>5. \A x \in Submissions \ {v} :
            sub'[x].at \in Publishing /\ Target(x) = Target(v) => x \in sub'[v].rivals
    BY <2>1, <2>3, <2>4
  <2>6. Ahead(v)' \in SUBSET (Ahead(v) \ {u})
    <3>1. SUFFICES ASSUME NEW x \in Ahead(v)' PROVE x \in Ahead(v) \ {u}
      OBVIOUS
    <3>2. x \in sub[v].rivals /\ sub'[x].at = "allowed" /\ Target(x)' = Target(v)'
      BY <2>3, <3>1 DEF Ahead
    <3>3. x \in Submissions /\ x # u
      BY <2>1, <2>3, <3>2, AheadFacts DEF Publishing
    <3>4. sub[x].at = "allowed" /\ Target(x) = Target(v)
      BY <2>1, <2>3, <3>2, <3>3 DEF Target
    <3>5. QED
      BY <3>2, <3>3, <3>4 DEF Ahead
  <2>7. Cardinality(Ahead(v)') \in Nat /\ Cardinality(Ahead(v)') <= Cardinality(Ahead(v))
    BY <2>3, <2>6, AheadFacts, Counted
  <2>8. CASE Target(v) # Target(u)
    <3>1. entries'[Target(v)] = entries[Target(v)]
      BY <1>2, <2>3, <2>8, AheadFacts, HeardFacts
    <3>2. QED
      BY <2>3, <2>4, <2>5, <2>7, <3>1, AheadFacts, IngestAssumption
  <2>9. CASE Target(v) = Target(u)
    <3>1. u \in sub[v].rivals
      BY <2>3, <2>4, <2>9
    <3>2. ASSUME sub[v].at = "allowed"
          PROVE  Cardinality(entries'[Target(v)]) + Cardinality(Ahead(v)')
                    < Quota + Cardinality(sub[v].rivals)
      <4>1. u \in Ahead(v)
        BY <1>2, <2>9, <3>1 DEF Ahead
      <4>2. Cardinality(Ahead(v)') < Cardinality(Ahead(v))
        <5>1. Ahead(v) \in SUBSET Submissions
          BY <2>3, AheadFacts
        <5>2. QED
          BY <2>6, <4>1, <5>1, CountedLess
      <4>3. /\ Cardinality(entries'[Target(v)]) \in Nat
            /\ Cardinality(entries'[Target(v)]) <= Cardinality(entries[Target(v)]) + 1
        <5>1. entries'[Target(v)] = entries[Target(v)] \cup {sub[u].name}
          BY <1>2, <2>3, <2>9, AheadFacts, HeardFacts
        <5>2. entries[Target(v)] \in SUBSET Names
          BY <2>3, AheadFacts
        <5>3. QED
          BY <1>4, <5>1, <5>2, CountedNames
      <4>4. QED
        BY <2>3, <2>4, <2>7, <3>2, <4>2, <4>3, AheadFacts, IngestAssumption
    <3>3. QED
      BY <2>3, <2>5, <3>1, <3>2
  <2>10. QED
    BY <2>8, <2>9
<1>9. QED
  BY <1>1, <1>2, <1>5, <1>6, <1>7, <1>8, Progresses

\* The receiver crashes with its submissions.
LEMMA CrashReceiverInv ==
    ASSUME IngestInv, CrashReceiver
    PROVE  IngestInv'
<1>1. /\ sub' = [u \in Submissions |-> Free]
      /\ UNCHANGED <<slot, downloads, stored, entries, kept>>
  BY DEF CrashReceiver
<1>2. \A v \in Submissions : sub'[v].at = "free" /\ ~sub'[v].heard
  BY <1>1, FreeRecord
<1>3. /\ sub' \in [Submissions -> Submission]
      /\ stored' \in BOOLEAN /\ entries' \in [Principals -> SUBSET Names]
      /\ kept' \subseteq Files
  BY <1>1, FreeRecord DEF IngestInv, TypeOK
<1>4. Publication'
  BY <1>2 DEF Publication, Publishing
<1>5. QED
  BY <1>1, <1>2, <1>3, <1>4, Progresses

-----------------------------------------------------------------------------
(* The theorems.                                                            *)

\* Nothing has been downloaded.
LEMMA IngestInit == Init => IngestInv
<1> SUFFICES ASSUME Init PROVE IngestInv
  OBVIOUS
<1>1. \A u \in Submissions : /\ sub[u] \in Submission /\ sub[u].at = "free"
                             /\ ~sub[u].heard
  BY FreeRecord DEF Init
<1>2. TypeOK
  <2>1. /\ running \in BOOLEAN /\ telling \in BOOLEAN /\ stored \in BOOLEAN
    BY DEF Init
  <2>2. sub \in [Submissions -> Submission]
    BY FreeRecord DEF Init
  <2>3. /\ pushes \in Adoptions /\ binding \in 0..pushes /\ told \subseteq 1..pushes
        /\ watch \in 0..pushes /\ dir \in 0..made /\ born \in [Files -> 0..pushes]
        /\ made \in 0..MaxFiles /\ entries \in [Principals -> SUBSET Names]
        /\ kept \subseteq Files
    BY IngestAssumption DEF Init, Adoptions
  <2>4. QED
    BY <2>1, <2>2, <2>3 DEF TypeOK
<1>3. InFlight /\ Heard /\ Done /\ AsLastTold /\ Publication
  BY <1>1 DEF Init, InFlight, Heard, Done, AsLastTold, Publication, Publishing
<1>4. Followed
  BY DEF Init, Followed
<1>5. QED
  BY <1>2, <1>3, <1>4 DEF IngestInv

\* Every step of watcher, receiver and browser.
LEMMA IngestStep == IngestInv /\ [Next]_vars => IngestInv'
<1> SUFFICES ASSUME IngestInv, [Next]_vars PROVE IngestInv'
  OBVIOUS
<1>1. CASE SlotStep
  BY <1>1, PushInv, TellInv, StartStopInv, CompleteInv, CrashBrowserInv DEF SlotStep
<1>2. CASE Consume
  BY <1>2, ConsumeInv
<1>3. CASE \E u \in Submissions : SubmissionStep(u)
  BY <1>3, SubmitInv, GiveUpRefuseInv, StageInv, QuarantineInv, ChooseNameInv,
     CheckQuotaInv, ReplaceInv, AcceptInv DEF SubmissionStep
<1>4. CASE \E p \in Principals : Purge(p)
  BY <1>4, PurgeInv
<1>5. CASE CrashReceiver
  BY <1>5, CrashReceiverInv
<1>6. CASE UNCHANGED vars
  BY <1>6 DEF vars, slot, downloads, IngestInv, TypeOK, InFlight, Heard, Done, Followed,
              AsLastTold, Publication, Ahead, Target
<1>7. QED
  BY <1>1, <1>2, <1>3, <1>4, <1>5, <1>6 DEF Next

\* The invariant of the ingest.
LEMMA IngestInvariant == Spec => []IngestInv
BY IngestInit, IngestStep, PTL DEF Spec

\* Every variable has its shape, for any principals, submissions and bounds.
THEOREM IngestTypeOK == Spec => []TypeOK
BY IngestInvariant, PTL DEF IngestInv

\* No download is submitted for an adoption earlier than the last one, up to its
\* own, that a listener has taken: with no listener that raises, never for an
\* earlier one than its own.
THEOREM IngestAsLastTold == Spec => []AsLastTold
BY IngestInvariant, PTL DEF IngestInv

\* The watcher removes a download only when the store has had a whole copy.
THEOREM IngestConsumedWasStored == Spec => ConsumedWasStored
<1>1. IngestInv /\ [Next]_vars => [dir # 0 /\ dir' = 0 => dir \in kept]_vars
  <2>1. SUFFICES ASSUME IngestInv, [Next]_vars, dir # 0, dir' = 0
                 PROVE  dir \in kept
    OBVIOUS
  <2>2. Consume
    <3>1. dir' # dir
      BY <2>1
    <3>2. made + 1 # 0
      BY <2>1, IngestAssumption DEF IngestInv, TypeOK
    <3>3. QED
      BY <2>1, <3>1, <3>2 DEF Next, SlotStep, SubmissionStep, Push, Tell, StartBrowser,
         StopBrowser, Complete, CrashBrowserService, Submit, GiveUp, Stage, Quarantine,
         ChooseName, CheckQuota, Replace, Refuse, Accept, Purge, CrashReceiver, vars,
         downloads
  <2>3. QED
    BY <2>1, <2>2 DEF Consume, IngestInv, Done
<1>2. QED
  BY <1>1, IngestInvariant, PTL DEF Spec, ConsumedWasStored

\* A publication that none overlaps overwrites nothing, and one that some overlap
\* exceeds the quota by one file at most for each.
THEOREM IngestPublicationsCounted == Spec => PublicationsCounted
<1> DEFINE A == \A u \in Submissions : Replace(u) =>
                  /\ sub[u].rivals = {} => sub[u].name \notin entries[Target(u)]
                  /\ Cardinality(entries[Target(u)]) < Quota + Cardinality(sub[u].rivals)
<1>1. IngestInv => A
  <2>1. SUFFICES ASSUME IngestInv, NEW u \in Submissions, Replace(u)
                 PROVE  /\ sub[u].rivals = {} => sub[u].name \notin entries[Target(u)]
                        /\ Cardinality(entries[Target(u)])
                              < Quota + Cardinality(sub[u].rivals)
    OBVIOUS
  <2>2. sub[u].at = "allowed" /\ sub[u].at \in Publishing
    BY <2>1 DEF Replace, Publishing
  <2>3. /\ sub[u].rivals = {} => sub[u].name \notin entries[Target(u)]
        /\ Cardinality(entries[Target(u)]) + Cardinality(Ahead(u))
              < Quota + Cardinality(sub[u].rivals)
    BY <2>1, <2>2 DEF IngestInv, Publication
  <2>4. QED
    BY <2>1, <2>2, <2>3, AheadFacts, IngestAssumption
<1>2. IngestInv => [A]_vars
  BY <1>1
<1>3. QED
  BY <1>2, IngestInvariant, PTL DEF PublicationsCounted

=============================================================================
