--------------------------- MODULE DownloadIngest ---------------------------
(***************************************************************************)
(* The way of a finished download from one slot's browser into its owner's  *)
(* files: the watcher thread of the browser service                         *)
(* (cloudfiles/browser_downloads.py), which reads the download directory    *)
(* under the binding that the last push gave it (browser_service.py), the   *)
(* ingest receiver it posts to (cloudfiles/ingest_api.py, ingest.py), which *)
(* stages, scans and stores on a thread for each request, and the owner's   *)
(* area of the store (downloads/store.py).                                  *)
(*                                                                         *)
(* The client waits three seconds, the scanner may take ten: a submission   *)
(* the watcher has given up goes on beside its retry.  The service is       *)
(* configured as deployed, with the browser stopped at boot.                *)
(*                                                                         *)
(* All downloads here have one name: another name never meets them, and     *)
(* Chromium renames a download while its name is taken.  A name in the      *)
(* store is the number in "name (n).ext", and every stored file counts one  *)
(* towards the quota.  An adoption is numbered by its push.                 *)
(***************************************************************************)
EXTENDS Naturals, FiniteSets

CONSTANTS
    Principals,
    MaxPushes,     \* bound of the model: binding pushes
    Minted,        \* the principal of each pushed binding
    Submissions,   \* requests the receiver can be working on at a time
    LastName,      \* the last n tried for "name (n).ext"
    Quota,         \* files an owner may store
    MaxFiles       \* bound of the model: downloads ever completed

ASSUME IngestAssumption ==
    /\ MaxPushes \in Nat
    /\ Minted \in [1..MaxPushes -> Principals]
    /\ IsFiniteSet(Submissions)
    /\ LastName \in Nat
    /\ Quota \in Nat
    /\ MaxFiles \in Nat

VARIABLES
    running,    \* Chromium runs
    pushes,     \* how many bindings have been adopted
    binding,    \* the adoption in force, 0 for the binding of the configuration
    telling,    \* a push is being handled: its listener has not returned yet
    watch,      \* the adoption the watcher attributes files to, 0 without a watcher
    told,       \* observer: the adoptions that the listener has taken
    dir,        \* the download in the directory, 0 for none
    born,       \* by download: the adoption under which it was made
    made,       \* how many downloads have been completed
    stored,     \* the watcher's submission has succeeded
    sub,        \* by submission: what the receiver's thread is doing
    entries,    \* by principal: the names that are taken in its area
    kept        \* downloads of which the store has ever had a whole copy

slot == <<running, pushes, binding, telling, watch, told>>
downloads == <<dir, born, made>>
vars == <<slot, downloads, stored, sub, entries, kept>>

Files == 1..MaxFiles
Names == 0..LastName
Adoptions == 0..MaxPushes

Publishing == {"named", "allowed"}
Places == {"free", "staging", "clean", "unclean", "written"} \cup Publishing

Submission == [file : 0..MaxFiles, for : Adoptions,
               at : Places,
               whole : BOOLEAN,      \* every byte of the download has arrived
               heard : BOOLEAN,      \* the watcher still waits for the answer
               name : Names,
               rivals : SUBSET Submissions]  \* whose publication has overlapped its own

Free == [file |-> 0, for |-> 0, at |-> "free", whole |-> FALSE, heard |-> FALSE,
         name |-> 0, rivals |-> {}]

Waiting == \E u \in Submissions : sub[u].heard
Target(u) == Minted[sub[u].for]
Moved(u, place) == sub' = [sub EXCEPT ![u].at = place]

(***************************************************************************)
(* The slot: a binding is pushed while the browser is stopped.  The handler  *)
(* of a request holds the lifecycle gate to its end, the listener's call     *)
(* included: no browser is started and no other push handled in between.     *)
(***************************************************************************)
Push ==
    /\ ~running /\ ~telling /\ pushes < MaxPushes
    /\ pushes' = pushes + 1
    /\ binding' = pushes + 1
    /\ telling' = TRUE
    /\ UNCHANGED <<running, watch, told, downloads, stored, sub, entries, kept>>

\* DownloadWatcherRegistry.on_binding builds the watcher or rotates it, or raises,
\* and leaves it as it was: its PrincipalBinding refuses what the push's parser
\* takes.  The exception is swallowed and the push answered all the same.
Tell ==
    /\ telling
    /\ telling' = FALSE
    /\ \/ watch' = binding /\ told' = told \cup {binding}
       \/ UNCHANGED <<watch, told>>
    /\ UNCHANGED <<running, pushes, binding, downloads, stored, sub, entries, kept>>

\* Defect: the start does not wait for the push that is being handled.
StartUngated ==
    /\ ~running
    /\ running' = TRUE
    /\ UNCHANGED <<pushes, binding, telling, watch, told, downloads, stored, sub,
                   entries, kept>>

StartBrowser ==
    /\ ~running /\ ~telling
    /\ running' = TRUE
    /\ UNCHANGED <<pushes, binding, telling, watch, told, downloads, stored, sub,
                   entries, kept>>

StopBrowser ==
    /\ running
    /\ running' = FALSE
    /\ UNCHANGED <<pushes, binding, telling, watch, told, downloads, stored, sub,
                   entries, kept>>

\* Chromium finishes a download and gives it its final name.
Complete ==
    /\ running
    /\ dir = 0 /\ made < MaxFiles
    /\ made' = made + 1
    /\ dir' = made + 1
    /\ born' = [born EXCEPT ![made + 1] = binding]
    /\ UNCHANGED <<slot, stored, sub, entries, kept>>

\* The browser service dies; its directory stays, its connections close.
CrashBrowserService ==
    /\ running' = FALSE
    /\ binding' = 0
    /\ telling' = FALSE
    /\ watch' = 0
    /\ stored' = FALSE
    /\ sub' = [u \in Submissions |-> [sub[u] EXCEPT !.heard = FALSE]]
    /\ UNCHANGED <<pushes, told, downloads, entries, kept>>

(***************************************************************************)
(* emit_once: open the file, submit it under the present binding, and       *)
(* remove it when the submission has succeeded.                             *)
(***************************************************************************)
Submit(u) ==
    /\ watch # 0 /\ dir # 0
    /\ ~Waiting /\ ~stored
    /\ sub[u].at = "free"
    /\ sub' = [sub EXCEPT ![u] = [Free EXCEPT !.file = dir, !.for = watch,
                                              !.at = "staging", !.heard = TRUE]]
    /\ UNCHANGED <<slot, downloads, stored, entries, kept>>

\* IngestTimeout: the file is kept for the next scan.
GiveUp(u) ==
    /\ sub[u].heard
    /\ sub' = [sub EXCEPT ![u].heard = FALSE]
    /\ UNCHANGED <<slot, downloads, stored, entries, kept>>

\* path.unlink().
Consume ==
    /\ stored
    /\ stored' = FALSE
    /\ dir' = 0
    /\ UNCHANGED <<slot, born, made, sub, entries, kept>>

(***************************************************************************)
(* The receiver: IngestPipeline.ingest, then DownloadStore.                 *)
(***************************************************************************)
\* The body is staged and scanned; a connection closed by the client ends it,
\* at whatever length.
Stage(u) ==
    /\ sub[u].at = "staging"
    /\ \E whole \in BOOLEAN, verdict \in {"clean", "unclean"} :
          /\ sub[u].heard => whole
          /\ sub' = [sub EXCEPT ![u].whole = whole, ![u].at = verdict]
    /\ UNCHANGED <<slot, downloads, stored, entries, kept>>

\* The temporary files are gone; only the receipt is left to be sent.
Written(u) ==
    /\ sub' = [sub EXCEPT ![u] = [Free EXCEPT !.file = sub[u].file, !.for = sub[u].for,
                                              !.at = "written", !.heard = sub[u].heard]]
    /\ kept' = IF sub[u].whole THEN kept \cup {sub[u].file} ELSE kept

\* quarantine: created exclusively, outside the entries.
Quarantine(u) ==
    /\ sub[u].at = "unclean"
    /\ Written(u)
    /\ UNCHANGED <<slot, downloads, stored, entries>>

\* Defect: one name more is tried than there may be.
UntakenBeyond(p) == (0..(LastName + 1)) \ entries[p]

Untaken(p) == Names \ entries[p]

\* Defect: the name is taken as it comes.
TakeName(u) ==
    /\ sub[u].at = "clean"
    /\ sub' = [sub EXCEPT ![u].at = "named", ![u].rivals = {}]
    /\ UNCHANGED <<slot, downloads, stored, entries, kept>>

\* _next_name: the first that does not exist; then the copy into a temporary file.
ChooseName(u) ==
    /\ sub[u].at = "clean"
    /\ LET overlaps == {v \in Submissions : sub[v].at \in Publishing /\ Target(v) = Target(u)}
       IN  \E n \in Untaken(Target(u)) :
             /\ \A m \in Untaken(Target(u)) : n <= m
             /\ sub' = [v \in Submissions |->
                          IF v = u
                          THEN [sub[u] EXCEPT !.at = "named", !.name = n,
                                              !.rivals = overlaps]
                          ELSE [sub[v] EXCEPT !.rivals = IF v \in overlaps
                                                         THEN @ \cup {u} ELSE @]]
    /\ UNCHANGED <<slot, downloads, stored, entries, kept>>

\* usage_bytes, before publication.
CheckQuota(u) ==
    /\ sub[u].at = "named"
    /\ Cardinality(entries[Target(u)]) < Quota
    /\ Moved(u, "allowed")
    /\ UNCHANGED <<slot, downloads, stored, entries, kept>>

\* os.replace.
Replace(u) ==
    /\ sub[u].at = "allowed"
    /\ entries' = [entries EXCEPT ![Target(u)] = @ \cup {sub[u].name}]
    /\ Written(u)
    /\ UNCHANGED <<slot, downloads, stored>>

\* Defect: the watcher takes any answer for a receipt.
AcceptAny(u) ==
    /\ sub[u].at # "free"
    /\ sub' = [sub EXCEPT ![u] = Free]
    /\ stored' = sub[u].heard
    /\ UNCHANGED <<slot, downloads, entries, kept>>

\* A step of the receiver raises, the index after the publication included, or
\* refuses: no name or no quota is left.
Refuse(u) ==
    /\ sub[u].at # "free"
    /\ sub' = [sub EXCEPT ![u] = Free]
    /\ UNCHANGED <<slot, downloads, stored, entries, kept>>

\* The receipt; nobody may be waiting for it.
Accept(u) ==
    /\ sub[u].at = "written"
    /\ sub' = [sub EXCEPT ![u] = Free]
    /\ stored' = (stored \/ sub[u].heard)
    /\ UNCHANGED <<slot, downloads, entries, kept>>

\* The retention purge of one owner, or its erasure.
Purge(p) ==
    /\ \E old \in SUBSET entries[p] :
          /\ old # {}
          /\ entries' = [entries EXCEPT ![p] = @ \ old]
    /\ UNCHANGED <<slot, downloads, stored, sub, kept>>

\* The receiver dies with every request it was working on.
CrashReceiver ==
    /\ \E u \in Submissions : sub[u].at # "free"
    /\ sub' = [u \in Submissions |-> Free]
    /\ UNCHANGED <<slot, downloads, stored, entries, kept>>

Init ==
    /\ running = FALSE
    /\ pushes = 0
    /\ binding = 0
    /\ telling = FALSE
    /\ watch = 0
    /\ told = {}
    /\ dir = 0
    /\ born = [f \in Files |-> 0]
    /\ made = 0
    /\ stored = FALSE
    /\ sub = [u \in Submissions |-> Free]
    /\ entries = [p \in Principals |-> {}]
    /\ kept = {}

SlotStep ==
    \/ Push
    \/ Tell
    \/ StartBrowser
    \/ StopBrowser
    \/ Complete
    \/ CrashBrowserService

SubmissionStep(u) ==
    \/ Submit(u)
    \/ GiveUp(u)
    \/ Stage(u)
    \/ Quarantine(u)
    \/ ChooseName(u)
    \/ CheckQuota(u)
    \/ Replace(u)
    \/ Refuse(u)
    \/ Accept(u)

Next ==
    \/ SlotStep
    \/ Consume
    \/ \E u \in Submissions : SubmissionStep(u)
    \/ \E p \in Principals : Purge(p)
    \/ CrashReceiver

Spec == Init /\ [][Next]_vars

-----------------------------------------------------------------------------
(***************************************************************************)
(* Properties.                                                              *)
(***************************************************************************)

\* Every variable has the shape its owner gives it.
TypeOK ==
    /\ running \in BOOLEAN
    /\ pushes \in Adoptions
    /\ binding \in 0..pushes
    /\ telling \in BOOLEAN
    /\ watch \in 0..pushes
    /\ told \subseteq 1..pushes
    /\ dir \in 0..made
    /\ born \in [Files -> 0..pushes]
    /\ made \in 0..MaxFiles
    /\ stored \in BOOLEAN
    /\ sub \in [Submissions -> Submission]
    /\ entries \in [Principals -> SUBSET Names]
    /\ kept \subseteq Files

\* "A failed submit keeps it for the next scan": a download leaves the directory
\* only when the store has had a whole copy of it, although submissions are
\* given up, cut short, refused after they stored, or die with either service.
ConsumedWasStored ==
    [][dir # 0 /\ dir' = 0 => dir \in kept]_vars

\* "Downloads are never attributed to a stale principal", as far as the code
\* keeps it: a download is never submitted for an earlier adoption than the last
\* one, up to its own, that the listener has taken.  If no listener raises, that is
\* the adoption it was made under or, left over, a later one.
AsLastTold ==
    \A u \in Submissions : sub[u].at # "free" =>
        \A n \in told : n <= born[sub[u].file] => n <= sub[u].for

\* "Without overwriting" and "quota enforcement precedes publication", as far as
\* three steps without a lock keep them: a publication takes another's name only if
\* one has overlapped it, and it exceeds the quota by one file at most for each
\* submission that has, with retries, crashes and purges in between.
PublicationsCounted ==
    [][\A u \in Submissions : Replace(u) =>
         /\ sub[u].rivals = {} => sub[u].name \notin entries[Target(u)]
         /\ Cardinality(entries[Target(u)]) < Quota + Cardinality(sub[u].rivals)]_vars

=============================================================================
