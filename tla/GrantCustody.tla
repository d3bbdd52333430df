---------------------------- MODULE GrantCustody ----------------------------
(***************************************************************************)
(* The custody of a credential grant (credential_broker/grant_custody.py)   *)
(* and the login that uses it (credential_broker/coordinator.py): one row   *)
(* for each scope in an SQLite file, with the refresh token of a session of *)
(* the vault, and the vault, which replaces that token when it is used.     *)
(*                                                                         *)
(* A login resolves the grant, makes sure twice that it has not changed,    *)
(* takes the scope's process-wide lock and the write reservation of the     *)
(* whole file (BEGIN IMMEDIATE), and holds both while it mints a vault      *)
(* session, reads the vault, stores the replaced token and works on the     *)
(* browser.  provision, revoke and status are transactions of their own,    *)
(* also of another process, which share only the file with the login.       *)
(*                                                                         *)
(* A grant id is random; here it is the epoch at which it was provisioned.  *)
(* Tokens are numbered in the order the vault gives them out.  The login's  *)
(* repeated recheck reads the committed row: it is part of the step that    *)
(* follows it.  The cryptography and the vault's documents are left out:    *)
(* they can be read or not.  The vault is not part of src/.                 *)
(***************************************************************************)
EXTENDS Naturals

CONSTANTS
    Scopes,      \* profile, principal, site, tab, browser and generation
    Logins,      \* login requests the broker is working on
    Nobody,      \* holder of a lock or a reservation that is free
    MaxEpoch,    \* bound of the model: the last epoch of a scope
    MaxToken     \* bound of the model: tokens the vault gives out for a scope

ASSUME CustodyAssumption ==
    /\ Nobody \notin Logins
    /\ MaxEpoch \in Nat
    /\ MaxToken \in Nat

VARIABLES
    grant,       \* the committed row of each scope
    lock,        \* _GLOBAL_SCOPE_LOCKS: who holds the lock of a scope
    writer,      \* who holds the write reservation of the file
    login,       \* by login: its scope, what it was authorized for, its place
    vault,       \* by scope: the one token the vault accepts
    refused,     \* by scope: the tokens the vault has refused to the broker
    excused      \* by scope: the stored token was lost or ended elsewhere

custody == <<grant, lock, writer>>
external == <<vault, refused>>
vars == <<custody, login, external, excused>>

\* id 0 is a scope without a row.
Row == [id : 0..MaxEpoch, epoch : 0..MaxEpoch, active : BOOLEAN, token : 0..MaxToken]
NoRow == [id |-> 0, epoch |-> 0, active |-> FALSE, token |-> 0]

Resting == {"idle", "ok", "failed"}
\* Holding the lock and the reservation, in this order of places.
Gated == {"mint", "sync", "store", "decrypt", "use"}
Places == Resting \cup {"revalidate", "select", "lock", "reserve"} \cup Gated

Login == [scope : Scopes,
          id : 0..MaxEpoch, epoch : 0..MaxEpoch,    \* GrantAuthorization
          token : 0..MaxToken,                      \* GrantLease.refresh_token
          rotated : 0..MaxToken,                    \* what the vault replaced it by
          at : Places]

Rest(sc, place) == [scope |-> sc, id |-> 0, epoch |-> 0, token |-> 0, rotated |-> 0,
                    at |-> place]

Moved(l, place) == login' = [login EXCEPT ![l].at = place]
Ends(l, place) == login' = [login EXCEPT ![l] = Rest(login[l].scope, place)]

\* The grant of the login's scope is still the one it was authorized for.
Current(l) ==
    LET g == grant[login[l].scope]
    IN  g.active /\ g.id = login[l].id /\ g.epoch = login[l].epoch

(***************************************************************************)
(* The coordinator, before the gate.                                        *)
(***************************************************************************)
\* resolve_grant: only an active grant of this very scope authorizes.
Resolve(l, sc) ==
    /\ login[l].at \in Resting
    /\ IF grant[sc].active
       THEN login' = [login EXCEPT ![l] = [Rest(sc, "revalidate") EXCEPT
                                             !.id = grant[sc].id,
                                             !.epoch = grant[sc].epoch]]
       ELSE login' = [login EXCEPT ![l] = Rest(sc, "failed")]
    /\ UNCHANGED <<custody, external, excused>>

\* Resolved again, before the fetch and once more before the fill.
Revalidate(l) ==
    /\ \/ login[l].at = "revalidate" /\ Current(l) /\ Moved(l, "select")
       \/ login[l].at = "select" /\ Current(l) /\ Moved(l, "lock")
       \/ login[l].at \in {"revalidate", "select"} /\ ~Current(l) /\ Ends(l, "failed")
    /\ UNCHANGED <<custody, external, excused>>

\* The deadline, the browser or the store gives out before the gate is entered.
Fail(l) ==
    /\ login[l].at \in {"revalidate", "select", "lock"}
    /\ Ends(l, "failed")
    /\ UNCHANGED <<custody, external, excused>>

(***************************************************************************)
(* authorized_operation: the lock of the grant's scope, then the file's     *)
(* write reservation, then the row.                                         *)
(***************************************************************************)
TakeLock(l) ==
    LET sc == login[l].scope
    IN  /\ login[l].at = "lock"
        /\ \/ /\ grant[sc].id = login[l].id /\ lock[sc] = Nobody
              /\ lock' = [lock EXCEPT ![sc] = l]
              /\ Moved(l, "reserve")
           \/ /\ grant[sc].id # login[l].id
              /\ Ends(l, "failed")
              /\ UNCHANGED lock
        /\ UNCHANGED <<grant, writer, external, excused>>

\* BEGIN IMMEDIATE, the checkout and the comparison with the authorization.
Reserve(l) ==
    LET sc == login[l].scope
    IN  /\ login[l].at = "reserve"
        /\ \/ /\ writer = Nobody /\ Current(l)
              /\ writer' = l
              /\ login' = [login EXCEPT ![l].at = "mint", ![l].token = grant[sc].token]
              /\ UNCHANGED lock
           \/ \* revoked or changed, or the file stays busy until the timeout
              /\ writer # Nobody \/ ~Current(l)
              /\ lock' = [lock EXCEPT ![sc] = Nobody]
              /\ Ends(l, "failed")
              /\ UNCHANGED writer
        /\ UNCHANGED <<grant, external, excused>>

(***************************************************************************)
(* Inside the gate.                                                         *)
(***************************************************************************)
Release(l) ==
    /\ writer' = Nobody
    /\ lock' = [lock EXCEPT ![login[l].scope] = Nobody]

\* Defect: the rejection rolls the invalidation back.
InvalidateRolledBack(l) ==
    /\ Release(l)
    /\ Ends(l, "failed")
    /\ UNCHANGED grant

\* Defect: the epoch advances with the row and again with the commit.
InvalidateTwice(l) ==
    LET sc == login[l].scope
    IN  /\ grant' = [grant EXCEPT ![sc] =
                       [id |-> @.id, epoch |-> @.epoch + 2, active |-> FALSE, token |-> 0]]
        /\ Release(l)
        /\ Ends(l, "failed")

\* invalidate and commit_invalidation, then GrantRevoked through the gate.
Invalidate(l) ==
    LET sc == login[l].scope
    IN  /\ grant' = [grant EXCEPT ![sc] =
                       [id |-> @.id, epoch |-> @.epoch + 1, active |-> FALSE, token |-> 0]]
        /\ Release(l)
        /\ Ends(l, "failed")

\* What the vault does with a token: it refuses any but the current one, and
\* keeps or replaces that one.
Accepts(l) == login[l].token = vault[login[l].scope]
Replaces(sc) == vault[sc] < MaxToken /\ vault' = [vault EXCEPT ![sc] = @ + 1]

\* _mint_session.
Mint(l) ==
    LET sc == login[l].scope
    IN  /\ login[l].at = "mint"
        /\ grant[sc].epoch < MaxEpoch
        /\ \/ /\ Accepts(l)
              /\ \/ /\ Replaces(sc)
                    /\ login' = [login EXCEPT ![l].at = "sync", ![l].rotated = vault[sc] + 1]
                 \/ /\ UNCHANGED vault
                    /\ Moved(l, "sync")
              /\ UNCHANGED <<custody, refused, excused>>
           \/ \* 400 or 401
              /\ ~Accepts(l)
              /\ Invalidate(l)
              /\ refused' = [refused EXCEPT ![sc] = @ \cup {login[l].token}]
              /\ UNCHANGED <<vault, excused>>
           \/ \* 200 without an access token
              /\ Accepts(l)
              /\ Invalidate(l)
              /\ Replaces(sc) \/ UNCHANGED vault
              /\ UNCHANGED <<refused, excused>>
           \/ \* no answer, although the vault may have replaced the token
              /\ Accepts(l)
              /\ Replaces(sc)
              /\ excused' = [excused EXCEPT ![sc] = TRUE]
              /\ Release(l)
              /\ Ends(l, "failed")
              /\ UNCHANGED <<grant, refused>>

\* _sync; a 401 invalidates.
Sync(l) ==
    /\ login[l].at = "sync"
    /\ \/ Moved(l, "store") /\ UNCHANGED custody
       \/ Invalidate(l)
    /\ UNCHANGED <<external, excused>>

\* Defect: the rotated token is not stored.
StoreNothing(l) ==
    /\ login[l].at = "store"
    /\ Moved(l, "decrypt")
    /\ UNCHANGED <<custody, external, excused>>

\* The rotated token becomes the lease's; the row has it when the gate commits.
Store(l) ==
    /\ login[l].at = "store"
    /\ login' = [login EXCEPT ![l].at = "decrypt",
                              ![l].token = IF login[l].rotated # 0
                                           THEN login[l].rotated ELSE @]
    /\ UNCHANGED <<custody, external, excused>>

\* The material is decrypted and the adapter goes to work on the browser.
Use(l) ==
    /\ login[l].at = "decrypt"
    /\ Moved(l, "use")
    /\ UNCHANGED <<custody, external, excused>>

\* The operation returned, whatever its result: commit.
Commit(l) ==
    /\ login[l].at = "use"
    /\ grant' = [grant EXCEPT ![login[l].scope].token = login[l].token]
    /\ Release(l)
    /\ Ends(l, "ok")
    /\ UNCHANGED <<external, excused>>

\* Defect: the exception leaves the transaction open.
AbortOpen(l) ==
    /\ login[l].at \in Gated
    /\ lock' = [lock EXCEPT ![login[l].scope] = Nobody]
    /\ Ends(l, "failed")
    /\ excused' = [excused EXCEPT ![login[l].scope] = @ \/ login[l].rotated # 0]
    /\ UNCHANGED <<grant, writer, external>>

\* An exception inside the gate: rollback.
Abort(l) ==
    /\ login[l].at \in Gated
    /\ Release(l)
    /\ Ends(l, "failed")
    /\ excused' = [excused EXCEPT ![login[l].scope] = @ \/ login[l].rotated # 0]
    /\ UNCHANGED <<grant, external>>

(***************************************************************************)
(* The operator, through the broker's process or another one: each is one   *)
(* transaction, which waits for the reservation.                            *)
(***************************************************************************)
\* Defect: a revocation writes outside the reservation.
RevokeUnreserved(sc) ==
    /\ grant[sc].active /\ grant[sc].epoch < MaxEpoch
    /\ grant' = [grant EXCEPT ![sc] =
                   [id |-> @.id, epoch |-> @.epoch + 1, active |-> FALSE, token |-> 0]]
    /\ UNCHANGED <<lock, writer, login, external, excused>>

\* revoke; of a scope without an active grant it only writes the audit.
Revoke(sc) ==
    /\ writer = Nobody
    /\ grant[sc].active /\ grant[sc].epoch < MaxEpoch
    /\ grant' = [grant EXCEPT ![sc] =
                   [id |-> @.id, epoch |-> @.epoch + 1, active |-> FALSE, token |-> 0]]
    /\ UNCHANGED <<lock, writer, login, external, excused>>

\* provision, with the token of a new vault session.
Provision(sc) ==
    /\ writer = Nobody
    /\ grant[sc].epoch < MaxEpoch
    /\ Replaces(sc)
    /\ grant' = [grant EXCEPT ![sc] = [id |-> @.epoch + 1, epoch |-> @.epoch + 1,
                                       active |-> TRUE, token |-> vault[sc] + 1]]
    /\ excused' = [excused EXCEPT ![sc] = FALSE]
    /\ UNCHANGED <<lock, writer, login, refused>>

\* The vault ends the session for reasons of its own.
VaultEnds(sc) ==
    /\ Replaces(sc)
    /\ excused' = [excused EXCEPT ![sc] = TRUE]
    /\ UNCHANGED <<custody, login, refused>>

\* The broker dies: SQLite rolls the open transaction back.
Crash ==
    /\ writer' = Nobody
    /\ lock' = [sc \in Scopes |-> Nobody]
    /\ login' = [l \in Logins |-> Rest(login[l].scope, "idle")]
    /\ excused' = [sc \in Scopes |->
                     \/ excused[sc]
                     \/ \E l \in Logins : login[l].scope = sc /\ login[l].rotated # 0]
    /\ UNCHANGED <<grant, external>>

Init ==
    /\ grant = [sc \in Scopes |-> NoRow]
    /\ lock = [sc \in Scopes |-> Nobody]
    /\ writer = Nobody
    /\ \E sc \in Scopes : login = [l \in Logins |-> Rest(sc, "idle")]
    /\ vault = [sc \in Scopes |-> 0]
    /\ refused = [sc \in Scopes |-> {}]
    /\ excused = [sc \in Scopes |-> FALSE]

\* What the thread of a login does once the coordinator has the grant.
LoginStep(l) ==
    \/ Revalidate(l)
    \/ TakeLock(l)
    \/ Reserve(l)
    \/ Mint(l)
    \/ Sync(l)
    \/ Store(l)
    \/ Use(l)
    \/ Commit(l)
    \/ Abort(l)
    \/ Fail(l)

Next ==
    \/ \E l \in Logins : LoginStep(l) \/ \E sc \in Scopes : Resolve(l, sc)
    \/ \E sc \in Scopes : Revoke(sc) \/ Provision(sc) \/ VaultEnds(sc)
    \/ Crash

Spec == Init /\ [][Next]_vars

\* Every wait of a login is bounded by its deadline, so its thread goes on.
FairSpec == Spec /\ \A l \in Logins : WF_vars(LoginStep(l))

-----------------------------------------------------------------------------
(***************************************************************************)
(* Properties.                                                              *)
(***************************************************************************)

\* Every variable has the shape its owner gives it.
TypeOK ==
    /\ grant \in [Scopes -> Row]
    /\ lock \in [Scopes -> Logins \cup {Nobody}]
    /\ writer \in Logins \cup {Nobody}
    /\ login \in [Logins -> Login]
    /\ vault \in [Scopes -> 0..MaxToken]
    /\ refused \in [Scopes -> SUBSET (0..MaxToken)]
    /\ excused \in [Scopes -> BOOLEAN]

\* While a login works on the browser, and from the moment it sends the
\* grant's token to the vault, the committed grant is the one the coordinator
\* authorized: no revocation, replacement or invalidation of any process takes
\* effect in between, and no login starts under one that has.
UsedUnderItsGrant == \A l \in Logins : login[l].at \in Gated => Current(l)

\* "A rotated session leg must persist": outside the gate an active grant holds
\* the token the vault accepts, unless the vault ended the session itself, or a
\* login that had made it replace the token did not get to its end.
StoredTokenIsCurrent ==
    \A sc \in Scopes :
        grant[sc].active /\ ~excused[sc] /\ (writer = Nobody \/ login[writer].scope # sc)
        => grant[sc].token = vault[sc]

\* A token the vault has refused is never sent to it again: the invalidation
\* outlives the rejection that the login raises through its open transaction,
\* and whatever login, crash or revocation comes next.
RefusedNeverRetried ==
    [][\A l \in Logins : Mint(l) => login[l].token \notin refused[login[l].scope]]_vars

\* Whoever holds the file's write reservation gives it up, so that revocations
\* are not shut out for good: every way out of the gate releases it.
GateIsReleased == writer # Nobody ~> writer = Nobody

=============================================================================
