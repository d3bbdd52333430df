------------------------- MODULE GrantCustodyProofs -------------------------
(***************************************************************************)
(* Theorems about GrantCustody for any set of scopes and logins and any     *)
(* bound of epochs and tokens.                                              *)
(*                                                                         *)
(* That a login in the gate works under its grant is not inductive: it      *)
(* holds because the login has the write reservation, so that nobody else   *)
(* writes the row.  CustodyInv says so, and what the login in the gate      *)
(* knows of the token: before the vault has replaced it, it is the row's;   *)
(* afterwards the replacement is the one the vault accepts, unless a        *)
(* failure excuses the row, and the vault has never refused it.             *)
(***************************************************************************)
EXTENDS GrantCustody, TLAPS

\* Of a login in the gate.
InGate(l) ==
    /\ writer = l
    /\ Current(l)
    /\ login[l].at # "mint" => grant[login[l].scope].epoch < MaxEpoch

\* Of the token of a login in the gate.
TokenKnown(l) ==
    LET sc == login[l].scope
    IN  /\ login[l].rotated = 0 =>
              /\ login[l].token = grant[sc].token
              /\ excused[sc] \/ login[l].token = vault[sc]
        /\ login[l].rotated # 0 =>
              /\ login[l].at # "mint"
              /\ login[l].rotated <= vault[sc]
              /\ login[l].rotated \notin refused[sc]
              /\ excused[sc] \/ login[l].rotated = vault[sc]
              /\ login[l].at \in {"decrypt", "use"} => login[l].token = login[l].rotated

\* Of the row of a scope and what the vault has said of its tokens.
RowAccepted(sc) ==
    /\ grant[sc].token <= vault[sc]
    /\ \A t \in refused[sc] : t <= vault[sc]
    /\ grant[sc].active => grant[sc].token \notin refused[sc]

Gate == \A l \in Logins : login[l].at \in Gated => InGate(l)
Tokens == \A l \in Logins : IF login[l].at \in Gated THEN TokenKnown(l)
                            ELSE login[l].rotated = 0
Rows == \A sc \in Scopes : RowAccepted(sc)
WriterGated == writer # Nobody => login[writer].at \in Gated

CustodyInv ==
    /\ TypeOK
    /\ Gate
    /\ Tokens
    /\ Rows
    /\ WriterGated
    /\ StoredTokenIsCurrent

-----------------------------------------------------------------------------
(* The three ways in which a login's record changes.                        *)

\* A login outside the gate stays outside: whatever its record becomes, the
\* row, the reservation and the vault are as they were.
LEMMA StaysOut ==
    ASSUME CustodyInv, NEW l \in Logins, NEW r \in Login,
           login[l].at \notin Gated, r.at \notin Gated, r.rotated = 0,
           login' = [login EXCEPT ![l] = r],
           lock' \in [Scopes -> Logins \cup {Nobody}],
           UNCHANGED <<grant, writer, vault, refused, excused>>
    PROVE  CustodyInv'
<1> USE DEF CustodyInv
<1>1. /\ login'[l] = r
      /\ \A k \in Logins \ {l} : login'[k] = login[k]
  BY DEF TypeOK
<1>2. TypeOK'
  BY DEF TypeOK
<1>3. \A k \in Logins : login'[k].at \in Gated => k # l /\ login[k].at \in Gated
  BY <1>1
<1>4. Gate'
  BY <1>1, <1>3 DEF Gate, InGate, Current
<1>5. Tokens'
  <2>1. SUFFICES ASSUME NEW k \in Logins
                 PROVE  IF login'[k].at \in Gated THEN TokenKnown(k)'
                        ELSE login'[k].rotated = 0
    BY DEF Tokens
  <2>2. CASE k = l
    BY <1>1, <2>2
  <2>3. CASE k # l
    BY <1>1, <2>3 DEF Tokens, TokenKnown
  <2>4. QED
    BY <2>2, <2>3
<1>6. Rows'
  BY DEF Rows, RowAccepted
<1>7. writer # l /\ WriterGated'
  BY <1>1, CustodyAssumption DEF WriterGated, TypeOK
<1>8. StoredTokenIsCurrent'
  BY <1>1, <1>7 DEF StoredTokenIsCurrent, TypeOK
<1>9. QED
  BY <1>2, <1>4, <1>5, <1>6, <1>7, <1>8

\* Whoever is in the gate has the reservation, so no other login is.
LEMMA AloneInGate ==
    ASSUME CustodyInv, NEW l \in Logins, login[l].at \in Gated
    PROVE  /\ writer = l
           /\ \A k \in Logins \ {l} : login[k].at \notin Gated
BY DEF CustodyInv, Gate, InGate

\* A login in the gate goes on: the row is not written, and what it now knows
\* of its token holds.
LEMMA StaysIn ==
    ASSUME CustodyInv, NEW l \in Logins, NEW r \in Login,
           login[l].at \in Gated, r.at \in Gated,
           r.scope = login[l].scope, r.id = login[l].id, r.epoch = login[l].epoch,
           r.at # "mint" => grant[login[l].scope].epoch < MaxEpoch,
           login' = [login EXCEPT ![l] = r],
           vault' \in [Scopes -> 0..MaxToken],
           \A sc \in Scopes : vault[sc] <= vault'[sc],
           \A sc \in Scopes \ {r.scope} : vault'[sc] = vault[sc],
           TokenKnown(l)',
           UNCHANGED <<grant, lock, writer, refused, excused>>
    PROVE  CustodyInv'
<1> USE DEF CustodyInv
<1>1. /\ login'[l] = r
      /\ \A k \in Logins \ {l} : login'[k] = login[k]
  BY DEF TypeOK
<1>2. TypeOK'
  BY DEF TypeOK
<1>3. /\ writer = l
      /\ \A k \in Logins : login'[k].at \in Gated => k = l
      /\ \A k \in Logins \ {l} : login'[k].rotated = 0
  BY <1>1, AloneInGate DEF Tokens
<1>4. InGate(l)'
  BY <1>1, <1>3 DEF Gate, InGate, Current
<1>5. Gate' /\ Tokens'
  <2>1. \A k \in Logins : /\ login'[k].at \in Gated => InGate(k)' /\ TokenKnown(k)'
                          /\ login'[k].at \notin Gated => login'[k].rotated = 0
    BY <1>1, <1>3, <1>4
  <2>2. QED
    BY <2>1 DEF Gate, Tokens
<1>6. Rows'
  <2>1. SUFFICES ASSUME NEW sc \in Scopes PROVE RowAccepted(sc)'
    BY DEF Rows
  <2>2. /\ grant[sc].token \in Nat /\ vault[sc] \in Nat /\ vault'[sc] \in Nat
        /\ vault[sc] <= vault'[sc]
        /\ \A t \in refused[sc] : t \in Nat
    BY <1>2, CustodyAssumption DEF TypeOK, Row
  <2>3. RowAccepted(sc)
    BY DEF Rows
  <2>4. QED
    BY <2>2, <2>3 DEF RowAccepted
<1>7. WriterGated'
  BY <1>1, <1>3 DEF WriterGated
<1>8. StoredTokenIsCurrent'
  BY <1>1, <1>3, CustodyAssumption DEF StoredTokenIsCurrent, TypeOK
<1>9. QED
  BY <1>2, <1>4, <1>5, <1>6, <1>7, <1>8

\* A login leaves the gate: nobody is left in it, and it has brought the row
\* of its scope to agree with the vault, has ended the grant, or is excused.
LEMMA Leaves ==
    ASSUME CustodyInv, NEW l \in Logins, NEW r \in Login,
           login[l].at \in Gated, r.at \notin Gated, r.rotated = 0,
           login' = [login EXCEPT ![l] = r],
           Release(l),
           grant' \in [Scopes -> Row],
           vault' \in [Scopes -> 0..MaxToken],
           refused' \in [Scopes -> SUBSET (0..MaxToken)],
           excused' \in [Scopes -> BOOLEAN],
           \A sc \in Scopes : sc = login[l].scope => RowAccepted(sc)',
           \A sc \in Scopes \ {login[l].scope} :
               /\ grant'[sc] = grant[sc] /\ vault'[sc] = vault[sc]
               /\ refused'[sc] = refused[sc] /\ excused'[sc] = excused[sc],
           LET sc == login[l].scope
           IN  grant'[sc].active /\ ~excused'[sc] => grant'[sc].token = vault'[sc]
    PROVE  CustodyInv'
<1> USE DEF CustodyInv
<1>1. /\ login'[l] = r
      /\ \A k \in Logins \ {l} : login'[k] = login[k]
  BY DEF TypeOK
<1>2. login[l].scope \in Scopes
  BY DEF TypeOK, Login
<1>3. /\ writer = l /\ writer' = Nobody
      /\ \A k \in Logins : login'[k].at \notin Gated /\ login'[k].rotated = 0
  BY <1>1, AloneInGate DEF Release, Tokens
<1>4. TypeOK'
  BY <1>2, <1>3 DEF TypeOK, Release
<1>5. Gate' /\ Tokens' /\ WriterGated'
  BY <1>3 DEF Gate, Tokens, WriterGated
<1>6. Rows'
  <2>1. SUFFICES ASSUME NEW sc \in Scopes PROVE RowAccepted(sc)'
    BY DEF Rows
  <2>2. CASE sc = login[l].scope
    BY <2>2
  <2>3. CASE sc # login[l].scope
    BY <2>3 DEF Rows, RowAccepted
  <2>4. QED
    BY <2>2, <2>3
<1>7. StoredTokenIsCurrent'
  <2>1. SUFFICES ASSUME NEW sc \in Scopes, grant'[sc].active, ~excused'[sc]
                 PROVE  grant'[sc].token = vault'[sc]
    BY DEF StoredTokenIsCurrent
  <2>2. CASE sc = login[l].scope
    BY <2>1, <2>2
  <2>3. CASE sc # login[l].scope
    BY <1>3, <2>1, <2>3 DEF StoredTokenIsCurrent
  <2>4. QED
    BY <2>2, <2>3
<1>8. QED
  BY <1>4, <1>5, <1>6, <1>7

-----------------------------------------------------------------------------
(* The steps of a login.                                                    *)

\* What a login becomes when it ends.
LEMMA RestTyped ==
    ASSUME CustodyInv, NEW sc \in Scopes, NEW place \in Resting
    PROVE  /\ Rest(sc, place) \in Login
           /\ Rest(sc, place).at = place
           /\ Rest(sc, place).rotated = 0
           /\ place \notin Gated
BY CustodyAssumption DEF Rest, Login, Places, Resting, Gated

\* What a login becomes when it moves on.
LEMMA MovedRecord ==
    ASSUME CustodyInv, NEW l \in Logins, NEW place \in Places
    PROVE  LET r == [login[l] EXCEPT !.at = place]
           IN  /\ r \in Login
               /\ r.at = place
               /\ r.scope = login[l].scope /\ r.id = login[l].id
               /\ r.epoch = login[l].epoch
               /\ r.token = login[l].token /\ r.rotated = login[l].rotated
               /\ Moved(l, place) => login' = [login EXCEPT ![l] = r]
<1> DEFINE r == [login[l] EXCEPT !.at = place]
<1>1. login[l] \in Login
  BY DEF CustodyInv, TypeOK
<1>2. /\ r \in Login
      /\ r.at = place
      /\ r.scope = login[l].scope /\ r.id = login[l].id
      /\ r.epoch = login[l].epoch
      /\ r.token = login[l].token /\ r.rotated = login[l].rotated
  BY <1>1 DEF Login
<1>3. Moved(l, place) => login' = [login EXCEPT ![l] = r]
  BY DEF Moved
<1>4. QED
  BY <1>2, <1>3

\* A login outside the gate that moves on outside it.
LEMMA MovesOutside ==
    ASSUME CustodyInv, NEW l \in Logins, NEW place \in Places,
           login[l].at \notin Gated, place \notin Gated, Moved(l, place)
    PROVE  \E r \in Login : /\ login' = [login EXCEPT ![l] = r]
                            /\ r.at \notin Gated
                            /\ r.rotated = 0
<1> DEFINE r == [login[l] EXCEPT !.at = place]
<1>1. /\ r \in Login
      /\ r.at = place
      /\ r.rotated = login[l].rotated
      /\ login' = [login EXCEPT ![l] = r]
  BY MovedRecord
<1>2. login[l].rotated = 0
  BY DEF CustodyInv, Tokens
<1> HIDE DEF r
<1>3. QED
  BY <1>1, <1>2

\* Before the gate nothing but the login and, at its door, the lock changes.
LEMMA BeforeGate ==
    ASSUME CustodyInv, NEW l \in Logins,
           \/ \E sc \in Scopes : Resolve(l, sc)
           \/ Revalidate(l)
           \/ Fail(l)
           \/ TakeLock(l)
    PROVE  CustodyInv'
<1> DEFINE L == login[l]
<1>0. /\ L \in Login /\ L.scope \in Scopes
      /\ lock \in [Scopes -> Logins \cup {Nobody}]
  BY DEF CustodyInv, TypeOK, Login
<1>1. CASE \E sc \in Scopes : Resolve(l, sc)
  <2>1. PICK sc \in Scopes : Resolve(l, sc)
    BY <1>1
  <2>2. L.at \notin Gated
    BY <2>1 DEF Resolve, Resting, Gated
  <2>3. PICK r \in Login : login' = [login EXCEPT ![l] = r] /\ r.at \notin Gated /\ r.rotated = 0
    <3>1. CASE grant[sc].active
      <4> DEFINE r == [scope |-> sc, id |-> grant[sc].id, epoch |-> grant[sc].epoch,
                       token |-> 0, rotated |-> 0, at |-> "revalidate"]
      <4>1. login' = [login EXCEPT ![l] = r]
        BY <2>1, <3>1 DEF Resolve, Rest
      <4>2. r \in Login
        BY CustodyAssumption DEF CustodyInv, TypeOK, Row, Login, Places
      <4>3. r.at \notin Gated
        BY DEF Gated
      <4>4. QED
        BY <4>1, <4>2, <4>3
    <3>2. CASE ~grant[sc].active
      BY <2>1, <3>2, RestTyped DEF Resolve, Resting
    <3>3. QED
      BY <3>1, <3>2
  <2>4. QED
    BY <1>0, <2>1, <2>2, <2>3, StaysOut DEF Resolve, custody, external
<1>2. CASE Revalidate(l)
  <2>1. L.at \notin Gated
    BY <1>2 DEF Revalidate, Gated
  <2>2. PICK r \in Login : login' = [login EXCEPT ![l] = r] /\ r.at \notin Gated /\ r.rotated = 0
    <3>1. \A place \in {"select", "lock"} :
             Moved(l, place) => \E r \in Login :
                 login' = [login EXCEPT ![l] = r] /\ r.at \notin Gated /\ r.rotated = 0
      BY <2>1, MovesOutside DEF Places, Gated
    <3>2. Ends(l, "failed") => \E r \in Login :
                 login' = [login EXCEPT ![l] = r] /\ r.at \notin Gated /\ r.rotated = 0
      BY <1>0, RestTyped DEF Ends, Resting
    <3>3. QED
      BY <1>2, <3>1, <3>2 DEF Revalidate
  <2>3. QED
    BY <1>0, <1>2, <2>1, <2>2, StaysOut DEF Revalidate, custody, external
<1>3. CASE Fail(l)
  <2>1. L.at \notin Gated
    BY <1>3 DEF Fail, Gated
  <2>2. QED
    BY <1>0, <1>3, <2>1, RestTyped, StaysOut DEF Fail, Ends, Resting, custody, external
<1>4. CASE TakeLock(l)
  <2>1. L.at \notin Gated
    BY <1>4 DEF TakeLock, Gated
  <2>2. lock' \in [Scopes -> Logins \cup {Nobody}]
    BY <1>0, <1>4 DEF TakeLock
  <2>3. PICK r \in Login : login' = [login EXCEPT ![l] = r] /\ r.at \notin Gated /\ r.rotated = 0
    <3>1. Moved(l, "reserve") => \E r \in Login :
                 login' = [login EXCEPT ![l] = r] /\ r.at \notin Gated /\ r.rotated = 0
      BY <2>1, MovesOutside DEF Places, Gated
    <3>2. Ends(l, "failed") => \E r \in Login :
                 login' = [login EXCEPT ![l] = r] /\ r.at \notin Gated /\ r.rotated = 0
      BY <1>0, RestTyped DEF Ends, Resting
    <3>3. QED
      BY <1>4, <3>1, <3>2 DEF TakeLock
  <2>4. QED
    BY <1>0, <1>4, <2>1, <2>2, <2>3, StaysOut DEF TakeLock, external
<1>5. QED
  BY <1>1, <1>2, <1>3, <1>4


\* The gate is entered when nobody is in it, with the row that was authorized
\* and the token of that row; or the lock is given back.
LEMMA ReserveInv ==
    ASSUME CustodyInv, NEW l \in Logins, Reserve(l)
    PROVE  CustodyInv'
<1> DEFINE L == login[l]
           sc == L.scope
<1>0. /\ L \in Login /\ sc \in Scopes
      /\ lock \in [Scopes -> Logins \cup {Nobody}]
      /\ L.at = "reserve" /\ L.at \notin Gated
  BY DEF CustodyInv, TypeOK, Login, Reserve, Gated
<1>a. L.rotated = 0
  BY <1>0 DEF CustodyInv, Tokens
<1>b. UNCHANGED <<grant, vault, refused, excused>>
  BY DEF Reserve, external
<1>1. CASE /\ writer = Nobody /\ Current(l)
           /\ writer' = l
           /\ login' = [login EXCEPT ![l].at = "mint", ![l].token = grant[sc].token]
           /\ UNCHANGED lock
  <2>1. \A k \in Logins : login[k].at \notin Gated
    BY <1>1, CustodyAssumption DEF CustodyInv, Gate, InGate
  <2>2. grant[sc].token \in 0..MaxToken
    BY <1>0 DEF CustodyInv, TypeOK, Row
  <2> DEFINE r == [L EXCEPT !.at = "mint", !.token = grant[sc].token]
  <2>3. /\ r \in Login
        /\ r.at = "mint" /\ r.scope = sc /\ r.id = L.id /\ r.epoch = L.epoch
        /\ r.token = grant[sc].token /\ r.rotated = 0
    BY <1>0, <1>a, <2>2 DEF Login, Places, Gated
  <2>4. login' = [login EXCEPT ![l] = r]
    BY <1>1
  <2> HIDE DEF r
  <2>5. /\ login'[l] = r
        /\ \A k \in Logins \ {l} : login'[k] = login[k]
    BY <2>4 DEF CustodyInv, TypeOK
  <2>6. TypeOK'
    BY <1>1, <1>b, <2>3, <2>4 DEF CustodyInv, TypeOK
  <2>7. Gate'
    <3>1. \A k \in Logins : login'[k].at \in Gated => k = l
      BY <2>1, <2>5
    <3>2. Current(l)'
      BY <1>1, <1>b, <2>3, <2>5 DEF Current
    <3>3. InGate(l)'
      BY <1>1, <2>3, <2>5, <3>2 DEF InGate
    <3>4. QED
      BY <3>1, <3>3 DEF Gate
  <2>8. excused[sc] \/ grant[sc].token = vault[sc]
    BY <1>0, <1>1 DEF CustodyInv, StoredTokenIsCurrent, Current
  <2>9. TokenKnown(l)'
    BY <1>b, <2>3, <2>5, <2>8 DEF TokenKnown
  <2>10. Tokens'
    <3>1. \A k \in Logins : IF login'[k].at \in Gated THEN TokenKnown(k)'
                            ELSE login'[k].rotated = 0
      <4>1. TAKE k \in Logins
      <4>2. CASE k = l
        BY <2>3, <2>5, <2>9, <4>2 DEF Gated
      <4>3. CASE k # l
        BY <2>1, <2>5, <4>3 DEF CustodyInv, Tokens
      <4>4. QED
        BY <4>2, <4>3
    <3>2. QED
      BY <3>1 DEF Tokens
  <2>11. Rows'
    BY <1>b DEF CustodyInv, Rows, RowAccepted
  <2>12. WriterGated'
    BY <1>1, <2>3, <2>5 DEF WriterGated, Gated
  <2>13. StoredTokenIsCurrent'
    BY <1>1, <1>b DEF CustodyInv, StoredTokenIsCurrent
  <2>14. QED
    BY <2>6, <2>7, <2>10, <2>11, <2>12, <2>13 DEF CustodyInv
<1>2. CASE /\ lock' = [lock EXCEPT ![sc] = Nobody]
           /\ Ends(l, "failed")
           /\ UNCHANGED writer
  <2>1. lock' \in [Scopes -> Logins \cup {Nobody}]
    BY <1>0, <1>2
  <2>2. PICK r \in Login : /\ r = Rest(sc, "failed")
                           /\ r.at \notin Gated /\ r.rotated = 0
    BY <1>0, RestTyped DEF Resting
  <2>3. login' = [login EXCEPT ![l] = r]
    BY <1>2, <2>2 DEF Ends
  <2>4. UNCHANGED <<grant, writer, vault, refused, excused>>
    BY <1>2, <1>b
  <2>5. QED
    BY <1>0, <2>1, <2>2, <2>3, <2>4, StaysOut
<1>3. QED
  BY <1>1, <1>2 DEF Reserve

\* The vault accepts the token, and keeps or replaces it.
LEMMA MintAcceptedInv ==
    ASSUME CustodyInv, NEW l \in Logins,
           login[l].at = "mint",
           grant[login[l].scope].epoch < MaxEpoch,
           \/ /\ Replaces(login[l].scope)
              /\ login' = [login EXCEPT ![l].at = "sync",
                                       ![l].rotated = vault[login[l].scope] + 1]
           \/ UNCHANGED vault /\ Moved(l, "sync"),
           UNCHANGED <<custody, refused, excused>>
    PROVE  CustodyInv'
<1> DEFINE L == login[l]
           sc == L.scope
<1>0. /\ L \in Login /\ sc \in Scopes /\ L.at \in Gated
      /\ vault \in [Scopes -> 0..MaxToken]
      /\ \A x \in Scopes : vault[x] \in 0..MaxToken
      /\ TokenKnown(l) /\ RowAccepted(sc)
  BY DEF CustodyInv, TypeOK, Login, Gated, Tokens, Rows
<1>1. L.rotated = 0 /\ L.token = grant[sc].token /\ (excused[sc] \/ L.token = vault[sc])
  BY <1>0 DEF TokenKnown
<1>2. CASE /\ Replaces(sc)
           /\ login' = [login EXCEPT ![l].at = "sync", ![l].rotated = vault[sc] + 1]
  <2> DEFINE new == vault[sc] + 1
             r == [L EXCEPT !.at = "sync", !.rotated = new]
  <2>0. vault[sc] + 1 \in 0..MaxToken
    BY <1>0, <1>2, CustodyAssumption DEF Replaces
  <2>2. /\ r \in Login
        /\ r.at = "sync" /\ r.scope = sc /\ r.id = L.id /\ r.epoch = L.epoch
        /\ r.token = L.token /\ r.rotated = new
    <3>1. new \in 0..MaxToken
      BY <2>0
    <3> HIDE DEF new
    <3>2. QED
      BY <1>0, <3>1 DEF Login, Places, Gated
  <2>3. login' = [login EXCEPT ![l] = r]
    BY <1>2
  <2>1. new # 0
    BY <1>0, CustodyAssumption
  <2> HIDE DEF r
  <2>4. login'[l] = r
    BY <2>3 DEF CustodyInv, TypeOK
  <2>5. /\ vault' \in [Scopes -> 0..MaxToken]
        /\ vault'[sc] = vault[sc] + 1
        /\ \A x \in Scopes \ {sc} : vault'[x] = vault[x]
    BY <1>0, <1>2, <2>0 DEF Replaces
  <2>6. \A x \in Scopes : vault[x] <= vault'[x]
    BY <1>0, <2>5, CustodyAssumption
  <2>7. vault[sc] + 1 \notin refused[sc]
    BY <1>0, CustodyAssumption DEF RowAccepted, CustodyInv, TypeOK
  <2>8. TokenKnown(l)'
    <3>1. /\ login'[l].rotated = vault'[sc] /\ login'[l].rotated # 0
          /\ login'[l].scope = sc /\ login'[l].at = "sync"
          /\ vault'[sc] <= vault'[sc] /\ vault'[sc] \notin refused'[sc]
      BY <1>0, <2>0, <2>1, <2>2, <2>4, <2>5, <2>7
    <3>2. QED
      BY <3>1 DEF TokenKnown
  <2>9. QED
    BY <1>0, <2>2, <2>3, <2>5, <2>6, <2>8, StaysIn DEF Gated, custody
<1>3. CASE UNCHANGED vault /\ Moved(l, "sync")
  <2> DEFINE r == [L EXCEPT !.at = "sync"]
  <2>1. /\ r \in Login
        /\ r.at = "sync" /\ r.scope = sc /\ r.id = L.id /\ r.epoch = L.epoch
        /\ r.token = L.token /\ r.rotated = 0
        /\ login' = [login EXCEPT ![l] = r]
    BY <1>1, <1>3, MovedRecord DEF Places, Gated
  <2> HIDE DEF r
  <2>2. login'[l] = r
    BY <2>1 DEF CustodyInv, TypeOK
  <2>3. TokenKnown(l)'
    BY <1>1, <1>3, <2>1, <2>2 DEF TokenKnown, custody
  <2>4. \A x \in Scopes : vault[x] <= vault'[x] /\ vault'[x] = vault[x]
    BY <1>0, <1>3, CustodyAssumption
  <2>5. QED
    BY <1>0, <1>3, <2>1, <2>3, <2>4, StaysIn DEF Gated, custody
<1>4. QED
  BY <1>2, <1>3

\* The grant ends, with or without a refusal of the login's token.
LEMMA InvalidateInv ==
    ASSUME CustodyInv, NEW l \in Logins, login[l].at \in Gated,
           grant[login[l].scope].epoch < MaxEpoch,
           Invalidate(l),
           \/ Replaces(login[l].scope)
           \/ UNCHANGED vault,
           \/ UNCHANGED refused
           \/ /\ login[l].rotated = 0
              /\ refused' = [refused EXCEPT ![login[l].scope] = @ \cup {login[l].token}],
           UNCHANGED excused
    PROVE  CustodyInv'
<1> DEFINE L == login[l]
           sc == L.scope
           ended == [id |-> grant[sc].id, epoch |-> grant[sc].epoch + 1,
                     active |-> FALSE, token |-> 0]
<1>1. /\ L \in Login /\ sc \in Scopes /\ L.token \in 0..MaxToken
      /\ grant \in [Scopes -> Row] /\ grant[sc] \in Row
      /\ vault \in [Scopes -> 0..MaxToken] /\ vault[sc] \in 0..MaxToken
      /\ refused \in [Scopes -> SUBSET (0..MaxToken)]
      /\ TokenKnown(l) /\ RowAccepted(sc)
  BY DEF CustodyInv, TypeOK, Login, Tokens, Rows
<1>2. /\ ended \in Row
      /\ grant' = [grant EXCEPT ![sc] = ended]
  BY <1>1, CustodyAssumption DEF Row, Invalidate
<1>3. /\ grant' \in [Scopes -> Row]
      /\ grant'[sc] = ended
      /\ \A x \in Scopes \ {sc} : grant'[x] = grant[x]
  BY <1>1, <1>2
<1>4. /\ vault' \in [Scopes -> 0..MaxToken]
      /\ vault[sc] <= vault'[sc]
      /\ \A x \in Scopes \ {sc} : vault'[x] = vault[x]
  BY <1>1, CustodyAssumption DEF Replaces
<1>5. /\ refused' \in [Scopes -> SUBSET (0..MaxToken)]
      /\ \A x \in Scopes \ {sc} : refused'[x] = refused[x]
      /\ \A t \in refused'[sc] : t \in refused[sc] \/ (L.rotated = 0 /\ t = L.token)
  BY <1>1
<1>6. \A x \in Scopes : x = sc => RowAccepted(x)'
  <2>1. \A t \in refused'[sc] : t <= vault[sc]
    BY <1>1, <1>5 DEF RowAccepted, TokenKnown
  <2>2. \A t \in refused'[sc] : t \in Nat
    BY <1>1, <1>5
  <2>3. vault[sc] \in Nat /\ vault'[sc] \in Nat
    BY <1>1, <1>4
  <2>4. /\ grant'[sc].token <= vault'[sc]
        /\ ~grant'[sc].active
        /\ \A t \in refused'[sc] : t <= vault'[sc]
    BY <1>3, <1>4, <2>1, <2>2, <2>3
  <2>5. QED
    BY <2>4 DEF RowAccepted
<1>7. /\ Rest(sc, "failed") \in Login
      /\ Rest(sc, "failed").at \notin Gated
      /\ Rest(sc, "failed").rotated = 0
      /\ login' = [login EXCEPT ![l] = Rest(sc, "failed")]
      /\ Release(l)
  BY <1>1, RestTyped DEF Invalidate, Ends, Resting
<1>8. excused' \in [Scopes -> BOOLEAN]
  BY DEF CustodyInv, TypeOK
<1>9. ~grant'[sc].active
  BY <1>3
<1> HIDE DEF L, sc, ended
<1>10. QED
  BY <1>3, <1>4, <1>5, <1>6, <1>7, <1>8, <1>9, Leaves DEF L, sc

\* The login ends without writing the row, which is excused when the vault has
\* replaced the token.
LEMMA RollbackInv ==
    ASSUME CustodyInv, NEW l \in Logins, login[l].at \in Gated,
           Release(l), Ends(l, "failed"), UNCHANGED <<grant, refused>>,
           \/ /\ UNCHANGED vault
              /\ excused' = [excused EXCEPT ![login[l].scope] =
                                @ \/ login[l].rotated # 0]
           \/ /\ Replaces(login[l].scope)
              /\ excused' = [excused EXCEPT ![login[l].scope] = TRUE]
    PROVE  CustodyInv'
<1> DEFINE L == login[l]
           sc == L.scope
<1>1. /\ L \in Login /\ sc \in Scopes
      /\ grant \in [Scopes -> Row] /\ grant[sc].token \in Nat
      /\ vault \in [Scopes -> 0..MaxToken] /\ vault[sc] \in 0..MaxToken
      /\ refused \in [Scopes -> SUBSET (0..MaxToken)]
      /\ excused \in [Scopes -> BOOLEAN]
      /\ TokenKnown(l) /\ RowAccepted(sc)
  BY CustodyAssumption DEF CustodyInv, TypeOK, Row, Login, Tokens, Rows
<1>2. /\ vault' \in [Scopes -> 0..MaxToken]
      /\ vault[sc] <= vault'[sc]
      /\ \A x \in Scopes \ {sc} : vault'[x] = vault[x]
  BY <1>1, CustodyAssumption DEF Replaces
<1>3. /\ excused' \in [Scopes -> BOOLEAN]
      /\ \A x \in Scopes \ {sc} : excused'[x] = excused[x]
      /\ ~excused'[sc] => ~excused[sc] /\ L.rotated = 0 /\ vault' = vault
  BY <1>1
<1>4. ~excused'[sc] => grant'[sc].token = vault'[sc]
  BY <1>1, <1>3 DEF TokenKnown
<1>5. \A x \in Scopes : x = sc => RowAccepted(x)'
  <2>1. /\ vault[sc] \in Nat /\ vault'[sc] \in Nat
        /\ \A t \in refused[sc] : t \in Nat
    BY <1>1, <1>2
  <2>2. QED
    BY <1>1, <1>2, <2>1 DEF RowAccepted
<1>6. /\ Rest(sc, "failed") \in Login
      /\ Rest(sc, "failed").at \notin Gated
      /\ Rest(sc, "failed").rotated = 0
      /\ login' = [login EXCEPT ![l] = Rest(sc, "failed")]
  BY <1>1, RestTyped DEF Ends, Resting
<1> HIDE DEF L, sc
<1>7. QED
  BY <1>1, <1>2, <1>3, <1>4, <1>5, <1>6, Leaves DEF L, sc

\* The vault accepts, replaces or refuses the stored token.
LEMMA MintInv ==
    ASSUME CustodyInv, NEW l \in Logins, Mint(l)
    PROVE  CustodyInv'
<1> DEFINE sc == login[l].scope
<1>1. /\ login[l].at = "mint" /\ login[l].at \in Gated
      /\ grant[sc].epoch < MaxEpoch
      /\ sc \in Scopes
  BY DEF Mint, Gated, CustodyInv, TypeOK, Login
<1>2. login[l].rotated = 0
  BY <1>1 DEF CustodyInv, Tokens, TokenKnown
<1>3. CASE /\ \/ /\ Replaces(sc)
                 /\ login' = [login EXCEPT ![l].at = "sync", ![l].rotated = vault[sc] + 1]
              \/ UNCHANGED vault /\ Moved(l, "sync")
           /\ UNCHANGED <<custody, refused, excused>>
  BY <1>1, <1>3, MintAcceptedInv
<1>4. CASE /\ Invalidate(l)
           /\ refused' = [refused EXCEPT ![sc] = @ \cup {login[l].token}]
           /\ UNCHANGED <<vault, excused>>
  BY <1>1, <1>2, <1>4, InvalidateInv
<1>5. CASE /\ Invalidate(l)
           /\ Replaces(sc) \/ UNCHANGED vault
           /\ UNCHANGED <<refused, excused>>
  BY <1>1, <1>5, InvalidateInv
<1>6. CASE /\ Replaces(sc)
           /\ excused' = [excused EXCEPT ![sc] = TRUE]
           /\ Release(l)
           /\ Ends(l, "failed")
           /\ UNCHANGED <<grant, refused>>
  BY <1>1, <1>6, RollbackInv
<1>7. QED
  BY <1>3, <1>4, <1>5, <1>6 DEF Mint

\* The vault is read with the token that was accepted.
LEMMA SyncInv ==
    ASSUME CustodyInv, NEW l \in Logins, Sync(l)
    PROVE  CustodyInv'
<1> DEFINE L == login[l]
<1>1. /\ L.at = "sync" /\ L.at \in Gated
      /\ vault \in [Scopes -> 0..MaxToken]
      /\ UNCHANGED <<vault, refused, excused>>
  BY DEF Sync, Gated, CustodyInv, TypeOK, external
<1>2. grant[L.scope].epoch < MaxEpoch /\ TokenKnown(l)
  BY <1>1 DEF CustodyInv, Gate, InGate, Tokens
<1>3. CASE Moved(l, "store") /\ UNCHANGED custody
  <2> DEFINE r == [L EXCEPT !.at = "store"]
  <2>1. /\ r \in Login
        /\ r.at = "store" /\ r.scope = L.scope /\ r.id = L.id /\ r.epoch = L.epoch
        /\ r.token = L.token /\ r.rotated = L.rotated
        /\ login' = [login EXCEPT ![l] = r]
    BY <1>3, MovedRecord DEF Places, Gated
  <2> HIDE DEF r
  <2>2. login'[l] = r
    BY <2>1 DEF CustodyInv, TypeOK
  <2>3. TokenKnown(l)'
    BY <1>1, <1>2, <1>3, <2>1, <2>2 DEF TokenKnown, custody
  <2>4. \A x \in Scopes : vault[x] <= vault'[x] /\ vault'[x] = vault[x]
    BY <1>1, CustodyAssumption
  <2>5. QED
    BY <1>1, <1>2, <1>3, <2>1, <2>3, <2>4, StaysIn DEF Gated, custody
<1>4. CASE Invalidate(l)
  BY <1>1, <1>2, <1>4, InvalidateInv
<1>5. QED
  BY <1>3, <1>4 DEF Sync

\* The lease takes the replaced token over; nothing else happens.
LEMMA StoreInv ==
    ASSUME CustodyInv, NEW l \in Logins, Store(l)
    PROVE  CustodyInv'
<1> DEFINE L == login[l]
           new == IF L.rotated # 0 THEN L.rotated ELSE L.token
           r == [L EXCEPT !.at = "decrypt", !.token = new]
<1>1. /\ L.at = "store" /\ L.at \in Gated /\ L \in Login
      /\ vault \in [Scopes -> 0..MaxToken]
      /\ UNCHANGED <<vault, refused, excused, grant, lock, writer>>
  BY DEF Store, Gated, CustodyInv, TypeOK, external, custody
<1>2. grant[L.scope].epoch < MaxEpoch /\ TokenKnown(l)
  BY <1>1 DEF CustodyInv, Gate, InGate, Tokens
<1>3. new \in 0..MaxToken
  BY <1>1 DEF Login
<1>4. login' = [login EXCEPT ![l] = r]
  BY DEF Store
<1>5. /\ L.rotated # 0 => new = L.rotated
      /\ L.rotated = 0 => new = L.token
  OBVIOUS
<1> HIDE DEF new
<1>6. /\ r \in Login
      /\ r.at = "decrypt" /\ r.scope = L.scope /\ r.id = L.id /\ r.epoch = L.epoch
      /\ r.token = new /\ r.rotated = L.rotated
  BY <1>1, <1>3 DEF Login, Places, Gated
<1> HIDE DEF r
<1>7. login'[l] = r
  BY <1>4 DEF CustodyInv, TypeOK
<1>8. TokenKnown(l)'
  BY <1>1, <1>2, <1>5, <1>6, <1>7 DEF TokenKnown
<1>9. \A x \in Scopes : vault[x] <= vault'[x] /\ vault'[x] = vault[x]
  BY <1>1, CustodyAssumption
<1>10. QED
  BY <1>1, <1>2, <1>4, <1>6, <1>8, <1>9, StaysIn DEF Gated

\* The decrypted login works on the browser.
LEMMA UseInv ==
    ASSUME CustodyInv, NEW l \in Logins, Use(l)
    PROVE  CustodyInv'
<1> DEFINE L == login[l]
           r == [L EXCEPT !.at = "use"]
<1>1. /\ L.at = "decrypt" /\ L.at \in Gated
      /\ vault \in [Scopes -> 0..MaxToken]
      /\ UNCHANGED <<vault, refused, excused, grant, lock, writer>>
  BY DEF Use, Gated, CustodyInv, TypeOK, external, custody
<1>2. grant[L.scope].epoch < MaxEpoch /\ TokenKnown(l)
  BY <1>1 DEF CustodyInv, Gate, InGate, Tokens
<1>3. /\ r \in Login
      /\ r.at = "use" /\ r.scope = L.scope /\ r.id = L.id /\ r.epoch = L.epoch
      /\ r.token = L.token /\ r.rotated = L.rotated
      /\ login' = [login EXCEPT ![l] = r]
  BY MovedRecord DEF Use, Places, Gated
<1> HIDE DEF r
<1>4. login'[l] = r
  BY <1>3 DEF CustodyInv, TypeOK
<1>5. TokenKnown(l)'
  BY <1>1, <1>2, <1>3, <1>4 DEF TokenKnown
<1>6. \A x \in Scopes : vault[x] <= vault'[x] /\ vault'[x] = vault[x]
  BY <1>1, CustodyAssumption
<1>7. QED
  BY <1>1, <1>2, <1>3, <1>5, <1>6, StaysIn DEF Gated

\* The row receives the lease's token: its own, or the one that replaced it.
LEMMA CommitInv ==
    ASSUME CustodyInv, NEW l \in Logins, Commit(l)
    PROVE  CustodyInv'
<1> DEFINE L == login[l]
           sc == L.scope
           row == [grant[sc] EXCEPT !.token = L.token]
<1>1. /\ L.at = "use" /\ L.at \in Gated /\ L \in Login /\ sc \in Scopes
      /\ L.token \in 0..MaxToken /\ L.token \in Nat
      /\ UNCHANGED <<vault, refused, excused>>
      /\ grant \in [Scopes -> Row] /\ grant[sc] \in Row
      /\ vault \in [Scopes -> 0..MaxToken]
      /\ refused \in [Scopes -> SUBSET (0..MaxToken)]
      /\ excused \in [Scopes -> BOOLEAN]
  BY CustodyAssumption DEF Commit, Gated, CustodyInv, TypeOK, Login, external
<1>2. TokenKnown(l) /\ RowAccepted(sc) /\ grant[sc].active
  BY <1>1 DEF CustodyInv, Gate, InGate, Current, Tokens, Rows
<1>3. row \in Row /\ row.token = L.token
  BY <1>1 DEF Row
<1>4. /\ grant' \in [Scopes -> Row]
      /\ grant'[sc].token = L.token
      /\ \A x \in Scopes \ {sc} : grant'[x] = grant[x]
  BY <1>1, <1>3 DEF Commit
<1>5. /\ L.token <= vault[sc] /\ L.token \notin refused[sc]
      /\ excused[sc] \/ L.token = vault[sc]
  BY <1>1, <1>2 DEF TokenKnown, RowAccepted
<1>6. \A x \in Scopes : x = sc => RowAccepted(x)'
  BY <1>1, <1>2, <1>4, <1>5 DEF RowAccepted
<1>7. grant'[sc].active /\ ~excused'[sc] => grant'[sc].token = vault'[sc]
  BY <1>1, <1>4, <1>5
<1>8. /\ Rest(sc, "ok") \in Login
      /\ Rest(sc, "ok").at \notin Gated
      /\ Rest(sc, "ok").rotated = 0
      /\ login' = [login EXCEPT ![l] = Rest(sc, "ok")]
      /\ Release(l)
  BY <1>1, RestTyped DEF Commit, Ends, Resting
<1> HIDE DEF L, sc, row
<1>9. QED
  BY <1>1, <1>4, <1>6, <1>7, <1>8, Leaves DEF L, sc

\* A step raises: everything since the reservation is rolled back.
LEMMA AbortInv ==
    ASSUME CustodyInv, NEW l \in Logins, Abort(l)
    PROVE  CustodyInv'
BY RollbackInv DEF Abort, external

-----------------------------------------------------------------------------
(* The steps of everybody else.                                             *)

\* With the reservation free nobody is in the gate, and a row may be written.
LEMMA RowWritten ==
    ASSUME CustodyInv, writer = Nobody, NEW sc \in Scopes,
           UNCHANGED <<lock, writer, login, refused>>,
           grant' \in [Scopes -> Row],
           vault' \in [Scopes -> 0..MaxToken],
           excused' \in [Scopes -> BOOLEAN],
           \A x \in Scopes \ {sc} :
               /\ grant'[x] = grant[x] /\ vault'[x] = vault[x]
               /\ excused'[x] = excused[x],
           RowAccepted(sc)',
           grant'[sc].active /\ ~excused'[sc] => grant'[sc].token = vault'[sc]
    PROVE  CustodyInv'
<1>1. \A l \in Logins : login[l].at \notin Gated
  BY CustodyAssumption DEF CustodyInv, Gate, InGate
<1>2. TypeOK'
  BY DEF CustodyInv, TypeOK
<1>3. Gate' /\ WriterGated'
  BY <1>1 DEF CustodyInv, Gate, WriterGated
<1>4. Tokens'
  BY <1>1 DEF CustodyInv, Tokens
<1>5. Rows'
  <2>1. SUFFICES ASSUME NEW x \in Scopes PROVE RowAccepted(x)'
    BY DEF Rows
  <2>2. CASE x = sc
    BY <2>2
  <2>3. CASE x # sc
    BY <2>3 DEF CustodyInv, Rows, RowAccepted
  <2>4. QED
    BY <2>2, <2>3
<1>6. StoredTokenIsCurrent'
  <2>1. SUFFICES ASSUME NEW x \in Scopes, grant'[x].active, ~excused'[x]
                 PROVE  grant'[x].token = vault'[x]
    BY DEF StoredTokenIsCurrent
  <2>2. CASE x = sc
    BY <2>1, <2>2
  <2>3. CASE x # sc
    BY <2>1, <2>3 DEF CustodyInv, StoredTokenIsCurrent
  <2>4. QED
    BY <2>2, <2>3
<1>7. QED
  BY <1>2, <1>3, <1>4, <1>5, <1>6 DEF CustodyInv

\* A revocation, which needs the reservation.
LEMMA RevokeInv ==
    ASSUME CustodyInv, NEW sc \in Scopes, Revoke(sc)
    PROVE  CustodyInv'
<1> DEFINE ended == [id |-> grant[sc].id, epoch |-> grant[sc].epoch + 1,
                     active |-> FALSE, token |-> 0]
<1>1. /\ grant \in [Scopes -> Row] /\ grant[sc] \in Row
      /\ vault \in [Scopes -> 0..MaxToken] /\ vault[sc] \in Nat
      /\ excused \in [Scopes -> BOOLEAN]
      /\ RowAccepted(sc)
  BY CustodyAssumption DEF CustodyInv, TypeOK, Rows
<1>2. /\ ended \in Row
      /\ grant' = [grant EXCEPT ![sc] = ended]
      /\ ~ended.active /\ ended.token = 0
  BY <1>1, CustodyAssumption DEF Row, Revoke
<1>3. UNCHANGED <<lock, writer, login, vault, refused, excused>> /\ writer = Nobody
  BY DEF Revoke, external
<1> HIDE DEF ended
<1>4. /\ grant' \in [Scopes -> Row]
      /\ ~grant'[sc].active /\ grant'[sc].token = 0
      /\ \A x \in Scopes \ {sc} : grant'[x] = grant[x]
  BY <1>1, <1>2
<1>5. RowAccepted(sc)'
  BY <1>1, <1>3, <1>4 DEF RowAccepted
<1>6. QED
  BY <1>1, <1>3, <1>4, <1>5, RowWritten

\* A new grant replaces the one before, under the reservation.
LEMMA ProvisionInv ==
    ASSUME CustodyInv, NEW sc \in Scopes, Provision(sc)
    PROVE  CustodyInv'
<1> DEFINE new == vault[sc] + 1
           row == [id |-> grant[sc].epoch + 1, epoch |-> grant[sc].epoch + 1,
                   active |-> TRUE, token |-> new]
<1>1. /\ grant \in [Scopes -> Row] /\ grant[sc] \in Row
      /\ vault \in [Scopes -> 0..MaxToken] /\ vault[sc] \in 0..MaxToken
      /\ refused \in [Scopes -> SUBSET (0..MaxToken)]
      /\ excused \in [Scopes -> BOOLEAN]
      /\ RowAccepted(sc)
  BY DEF CustodyInv, TypeOK, Rows
<1>2. new \in 0..MaxToken /\ vault' = [vault EXCEPT ![sc] = new]
  BY <1>1, CustodyAssumption DEF Provision, Replaces
<1>3. /\ row \in Row
      /\ grant' = [grant EXCEPT ![sc] = row]
      /\ row.token = new
  BY <1>1, <1>2, CustodyAssumption DEF Row, Provision
<1>4. /\ excused' = [excused EXCEPT ![sc] = FALSE]
      /\ UNCHANGED <<lock, writer, login, refused>>
      /\ writer = Nobody
  BY DEF Provision
<1>5. /\ new \notin refused[sc]
      /\ \A t \in refused[sc] : t <= new
      /\ new <= new
  BY <1>1, CustodyAssumption DEF RowAccepted
<1> HIDE DEF row, new
<1>6. /\ grant' \in [Scopes -> Row] /\ vault' \in [Scopes -> 0..MaxToken]
      /\ excused' \in [Scopes -> BOOLEAN]
      /\ grant'[sc].token = new /\ vault'[sc] = new
      /\ \A x \in Scopes \ {sc} : /\ grant'[x] = grant[x] /\ vault'[x] = vault[x]
                                  /\ excused'[x] = excused[x]
  BY <1>1, <1>2, <1>3, <1>4
<1>7. RowAccepted(sc)'
  BY <1>4, <1>5, <1>6 DEF RowAccepted
<1>8. QED
  BY <1>4, <1>6, <1>7, RowWritten

\* The vault moves on by itself, also under a login in the gate: its row is
\* excused from then on.
LEMMA VaultEndsInv ==
    ASSUME CustodyInv, NEW sc \in Scopes, VaultEnds(sc)
    PROVE  CustodyInv'
<1>1. /\ vault \in [Scopes -> 0..MaxToken] /\ vault[sc] \in 0..MaxToken
      /\ \A x \in Scopes : vault[x] \in Nat /\ grant[x].token \in Nat
      /\ \A x \in Scopes : \A t \in refused[x] : t \in Nat
      /\ \A l \in Logins : login[l].scope \in Scopes /\ login[l].rotated \in Nat
      /\ excused \in [Scopes -> BOOLEAN]
  BY CustodyAssumption DEF CustodyInv, TypeOK, Login, Row
<1>2. UNCHANGED <<grant, lock, writer, login, refused>>
  BY DEF VaultEnds, custody
<1>3. /\ vault' \in [Scopes -> 0..MaxToken]
      /\ \A x \in Scopes : vault'[x] \in Nat /\ vault[x] <= vault'[x]
      /\ \A x \in Scopes : vault'[x] = vault[x] \/ excused'[x]
      /\ excused' \in [Scopes -> BOOLEAN]
      /\ \A x \in Scopes : excused[x] => excused'[x]
  BY <1>1, CustodyAssumption DEF VaultEnds, Replaces
<1>4. TypeOK'
  BY <1>2, <1>3 DEF CustodyInv, TypeOK
<1>5. Gate' /\ WriterGated'
  BY <1>2 DEF CustodyInv, Gate, InGate, Current, WriterGated
<1>6. Tokens'
  <2>1. SUFFICES ASSUME NEW l \in Logins, login[l].at \in Gated
                 PROVE  TokenKnown(l)'
    BY <1>2 DEF CustodyInv, Tokens
  <2>2. TokenKnown(l)
    BY <2>1 DEF CustodyInv, Tokens
  <2>3. QED
    BY <1>1, <1>2, <1>3, <2>2 DEF TokenKnown
<1>7. Rows'
  BY <1>1, <1>2, <1>3 DEF CustodyInv, Rows, RowAccepted
<1>8. StoredTokenIsCurrent'
  BY <1>2, <1>3 DEF CustodyInv, StoredTokenIsCurrent
<1>9. QED
  BY <1>4, <1>5, <1>6, <1>7, <1>8 DEF CustodyInv

\* A crash rolls back the one open transaction: the rows stay, and a row whose
\* token the vault had replaced is excused.
LEMMA CrashInv ==
    ASSUME CustodyInv, Crash
    PROVE  CustodyInv'
<1>1. \A l \in Logins : login[l].scope \in Scopes
  BY DEF CustodyInv, TypeOK, Login
<1>2. \A l \in Logins : /\ login'[l] \in Login
                        /\ login'[l].at \notin Gated
                        /\ login'[l].rotated = 0
  BY <1>1, RestTyped DEF Crash, Resting
<1>3. UNCHANGED <<grant, vault, refused>> /\ writer' = Nobody
  BY DEF Crash, external
<1>4. \A sc \in Scopes : /\ excused'[sc] \in BOOLEAN
                         /\ ~excused'[sc] => /\ ~excused[sc]
                                             /\ \A l \in Logins : login[l].scope = sc =>
                                                                 login[l].rotated = 0
  BY DEF Crash, CustodyInv, TypeOK
<1>5. TypeOK'
  <2>1. login' \in [Logins -> Login]
    BY <1>2 DEF Crash
  <2>2. excused' \in [Scopes -> BOOLEAN]
    BY <1>4 DEF Crash
  <2>3. lock' \in [Scopes -> Logins \cup {Nobody}]
    BY DEF Crash
  <2>4. QED
    BY <1>3, <2>1, <2>2, <2>3 DEF CustodyInv, TypeOK
<1>6. Gate' /\ Tokens' /\ WriterGated'
  BY <1>2, <1>3 DEF Gate, Tokens, WriterGated
<1>7. Rows'
  BY <1>3 DEF CustodyInv, Rows, RowAccepted
<1>8. StoredTokenIsCurrent'
  <2>1. SUFFICES ASSUME NEW sc \in Scopes, grant[sc].active, ~excused'[sc]
                 PROVE  grant[sc].token = vault[sc]
    BY <1>3 DEF StoredTokenIsCurrent
  <2>2. ~excused[sc]
    BY <1>4, <2>1
  <2>3. CASE writer = Nobody \/ login[writer].scope # sc
    BY <2>1, <2>2, <2>3 DEF CustodyInv, StoredTokenIsCurrent
  <2>4. CASE writer # Nobody /\ login[writer].scope = sc
    <3>1. writer \in Logins /\ login[writer].at \in Gated
      BY <2>4 DEF CustodyInv, TypeOK, WriterGated
    <3>2. login[writer].rotated = 0
      BY <1>4, <2>1, <2>4, <3>1
    <3>3. QED
      BY <2>2, <2>4, <3>1, <3>2 DEF CustodyInv, Tokens, TokenKnown
  <2>5. QED
    BY <2>3, <2>4
<1>9. QED
  BY <1>5, <1>6, <1>7, <1>8 DEF CustodyInv

-----------------------------------------------------------------------------
(* The theorems.                                                            *)

\* No grant has been provisioned.
LEMMA CustodyInit == Init => CustodyInv
<1> SUFFICES ASSUME Init PROVE CustodyInv
  OBVIOUS
<1>1. PICK s \in Scopes : login = [l \in Logins |-> Rest(s, "idle")]
  BY DEF Init
<1>2. \A l \in Logins : login[l] = [scope |-> s, id |-> 0, epoch |-> 0, token |-> 0,
                                    rotated |-> 0, at |-> "idle"]
  BY <1>1 DEF Rest
<1>3. \A l \in Logins : /\ login[l] \in Login /\ login[l].rotated = 0
                        /\ login[l].at \notin Gated
  BY <1>2, CustodyAssumption DEF Login, Places, Resting, Gated
<1>4. \A sc \in Scopes : /\ grant[sc] = NoRow /\ vault[sc] = 0 /\ refused[sc] = {}
                         /\ excused[sc] = FALSE
  BY DEF Init
<1>5. NoRow \in Row /\ NoRow.token = 0 /\ ~NoRow.active
  BY CustodyAssumption DEF NoRow, Row
<1>6. TypeOK
  BY <1>1, <1>3, <1>5, CustodyAssumption DEF Init, TypeOK
<1>7. Gate /\ Tokens /\ WriterGated
  BY <1>3 DEF Init, Gate, Tokens, WriterGated
<1>8. Rows /\ StoredTokenIsCurrent
  BY <1>4, <1>5 DEF Rows, RowAccepted, StoredTokenIsCurrent
<1>9. QED
  BY <1>6, <1>7, <1>8 DEF CustodyInv

\* Every step of logins, owners, vault and crashes.
LEMMA CustodyStep == CustodyInv /\ [Next]_vars => CustodyInv'
<1> SUFFICES ASSUME CustodyInv, [Next]_vars PROVE CustodyInv'
  OBVIOUS
<1>1. CASE \E l \in Logins : LoginStep(l) \/ \E sc \in Scopes : Resolve(l, sc)
  <2>1. PICK l \in Logins : LoginStep(l) \/ \E sc \in Scopes : Resolve(l, sc)
    BY <1>1
  <2>2. CASE \/ Revalidate(l) \/ Fail(l) \/ TakeLock(l)
             \/ \E sc \in Scopes : Resolve(l, sc)
    BY <2>2, BeforeGate
  <2>3. CASE Reserve(l)
    BY <2>3, ReserveInv
  <2>4. CASE Mint(l)
    BY <2>4, MintInv
  <2>5. CASE Sync(l)
    BY <2>5, SyncInv
  <2>6. CASE Store(l)
    BY <2>6, StoreInv
  <2>7. CASE Use(l)
    BY <2>7, UseInv
  <2>8. CASE Commit(l)
    BY <2>8, CommitInv
  <2>9. CASE Abort(l)
    BY <2>9, AbortInv
  <2>10. QED
    BY <2>1, <2>2, <2>3, <2>4, <2>5, <2>6, <2>7, <2>8, <2>9 DEF LoginStep
<1>2. CASE \E sc \in Scopes : Revoke(sc) \/ Provision(sc) \/ VaultEnds(sc)
  BY <1>2, RevokeInv, ProvisionInv, VaultEndsInv
<1>3. CASE Crash
  BY <1>3, CrashInv
<1>4. CASE UNCHANGED vars
  BY <1>4 DEF vars, custody, external, CustodyInv, TypeOK, Gate, InGate, Current, Tokens,
              TokenKnown, Rows, RowAccepted, WriterGated, StoredTokenIsCurrent
<1>5. QED
  BY <1>1, <1>2, <1>3, <1>4 DEF Next

\* The invariant of custody.
LEMMA CustodyInvariant == Spec => []CustodyInv
BY CustodyInit, CustodyStep, PTL DEF Spec

-----------------------------------------------------------------------------
(* Who has the lock of a scope: exactly the login between TakeLock and the   *)
(* end of authorized_operation.                                             *)
Holding == Gated \cup {"reserve"}
Holds(l, sc) == login[l].scope = sc /\ login[l].at \in Holding

LocksOwned == \A sc \in Scopes, l \in Logins : lock[sc] = l <=> Holds(l, sc)

\* One login's record changes, but not what it holds.
LEMMA LocksRest ==
    ASSUME CustodyInv, LocksOwned, NEW l \in Logins, NEW r,
           login' = [login EXCEPT ![l] = r], UNCHANGED lock,
           IF login[l].at \in Holding
           THEN r.scope = login[l].scope /\ r.at \in Holding
           ELSE r.at \notin Holding
    PROVE  LocksOwned'
<1>1. login'[l] = r /\ \A k \in Logins \ {l} : login'[k] = login[k]
  BY DEF CustodyInv, TypeOK
<1>2. \A sc \in Scopes, k \in Logins : Holds(k, sc)' <=> Holds(k, sc)
  BY <1>1 DEF Holds
<1>3. QED
  BY <1>2 DEF LocksOwned

\* A login moves on, on the same side of the lock.
LEMMA LocksRestMoved ==
    ASSUME CustodyInv, LocksOwned, NEW l \in Logins, NEW place \in Places,
           Moved(l, place), UNCHANGED lock,
           login[l].at \in Holding <=> place \in Holding
    PROVE  LocksOwned'
<1> DEFINE r == [login[l] EXCEPT !.at = place]
<1>1. /\ r.at = place /\ r.scope = login[l].scope
      /\ login' = [login EXCEPT ![l] = r]
  BY MovedRecord
<1> HIDE DEF r
<1>2. QED
  BY <1>1, LocksRest

\* A login that ends gives back the lock it holds, and no other.
LEMMA LockFreed ==
    ASSUME CustodyInv, LocksOwned, NEW l \in Logins, NEW place \in Resting,
           login[l].at \in Holding, Ends(l, place),
           lock' = [lock EXCEPT ![login[l].scope] = Nobody]
    PROVE  LocksOwned'
<1>1. login[l].scope \in Scopes /\ lock \in [Scopes -> Logins \cup {Nobody}]
  BY DEF CustodyInv, TypeOK, Login
<1>2. login'[l].at = place /\ \A k \in Logins \ {l} : login'[k] = login[k]
  BY <1>1, RestTyped DEF Ends, CustodyInv, TypeOK
<1>3. place \notin Holding
  BY DEF Resting, Holding, Gated
<1>4. lock[login[l].scope] = l
  BY <1>1 DEF LocksOwned, Holds
<1>5. SUFFICES ASSUME NEW sc \in Scopes, NEW k \in Logins
               PROVE  lock'[sc] = k <=> Holds(k, sc)'
  BY DEF LocksOwned
<1>6. lock[sc] = k <=> Holds(k, sc)
  BY DEF LocksOwned
<1>7. lock'[sc] = IF sc = login[l].scope THEN Nobody ELSE lock[sc]
  BY <1>1
<1>8. k # Nobody
  BY CustodyAssumption
<1>9. CASE k = l
  BY <1>2, <1>3, <1>6, <1>7, <1>8, <1>9 DEF Holds
<1>10. CASE k # l
  <2>1. Holds(k, sc)' <=> Holds(k, sc)
    BY <1>2, <1>10 DEF Holds
  <2>2. QED
    BY <1>4, <1>6, <1>7, <1>8, <1>10, <2>1
<1>11. QED
  BY <1>9, <1>10

\* A login that holds no lock may end.
LEMMA LocksRestEnded ==
    ASSUME CustodyInv, LocksOwned, NEW l \in Logins, NEW place \in Resting,
           login[l].at \notin Holding, Ends(l, place), UNCHANGED lock
    PROVE  LocksOwned'
<1>1. PICK r \in Login : login' = [login EXCEPT ![l] = r] /\ r.at = place
  BY RestTyped DEF Ends, CustodyInv, TypeOK, Login
<1>2. place \notin Holding
  BY DEF Resting, Holding, Gated
<1>3. QED
  BY <1>1, <1>2, LocksRest

\* The steps of a login that does not hold the lock of its scope.
LEMMA OutsideLocks ==
    ASSUME CustodyInv, LocksOwned, NEW l \in Logins,
           \/ Revalidate(l) \/ Fail(l) \/ TakeLock(l)
           \/ \E sc \in Scopes : Resolve(l, sc)
    PROVE  LocksOwned'
<1>1. CASE Revalidate(l)
  <2>1. login[l].at \notin Holding /\ UNCHANGED lock
    BY <1>1 DEF Revalidate, custody, Holding, Gated
  <2>2. Moved(l, "select") \/ Moved(l, "lock") \/ Ends(l, "failed")
    BY <1>1 DEF Revalidate
  <2>3. /\ {"select", "lock"} \subseteq Places \ Holding
        /\ "failed" \in Resting
    BY DEF Places, Resting, Holding, Gated
  <2>4. QED
    BY <2>1, <2>2, <2>3, LocksRestMoved, LocksRestEnded
<1>2. CASE Fail(l)
  <2>1. /\ login[l].at \notin Holding /\ UNCHANGED lock
        /\ Ends(l, "failed") /\ "failed" \in Resting
    BY <1>2 DEF Fail, custody, Holding, Gated, Resting
  <2>2. QED
    BY <2>1, LocksRestEnded
<1>3. CASE TakeLock(l)
  <2>1. login[l].at \notin Holding /\ login[l].scope \in Scopes
    BY <1>3 DEF TakeLock, Holding, Gated, CustodyInv, TypeOK, Login
  <2>2. CASE UNCHANGED lock /\ Ends(l, "failed")
    BY <2>1, <2>2, LocksRestEnded DEF Resting
  <2>3. CASE /\ lock[login[l].scope] = Nobody
             /\ lock' = [lock EXCEPT ![login[l].scope] = l]
             /\ Moved(l, "reserve")
    <3>1. "reserve" \in Places /\ "reserve" \in Holding
      BY DEF Places, Holding
    <3>2. login'[l].at = "reserve" /\ login'[l].scope = login[l].scope
      <4> DEFINE r == [login[l] EXCEPT !.at = "reserve"]
      <4>1. /\ r.at = "reserve" /\ r.scope = login[l].scope
            /\ login' = [login EXCEPT ![l] = r]
        BY <2>3, <3>1, MovedRecord
      <4> HIDE DEF r
      <4>2. QED
        BY <4>1 DEF CustodyInv, TypeOK
    <3>3. \A k \in Logins \ {l} : login'[k] = login[k]
      BY <2>3 DEF Moved, CustodyInv, TypeOK
    <3>4. SUFFICES ASSUME NEW sc \in Scopes, NEW k \in Logins
                   PROVE  lock'[sc] = k <=> Holds(k, sc)'
      BY DEF LocksOwned
    <3>5. lock[sc] = k <=> Holds(k, sc)
      BY DEF LocksOwned
    <3>6. lock'[sc] = IF sc = login[l].scope THEN l ELSE lock[sc]
      BY <2>3 DEF CustodyInv, TypeOK
    <3>7. CASE k = l
      BY <2>1, <3>1, <3>2, <3>5, <3>6, <3>7 DEF Holds
    <3>8. CASE k # l
      <4>1. Holds(k, sc)' <=> Holds(k, sc)
        BY <3>3, <3>8 DEF Holds
      <4>2. k # Nobody
        BY CustodyAssumption
      <4>3. QED
        BY <2>3, <3>5, <3>6, <3>8, <4>1, <4>2
    <3>9. QED
      BY <3>7, <3>8
  <2>4. QED
    BY <1>3, <2>2, <2>3 DEF TakeLock
<1>4. ASSUME NEW sc \in Scopes, Resolve(l, sc) PROVE LocksOwned'
  <2>1. login[l].at \notin Holding /\ UNCHANGED lock
    BY <1>4 DEF Resolve, custody, Resting, Holding, Gated
  <2>2. \E r : /\ login' = [login EXCEPT ![l] = r]
               /\ r.at = "revalidate" \/ r.at = "failed"
    <3>1. CASE grant[sc].active
      <4> DEFINE r == [Rest(sc, "revalidate") EXCEPT !.id = grant[sc].id,
                                                     !.epoch = grant[sc].epoch]
      <4>1. login' = [login EXCEPT ![l] = r]
        BY <1>4, <3>1 DEF Resolve
      <4>2. r.at = "revalidate"
        BY DEF Rest
      <4> HIDE DEF r
      <4>3. QED
        BY <4>1, <4>2
    <3>2. CASE ~grant[sc].active
      <4>1. login' = [login EXCEPT ![l] = Rest(sc, "failed")]
        BY <1>4, <3>2 DEF Resolve
      <4>2. Rest(sc, "failed").at = "failed"
        BY DEF Rest
      <4>3. QED
        BY <4>1, <4>2
    <3>3. QED
      BY <3>1, <3>2
  <2>3. PICK r : login' = [login EXCEPT ![l] = r] /\ r.at \notin Holding
    BY <2>2 DEF Holding, Gated
  <2>4. QED
    BY <2>1, <2>3, LocksRest
<1>5. QED
  BY <1>1, <1>2, <1>3, <1>4

\* The steps of a login that holds it.
LEMMA InsideLocks ==
    ASSUME CustodyInv, LocksOwned, NEW l \in Logins,
           \/ Reserve(l) \/ Mint(l) \/ Sync(l) \/ Store(l)
           \/ Use(l) \/ Commit(l) \/ Abort(l)
    PROVE  LocksOwned'
<1>1. login[l].at \in Holding
  BY DEF Reserve, Mint, Sync, Store, Use, Commit, Abort, Holding, Gated
<1>2. ASSUME NEW place \in {"ok", "failed"}, Ends(l, place),
             lock' = [lock EXCEPT ![login[l].scope] = Nobody]
      PROVE  LocksOwned'
  BY <1>1, <1>2, LockFreed DEF Resting
<1>3. ASSUME NEW r, login' = [login EXCEPT ![l] = r], UNCHANGED lock,
             r.scope = login[l].scope, r.at \in Gated
      PROVE  LocksOwned'
  BY <1>1, <1>3, LocksRest DEF Holding
<1>4. ASSUME NEW place \in Gated, Moved(l, place), UNCHANGED lock
      PROVE  LocksOwned'
  BY <1>1, <1>4, LocksRestMoved DEF Places, Holding
<1>5. login[l] \in Login
  BY DEF CustodyInv, TypeOK
<1>6. CASE Reserve(l)
  <2>1. CASE /\ UNCHANGED lock
             /\ login' = [login EXCEPT ![l].at = "mint",
                                       ![l].token = grant[login[l].scope].token]
    <3> DEFINE r == [login[l] EXCEPT !.at = "mint",
                                     !.token = grant[login[l].scope].token]
    <3>1. login' = [login EXCEPT ![l] = r]
      BY <2>1
    <3>2. r.scope = login[l].scope /\ r.at \in Gated
      BY <1>5 DEF Login, Gated
    <3> HIDE DEF r
    <3>3. QED
      BY <1>3, <2>1, <3>1, <3>2
  <2>2. CASE /\ lock' = [lock EXCEPT ![login[l].scope] = Nobody]
             /\ Ends(l, "failed")
    BY <1>2, <2>2
  <2>3. QED
    BY <1>6, <2>1, <2>2 DEF Reserve
<1>7. CASE Mint(l)
  <2>1. CASE /\ UNCHANGED lock
             /\ login' = [login EXCEPT ![l].at = "sync",
                                       ![l].rotated = vault[login[l].scope] + 1]
    <3> DEFINE r == [login[l] EXCEPT !.at = "sync",
                                     !.rotated = vault[login[l].scope] + 1]
    <3>1. login' = [login EXCEPT ![l] = r]
      BY <2>1
    <3>2. r.scope = login[l].scope /\ r.at \in Gated
      BY <1>5 DEF Login, Gated
    <3> HIDE DEF r
    <3>3. QED
      BY <1>3, <2>1, <3>1, <3>2
  <2>2. CASE Moved(l, "sync") /\ UNCHANGED lock
    BY <1>4, <2>2 DEF Gated
  <2>3. CASE Invalidate(l)
    BY <1>2, <2>3 DEF Invalidate, Release
  <2>4. CASE Release(l) /\ Ends(l, "failed")
    BY <1>2, <2>4 DEF Release
  <2>5. QED
    BY <1>7, <2>1, <2>2, <2>3, <2>4 DEF Mint, custody
<1>8. CASE Sync(l)
  <2>1. (Moved(l, "store") /\ UNCHANGED lock) \/ Invalidate(l)
    BY <1>8 DEF Sync, custody
  <2>2. QED
    BY <1>2, <1>4, <2>1 DEF Invalidate, Release, Gated
<1>9. CASE Store(l)
  <2> DEFINE r == [login[l] EXCEPT !.at = "decrypt",
                                   !.token = IF login[l].rotated # 0
                                             THEN login[l].rotated ELSE @]
  <2>1. login' = [login EXCEPT ![l] = r] /\ UNCHANGED lock
    BY <1>9 DEF Store, custody
  <2>2. r.scope = login[l].scope /\ r.at \in Gated
    BY <1>5 DEF Login, Gated
  <2> HIDE DEF r
  <2>3. QED
    BY <1>3, <2>1, <2>2
<1>10. CASE Use(l)
  <2>1. Moved(l, "use") /\ UNCHANGED lock
    BY <1>10 DEF Use, custody
  <2>2. QED
    BY <1>4, <2>1 DEF Gated
<1>11. CASE Commit(l) \/ Abort(l)
  BY <1>2, <1>11 DEF Commit, Abort, Release
<1>12. QED
  BY <1>6, <1>7, <1>8, <1>9, <1>10, <1>11

\* LocksOwned is inductive, given the types.
LEMMA NextLocks ==
    ASSUME CustodyInv, LocksOwned, [Next]_vars
    PROVE  LocksOwned'
<1>1. ASSUME NEW l \in Logins, LoginStep(l) \/ \E sc \in Scopes : Resolve(l, sc)
      PROVE  LocksOwned'
  BY <1>1, OutsideLocks, InsideLocks DEF LoginStep
<1>2. CASE UNCHANGED <<lock, login>>
  BY <1>2 DEF LocksOwned, Holds
<1>3. ASSUME NEW sc \in Scopes, Revoke(sc) \/ Provision(sc) \/ VaultEnds(sc)
      PROVE  LocksOwned'
  BY <1>2, <1>3 DEF Revoke, Provision, VaultEnds, custody
<1>4. CASE Crash
  <2>1. \A l \in Logins : login'[l].at = "idle" /\ l # Nobody
    BY <1>4, CustodyAssumption DEF Crash, Rest
  <2>2. \A sc \in Scopes : lock'[sc] = Nobody
    BY <1>4 DEF Crash
  <2>3. QED
    BY <2>1, <2>2 DEF LocksOwned, Holds, Holding, Gated
<1>5. CASE UNCHANGED vars
  BY <1>2, <1>5 DEF vars, custody
<1>6. QED
  BY <1>1, <1>3, <1>4, <1>5 DEF Next

-----------------------------------------------------------------------------
(* That the write reservation is given up under fairness is checked by TLC   *)
(* only; here, that nothing but a crash and its own steps moves the login in *)
(* the gate, that each of them brings it nearer to the end, and that no row  *)
(* of the file changes before it is there.                                  *)
ToGo == [place \in Gated |->
            CASE place = "mint" -> 5
              [] place = "sync" -> 4
              [] place = "store" -> 3
              [] place = "decrypt" -> 2
              [] OTHER -> 1]

Advances(l) ==
    \/ writer' = Nobody /\ login'[l].at \in Resting
    \/ /\ writer' = l /\ grant' = grant
       /\ \/ login'[l] = login[l]
          \/ login'[l].at \in Gated /\ ToGo[login'[l].at] < ToGo[login[l].at]

GateAdvances == [][\A l \in Logins : writer = l => Advances(l)]_vars

LEMMA Distances ==
    /\ ToGo["mint"] = 5 /\ ToGo["sync"] = 4 /\ ToGo["store"] = 3
    /\ ToGo["decrypt"] = 2 /\ ToGo["use"] = 1
BY DEF ToGo, Gated

\* The steps of the login in the gate.
LEMMA InsideAdvances ==
    ASSUME CustodyInv, NEW l \in Logins, writer = l,
           LoginStep(l) \/ \E sc \in Scopes : Resolve(l, sc)
    PROVE  Advances(l)
<1>1. /\ login[l].at \in Gated /\ login[l] \in Login
      /\ login \in [Logins -> Login]
  BY CustodyAssumption DEF CustodyInv, WriterGated, TypeOK
<1>2. ASSUME NEW place \in {"ok", "failed"}, Release(l), Ends(l, place)
      PROVE  Advances(l)
  BY <1>1, <1>2 DEF Release, Ends, Rest, Resting, Advances
<1>3. ASSUME NEW r, login' = [login EXCEPT ![l] = r], UNCHANGED <<writer, grant>>,
             r.at \in Gated, ToGo[r.at] < ToGo[login[l].at]
      PROVE  Advances(l)
  BY <1>1, <1>3 DEF Advances
<1>4. ASSUME NEW place \in Gated, Moved(l, place), UNCHANGED <<writer, grant>>,
             ToGo[place] < ToGo[login[l].at]
      PROVE  Advances(l)
  <2> DEFINE r == [login[l] EXCEPT !.at = place]
  <2>1. login' = [login EXCEPT ![l] = r] /\ r.at = place
    BY <1>1, <1>4 DEF Moved, Login
  <2> HIDE DEF r
  <2>2. QED
    BY <1>3, <1>4, <2>1
<1>5. CASE \/ Revalidate(l) \/ TakeLock(l) \/ Reserve(l) \/ Fail(l)
           \/ \E sc \in Scopes : Resolve(l, sc)
  BY <1>1, <1>5 DEF Revalidate, TakeLock, Reserve, Fail, Resolve, Gated, Resting
<1>6. CASE Mint(l)
  <2>1. login[l].at = "mint" /\ "sync" \in Gated
    BY <1>6 DEF Mint, Gated
  <2>2. CASE /\ UNCHANGED <<writer, grant>>
             /\ login' = [login EXCEPT ![l].at = "sync",
                                       ![l].rotated = vault[login[l].scope] + 1]
    <3> DEFINE r == [login[l] EXCEPT !.at = "sync",
                                     !.rotated = vault[login[l].scope] + 1]
    <3>1. login' = [login EXCEPT ![l] = r] /\ r.at = "sync"
      BY <1>1, <2>2 DEF Login
    <3> HIDE DEF r
    <3>2. r.at \in Gated /\ ToGo[r.at] < ToGo[login[l].at]
      BY <2>1, <3>1, Distances
    <3>3. QED
      BY <1>3, <2>2, <3>1, <3>2
  <2>3. CASE Moved(l, "sync") /\ UNCHANGED <<writer, grant>>
    BY <1>4, <2>1, <2>3, Distances
  <2>4. CASE Release(l) /\ Ends(l, "failed")
    BY <1>2, <2>4
  <2>5. QED
    BY <1>6, <2>2, <2>3, <2>4 DEF Mint, Invalidate, custody
<1>7. CASE Sync(l)
  <2>1. login[l].at = "sync" /\ "store" \in Gated
    BY <1>7 DEF Sync, Gated
  <2>2. CASE Moved(l, "store") /\ UNCHANGED <<writer, grant>>
    BY <1>4, <2>1, <2>2, Distances
  <2>3. CASE Release(l) /\ Ends(l, "failed")
    BY <1>2, <2>3
  <2>4. QED
    BY <1>7, <2>2, <2>3 DEF Sync, Invalidate, custody
<1>8. CASE Store(l)
  <2> DEFINE r == [login[l] EXCEPT !.at = "decrypt",
                                   !.token = IF login[l].rotated # 0
                                             THEN login[l].rotated ELSE @]
  <2>1. /\ login' = [login EXCEPT ![l] = r] /\ UNCHANGED <<writer, grant>>
        /\ login[l].at = "store"
    BY <1>8 DEF Store, custody
  <2>2. r.at = "decrypt" /\ r.at \in Gated
    BY <1>1 DEF Login, Gated
  <2> HIDE DEF r
  <2>3. ToGo[r.at] < ToGo[login[l].at]
    BY <2>1, <2>2, Distances
  <2>4. QED
    BY <1>3, <2>1, <2>2, <2>3
<1>9. CASE Use(l)
  <2>1. /\ login[l].at = "decrypt" /\ "use" \in Gated /\ Moved(l, "use")
        /\ UNCHANGED <<writer, grant>>
    BY <1>9 DEF Use, Gated, custody
  <2>2. QED
    BY <1>4, <2>1, Distances
<1>10. CASE Commit(l) \/ Abort(l)
  BY <1>2, <1>10 DEF Commit, Abort
<1>11. QED
  BY <1>5, <1>6, <1>7, <1>8, <1>9, <1>10 DEF LoginStep

\* The steps of any other login, which is not in the gate.
LEMMA OutsideAdvances ==
    ASSUME CustodyInv, NEW l \in Logins, writer = l, NEW k \in Logins, k # l,
           LoginStep(k) \/ \E sc \in Scopes : Resolve(k, sc)
    PROVE  Advances(l)
<1>1. login[k].at \notin Gated /\ writer # Nobody /\ login \in [Logins -> Login]
  BY CustodyAssumption DEF CustodyInv, Gate, InGate, TypeOK
<1>2. ASSUME UNCHANGED <<writer, grant>>,
             \E r : login' = [login EXCEPT ![k] = r]
      PROVE  Advances(l)
  BY <1>1, <1>2 DEF Advances
<1>3. /\ \A place : Moved(k, place) => \E r : login' = [login EXCEPT ![k] = r]
      /\ \A place : Ends(k, place) => \E r : login' = [login EXCEPT ![k] = r]
  BY DEF Moved, Ends
<1>4. CASE Revalidate(k) \/ TakeLock(k) \/ Fail(k)
  <2>1. UNCHANGED <<writer, grant>>
    BY <1>4 DEF Revalidate, TakeLock, Fail, custody
  <2>2. \E place : Moved(k, place) \/ Ends(k, place)
    BY <1>4 DEF Revalidate, TakeLock, Fail
  <2>3. QED
    BY <1>2, <1>3, <2>1, <2>2
<1>5. CASE Reserve(k)
  <2>1. UNCHANGED <<writer, grant>> /\ Ends(k, "failed")
    BY <1>1, <1>5 DEF Reserve
  <2>2. QED
    BY <1>2, <1>3, <2>1
<1>6. ASSUME NEW sc \in Scopes, Resolve(k, sc) PROVE Advances(l)
  <2>1. UNCHANGED <<writer, grant>>
    BY <1>6 DEF Resolve, custody
  <2>2. \E r : login' = [login EXCEPT ![k] = r]
    BY <1>6 DEF Resolve
  <2>3. QED
    BY <1>2, <2>1, <2>2
<1>7. QED
  BY <1>1, <1>4, <1>5, <1>6 DEF LoginStep, Mint, Sync, Store, Use, Commit, Abort, Gated

\* Whatever step is taken while a login is in the gate.
LEMMA NextAdvances ==
    ASSUME CustodyInv, [Next]_vars, NEW l \in Logins, writer = l
    PROVE  Advances(l)
<1>1. writer # Nobody
  BY CustodyAssumption
<1>2. ASSUME NEW k \in Logins, LoginStep(k) \/ \E sc \in Scopes : Resolve(k, sc)
      PROVE  Advances(l)
  BY <1>2, InsideAdvances, OutsideAdvances
<1>3. CASE UNCHANGED <<writer, grant, login>>
  BY <1>3 DEF Advances
<1>4. ASSUME NEW sc \in Scopes, Revoke(sc) \/ Provision(sc) \/ VaultEnds(sc)
      PROVE  Advances(l)
  BY <1>1, <1>3, <1>4 DEF Revoke, Provision, VaultEnds, custody
<1>5. CASE Crash
  BY <1>5 DEF Crash, Advances, Rest, Resting
<1>6. CASE UNCHANGED vars
  BY <1>3, <1>6 DEF vars, custody
<1>7. QED
  BY <1>2, <1>4, <1>5, <1>6 DEF Next

-----------------------------------------------------------------------------
(* The theorems that follow from the invariant.                             *)

\* Every variable has its shape, for any number of scopes and logins.
THEOREM CustodyTypeOK == Spec => []TypeOK
BY CustodyInvariant, PTL DEF CustodyInv

\* A login works on the browser only under the grant it was authorized for:
\* nothing that ends or replaces the grant commits while it is in the gate.
THEOREM CustodyUsedUnderItsGrant == Spec => []UsedUnderItsGrant
<1>1. CustodyInv => UsedUnderItsGrant
  BY DEF CustodyInv, Gate, InGate, UsedUnderItsGrant
<1>2. QED
  BY <1>1, CustodyInvariant, PTL

\* Outside the gate an active grant holds the token the vault accepts, unless a
\* failure the model names excuses it.
THEOREM CustodyStoredTokenIsCurrent == Spec => []StoredTokenIsCurrent
BY CustodyInvariant, PTL DEF CustodyInv

\* A refused token is never sent again: the login sends the token of the active
\* row, and an active row never holds a refused one.
THEOREM CustodyRefusedNeverRetried == Spec => RefusedNeverRetried
<1>1. CustodyInv => \A l \in Logins : Mint(l) =>
                       login[l].token \notin refused[login[l].scope]
  <2>1. SUFFICES ASSUME CustodyInv, NEW l \in Logins, Mint(l)
                 PROVE  login[l].token \notin refused[login[l].scope]
    OBVIOUS
  <2>2. login[l].at = "mint" /\ login[l].at \in Gated /\ login[l].scope \in Scopes
    BY <2>1 DEF Mint, Gated, CustodyInv, TypeOK, Login
  <2>3. TokenKnown(l) /\ grant[login[l].scope].active /\ RowAccepted(login[l].scope)
    BY <2>1, <2>2 DEF CustodyInv, Tokens, Gate, InGate, Current, Rows
  <2>4. QED
    BY <2>2, <2>3 DEF TokenKnown, RowAccepted
<1>2. CustodyInv => [\A l \in Logins : Mint(l) =>
                       login[l].token \notin refused[login[l].scope]]_vars
  BY <1>1
<1>3. QED
  BY <1>2, CustodyInvariant, PTL DEF RefusedNeverRetried

\* The lock of a scope is held by exactly the login that works on its grant:
\* never by two, and never by one that has ended, failed or died
\* (_GLOBAL_SCOPE_LOCKS in authorized_operation).
THEOREM CustodyLocksOwned == Spec => []LocksOwned
<1>1. Init => LocksOwned
  <2> SUFFICES ASSUME Init PROVE LocksOwned
    OBVIOUS
  <2>1. \A l \in Logins : login[l].at = "idle" /\ l # Nobody
    BY CustodyAssumption DEF Init, Rest
  <2>2. \A sc \in Scopes : lock[sc] = Nobody
    BY DEF Init
  <2>3. QED
    BY <2>1, <2>2 DEF LocksOwned, Holds, Holding, Gated
<1>2. CustodyInv /\ LocksOwned /\ [Next]_vars => LocksOwned'
  BY NextLocks
<1>3. QED
  BY <1>1, <1>2, CustodyInvariant, PTL DEF Spec

\* A login in the gate only ever moves forward in it, through at most five
\* places, and the file stays as it was when it checked the row, until it
\* commits, rolls back or dies with the process: what is left of GateIsReleased
\* is that its thread goes on (authorized_operation under BEGIN IMMEDIATE).
THEOREM CustodyGateAdvances == Spec => GateAdvances
<1>1. CustodyInv /\ [Next]_vars => [\A l \in Logins : writer = l => Advances(l)]_vars
  BY NextAdvances
<1>2. QED
  BY <1>1, CustodyInvariant, PTL DEF Spec, GateAdvances

=============================================================================
