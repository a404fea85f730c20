------------------------- MODULE AuthSessionsProofs -------------------------
(* Proofs about AuthSessions, for every set of accounts and requests and   *)
(* every bound: types, chains of refresh tokens, what tokenVersion         *)
(* guarantees whatever requests overlap, and what the handlers promise as  *)
(* long as no two requests of one account overlap.                         *)
EXTENDS AuthSessions, TLAPS

LEMMA NoRequestType == NoRequest \in Request
<1>1. AnyUser \in Users
  BY UsersAssumption DEF AnyUser
<1>2. 0 \in Versions /\ 0 \in Ids
  BY BoundsAssumption DEF Versions, Ids
<1>3. NoAccount \in Account
  BY <1>2 DEF NoAccount, Account
<1>4. NoRow \in RefreshRow
  BY <1>1, <1>2 DEF NoRow, RefreshRow
<1>5. QED
  BY <1>1, <1>2, <1>3, <1>4 DEF NoRequest, Request, Steps

(* What the three ways a handler moves on do to the table of requests.     *)
LEMMA StartType ==
    ASSUME req \in [Requests -> Request], NEW r \in Requests, NEW u \in Users,
           NEW step \in Steps, NEW row \in Account, NEW secret \in Secrets \cup {None},
           Start(r, u, step, row, secret)
    PROVE  req' \in [Requests -> Request]
<1>1. [NoRequest EXCEPT !.at = step, !.user = u, !.row = row, !.secret = secret] \in Request
  BY NoRequestType DEF Request
<1>2. QED
  BY <1>1 DEF Start

LEMMA ContinueType ==
    ASSUME req \in [Requests -> Request], NEW r \in Requests, NEW step \in Steps,
           Continue(r, step)
    PROVE  req' \in [Requests -> Request]
BY DEF Continue, Request

LEMMA FinishType ==
    ASSUME req \in [Requests -> Request], NEW r \in Requests, Finish(r)
    PROVE  req' \in [Requests -> Request]
BY NoRequestType DEF Finish

LEMMA ReadForType ==
    ASSUME TypeOK, NEW r \in Requests, NEW step \in Steps,
           NEW secret \in Secrets \cup {None}, ReadFor(r, step, secret)
    PROVE  TypeOK'
<1>1. req[r] \in Request /\ Mine(r) \in Account
  BY DEF TypeOK, Mine, Request
<1>2. req' \in [Requests -> Request]
  BY <1>1 DEF TypeOK, ReadFor, Request
<1>3. QED
  BY <1>2 DEF TypeOK, ReadFor, Exists

LEMMA UpdateAccountType ==
    ASSUME TypeOK, NEW r \in Requests, NEW new \in Account,
           new.state # "purged" \/ ~Exists(req[r].user),
           NEW next \in Steps, UpdateAccount(r, new, next)
    PROVE  TypeOK'
<1> DEFINE u == req[r].user
<1>1. u \in Users
  BY DEF TypeOK, Request
<1>2. CASE Exists(u)
  <2>1. accounts[u].tv + 1 \in Versions
    BY <1>1, <1>2, BoundsAssumption DEF UpdateAccount, TypeOK, Account, Versions
  <2>2. [new EXCEPT !.tv = accounts[u].tv + 1] \in Account
    BY <2>1 DEF Account
  <2>3. accounts' \in [Users -> Account]
    BY <1>1, <1>2, <2>2 DEF UpdateAccount, TypeOK
  <2>4. \A v \in Users : Exists(v) => Exists(v)'
    BY <1>1, <1>2, <2>2 DEF UpdateAccount, TypeOK, Exists, Account
  <2>5. req' \in [Requests -> Request]
    BY <1>2, ContinueType, FinishType DEF UpdateAccount, TypeOK
  <2>6. QED
    BY <1>2, <2>3, <2>4, <2>5 DEF UpdateAccount, TypeOK, RefreshRow
<1>3. CASE ~Exists(u)
  <2>1. req' \in [Requests -> Request]
    BY <1>3, FinishType DEF UpdateAccount, TypeOK
  <2>2. QED
    BY <1>3, <2>1 DEF UpdateAccount, TypeOK, Exists
<1>4. QED
  BY <1>2, <1>3

LEMMA IssueTypeOK ==
    ASSUME TypeOK, NEW u \in Users, NEW tv \in Versions, NEW basis \in Versions,
           NEW lineage \in Ids, Exists(u), Issue(u, tv, basis, lineage),
           UNCHANGED <<accounts, access, sessions>>, req' \in [Requests -> Request]
    PROVE  TypeOK'
<1>1. issued + 1 \in Ids /\ issued + 1 \in 1..(issued + 1)
  BY BoundsAssumption DEF Issue, TypeOK, Ids
<1> DEFINE new == [id |-> issued + 1, user |-> u, tv |-> tv, fresh |-> TRUE,
                   basis |-> basis, lineage |-> lineage]
<1>2. new \in RefreshRow /\ new.id = issued + 1 /\ new.user = u
  BY <1>1 DEF RefreshRow
<1>3. refresh' = refresh \cup {new} /\ issued' = issued + 1
  BY DEF Issue
<1>4. \A a \in refresh : a.id \in 1..issued' /\ a.id # new.id /\ Exists(a.user)'
  BY <1>1, <1>2, <1>3 DEF TypeOK, Ids, Exists
<1>5. Exists(u)'
  BY DEF Exists
<1> HIDE DEF new
<1>6. /\ \A a \in refresh' : a.id \in 1..issued' /\ Exists(a.user)'
      /\ \A a, b \in refresh' : a.id = b.id => a = b
  BY <1>1, <1>2, <1>3, <1>4, <1>5 DEF TypeOK
<1>7. QED
  BY <1>1, <1>2, <1>3, <1>6 DEF TypeOK, Exists

LEMMA SignInTypeOK == ASSUME TypeOK, NEW r \in Requests, SignIn(r) PROVE TypeOK'
<1>1. ASSUME NEW u \in Users, NEW s \in Secrets, LoginRead(r, u, s) PROVE TypeOK'
  <2>1. accounts[u] \in Account
    BY DEF TypeOK
  <2>2. req' \in [Requests -> Request]
    BY <1>1, <2>1, StartType DEF LoginRead, SignInStart, TypeOK, Steps
  <2>3. QED
    BY <1>1, <2>2 DEF LoginRead, TypeOK, Exists
<1>2. ASSUME NEW u \in Users, GoogleRead(r, u) PROVE TypeOK'
  <2>1. accounts[u] \in Account
    BY DEF TypeOK
  <2>2. req' \in [Requests -> Request]
    BY <1>2, <2>1, StartType DEF GoogleRead, SignInStart, TypeOK, Steps
  <2>3. QED
    BY <1>2, <2>2 DEF GoogleRead, TypeOK, Exists
<1>3. CASE SignInRestore(r)
  <2>1. req' \in [Requests -> Request]
    BY <1>3, ContinueType, FinishType DEF SignInRestore, TypeOK, Steps
  <2>2. accounts' \in [Users -> Account] /\ \A u \in Users : Exists(u) => Exists(u)'
    BY <1>3 DEF SignInRestore, TypeOK, Account, Exists
  <2>3. QED
    BY <1>3, <2>1, <2>2 DEF SignInRestore, TypeOK, RefreshRow
<1>4. CASE SignInSign(r)
  <2>1. req[r].user \in Users /\ req[r].row.tv \in Versions
    BY DEF TypeOK, Request, Account
  <2>2. req' \in [Requests -> Request]
    BY <1>4, ContinueType, FinishType DEF SignInSign, TypeOK, Steps
  <2>3. access' \subseteq AccessToken
    BY <1>4, <2>1 DEF SignInSign, TypeOK, AccessToken
  <2>4. sessions' \subseteq UnlockSession
    BY <1>4, <2>1 DEF SignInSign, TypeOK, CreateSession, UnlockSession
  <2>5. QED
    BY <1>4, <2>2, <2>3, <2>4 DEF SignInSign, TypeOK, Exists
<1>5. CASE CookieRead(r)
  <2>1. req' \in [Requests -> Request]
    BY <1>5, FinishType DEF CookieRead, TypeOK, Request, Account, Steps
  <2>2. QED
    BY <1>5, <2>1 DEF CookieRead, TypeOK, Exists
<1>6. CASE CookieIssue(r)
  <2>1. req' \in [Requests -> Request]
    BY <1>6, FinishType DEF CookieIssue, TypeOK
  <2>2. CASE Exists(req[r].user)
    <3>1. issued + 1 \in Ids
      BY <1>6, <2>2, BoundsAssumption DEF CookieIssue, Issue, TypeOK, Ids
    <3>2. QED
      BY <1>6, <2>1, <2>2, <3>1, IssueTypeOK DEF CookieIssue, TypeOK, Request, Account
  <2>3. QED
    BY <1>6, <2>1, <2>2 DEF CookieIssue, TypeOK, Exists
<1>7. QED
  BY <1>1, <1>2, <1>3, <1>4, <1>5, <1>6 DEF SignIn

LEMMA RefreshTypeOK == ASSUME TypeOK, NEW r \in Requests, Refresh(r) PROVE TypeOK'
<1>1. ASSUME NEW rt \in refresh, RotateFind(r, rt) PROVE TypeOK'
  <2>1. rt \in RefreshRow /\ rt.user \in Users
    BY DEF TypeOK, RefreshRow
  <2>2. [NoRequest EXCEPT !.at = "rotate.consume", !.user = rt.user, !.rt = rt] \in Request
    BY <2>1, NoRequestType DEF Request, Steps
  <2>3. req' \in [Requests -> Request]
    BY <1>1, <2>2 DEF RotateFind, TypeOK
  <2>4. QED
    BY <1>1, <2>3 DEF RotateFind, TypeOK, Exists
<1>2. CASE RotateConsume(r)
  <2>1. req' \in [Requests -> Request]
    BY <1>2, ContinueType, FinishType DEF RotateConsume, TypeOK, Steps
  <2>2. QED
    BY <1>2, <2>1 DEF RotateConsume, TypeOK, Exists
<1>3. CASE RotateCheck(r)
  <2>1. req' \in [Requests -> Request]
    BY <1>3, FinishType DEF RotateCheck, TypeOK, Request, Account, Steps
  <2>2. QED
    BY <1>3, <2>1 DEF RotateCheck, TypeOK, Exists
<1>4. CASE RotateIssue(r)
  <2>1. req' \in [Requests -> Request]
    BY <1>4, ContinueType, FinishType DEF RotateIssue, TypeOK, Steps
  <2>2. CASE Exists(req[r].user)
    BY <1>4, <2>1, <2>2, IssueTypeOK DEF RotateIssue, TypeOK, Request, RefreshRow
  <2>3. QED
    BY <1>4, <2>1, <2>2 DEF RotateIssue, TypeOK, Exists
<1>5. CASE RefreshSign(r)
  <2>1. req' \in [Requests -> Request]
    BY <1>5, FinishType DEF RefreshSign, TypeOK
  <2>2. access' \subseteq AccessToken
    BY <1>5 DEF RefreshSign, TypeOK, AccessToken, Request, RefreshRow, Account
  <2>3. QED
    BY <1>5, <2>1, <2>2 DEF RefreshSign, TypeOK, Exists
<1>6. QED
  BY <1>1, <1>2, <1>3, <1>4, <1>5 DEF Refresh

LEMMA SignOutTypeOK == ASSUME TypeOK, NEW r \in Requests, SignOut(r) PROVE TypeOK'
<1>1. ASSUME NEW id \in Ids, LogoutRow(r, id) PROVE TypeOK'
  <2>1. req' \in [Requests -> Request]
    BY <1>1, ContinueType DEF LogoutRow, TypeOK, Steps
  <2>2. QED
    BY <1>1, <2>1 DEF LogoutRow, TypeOK, Exists
<1>2. CASE LogoutKeys(r) \/ KeysRevoke(r)
  <2>1. req' \in [Requests -> Request]
    BY <1>2, FinishType DEF LogoutKeys, KeysRevoke, TypeOK
  <2>2. QED
    BY <1>2, <2>1 DEF LogoutKeys, KeysRevoke, RevokeUser, TypeOK, Exists
<1>3. CASE LogoutAllRows(r)
  <2>1. req' \in [Requests -> Request]
    BY <1>3, ContinueType DEF LogoutAllRows, TypeOK, Steps
  <2>2. QED
    BY <1>3, <2>1 DEF LogoutAllRows, TypeOK, Exists
<1>4. CASE LogoutAllKeys(r)
  <2>1. req' \in [Requests -> Request]
    BY <1>4, ContinueType DEF LogoutAllKeys, TypeOK, Steps
  <2>2. QED
    BY <1>4, <2>1 DEF LogoutAllKeys, RevokeUser, TypeOK, Exists
<1>5. CASE LogoutAllBump(r)
  <2>1. Mine(r) \in Account
    BY DEF Mine, TypeOK, Request
  <2>2. QED
    BY <1>5, <2>1, UpdateAccountType DEF LogoutAllBump, Mine, Exists, Steps
<1>6. QED
  BY <1>1, <1>2, <1>3, <1>4, <1>5 DEF SignOut

LEMMA CredentialsTypeOK == ASSUME TypeOK, NEW r \in Requests, Credentials(r) PROVE TypeOK'
<1>1. Mine(r) \in Account /\ req[r].secret \in Secrets \cup {None} /\ NoAccount \in Account
  BY NoRequestType DEF Mine, TypeOK, Request, NoRequest
<1>2. ASSUME NEW u \in Users, NEW h \in DOMAIN Guarded, Authenticate(r, u, h) PROVE TypeOK'
  <2>1. Guarded[h] \in Steps
    BY DEF Guarded, Steps
  <2>2. req' \in [Requests -> Request]
    BY <1>1, <1>2, <2>1, StartType DEF Authenticate, TypeOK
  <2>3. QED
    BY <1>2, <2>2 DEF Authenticate, TypeOK, Exists
<1>3. ASSUME NEW new \in Secrets,
             PasswordRead(r, new) \/ PassphraseRead(r, new) \/ EnrollRead(r, new)
      PROVE  TypeOK'
  BY <1>3, ReadForType DEF PasswordRead, PassphraseRead, EnrollRead, Steps
<1>4. CASE PasswordWrite(r)
  <2>1. WithPassword(Mine(r), req[r].secret) \in Account
    BY <1>1 DEF WithPassword, Account
  <2>2. WithPassword(Mine(r), req[r].secret).state # "purged" \/ ~Exists(req[r].user)
    BY <1>1 DEF WithPassword, Account, Mine, Exists
  <2>3. QED
    BY <1>4, <2>1, <2>2, UpdateAccountType DEF PasswordWrite, Steps
<1>5. CASE PassphraseWrite(r)
  <2>1. /\ [Mine(r) EXCEPT !.kek = req[r].secret] \in Account
        /\ [Mine(r) EXCEPT !.kek = req[r].secret].state # "purged" \/ ~Exists(req[r].user)
    BY <1>1 DEF Account, Mine, Exists
  <2>2. QED
    BY <1>5, <2>1, UpdateAccountType DEF PassphraseWrite, Steps
<1>6. CASE EnrollWrite(r)
  <2>1. req' \in [Requests -> Request]
    BY <1>6, ContinueType, FinishType DEF EnrollWrite, TypeOK, Steps
  <2>2. accounts' \in [Users -> Account] /\ \A u \in Users : Exists(u) => Exists(u)'
    BY <1>1, <1>6 DEF EnrollWrite, TypeOK, Account, Exists
  <2>3. QED
    BY <1>6, <2>1, <2>2 DEF EnrollWrite, TypeOK, RefreshRow
<1>7. CASE UnlockRead(r)
  BY <1>1, <1>7, ReadForType DEF UnlockRead, Steps, Account
<1>8. CASE DeviceRead(r)
  BY <1>8, ReadForType DEF DeviceRead, Steps
<1>9. CASE UnlockCreate(r)
  <2>1. req' \in [Requests -> Request]
    BY <1>9, FinishType DEF UnlockCreate, TypeOK
  <2>2. sessions' \subseteq UnlockSession
    BY <1>9 DEF UnlockCreate, CreateSession, TypeOK, UnlockSession, Request, Account
  <2>3. QED
    BY <1>9, <2>1, <2>2 DEF UnlockCreate, TypeOK, Exists
<1>10. CASE ReadRefused(r)
  <2>1. req' \in [Requests -> Request]
    BY <1>10, FinishType DEF ReadRefused, TypeOK
  <2>2. QED
    BY <1>10, <2>1 DEF ReadRefused, TypeOK, Exists
<1>11. QED
  BY <1>2, <1>3, <1>4, <1>5, <1>6, <1>7, <1>8, <1>9, <1>10 DEF Credentials

LEMMA AdministrationTypeOK ==
    ASSUME TypeOK, NEW r \in Requests, Administration(r) PROVE TypeOK'
<1>1. Mine(r) \in Account /\ req[r].secret \in Secrets \cup {None} /\ NoAccount \in Account
  BY NoRequestType DEF Mine, TypeOK, Request, NoRequest
<1>2. ASSUME NEW u \in Users, Remove(r, u) PROVE TypeOK'
  <2>1. req' \in [Requests -> Request]
    BY <1>1, <1>2, StartType DEF Remove, TypeOK, Steps
  <2>2. QED
    BY <1>2, <2>1 DEF Remove, TypeOK, Exists
<1>3. ASSUME NEW u \in Users, NEW new \in Secrets,
             AdminReset(r, u, new) \/ RecoverUser(r, u, new)
      PROVE  TypeOK'
  <2>1. req' \in [Requests -> Request]
    BY <1>1, <1>3, StartType DEF AdminReset, RecoverUser, TypeOK, Steps
  <2>2. QED
    BY <1>3, <2>1 DEF AdminReset, RecoverUser, TypeOK, Exists
<1>4. CASE RemoveKeys(r)
  <2>1. req' \in [Requests -> Request]
    BY <1>4, ContinueType DEF RemoveKeys, TypeOK, Steps
  <2>2. QED
    BY <1>4, <2>1 DEF RemoveKeys, RevokeUser, TypeOK, Exists
<1>5. CASE RemoveWrite(r)
  <2>1. /\ [Mine(r) EXCEPT !.state = "deleted"] \in Account
        /\ [Mine(r) EXCEPT !.state = "deleted"].state # "purged"
    BY <1>1 DEF Account
  <2>2. QED
    BY <1>5, <2>1, UpdateAccountType DEF RemoveWrite, Steps
<1>6. CASE AdminResetWrite(r)
  <2>1. WithPassword(Mine(r), req[r].secret) \in Account
    BY <1>1 DEF WithPassword, Account
  <2>2. WithPassword(Mine(r), req[r].secret).state # "purged" \/ ~Exists(req[r].user)
    BY <1>1 DEF WithPassword, Account, Mine, Exists
  <2>3. QED
    BY <1>6, <2>1, <2>2, UpdateAccountType DEF AdminResetWrite, Steps
<1>7. CASE RecoverWrite(r)
  <2>1. /\ [Mine(r) EXCEPT !.kek = req[r].secret] \in Account
        /\ [Mine(r) EXCEPT !.kek = req[r].secret].state # "purged" \/ ~Exists(req[r].user)
    BY <1>1 DEF Account, Mine, Exists
  <2>2. QED
    BY <1>7, <2>1, UpdateAccountType DEF RecoverWrite, Steps
<1>8. QED
  BY <1>2, <1>3, <1>4, <1>5, <1>6, <1>7 DEF Administration

LEMMA EnvironmentTypeOK == ASSUME TypeOK, Environment PROVE TypeOK'
<1>1. ASSUME NEW u \in Users, Restore(u) PROVE TypeOK'
  <2>1. accounts' \in [Users -> Account] /\ \A v \in Users : Exists(v) => Exists(v)'
    BY <1>1 DEF Restore, TypeOK, Account, Exists
  <2>2. QED
    BY <1>1, <2>1 DEF Restore, TypeOK, RefreshRow
<1>2. ASSUME NEW u \in Users, Purge(u) PROVE TypeOK'
  <2>1. accounts' \in [Users -> Account] /\ \A v \in Users \ {u} : Exists(v) => Exists(v)'
    BY <1>2 DEF Purge, TypeOK, Account, Exists
  <2>2. \A a \in refresh' : a \in refresh /\ a.user \in Users \ {u}
    BY <1>2 DEF Purge, TypeOK, RefreshRow
  <2>3. QED
    BY <1>2, <2>1, <2>2 DEF Purge, TypeOK
<1>3. ASSUME NEW rt \in refresh, RefreshExpires(rt) PROVE TypeOK'
  <2> DEFINE old == [rt EXCEPT !.fresh = FALSE]
  <2>1. old \in RefreshRow /\ old.id = rt.id /\ old.user = rt.user
    BY DEF TypeOK, RefreshRow
  <2>2. refresh' = (refresh \ {rt}) \cup {old}
    BY <1>3 DEF RefreshExpires
  <2> HIDE DEF old
  <2>3. QED
    BY <1>3, <2>1, <2>2 DEF RefreshExpires, TypeOK, Exists
<1>4. ASSUME NEW s \in sessions, SessionExpires(s) PROVE TypeOK'
  BY <1>4 DEF SessionExpires, TypeOK, Exists
<1>5. CASE Restart
  BY <1>5, NoRequestType DEF Restart, TypeOK, Exists
<1>6. QED
  BY <1>1, <1>2, <1>3, <1>4, <1>5 DEF Environment

LEMMA InitTypeOK == Init => TypeOK
<1>1. 0 \in Versions /\ 0 \in Ids
  BY BoundsAssumption DEF Versions, Ids
<1>2. QED
  BY <1>1, NoRequestType DEF Init, TypeOK, Account

LEMMA NextTypeOK == TypeOK /\ [Next]_vars => TypeOK'
<1> SUFFICES ASSUME TypeOK, [Next]_vars PROVE TypeOK'
  OBVIOUS
<1>1. CASE UNCHANGED vars
  BY <1>1 DEF vars, TypeOK, Exists
<1>2. QED
  BY <1>1, SignInTypeOK, RefreshTypeOK, SignOutTypeOK, CredentialsTypeOK,
     AdministrationTypeOK, EnvironmentTypeOK DEF Next

(* The tables, the tokens, the unlock sessions and every request in flight *)
(* stay well-typed, token ids stay unique and issued, and no refresh token *)
(* outlives its account (the handlers of apps/api/src/auth, me, crypto).   *)
THEOREM TypeCorrect == Spec => []TypeOK
BY InitTypeOK, NextTypeOK, PTL DEF Spec

-----------------------------------------------------------------------------
(* A device's chain of refresh tokens keeps one tokenVersion: ChainInv is  *)
(* inductive, and LineageKeepsVersion follows.                             *)

(* t belongs to a chain that is already there, under that chain's version. *)
Look(t) == \E c \in Chain : c.lineage = t.lineage /\ c.tv = t.tv /\ c.user = t.user

Known == issued' = issued /\ \A t \in refresh' : Look(t)

(* One new row: of a chain that is there, or the first of a new one.       *)
OneMore ==
    /\ issued' = issued + 1
    /\ \E n \in RefreshRow :
         /\ Look(n) \/ n.lineage = issued + 1
         /\ refresh' = refresh \cup {n}

Hands(q) ==
    req'[q].at \in Rotating =>
      /\ req'[q].rt \in Chain /\ req'[q].user = req'[q].rt.user
      /\ req'[q].at = "rotate.issue" => req'[q].seen = req'[q].rt.tv

(* Only r moved, and not to a step of a rotation.                          *)
Leaves(r) ==
    /\ \A q \in Requests \ {r} : req'[q] = req[q]
    /\ req'[r].at \notin Rotating

LEMMA LeavesHands ==
    ASSUME ChainInv, NEW r \in Requests, Leaves(r) PROVE \A q \in Requests : Hands(q)
BY DEF Leaves, Hands, ChainInv, Chain, InHand

LEMMA SameHands == ASSUME ChainInv, req' = req PROVE \A q \in Requests : Hands(q)
BY DEF Hands, ChainInv, Chain, InHand

LEMMA KeptKnown ==
    ASSUME TypeOK, issued' = issued, refresh' \subseteq refresh PROVE Known
BY DEF Known, Look, Chain

LEMMA StartLeaves ==
    ASSUME TypeOK, NEW r \in Requests, NEW u, NEW step \in Steps \ Rotating, NEW row,
           NEW secret, Start(r, u, step, row, secret)
    PROVE  Leaves(r)
BY DEF Start, Leaves, NoRequest, TypeOK

LEMMA ContinueLeaves ==
    ASSUME TypeOK, NEW r \in Requests, NEW step \in Steps \ Rotating, Continue(r, step)
    PROVE  Leaves(r)
BY DEF Continue, Leaves, TypeOK, Request

LEMMA FinishLeaves ==
    ASSUME TypeOK, NEW r \in Requests, Finish(r) PROVE Leaves(r)
BY DEF Finish, Leaves, NoRequest, TypeOK, Rotating

LEMMA ReadForLeaves ==
    ASSUME TypeOK, NEW r \in Requests, NEW step \in Steps \ Rotating, NEW secret,
           ReadFor(r, step, secret)
    PROVE  Leaves(r) /\ Known
<1>1. Leaves(r)
  BY DEF ReadFor, Leaves, TypeOK, Request
<1>2. QED
  BY <1>1, KeptKnown DEF ReadFor

LEMMA UpdateLeaves ==
    ASSUME TypeOK, NEW r \in Requests, NEW new, NEW next \in Steps \ Rotating,
           UpdateAccount(r, new, next)
    PROVE  Leaves(r) /\ Known
<1>1. Leaves(r)
  BY ContinueLeaves, FinishLeaves DEF UpdateAccount
<1>2. QED
  BY <1>1, KeptKnown DEF UpdateAccount

-----------------------------------------------------------------------------
LEMMA SignInChain ==
    ASSUME TypeOK, NEW r \in Requests, SignIn(r) PROVE Leaves(r) /\ (Known \/ OneMore)
<1>1. ASSUME NEW u \in Users, (\E s \in Secrets : LoginRead(r, u, s)) \/ GoogleRead(r, u)
      PROVE  Leaves(r) /\ Known
  <2>1. PICK s \in Secrets \cup {None} : SignInStart(r, u, s)
    BY <1>1 DEF LoginRead, GoogleRead
  <2>2. Leaves(r)
    BY <2>1, StartLeaves DEF SignInStart, Steps, Rotating
  <2>3. QED
    BY <1>1, <2>2, KeptKnown DEF LoginRead, GoogleRead
<1>2. CASE SignInRestore(r) \/ SignInSign(r)
  <2>1. Leaves(r)
    BY <1>2, ContinueLeaves, FinishLeaves DEF SignInRestore, SignInSign, Steps, Rotating
  <2>2. QED
    BY <1>2, <2>1, KeptKnown DEF SignInRestore, SignInSign
<1>3. CASE CookieRead(r)
  <2>1. CASE Exists(req[r].user)
    BY <1>3, <2>1, KeptKnown DEF CookieRead, Leaves, TypeOK, Request, Rotating
  <2>2. CASE ~Exists(req[r].user)
    BY <1>3, <2>2, FinishLeaves, KeptKnown DEF CookieRead
  <2>3. QED
    BY <2>1, <2>2
<1>4. CASE CookieIssue(r)
  <2>1. Leaves(r)
    BY <1>4, FinishLeaves DEF CookieIssue
  <2>2. CASE Exists(req[r].user)
    <3> DEFINE n == [id |-> issued + 1, user |-> req[r].user, tv |-> req[r].seen,
                     fresh |-> TRUE, basis |-> req[r].row.tv, lineage |-> issued + 1]
    <3>1. issued + 1 \in Ids
      BY <1>4, <2>2, BoundsAssumption DEF CookieIssue, Issue, TypeOK, Ids
    <3>2. n \in RefreshRow /\ n.lineage = issued + 1
      BY <3>1 DEF TypeOK, Request, Account, RefreshRow
    <3>3. refresh' = refresh \cup {n} /\ issued' = issued + 1
      BY <1>4, <2>2 DEF CookieIssue, Issue
    <3> HIDE DEF n
    <3>4. QED
      BY <2>1, <3>2, <3>3 DEF OneMore
  <2>3. CASE ~Exists(req[r].user)
    BY <1>4, <2>1, <2>3, KeptKnown DEF CookieIssue
  <2>4. QED
    BY <2>2, <2>3
<1>5. QED
  BY <1>1, <1>2, <1>3, <1>4 DEF SignIn

LEMMA RefreshChain ==
    ASSUME TypeOK, ChainInv, NEW r \in Requests, Refresh(r)
    PROVE  (\A q \in Requests : Hands(q)) /\ (Known \/ OneMore)
<1>1. ASSUME NEW rt \in refresh, RotateFind(r, rt)
      PROVE  (\A q \in Requests : Hands(q)) /\ Known
  <2>1. \A q \in Requests : Hands(q)
    BY <1>1 DEF RotateFind, Hands, NoRequest, TypeOK, ChainInv, Chain, InHand
  <2>2. QED
    BY <1>1, <2>1, KeptKnown DEF RotateFind
<1>2. CASE RotateConsume(r)
  <2>1. CASE req[r].rt.fresh
    BY <1>2, <2>1, KeptKnown
       DEF RotateConsume, Continue, Hands, TypeOK, Request, ChainInv, Chain, InHand, Rotating
  <2>2. CASE ~req[r].rt.fresh
    BY <1>2, <2>2, KeptKnown, FinishLeaves, LeavesHands DEF RotateConsume
  <2>3. QED
    BY <2>1, <2>2
<1>3. CASE RotateCheck(r)
  <2>1. CASE Exists(req[r].user) /\ accounts[req[r].user].tv = req[r].rt.tv
    BY <1>3, <2>1, KeptKnown
       DEF RotateCheck, Hands, TypeOK, Request, ChainInv, Chain, InHand, Rotating
  <2>2. CASE ~(Exists(req[r].user) /\ accounts[req[r].user].tv = req[r].rt.tv)
    BY <1>3, <2>2, KeptKnown, FinishLeaves, LeavesHands DEF RotateCheck
  <2>3. QED
    BY <2>1, <2>2
<1>4. CASE RotateIssue(r)
  <2>1. Leaves(r)
    BY <1>4, ContinueLeaves, FinishLeaves DEF RotateIssue, Steps, Rotating
  <2>2. CASE Exists(req[r].user)
    <3> DEFINE n == [id |-> issued + 1, user |-> req[r].user, tv |-> req[r].seen,
                     fresh |-> TRUE, basis |-> req[r].rt.basis, lineage |-> req[r].rt.lineage]
    <3>1. issued + 1 \in Ids
      BY <1>4, <2>2, BoundsAssumption DEF RotateIssue, Issue, TypeOK, Ids
    <3>2. n \in RefreshRow /\ n.lineage = req[r].rt.lineage /\ n.tv = req[r].rt.tv
                           /\ n.user = req[r].rt.user
      BY <1>4, <3>1 DEF RotateIssue, TypeOK, Request, RefreshRow, ChainInv, Rotating
    <3>3. refresh' = refresh \cup {n} /\ issued' = issued + 1
      BY <1>4, <2>2 DEF RotateIssue, Issue
    <3>4. req[r].rt \in Chain
      BY <1>4 DEF RotateIssue, Chain, InHand, Rotating
    <3> HIDE DEF n
    <3>5. OneMore
      BY <3>2, <3>3, <3>4 DEF OneMore, Look
    <3>6. QED
      BY <2>1, <3>5, LeavesHands
  <2>3. CASE ~Exists(req[r].user)
    BY <1>4, <2>1, <2>3, KeptKnown, LeavesHands DEF RotateIssue
  <2>4. QED
    BY <2>2, <2>3
<1>5. CASE RefreshSign(r)
  BY <1>5, KeptKnown, FinishLeaves, LeavesHands DEF RefreshSign
<1>6. QED
  BY <1>1, <1>2, <1>3, <1>4, <1>5 DEF Refresh

LEMMA SignOutChain ==
    ASSUME TypeOK, NEW r \in Requests, SignOut(r) PROVE Leaves(r) /\ Known
<1>1. ASSUME NEW id \in Ids, LogoutRow(r, id) PROVE Leaves(r) /\ Known
  <2>1. Leaves(r)
    BY <1>1, ContinueLeaves DEF LogoutRow, Steps, Rotating
  <2>2. QED
    BY <1>1, <2>1, KeptKnown DEF LogoutRow
<1>2. CASE LogoutKeys(r) \/ KeysRevoke(r)
  BY <1>2, FinishLeaves, KeptKnown DEF LogoutKeys, KeysRevoke
<1>3. CASE LogoutAllRows(r)
  <2>1. Leaves(r)
    BY <1>3, ContinueLeaves DEF LogoutAllRows, Steps, Rotating
  <2>2. QED
    BY <1>3, <2>1, KeptKnown DEF LogoutAllRows
<1>4. CASE LogoutAllKeys(r)
  <2>1. Leaves(r)
    BY <1>4, ContinueLeaves DEF LogoutAllKeys, Steps, Rotating
  <2>2. QED
    BY <1>4, <2>1, KeptKnown DEF LogoutAllKeys
<1>5. CASE LogoutAllBump(r)
  BY <1>5, UpdateLeaves DEF LogoutAllBump, Steps, Rotating
<1>6. QED
  BY <1>1, <1>2, <1>3, <1>4, <1>5 DEF SignOut

LEMMA CredentialsChain ==
    ASSUME TypeOK, NEW r \in Requests, Credentials(r) PROVE Leaves(r) /\ Known
<1>1. ASSUME NEW u \in Users, NEW h \in DOMAIN Guarded, Authenticate(r, u, h)
      PROVE  Leaves(r) /\ Known
  <2>1. Guarded[h] \in Steps \ Rotating
    BY DEF Guarded, Steps, Rotating
  <2>2. Leaves(r)
    BY <1>1, <2>1, StartLeaves DEF Authenticate
  <2>3. QED
    BY <1>1, <2>2, KeptKnown DEF Authenticate
<1>2. ASSUME NEW new \in Secrets, PasswordRead(r, new) \/ PassphraseRead(r, new) \/ EnrollRead(r, new)
      PROVE  Leaves(r) /\ Known
  BY <1>2, ReadForLeaves DEF PasswordRead, PassphraseRead, EnrollRead, Steps, Rotating
<1>3. CASE PasswordWrite(r) \/ PassphraseWrite(r)
  BY <1>3, UpdateLeaves DEF PasswordWrite, PassphraseWrite, Steps, Rotating
<1>4. CASE EnrollWrite(r)
  <2>1. Leaves(r)
    BY <1>4, ContinueLeaves, FinishLeaves DEF EnrollWrite, Steps, Rotating
  <2>2. QED
    BY <1>4, <2>1, KeptKnown DEF EnrollWrite
<1>5. CASE UnlockRead(r) \/ DeviceRead(r)
  BY <1>5, ReadForLeaves DEF UnlockRead, DeviceRead, Steps, Rotating
<1>6. CASE UnlockCreate(r) \/ ReadRefused(r)
  BY <1>6, FinishLeaves, KeptKnown DEF UnlockCreate, ReadRefused
<1>7. QED
  BY <1>1, <1>2, <1>3, <1>4, <1>5, <1>6 DEF Credentials

LEMMA AdministrationChain ==
    ASSUME TypeOK, NEW r \in Requests, Administration(r) PROVE Leaves(r) /\ Known
<1>1. ASSUME NEW u \in Users, Remove(r, u) PROVE Leaves(r) /\ Known
  <2>1. Leaves(r)
    BY <1>1, StartLeaves DEF Remove, Steps, Rotating
  <2>2. QED
    BY <1>1, <2>1, KeptKnown DEF Remove
<1>2. ASSUME NEW u \in Users, NEW new \in Secrets, AdminReset(r, u, new) \/ RecoverUser(r, u, new)
      PROVE  Leaves(r) /\ Known
  <2>1. Leaves(r)
    BY <1>2, StartLeaves DEF AdminReset, RecoverUser, Steps, Rotating
  <2>2. QED
    BY <1>2, <2>1, KeptKnown DEF AdminReset, RecoverUser
<1>3. CASE RemoveKeys(r)
  <2>1. Leaves(r)
    BY <1>3, ContinueLeaves DEF RemoveKeys, Steps, Rotating
  <2>2. QED
    BY <1>3, <2>1, KeptKnown DEF RemoveKeys
<1>4. CASE RemoveWrite(r) \/ AdminResetWrite(r) \/ RecoverWrite(r)
  BY <1>4, UpdateLeaves DEF RemoveWrite, AdminResetWrite, RecoverWrite, Steps, Rotating
<1>5. QED
  BY <1>1, <1>2, <1>3, <1>4 DEF Administration

LEMMA EnvironmentChain ==
    ASSUME TypeOK, ChainInv, Environment PROVE (\A q \in Requests : Hands(q)) /\ Known
<1>1. ASSUME NEW u \in Users, Restore(u) \/ Purge(u)
      PROVE  (\A q \in Requests : Hands(q)) /\ Known
  BY <1>1, SameHands, KeptKnown DEF Restore, Purge
<1>2. ASSUME NEW rt \in refresh, RefreshExpires(rt)
      PROVE  (\A q \in Requests : Hands(q)) /\ Known
  <2> DEFINE n == [rt EXCEPT !.fresh = FALSE]
  <2>1. n.lineage = rt.lineage /\ n.tv = rt.tv /\ n.user = rt.user
    BY DEF TypeOK, RefreshRow
  <2>2. issued' = issued /\ req' = req /\ refresh' = (refresh \ {rt}) \cup {n}
    BY <1>2 DEF RefreshExpires
  <2> HIDE DEF n
  <2>3. Known
    BY <2>1, <2>2 DEF Known, Look, Chain
  <2>4. QED
    BY <2>2, <2>3, SameHands
<1>3. ASSUME NEW s \in sessions, SessionExpires(s)
      PROVE  (\A q \in Requests : Hands(q)) /\ Known
  BY <1>3, SameHands, KeptKnown DEF SessionExpires
<1>4. CASE Restart
  BY <1>4, KeptKnown DEF Restart, Hands, NoRequest, Rotating
<1>5. QED
  BY <1>1, <1>2, <1>3, <1>4 DEF Environment

LEMMA NextChain ==
    ASSUME TypeOK, ChainInv, [Next]_vars
    PROVE  (\A q \in Requests : Hands(q)) /\ (Known \/ OneMore)
<1>1. ASSUME NEW r \in Requests, SignIn(r) \/ SignOut(r) \/ Credentials(r) \/ Administration(r)
      PROVE  (\A q \in Requests : Hands(q)) /\ (Known \/ OneMore)
  BY <1>1, SignInChain, SignOutChain, CredentialsChain, AdministrationChain, LeavesHands
<1>2. ASSUME NEW r \in Requests, Refresh(r)
      PROVE  (\A q \in Requests : Hands(q)) /\ (Known \/ OneMore)
  BY <1>2, RefreshChain
<1>3. CASE Environment
  BY <1>3, EnvironmentChain
<1>4. CASE UNCHANGED vars
  BY <1>4, SameHands, KeptKnown DEF vars
<1>5. QED
  BY <1>1, <1>2, <1>3, <1>4 DEF Next

-----------------------------------------------------------------------------
(* ChainInv is inductive: a new row either joins a chain or has a lineage  *)
(* nobody has, and a request holds only rows of a chain.                   *)
LEMMA ChainStep == ASSUME TypeOK, ChainInv, [Next]_vars PROVE ChainInv'
<1>1. (\A q \in Requests : Hands(q)) /\ (Known \/ OneMore)
  BY NextChain
<1>2. /\ InHand' \subseteq Chain
      /\ \A r \in Requests : req'[r].at \in Rotating => req'[r].user = req'[r].rt.user
      /\ \A r \in Requests : req'[r].at = "rotate.issue" => req'[r].seen = req'[r].rt.tv
  BY <1>1 DEF InHand, Hands, Rotating
<1>3. CASE Known
  <2>1. \A t \in Chain' : Look(t)
    BY <1>2, <1>3 DEF Chain, Known, Look
  <2>2. (\A a \in Chain : a.lineage \in 1..issued)'
    BY <1>3, <2>1 DEF ChainInv, Known, Look
  <2>3. (\A a, b \in Chain : a.lineage = b.lineage => a.tv = b.tv /\ a.user = b.user)'
    BY <2>1 DEF ChainInv, Look
  <2>4. QED
    BY <1>2, <2>2, <2>3 DEF ChainInv
<1>4. CASE OneMore
  <2>1. PICK n \in RefreshRow : /\ Look(n) \/ n.lineage = issued + 1
                               /\ refresh' = refresh \cup {n}
    BY <1>4 DEF OneMore
  <2>2. issued' = issued + 1 /\ issued \in Nat
    BY <1>4, BoundsAssumption DEF OneMore, TypeOK, Ids
  <2>3. \A t \in Chain' : t = n \/ Look(t)
    BY <1>2, <2>1 DEF Chain, Look
  <2>4. \A t \in Chain' : Look(t) => t.lineage \in 1..issued
    BY DEF ChainInv, Look
  <2>5. (\A a \in Chain : a.lineage \in 1..issued)'
    BY <2>1, <2>2, <2>3, <2>4
  <2>6. \A a, b \in Chain' : Look(a) /\ Look(b) /\ a.lineage = b.lineage
                                => a.tv = b.tv /\ a.user = b.user
    BY DEF ChainInv, Look
  <2>7. \A a, b \in Chain' : a.lineage = b.lineage => a.tv = b.tv /\ a.user = b.user
    BY <2>1, <2>2, <2>3, <2>4, <2>6
  <2>8. QED
    BY <1>2, <2>5, <2>7 DEF ChainInv
<1>5. QED
  BY <1>1, <1>3, <1>4

(* However rotations, sign-ins and sign-outs overlap, all refresh tokens   *)
(* of one device's chain carry one tokenVersion (RefreshTokenService).     *)
THEOREM ChainsKeepVersion == Spec => []LineageKeepsVersion
<1>1. Init => ChainInv
  BY DEF Init, ChainInv, Chain, InHand, NoRequest, Rotating
<1>2. TypeOK /\ ChainInv /\ [Next]_vars => ChainInv'
  BY ChainStep
<1>3. ChainInv => LineageKeepsVersion
  BY DEF ChainInv, Chain, LineageKeepsVersion
<1>4. QED
  BY <1>1, <1>2, <1>3, TypeCorrect, PTL DEF Spec

-----------------------------------------------------------------------------
(* What tokenVersion guarantees whatever requests overlap: dead tokens stay*)
(* dead, and AuthSessions implements Revocation. The effects a step can    *)
(* have on the account versions and the tokens:                            *)
SameAccounts ==
    \A v \in Users : accounts'[v].tv = accounts[v].tv /\ (Exists(v)' <=> Exists(v))

(* Nothing new is accepted.                                                *)
Quiet ==
    /\ \A v \in Users : accounts'[v].tv = accounts[v].tv /\ (Exists(v)' => Exists(v))
    /\ access' = access
    /\ \A t \in refresh' : t \in refresh \/ (~t.fresh /\ t.tv <= accounts[t.user].tv)

(* One access token is signed for a version some request knows of.         *)
Signs(r) ==
    /\ SameAccounts /\ refresh' = refresh
    /\ \E t \in AccessToken :
         /\ access' = access \cup {t} /\ t.user = req[r].user
         /\ t.tv \in {req[r].row.tv, accounts[req[r].user].tv}

(* One refresh token is issued for a version the request has read.         *)
Issues(r) ==
    /\ SameAccounts /\ access' = access
    /\ \E t \in RefreshRow :
         refresh' = refresh \cup {t} /\ t.user = req[r].user /\ t.tv = req[r].seen

(* One account's version is raised and no token changes.                   *)
Bumps(u) ==
    /\ accounts'[u].tv = accounts[u].tv + 1 /\ Exists(u)' /\ Exists(u)
    /\ \A v \in Users \ {u} : accounts'[v] = accounts[v]
    /\ access' = access /\ refresh' = refresh

Effect ==
    \/ Quiet
    \/ \E r \in Requests : Signs(r) \/ Issues(r)
    \/ \E u \in Users : Bumps(u)

(* What a request may capture in a step.                                   *)
Captures(q) ==
    /\ \/ req'[q].row = NoAccount
       \/ req'[q].row = accounts[req'[q].user]
       \/ req'[q].row = req[q].row /\ req'[q].user = req[q].user
    /\ \/ req'[q].seen = 0
       \/ req'[q].seen = accounts[req'[q].user].tv
       \/ req'[q].seen = req[q].seen /\ req'[q].user = req[q].user

LEMMA StartCaptures ==
    ASSUME TypeOK, NEW r \in Requests, NEW u \in Users, NEW step \in Steps,
           NEW row \in {NoAccount, accounts[u]}, NEW secret \in Secrets \cup {None},
           Start(r, u, step, row, secret)
    PROVE  \A q \in Requests : Captures(q)
<1> DEFINE new == [NoRequest EXCEPT !.at = step, !.user = u, !.row = row, !.secret = secret]
<1>1. new.row = row /\ new.user = u /\ new.seen = 0
  BY DEF NoRequest
<1>2. req' = [req EXCEPT ![r] = new]
  BY DEF Start
<1> HIDE DEF new
<1>3. QED
  BY <1>1, <1>2 DEF Captures, TypeOK

LEMMA ContinueCaptures ==
    ASSUME TypeOK, NEW r \in Requests, NEW step \in Steps, Continue(r, step)
    PROVE  \A q \in Requests : Captures(q)
BY DEF Continue, Captures, TypeOK, Request

LEMMA FinishCaptures ==
    ASSUME TypeOK, NEW r \in Requests, Finish(r)
    PROVE  \A q \in Requests : Captures(q)
BY DEF Finish, Captures, NoRequest, TypeOK

LEMMA ReadForEffect ==
    ASSUME TypeOK, NEW r \in Requests, NEW step \in Steps,
           NEW secret \in Secrets \cup {None}, ReadFor(r, step, secret)
    PROVE  Effect /\ \A q \in Requests : Captures(q)
<1>1. \A q \in Requests : Captures(q)
  BY DEF ReadFor, Mine, Captures, TypeOK, Request
<1>2. Quiet
  BY DEF ReadFor, Quiet, Exists
<1>3. QED
  BY <1>1, <1>2 DEF Effect

LEMMA UpdateEffect ==
    ASSUME TypeOK, NEW r \in Requests, NEW new \in Account,
           new.state # "purged" \/ ~Exists(req[r].user), NEW next \in Steps,
           UpdateAccount(r, new, next)
    PROVE  Effect /\ \A q \in Requests : Captures(q)
<1>1. PICK u \in Users : u = req[r].user
  BY DEF TypeOK, Request
<1> DEFINE a == [new EXCEPT !.tv = accounts[u].tv + 1]
<1>2. \A q \in Requests : Captures(q)
  BY ContinueCaptures, FinishCaptures DEF UpdateAccount
<1>3. CASE Exists(u)
  <2>1. a.tv = accounts[u].tv + 1 /\ a.state # "purged"
    BY <1>1, <1>3 DEF Account
  <2>2. /\ accounts' = [accounts EXCEPT ![u] = a]
        /\ access' = access /\ refresh' = refresh
    BY <1>1, <1>3 DEF UpdateAccount
  <2> HIDE DEF a
  <2>3. accounts'[u] = a /\ \A v \in Users \ {u} : accounts'[v] = accounts[v]
    BY <1>1, <2>2 DEF TypeOK
  <2>4. Bumps(u)
    BY <1>3, <2>1, <2>2, <2>3 DEF Bumps, Exists
  <2>5. QED
    BY <1>1, <1>2, <2>4 DEF Effect
<1>4. CASE ~Exists(u)
  <2>1. Quiet
    BY <1>1, <1>4 DEF Quiet, UpdateAccount, Exists
  <2>2. QED
    BY <1>2, <2>1 DEF Effect
<1>5. QED
  BY <1>3, <1>4

LEMMA SignInCaptures ==
    ASSUME TypeOK, NEW r \in Requests, SignIn(r)
    PROVE  \A q \in Requests : Captures(q)
<1>1. ASSUME NEW u \in Users, (\E s \in Secrets : LoginRead(r, u, s)) \/ GoogleRead(r, u)
      PROVE  \A q \in Requests : Captures(q)
  <2>1. PICK s \in Secrets \cup {None} : SignInStart(r, u, s)
    BY <1>1 DEF LoginRead, GoogleRead
  <2>2. QED
    BY <2>1, StartCaptures DEF SignInStart, Steps
<1>2. CASE SignInRestore(r) \/ SignInSign(r)
  BY <1>2, ContinueCaptures, FinishCaptures DEF SignInRestore, SignInSign, Steps
<1>3. CASE CookieRead(r)
  <2>1. CASE Exists(req[r].user)
    BY <1>3, <2>1 DEF CookieRead, Captures, TypeOK, Request
  <2>2. QED
    BY <1>3, <2>1, FinishCaptures DEF CookieRead
<1>4. CASE CookieIssue(r)
  BY <1>4, FinishCaptures DEF CookieIssue
<1>5. QED
  BY <1>1, <1>2, <1>3, <1>4 DEF SignIn

LEMMA SignInEffect == ASSUME TypeOK, NEW r \in Requests, SignIn(r) PROVE Effect
<1>1. ASSUME \/ \E u \in Users, s \in Secrets : LoginRead(r, u, s)
             \/ \E u \in Users : GoogleRead(r, u)
             \/ CookieRead(r)
      PROVE  Quiet
  BY <1>1 DEF LoginRead, GoogleRead, CookieRead, Quiet, Exists
<1>2. CASE SignInRestore(r)
  <2>1. Quiet
    BY <1>2 DEF SignInRestore, Quiet, Exists, TypeOK, Account, Request
  <2>2. QED
    BY <2>1 DEF Effect
<1>3. CASE SignInSign(r)
  <2> DEFINE t == [user |-> req[r].user, tv |-> req[r].row.tv, basis |-> req[r].row.tv]
  <2>1. CASE access' = access
    <3>1. Quiet
      BY <1>3, <2>1 DEF SignInSign, Quiet, Exists
    <3>2. QED
      BY <3>1 DEF Effect
  <2>2. CASE access' # access
    <3>1. access' = access \cup {t}
      BY <1>3, <2>2 DEF SignInSign
    <3>2. t \in AccessToken /\ t.user = req[r].user /\ t.tv = req[r].row.tv
      BY DEF AccessToken, TypeOK, Request, Account
    <3> HIDE DEF t
    <3>3. Signs(r)
      BY <1>3, <3>1, <3>2 DEF SignInSign, Signs, SameAccounts, Exists
    <3>4. QED
      BY <3>3 DEF Effect
  <2>3. QED
    BY <2>1, <2>2
<1>4. CASE CookieIssue(r)
  <2> DEFINE u == req[r].user
             t == [id |-> issued + 1, user |-> u, tv |-> req[r].seen, fresh |-> TRUE,
                   basis |-> req[r].row.tv, lineage |-> issued + 1]
  <2>1. CASE Exists(u)
    <3>1. issued + 1 \in Ids
      BY <1>4, <2>1, BoundsAssumption DEF CookieIssue, Issue, TypeOK, Ids
    <3>2. t \in RefreshRow /\ t.user = u /\ t.tv = req[r].seen
      BY <3>1 DEF TypeOK, Request, Account, RefreshRow
    <3>3. refresh' = refresh \cup {t}
      BY <1>4, <2>1 DEF CookieIssue, Issue
    <3> HIDE DEF t
    <3>4. Issues(r)
      BY <1>4, <3>2, <3>3 DEF CookieIssue, Issues, SameAccounts, Exists
    <3>5. QED
      BY <3>4 DEF Effect
  <2>2. CASE ~Exists(u)
    <3>1. Quiet
      BY <1>4, <2>2 DEF CookieIssue, Quiet, Exists
    <3>2. QED
      BY <3>1 DEF Effect
  <2>3. QED
    BY <2>1, <2>2
<1>5. QED
  BY <1>1, <1>2, <1>3, <1>4 DEF SignIn, Effect

LEMMA RefreshCaptures ==
    ASSUME TypeOK, NEW r \in Requests, Refresh(r)
    PROVE  \A q \in Requests : Captures(q)
<1>1. ASSUME NEW rt \in refresh, RotateFind(r, rt) PROVE \A q \in Requests : Captures(q)
  BY <1>1 DEF RotateFind, Captures, NoRequest, TypeOK
<1>2. CASE RotateConsume(r) \/ RotateIssue(r) \/ RefreshSign(r)
  BY <1>2, ContinueCaptures, FinishCaptures DEF RotateConsume, RotateIssue, RefreshSign, Steps
<1>3. CASE RotateCheck(r)
  <2>1. CASE Exists(req[r].user) /\ accounts[req[r].user].tv = req[r].rt.tv
    BY <1>3, <2>1 DEF RotateCheck, Captures, TypeOK, Request
  <2>2. QED
    BY <1>3, <2>1, FinishCaptures DEF RotateCheck
<1>4. QED
  BY <1>1, <1>2, <1>3 DEF Refresh

LEMMA RefreshEffect == ASSUME TypeOK, NEW r \in Requests, Refresh(r) PROVE Effect
<1>1. ASSUME (\E rt \in refresh : RotateFind(r, rt)) \/ RotateConsume(r) \/ RotateCheck(r)
      PROVE  Quiet
  BY <1>1 DEF RotateFind, RotateConsume, RotateCheck, Quiet, Exists
<1>2. CASE RotateIssue(r)
  <2> DEFINE u == req[r].user
             t == [id |-> issued + 1, user |-> u, tv |-> req[r].seen, fresh |-> TRUE,
                   basis |-> req[r].rt.basis, lineage |-> req[r].rt.lineage]
  <2>1. CASE Exists(u)
    <3>1. issued + 1 \in Ids
      BY <1>2, <2>1, BoundsAssumption DEF RotateIssue, Issue, TypeOK, Ids
    <3>2. t \in RefreshRow /\ t.user = u /\ t.tv = req[r].seen
      BY <3>1 DEF TypeOK, Request, RefreshRow
    <3>3. refresh' = refresh \cup {t}
      BY <1>2, <2>1 DEF RotateIssue, Issue
    <3> HIDE DEF t
    <3>4. Issues(r)
      BY <1>2, <3>2, <3>3 DEF RotateIssue, Issues, SameAccounts, Exists
    <3>5. QED
      BY <3>4 DEF Effect
  <2>2. CASE ~Exists(u)
    <3>1. Quiet
      BY <1>2, <2>2 DEF RotateIssue, Quiet, Exists
    <3>2. QED
      BY <3>1 DEF Effect
  <2>3. QED
    BY <2>1, <2>2
<1>3. CASE RefreshSign(r)
  <2> DEFINE u == req[r].user
             t == [user |-> u, tv |-> accounts[u].tv, basis |-> req[r].rt.basis]
  <2>1. CASE Exists(u)
    <3>1. access' = access \cup {t}
      BY <1>3, <2>1 DEF RefreshSign
    <3>2. t \in AccessToken /\ t.user = u /\ t.tv = accounts[u].tv
      BY DEF AccessToken, TypeOK, Request, RefreshRow, Account
    <3> HIDE DEF t
    <3>3. Signs(r)
      BY <1>3, <3>1, <3>2 DEF RefreshSign, Signs, SameAccounts, Exists
    <3>4. QED
      BY <3>3 DEF Effect
  <2>2. CASE ~Exists(u)
    <3>1. Quiet
      BY <1>3, <2>2 DEF RefreshSign, Quiet, Exists
    <3>2. QED
      BY <3>1 DEF Effect
  <2>3. QED
    BY <2>1, <2>2
<1>4. QED
  BY <1>1, <1>2, <1>3 DEF Refresh, Effect

LEMMA SignOutEffect ==
    ASSUME TypeOK, NEW r \in Requests, SignOut(r)
    PROVE  Effect /\ \A q \in Requests : Captures(q)
<1>1. ASSUME \/ \E id \in Ids : LogoutRow(r, id)
             \/ LogoutKeys(r) \/ KeysRevoke(r) \/ LogoutAllRows(r) \/ LogoutAllKeys(r)
      PROVE  Effect /\ \A q \in Requests : Captures(q)
  <2>1. Quiet
    BY <1>1 DEF LogoutRow, LogoutKeys, KeysRevoke, LogoutAllRows, LogoutAllKeys, Quiet, Exists
  <2>2. \A q \in Requests : Captures(q)
    BY <1>1, ContinueCaptures, FinishCaptures
       DEF LogoutRow, LogoutKeys, KeysRevoke, LogoutAllRows, LogoutAllKeys, Steps
  <2>3. QED
    BY <2>1, <2>2 DEF Effect
<1>2. CASE LogoutAllBump(r)
  <2>1. Mine(r) \in Account
    BY DEF Mine, TypeOK, Request
  <2>2. QED
    BY <1>2, <2>1, UpdateEffect DEF LogoutAllBump, Mine, Exists, Steps
<1>3. QED
  BY <1>1, <1>2 DEF SignOut

LEMMA CredentialsEffect ==
    ASSUME TypeOK, NEW r \in Requests, Credentials(r)
    PROVE  Effect /\ \A q \in Requests : Captures(q)
<1>1. Mine(r) \in Account /\ req[r].secret \in Secrets \cup {None}
  BY DEF Mine, TypeOK, Request
<1>2. ASSUME NEW u \in Users, NEW h \in DOMAIN Guarded, Authenticate(r, u, h)
      PROVE  Effect /\ \A q \in Requests : Captures(q)
  <2>1. Guarded[h] \in Steps
    BY DEF Guarded, Steps
  <2>2. \A q \in Requests : Captures(q)
    BY <1>2, <2>1, StartCaptures DEF Authenticate
  <2>3. Quiet
    BY <1>2 DEF Authenticate, Quiet, Exists
  <2>4. QED
    BY <2>2, <2>3 DEF Effect
<1>3. ASSUME NEW new \in Secrets,
             PasswordRead(r, new) \/ PassphraseRead(r, new) \/ EnrollRead(r, new)
      PROVE  Effect /\ \A q \in Requests : Captures(q)
  BY <1>3, ReadForEffect DEF PasswordRead, PassphraseRead, EnrollRead, Steps
<1>4. CASE UnlockRead(r) \/ DeviceRead(r)
  BY <1>1, <1>4, ReadForEffect DEF UnlockRead, DeviceRead, Steps, Account
<1>5. CASE PasswordWrite(r)
  <2>1. /\ WithPassword(Mine(r), req[r].secret) \in Account
        /\ WithPassword(Mine(r), req[r].secret).state # "purged" \/ ~Exists(req[r].user)
    BY <1>1 DEF WithPassword, Account, Mine, Exists
  <2>2. QED
    BY <1>5, <2>1, UpdateEffect DEF PasswordWrite, Steps
<1>6. CASE PassphraseWrite(r)
  <2>1. /\ [Mine(r) EXCEPT !.kek = req[r].secret] \in Account
        /\ [Mine(r) EXCEPT !.kek = req[r].secret].state # "purged" \/ ~Exists(req[r].user)
    BY <1>1 DEF Account, Mine, Exists
  <2>2. QED
    BY <1>6, <2>1, UpdateEffect DEF PassphraseWrite, Steps
<1>7. CASE EnrollWrite(r)
  <2>1. \A q \in Requests : Captures(q)
    BY <1>7, ContinueCaptures, FinishCaptures DEF EnrollWrite, Steps
  <2>2. Quiet
    <3>1. PICK u \in Users : u = req[r].user
      BY DEF TypeOK, Request
    <3>2. CASE Exists(u)
      BY <3>1, <3>2, <1>7 DEF EnrollWrite, Quiet, Exists, TypeOK, Account
    <3>3. CASE ~Exists(u)
      BY <3>1, <3>3, <1>7 DEF EnrollWrite, Quiet, Exists
    <3>4. QED
      BY <3>2, <3>3
  <2>3. QED
    BY <2>1, <2>2 DEF Effect
<1>8. CASE UnlockCreate(r) \/ ReadRefused(r)
  <2>1. \A q \in Requests : Captures(q)
    BY <1>8, FinishCaptures DEF UnlockCreate, ReadRefused
  <2>2. Quiet
    BY <1>8 DEF UnlockCreate, ReadRefused, Quiet, Exists
  <2>3. QED
    BY <2>1, <2>2 DEF Effect
<1>9. QED
  BY <1>2, <1>3, <1>4, <1>5, <1>6, <1>7, <1>8 DEF Credentials

LEMMA AdministrationEffect ==
    ASSUME TypeOK, NEW r \in Requests, Administration(r)
    PROVE  Effect /\ \A q \in Requests : Captures(q)
<1>1. Mine(r) \in Account /\ req[r].secret \in Secrets \cup {None}
  BY DEF Mine, TypeOK, Request
<1>2. ASSUME NEW u \in Users,
             \/ Remove(r, u)
             \/ \E new \in Secrets : AdminReset(r, u, new) \/ RecoverUser(r, u, new)
      PROVE  Effect /\ \A q \in Requests : Captures(q)
  <2>1. \A q \in Requests : Captures(q)
    BY <1>2, StartCaptures DEF Remove, AdminReset, RecoverUser, Steps
  <2>2. Quiet
    BY <1>2 DEF Remove, AdminReset, RecoverUser, Quiet, Exists
  <2>3. QED
    BY <2>1, <2>2 DEF Effect
<1>3. CASE RemoveKeys(r)
  <2>1. \A q \in Requests : Captures(q)
    BY <1>3, ContinueCaptures DEF RemoveKeys, Steps
  <2>2. Quiet
    BY <1>3 DEF RemoveKeys, Quiet, Exists
  <2>3. QED
    BY <2>1, <2>2 DEF Effect
<1>4. CASE RemoveWrite(r)
  <2>1. /\ [Mine(r) EXCEPT !.state = "deleted"] \in Account
        /\ [Mine(r) EXCEPT !.state = "deleted"].state # "purged"
    BY <1>1 DEF Account
  <2>2. QED
    BY <1>4, <2>1, UpdateEffect DEF RemoveWrite, Steps
<1>5. CASE AdminResetWrite(r)
  <2>1. /\ WithPassword(Mine(r), req[r].secret) \in Account
        /\ WithPassword(Mine(r), req[r].secret).state # "purged" \/ ~Exists(req[r].user)
    BY <1>1 DEF WithPassword, Account, Mine, Exists
  <2>2. QED
    BY <1>5, <2>1, UpdateEffect DEF AdminResetWrite, Steps
<1>6. CASE RecoverWrite(r)
  <2>1. /\ [Mine(r) EXCEPT !.kek = req[r].secret] \in Account
        /\ [Mine(r) EXCEPT !.kek = req[r].secret].state # "purged" \/ ~Exists(req[r].user)
    BY <1>1 DEF Account, Mine, Exists
  <2>2. QED
    BY <1>6, <2>1, UpdateEffect DEF RecoverWrite, Steps
<1>7. QED
  BY <1>2, <1>3, <1>4, <1>5, <1>6 DEF Administration

LEMMA EnvironmentEffect ==
    ASSUME TypeOK, NotAhead, Environment
    PROVE  Effect /\ \A q \in Requests : Captures(q)
<1>1. \A q \in Requests : Captures(q)
  BY DEF Environment, Restore, Purge, RefreshExpires, SessionExpires, Restart, Captures,
         NoRequest, TypeOK
<1>2. ASSUME NEW u \in Users, Restore(u) \/ Purge(u) PROVE Quiet
  BY <1>2 DEF Restore, Purge, Quiet, Exists, TypeOK, Account
<1>3. ASSUME NEW rt \in refresh, RefreshExpires(rt) PROVE Quiet
  <2> DEFINE old == [rt EXCEPT !.fresh = FALSE]
  <2>1. ~old.fresh /\ old.tv = rt.tv /\ old.user = rt.user
    BY DEF TypeOK, RefreshRow
  <2>2. refresh' = (refresh \ {rt}) \cup {old} /\ rt.tv <= accounts[rt.user].tv
    BY <1>3 DEF RefreshExpires, NotAhead
  <2> HIDE DEF old
  <2>3. QED
    BY <1>3, <2>1, <2>2 DEF RefreshExpires, Quiet, Exists
<1>4. ASSUME (\E s \in sessions : SessionExpires(s)) \/ Restart PROVE Quiet
  BY <1>4 DEF SessionExpires, Restart, Quiet, Exists
<1>5. QED
  BY <1>1, <1>2, <1>3, <1>4 DEF Environment, Effect

LEMMA NextEffect ==
    ASSUME TypeOK, NotAhead, [Next]_vars
    PROVE  Effect /\ \A q \in Requests : Captures(q)
<1>1. CASE UNCHANGED vars
  <2>1. Quiet /\ \A q \in Requests : Captures(q)
    BY <1>1 DEF vars, Quiet, Captures, Exists
  <2>2. QED
    BY <2>1 DEF Effect
<1>2. QED
  BY <1>1, SignInCaptures, SignInEffect, RefreshCaptures, RefreshEffect, SignOutEffect,
     CredentialsEffect, AdministrationEffect, EnvironmentEffect DEF Next

-----------------------------------------------------------------------------
(* Versions only grow, and nothing is ahead of them.                       *)

LEMMA VersionsGrow ==
    ASSUME TypeOK, Effect PROVE \A u \in Users : accounts[u].tv <= accounts'[u].tv
<1>1. \A u \in Users : accounts[u].tv \in Nat
  BY BoundsAssumption DEF TypeOK, Account, Versions
<1>2. CASE Quiet
  BY <1>1, <1>2 DEF Quiet
<1>3. ASSUME NEW r \in Requests, Signs(r) \/ Issues(r)
      PROVE  \A u \in Users : accounts[u].tv <= accounts'[u].tv
  BY <1>1, <1>3 DEF Signs, Issues, SameAccounts
<1>4. ASSUME NEW v \in Users, Bumps(v)
      PROVE  \A u \in Users : accounts[u].tv <= accounts'[u].tv
  BY <1>1, <1>4 DEF Bumps
<1>5. QED
  BY <1>2, <1>3, <1>4 DEF Effect

LEMMA InitNotAhead == Init => NotAhead
<1> SUFFICES ASSUME Init PROVE NotAhead
  OBVIOUS
<1>1. AnyUser \in Users
  BY UsersAssumption DEF AnyUser
<1>2. QED
  BY <1>1 DEF Init, NotAhead, NoRequest, NoAccount

LEMMA NextNotAhead ==
    ASSUME TypeOK, TypeOK', NotAhead, Effect, \A q \in Requests : Captures(q)
    PROVE  NotAhead'
<1>1. /\ \A u \in Users : accounts[u].tv \in Nat /\ accounts'[u].tv \in Nat
      /\ \A u \in Users : accounts[u].tv <= accounts'[u].tv
  BY VersionsGrow, BoundsAssumption DEF TypeOK, Account, Versions
<1>2. \A r \in Requests : /\ req[r].row.tv \in Nat /\ req[r].seen \in Nat
                          /\ req[r].user \in Users /\ req'[r].user \in Users
  BY BoundsAssumption DEF TypeOK, Request, Account, Versions
<1>3. ASSUME NEW q \in Requests
      PROVE  /\ req'[q].row.tv <= accounts'[req'[q].user].tv
             /\ req'[q].seen <= accounts'[req'[q].user].tv
  <2>1. /\ req[q].row.tv <= accounts[req[q].user].tv
        /\ req[q].seen <= accounts[req[q].user].tv
    BY DEF NotAhead
  <2>2. /\ \/ req'[q].row = NoAccount
           \/ req'[q].row = accounts[req'[q].user]
           \/ req'[q].row = req[q].row /\ req'[q].user = req[q].user
        /\ \/ req'[q].seen = 0
           \/ req'[q].seen = accounts[req'[q].user].tv
           \/ req'[q].seen = req[q].seen /\ req'[q].user = req[q].user
    BY DEF Captures
  <2>3. req'[q].row.tv <= accounts'[req'[q].user].tv
    BY <1>1, <1>2, <2>1, <2>2 DEF NoAccount
  <2>4. req'[q].seen <= accounts'[req'[q].user].tv
    BY <1>1, <1>2, <2>1, <2>2
  <2>5. QED
    BY <2>3, <2>4
<1>4. ASSUME NEW t \in access' \cup refresh' PROVE t.tv <= accounts'[t.user].tv
  <2>1. t.user \in Users /\ t.tv \in Nat
    BY BoundsAssumption DEF TypeOK, AccessToken, RefreshRow, Versions
  <2>2. SUFFICES t.tv <= accounts[t.user].tv
    BY <1>1, <2>1
  <2>3. CASE Quiet
    BY <2>3 DEF Quiet, NotAhead
  <2>4. ASSUME NEW r \in Requests, Signs(r) PROVE t.tv <= accounts[t.user].tv
    BY <1>1, <1>2, <2>4 DEF Signs, NotAhead
  <2>5. ASSUME NEW r \in Requests, Issues(r) PROVE t.tv <= accounts[t.user].tv
    BY <1>1, <1>2, <2>5 DEF Issues, NotAhead
  <2>6. ASSUME NEW u \in Users, Bumps(u) PROVE t.tv <= accounts[t.user].tv
    BY <2>6 DEF Bumps, NotAhead
  <2>7. QED
    BY <2>3, <2>4, <2>5, <2>6 DEF Effect
<1>5. QED
  BY <1>3, <1>4 DEF NotAhead

VersionInv == TypeOK /\ NotAhead

LEMMA NextVersionInv == VersionInv /\ [Next]_vars => VersionInv'
BY NextTypeOK, NextEffect, NextNotAhead DEF VersionInv

(* No JWT, refresh token or captured row is ever ahead of its account.     *)
THEOREM VersionsBound == Spec => []VersionInv
<1>1. Init => VersionInv
  BY InitTypeOK, InitNotAhead DEF VersionInv
<1>2. QED
  BY <1>1, NextVersionInv, PTL DEF Spec

(* A token rejected for its version is rejected for good, whatever handlers*)
(* overlap: versions never go down or are used again.                      *)
THEOREM RevocationIsFinal == Spec => DeadStaysDead
<1>1. VersionInv /\ [Next]_vars =>
        [\A t \in access \cup refresh :
           t.tv # accounts[t.user].tv => t.tv # accounts'[t.user].tv]_vars
  <2> SUFFICES ASSUME VersionInv, [Next]_vars, NEW t \in access \cup refresh,
                      t.tv # accounts[t.user].tv
               PROVE  t.tv # accounts'[t.user].tv
    OBVIOUS
  <2>1. TypeOK' /\ Effect
    BY NextTypeOK, NextEffect DEF VersionInv
  <2>2. t.user \in Users /\ t.tv \in Nat
    BY BoundsAssumption DEF VersionInv, TypeOK, AccessToken, RefreshRow, Versions
  <2>3. accounts[t.user].tv \in Nat /\ accounts'[t.user].tv \in Nat
    BY <2>1, <2>2, BoundsAssumption DEF VersionInv, TypeOK, Account, Versions
  <2>4. t.tv <= accounts[t.user].tv /\ accounts[t.user].tv <= accounts'[t.user].tv
    BY <2>1, <2>2, VersionsGrow DEF VersionInv, NotAhead
  <2>5. QED
    BY <2>2, <2>3, <2>4
<1>2. QED
  BY <1>1, VersionsBound, PTL DEF Spec, DeadStaysDead

-----------------------------------------------------------------------------
(* AuthSessions implements Revocation.                                     *)

Version == [u \in Users |-> accounts[u].tv]
Live == [u \in Users |-> Usable(u)]

LEMMA InitRevoke == Init => Revoke!Init
BY DEF Init, Revoke!Init, Usable, UsableAccess, UsableRefresh

LEMMA QuietWithdraws ==
    ASSUME VersionInv, TypeOK', Quiet PROVE Revoke!Withdraw
<1>1. Version' = Version
  BY DEF Quiet, Version
<1>2. ASSUME NEW u \in Users PROVE Usable(u)' \subseteq Usable(u)
  BY DEF Quiet, Usable, UsableAccess, UsableRefresh, Accepts
<1>3. QED
  BY <1>1, <1>2 DEF Revoke!Withdraw, Version

(* Adding one token changes the accepted set of one account at most.       *)
LEMMA OneMoreGrants ==
    ASSUME NEW v \in Users, NEW t, Version' = Version,
           \A u \in Users \ {v} : Usable(u)' = Usable(u),
           Usable(v)' = Usable(v) \/ Usable(v)' = Usable(v) \cup {t}
    PROVE  Revoke!Next \/ (Version' = Version /\ Live' = Live)
<1>1. CASE Usable(v)' = Usable(v)
  BY <1>1 DEF Live
<1>2. CASE Usable(v)' = Usable(v) \cup {t}
  <2>1. Live' = [Live EXCEPT ![v] = @ \cup {t}]
    BY <1>2 DEF Live
  <2>2. t \in Live'[v]
    BY <1>2 DEF Live
  <2>3. Revoke!Grant(v)
    BY <2>1, <2>2 DEF Revoke!Grant, Live, Version
  <2>4. QED
    BY <2>3 DEF Revoke!Next
<1>3. QED
  BY <1>1, <1>2

LEMMA SignsGrants ==
    ASSUME VersionInv, NEW r \in Requests, Signs(r)
    PROVE  Revoke!Next \/ (Version' = Version /\ Live' = Live)
<1>1. PICK t \in AccessToken : access' = access \cup {t}
  BY DEF Signs
<1>2. t.user \in Users
  BY DEF AccessToken
<1>3. Version' = Version
  BY DEF Signs, SameAccounts, Version
<1>4. \A u \in Users : UsableRefresh(u)' = UsableRefresh(u)
  BY DEF Signs, SameAccounts, UsableRefresh
<1>5. ASSUME NEW u \in Users, u # t.user PROVE UsableAccess(u)' = UsableAccess(u)
  BY <1>1, <1>5 DEF Signs, SameAccounts, UsableAccess, Accepts
<1>6. \/ UsableAccess(t.user)' = UsableAccess(t.user)
      \/ UsableAccess(t.user)' = UsableAccess(t.user) \cup {t}
  BY <1>1, <1>2 DEF Signs, SameAccounts, UsableAccess, Accepts
<1>7. QED
  BY <1>2, <1>3, <1>4, <1>5, <1>6, OneMoreGrants DEF Usable

LEMMA IssuesGrants ==
    ASSUME VersionInv, NEW r \in Requests, Issues(r)
    PROVE  Revoke!Next \/ (Version' = Version /\ Live' = Live)
<1>1. PICK t \in RefreshRow : refresh' = refresh \cup {t}
  BY DEF Issues
<1>2. t.user \in Users
  BY DEF RefreshRow
<1>3. Version' = Version
  BY DEF Issues, SameAccounts, Version
<1>4. \A u \in Users : UsableAccess(u)' = UsableAccess(u)
  BY DEF Issues, SameAccounts, UsableAccess, Accepts, VersionInv, TypeOK, AccessToken
<1>5. ASSUME NEW u \in Users, u # t.user PROVE UsableRefresh(u)' = UsableRefresh(u)
  BY <1>1, <1>5 DEF Issues, SameAccounts, UsableRefresh
<1>6. \/ UsableRefresh(t.user)' = UsableRefresh(t.user)
      \/ UsableRefresh(t.user)' = UsableRefresh(t.user) \cup {t}
  BY <1>1, <1>2 DEF Issues, SameAccounts, UsableRefresh
<1>7. QED
  BY <1>2, <1>3, <1>4, <1>5, <1>6, OneMoreGrants DEF Usable

LEMMA BumpsRevokes ==
    ASSUME VersionInv, NEW v \in Users, Bumps(v) PROVE Revoke!RevokeAll(v)
<1>1. Version' = [Version EXCEPT ![v] = @ + 1]
  BY DEF Bumps, Version
<1>2. \A t \in access \cup refresh :
        t.user = v => t.tv \in Nat /\ accounts[v].tv \in Nat /\ t.tv <= accounts[v].tv
  BY BoundsAssumption DEF VersionInv, NotAhead, TypeOK, AccessToken, RefreshRow, Account,
                          Versions
<1>3. Usable(v)' = {}
  BY <1>2 DEF Bumps, Usable, UsableAccess, UsableRefresh, Accepts
<1>4. ASSUME NEW u \in Users \ {v} PROVE Usable(u)' = Usable(u)
  BY <1>4 DEF Bumps, Usable, UsableAccess, UsableRefresh, Accepts, Exists
<1>5. Live' = [Live EXCEPT ![v] = {}]
  BY <1>3, <1>4 DEF Live
<1>6. QED
  BY <1>1, <1>5 DEF Revoke!RevokeAll, Live, Version

(* Raising tokenVersion withdraws, in that one step, every JWT and refresh *)
(* token the API accepted for the account, whatever requests are in flight,*)
(* and no other step does more than grant one or withdraw some.            *)
THEOREM ImplementsRevocation == Spec => RevocationSpec
<1>1. VersionInv /\ [Next]_vars => [Revoke!Next]_<<Version, Live>>
  <2> SUFFICES ASSUME VersionInv, [Next]_vars
               PROVE  Revoke!Next \/ (Version' = Version /\ Live' = Live)
    OBVIOUS
  <2>1. TypeOK' /\ Effect
    BY NextTypeOK, NextEffect DEF VersionInv
  <2>2. CASE Quiet
    BY <2>1, <2>2, QuietWithdraws DEF Revoke!Next
  <2>3. ASSUME NEW r \in Requests, Signs(r) \/ Issues(r)
        PROVE  Revoke!Next \/ (Version' = Version /\ Live' = Live)
    BY <2>3, SignsGrants, IssuesGrants
  <2>4. ASSUME NEW u \in Users, Bumps(u) PROVE Revoke!Next
    BY <2>4, BumpsRevokes DEF Revoke!Next
  <2>5. QED
    BY <2>1, <2>2, <2>3, <2>4 DEF Effect
<1>2. QED
  BY <1>1, InitRevoke, VersionsBound, PTL
     DEF Spec, RevocationSpec, Revoke!Spec, Version, Live

-----------------------------------------------------------------------------
(* As long as no two requests of one account overlap, what a request read  *)
(* of it is still so when it writes: only the clock, the purge, a restore  *)
(* and a restart come in between, and requests of other accounts.          *)

OneEach ==
    \A q, r \in Requests :
        req[q].at # "idle" /\ req[r].at # "idle" /\ req[q].user = req[r].user => q = r

Only(r) == \A q \in Requests \ {r} : req'[q] = req[q]

(* What a request of w leaves alone.                                       *)
Touches(w) ==
    /\ \A v \in Users \ {w} : accounts'[v] = accounts[v]
    /\ \A s \in sessions' : s \in sessions \/ s.user = w
    /\ \A a \in refresh' : a \in refresh \/ a.user = w

Now(r) == accounts[req[r].user].tv
InLineOf(r) == {a \in refresh : a.lineage = req[r].rt.lineage}

(* Steps that give a credential for the account as it was read.            *)
Granting == {"signIn.restore", "signIn.sign", "cookie.read", "cookie.issue", "unlock.create"}

(* Steps that lead to one, and are reached only with an account in use.    *)
InUse == {"signIn.sign", "cookie.read", "cookie.issue", "unlock.read", "unlock.create",
          "device.read", "enroll.read", "enroll.write", "rotate.issue", "refresh.sign"}

FreshRead(r) ==
    /\ req[r].at \in Granting => req[r].row.tv = Now(r)
    /\ req[r].at = "cookie.issue" => req[r].seen = Now(r)
    /\ req[r].at \in Rotating \cup {"refresh.sign"} => req[r].rt.basis = req[r].rt.tv
    /\ req[r].at \in {"rotate.issue", "refresh.sign"} => req[r].rt.tv = Now(r)

NotDeleted(r) ==
    /\ req[r].at \in InUse => accounts[req[r].user].state # "deleted"
    /\ req[r].at \in Rotating /\ req[r].rt.fresh /\ accounts[req[r].user].state = "deleted" =>
         req[r].rt.tv # Now(r)

LastOfLine(r) ==
    /\ req[r].at = "rotate.consume" => \A a \in InLineOf(r) : a.id = req[r].rt.id
    /\ req[r].at \in {"rotate.check", "rotate.issue"} => req[r].rt.fresh /\ InLineOf(r) = {}

KeysDropped(r) ==
    /\ req[r].at \in {"logoutAll.bump", "remove.write"} => KeysOf(req[r].user) = {}
    /\ req[r].at = "reset.write" => "adminReset" \in Handlers

Hand(r) == FreshRead(r) /\ NotDeleted(r) /\ LastOfLine(r) /\ KeysDropped(r)

BasisIsVersion == \A t \in access \cup refresh : t.basis = t.tv
Promises ==
    /\ BasisIsVersion
    /\ DeletedHoldsNothing
    /\ SingleUse
    /\ "adminReset" \notin Handlers => KeysFollowVersion

OneInv == Promises /\ \A r \in Requests : Hand(r)

(* Steps at which a request has nothing to vouch for.                      *)
Plain == Steps \ (Granting \cup InUse \cup Rotating
                  \cup {"logoutAll.bump", "remove.write", "reset.write"})

-----------------------------------------------------------------------------
(* What each kind of step leaves in the request.                           *)

LEMMA StartHas ==
    ASSUME TypeOK, NEW r \in Requests, NEW u, NEW step, NEW row, NEW secret,
           Start(r, u, step, row, secret)
    PROVE  req'[r].at = step /\ req'[r].user = u /\ req'[r].row = row
<1> DEFINE new == [NoRequest EXCEPT !.at = step, !.user = u, !.row = row, !.secret = secret]
<1>1. new.at = step /\ new.user = u /\ new.row = row
  BY DEF NoRequest
<1>2. req' = [req EXCEPT ![r] = new]
  BY DEF Start
<1> HIDE DEF new
<1>3. QED
  BY <1>1, <1>2 DEF TypeOK

LEMMA ContinueHas ==
    ASSUME TypeOK, NEW r \in Requests, NEW step, Continue(r, step)
    PROVE  /\ req'[r].at = step /\ req'[r].user = req[r].user /\ req'[r].row = req[r].row
           /\ req'[r].rt = req[r].rt /\ req'[r].seen = req[r].seen
BY DEF Continue, TypeOK, Request

LEMMA FinishHas ==
    ASSUME TypeOK, NEW r \in Requests, Finish(r) PROVE req'[r].at = "idle"
BY DEF Finish, NoRequest, TypeOK

LEMMA ReadForHas ==
    ASSUME TypeOK, NEW r \in Requests, NEW step, NEW secret, ReadFor(r, step, secret)
    PROVE  req'[r].at = step /\ req'[r].user = req[r].user /\ req'[r].row = Mine(r)
BY DEF ReadFor, TypeOK, Request

LEMMA PlainHand == ASSUME NEW r \in Requests, req'[r].at \in Plain PROVE Hand(r)'
BY DEF Hand, FreshRead, NotDeleted, LastOfLine, KeysDropped, Plain, Granting, InUse, Rotating

LEMMA TablesKeep ==
    ASSUME OneInv, NEW r \in Requests, req[r].at # "keys.revoke", Only(r),
           UNCHANGED <<accounts, refresh, access, sessions>>
    PROVE  Promises'
<1>1. BasisIsVersion' /\ DeletedHoldsNothing' /\ SingleUse'
  BY DEF OneInv, Promises, BasisIsVersion, DeletedHoldsNothing, SingleUse, Usable, UsableAccess,
         UsableRefresh, Accepts, Exists, KeysOf
<1>2. "adminReset" \notin Handlers => KeysFollowVersion'
  BY DEF OneInv, Promises, KeysFollowVersion, Only
<1>3. QED
  BY <1>1, <1>2 DEF Promises

(* A step that only moves the request.                                     *)
Moves(r) ==
    /\ UNCHANGED <<accounts, refresh, access, sessions>>
    /\ req[r].at # "keys.revoke"

LEMMA MovesInv ==
    ASSUME OneInv, NEW r \in Requests, Only(r), Moves(r), Hand(r)' PROVE OneInv'
<1>1. Promises'
  BY TablesKeep DEF Moves
<1>2. ASSUME NEW q \in Requests, q # r PROVE Hand(q)'
  BY <1>2 DEF OneInv, Only, Moves, Hand, FreshRead, NotDeleted, LastOfLine, KeysDropped, Now,
              InLineOf, KeysOf
<1>3. QED
  BY <1>1, <1>2 DEF OneInv

(* A step of a request that changes nothing but what is of its account.    *)
LEMMA FromRequest ==
    ASSUME TypeOK, ChainInv, ChainInv', OneInv, OneEach, NEW r \in Requests, NEW w \in Users,
           w = req[r].user, req[r].at # "idle", Only(r), Touches(w), Promises', Hand(r)'
    PROVE  OneInv'
<1>1. ASSUME NEW q \in Requests, q # r PROVE Hand(q)'
  <2>1. req'[q] = req[q] /\ Hand(q) /\ req[q].user \in Users
    BY <1>1 DEF Only, OneInv, TypeOK, Request
  <2>2. CASE req[q].at = "idle"
    BY <2>1, <2>2, PlainHand DEF Plain, Steps, Granting, InUse, Rotating
  <2>3. CASE req[q].at # "idle"
    <3>1. req[q].user # w
      BY <1>1, <2>3 DEF OneEach
    <3>2. /\ accounts'[req[q].user] = accounts[req[q].user]
          /\ KeysOf(req[q].user)' \subseteq KeysOf(req[q].user)
      BY <2>1, <3>1 DEF Touches, KeysOf
    <3>3. req[q].at \in Rotating => InLineOf(q)' \subseteq InLineOf(q)
      <4> SUFFICES ASSUME req[q].at \in Rotating, NEW a \in refresh',
                          a.lineage = req'[q].rt.lineage
                   PROVE  a \in refresh
        BY <2>1 DEF InLineOf
      <4>1. req'[q].rt \in Chain' /\ a \in Chain'
        BY <2>1 DEF Chain, InHand
      <4>2. a.user = req'[q].user
        BY <2>1, <4>1 DEF ChainInv
      <4>3. QED
        BY <2>1, <3>1, <4>2 DEF Touches
    <3>4. QED
      BY <2>1, <3>2, <3>3 DEF Hand, FreshRead, NotDeleted, LastOfLine, KeysDropped, Now, Rotating
  <2>4. QED
    BY <2>2, <2>3
<1>2. QED
  BY <1>1 DEF OneInv

(* The account is raised by one and loses every token.  Its unlock sessions*)
(* are gone already, or this request drops them next, or they are those an *)
(* administrator's reset leaves.                                           *)
LEMMA UpdateInv ==
    ASSUME VersionInv, ChainInv, ChainInv', OneInv, OneEach, NEW r \in Requests, Only(r),
           NEW new, NEW next \in {"idle", "keys.revoke"}, UpdateAccount(r, new, next),
           req[r].at \notin {"idle", "keys.revoke"},
           new.state = accounts[req[r].user].state \/ KeysOf(req[r].user) = {},
           next = "keys.revoke" \/ KeysOf(req[r].user) = {} \/ "adminReset" \in Handlers,
           new \in Account
    PROVE  OneInv'
<1>1. PICK u \in Users : u = req[r].user
  BY DEF VersionInv, TypeOK, Request
<1>2. CASE ~Exists(u)
  <2>1. Moves(r) /\ req'[r].at = "idle"
    BY <1>1, <1>2, FinishHas DEF UpdateAccount, Moves, VersionInv
  <2>2. Hand(r)'
    BY <2>1, PlainHand DEF Plain, Steps, Granting, InUse, Rotating
  <2>3. QED
    BY <2>1, <2>2, MovesInv
<1>3. CASE Exists(u)
  <2> DEFINE a == [new EXCEPT !.tv = accounts[u].tv + 1]
  <2>1. /\ accounts' = [accounts EXCEPT ![u] = a]
        /\ access' = access /\ refresh' = refresh /\ sessions' = sessions
    BY <1>1, <1>3 DEF UpdateAccount
  <2>2. a.tv = accounts[u].tv + 1 /\ a.state = new.state
    BY DEF Account
  <2>3. req'[r].at = next /\ (next = "keys.revoke" => req'[r].user = u)
    BY <1>1, <1>3, ContinueHas, FinishHas DEF UpdateAccount, VersionInv
  <2> HIDE DEF a
  <2>4. accounts'[u] = a /\ \A v \in Users \ {u} : accounts'[v] = accounts[v]
    BY <1>1, <2>1 DEF VersionInv, TypeOK
  <2>5. Hand(r)'
    BY <2>3, PlainHand DEF Plain, Steps, Granting, InUse, Rotating
  <2>6. BasisIsVersion' /\ SingleUse'
    BY <2>1 DEF OneInv, Promises, BasisIsVersion, SingleUse
  <2>7. DeletedHoldsNothing'
    <3> SUFFICES ASSUME NEW v \in Users, accounts'[v].state = "deleted"
                 PROVE  Usable(v)' = {} /\ KeysOf(v)' = {}
      BY DEF DeletedHoldsNothing
    <3>1. CASE v = u
      <4>1. \A t \in access \cup refresh :
              t.user = u => t.tv \in Nat /\ accounts[u].tv \in Nat /\ t.tv <= accounts[u].tv
        BY <1>1, BoundsAssumption DEF VersionInv, NotAhead, TypeOK, AccessToken, RefreshRow,
                                      Account, Versions
      <4>2. Usable(u)' = {}
        BY <4>1, <2>1, <2>2, <2>4 DEF Usable, UsableAccess, UsableRefresh, Accepts
      <4>3. KeysOf(u)' = {}
        BY <1>1, <3>1, <2>1, <2>2, <2>4 DEF KeysOf, OneInv, Promises, DeletedHoldsNothing
      <4>4. QED
        BY <3>1, <4>2, <4>3
    <3>2. CASE v # u
      <4>1. Usable(v) = {} /\ KeysOf(v) = {}
        BY <3>2, <2>4 DEF OneInv, Promises, DeletedHoldsNothing
      <4>2. QED
        BY <3>2, <4>1, <2>1, <2>4 DEF Usable, UsableAccess, UsableRefresh, Accepts, Exists, KeysOf
    <3>3. QED
      BY <3>1, <3>2
  <2>8. ASSUME "adminReset" \notin Handlers PROVE KeysFollowVersion'
    <3> SUFFICES ASSUME NEW s \in sessions'
                 PROVE  \/ s.basis = accounts'[s.user].tv
                        \/ \E q \in Requests : req'[q].at = "keys.revoke" /\ req'[q].user = s.user
      BY DEF KeysFollowVersion
    <3>1. s.user \in Users /\ s \in sessions
      BY <2>1 DEF VersionInv, TypeOK, UnlockSession
    <3>2. CASE s.user = u
      BY <1>1, <2>1, <2>3, <2>8, <3>1, <3>2 DEF KeysOf
    <3>3. CASE s.user # u
      BY <2>4, <2>8, <3>1, <3>3 DEF OneInv, Promises, KeysFollowVersion, Only
    <3>4. QED
      BY <3>2, <3>3
  <2>9. QED
    <3>1. Promises'
      BY <2>6, <2>7, <2>8 DEF Promises
    <3>2. Touches(u)
      BY <2>1, <2>4 DEF Touches
    <3>3. QED
      BY <1>1, <2>5, <3>1, <3>2, FromRequest DEF VersionInv
<1>4. QED
  BY <1>2, <1>3

(* The account, which is not deleted, gets a JWT or an unlock session.     *)
LEMMA GrantsKeep ==
    ASSUME VersionInv, OneInv, NEW r \in Requests, req[r].at # "keys.revoke", Only(r),
           NEW u \in Users, accounts[u].state # "deleted", UNCHANGED <<accounts, refresh>>,
           \/ access' = access
           \/ \E t \in AccessToken : access' = access \cup {t} /\ t.user = u /\ t.basis = t.tv,
           sessions' = sessions \/ CreateSession(u, accounts[u].tv)
    PROVE  Promises'
<1>1. BasisIsVersion' /\ SingleUse'
  BY DEF OneInv, Promises, BasisIsVersion, SingleUse
<1>2. ASSUME NEW v \in Users, accounts'[v].state = "deleted"
      PROVE  Usable(v)' = {} /\ KeysOf(v)' = {}
  <2>1. v # u /\ Usable(v) = {} /\ KeysOf(v) = {}
    BY <1>2 DEF OneInv, Promises, DeletedHoldsNothing
  <2>2. \A t \in access' : t.user = v => t \in access
    BY <2>1
  <2>3. \A s \in sessions' : s.user = v => s \in sessions
    BY <2>1 DEF CreateSession
  <2>4. QED
    BY <2>1, <2>2, <2>3 DEF Usable, UsableAccess, UsableRefresh, Accepts, Exists, KeysOf
<1>3. ASSUME "adminReset" \notin Handlers PROVE KeysFollowVersion'
  <2>1. \A s \in sessions' : s \in sessions \/ s.basis = accounts[s.user].tv
    BY DEF CreateSession
  <2>2. QED
    BY <1>3, <2>1 DEF OneInv, Promises, KeysFollowVersion, Only
<1>4. QED
  BY <1>1, <1>2, <1>3 DEF Promises, DeletedHoldsNothing

(* It gets a refresh token, the only one of its chain.                     *)
LEMMA IssueKeeps ==
    ASSUME VersionInv, OneInv, NEW r \in Requests, req[r].at # "keys.revoke", Only(r),
           NEW u \in Users, accounts[u].state # "deleted",
           UNCHANGED <<accounts, access, sessions>>, NEW tv, NEW lineage,
           Issue(u, tv, tv, lineage), \A a \in refresh : a.lineage # lineage
    PROVE  Promises'
<1> DEFINE n == [id |-> issued + 1, user |-> u, tv |-> tv, fresh |-> TRUE, basis |-> tv,
                 lineage |-> lineage]
<1>1. refresh' = refresh \cup {n} /\ n.user = u /\ n.basis = n.tv /\ n.lineage = lineage
  BY DEF Issue
<1> HIDE DEF n
<1>2. BasisIsVersion' /\ SingleUse'
  BY <1>1 DEF OneInv, Promises, BasisIsVersion, SingleUse
<1>3. ASSUME NEW v \in Users, accounts'[v].state = "deleted"
      PROVE  Usable(v)' = {} /\ KeysOf(v)' = {}
  <2>1. v # u /\ Usable(v) = {} /\ KeysOf(v) = {}
    BY <1>3 DEF OneInv, Promises, DeletedHoldsNothing
  <2>2. QED
    BY <1>1, <2>1 DEF Usable, UsableAccess, UsableRefresh, Accepts, Exists, KeysOf
<1>4. "adminReset" \notin Handlers => KeysFollowVersion'
  BY DEF OneInv, Promises, KeysFollowVersion, Only
<1>5. QED
  BY <1>2, <1>3, <1>4 DEF Promises, DeletedHoldsNothing

(* Rows and sessions only go, and no account becomes deleted.              *)
LEMMA FewerKeep ==
    ASSUME VersionInv, OneInv,
           \A v \in Users : /\ accounts'[v].tv = accounts[v].tv
                            /\ accounts'[v].state = "deleted" => accounts[v].state = "deleted",
           access' = access, refresh' \subseteq refresh, sessions' \subseteq sessions,
           \A r \in Requests : req[r].at = "keys.revoke" =>
             req'[r] = req[r] \/ sessions' \subseteq sessions \ KeysOf(req[r].user)
    PROVE  Promises'
<1>1. BasisIsVersion' /\ SingleUse'
  BY DEF OneInv, Promises, BasisIsVersion, SingleUse
<1>2. DeletedHoldsNothing'
  BY DEF OneInv, Promises, DeletedHoldsNothing, Usable, UsableAccess, UsableRefresh, Accepts,
         Exists, KeysOf
<1>3. ASSUME "adminReset" \notin Handlers PROVE KeysFollowVersion'
  <2> SUFFICES ASSUME NEW s \in sessions'
               PROVE  \/ s.basis = accounts'[s.user].tv
                      \/ \E q \in Requests : req'[q].at = "keys.revoke" /\ req'[q].user = s.user
    BY DEF KeysFollowVersion
  <2>1. s \in sessions /\ s.user \in Users
    BY DEF VersionInv, TypeOK, UnlockSession
  <2>2. CASE s.basis = accounts[s.user].tv
    BY <2>1, <2>2
  <2>3. ASSUME NEW q \in Requests, req[q].at = "keys.revoke", req[q].user = s.user
        PROVE  req'[q].at = "keys.revoke" /\ req'[q].user = s.user
    BY <2>1, <2>3 DEF KeysOf
  <2>4. QED
    BY <1>3, <2>1, <2>2, <2>3 DEF OneInv, Promises, KeysFollowVersion
<1>4. QED
  BY <1>1, <1>2, <1>3 DEF Promises

-----------------------------------------------------------------------------
LEMMA SignInOne ==
    ASSUME VersionInv, ChainInv, ChainInv', OneInv, OneEach, NEW r \in Requests,
           Only(r), SignIn(r)
    PROVE  OneInv'
<1> USE DEF VersionInv
<1>1. PICK w \in Users : w = req[r].user
  BY DEF TypeOK, Request
<1>2. Hand(r)
  BY DEF OneInv
<1>3. ASSUME NEW u \in Users, (\E s \in Secrets : LoginRead(r, u, s)) \/ GoogleRead(r, u)
      PROVE  OneInv'
  <2>1. PICK s \in Secrets \cup {None} : SignInStart(r, u, s)
    BY <1>3 DEF LoginRead, GoogleRead
  <2>2. /\ req'[r].at = IF accounts[u].state = "deleted" THEN "signIn.restore" ELSE "signIn.sign"
        /\ req'[r].user = u /\ req'[r].row = accounts[u]
    BY <2>1, StartHas DEF SignInStart
  <2>3. Moves(r)
    BY <1>3 DEF LoginRead, GoogleRead, Free, Moves
  <2>4. Hand(r)'
    BY <2>2, <2>3 DEF Moves, Hand, FreshRead, NotDeleted, LastOfLine, KeysDropped, Granting,
                      InUse, Rotating, Now
  <2>5. QED
    BY <2>3, <2>4, MovesInv
<1>4. CASE SignInRestore(r)
  <2>1. CASE Exists(w)
    <3>1. accounts' = [accounts EXCEPT ![w].state = "live"]
      BY <1>1, <1>4, <2>1 DEF SignInRestore
    <3>2. /\ accounts'[w].tv = accounts[w].tv /\ accounts'[w].state = "live"
          /\ \A v \in Users \ {w} : accounts'[v] = accounts[v]
      BY <1>1, <3>1 DEF TypeOK, Account
    <3>3. req'[r].at = "signIn.sign" /\ req'[r].user = w /\ req'[r].row = req[r].row
      BY <1>1, <1>4, <2>1, ContinueHas DEF SignInRestore
    <3>4. Hand(r)'
      BY <1>1, <1>2, <1>4, <3>2, <3>3
         DEF SignInRestore, Hand, FreshRead, NotDeleted, LastOfLine, KeysDropped, Granting,
             InUse, Rotating, Now
    <3>5. Promises'
      BY <1>4, <3>2, FewerKeep DEF SignInRestore, Only
    <3>6. Touches(w) /\ req[r].at # "idle"
      BY <1>4, <3>2 DEF SignInRestore, Touches
    <3>7. QED
      BY <1>1, <3>4, <3>5, <3>6, FromRequest
  <2>2. CASE ~Exists(w)
    <3>1. Moves(r) /\ req'[r].at = "idle"
      BY <1>1, <1>4, <2>2, FinishHas DEF SignInRestore, Moves
    <3>2. QED
      BY <3>1, PlainHand, MovesInv DEF Plain, Steps, Granting, InUse, Rotating
  <2>3. QED
    BY <2>1, <2>2
<1>5. CASE SignInSign(r)
  <2> DEFINE t == [user |-> w, tv |-> req[r].row.tv, basis |-> req[r].row.tv]
  <2>1. accounts[w].state # "deleted" /\ req[r].row.tv = accounts[w].tv
    BY <1>1, <1>2, <1>5 DEF SignInSign, Hand, FreshRead, NotDeleted, Granting, InUse, Now
  <2>2. t \in AccessToken /\ t.user = w /\ t.basis = t.tv
    BY <1>1 DEF TypeOK, Request, Account, AccessToken
  <2>3. /\ access' \in {access, access \cup {t}}
        /\ sessions' = sessions \/ CreateSession(w, accounts[w].tv)
        /\ UNCHANGED <<accounts, refresh>> /\ req[r].at = "signIn.sign"
    BY <1>1, <1>5, <2>1 DEF SignInSign
  <2> HIDE DEF t
  <2>4. Promises'
    BY <2>1, <2>2, <2>3, GrantsKeep
  <2>5. \/ req'[r].at = "idle"
        \/ req'[r].at = "cookie.read" /\ req'[r].user = w /\ req'[r].row = req[r].row
    BY <1>1, <1>5, FinishHas, ContinueHas DEF SignInSign
  <2>6. Hand(r)'
    BY <2>1, <2>3, <2>5 DEF Hand, FreshRead, NotDeleted, LastOfLine, KeysDropped, Granting,
                            InUse, Rotating, Now
  <2>7. Touches(w) /\ req[r].at # "idle"
    BY <2>3 DEF CreateSession, Touches
  <2>8. QED
    BY <1>1, <2>4, <2>6, <2>7, FromRequest
<1>6. CASE CookieRead(r)
  <2>1. Moves(r)
    BY <1>6 DEF CookieRead, Moves
  <2>2. \/ req'[r].at = "idle"
        \/ /\ req'[r].at = "cookie.issue" /\ req'[r].user = w /\ req'[r].row = req[r].row
           /\ req'[r].seen = accounts[w].tv
    BY <1>1, <1>6, FinishHas DEF CookieRead, TypeOK, Request
  <2>3. Hand(r)'
    BY <1>1, <1>2, <1>6, <2>1, <2>2
       DEF CookieRead, Moves, Hand, FreshRead, NotDeleted, LastOfLine, KeysDropped, Granting,
           InUse, Rotating, Now
  <2>4. QED
    BY <2>1, <2>3, MovesInv
<1>7. CASE CookieIssue(r)
  <2>1. /\ accounts[w].state # "deleted" /\ req[r].at = "cookie.issue"
        /\ req[r].row.tv = req[r].seen
        /\ UNCHANGED <<accounts, access, sessions>>
    BY <1>1, <1>2, <1>7 DEF CookieIssue, Hand, FreshRead, NotDeleted, Granting, InUse, Now
  <2>2. req'[r].at = "idle"
    BY <1>7, FinishHas DEF CookieIssue
  <2>3. Hand(r)'
    BY <2>2, PlainHand DEF Plain, Steps, Granting, InUse, Rotating
  <2>4. CASE Exists(w)
    <3>1. Issue(w, req[r].seen, req[r].seen, issued + 1)
      BY <1>1, <1>7, <2>1, <2>4 DEF CookieIssue
    <3>2. \A a \in refresh : a.lineage # issued + 1
      BY DEF ChainInv, Chain, TypeOK, Ids
    <3>3. Touches(w) /\ req[r].at # "idle"
      BY <2>1, <3>1 DEF Issue, Touches
    <3>4. Promises'
      BY <2>1, <3>1, <3>2, IssueKeeps
    <3>5. QED
      BY <1>1, <2>3, <3>3, <3>4, FromRequest
  <2>5. CASE ~Exists(w)
    <3>1. Moves(r)
      BY <1>1, <1>7, <2>5 DEF CookieIssue, Moves
    <3>2. QED
      BY <2>3, <3>1, MovesInv
  <2>6. QED
    BY <2>4, <2>5
<1>8. QED
  BY <1>3, <1>4, <1>5, <1>6, <1>7 DEF SignIn

LEMMA RefreshOne ==
    ASSUME VersionInv, ChainInv, ChainInv', OneInv, OneEach, NEW r \in Requests,
           Only(r), Refresh(r)
    PROVE  OneInv'
<1> USE DEF VersionInv
<1>1. PICK w \in Users : w = req[r].user
  BY DEF TypeOK, Request
<1>2. Hand(r)
  BY DEF OneInv
<1>3. ASSUME NEW rt \in refresh, RotateFind(r, rt) PROVE OneInv'
  <2> DEFINE new == [NoRequest EXCEPT !.at = "rotate.consume", !.user = rt.user, !.rt = rt]
  <2>1. new.at = "rotate.consume" /\ new.user = rt.user /\ new.rt = rt
    BY DEF NoRequest
  <2>2. req' = [req EXCEPT ![r] = new] /\ Moves(r)
    BY <1>3 DEF RotateFind, Moves, Free
  <2> HIDE DEF new
  <2>3. req'[r].at = "rotate.consume" /\ req'[r].user = rt.user /\ req'[r].rt = rt
    BY <2>1, <2>2 DEF TypeOK
  <2>4. rt.user \in Users /\ rt.basis = rt.tv /\ rt.fresh \in BOOLEAN
    BY DEF OneInv, Promises, BasisIsVersion, TypeOK, RefreshRow
  <2>5. accounts[rt.user].state = "deleted" /\ rt.fresh => rt.tv # accounts[rt.user].tv
    BY <2>4 DEF OneInv, Promises, DeletedHoldsNothing, Usable, UsableRefresh
  <2>6. \A a \in refresh : a.lineage = rt.lineage => a.id = rt.id
    BY DEF OneInv, Promises, SingleUse
  <2>7. Hand(r)'
    BY <2>2, <2>3, <2>4, <2>5, <2>6
       DEF Moves, Hand, FreshRead, NotDeleted, LastOfLine, KeysDropped, Granting, InUse,
           Rotating, Now, InLineOf
  <2>8. QED
    BY <2>2, <2>7, MovesInv
<1>4. CASE RotateConsume(r)
  <2>1. /\ UNCHANGED <<accounts, access, sessions>> /\ refresh' \subseteq refresh
        /\ req[r].at = "rotate.consume"
        /\ refresh' = {t \in refresh : t.id # req[r].rt.id}
    BY <1>4 DEF RotateConsume
  <2>2. Promises'
    BY <2>1, FewerKeep DEF Only
  <2>3. \/ req'[r].at = "idle"
        \/ /\ req'[r].at = "rotate.check" /\ req'[r].user = w /\ req'[r].rt = req[r].rt
           /\ req[r].rt.fresh
    BY <1>1, <1>4, FinishHas, ContinueHas DEF RotateConsume
  <2>4. Hand(r)'
    BY <1>1, <1>2, <2>1, <2>3
       DEF Hand, FreshRead, NotDeleted, LastOfLine, KeysDropped, Granting, InUse, Rotating, Now,
           InLineOf
  <2>5. Touches(w) /\ req[r].at # "idle"
    BY <2>1 DEF Touches
  <2>6. QED
    BY <1>1, <2>2, <2>4, <2>5, FromRequest
<1>5. CASE RotateCheck(r)
  <2>1. Moves(r) /\ req[r].at = "rotate.check"
    BY <1>5 DEF RotateCheck, Moves
  <2>2. \/ req'[r].at = "idle"
        \/ /\ req'[r].at = "rotate.issue" /\ req'[r].user = w /\ req'[r].rt = req[r].rt
           /\ req[r].rt.tv = accounts[w].tv
    BY <1>1, <1>5, FinishHas DEF RotateCheck, TypeOK, Request
  <2>3. Hand(r)'
    BY <1>1, <1>2, <2>1, <2>2
       DEF Moves, Hand, FreshRead, NotDeleted, LastOfLine, KeysDropped, Granting, InUse,
           Rotating, Now, InLineOf
  <2>4. QED
    BY <2>1, <2>3, MovesInv
<1>6. CASE RotateIssue(r)
  <2>1. /\ accounts[w].state # "deleted" /\ req[r].at = "rotate.issue"
        /\ req[r].rt.tv = req[r].seen /\ req[r].rt.basis = req[r].seen
        /\ req[r].rt.tv = accounts[w].tv
        /\ UNCHANGED <<accounts, access, sessions>>
    BY <1>1, <1>2, <1>6
       DEF RotateIssue, Hand, FreshRead, NotDeleted, InUse, Rotating, Now, ChainInv
  <2>2. CASE Exists(w)
    <3>1. Issue(w, req[r].seen, req[r].seen, req[r].rt.lineage)
      BY <1>1, <1>6, <2>1, <2>2 DEF RotateIssue
    <3>2. \A a \in refresh : a.lineage # req[r].rt.lineage
      BY <1>2, <2>1 DEF Hand, LastOfLine, InLineOf
    <3>3. /\ req'[r].at = "refresh.sign" /\ req'[r].user = w /\ req'[r].rt = req[r].rt
      BY <1>1, <1>6, <2>2, ContinueHas DEF RotateIssue
    <3>4. Hand(r)'
      BY <1>1, <1>2, <2>1, <3>3
         DEF Hand, FreshRead, NotDeleted, LastOfLine, KeysDropped, Granting, InUse, Rotating, Now
    <3>5. Touches(w) /\ req[r].at # "idle"
      BY <2>1, <3>1 DEF Issue, Touches
    <3>6. Promises'
      BY <2>1, <3>1, <3>2, IssueKeeps
    <3>7. QED
      BY <1>1, <3>4, <3>5, <3>6, FromRequest
  <2>3. CASE ~Exists(w)
    <3>1. Moves(r) /\ req'[r].at = "idle"
      BY <1>1, <1>6, <2>3, FinishHas DEF RotateIssue, Moves
    <3>2. QED
      BY <3>1, PlainHand, MovesInv DEF Plain, Steps, Granting, InUse, Rotating
  <2>4. QED
    BY <2>2, <2>3
<1>7. CASE RefreshSign(r)
  <2> DEFINE t == [user |-> w, tv |-> accounts[w].tv, basis |-> req[r].rt.basis]
  <2>1. /\ accounts[w].state # "deleted" /\ req[r].at = "refresh.sign"
        /\ req[r].rt.basis = accounts[w].tv
        /\ UNCHANGED <<accounts, refresh, sessions>>
    BY <1>1, <1>2, <1>7 DEF RefreshSign, Hand, FreshRead, NotDeleted, InUse, Now
  <2>2. t \in AccessToken /\ t.user = w /\ t.basis = t.tv
    BY <1>1, <2>1 DEF TypeOK, Account, AccessToken
  <2>3. access' = access \/ access' = access \cup {t}
    BY <1>1, <1>7 DEF RefreshSign
  <2> HIDE DEF t
  <2>4. Promises'
    BY <2>1, <2>2, <2>3, GrantsKeep
  <2>5. Hand(r)'
    BY <1>7, FinishHas, PlainHand DEF RefreshSign, Plain, Steps, Granting, InUse, Rotating
  <2>6. Touches(w) /\ req[r].at # "idle"
    BY <2>1 DEF Touches
  <2>7. QED
    BY <1>1, <2>4, <2>5, <2>6, FromRequest
<1>8. QED
  BY <1>3, <1>4, <1>5, <1>6, <1>7 DEF Refresh

LEMMA SignOutOne ==
    ASSUME VersionInv, ChainInv, ChainInv', OneInv, OneEach, NEW r \in Requests,
           Only(r), SignOut(r)
    PROVE  OneInv'
<1> USE DEF VersionInv
<1>1. PICK w \in Users : w = req[r].user
  BY DEF TypeOK, Request
<1>2. Hand(r)
  BY DEF OneInv
<1>3. ASSUME \/ \E id \in Ids : LogoutRow(r, id)
             \/ LogoutKeys(r) \/ KeysRevoke(r) \/ LogoutAllRows(r)
      PROVE  OneInv'
  <2>1. Promises'
    BY <1>3, FewerKeep DEF LogoutRow, LogoutKeys, KeysRevoke, LogoutAllRows, RevokeUser, Only
  <2>2. req'[r].at \in {"idle", "logout.keys", "logoutAll.keys"}
    BY <1>3, FinishHas, ContinueHas DEF LogoutRow, LogoutKeys, KeysRevoke, LogoutAllRows
  <2>3. Hand(r)'
    BY <2>2, PlainHand DEF Plain, Steps, Granting, InUse, Rotating
  <2>4. Touches(w) /\ req[r].at # "idle"
    BY <1>3 DEF LogoutRow, LogoutKeys, KeysRevoke, LogoutAllRows, RevokeUser, Touches
  <2>5. QED
    BY <1>1, <2>1, <2>3, <2>4, FromRequest
<1>4. CASE LogoutAllKeys(r)
  <2>1. Promises'
    BY <1>4, FewerKeep DEF LogoutAllKeys, RevokeUser, Only
  <2>2. req'[r].at = "logoutAll.bump" /\ req'[r].user = w /\ sessions' = sessions \ KeysOf(w)
    BY <1>1, <1>4, ContinueHas DEF LogoutAllKeys, RevokeUser
  <2>3. Hand(r)'
    BY <2>2 DEF Hand, FreshRead, NotDeleted, LastOfLine, KeysDropped, Granting, InUse, Rotating,
                KeysOf
  <2>4. Touches(w) /\ req[r].at # "idle"
    BY <1>4 DEF LogoutAllKeys, RevokeUser, Touches
  <2>5. QED
    BY <1>1, <2>1, <2>3, <2>4, FromRequest
<1>5. CASE LogoutAllBump(r)
  <2>1. Mine(r) \in Account /\ KeysOf(w) = {}
    BY <1>1, <1>2, <1>5 DEF LogoutAllBump, Mine, TypeOK, Hand, KeysDropped
  <2>2. QED
    BY <1>1, <1>5, <2>1, UpdateInv DEF LogoutAllBump, Mine
<1>6. QED
  BY <1>3, <1>4, <1>5 DEF SignOut

LEMMA CredentialsOne ==
    ASSUME VersionInv, ChainInv, ChainInv', OneInv, OneEach, NEW r \in Requests,
           Only(r), Credentials(r)
    PROVE  OneInv'
<1> USE DEF VersionInv
<1>1. PICK w \in Users : w = req[r].user
  BY DEF TypeOK, Request
<1>2. Hand(r)
  BY DEF OneInv
<1>3. /\ Mine(r) = accounts[w] /\ Mine(r) \in Account
      /\ req[r].secret \in Secrets \cup {None}
  BY <1>1 DEF Mine, TypeOK, Request
<1>4. ASSUME NEW u \in Users, NEW h \in DOMAIN Guarded, Authenticate(r, u, h) PROVE OneInv'
  <2>1. Moves(r)
    BY <1>4 DEF Authenticate, Free, Moves
  <2>2. accounts[u].state # "deleted"
    BY <1>4 DEF Authenticate, Guard, OneInv, Promises, DeletedHoldsNothing, Usable, UsableAccess
  <2>3. req'[r].at = Guarded[h] /\ req'[r].user = u
    BY <1>4, StartHas DEF Authenticate
  <2>4. Guarded[h] \in {"logoutAll.rows", "password.read", "passphrase.read", "unlock.read",
                       "device.read", "enroll.read", "keys.revoke", "logout.row"}
    BY DEF Guarded
  <2>5. Hand(r)'
    BY <2>1, <2>2, <2>3, <2>4
       DEF Moves, Hand, FreshRead, NotDeleted, LastOfLine, KeysDropped, Granting, InUse, Rotating
  <2>6. QED
    BY <2>1, <2>5, MovesInv
<1>5. ASSUME NEW new \in Secrets, PasswordRead(r, new) \/ PassphraseRead(r, new)
      PROVE  OneInv'
  <2>1. Moves(r) /\ req'[r].at \in {"password.write", "passphrase.write"}
    BY <1>5, ReadForHas DEF PasswordRead, PassphraseRead, ReadFor, Moves
  <2>2. QED
    BY <2>1, PlainHand, MovesInv DEF Plain, Steps, Granting, InUse, Rotating
<1>6. ASSUME NEW new \in Secrets, EnrollRead(r, new) PROVE OneInv'
  <2>1. /\ Moves(r) /\ accounts[w].state # "deleted"
        /\ req'[r].at = "enroll.write" /\ req'[r].user = w
    BY <1>1, <1>2, <1>6, ReadForHas DEF EnrollRead, ReadFor, Moves, Hand, NotDeleted, InUse
  <2>2. Hand(r)'
    BY <2>1 DEF Moves, Hand, FreshRead, NotDeleted, LastOfLine, KeysDropped, Granting, InUse,
                Rotating
  <2>3. QED
    BY <2>1, <2>2, MovesInv
<1>7. CASE UnlockRead(r) \/ DeviceRead(r)
  <2>1. PICK secret : ReadFor(r, "unlock.create", secret)
    BY <1>7 DEF UnlockRead, DeviceRead
  <2>2. req'[r].at = "unlock.create" /\ req'[r].user = w /\ req'[r].row = accounts[w]
    BY <1>1, <1>3, <2>1, ReadForHas
  <2>3. Moves(r) /\ accounts[w].state # "deleted"
    BY <1>1, <1>2, <1>7 DEF UnlockRead, DeviceRead, ReadFor, Moves, Hand, NotDeleted, InUse
  <2>4. Hand(r)'
    BY <2>2, <2>3 DEF Moves, Hand, FreshRead, NotDeleted, LastOfLine, KeysDropped, Granting,
                      InUse, Rotating, Now
  <2>5. QED
    BY <2>3, <2>4, MovesInv
<1>8. CASE UnlockCreate(r)
  <2>1. /\ accounts[w].state # "deleted" /\ req[r].at = "unlock.create"
        /\ CreateSession(w, accounts[w].tv) /\ UNCHANGED <<accounts, refresh, access>>
    BY <1>1, <1>2, <1>8 DEF UnlockCreate, Hand, FreshRead, NotDeleted, Granting, InUse, Now
  <2>2. Promises'
    BY <2>1, GrantsKeep
  <2>3. Hand(r)'
    BY <1>8, FinishHas, PlainHand DEF UnlockCreate, Plain, Steps, Granting, InUse, Rotating
  <2>4. Touches(w) /\ req[r].at # "idle"
    BY <2>1 DEF CreateSession, Touches
  <2>5. QED
    BY <1>1, <2>2, <2>3, <2>4, FromRequest
<1>9. CASE PasswordWrite(r) \/ PassphraseWrite(r)
  <2>1. PICK new : /\ new \in {WithPassword(Mine(r), req[r].secret),
                              [Mine(r) EXCEPT !.kek = req[r].secret]}
                   /\ UpdateAccount(r, new, "keys.revoke")
    BY <1>9 DEF PasswordWrite, PassphraseWrite
  <2>2. new \in Account /\ new.state = accounts[w].state
    BY <1>3, <2>1 DEF WithPassword, Account
  <2>3. req[r].at \notin {"idle", "keys.revoke"}
    BY <1>9 DEF PasswordWrite, PassphraseWrite
  <2>4. QED
    BY <1>1, <2>1, <2>2, <2>3, UpdateInv
<1>10. CASE EnrollWrite(r)
  <2>1. CASE Exists(w)
    <3>1. accounts' = [accounts EXCEPT ![w].kek = req[r].secret] /\ req[r].at = "enroll.write"
      BY <1>1, <1>10, <2>1 DEF EnrollWrite
    <3>2. \A v \in Users : /\ accounts'[v].tv = accounts[v].tv
                           /\ accounts'[v].state = accounts[v].state
      BY <3>1 DEF TypeOK, Account
    <3>3. Promises'
      BY <1>10, <3>1, <3>2, FewerKeep DEF EnrollWrite, Only
    <3>4. req'[r].at = "unlock.read" /\ req'[r].user = w
      BY <1>1, <1>10, <2>1, ContinueHas DEF EnrollWrite
    <3>5. Hand(r)'
      BY <1>1, <1>2, <3>1, <3>2, <3>4
         DEF Hand, FreshRead, NotDeleted, LastOfLine, KeysDropped, Granting, InUse, Rotating
    <3>6. Touches(w) /\ req[r].at # "idle"
      BY <1>10, <3>1 DEF EnrollWrite, Touches, TypeOK
    <3>7. QED
      BY <1>1, <3>3, <3>5, <3>6, FromRequest
  <2>2. CASE ~Exists(w)
    <3>1. Moves(r) /\ req'[r].at = "idle"
      BY <1>1, <1>10, <2>2, FinishHas DEF EnrollWrite, Moves
    <3>2. QED
      BY <3>1, PlainHand, MovesInv DEF Plain, Steps, Granting, InUse, Rotating
  <2>3. QED
    BY <2>1, <2>2
<1>11. CASE ReadRefused(r)
  <2>1. Moves(r) /\ req'[r].at = "idle"
    BY <1>11, FinishHas DEF ReadRefused, Moves
  <2>2. QED
    BY <2>1, PlainHand, MovesInv DEF Plain, Steps, Granting, InUse, Rotating
<1>12. QED
  BY <1>4, <1>5, <1>6, <1>7, <1>8, <1>9, <1>10, <1>11 DEF Credentials

LEMMA AdministrationOne ==
    ASSUME VersionInv, ChainInv, ChainInv', OneInv, OneEach, NEW r \in Requests,
           Only(r), Administration(r)
    PROVE  OneInv'
<1> USE DEF VersionInv
<1>1. PICK w \in Users : w = req[r].user
  BY DEF TypeOK, Request
<1>2. Hand(r)
  BY DEF OneInv
<1>3. /\ Mine(r) = accounts[w] /\ Mine(r) \in Account
      /\ req[r].secret \in Secrets \cup {None}
  BY <1>1 DEF Mine, TypeOK, Request
<1>4. ASSUME \/ \E u \in Users : Remove(r, u)
             \/ \E u \in Users, new \in Secrets : AdminReset(r, u, new) \/ RecoverUser(r, u, new)
      PROVE  OneInv'
  <2>1. Moves(r)
    BY <1>4 DEF Remove, AdminReset, RecoverUser, Free, Moves
  <2>2. \/ req'[r].at \in {"remove.keys", "recover.write"}
        \/ req'[r].at = "reset.write" /\ "adminReset" \in Handlers
    BY <1>4, StartHas DEF Remove, AdminReset, RecoverUser, Free
  <2>3. Hand(r)'
    BY <2>2 DEF Hand, FreshRead, NotDeleted, LastOfLine, KeysDropped, Granting, InUse, Rotating
  <2>4. QED
    BY <2>1, <2>3, MovesInv
<1>5. CASE RemoveKeys(r)
  <2>1. Promises'
    BY <1>5, FewerKeep DEF RemoveKeys, RevokeUser, Only
  <2>2. req'[r].at = "remove.write" /\ req'[r].user = w /\ sessions' = sessions \ KeysOf(w)
    BY <1>1, <1>5, ContinueHas DEF RemoveKeys, RevokeUser
  <2>3. Hand(r)'
    BY <2>2 DEF Hand, FreshRead, NotDeleted, LastOfLine, KeysDropped, Granting, InUse, Rotating,
                KeysOf
  <2>4. Touches(w) /\ req[r].at # "idle"
    BY <1>5 DEF RemoveKeys, RevokeUser, Touches
  <2>5. QED
    BY <1>1, <2>1, <2>3, <2>4, FromRequest
<1>6. CASE RemoveWrite(r)
  <2>1. [Mine(r) EXCEPT !.state = "deleted"] \in Account /\ KeysOf(w) = {}
    BY <1>1, <1>2, <1>3, <1>6 DEF RemoveWrite, Account, Hand, KeysDropped
  <2>2. QED
    BY <1>1, <1>6, <2>1, UpdateInv DEF RemoveWrite
<1>7. CASE AdminResetWrite(r)
  <2>1. /\ WithPassword(Mine(r), req[r].secret) \in Account
        /\ WithPassword(Mine(r), req[r].secret).state = accounts[w].state
        /\ "adminReset" \in Handlers
    BY <1>1, <1>2, <1>3, <1>7 DEF AdminResetWrite, WithPassword, Account, Hand, KeysDropped
  <2>2. QED
    BY <1>1, <1>7, <2>1, UpdateInv DEF AdminResetWrite
<1>8. CASE RecoverWrite(r)
  <2>1. /\ [Mine(r) EXCEPT !.kek = req[r].secret] \in Account
        /\ [Mine(r) EXCEPT !.kek = req[r].secret].state = accounts[w].state
    BY <1>3 DEF Account
  <2>2. QED
    BY <1>1, <1>8, <2>1, UpdateInv DEF RecoverWrite
<1>9. QED
  BY <1>4, <1>5, <1>6, <1>7, <1>8 DEF Administration

(* What comes between the steps of a request leaves its account's version, *)
(* deletes no account, and adds no row and no session.                     *)
LEMMA EnvironmentHand ==
    ASSUME OneInv, req' = req,
           \A v \in Users : /\ accounts'[v].tv = accounts[v].tv
                            /\ accounts'[v].state = "deleted" => accounts[v].state = "deleted",
           TypeOK, NEW r \in Requests, sessions' \subseteq sessions,
           \A a \in refresh' : \E b \in refresh : a.id = b.id /\ a.lineage = b.lineage
    PROVE  Hand(r)'
<1>1. Hand(r) /\ req[r].user \in Users
  BY DEF OneInv, TypeOK, Request
<1>2. FreshRead(r)' /\ NotDeleted(r)'
  BY <1>1 DEF Hand, FreshRead, NotDeleted, Now
<1>3. LastOfLine(r)'
  BY <1>1 DEF Hand, LastOfLine, InLineOf
<1>4. KeysDropped(r)'
  BY <1>1 DEF Hand, KeysDropped, KeysOf
<1>5. QED
  BY <1>2, <1>3, <1>4 DEF Hand

LEMMA EnvironmentOne ==
    ASSUME VersionInv, OneInv, Environment PROVE OneInv'
<1> USE DEF VersionInv
<1>1. ASSUME NEW u \in Users, Restore(u) \/ Purge(u) PROVE OneInv'
  <2>1. \A v \in Users : /\ accounts'[v].tv = accounts[v].tv
                         /\ accounts'[v].state = "deleted" => accounts[v].state = "deleted"
    BY <1>1 DEF Restore, Purge, TypeOK, Account
  <2>2. /\ refresh' \subseteq refresh
        /\ UNCHANGED <<access, sessions, req>>
    BY <1>1 DEF Restore, Purge
  <2>3. Promises'
    BY <2>1, <2>2, FewerKeep
  <2>4. \A r \in Requests : Hand(r)'
    BY <2>1, <2>2, EnvironmentHand
  <2>5. QED
    BY <2>3, <2>4 DEF OneInv
<1>2. ASSUME NEW rt \in refresh, RefreshExpires(rt) PROVE OneInv'
  <2> DEFINE old == [rt EXCEPT !.fresh = FALSE]
  <2>1. /\ ~old.fresh /\ old.tv = rt.tv /\ old.basis = rt.basis /\ old.id = rt.id
        /\ old.lineage = rt.lineage
    BY DEF TypeOK, RefreshRow
  <2>2. /\ refresh' = (refresh \ {rt}) \cup {old}
        /\ UNCHANGED <<accounts, access, sessions, req>>
    BY <1>2 DEF RefreshExpires
  <2> HIDE DEF old
  <2>3. BasisIsVersion' /\ SingleUse'
    BY <2>1, <2>2 DEF OneInv, Promises, BasisIsVersion, SingleUse
  <2>4. DeletedHoldsNothing'
    BY <2>1, <2>2 DEF OneInv, Promises, DeletedHoldsNothing, Usable, UsableAccess, UsableRefresh,
                      Accepts, Exists, KeysOf
  <2>5. "adminReset" \notin Handlers => KeysFollowVersion'
    BY <2>2 DEF OneInv, Promises, KeysFollowVersion
  <2>6. \A r \in Requests : Hand(r)'
    BY <2>1, <2>2, EnvironmentHand
  <2>7. QED
    BY <2>3, <2>4, <2>5, <2>6 DEF OneInv, Promises
<1>3. ASSUME NEW s \in sessions, SessionExpires(s) PROVE OneInv'
  <2>1. /\ UNCHANGED <<accounts, refresh, access, req>> /\ sessions' \subseteq sessions
    BY <1>3 DEF SessionExpires
  <2>2. Promises'
    BY <2>1, FewerKeep
  <2>3. \A r \in Requests : Hand(r)'
    BY <2>1, EnvironmentHand
  <2>4. QED
    BY <2>2, <2>3 DEF OneInv
<1>4. CASE Restart
  <2>1. Promises'
    BY <1>4, FewerKeep DEF Restart
  <2>2. \A r \in Requests : req'[r].at = "idle"
    BY <1>4 DEF Restart, NoRequest
  <2>3. \A r \in Requests : Hand(r)'
    BY <2>2, PlainHand DEF Plain, Steps, Granting, InUse, Rotating
  <2>4. QED
    BY <2>1, <2>3 DEF OneInv
<1>5. QED
  BY <1>1, <1>2, <1>3, <1>4 DEF Environment

-----------------------------------------------------------------------------
AloneInv == VersionInv /\ ChainInv /\ OneInv

LEMMA InitAlone == Init => AloneInv
<1> SUFFICES ASSUME Init PROVE AloneInv
  OBVIOUS
<1>1. VersionInv
  BY InitTypeOK, InitNotAhead DEF VersionInv
<1>2. ChainInv
  BY DEF Init, ChainInv, Chain, InHand, NoRequest, Rotating
<1>3. Promises
  BY DEF Init, Promises, BasisIsVersion, DeletedHoldsNothing, SingleUse, KeysFollowVersion
<1>4. \A r \in Requests : Hand(r)
  BY DEF Init, NoRequest, Hand, FreshRead, NotDeleted, LastOfLine, KeysDropped, Granting, InUse,
         Rotating
<1>5. QED
  BY <1>1, <1>2, <1>3, <1>4 DEF AloneInv, OneInv

LEMMA NextOnly ==
    ASSUME TypeOK, ChainInv, NEW r \in Requests,
           SignIn(r) \/ Refresh(r) \/ SignOut(r) \/ Credentials(r) \/ Administration(r)
    PROVE  Only(r)
<1>1. CASE Refresh(r)
  BY <1>1 DEF Refresh, RotateFind, RotateConsume, RotateCheck, RotateIssue, RefreshSign, Start,
              Continue, Finish, Only, TypeOK
<1>2. CASE ~Refresh(r)
  BY <1>2, SignInChain, SignOutChain, CredentialsChain, AdministrationChain DEF Leaves, Only
<1>3. QED
  BY <1>1, <1>2

LEMMA NextAlone == ASSUME OneEach, AloneInv, [Next]_vars PROVE AloneInv'
<1>1. VersionInv' /\ ChainInv'
  BY NextVersionInv, ChainStep DEF AloneInv, VersionInv
<1>2. CASE UNCHANGED vars
  <2>1. Promises'
    BY <1>2, FewerKeep DEF AloneInv, vars
  <2>2. \A r \in Requests : Hand(r)'
    BY <1>2, EnvironmentHand DEF AloneInv, VersionInv, vars
  <2>3. QED
    BY <1>1, <2>1, <2>2 DEF AloneInv, OneInv
<1>3. CASE Environment
  BY <1>1, <1>3, EnvironmentOne DEF AloneInv
<1>4. ASSUME NEW r \in Requests,
             SignIn(r) \/ Refresh(r) \/ SignOut(r) \/ Credentials(r) \/ Administration(r)
      PROVE  AloneInv'
  <2>1. Only(r)
    BY <1>4, NextOnly DEF AloneInv, VersionInv
  <2>2. QED
    BY <1>1, <1>4, <2>1, SignInOne, RefreshOne, SignOutOne, CredentialsOne, AdministrationOne
       DEF AloneInv
<1>5. QED
  BY <1>2, <1>3, <1>4 DEF Next

LEMMA AlwaysAlone == Spec /\ []OneEach => []AloneInv
<1>1. OneEach /\ AloneInv /\ [Next]_vars => AloneInv'
  BY NextAlone
<1>2. QED
  BY <1>1, InitAlone, PTL DEF Spec

(* As long as no two requests of one account overlap, no accepted          *)
(* credential goes back to a sign-in made under an earlier version: signing*)
(* out of all devices, and every change of a password, is final            *)
(* (AuthService.logoutAll, MeService.changePassword).                      *)
THEOREM SignOutIsFinal == Spec /\ []OneEach => []SignedOutEverywhere
<1>1. AloneInv => SignedOutEverywhere
  BY DEF AloneInv, OneInv, Promises, BasisIsVersion, SignedOutEverywhere, Usable, UsableAccess,
         UsableRefresh
<1>2. QED
  BY <1>1, AlwaysAlone, PTL

(* As long as no two requests of one account overlap, a deleted account has*)
(* no accepted token and no key in memory until it is restored             *)
(* (MeService.deleteOwnAccount, JournalistsService.remove).                *)
THEOREM DeletedIsSignedOut == Spec /\ []OneEach => []DeletedHoldsNothing
<1>1. AloneInv => DeletedHoldsNothing
  BY DEF AloneInv, OneInv, Promises
<1>2. QED
  BY <1>1, AlwaysAlone, PTL

(* As long as no two requests of one account overlap, a sign-in never has  *)
(* two refresh tokens outstanding: a rotation replaces the one presented   *)
(* (RefreshTokenService.rotate).                                           *)
THEOREM TokensAreUsedOnce == Spec /\ []OneEach => []SingleUse
<1>1. AloneInv => SingleUse
  BY DEF AloneInv, OneInv, Promises
<1>2. QED
  BY <1>1, AlwaysAlone, PTL

(* As long as no two requests of one account overlap and no administrator  *)
(* resets a password, the keys in memory were unlocked under the account's *)
(* present version, or the request that raised it is about to drop them    *)
(* (UnlockSessionService.revokeUser after a change).                       *)
THEOREM KeysAreOfTheVersion ==
    "adminReset" \notin Handlers => (Spec /\ []OneEach => []KeysFollowVersion)
<1> SUFFICES ASSUME "adminReset" \notin Handlers
             PROVE  Spec /\ []OneEach => []KeysFollowVersion
  OBVIOUS
<1>1. AloneInv => KeysFollowVersion
  BY DEF AloneInv, OneInv, Promises
<1>2. QED
  BY <1>1, AlwaysAlone, PTL
=============================================================================
