---------------------------- MODULE AuthSessions ----------------------------
(***************************************************************************)
(* Sign-in state of the PressPass API: the account row's tokenVersion,     *)
(* access JWTs, rotating refresh tokens and the in-memory unlock sessions. *)
(*                                                                         *)
(* One Node process serves many HTTP requests.  A handler runs alone from  *)
(* one `await' to the next, so it is modelled as a chain of steps, one per *)
(* database call, and the chains of different requests interleave.  What a *)
(* handler read before an await is captured in its record req[r].          *)
(*                                                                         *)
(* A request that is refused without writing anything is a stuttering      *)
(* step, so only the accepted path of a first read is an action.           *)
(***************************************************************************)
EXTENDS Naturals

CONSTANTS
    Users,        \* accounts, e-mail verified (registration is another module)
    Requests,     \* identities of requests that can be in flight together
    Secrets,      \* passwords and encryption passphrases
    None,         \* no password / no wrapped profile key
    Handlers,     \* the handlers this instance exercises
    MaxVersion,   \* bound: tokenVersion stops here
    MaxTokens     \* bound: refresh tokens issued over a behaviour

AllHandlers == {"login", "google", "refresh", "logout", "logoutAll",
                "changePassword", "changePassphrase", "unlock", "deviceUnlock",
                "enroll", "lock", "remove", "restore", "adminReset",
                "recoverUser"}

ASSUME NoneAssumption == None \notin Secrets
ASSUME HandlersAssumption == Handlers \subseteq AllHandlers
ASSUME UsersAssumption == Users # {}
ASSUME BoundsAssumption == MaxVersion \in Nat /\ MaxTokens \in Nat

VARIABLES
    accounts,     \* table users
    refresh,      \* table refresh_tokens
    issued,       \* how many refresh tokens were ever issued
    access,       \* access JWTs signed so far, expired or not
    sessions,     \* UnlockSessionService.sessions
    req           \* the requests in flight

vars == <<accounts, refresh, issued, access, sessions, req>>

-----------------------------------------------------------------------------
Versions == 0..MaxVersion
Ids == 0..MaxTokens

(* deletedAt: NULL ("live"), a tombstone ("deleted"); "purged": no row.    *)
Account == [state: {"live", "deleted", "purged"}, tv: Versions,
            hash: Secrets \cup {None}, kek: Secrets \cup {None}]

(* `basis' and `lineage' are history: the tokenVersion of the account row  *)
(* whose credential the sign-in checked, and the first token of the chain. *)
RefreshRow == [id: Ids, user: Users, tv: Versions, fresh: BOOLEAN,
               basis: Versions, lineage: Ids]
AccessToken == [user: Users, tv: Versions, basis: Versions]
UnlockSession == [user: Users, basis: Versions]

Steps == {"idle", "signIn.restore", "signIn.sign", "cookie.read", "cookie.issue",
          "rotate.consume", "rotate.check", "rotate.issue", "refresh.sign",
          "logout.row", "logout.keys", "logoutAll.rows", "logoutAll.keys", "logoutAll.bump",
          "password.read", "password.write", "passphrase.read",
          "passphrase.write", "recover.write", "reset.write", "keys.revoke",
          "enroll.read", "enroll.write", "unlock.read", "unlock.create",
          "device.read", "remove.keys", "remove.write"}

Request == [at: Steps, user: Users, row: Account, rt: RefreshRow,
            seen: Versions, secret: Secrets \cup {None}]

(* What an idle request holds: nothing, spelt with some value of each type. *)
AnyUser == CHOOSE u \in Users : TRUE
NoAccount == [state |-> "purged", tv |-> 0, hash |-> None, kek |-> None]
NoRow == [id |-> 0, user |-> AnyUser, tv |-> 0, fresh |-> FALSE, basis |-> 0, lineage |-> 0]
NoRequest == [at |-> "idle", user |-> AnyUser, row |-> NoAccount, rt |-> NoRow,
              seen |-> 0, secret |-> None]

(* Users are created with a password that also wraps the profile key, or   *)
(* by Google with neither, the passphrase being enrolled later.            *)
Init ==
    /\ accounts \in [Users -> {[state |-> "live", tv |-> 0, hash |-> h, kek |-> k] :
                               h \in Secrets \cup {None}, k \in Secrets \cup {None}}]
    /\ \A u \in Users : accounts[u].hash # None => accounts[u].kek = accounts[u].hash
    /\ refresh = {}
    /\ issued = 0
    /\ access = {}
    /\ sessions = {}
    /\ req = [r \in Requests |-> NoRequest]

-----------------------------------------------------------------------------
Exists(u) == accounts[u].state # "purged"

Free(r, handler) == handler \in Handlers /\ req[r].at = "idle"
Start(r, u, step, row, secret) ==
    req' = [req EXCEPT ![r] = [NoRequest EXCEPT !.at = step, !.user = u,
                                                !.row = row, !.secret = secret]]
Continue(r, step) == req' = [req EXCEPT ![r].at = step]
Finish(r) == req' = [req EXCEPT ![r] = NoRequest]

(* Variant of Accepts: the guard only looks the account up.                *)
AcceptsAnyVersion(t) == Exists(t.user)

(* JwtAuthGuard: the JWT's version must be the account's; deletedAt is not *)
(* looked at.                                                              *)
Accepts(t) == Exists(t.user) /\ t.tv = accounts[t.user].tv
Guard(u) == \E t \in access : t.user = u /\ Accepts(t)

KeysOf(u) == {s \in sessions : s.user = u}

(* UnlockSessionService.create: one session per user.                      *)
CreateSession(u, basis) ==
    sessions' = (sessions \ KeysOf(u)) \cup {[user |-> u, basis |-> basis]}

(* UnlockSessionService.revokeUser                                         *)
RevokeUser(u) == sessions' = sessions \ KeysOf(u)

(* RefreshTokenService.issue                                               *)
Issue(u, tv, basis, lineage) ==
    /\ issued < MaxTokens
    /\ issued' = issued + 1
    /\ refresh' = refresh \cup {[id |-> issued + 1, user |-> u, tv |-> tv, fresh |-> TRUE,
                                 basis |-> basis, lineage |-> lineage]}

-----------------------------------------------------------------------------
(* Sign-in: password or Google                                             *)

SignInStart(r, u, secret) ==
    Start(r, u, IF accounts[u].state = "deleted" THEN "signIn.restore" ELSE "signIn.sign",
          accounts[u], secret)

LoginRead(r, u, secret) ==
    /\ Free(r, "login") /\ Exists(u)
    /\ accounts[u].hash = secret
    /\ SignInStart(r, u, secret)
    /\ UNCHANGED <<accounts, refresh, issued, access, sessions>>

GoogleRead(r, u) ==
    /\ Free(r, "google") /\ Exists(u)
    /\ SignInStart(r, u, None)
    /\ UNCHANGED <<accounts, refresh, issued, access, sessions>>

(* The write is by id: it clears whatever tombstone is there by now.       *)
SignInRestore(r) ==
    /\ req[r].at = "signIn.restore"
    /\ IF Exists(req[r].user)
       THEN /\ accounts' = [accounts EXCEPT ![req[r].user].state = "live"]
            /\ Continue(r, "signIn.sign")
       ELSE Finish(r) /\ UNCHANGED accounts
    /\ UNCHANGED <<refresh, issued, access, sessions>>

(* The password unwraps the profile key, or there is none.                 *)
Opens(row, secret) == row.kek \in {None, secret}

(* A password that no longer opens the profile key is refused, after the   *)
(* restore; otherwise the JWT carries the version read with the hash.      *)
SignInSign(r) ==
    LET u == req[r].user
        row == req[r].row
        byPassword == req[r].secret # None
    IN /\ req[r].at = "signIn.sign"
       /\ IF byPassword /\ ~Opens(row, req[r].secret)
          THEN Finish(r) /\ UNCHANGED <<access, sessions>>
          ELSE /\ access' = access \cup {[user |-> u, tv |-> row.tv, basis |-> row.tv]}
               /\ IF byPassword /\ row.kek # None
                  THEN CreateSession(u, row.tv)
                  ELSE UNCHANGED sessions
               /\ Continue(r, "cookie.read")
       /\ UNCHANGED <<accounts, refresh, issued>>

(* AuthController.setRefreshCookie -> issueForUser: reads the version anew *)
CookieRead(r) ==
    /\ req[r].at = "cookie.read"
    /\ IF Exists(req[r].user)
       THEN req' = [req EXCEPT ![r].at = "cookie.issue", ![r].seen = accounts[req[r].user].tv]
       ELSE Finish(r)
    /\ UNCHANGED <<accounts, refresh, issued, access, sessions>>

CookieIssue(r) ==
    /\ req[r].at = "cookie.issue"
    /\ IF Exists(req[r].user)
       THEN Issue(req[r].user, req[r].seen, req[r].row.tv, issued + 1)
       ELSE UNCHANGED <<refresh, issued>>
    /\ Finish(r)
    /\ UNCHANGED <<accounts, access, sessions>>

-----------------------------------------------------------------------------
(* POST /auth/refresh                                                      *)

(* The cookie presented may be any token ever issued.                      *)
RotateFind(r, rt) ==
    /\ Free(r, "refresh") /\ rt \in refresh
    /\ req' = [req EXCEPT ![r] = [NoRequest EXCEPT !.at = "rotate.consume", !.user = rt.user,
                                                   !.rt = rt]]
    /\ UNCHANGED <<accounts, refresh, issued, access, sessions>>

(* Variant: the presented token is looked up but not deleted.              *)
RotateConsumeKeeping(r) ==
    /\ req[r].at = "rotate.consume"
    /\ IF req[r].rt.fresh THEN Continue(r, "rotate.check") ELSE Finish(r)
    /\ UNCHANGED <<accounts, refresh, issued, access, sessions>>

(* delete(...).catch(() => undefined): a row another request already       *)
(* deleted does not stop this one.                                         *)
RotateConsume(r) ==
    /\ req[r].at = "rotate.consume"
    /\ refresh' = {t \in refresh : t.id # req[r].rt.id}
    /\ IF req[r].rt.fresh THEN Continue(r, "rotate.check") ELSE Finish(r)
    /\ UNCHANGED <<accounts, issued, access, sessions>>

(* Variant: the account's version is read but not compared.                *)
RotateCheckTrusting(r) ==
    /\ req[r].at = "rotate.check"
    /\ IF Exists(req[r].user)
       THEN req' = [req EXCEPT ![r].at = "rotate.issue", ![r].seen = accounts[req[r].user].tv]
       ELSE Finish(r)
    /\ UNCHANGED <<accounts, refresh, issued, access, sessions>>

RotateCheck(r) ==
    LET u == req[r].user
    IN /\ req[r].at = "rotate.check"
       /\ IF Exists(u) /\ accounts[u].tv = req[r].rt.tv
          THEN req' = [req EXCEPT ![r].at = "rotate.issue", ![r].seen = accounts[u].tv]
          ELSE Finish(r)
       /\ UNCHANGED <<accounts, refresh, issued, access, sessions>>

RotateIssue(r) ==
    LET rt == req[r].rt
    IN /\ req[r].at = "rotate.issue"
       /\ IF Exists(req[r].user)
          THEN /\ Issue(req[r].user, req[r].seen, rt.basis, rt.lineage)
               /\ Continue(r, "refresh.sign")
          ELSE Finish(r) /\ UNCHANGED <<refresh, issued>>
       /\ UNCHANGED <<accounts, access, sessions>>

(* accessTokenForUser re-reads the account and signs its current version.  *)
RefreshSign(r) ==
    LET u == req[r].user
    IN /\ req[r].at = "refresh.sign"
       /\ access' = IF Exists(u)
                    THEN access \cup {[user |-> u, tv |-> accounts[u].tv,
                                       basis |-> req[r].rt.basis]}
                    ELSE access
       /\ Finish(r)
       /\ UNCHANGED <<accounts, refresh, issued, sessions>>

-----------------------------------------------------------------------------
(* Handlers behind the guard                                               *)

Guarded == [logoutAll        |-> "logoutAll.rows",
            changePassword   |-> "password.read",
            changePassphrase |-> "passphrase.read",
            unlock           |-> "unlock.read",
            deviceUnlock     |-> "device.read",
            enroll           |-> "enroll.read",
            lock             |-> "keys.revoke",
            logout           |-> "logout.row"]

Authenticate(r, u, handler) ==
    /\ Free(r, handler) /\ Guard(u)
    /\ Start(r, u, Guarded[handler], NoAccount, None)
    /\ UNCHANGED <<accounts, refresh, issued, access, sessions>>

(* POST /auth/logout: the row of the cookie that came along, if any, then  *)
(* (after the await) the user's unlock sessions, of every device.          *)
LogoutRow(r, id) ==
    /\ req[r].at = "logout.row"
    /\ refresh' = {t \in refresh : t.id # id}
    /\ Continue(r, "logout.keys")
    /\ UNCHANGED <<accounts, issued, access, sessions>>

LogoutKeys(r) ==
    /\ req[r].at = "logout.keys"
    /\ RevokeUser(req[r].user)
    /\ Finish(r)
    /\ UNCHANGED <<accounts, refresh, issued, access>>

KeysRevoke(r) ==
    /\ req[r].at = "keys.revoke"
    /\ RevokeUser(req[r].user)
    /\ Finish(r)
    /\ UNCHANGED <<accounts, refresh, issued, access>>

LogoutAllRows(r) ==
    /\ req[r].at = "logoutAll.rows"
    /\ refresh' = {t \in refresh : t.user # req[r].user}
    /\ Continue(r, "logoutAll.keys")
    /\ UNCHANGED <<accounts, issued, access, sessions>>

LogoutAllKeys(r) ==
    /\ req[r].at = "logoutAll.keys"
    /\ RevokeUser(req[r].user)
    /\ Continue(r, "logoutAll.bump")
    /\ UNCHANGED <<accounts, refresh, issued, access>>

(* One UPDATE of the account row with tokenVersion: { increment: 1 }; it   *)
(* throws, ending the request, when the row is gone.                       *)
UpdateAccount(r, new, next) ==
    LET u == req[r].user
    IN /\ IF Exists(u)
          THEN /\ accounts[u].tv < MaxVersion
               /\ accounts' = [accounts EXCEPT ![u] = [new EXCEPT !.tv = accounts[u].tv + 1]]
               /\ IF next = "idle" THEN Finish(r) ELSE Continue(r, next)
          ELSE Finish(r) /\ UNCHANGED accounts
       /\ UNCHANGED <<refresh, issued, access, sessions>>

Mine(r) == accounts[req[r].user]
WithPassword(a, secret) == [a EXCEPT !.hash = secret, !.kek = secret]

LogoutAllBump(r) ==
    /\ req[r].at = "logoutAll.bump"
    /\ UpdateAccount(r, Mine(r), "idle")

(* A row read whose check (argon2, unwrapping) the request passed.         *)
ReadFor(r, next, secret) ==
    /\ req' = [req EXCEPT ![r].at = next, ![r].row = Mine(r),
                          ![r].secret = secret]
    /\ UNCHANGED <<accounts, refresh, issued, access, sessions>>

(* MeService.changePassword: the current password opens hash and envelope  *)
(* (or there is no envelope and one is provisioned).                       *)
PasswordRead(r, new) ==
    /\ req[r].at = "password.read" /\ Exists(req[r].user)
    /\ Mine(r).hash # None /\ Mine(r).kek \in {None, Mine(r).hash}
    /\ ReadFor(r, "password.write", new)

(* Variant: the unlock sessions are not revoked after the write.           *)
PasswordWriteKeepingKeys(r) ==
    /\ req[r].at = "password.write"
    /\ UpdateAccount(r, WithPassword(Mine(r), req[r].secret), "idle")

PasswordWrite(r) ==
    /\ req[r].at = "password.write"
    /\ UpdateAccount(r, WithPassword(Mine(r), req[r].secret), "keys.revoke")

(* EncryptionAccessService.changePassphrase, journalist branch: the        *)
(* passphrase changes, the password hash does not.                         *)
PassphraseRead(r, new) ==
    /\ req[r].at = "passphrase.read"
    /\ Exists(req[r].user) /\ Mine(r).kek # None
    /\ ReadFor(r, "passphrase.write", new)

PassphraseWrite(r) ==
    /\ req[r].at = "passphrase.write"
    /\ UpdateAccount(r, [Mine(r) EXCEPT !.kek = req[r].secret], "keys.revoke")

(* enroll, journalist branch: no version change, and it ends in an unlock. *)
EnrollRead(r, new) ==
    /\ req[r].at = "enroll.read"
    /\ Exists(req[r].user) /\ Mine(r).kek = None
    /\ ReadFor(r, "enroll.write", new)

EnrollWrite(r) ==
    /\ req[r].at = "enroll.write"
    /\ IF Exists(req[r].user)
       THEN /\ accounts' = [accounts EXCEPT ![req[r].user].kek = req[r].secret]
            /\ Continue(r, "unlock.read")
       ELSE Finish(r) /\ UNCHANGED accounts
    /\ UNCHANGED <<refresh, issued, access, sessions>>

UnlockRead(r) ==
    /\ req[r].at = "unlock.read"
    /\ Exists(req[r].user) /\ Mine(r).kek # None
    /\ ReadFor(r, "unlock.create", Mine(r).kek)

(* The device's key must open the account's payload; no passphrase.        *)
DeviceRead(r) ==
    /\ req[r].at = "device.read"
    /\ Exists(req[r].user)
    /\ ReadFor(r, "unlock.create", None)

UnlockCreate(r) ==
    /\ req[r].at = "unlock.create"
    /\ CreateSession(req[r].user, req[r].row.tv)
    /\ Finish(r)
    /\ UNCHANGED <<accounts, refresh, issued, access>>

(* Any step may refuse (a wrong password, a missing row, a bad envelope):  *)
(* a request that only read so far then ends without a trace.              *)
ReadRefused(r) ==
    /\ req[r].at \in {"password.read", "passphrase.read", "enroll.read", "unlock.read",
                    "device.read"}
    /\ Finish(r)
    /\ UNCHANGED <<accounts, refresh, issued, access, sessions>>

-----------------------------------------------------------------------------
(* Administrators' handlers on an account, and the owner's own deletion    *)

(* JournalistsService.remove and MeService.deleteOwnAccount                *)
Remove(r, u) ==
    /\ Free(r, "remove") /\ Exists(u)
    /\ Start(r, u, "remove.keys", NoAccount, None)
    /\ UNCHANGED <<accounts, refresh, issued, access, sessions>>

RemoveKeys(r) ==
    /\ req[r].at = "remove.keys"
    /\ RevokeUser(req[r].user)
    /\ Continue(r, "remove.write")
    /\ UNCHANGED <<accounts, refresh, issued, access>>

(* Variant: the tombstone alone, without the version.                      *)
RemoveWriteQuiet(r) ==
    /\ req[r].at = "remove.write"
    /\ IF Exists(req[r].user)
       THEN accounts' = [accounts EXCEPT ![req[r].user].state = "deleted"]
       ELSE UNCHANGED accounts
    /\ Finish(r)
    /\ UNCHANGED <<refresh, issued, access, sessions>>

RemoveWrite(r) ==
    /\ req[r].at = "remove.write"
    /\ UpdateAccount(r, [Mine(r) EXCEPT !.state = "deleted"], "idle")

(* Variant: a restored account starts over at version 0.                   *)
RestoreAfresh(u) ==
    /\ "restore" \in Handlers /\ Exists(u)
    /\ accounts' = [accounts EXCEPT ![u].state = "live", ![u].tv = 0]
    /\ UNCHANGED <<refresh, issued, access, sessions, req>>

(* JournalistsService.restore: one write, no version change.               *)
Restore(u) ==
    /\ "restore" \in Handlers /\ Exists(u)
    /\ accounts' = [accounts EXCEPT ![u].state = "live"]
    /\ UNCHANGED <<refresh, issued, access, sessions, req>>

(* JournalistsService.update with a password: hash, envelope and version,  *)
(* but the unlock sessions are left alone.                                 *)
AdminReset(r, u, new) ==
    /\ Free(r, "adminReset") /\ Exists(u) /\ accounts[u].kek # None
    /\ Start(r, u, "reset.write", NoAccount, new)
    /\ UNCHANGED <<accounts, refresh, issued, access, sessions>>

AdminResetWrite(r) ==
    /\ req[r].at = "reset.write"
    /\ UpdateAccount(r, WithPassword(Mine(r), req[r].secret), "idle")

(* EncryptionAccessService.recoverUser: from a recovery kit, not from the  *)
(* account row, so there is nothing to read first.                         *)
RecoverUser(r, u, new) ==
    /\ Free(r, "recoverUser") /\ Exists(u) /\ accounts[u].kek # None
    /\ Start(r, u, "recover.write", NoAccount, new)
    /\ UNCHANGED <<accounts, refresh, issued, access, sessions>>

RecoverWrite(r) ==
    /\ req[r].at = "recover.write"
    /\ UpdateAccount(r, [Mine(r) EXCEPT !.kek = req[r].secret], "keys.revoke")

-----------------------------------------------------------------------------
(* Time, the purge and the process                                         *)

RefreshExpires(rt) ==
    /\ rt \in refresh /\ rt.fresh
    /\ refresh' = (refresh \ {rt}) \cup {[rt EXCEPT !.fresh = FALSE]}
    /\ UNCHANGED <<accounts, issued, access, sessions, req>>

SessionExpires(s) ==
    /\ s \in sessions
    /\ sessions' = sessions \ {s}
    /\ UNCHANGED <<accounts, refresh, issued, access, req>>

(* Variant: a schema without the cascade.                                  *)
PurgeRowOnly(u) ==
    /\ accounts[u].state = "deleted"
    /\ accounts' = [accounts EXCEPT ![u].state = "purged"]
    /\ UNCHANGED <<refresh, issued, access, sessions, req>>

(* The row goes, and by cascade its refresh tokens; nothing in memory.     *)
Purge(u) ==
    /\ accounts[u].state = "deleted"
    /\ accounts' = [accounts EXCEPT ![u].state = "purged"]
    /\ refresh' = {t \in refresh : t.user # u}
    /\ UNCHANGED <<issued, access, sessions, req>>

(* A restart forgets memory and every request in flight.                   *)
Restart ==
    /\ sessions' = {}
    /\ req' = [r \in Requests |-> NoRequest]
    /\ UNCHANGED <<accounts, refresh, issued, access>>

-----------------------------------------------------------------------------
SignIn(r) ==
    \/ \E u \in Users, s \in Secrets : LoginRead(r, u, s)
    \/ \E u \in Users : GoogleRead(r, u)
    \/ SignInRestore(r) \/ SignInSign(r) \/ CookieRead(r) \/ CookieIssue(r)

Refresh(r) ==
    \/ \E rt \in refresh : RotateFind(r, rt)
    \/ RotateConsume(r) \/ RotateCheck(r) \/ RotateIssue(r) \/ RefreshSign(r)

SignOut(r) ==
    \/ \E id \in Ids : LogoutRow(r, id)
    \/ LogoutKeys(r) \/ KeysRevoke(r) \/ LogoutAllRows(r) \/ LogoutAllKeys(r) \/ LogoutAllBump(r)

Credentials(r) ==
    \/ \E u \in Users, h \in DOMAIN Guarded : Authenticate(r, u, h)
    \/ \E new \in Secrets : PasswordRead(r, new) \/ PassphraseRead(r, new) \/ EnrollRead(r, new)
    \/ PasswordWrite(r) \/ PassphraseWrite(r) \/ EnrollWrite(r)
    \/ UnlockRead(r) \/ DeviceRead(r) \/ UnlockCreate(r) \/ ReadRefused(r)

Administration(r) ==
    \/ \E u \in Users : Remove(r, u)
    \/ \E u \in Users, new \in Secrets : AdminReset(r, u, new) \/ RecoverUser(r, u, new)
    \/ RemoveKeys(r) \/ RemoveWrite(r) \/ AdminResetWrite(r) \/ RecoverWrite(r)

Environment ==
    \/ \E u \in Users : Restore(u) \/ Purge(u)
    \/ \E rt \in refresh : RefreshExpires(rt)
    \/ \E s \in sessions : SessionExpires(s)
    \/ Restart

Next ==
    \/ \E r \in Requests :
         SignIn(r) \/ Refresh(r) \/ SignOut(r) \/ Credentials(r) \/ Administration(r)
    \/ Environment

Spec == Init /\ [][Next]_vars
-----------------------------------------------------------------------------
(* Properties                                                              *)

(* Types, and the constraints the database keeps whatever the handlers do: *)
(* token ids are unique, were issued, and belong to an existing account    *)
(* (RefreshToken.user, onDelete: Cascade).                                 *)
TypeOK ==
    /\ accounts \in [Users -> Account]
    /\ refresh \subseteq RefreshRow
    /\ issued \in Ids
    /\ access \subseteq AccessToken
    /\ sessions \subseteq UnlockSession
    /\ req \in [Requests -> Request]
    /\ \A a \in refresh : a.id \in 1..issued /\ Exists(a.user)
    /\ \A a, b \in refresh : a.id = b.id => a = b

UsableAccess(u) == {t \in access : t.user = u /\ Accepts(t)}
UsableRefresh(u) == {t \in refresh : t.user = u /\ t.fresh /\ t.tv = accounts[u].tv}
Usable(u) == UsableAccess(u) \cup UsableRefresh(u)

(* Every token of one device's chain of rotations carries one tokenVersion *)
(* however the rotations overlap with each other and with sign-outs, so a  *)
(* sign-out everywhere ends the whole chain (RefreshTokenService.rotate    *)
(* compares, then issues with, the version it compared).                   *)
LineageKeepsVersion ==
    \A a, b \in refresh : a.lineage = b.lineage => a.tv = b.tv /\ a.user = b.user

(* Its inductive strengthening: it extends to the rows that rotations in   *)
(* flight have in hand, and what they issue next carries the same version. *)
Rotating == {"rotate.consume", "rotate.check", "rotate.issue"}
InHand == {req[r].rt : r \in {q \in Requests : req[q].at \in Rotating}}
Chain == refresh \cup InHand
ChainInv ==
    /\ \A a \in Chain : a.lineage \in 1..issued
    /\ \A a, b \in Chain : a.lineage = b.lineage => a.tv = b.tv /\ a.user = b.user
    /\ \A r \in Requests : req[r].at \in Rotating => req[r].user = req[r].rt.user
    /\ \A r \in Requests : req[r].at = "rotate.issue" => req[r].seen = req[r].rt.tv

(* Nothing issued, and nothing a request captured, is ahead of the account.*)
NotAhead ==
    /\ \A t \in access \cup refresh : t.tv <= accounts[t.user].tv
    /\ \A r \in Requests :
         /\ req[r].row.tv <= accounts[req[r].user].tv
         /\ req[r].seen <= accounts[req[r].user].tv

(* An access JWT or refresh token the API stopped accepting for its        *)
(* version is never accepted again: no handler lowers or reuses a version  *)
(* (JwtAuthGuard, RefreshTokenService.rotate).                             *)
DeadStaysDead ==
    [][\A t \in access \cup refresh :
         t.tv # accounts[t.user].tv => t.tv # accounts'[t.user].tv]_vars

(* Sign-in state implements Revocation: raising tokenVersion withdraws     *)
(* every JWT and refresh token of the account in that one step, whatever   *)
(* is in flight ("every token is bound to the owner's tokenVersion").      *)
Revoke == INSTANCE Revocation WITH
    version <- [u \in Users |-> accounts[u].tv],
    live <- [u \in Users |-> Usable(u)]
RevocationSpec == Revoke!Spec

(* "Sign out of ALL devices" and password changes: no accepted credential  *)
(* goes back to a sign-in made under an earlier version of the account.    *)
SignedOutEverywhere ==
    \A u \in Users : \A t \in Usable(u) : t.basis = t.tv

(* A soft-deleted account (deleteOwnAccount, JournalistsService.remove) is *)
(* signed out on every device and its keys are out of memory until a       *)
(* sign-in or an administrator restores it.                                *)
DeletedHoldsNothing ==
    \A u \in Users : accounts[u].state = "deleted" => Usable(u) = {} /\ KeysOf(u) = {}

(* Profile keys in memory were unlocked under the account's present        *)
(* version, or the request that raised it is about to drop them: a         *)
(* password, passphrase or sign-out does not leave an older unlock behind. *)
KeysFollowVersion ==
    \A s \in sessions :
        \/ s.basis = accounts[s.user].tv
        \/ \E r \in Requests : req[r].at = "keys.revoke" /\ req[r].user = s.user

(* A refresh token is consumed by its use: one sign-in never has two       *)
(* tokens outstanding (RefreshTokenService.rotate).                        *)
SingleUse == \A a, b \in refresh : a.lineage = b.lineage => a = b
=============================================================================
