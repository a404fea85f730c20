----------------------------- MODULE WebSession -----------------------------
(***************************************************************************)
(* A session in the browser: what sign-in, the silent recovery of the API  *)
(* wrapper (refresh of the access token, unlock from the key the device    *)
(* remembers) and sign-out leave in localStorage, IndexedDB and the cookie *)
(* jar, which every tab shares and which stay when someone else signs in.  *)
(*                                                                         *)
(* Of the server only the answers: an access token is fresh or not, each   *)
(* refresh cookie works once (good), a user has at most one unlock session *)
(* (opened, the key in it), and only its own unlock token is live. A user  *)
(* without data came with Google and has not enrolled a key yet.           *)
(* Keys and cookies are numbered; MaxKeys, MaxCookies and MaxRequests       *)
(* bound what happens.                                                     *)
(***************************************************************************)
EXTENDS Naturals, FiniteSets

CONSTANTS Users, Admins, Tabs, Jobs, None, MaxRequests, MaxKeys, MaxCookies

ASSUME AdminsAssumption == Admins \subseteq Users /\ None \notin Users
ASSUME NoneAssumption == None \notin [user: Users, fresh: BOOLEAN] \cup [user: Users, live: BOOLEAN]
ASSUME BoundsAssumption == MaxRequests \in Nat /\ MaxKeys \in Nat /\ MaxCookies \in Nat

VARIABLES
  token, user, unlock,      \* localStorage
  wrap, dek,                \* IndexedDB: the wrapping key, the wrapped profile key
  forgets,                  \* forgetDeviceKey: 2, 1 and 0 deletions to go
  cookie,                   \* in the jar, 0 when there is none
  owner, good,              \* server: whose cookie, which ones still work
  opened,                   \* server: the profile key in a user's unlock sessions
  data,                     \* server: the users whose account has encrypted data
  job, begun, lastKey,
  left,                     \* how the last user signed out, if nothing came after
  asked                     \* what was asked for in vain: sign-in, unlock

storage == <<token, user, unlock>>
device == <<wrap, dek, forgets>>
jar == <<cookie, owner, good>>
vars == <<storage, device, jar, opened, data, job, begun, lastKey, left, asked>>

Idle == [kind |-> "idle", tab |-> None, step |-> "none", who |-> None, token |-> None,
         unlock |-> None, got |-> None, key |-> 0, cookie |-> 0, tried |-> {}, safe |-> "no"]
Busy(j) == job[j].kind # "idle"
At(j, s) == job[j].step = s
Quiet == forgets = 0 /\ \A j \in Jobs : ~Busy(j)
Go(j, s) == job' = [job EXCEPT ![j].step = s]
NewCookie == Cardinality({c \in 1..MaxCookies : owner[c] # None}) + 1
Mates(j, steps) == {i \in Jobs \ {j} : job[i].tab = job[j].tab /\ job[i].step \in steps}
Unsafe(jobs) == [j \in Jobs |-> [jobs[j] EXCEPT !.safe = "no"]]

\* A request with the headers of the storage as it is; the cookie goes to the
\* routes of sign-in only.
Signout == {"logout", "logoutAll"}
Sent(r, t, k, c) ==
  [r EXCEPT !.step = "sent", !.token = t, !.unlock = k, !.cookie = IF r.kind \in Signout THEN c ELSE 0]

\* A new unlock session of u ends the one before: its token is dead wherever it is.
Live(u) == [user |-> u, live |-> TRUE]
Dead(k, u) == IF k = Live(u) THEN [k EXCEPT !.live = FALSE] ELSE k
Outdated(u) == [j \in Jobs |-> [job[j] EXCEPT !.unlock = Dead(@, u), !.got = Dead(@, u)]]

\* A journalist, signed in, whose cookie works and whose device remembers the key.
Fit ==
  /\ token # None /\ user = token.user /\ user \notin Admins /\ forgets = 0
  /\ cookie \in good /\ owner[cookie] = user
  /\ dek # None /\ dek.wrap = wrap /\ dek.user = user

\* safe: a call of a fit journalist with nothing beside it ("alone") but, at most,
\* such calls of the same tab ("shared").
Start(j, t, k, r) ==
  /\ ~Busy(j) /\ begun < MaxRequests /\ begun' = begun + 1
  /\ LET others == {i \in Jobs : Busy(i)}
         calm == k = "call" /\ \A i \in others : job[i].safe # "no" /\ job[i].tab = t
         beside == [i \in Jobs |-> IF i \in others THEN [job[i] EXCEPT !.safe = "shared"] ELSE job[i]]
     IN job' = [IF calm THEN beside ELSE Unsafe(job) EXCEPT ![j] =
                 [r EXCEPT !.kind = k, !.tab = t,
                           !.safe = IF ~(calm /\ Fit) THEN "no" ELSE IF others = {} THEN "alone" ELSE "shared"]]

Init ==
  /\ token = None /\ user = None /\ unlock = None
  /\ wrap = 0 /\ dek = None /\ forgets = 0
  /\ cookie = 0 /\ owner = [c \in 1..MaxCookies |-> None] /\ good = {}
  /\ opened = [u \in Users |-> None] /\ data \in SUBSET Users /\ Admins \subseteq data
  /\ job = [j \in Jobs |-> Idle] /\ begun = 0 /\ lastKey = 0
  /\ left = None /\ asked = {}

-----------------------------------------------------------------------------
(* Signing in.                                                              *)

\* With a password, or with Google, which brings no unlock and may find, or make,
\* an account without a password and without data.
Login(j, t, u, k) ==
  /\ k \in {"login", "google"} /\ (k = "login" => u \in data)
  /\ Start(j, t, k, [Idle EXCEPT !.step = "credentials", !.who = u])
  /\ left' = None
  /\ UNCHANGED <<storage, device, jar, opened, data, lastKey, asked>>

Unlocks(j) == job[j].kind = "login" /\ job[j].who \notin Admins

Credentials(j) ==
  LET u == job[j].who IN
  /\ At(j, "credentials") /\ NewCookie <= MaxCookies
  /\ owner' = [owner EXCEPT ![NewCookie] = u] /\ good' = good \cup {NewCookie}
  /\ opened' = IF Unlocks(j) THEN [opened EXCEPT ![u] = u] ELSE opened
  /\ unlock' = IF Unlocks(j) THEN Dead(unlock, u) ELSE unlock
  /\ job' = [IF Unlocks(j) THEN Outdated(u) ELSE job EXCEPT
               ![j].step = "signedIn", ![j].cookie = NewCookie, ![j].got = IF Unlocks(j) THEN Live(u) ELSE None]
  /\ UNCHANGED <<token, user, device, cookie, data, begun, lastKey, left, asked>>

\* enrollDevice asks for the key with the token and the unlock just stored.
Enroll(r, t, k) == [r EXCEPT !.step = "key", !.token = t, !.unlock = k, !.cookie = 0, !.got = None]

\* saveSession, and for a journalist's password enrollDevice.
SignedIn(j) ==
  LET u == job[j].who IN
  /\ At(j, "signedIn")
  /\ cookie' = job[j].cookie
  /\ token' = [user |-> u, fresh |-> TRUE] /\ user' = u
  /\ unlock' = IF Unlocks(j) THEN job[j].got ELSE unlock
  /\ job' = [job EXCEPT ![j] = IF Unlocks(j) THEN Enroll(@, token', unlock') ELSE Idle]
  /\ UNCHANGED <<device, owner, good, opened, data, begun, lastKey, left, asked>>

\* The page that asks for the passphrase or the password.
Unlock(j, t) ==
  /\ token # None /\ Start(j, t, "unlock", Sent(Idle, token, unlock, cookie))
  /\ left' = None
  /\ UNCHANGED <<storage, device, jar, opened, data, lastKey, asked>>

\* enrollDevice: the key of the unlock session ...
Key(j) ==
  LET u == job[j].token.user IN
  /\ At(j, "key") /\ lastKey < MaxKeys
  /\ IF job[j].unlock = Live(u) /\ opened[u] # None /\ job[j].token.fresh
     THEN /\ lastKey' = lastKey + 1
          /\ job' = [job EXCEPT ![j].step = "wrap", ![j].who = opened[u], ![j].key = lastKey + 1]
     ELSE lastKey' = lastKey /\ job' = [job EXCEPT ![j] = Idle]
  /\ UNCHANGED <<storage, device, jar, opened, data, begun, left, asked>>

\* ... is remembered under a new wrapping key, in two writes.
RememberWrap(j) ==
  /\ At(j, "wrap") /\ wrap' = job[j].key /\ Go(j, "dek")
  /\ UNCHANGED <<storage, dek, forgets, jar, opened, data, begun, lastKey, left, asked>>

RememberDek(j) ==
  /\ At(j, "dek") /\ dek' = [wrap |-> job[j].key, user |-> job[j].who]
  /\ job' = [job EXCEPT ![j] = Idle]
  /\ UNCHANGED <<storage, wrap, forgets, jar, opened, data, begun, lastKey, left, asked>>

-----------------------------------------------------------------------------
(* The API wrapper.                                                         *)

Call(j, t) ==
  /\ token # None /\ Start(j, t, "call", Sent(Idle, token, unlock, cookie))
  /\ left' = None
  /\ UNCHANGED <<storage, device, jar, opened, data, lastKey, asked>>

\* Sign-out asks the server, forgets the key (not from the administration, which
\* remembers none) and clears the storage at once.
Left == IF Quiet THEN [admin |-> user \in Admins, fresh |-> token.fresh] ELSE None

\* Variant: the unlock token stays.
LogoutKeepsUnlock(j, t, k) ==
  /\ token # None /\ k \in Signout
  /\ Start(j, t, k, Sent([Idle EXCEPT !.kind = k], token, unlock, cookie))
  /\ token' = None /\ user' = None /\ unlock' = unlock
  /\ forgets' = IF user \in Admins THEN forgets ELSE 2
  /\ left' = Left
  /\ UNCHANGED <<wrap, dek, jar, opened, data, lastKey, asked>>

Logout(j, t, k) ==
  /\ token # None /\ k \in Signout
  /\ Start(j, t, k, Sent([Idle EXCEPT !.kind = k], token, unlock, cookie))
  /\ token' = None /\ user' = None /\ unlock' = None
  /\ forgets' = IF user \in Admins THEN forgets ELSE 2
  /\ left' = Left
  /\ UNCHANGED <<wrap, dek, jar, opened, data, lastKey, asked>>

ForgetDevice ==
  /\ forgets > 0 /\ forgets' = forgets - 1
  /\ IF forgets = 2 THEN wrap' = 0 /\ dek' = dek ELSE wrap' = wrap /\ dek' = None
  /\ UNCHANGED <<storage, jar, opened, data, job, begun, lastKey, left, asked>>

Refused(r) == r.token = None \/ ~r.token.fresh
Locked(r) ==
  /\ r.kind = "call" \/ (r.kind = "me" /\ r.token.user \in data \ Admins)
  /\ r.unlock # Live(r.token.user) \/ opened[r.token.user] = None

\* A page whose call ends with 401 clears the session; "Encryption unlock
\* required" leads to the page that asks for the password.
Fail(js, status) ==
  /\ job' = [j \in Jobs |-> IF j \in js THEN Idle ELSE job[j]]
  /\ asked' = asked \cup {<<status, job[j].safe>> : j \in {i \in js : job[i].safe # "no"}}
  /\ IF status = 401 /\ \E j \in js : job[j].kind = "call"
     THEN token' = None /\ user' = None /\ unlock' = None
     ELSE UNCHANGED storage

\* logoutAll ends every token and cookie of the user.
Stale(t, u) == IF t # None /\ t.user = u THEN [t EXCEPT !.fresh = FALSE] ELSE t

\* What the server answers to a request. Unlocking is enrolling, for who has not.
Serve(j) ==
  LET r == job[j]
      u == r.token.user
  IN
  /\ At(j, "sent")
  /\ CASE Refused(r) -> Go(j, "401") /\ UNCHANGED <<token, unlock, jar, opened, data>>
       [] ~Refused(r) /\ Locked(r) -> Go(j, "400") /\ UNCHANGED <<token, unlock, jar, opened, data>>
       [] OTHER ->
            /\ opened' = CASE r.kind = "unlock" -> [opened EXCEPT ![u] = u]
                           [] r.kind \in Signout -> [opened EXCEPT ![u] = None]
                           [] OTHER -> opened
            /\ data' = IF r.kind = "unlock" THEN data \cup {u} ELSE data
            /\ good' = CASE r.kind = "logout" -> good \ {r.cookie}
                         [] r.kind = "logoutAll" -> {c \in good : owner[c] # u}
                         [] OTHER -> good
            /\ token' = IF r.kind = "logoutAll" THEN Stale(token, u) ELSE token
            /\ unlock' = IF r.kind = "unlock" THEN Dead(unlock, u) ELSE unlock
            /\ job' = CASE r.kind = "unlock" -> [Outdated(u) EXCEPT ![j].step = "ok", ![j].got = Live(u)]
                        [] r.kind = "logoutAll" ->
                             [i \in Jobs |-> [job[i] EXCEPT !.token = Stale(@, u), !.step = IF i = j THEN "ok" ELSE @]]
                        [] OTHER -> [job EXCEPT ![j].step = "ok"]
            /\ UNCHANGED <<cookie, owner>>
  /\ UNCHANGED <<user, device, begun, lastKey, left, asked>>

\* The answer arrives. The one to a sign-out clears the cookie; an unlock is saved
\* and the account asked for, and then saved with the token there is by then.
Answered(j) ==
  LET r == job[j] IN
  /\ At(j, "ok")
  /\ cookie' = IF r.kind \in Signout THEN 0 ELSE cookie
  /\ user' = IF r.kind = "me" /\ token # None THEN r.token.user ELSE user
  /\ unlock' = IF r.kind = "unlock" \/ (r.kind = "me" /\ token # None) THEN r.got ELSE unlock
  /\ job' = [job EXCEPT ![j] =
       CASE r.kind = "unlock" -> Sent([r EXCEPT !.kind = "me", !.tried = {}], token, r.got, 0)
         [] r.kind = "me" /\ token # None /\ r.token.user \notin Admins -> Enroll(r, token, r.got)
         [] OTHER -> Idle]
  /\ UNCHANGED <<token, device, owner, good, opened, data, begun, lastKey, left, asked>>

\* Variant: every call refreshes for itself.
RefreshAlone(j) ==
  /\ At(j, "401")
  /\ IF job[j].tried # {} THEN Fail({j}, 401)
     ELSE /\ job' = [job EXCEPT ![j].tried = {"refresh"}, ![j].cookie = cookie, ![j].step = "refresh"]
          /\ UNCHANGED <<storage, asked>>
  /\ UNCHANGED <<device, jar, opened, data, begun, lastKey, left>>

\* A first 401 is answered with a refresh, one per tab, which others wait for.
Refresh(j) ==
  /\ At(j, "401")
  /\ IF job[j].tried # {} THEN Fail({j}, 401)
     ELSE /\ job' = [job EXCEPT ![j].tried = {"refresh"}, ![j].cookie = cookie,
                ![j].step = IF Mates(j, {"refresh", "rotated"}) # {} THEN "waitRefresh" ELSE "refresh"]
          /\ UNCHANGED <<storage, asked>>
  /\ UNCHANGED <<device, jar, opened, data, begun, lastKey, left>>

Rotate(j) ==
  LET c == job[j].cookie IN
  /\ At(j, "refresh") /\ NewCookie <= MaxCookies
  /\ IF c \in good
     THEN /\ good' = (good \ {c}) \cup {NewCookie}
          /\ owner' = [owner EXCEPT ![NewCookie] = owner[c]]
          /\ job' = [job EXCEPT ![j].step = "rotated", ![j].cookie = NewCookie]
     ELSE job' = [job EXCEPT ![j].step = "rotated", ![j].cookie = 0] /\ UNCHANGED <<good, owner>>
  /\ UNCHANGED <<storage, device, cookie, opened, data, begun, lastKey, left, asked>>

\* Whoever waited is sent again, with what is stored now, or fails.
Rotated(j) ==
  LET c == job[j].cookie
      all == {j} \cup Mates(j, {"waitRefresh"})
  IN /\ At(j, "rotated")
     /\ cookie' = c
     /\ IF c = 0 THEN Fail(all, 401)
        ELSE /\ token' = [user |-> owner[c], fresh |-> TRUE]
             /\ job' = [i \in Jobs |-> IF i \in all THEN Sent(job[i], token', unlock, c) ELSE job[i]]
             /\ UNCHANGED <<user, unlock, asked>>
     /\ UNCHANGED <<device, owner, good, opened, data, begun, lastKey, left>>

\* A 400 for want of an unlock is answered, once, with the key of the device.
Recover(j) ==
  /\ At(j, "400")
  /\ IF "device" \in job[j].tried \/ user = None \/ user \in Admins THEN Fail({j}, 400)
     ELSE /\ job' = [job EXCEPT ![j].tried = @ \cup {"device"},
                ![j].step = IF Mates(j, {"recover", "device", "opened"}) # {} THEN "waitDevice" ELSE "recover",
                ![j].key = wrap]
          /\ UNCHANGED <<storage, asked>>
  /\ UNCHANGED <<device, jar, opened, data, begun, lastKey, left>>

\* recoverDeviceKey read the wrapping key; now the wrapped one, if they match.
Recovered(j) ==
  /\ At(j, "recover")
  /\ IF dek = None \/ dek.wrap # job[j].key THEN Fail({j} \cup Mates(j, {"waitDevice"}), 400)
     ELSE /\ job' = [job EXCEPT ![j].step = "device", ![j].who = dek.user, ![j].token = token]
          /\ UNCHANGED <<storage, asked>>
  /\ UNCHANGED <<device, jar, opened, data, begun, lastKey, left>>

\* A key is tried on the account's data; where there are none, any key will do.
OpensAccount(u, k) == u \notin Admins /\ (u \in data => k = u)

\* deviceUnlock: a key that does not open the account is refused, and then forgotten.
DeviceUnlock(j) ==
  LET r == job[j] IN
  /\ At(j, "device")
  /\ IF ~Refused(r) /\ OpensAccount(r.token.user, r.who)
     THEN /\ opened' = [opened EXCEPT ![r.token.user] = r.who]
          /\ unlock' = Dead(unlock, r.token.user)
          /\ job' = [Outdated(r.token.user) EXCEPT ![j].step = "opened", ![j].unlock = Live(r.token.user)]
          /\ UNCHANGED <<token, user, asked, forgets>>
     ELSE /\ Fail({j} \cup Mates(j, {"waitDevice"}), 400) /\ UNCHANGED opened
          /\ forgets' = IF Refused(r) THEN forgets ELSE 2
  /\ UNCHANGED <<wrap, dek, jar, data, begun, lastKey, left>>

DeviceOpened(j) ==
  LET all == {j} \cup Mates(j, {"waitDevice"}) IN
  /\ At(j, "opened")
  /\ unlock' = job[j].unlock
  /\ job' = [i \in Jobs |-> IF i \in all THEN Sent(job[i], token, unlock', cookie) ELSE job[i]]
  /\ UNCHANGED <<token, user, device, jar, opened, data, begun, lastKey, left, asked>>

-----------------------------------------------------------------------------
(* What else happens.                                                       *)

\* A request or its answer is lost, and the catch decides what that means; or the
\* page is closed between the two writes of a key.
Lose(j) ==
  /\ job[j].step \in {"credentials", "signedIn", "sent", "ok", "key", "dek", "refresh", "rotated", "device", "opened"}
  /\ left' = IF job[j].kind \in Signout THEN None ELSE left
  /\ LET all == {j} \cup (CASE job[j].step \in {"refresh", "rotated"} -> Mates(j, {"waitRefresh"})
                            [] job[j].step \in {"device", "opened"} -> Mates(j, {"waitDevice"})
                            [] OTHER -> {})
     IN /\ job' = Unsafe([i \in Jobs |-> IF i \in all THEN Idle ELSE job[i]])
        /\ IF job[j].step \in {"refresh", "rotated"} /\ \E i \in all : job[i].kind = "call"
           THEN token' = None /\ user' = None /\ unlock' = None
           ELSE UNCHANGED storage
  /\ UNCHANGED <<device, jar, opened, data, begun, lastKey, asked>>

\* The access token runs out.
Expire ==
  /\ token # None /\ token.fresh /\ token' = [token EXCEPT !.fresh = FALSE]
  /\ job' = Unsafe(job)
  /\ UNCHANGED <<user, unlock, device, jar, opened, data, begun, lastKey, left, asked>>

\* The unlock sessions of a user end: after 15 minutes, or with the server.
LockExpires(u) ==
  /\ opened[u] # None /\ opened' = [opened EXCEPT ![u] = None]
  /\ job' = Unsafe(job)
  /\ UNCHANGED <<storage, device, jar, data, begun, lastKey, left, asked>>

\* Signed out everywhere, from another device.
SignedOut(u) ==
  /\ left' = None
  /\ \E c \in good : owner[c] = u
  /\ good' = {c \in good : owner[c] # u} /\ opened' = [opened EXCEPT ![u] = None]
  /\ token' = Stale(token, u)
  /\ job' = [j \in Jobs |-> [job[j] EXCEPT !.safe = "no", !.token = Stale(@, u)]]
  /\ UNCHANGED <<user, unlock, device, cookie, owner, data, begun, lastKey, asked>>

Next ==
  \/ \E j \in Jobs :
       \/ \E t \in Tabs : Call(j, t) \/ Unlock(j, t) \/ \E k \in Signout : Logout(j, t, k)
       \/ \E t \in Tabs, u \in Users, k \in {"login", "google"} : Login(j, t, u, k)
       \/ Credentials(j) \/ SignedIn(j) \/ Key(j) \/ RememberWrap(j) \/ RememberDek(j)
       \/ Serve(j) \/ Answered(j) \/ Refresh(j) \/ Rotate(j) \/ Rotated(j)
       \/ Recover(j) \/ Recovered(j) \/ DeviceUnlock(j) \/ DeviceOpened(j) \/ Lose(j)
  \/ ForgetDevice \/ Expire \/ \E u \in Users : LockExpires(u) \/ SignedOut(u)

Spec == Init /\ [][Next]_vars

-----------------------------------------------------------------------------
(* Properties.                                                              *)

\* Calls of a journalist whose cookie works and whose device remembers the key never
\* end with a sign-in, however many of one tab run together, nor, if a call is the
\* only one, with a password, whatever of token and unlock had run out.
NotAskedInVain == asked \subseteq {<<400, "shared">>}

\* After a sign-out that nothing else was under way with, the browser has none of
\* the user, the unlock and the cookie, nor, after a journalist, the key; of the
\* access token only the one that signing out with a stale token fetches.
NothingLeft ==
  Quiet /\ left # None =>
    /\ user = None /\ unlock = None /\ cookie = 0
    /\ ~left.admin => wrap = 0 /\ dek = None
    /\ left.fresh => token = None
=============================================================================
