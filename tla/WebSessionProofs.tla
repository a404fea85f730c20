-------------------------- MODULE WebSessionProofs --------------------------
(* Proofs about WebSession, for any users, tabs and requests and any       *)
(* bounds: what a sign-out leaves behind, and that calls recover together. *)
EXTENDS WebSession, FiniteSetTheorems, TLAPS

Token == [user: Users, fresh: BOOLEAN]
Session == [user: Users, live: BOOLEAN]
Someone == Users \cup {None}
Kinds == {"idle", "login", "google", "call", "unlock", "me"} \cup Signout
Steps == {"none", "credentials", "signedIn", "key", "wrap", "dek", "sent", "ok", "401", "refresh",
          "waitRefresh", "rotated", "400", "recover", "waitDevice", "device", "opened"}
Request == [kind: Kinds, tab: Tabs \cup {None}, step: Steps, who: Someone, token: Token \cup {None},
            unlock: Session \cup {None}, got: Session \cup {None}, key: Nat, cookie: 0..MaxCookies,
            tried: SUBSET {"refresh", "device"}, safe: {"no", "alone", "shared"}]

(* What a request at a step cannot be without.                             *)
RequestOK(r) ==
    /\ r.kind = "idle" => r.step = "none"
    /\ r.step \in {"credentials", "signedIn"} => r.who \in Users
    /\ r.step \in {"key", "ok"} => r.token \in Token

StorageOK == token \in Token \cup {None} /\ user \in Someone /\ unlock \in Session \cup {None}
DeviceOK == wrap \in Nat /\ dek \in [wrap: Nat, user: Someone] \cup {None} /\ forgets \in 0..2
JarOK ==
    /\ cookie \in 0..MaxCookies /\ owner \in [1..MaxCookies -> Someone]
    /\ good \subseteq 1..MaxCookies /\ \A c \in good : owner[c] \in Users
ServerOK == opened \in [Users -> Someone] /\ lastKey \in Nat
JobsOK == job \in [Jobs -> Request] /\ \A j \in Jobs : RequestOK(job[j])
(* A refresh that was answered brings a cookie of somebody.                *)
RotatedOK == \A j \in Jobs : job[j].step = "rotated" /\ job[j].cookie # 0 => owner[job[j].cookie] \in Users
TypeOK == StorageOK /\ DeviceOK /\ JarOK /\ ServerOK /\ JobsOK /\ RotatedOK

-----------------------------------------------------------------------------
(* After a sign-out that nothing ran beside: nobody is busy but the        *)
(* sign-out itself, and how far it is says what may still be there.        *)
SigningOut(r) ==
    /\ r.kind \in Signout
    /\ \/ /\ r.step = "sent" /\ r.token \in Token
          /\ r.tried = {} \/ r.token.fresh
          /\ left.fresh => r.token.fresh
       \/ r.step = "ok"
       \/ ~left.fresh /\ r.step = "401" /\ r.tried = {}
       \/ ~left.fresh /\ r.step \in {"refresh", "rotated"}

LeftInv ==
    left # None =>
        /\ user = None /\ unlock = None
        /\ left.fresh => token = None
        /\ ~left.admin => (forgets < 2 => wrap = 0) /\ (forgets = 0 => dek = None)
        /\ \A i, j \in Jobs : Busy(i) /\ Busy(j) => i = j
        /\ \A j \in Jobs : Busy(j) => SigningOut(job[j])
        /\ (\A j \in Jobs : ~Busy(j)) => cookie = 0

-----------------------------------------------------------------------------
(* Records and tables                                                      *)

LEMMA NoneApart == None \notin Token /\ None \notin Session /\ None \notin Users
BY NoneAssumption, AdminsAssumption DEF Token, Session

LEMMA IdleType ==
    Idle \in Request /\ RequestOK(Idle) /\ Idle.kind = "idle" /\ Idle.step = "none" /\ Idle.tried = {}
BY BoundsAssumption, NoneApart DEF Idle, Request, Kinds, Signout, Steps, Someone, RequestOK

LEMMA SentType ==
    ASSUME NEW r \in Request, NEW t \in Token \cup {None},
           NEW k \in Session \cup {None}, NEW c \in 0..MaxCookies
    PROVE  LET s == Sent(r, t, k, c)
           IN  /\ s \in Request /\ (r.kind # "idle" => RequestOK(s)) /\ s.kind = r.kind /\ s.step = "sent"
               /\ s.token = t /\ s.tried = r.tried /\ s.tab = r.tab /\ s.who = r.who
<1> DEFINE d == IF r.kind \in Signout THEN c ELSE 0
           s == [r EXCEPT !.step = "sent", !.token = t, !.unlock = k, !.cookie = d]
<1>1. d \in 0..MaxCookies
  BY BoundsAssumption
<1> HIDE DEF d
<1>2. s \in Request /\ s.kind = r.kind /\ s.step = "sent" /\ s.token = t /\ s.tried = r.tried
      /\ s.tab = r.tab /\ s.who = r.who
  BY <1>1 DEF Request, Steps
<1>3. s = Sent(r, t, k, c)
  BY DEF Sent, d
<1> HIDE DEF s
<1>4. QED
  BY <1>2, <1>3 DEF RequestOK

(* One request is written.                                                 *)
LEMMA WriteType ==
    ASSUME JobsOK, NEW j \in Jobs, NEW q \in Request, RequestOK(q), job' = [job EXCEPT ![j] = q]
    PROVE  JobsOK' /\ job'[j] = q /\ \A i \in Jobs : i # j => job'[i] = job[i]
<1>1. job' \in [Jobs -> Request] /\ job'[j] = q /\ \A i \in Jobs : i # j => job'[i] = job[i]
  BY DEF JobsOK
<1>2. \A i \in Jobs : RequestOK(job'[i])
  BY <1>1 DEF JobsOK
<1>3. QED
  BY <1>1, <1>2 DEF JobsOK, RequestOK

LEMMA GoType ==
    ASSUME JobsOK, NEW j \in Jobs, NEW s \in Steps \ {"credentials", "signedIn", "key", "ok"},
           job[j].kind # "idle", Go(j, s)
    PROVE  /\ JobsOK' /\ \A i \in Jobs : i # j => job'[i] = job[i]
           /\ job'[j].step = s /\ job'[j].kind = job[j].kind /\ job'[j].token = job[j].token
           /\ job'[j].tried = job[j].tried /\ job'[j].cookie = job[j].cookie
<1> DEFINE q == [job[j] EXCEPT !.step = s]
<1>1. job[j] \in Request
  BY DEF JobsOK
<1>2. q \in Request /\ q.step = s /\ q.kind = job[j].kind /\ q.token = job[j].token
      /\ q.tried = job[j].tried /\ q.cookie = job[j].cookie
  BY <1>1 DEF Request
<1>3. job' = [job EXCEPT ![j] = q]
  BY DEF Go
<1> HIDE DEF q
<1>4. RequestOK(q)
  BY <1>2 DEF RequestOK
<1>5. QED
  BY <1>2, <1>3, <1>4, WriteType

(* A request that somebody else's step leaves where it is.                 *)
Kept(i) ==
    /\ job'[i] \in Request
    /\ job'[i].kind = job[i].kind /\ job'[i].step = job[i].step /\ job'[i].who = job[i].who
    /\ job'[i].cookie = job[i].cookie /\ job'[i].tried = job[i].tried
    /\ job[i].token \in Token => job'[i].token \in Token

LEMMA KeptOK ==
    ASSUME JobsOK, NEW i \in Jobs, Kept(i)
    PROVE  RequestOK(job'[i])
BY DEF JobsOK, Kept, RequestOK

LEMMA UnsafeType ==
    ASSUME NEW jobs \in [Jobs -> Request]
    PROVE  /\ Unsafe(jobs) \in [Jobs -> Request]
           /\ \A i \in Jobs :
                 LET r == Unsafe(jobs)[i]
                 IN  /\ r.kind = jobs[i].kind /\ r.step = jobs[i].step /\ r.who = jobs[i].who
                     /\ r.cookie = jobs[i].cookie /\ r.tried = jobs[i].tried /\ r.token = jobs[i].token
BY DEF Unsafe, Request

LEMMA DeadType ==
    ASSUME NEW k \in Session \cup {None}, NEW u \in Users
    PROVE  Dead(k, u) \in Session \cup {None}
<1>1. CASE k = Live(u)
  <2>1. Live(u) \in Session
    BY DEF Live, Session
  <2>2. k \in Session
    BY <1>1, <2>1
  <2>3. [k EXCEPT !.live = FALSE] \in Session
    BY <2>2 DEF Session
  <2>4. QED
    BY <1>1, <2>3 DEF Dead
<1>2. CASE k # Live(u)
  BY <1>2 DEF Dead
<1>3. QED
  BY <1>1, <1>2

LEMMA OutdatedType ==
    ASSUME JobsOK, NEW u \in Users
    PROVE  /\ Outdated(u) \in [Jobs -> Request]
           /\ \A i \in Jobs :
                 LET r == Outdated(u)[i]
                 IN  /\ r.kind = job[i].kind /\ r.step = job[i].step /\ r.who = job[i].who
                     /\ r.cookie = job[i].cookie /\ r.tried = job[i].tried /\ r.token = job[i].token
<1> DEFINE R(i) == [job[i] EXCEPT !.unlock = Dead(@, u), !.got = Dead(@, u)]
<1>1. ASSUME NEW i \in Jobs
      PROVE  /\ R(i) \in Request /\ R(i).kind = job[i].kind /\ R(i).step = job[i].step
             /\ R(i).who = job[i].who /\ R(i).cookie = job[i].cookie /\ R(i).tried = job[i].tried
             /\ R(i).token = job[i].token
  <2>1. job[i] \in Request
    BY DEF JobsOK
  <2>2. Dead(job[i].unlock, u) \in Session \cup {None} /\ Dead(job[i].got, u) \in Session \cup {None}
    BY <2>1, DeadType DEF Request
  <2>3. QED
    BY <2>1, <2>2 DEF Request
<1>2. Outdated(u) = [i \in Jobs |-> R(i)]
  BY DEF Outdated
<1> HIDE DEF R
<1>3. QED
  BY <1>1, <1>2

LEMMA StaleType ==
    ASSUME NEW t \in Token \cup {None}, NEW u
    PROVE  /\ Stale(t, u) \in Token \cup {None}
           /\ t \in Token => Stale(t, u) \in Token
           /\ t = None => Stale(t, u) = None
BY DEF Stale, Token

LEMMA CookieType == NewCookie \in Nat \ {0}
<1> DEFINE used == {c \in 1..MaxCookies : owner[c] # None}
<1>1. IsFiniteSet(1..MaxCookies)
  BY BoundsAssumption, FS_Interval
<1>2. IsFiniteSet(used)
  BY <1>1, FS_Subset
<1>3. Cardinality(used) \in Nat
  BY <1>2, FS_CardinalityType
<1>4. QED
  BY <1>3 DEF NewCookie

LEMMA InitType == Init => TypeOK
<1> SUFFICES ASSUME Init PROVE TypeOK
  OBVIOUS
<1>1. StorageOK /\ DeviceOK /\ JarOK /\ ServerOK
  BY BoundsAssumption DEF Init, StorageOK, DeviceOK, JarOK, ServerOK, Someone
<1>2. JobsOK /\ RotatedOK
  BY IdleType DEF Init, JobsOK, RotatedOK
<1>3. QED
  BY <1>1, <1>2 DEF TypeOK

(* A request begins: those in flight keep everything but what they say of  *)
(* what ran beside them.                                                   *)
LEMMA StartType ==
    ASSUME JobsOK, NEW j \in Jobs, NEW t \in Tabs, NEW k \in Kinds \ {"idle"}, NEW r \in Request,
           r.step = "sent" \/ (r.step = "credentials" /\ r.who \in Users), Start(j, t, k, r)
    PROVE  /\ JobsOK'
           /\ \A i \in Jobs : i # j => Kept(i) /\ job'[i].token = job[i].token
           /\ job'[j].kind = k /\ job'[j].step = r.step /\ job'[j].token = r.token
           /\ job'[j].tried = r.tried /\ job'[j].cookie = r.cookie
<1> DEFINE others == {i \in Jobs : Busy(i)}
           calm == k = "call" /\ \A i \in others : job[i].safe # "no" /\ job[i].tab = t
           beside == [i \in Jobs |-> IF i \in others THEN [job[i] EXCEPT !.safe = "shared"] ELSE job[i]]
           jobs == IF calm THEN beside ELSE Unsafe(job)
           safe == IF ~(calm /\ Fit) THEN "no" ELSE IF others = {} THEN "alone" ELSE "shared"
           q == [r EXCEPT !.kind = k, !.tab = t, !.safe = safe]
<1>1. job' = [jobs EXCEPT ![j] = q]
  BY DEF Start
<1>2. beside \in [Jobs -> Request]
      /\ \A i \in Jobs : /\ beside[i].kind = job[i].kind /\ beside[i].step = job[i].step
                         /\ beside[i].who = job[i].who /\ beside[i].cookie = job[i].cookie
                         /\ beside[i].tried = job[i].tried /\ beside[i].token = job[i].token
  BY DEF JobsOK, Request
<1>3. safe \in {"no", "alone", "shared"}
  OBVIOUS
<1> HIDE DEF safe
<1>4. q \in Request /\ q.kind = k /\ q.step = r.step /\ q.token = r.token /\ q.tried = r.tried
      /\ q.cookie = r.cookie /\ q.who = r.who
  BY <1>3 DEF Request
<1> HIDE DEF beside, calm, others, q
<1>5. jobs \in [Jobs -> Request]
      /\ \A i \in Jobs : /\ jobs[i].kind = job[i].kind /\ jobs[i].step = job[i].step
                         /\ jobs[i].who = job[i].who /\ jobs[i].cookie = job[i].cookie
                         /\ jobs[i].tried = job[i].tried /\ jobs[i].token = job[i].token
  BY <1>2, UnsafeType DEF JobsOK
<1> HIDE DEF jobs
<1>6. job' \in [Jobs -> Request] /\ job'[j] = q /\ \A i \in Jobs : i # j => job'[i] = jobs[i]
  BY <1>1, <1>4, <1>5
<1>7. \A i \in Jobs : i # j => Kept(i) /\ job'[i].token = job[i].token
  BY <1>5, <1>6 DEF Kept
<1>8. RequestOK(q)
  BY <1>4 DEF RequestOK
<1>9. \A i \in Jobs : RequestOK(job'[i])
  BY <1>6, <1>7, <1>8, KeptOK
<1>10. JobsOK'
  BY <1>6, <1>9 DEF JobsOK, RequestOK
<1>11. QED
  BY <1>4, <1>6, <1>7, <1>10

(* Requests fail: they are gone, and a call takes the session with it.     *)
LEMMA FailType ==
    ASSUME JobsOK, StorageOK, NEW js \in SUBSET Jobs, NEW status, Fail(js, status)
    PROVE  /\ JobsOK' /\ StorageOK'
           /\ \A i \in Jobs : job'[i] = IF i \in js THEN Idle ELSE job[i]
           /\ (\A i \in js : job[i].kind # "call") => UNCHANGED storage
           /\ (token' = None /\ user' = None /\ unlock' = None) \/ UNCHANGED storage
<1>1. job' \in [Jobs -> Request] /\ \A i \in Jobs : job'[i] = IF i \in js THEN Idle ELSE job[i]
  BY IdleType DEF Fail, JobsOK
<1>2. \A i \in Jobs : RequestOK(job'[i])
  BY <1>1, IdleType DEF JobsOK
<1>3. JobsOK'
  BY <1>1, <1>2 DEF JobsOK, RequestOK
<1>4. (token' = None /\ user' = None /\ unlock' = None) \/ UNCHANGED storage
  BY DEF Fail
<1>5. (\A i \in js : job[i].kind # "call") => UNCHANGED storage
  BY DEF Fail
<1>6. StorageOK'
  BY <1>4 DEF StorageOK, storage, Someone
<1>7. QED
  BY <1>1, <1>3, <1>4, <1>5, <1>6

-----------------------------------------------------------------------------
(* Types                                                                   *)

(* Requests that keep their cookies keep what RotatedOK says.              *)
LEMMA RotatedSame ==
    ASSUME RotatedOK, UNCHANGED owner,
           \A i \in Jobs : job'[i].step = "rotated" =>
               job[i].step = "rotated" /\ job'[i].cookie = job[i].cookie
    PROVE  RotatedOK'
BY DEF RotatedOK

LEMMA BeginningType ==
    ASSUME TypeOK, NEW j \in Jobs, NEW t \in Tabs,
           \/ \E u \in Users, k \in {"login", "google"} : Login(j, t, u, k)
           \/ Unlock(j, t) \/ Call(j, t) \/ \E k \in Signout : Logout(j, t, k)
    PROVE  TypeOK'
<1>t. StorageOK /\ DeviceOK /\ JarOK /\ ServerOK /\ JobsOK /\ RotatedOK
  BY DEF TypeOK
<1>c. token \in Token \cup {None} /\ unlock \in Session \cup {None} /\ cookie \in 0..MaxCookies
  BY <1>t DEF StorageOK, JarOK
<1>1. ASSUME NEW k \in Kinds \ {"idle"}, NEW r \in Request,
             r.step = "sent" \/ (r.step = "credentials" /\ r.who \in Users), Start(j, t, k, r),
             UNCHANGED <<wrap, dek, jar, opened, lastKey>>,
             UNCHANGED storage \/ (token' = None /\ user' = None /\ unlock' = None),
             UNCHANGED forgets \/ forgets' = 2
      PROVE  TypeOK'
  <2>1. JobsOK' /\ (\A i \in Jobs : i # j => Kept(i)) /\ job'[j].step # "rotated"
    BY <1>t, <1>1, StartType
  <2>2. RotatedOK'
    BY <1>t, <1>1, <2>1, RotatedSame DEF jar, Kept
  <2>3. StorageOK' /\ DeviceOK' /\ JarOK' /\ ServerOK'
    BY <1>t, <1>1 DEF StorageOK, storage, Someone, DeviceOK, jar, JarOK, ServerOK
  <2>4. QED
    BY <2>1, <2>2, <2>3 DEF TypeOK
<1>2. ASSUME NEW u \in Users, NEW k \in {"login", "google"}, Login(j, t, u, k)
      PROVE  TypeOK'
  <2> DEFINE r == [Idle EXCEPT !.step = "credentials", !.who = u]
  <2>1. r \in Request /\ r.step = "credentials" /\ r.who = u
    BY IdleType DEF Request, Steps, Someone
  <2>2. Start(j, t, k, r) /\ UNCHANGED <<storage, device, jar, opened, lastKey>>
    BY <1>2 DEF Login
  <2>3. k \in Kinds \ {"idle"}
    BY DEF Kinds
  <2> HIDE DEF r
  <2>4. QED
    BY <1>1, <2>1, <2>2, <2>3 DEF device
<1>3. CASE Unlock(j, t) \/ Call(j, t)
  <2> DEFINE r == Sent(Idle, token, unlock, cookie)
  <2>1. r \in Request /\ r.step = "sent"
    BY <1>c, IdleType, SentType
  <2>2. PICK k \in {"unlock", "call"} : Start(j, t, k, r) /\ UNCHANGED <<storage, device, jar, opened, lastKey>>
    BY <1>3 DEF Unlock, Call
  <2>3. k \in Kinds \ {"idle"}
    BY DEF Kinds
  <2> HIDE DEF r
  <2>4. QED
    BY <1>1, <2>1, <2>2, <2>3 DEF device
<1>4. ASSUME NEW k \in Signout, Logout(j, t, k) PROVE TypeOK'
  <2> DEFINE s == [Idle EXCEPT !.kind = k]
             r == Sent(s, token, unlock, cookie)
  <2>1. s \in Request /\ k \in Kinds \ {"idle"}
    BY IdleType DEF Request, Kinds, Signout
  <2>2. Start(j, t, k, r) /\ token' = None /\ user' = None /\ unlock' = None
        /\ (UNCHANGED forgets \/ forgets' = 2) /\ UNCHANGED <<wrap, dek, jar, opened, lastKey>>
    BY <1>4 DEF Logout
  <2> HIDE DEF s
  <2>3. r \in Request /\ r.step = "sent"
    BY <1>c, <2>1, SentType
  <2> HIDE DEF r
  <2>4. QED
    BY <1>1, <2>1, <2>2, <2>3
<1>5. QED
  BY <1>2, <1>3, <1>4

LEMMA SigningInType ==
    ASSUME TypeOK, NEW j \in Jobs,
           Credentials(j) \/ SignedIn(j) \/ Key(j) \/ RememberWrap(j) \/ RememberDek(j)
    PROVE  TypeOK'
<1>t. StorageOK /\ DeviceOK /\ JarOK /\ ServerOK /\ JobsOK /\ RotatedOK
  BY DEF TypeOK
<1>j. job[j] \in Request /\ RequestOK(job[j]) /\ job \in [Jobs -> Request]
  BY <1>t DEF JobsOK
<1>1. CASE Credentials(j)
  <2> DEFINE u == job[j].who
             jobs == IF Unlocks(j) THEN Outdated(u) ELSE job
             got == IF Unlocks(j) THEN Live(u) ELSE None
             q == [jobs[j] EXCEPT !.step = "signedIn", !.cookie = NewCookie, !.got = got]
  <2>1. /\ At(j, "credentials") /\ NewCookie <= MaxCookies
        /\ owner' = [owner EXCEPT ![NewCookie] = u] /\ good' = good \cup {NewCookie}
        /\ opened' = IF Unlocks(j) THEN [opened EXCEPT ![u] = u] ELSE opened
        /\ unlock' = IF Unlocks(j) THEN Dead(unlock, u) ELSE unlock
        /\ UNCHANGED <<token, user, device, cookie, lastKey>>
    BY <1>1 DEF Credentials
  <2>2. job' = [jobs EXCEPT ![j] = q]
    BY <1>1 DEF Credentials
  <2>3. u \in Users /\ NewCookie \in 1..MaxCookies
    BY <1>j, <2>1, CookieType, BoundsAssumption DEF At, RequestOK
  <2>4. got \in Session \cup {None}
    BY <2>3 DEF Live, Session
  <2>5. jobs \in [Jobs -> Request]
        /\ \A i \in Jobs : /\ jobs[i].kind = job[i].kind /\ jobs[i].step = job[i].step
                           /\ jobs[i].who = job[i].who /\ jobs[i].cookie = job[i].cookie
                           /\ jobs[i].tried = job[i].tried /\ jobs[i].token = job[i].token
    BY <1>t, <1>j, <2>3, OutdatedType
  <2>6. Dead(unlock, u) \in Session \cup {None}
    BY <1>t, <2>3, DeadType DEF StorageOK
  <2> HIDE DEF jobs, got
  <2>7. q \in Request /\ q.step = "signedIn" /\ q.who = u /\ q.kind = job[j].kind
    <3>1. jobs[j] \in Request /\ jobs[j].who = u /\ jobs[j].kind = job[j].kind
      BY <2>5
    <3>2. NewCookie \in 0..MaxCookies
      BY <2>3, BoundsAssumption
    <3> HIDE DEF u
    <3>3. QED
      BY <2>4, <3>1, <3>2 DEF Request, Steps
  <2> HIDE DEF q
  <2>8. job' \in [Jobs -> Request] /\ job'[j] = q /\ \A i \in Jobs : i # j => job'[i] = jobs[i]
    BY <2>2, <2>5, <2>7
  <2>9. \A i \in Jobs : i # j => Kept(i)
    BY <2>5, <2>8 DEF Kept
  <2>10. RequestOK(q)
    BY <1>j, <2>1, <2>3, <2>7 DEF At, RequestOK
  <2>11. JobsOK'
    BY <1>t, <2>8, <2>9, <2>10, KeptOK DEF JobsOK, RequestOK
  <2> HIDE DEF u
  <2>12. JarOK' /\ \A c \in 1..MaxCookies : owner[c] \in Users => owner'[c] \in Users
    BY <1>t, <2>1, <2>3 DEF JarOK, Someone
  <2>13. RotatedOK'
    <3> SUFFICES ASSUME NEW i \in Jobs, job'[i].step = "rotated", job'[i].cookie # 0
                 PROVE  owner'[job'[i].cookie] \in Users
      BY DEF RotatedOK
    <3>1. i # j
      BY <2>7, <2>8
    <3>2. job[i].step = "rotated" /\ job'[i].cookie = job[i].cookie
      BY <2>9, <3>1 DEF Kept
    <3>3. owner[job[i].cookie] \in Users /\ job[i].cookie \in 1..MaxCookies
      BY <1>t, <3>2, BoundsAssumption DEF RotatedOK, JobsOK, Request
    <3>4. QED
      BY <2>12, <3>2, <3>3
  <2>14. StorageOK' /\ DeviceOK' /\ ServerOK'
    BY <1>t, <2>1, <2>3, <2>6 DEF StorageOK, device, DeviceOK, ServerOK, Someone
  <2>15. QED
    BY <2>11, <2>12, <2>13, <2>14 DEF TypeOK
<1>2. CASE SignedIn(j)
  <2> DEFINE u == job[j].who
             t == [user |-> u, fresh |-> TRUE]
             k == IF Unlocks(j) THEN job[j].got ELSE unlock
             e == Enroll(job[j], t, k)
             q == IF Unlocks(j) THEN e ELSE Idle
  <2>1. /\ At(j, "signedIn") /\ cookie' = job[j].cookie /\ token' = t /\ user' = u /\ unlock' = k
        /\ job' = [job EXCEPT ![j] = q] /\ UNCHANGED <<device, owner, good, opened, lastKey>>
    BY <1>2 DEF SignedIn
  <2>2. u \in Users /\ cookie' \in 0..MaxCookies
    BY <1>j, <2>1 DEF At, RequestOK, Request
  <2>3. t \in Token /\ k \in Session \cup {None}
    BY <1>t, <1>j, <2>2 DEF Token, Request, StorageOK
  <2> HIDE DEF t, k
  <2>4. e \in Request /\ e.step = "key" /\ e.token = t /\ e.kind = job[j].kind
    <3>1. 0 \in 0..MaxCookies
      BY BoundsAssumption
    <3>2. QED
      BY <1>j, <2>3, <3>1 DEF Enroll, Request, Steps
  <2> HIDE DEF e
  <2>5. e.kind # "idle"
    BY <1>j, <2>1, <2>4 DEF At, RequestOK
  <2>6. q \in Request /\ RequestOK(q) /\ q.step # "rotated"
    BY <2>3, <2>4, <2>5, IdleType DEF RequestOK
  <2> HIDE DEF q
  <2>7. JobsOK' /\ job'[j] = q /\ \A i \in Jobs : i # j => job'[i] = job[i]
    BY <1>t, <2>1, <2>6, WriteType
  <2>8. RotatedOK'
    BY <1>t, <2>1, <2>6, <2>7, RotatedSame
  <2>9. StorageOK' /\ DeviceOK' /\ JarOK' /\ ServerOK'
    BY <1>t, <2>1, <2>2, <2>3 DEF StorageOK, Someone, device, DeviceOK, JarOK, ServerOK
  <2>10. QED
    BY <2>7, <2>8, <2>9 DEF TypeOK
<1>3. CASE Key(j)
  <2> DEFINE u == job[j].token.user
             q == [job[j] EXCEPT !.step = "wrap", !.who = opened[u], !.key = lastKey + 1]
  <2>1. /\ At(j, "key") /\ UNCHANGED <<storage, device, jar, opened>>
        /\ \/ lastKey' = lastKey + 1 /\ job' = [job EXCEPT ![j] = q]
           \/ lastKey' = lastKey /\ job' = [job EXCEPT ![j] = Idle]
    BY <1>3 DEF Key
  <2>2. u \in Users
    BY <1>j, <2>1 DEF At, RequestOK, Token
  <2>3. opened[u] \in Someone /\ lastKey' \in Nat /\ lastKey + 1 \in Nat
    BY <1>t, <2>1, <2>2 DEF ServerOK
  <2>4. q \in Request /\ q.step = "wrap" /\ q.kind = job[j].kind
    BY <1>j, <2>3 DEF Request, Steps
  <2> HIDE DEF q
  <2>5. RequestOK(q) /\ RequestOK(Idle)
    BY <1>j, <2>1, <2>4, IdleType DEF At, RequestOK
  <2>6. JobsOK' /\ job'[j].step # "rotated" /\ \A i \in Jobs : i # j => job'[i] = job[i]
    BY <1>t, <2>1, <2>4, <2>5, IdleType, WriteType
  <2>7. QED
    BY <1>t, <2>1, <2>3, <2>6, RotatedSame
       DEF TypeOK, storage, StorageOK, device, DeviceOK, jar, JarOK, ServerOK
<1>4. CASE RememberWrap(j)
  <2>1. /\ At(j, "wrap") /\ wrap' = job[j].key /\ Go(j, "dek")
        /\ UNCHANGED <<storage, dek, forgets, jar, opened, lastKey>>
    BY <1>4 DEF RememberWrap
  <2>2. "dek" \in Steps \ {"credentials", "signedIn", "key", "ok"} /\ job[j].kind # "idle"
    BY <1>j, <2>1 DEF Steps, At, RequestOK
  <2>3. JobsOK' /\ job'[j].step # "rotated" /\ \A i \in Jobs : i # j => job'[i] = job[i]
    BY <1>t, <2>1, <2>2, GoType
  <2>4. wrap' \in Nat
    BY <1>j, <2>1 DEF Request
  <2>5. QED
    BY <1>t, <2>1, <2>3, <2>4, RotatedSame
       DEF TypeOK, storage, StorageOK, DeviceOK, jar, JarOK, ServerOK
<1>5. CASE RememberDek(j)
  <2>1. /\ dek' = [wrap |-> job[j].key, user |-> job[j].who] /\ job' = [job EXCEPT ![j] = Idle]
        /\ UNCHANGED <<storage, wrap, forgets, jar, opened, lastKey>>
    BY <1>5 DEF RememberDek
  <2>2. JobsOK' /\ job'[j].step # "rotated" /\ \A i \in Jobs : i # j => job'[i] = job[i]
    BY <1>t, <2>1, IdleType, WriteType
  <2>3. dek' \in [wrap: Nat, user: Someone]
    BY <1>j, <2>1 DEF Request
  <2>4. QED
    BY <1>t, <2>1, <2>2, <2>3, RotatedSame
       DEF TypeOK, storage, StorageOK, DeviceOK, jar, JarOK, ServerOK
<1>6. QED
  BY <1>1, <1>2, <1>3, <1>4, <1>5

LEMMA ServingType ==
    ASSUME TypeOK, NEW j \in Jobs, Serve(j)
    PROVE  TypeOK'
<1> DEFINE r == job[j]
           u == r.token.user
<1>t. StorageOK /\ DeviceOK /\ JarOK /\ ServerOK /\ JobsOK /\ RotatedOK
  BY DEF TypeOK
<1>j. r \in Request /\ RequestOK(r) /\ job \in [Jobs -> Request] /\ r.step = "sent" /\ r.kind # "idle"
  BY <1>t DEF JobsOK, Serve, At, RequestOK
<1>u. UNCHANGED <<user, device, cookie, owner, lastKey>>
  BY DEF Serve, jar
<1>1. CASE Refused(r) \/ Locked(r)
  <2>1. (Go(j, "401") \/ Go(j, "400")) /\ UNCHANGED <<token, unlock, jar, opened>>
    BY <1>1 DEF Serve
  <2>2. {"401", "400"} \subseteq Steps \ {"credentials", "signedIn", "key", "ok"}
    BY DEF Steps
  <2>3. JobsOK' /\ job'[j].step # "rotated" /\ \A i \in Jobs : i # j => job'[i] = job[i]
    BY <1>t, <1>j, <2>1, <2>2, GoType
  <2>4. RotatedOK'
    BY <1>t, <1>u, <2>3, RotatedSame
  <2>5. QED
    BY <1>t, <1>u, <2>1, <2>3, <2>4 DEF TypeOK, StorageOK, device, DeviceOK, jar, JarOK, ServerOK
<1>2. CASE ~Refused(r) /\ ~Locked(r)
  <2>1. /\ opened' = CASE r.kind = "unlock" -> [opened EXCEPT ![u] = u]
                       [] r.kind \in Signout -> [opened EXCEPT ![u] = None]
                       [] OTHER -> opened
        /\ good' = CASE r.kind = "logout" -> good \ {r.cookie}
                     [] r.kind = "logoutAll" -> {c \in good : owner[c] # u}
                     [] OTHER -> good
        /\ token' = IF r.kind = "logoutAll" THEN Stale(token, u) ELSE token
        /\ unlock' = IF r.kind = "unlock" THEN Dead(unlock, u) ELSE unlock
    BY <1>2 DEF Serve
  <2>2. job' = CASE r.kind = "unlock" -> [Outdated(u) EXCEPT ![j].step = "ok", ![j].got = Live(u)]
                 [] r.kind = "logoutAll" ->
                      [i \in Jobs |-> [job[i] EXCEPT !.token = Stale(@, u), !.step = IF i = j THEN "ok" ELSE @]]
                 [] OTHER -> [job EXCEPT ![j].step = "ok"]
    BY <1>2 DEF Serve
  <2>3. r.token \in Token /\ u \in Users
    BY <1>j, <1>2 DEF Refused, Request, Token
  <2>4. good' \subseteq good
    BY <2>1 DEF Signout
  <2>5. opened' \in [Users -> Someone]
    BY <1>t, <2>1, <2>3 DEF ServerOK, Someone, Signout
  <2>6. StorageOK'
    BY <1>t, <1>u, <2>1, <2>3, StaleType, DeadType DEF StorageOK
  <2>7. /\ job' \in [Jobs -> Request]
        /\ \A i \in Jobs : i # j => Kept(i)
        /\ job'[j].step = "ok" /\ job'[j].token \in Token /\ job'[j].kind = r.kind
    <3>1. CASE r.kind = "unlock"
      <4> DEFINE q == [Outdated(u)[j] EXCEPT !.step = "ok", !.got = Live(u)]
      <4>1. job' = [Outdated(u) EXCEPT ![j] = q]
        BY <2>2, <3>1
      <4>2. Outdated(u) \in [Jobs -> Request] /\ Outdated(u)[j].token = r.token /\ Outdated(u)[j].kind = r.kind
        BY <1>t, <2>3, OutdatedType
      <4>3. Outdated(u)[j] \in Request /\ Live(u) \in Session
        BY <2>3, <4>2 DEF Live, Session
      <4>4. q \in Request /\ q.step = "ok" /\ q.token = r.token /\ q.kind = r.kind
        BY <4>2, <4>3 DEF Request, Steps
      <4> HIDE DEF q
      <4>5. job' \in [Jobs -> Request] /\ job'[j] = q
            /\ \A i \in Jobs : i # j => job'[i] = Outdated(u)[i]
        BY <4>1, <4>2, <4>4
      <4>6. \A i \in Jobs : i # j => Kept(i)
        BY <1>t, <2>3, <4>5, OutdatedType DEF Kept
      <4>7. QED
        BY <2>3, <4>4, <4>5, <4>6
    <3>2. CASE r.kind = "logoutAll"
      <4> DEFINE R(i) == [job[i] EXCEPT !.token = Stale(@, u), !.step = IF i = j THEN "ok" ELSE @]
      <4>1. job' = [i \in Jobs |-> R(i)]
        BY <2>2, <3>2
      <4>2. ASSUME NEW i \in Jobs
            PROVE  /\ R(i) \in Request /\ R(i).kind = job[i].kind /\ R(i).who = job[i].who
                   /\ R(i).cookie = job[i].cookie /\ R(i).tried = job[i].tried
                   /\ R(i).step = IF i = j THEN "ok" ELSE job[i].step
                   /\ job[i].token \in Token => R(i).token \in Token
        <5>1. job[i] \in Request
          BY <1>j
        <5>2. Stale(job[i].token, u) \in Token \cup {None}
              /\ (job[i].token \in Token => Stale(job[i].token, u) \in Token)
          BY <5>1, StaleType DEF Request
        <5>3. QED
          BY <5>1, <5>2 DEF Request, Steps
      <4> HIDE DEF R
      <4>3. QED
        BY <2>3, <4>1, <4>2 DEF Kept
    <3>3. CASE r.kind \notin {"unlock", "logoutAll"}
      <4> DEFINE q == [r EXCEPT !.step = "ok"]
      <4>1. job' = [job EXCEPT ![j] = q]
        BY <2>2, <3>3
      <4>2. q \in Request /\ q.step = "ok" /\ q.token = r.token /\ q.kind = r.kind
        BY <1>j DEF Request, Steps
      <4> HIDE DEF q
      <4>3. job' \in [Jobs -> Request] /\ job'[j] = q /\ \A i \in Jobs : i # j => job'[i] = job[i]
        BY <1>j, <4>1, <4>2
      <4>4. QED
        BY <1>j, <2>3, <4>2, <4>3 DEF Kept
    <3>4. QED
      BY <3>1, <3>2, <3>3
  <2>8. \A i \in Jobs : RequestOK(job'[i])
    <3>1. RequestOK(job'[j])
      BY <1>j, <2>7 DEF RequestOK
    <3>2. QED
      BY <1>t, <2>7, <3>1, KeptOK
  <2>9. JobsOK'
    BY <2>7, <2>8 DEF JobsOK, RequestOK
  <2>10. RotatedOK'
    BY <1>t, <1>u, <2>7, RotatedSame DEF Kept
  <2>11. QED
    BY <1>t, <1>u, <2>4, <2>5, <2>6, <2>9, <2>10 DEF TypeOK, device, DeviceOK, JarOK, ServerOK
<1>3. QED
  BY <1>1, <1>2

LEMMA AnsweredType ==
    ASSUME TypeOK, NEW j \in Jobs, Answered(j)
    PROVE  TypeOK'
<1> DEFINE r == job[j]
           s == [r EXCEPT !.kind = "me", !.tried = {}]
           q == CASE r.kind = "unlock" -> Sent(s, token, r.got, 0)
                  [] r.kind = "me" /\ token # None /\ r.token.user \notin Admins -> Enroll(r, token, r.got)
                  [] OTHER -> Idle
<1>t. StorageOK /\ DeviceOK /\ JarOK /\ ServerOK /\ JobsOK /\ RotatedOK
  BY DEF TypeOK
<1>j. r \in Request /\ RequestOK(r) /\ r.step = "ok" /\ r.token \in Token /\ r.kind # "idle"
  BY <1>t DEF JobsOK, Answered, At, RequestOK
<1>0. 0 \in 0..MaxCookies
  BY BoundsAssumption
<1>1. /\ cookie' = IF r.kind \in Signout THEN 0 ELSE cookie
      /\ user' = IF r.kind = "me" /\ token # None THEN r.token.user ELSE user
      /\ unlock' = IF r.kind = "unlock" \/ (r.kind = "me" /\ token # None) THEN r.got ELSE unlock
      /\ job' = [job EXCEPT ![j] = q]
      /\ UNCHANGED <<token, device, owner, good, opened, lastKey>>
  BY DEF Answered
<1>2. q \in Request /\ RequestOK(q) /\ q.step # "rotated"
  <2>1. CASE r.kind = "unlock"
    <3>1. s \in Request /\ s.kind = "me"
      BY <1>j DEF Request, Kinds
    <3>2. q = Sent(s, token, r.got, 0) /\ token \in Token \cup {None} /\ r.got \in Session \cup {None}
      BY <1>t, <1>j, <2>1 DEF StorageOK, Request
    <3> HIDE DEF s, q
    <3>3. QED
      BY <1>0, <3>1, <3>2, SentType
  <2>2. CASE r.kind = "me" /\ token # None /\ r.token.user \notin Admins
    <3>1. q = Enroll(r, token, r.got) /\ token \in Token /\ r.got \in Session \cup {None}
      BY <1>t, <1>j, <2>2 DEF StorageOK, Request
    <3> DEFINE e == Enroll(r, token, r.got)
    <3>2. e \in Request /\ e.step = "key" /\ e.token = token /\ e.kind = r.kind
      BY <1>0, <1>j, <3>1 DEF Enroll, Request, Steps
    <3> HIDE DEF e
    <3>3. QED
      BY <1>j, <3>1, <3>2 DEF RequestOK, e
  <2>3. CASE q = Idle
    BY <2>3, IdleType
  <2>4. QED
    BY <2>1, <2>2, <2>3
<1> HIDE DEF q, s
<1>3. JobsOK' /\ job'[j].step # "rotated" /\ \A i \in Jobs : i # j => job'[i] = job[i]
  BY <1>t, <1>1, <1>2, WriteType
<1>4. RotatedOK'
  BY <1>t, <1>1, <1>3, RotatedSame
<1>5. StorageOK'
  BY <1>t, <1>j, <1>1 DEF StorageOK, Someone, Token, Request
<1>6. JarOK'
  BY <1>0, <1>t, <1>1 DEF JarOK
<1>7. QED
  BY <1>t, <1>1, <1>3, <1>4, <1>5, <1>6 DEF TypeOK, device, DeviceOK, ServerOK

(* Requests are sent again.                                                *)
Resent(js, t, k, c) == job' = [i \in Jobs |-> IF i \in js THEN Sent(job[i], t, k, c) ELSE job[i]]

LEMMA ResentType ==
    ASSUME JobsOK, NEW js \in SUBSET Jobs, \A i \in js : job[i].kind # "idle",
           NEW t \in Token \cup {None}, NEW k \in Session \cup {None}, NEW c \in 0..MaxCookies,
           Resent(js, t, k, c)
    PROVE  /\ JobsOK'
           /\ \A i \in js : /\ job'[i].step = "sent" /\ job'[i].kind = job[i].kind
                            /\ job'[i].token = t /\ job'[i].tried = job[i].tried
           /\ \A i \in Jobs \ js : job'[i] = job[i]
<1>1. \A i \in js : /\ Sent(job[i], t, k, c) \in Request /\ RequestOK(Sent(job[i], t, k, c))
                     /\ Sent(job[i], t, k, c).step = "sent" /\ Sent(job[i], t, k, c).kind = job[i].kind
                     /\ Sent(job[i], t, k, c).token = t /\ Sent(job[i], t, k, c).tried = job[i].tried
  BY SentType DEF JobsOK
<1>2. job' \in [Jobs -> Request] /\ (\A i \in js : job'[i] = Sent(job[i], t, k, c))
      /\ \A i \in Jobs \ js : job'[i] = job[i]
  BY <1>1 DEF JobsOK, Resent
<1>3. \A i \in Jobs : RequestOK(job'[i])
  BY <1>1, <1>2 DEF JobsOK
<1>4. JobsOK'
  BY <1>2, <1>3 DEF JobsOK, RequestOK
<1>5. QED
  BY <1>1, <1>2, <1>4

LEMMA RefreshingType ==
    ASSUME TypeOK, NEW j \in Jobs, Refresh(j) \/ Rotate(j) \/ Rotated(j)
    PROVE  TypeOK'
<1> DEFINE r == job[j]
<1>t. StorageOK /\ DeviceOK /\ JarOK /\ ServerOK /\ JobsOK /\ RotatedOK
  BY DEF TypeOK
<1>j. r \in Request /\ RequestOK(r) /\ job \in [Jobs -> Request]
  BY <1>t DEF JobsOK
<1>f. ASSUME NEW js \in SUBSET Jobs, Fail(js, 401), UNCHANGED owner PROVE JobsOK' /\ StorageOK' /\ RotatedOK'
  <2>1. JobsOK' /\ StorageOK' /\ \A i \in Jobs : job'[i] = IF i \in js THEN Idle ELSE job[i]
    BY <1>t, <1>f, FailType
  <2>2. QED
    BY <1>t, <1>f, <2>1, IdleType, RotatedSame
<1>1. CASE Refresh(j)
  <2>1. At(j, "401") /\ UNCHANGED <<device, jar, opened, lastKey>>
    BY <1>1 DEF Refresh
  <2>2. CASE Fail({j}, 401)
    BY <1>t, <1>f, <2>1, <2>2 DEF TypeOK, device, DeviceOK, jar, JarOK, ServerOK
  <2>3. ASSUME NEW s \in {"waitRefresh", "refresh"}, UNCHANGED storage,
               job' = [job EXCEPT ![j].tried = {"refresh"}, ![j].cookie = cookie, ![j].step = s]
        PROVE  TypeOK'
    <3> DEFINE q == [r EXCEPT !.tried = {"refresh"}, !.cookie = cookie, !.step = s]
    <3>1. cookie \in 0..MaxCookies
      BY <1>t DEF JarOK
    <3>2. q \in Request /\ q.step = s /\ q.kind = r.kind
      BY <1>j, <3>1 DEF Request, Steps
    <3>3. job' = [job EXCEPT ![j] = q]
      BY <2>3
    <3> HIDE DEF q
    <3>4. RequestOK(q)
      BY <1>j, <2>1, <3>2 DEF At, RequestOK
    <3>5. JobsOK' /\ job'[j].step # "rotated" /\ \A i \in Jobs : i # j => job'[i] = job[i]
      BY <1>t, <3>2, <3>3, <3>4, WriteType
    <3>6. RotatedOK'
      BY <1>t, <2>1, <3>5, RotatedSame DEF jar
    <3>7. QED
      BY <1>t, <2>1, <2>3, <3>5, <3>6
         DEF TypeOK, storage, StorageOK, device, DeviceOK, jar, JarOK, ServerOK
  <2>4. QED
    BY <1>1, <2>2, <2>3 DEF Refresh
<1>2. CASE Rotate(j)
  <2> DEFINE c == r.cookie
  <2>1. /\ At(j, "refresh") /\ NewCookie <= MaxCookies
        /\ UNCHANGED <<storage, device, cookie, opened, lastKey>>
    BY <1>2 DEF Rotate
  <2>2. NewCookie \in 1..MaxCookies
    BY <2>1, CookieType, BoundsAssumption
  <2>3. PICK d \in 0..MaxCookies : job' = [job EXCEPT ![j].step = "rotated", ![j].cookie = d]
        /\ \/ /\ c \in good /\ d = NewCookie /\ good' = (good \ {c}) \cup {d}
              /\ owner' = [owner EXCEPT ![d] = owner[c]]
           \/ d = 0 /\ UNCHANGED <<good, owner>>
    BY <1>2, <2>2, BoundsAssumption DEF Rotate
  <2> DEFINE q == [r EXCEPT !.step = "rotated", !.cookie = d]
  <2>4. q \in Request /\ q.step = "rotated" /\ q.cookie = d /\ q.kind = r.kind
    BY <1>j DEF Request, Steps
  <2>5. job' = [job EXCEPT ![j] = q]
    BY <2>3
  <2> HIDE DEF q
  <2>6. RequestOK(q)
    BY <1>j, <2>1, <2>4 DEF At, RequestOK
  <2>7. JobsOK' /\ job'[j] = q /\ \A i \in Jobs : i # j => job'[i] = job[i]
    BY <1>t, <2>4, <2>5, <2>6, WriteType
  <2>8. /\ JarOK' /\ (d # 0 => owner'[d] \in Users)
        /\ \A x \in 1..MaxCookies : owner[x] \in Users => owner'[x] \in Users
    <3>1. CASE d = 0 /\ UNCHANGED <<good, owner>>
      BY <1>t, <2>1, <3>1 DEF JarOK
    <3>2. CASE /\ c \in good /\ d = NewCookie /\ good' = (good \ {c}) \cup {d}
               /\ owner' = [owner EXCEPT ![d] = owner[c]]
      BY <1>t, <2>1, <2>2, <3>2 DEF JarOK, Someone
    <3>3. QED
      BY <2>3, <3>1, <3>2
  <2>9. RotatedOK'
    <3> SUFFICES ASSUME NEW i \in Jobs, job'[i].step = "rotated", job'[i].cookie # 0
                 PROVE  owner'[job'[i].cookie] \in Users
      BY DEF RotatedOK
    <3>1. CASE i = j
      BY <2>4, <2>7, <2>8, <3>1
    <3>2. CASE i # j
      <4>1. owner[job[i].cookie] \in Users /\ job[i].cookie \in 1..MaxCookies
        BY <1>t, <2>7, <3>2, BoundsAssumption DEF RotatedOK, JobsOK, Request
      <4>2. QED
        BY <2>7, <2>8, <3>2, <4>1
    <3>3. QED
      BY <3>1, <3>2
  <2>10. QED
    BY <1>t, <2>1, <2>7, <2>8, <2>9 DEF TypeOK, storage, StorageOK, device, DeviceOK, ServerOK
<1>3. CASE Rotated(j)
  <2> DEFINE c == r.cookie
             all == {j} \cup Mates(j, {"waitRefresh"})
             u == owner[c]
             t == [user |-> u, fresh |-> TRUE]
  <2>1. At(j, "rotated") /\ cookie' = c /\ UNCHANGED <<device, owner, good, opened, lastKey>>
    BY <1>3 DEF Rotated
  <2>2. all \in SUBSET Jobs /\ \A i \in all : job[i].kind # "idle"
    BY <1>t, <2>1 DEF Mates, At, JobsOK, RequestOK
  <2>3. c \in 0..MaxCookies
    BY <1>j DEF Request
  <2>4. CASE Fail(all, 401)
    <3> HIDE DEF all, c
    <3>1. JobsOK' /\ StorageOK' /\ RotatedOK'
      BY <1>f, <2>1, <2>2, <2>4
    <3>2. QED
      BY <1>t, <2>1, <2>3, <3>1 DEF TypeOK, device, DeviceOK, JarOK, ServerOK
  <2>5. ASSUME c # 0, token' = t, UNCHANGED <<user, unlock>>,
               job' = [i \in Jobs |-> IF i \in all THEN Sent(job[i], token', unlock, c) ELSE job[i]]
        PROVE  TypeOK'
    <3>1. u \in Users
      BY <1>t, <2>1, <2>5 DEF At, RotatedOK
    <3>2. t \in Token /\ unlock \in Session \cup {None}
      BY <1>t, <3>1 DEF Token, StorageOK
    <3> HIDE DEF all, c, t, u
    <3>r. Resent(all, t, unlock, c)
      BY <2>5 DEF Resent
    <3>k. t \in Token \cup {None} /\ unlock \in Session \cup {None}
      BY <3>2
    <3>3. /\ JobsOK' /\ (\A i \in all : job'[i].step = "sent") /\ \A i \in Jobs \ all : job'[i] = job[i]
      BY <1>t, <2>2, <2>3, <3>k, <3>r, ResentType
    <3>4. RotatedOK'
      BY <1>t, <2>1, <3>3, RotatedSame
    <3>5. QED
      BY <1>t, <2>1, <2>3, <2>5, <3>2, <3>3, <3>4
         DEF TypeOK, StorageOK, device, DeviceOK, JarOK, ServerOK
  <2>6. QED
    BY <1>3, <2>4, <2>5 DEF Rotated
<1>4. QED
  BY <1>1, <1>2, <1>3

LEMMA RecoveringType ==
    ASSUME TypeOK, NEW j \in Jobs, Recover(j) \/ Recovered(j) \/ DeviceUnlock(j) \/ DeviceOpened(j)
    PROVE  TypeOK'
<1> DEFINE r == job[j]
<1>t. StorageOK /\ DeviceOK /\ JarOK /\ ServerOK /\ JobsOK /\ RotatedOK
  BY DEF TypeOK
<1>j. r \in Request /\ RequestOK(r) /\ job \in [Jobs -> Request]
  BY <1>t DEF JobsOK
<1>f. ASSUME NEW js \in SUBSET Jobs, Fail(js, 400), UNCHANGED owner PROVE JobsOK' /\ StorageOK' /\ RotatedOK'
  <2>1. JobsOK' /\ StorageOK' /\ \A i \in Jobs : job'[i] = IF i \in js THEN Idle ELSE job[i]
    BY <1>t, <1>f, FailType
  <2>2. QED
    BY <1>t, <1>f, <2>1, IdleType, RotatedSame
<1>w. {j} \in SUBSET Jobs /\ {j} \cup Mates(j, {"waitDevice"}) \in SUBSET Jobs
  BY DEF Mates
<1>q. ASSUME NEW q \in Request, job' = [job EXCEPT ![j] = q], q.kind = r.kind, r.step # "none",
             q.step \in {"waitDevice", "recover", "device"}, UNCHANGED <<storage, device, jar, opened, lastKey>>
      PROVE  TypeOK'
  <2>1. RequestOK(q)
    BY <1>j, <1>q DEF RequestOK
  <2>2. JobsOK' /\ job'[j] = q /\ \A i \in Jobs : i # j => job'[i] = job[i]
    BY <1>t, <1>q, <2>1, WriteType
  <2>3. RotatedOK'
    BY <1>t, <1>q, <2>2, RotatedSame DEF jar
  <2>4. QED
    BY <1>t, <1>q, <2>2, <2>3 DEF TypeOK, storage, StorageOK, device, DeviceOK, jar, JarOK, ServerOK
<1>1. CASE Recover(j)
  <2>1. At(j, "400") /\ UNCHANGED <<device, jar, opened, lastKey>>
    BY <1>1 DEF Recover
  <2>2. CASE Fail({j}, 400)
    BY <1>t, <1>f, <2>1, <2>2 DEF TypeOK, device, DeviceOK, jar, JarOK, ServerOK
  <2>3. ASSUME NEW s \in {"waitDevice", "recover"}, UNCHANGED storage,
               job' = [job EXCEPT ![j].tried = @ \cup {"device"}, ![j].step = s, ![j].key = wrap]
        PROVE  TypeOK'
    <3> DEFINE q == [r EXCEPT !.tried = @ \cup {"device"}, !.step = s, !.key = wrap]
    <3>1. q \in Request /\ q.step = s /\ q.kind = r.kind
      BY <1>t, <1>j DEF DeviceOK, Request, Steps
    <3>2. job' = [job EXCEPT ![j] = q]
      BY <2>3
    <3> HIDE DEF q
    <3>3. QED
      BY <1>q, <2>1, <2>3, <3>1, <3>2 DEF At
  <2>4. QED
    BY <1>1, <2>2, <2>3 DEF Recover
<1>2. CASE Recovered(j)
  <2>1. At(j, "recover") /\ UNCHANGED <<device, jar, opened, lastKey>>
    BY <1>2 DEF Recovered
  <2>2. CASE Fail({j} \cup Mates(j, {"waitDevice"}), 400)
    BY <1>t, <1>f, <1>w, <2>1, <2>2 DEF TypeOK, device, DeviceOK, jar, JarOK, ServerOK
  <2>3. ASSUME dek # None, UNCHANGED storage,
               job' = [job EXCEPT ![j].step = "device", ![j].who = dek.user, ![j].token = token]
        PROVE  TypeOK'
    <3> DEFINE q == [r EXCEPT !.step = "device", !.who = dek.user, !.token = token]
    <3>1. q \in Request /\ q.step = "device" /\ q.kind = r.kind
      BY <1>t, <1>j, <2>3 DEF DeviceOK, StorageOK, Request, Steps
    <3>2. job' = [job EXCEPT ![j] = q]
      BY <2>3
    <3> HIDE DEF q
    <3>3. QED
      BY <1>q, <2>1, <2>3, <3>1, <3>2 DEF At
  <2>4. QED
    BY <1>2, <2>2, <2>3 DEF Recovered
<1>3. CASE DeviceUnlock(j)
  <2>1. At(j, "device") /\ UNCHANGED <<wrap, dek, jar, lastKey>>
    BY <1>3 DEF DeviceUnlock
  <2>2. CASE Fail({j} \cup Mates(j, {"waitDevice"}), 400) /\ UNCHANGED opened
             /\ (UNCHANGED forgets \/ forgets' = 2)
    BY <1>t, <1>f, <1>w, <2>1, <2>2 DEF TypeOK, DeviceOK, jar, JarOK, ServerOK
  <2>3. CASE ~Refused(r) /\ OpensAccount(r.token.user, r.who)
    <3> DEFINE u == r.token.user
               q == [Outdated(u)[j] EXCEPT !.step = "opened", !.unlock = Live(u)]
    <3>1. /\ opened' = [opened EXCEPT ![u] = r.who] /\ unlock' = Dead(unlock, u)
          /\ job' = [Outdated(u) EXCEPT ![j].step = "opened", ![j].unlock = Live(u)]
          /\ UNCHANGED <<token, user, forgets>>
      BY <1>3, <2>3 DEF DeviceUnlock
    <3>2. u \in Users /\ r.who \in Someone /\ Live(u) \in Session
      BY <1>j, <2>3 DEF Refused, Request, Token, Live, Session
    <3> HIDE DEF u
    <3>3. Outdated(u) \in [Jobs -> Request]
          /\ \A i \in Jobs : LET o == Outdated(u)[i]
                             IN /\ o.kind = job[i].kind /\ o.step = job[i].step /\ o.who = job[i].who
                                /\ o.cookie = job[i].cookie /\ o.tried = job[i].tried /\ o.token = job[i].token
      BY <1>t, <3>2, OutdatedType
    <3>4. q \in Request /\ q.step = "opened" /\ q.kind = r.kind
      <4>1. Outdated(u)[j] \in Request /\ Outdated(u)[j].kind = r.kind
        BY <3>3
      <4>2. QED
        BY <3>2, <4>1 DEF Request, Steps
    <3>5. job' = [Outdated(u) EXCEPT ![j] = q]
      BY <3>1
    <3> HIDE DEF q
    <3>6. job' \in [Jobs -> Request] /\ job'[j] = q /\ \A i \in Jobs : i # j => job'[i] = Outdated(u)[i]
      BY <3>3, <3>4, <3>5
    <3>7. \A i \in Jobs : i # j => Kept(i)
      BY <3>3, <3>6 DEF Kept
    <3>8. RequestOK(q)
      BY <1>j, <2>1, <3>4 DEF At, RequestOK
    <3>9. \A i \in Jobs : RequestOK(job'[i])
      BY <1>t, <3>6, <3>7, <3>8, KeptOK
    <3>10. JobsOK'
      BY <3>6, <3>9 DEF JobsOK, RequestOK
    <3>11. RotatedOK'
      BY <1>t, <2>1, <3>4, <3>6, <3>7, RotatedSame DEF Kept, jar
    <3>12. StorageOK' /\ ServerOK'
      BY <1>t, <2>1, <3>1, <3>2, DeadType DEF StorageOK, ServerOK
    <3>13. QED
      BY <1>t, <2>1, <3>1, <3>10, <3>11, <3>12 DEF TypeOK, DeviceOK, jar, JarOK
  <2>4. QED
    BY <1>3, <2>2, <2>3 DEF DeviceUnlock
<1>4. CASE DeviceOpened(j)
  <2> DEFINE all == {j} \cup Mates(j, {"waitDevice"})
  <2>1. At(j, "opened") /\ unlock' = r.unlock /\ UNCHANGED <<token, user, device, jar, opened, lastKey>>
    BY <1>4 DEF DeviceOpened
  <2>2. \A i \in all : job[i].kind # "idle"
    BY <1>t, <2>1 DEF Mates, At, JobsOK, RequestOK
  <2>3. token \in Token \cup {None} /\ unlock' \in Session \cup {None} /\ cookie \in 0..MaxCookies
    BY <1>t, <1>j, <2>1 DEF StorageOK, Request, JarOK
  <2>4. Resent(all, token, unlock', cookie)
    BY <1>4 DEF DeviceOpened, Resent
  <2> HIDE DEF all
  <2>5. /\ JobsOK' /\ (\A i \in all : job'[i].step = "sent") /\ \A i \in Jobs \ all : job'[i] = job[i]
    BY <1>t, <1>w, <2>2, <2>3, <2>4, ResentType DEF all
  <2>6. RotatedOK'
    BY <1>t, <2>1, <2>5, RotatedSame DEF jar
  <2>7. QED
    BY <1>t, <2>1, <2>3, <2>5, <2>6 DEF TypeOK, StorageOK, device, DeviceOK, jar, JarOK, ServerOK
<1>5. QED
  BY <1>1, <1>2, <1>3, <1>4

LEMMA LosingType ==
    ASSUME TypeOK, NEW j \in Jobs, Lose(j)
    PROVE  TypeOK'
<1>t. StorageOK /\ DeviceOK /\ JarOK /\ ServerOK /\ JobsOK /\ RotatedOK
  BY DEF TypeOK
<1>1. PICK all \in SUBSET Jobs : job' = Unsafe([i \in Jobs |-> IF i \in all THEN Idle ELSE job[i]])
  BY DEF Lose, Mates
<1> DEFINE jobs == [i \in Jobs |-> IF i \in all THEN Idle ELSE job[i]]
<1>2. jobs \in [Jobs -> Request] /\ \A i \in Jobs : RequestOK(jobs[i])
  BY <1>t, IdleType DEF JobsOK
<1>3. \A i \in Jobs : jobs[i].step = "rotated" => job[i].step = "rotated" /\ jobs[i].cookie = job[i].cookie
  BY IdleType
<1>4. job' = Unsafe(jobs)
  BY <1>1
<1> HIDE DEF jobs
<1>5. job' \in [Jobs -> Request]
      /\ \A i \in Jobs : /\ job'[i].kind = jobs[i].kind /\ job'[i].step = jobs[i].step
                         /\ job'[i].who = jobs[i].who /\ job'[i].cookie = jobs[i].cookie
                         /\ job'[i].token = jobs[i].token
  BY <1>2, <1>4, UnsafeType
<1>6. \A i \in Jobs : RequestOK(job'[i])
  BY <1>2, <1>5 DEF RequestOK
<1>7. JobsOK'
  BY <1>5, <1>6 DEF JobsOK, RequestOK
<1>8. RotatedOK'
  BY <1>t, <1>3, <1>5, RotatedSame DEF Lose, jar
<1>9. (token' = None /\ user' = None /\ unlock' = None) \/ UNCHANGED storage
  BY DEF Lose
<1>10. StorageOK'
  BY <1>t, <1>9 DEF StorageOK, storage, Someone
<1>11. QED
  BY <1>t, <1>7, <1>8, <1>10 DEF Lose, TypeOK, device, DeviceOK, jar, JarOK, ServerOK

LEMMA SurroundingsType ==
    ASSUME TypeOK, ForgetDevice \/ Expire \/ \E u \in Users : LockExpires(u) \/ SignedOut(u)
    PROVE  TypeOK'
<1>t. StorageOK /\ DeviceOK /\ JarOK /\ ServerOK /\ JobsOK /\ RotatedOK
  BY DEF TypeOK
<1>j. job \in [Jobs -> Request]
  BY <1>t DEF JobsOK
<1>k. ASSUME \A i \in Jobs : Kept(i), job' \in [Jobs -> Request], UNCHANGED owner PROVE JobsOK' /\ RotatedOK'
  <2>1. \A i \in Jobs : RequestOK(job'[i])
    BY <1>t, <1>k, KeptOK
  <2>2. JobsOK'
    BY <1>k, <2>1 DEF JobsOK, RequestOK
  <2>3. RotatedOK'
    BY <1>t, <1>k, RotatedSame DEF Kept
  <2>4. QED
    BY <2>2, <2>3
<1>s. job' = Unsafe(job) => job' \in [Jobs -> Request] /\ \A i \in Jobs : Kept(i)
  BY <1>j, UnsafeType DEF Kept
<1>1. CASE ForgetDevice
  <2>1. forgets' \in 0..2 /\ (wrap' = 0 \/ UNCHANGED wrap) /\ (dek' = None \/ UNCHANGED dek)
        /\ UNCHANGED <<storage, jar, opened, job, lastKey>>
    BY <1>1, <1>t DEF ForgetDevice, DeviceOK
  <2>2. JobsOK' /\ RotatedOK'
    BY <1>t, <2>1, RotatedSame DEF JobsOK, RequestOK, jar
  <2>3. QED
    BY <1>t, <2>1, <2>2 DEF TypeOK, storage, StorageOK, DeviceOK, jar, JarOK, ServerOK
<1>2. CASE Expire
  <2>1. token \in Token /\ token' = [token EXCEPT !.fresh = FALSE] /\ job' = Unsafe(job)
        /\ UNCHANGED <<user, unlock, device, jar, opened, lastKey>>
    BY <1>2, <1>t DEF Expire, StorageOK
  <2>2. token' \in Token
    BY <2>1 DEF Token
  <2>3. JobsOK' /\ RotatedOK'
    BY <1>k, <1>s, <2>1 DEF jar
  <2>4. QED
    BY <1>t, <2>1, <2>2, <2>3 DEF TypeOK, StorageOK, device, DeviceOK, jar, JarOK, ServerOK
<1>3. ASSUME NEW u \in Users, LockExpires(u) PROVE TypeOK'
  <2>1. opened' = [opened EXCEPT ![u] = None] /\ job' = Unsafe(job)
        /\ UNCHANGED <<storage, device, jar, lastKey>>
    BY <1>3 DEF LockExpires
  <2>2. JobsOK' /\ RotatedOK'
    BY <1>k, <1>s, <2>1 DEF jar
  <2>3. ServerOK'
    BY <1>t, <2>1 DEF ServerOK, Someone
  <2>4. QED
    BY <1>t, <2>1, <2>2, <2>3 DEF TypeOK, storage, StorageOK, device, DeviceOK, jar, JarOK
<1>4. ASSUME NEW u \in Users, SignedOut(u) PROVE TypeOK'
  <2> DEFINE R(i) == [job[i] EXCEPT !.safe = "no", !.token = Stale(@, u)]
  <2>1. /\ good' \subseteq good /\ opened' = [opened EXCEPT ![u] = None] /\ token' = Stale(token, u)
        /\ job' = [i \in Jobs |-> R(i)] /\ UNCHANGED <<user, unlock, device, cookie, owner, lastKey>>
    BY <1>4 DEF SignedOut
  <2>2. ASSUME NEW i \in Jobs
        PROVE  /\ R(i) \in Request /\ R(i).kind = job[i].kind /\ R(i).step = job[i].step
               /\ R(i).who = job[i].who /\ R(i).cookie = job[i].cookie /\ R(i).tried = job[i].tried
               /\ job[i].token \in Token => R(i).token \in Token
    <3>1. job[i] \in Request
      BY <1>j
    <3>2. Stale(job[i].token, u) \in Token \cup {None}
          /\ (job[i].token \in Token => Stale(job[i].token, u) \in Token)
      BY <3>1, StaleType DEF Request
    <3>3. QED
      BY <3>1, <3>2 DEF Request
  <2> HIDE DEF R
  <2>3. job' \in [Jobs -> Request] /\ \A i \in Jobs : Kept(i)
    BY <2>1, <2>2 DEF Kept
  <2>4. JobsOK' /\ RotatedOK'
    BY <1>k, <2>1, <2>3
  <2>5. StorageOK' /\ ServerOK' /\ JarOK'
    BY <1>t, <2>1, StaleType DEF StorageOK, ServerOK, Someone, JarOK
  <2>6. QED
    BY <1>t, <2>1, <2>4, <2>5 DEF TypeOK, device, DeviceOK
<1>5. QED
  BY <1>1, <1>2, <1>3, <1>4

LEMMA NextType == TypeOK /\ [Next]_vars => TypeOK'
<1> SUFFICES ASSUME TypeOK, [Next]_vars PROVE TypeOK'
  OBVIOUS
<1>1. CASE UNCHANGED vars
  BY <1>1 DEF vars, storage, device, jar, TypeOK, StorageOK, DeviceOK, JarOK, ServerOK, JobsOK,
              RequestOK, RotatedOK
<1>2. CASE Next
  BY <1>2, BeginningType, SigningInType, ServingType, AnsweredType, RefreshingType, RecoveringType,
     LosingType, SurroundingsType DEF Next
<1>3. QED
  BY <1>1, <1>2

-----------------------------------------------------------------------------
(* What a sign-out leaves                                                  *)

(* Whoever is at a step after such a sign-out is the sign-out, alone.      *)
LEMMA OnlySigningOut ==
    ASSUME TypeOK, LeftInv, left # None, NEW j \in Jobs, job[j].step # "none"
    PROVE  /\ SigningOut(job[j]) /\ \A i \in Jobs : i # j => job[i].kind = "idle" /\ job[i].step = "none"
<1>1. \A i \in Jobs : job[i].kind = "idle" => job[i].step = "none"
  BY DEF TypeOK, JobsOK, RequestOK
<1>2. Busy(j)
  BY <1>1 DEF Busy
<1>3. SigningOut(job[j]) /\ \A i \in Jobs : i # j => ~Busy(i)
  BY <1>2 DEF LeftInv
<1>4. QED
  BY <1>1, <1>3 DEF Busy

(* The sign-out goes a step on.                                            *)
LEMMA StillSigningOut ==
    ASSUME LeftInv, left # None, UNCHANGED <<left, wrap, dek, forgets, user, unlock>>,
           NEW j \in Jobs, \A i \in Jobs : i # j => job'[i].kind = "idle",
           left.fresh => token' = None,
           job'[j].kind = "idle" \/ SigningOut(job'[j]), job'[j].kind = "idle" => cookie' = 0
    PROVE  LeftInv'
<1>1. \A i \in Jobs : Busy(i)' => i = j /\ SigningOut(job[i])'
  BY DEF Busy, SigningOut
<1>2. (\A i \in Jobs : ~Busy(i)') => cookie' = 0
  BY DEF Busy
<1>3. QED
  BY <1>1, <1>2 DEF LeftInv

LEMMA BeginningLeft ==
    ASSUME TypeOK, NEW j \in Jobs, NEW t \in Tabs, NEW k \in Signout, Logout(j, t, k)
    PROVE  LeftInv'
<1> SUFFICES ASSUME left' # None PROVE LeftInv'
  BY DEF LeftInv
<1> DEFINE s == [Idle EXCEPT !.kind = k]
           r == Sent(s, token, unlock, cookie)
<1>t. StorageOK /\ JarOK /\ JobsOK
  BY DEF TypeOK
<1>c. token \in Token /\ token \in Token \cup {None} /\ unlock \in Session \cup {None} /\ cookie \in 0..MaxCookies
  BY <1>t DEF Logout, StorageOK, JarOK
<1>1. s \in Request /\ s.tried = {} /\ k \in Kinds \ {"idle"}
  BY IdleType DEF Request, Kinds, Signout
<1>2. /\ Start(j, t, k, r) /\ token' = None /\ user' = None /\ unlock' = None
      /\ forgets' = (IF user \in Admins THEN forgets ELSE 2) /\ left' = Left
  BY DEF Logout
<1> HIDE DEF s
<1>3. r \in Request /\ r.step = "sent" /\ r.token = token /\ r.tried = {}
  BY <1>c, <1>1, SentType
<1> HIDE DEF r
<1>4. /\ \A i \in Jobs : i # j => Kept(i)
      /\ job'[j].kind = k /\ job'[j].step = "sent" /\ job'[j].token = token /\ job'[j].tried = {}
  BY <1>t, <1>1, <1>2, <1>3, StartType
<1>5. /\ \A i \in Jobs : ~Busy(i)
      /\ left' = [admin |-> user \in Admins, fresh |-> token.fresh]
  BY <1>2 DEF Left, Quiet
<1>6. \A i \in Jobs : Busy(i)' => i = j
  BY <1>4, <1>5 DEF Kept, Busy
<1>7. SigningOut(job[j])' /\ Busy(j)'
  BY <1>c, <1>1, <1>4, <1>5 DEF SigningOut, Busy
<1>8. ~left'.admin => forgets' = 2
  <2>1. left'.admin = (user \in Admins)
    BY <1>5
  <2>2. QED
    BY <1>2, <2>1, Zenon
<1>9. QED
  BY <1>2, <1>6, <1>7, <1>8 DEF LeftInv

LEMMA ServingLeft ==
    ASSUME TypeOK, LeftInv, left # None, NEW j \in Jobs, Serve(j)
    PROVE  LeftInv'
<1> DEFINE r == job[j]
<1>t. StorageOK /\ JobsOK
  BY DEF TypeOK
<1>1. r.step = "sent" /\ r \in Request
  BY <1>t DEF Serve, At, JobsOK
<1>2. SigningOut(r) /\ \A i \in Jobs : i # j => job[i].kind = "idle"
  BY <1>1, OnlySigningOut
<1>3. r.kind \in Signout /\ r.token \in Token /\ (r.tried = {} \/ r.token.fresh) /\ (left.fresh => r.token.fresh)
  BY <1>1, <1>2 DEF SigningOut
<1>4. /\ user = None /\ unlock = None /\ (left.fresh => token = None)
      /\ UNCHANGED <<user, device, cookie, left>>
  BY DEF LeftInv, Serve, jar
<1>5. ~Locked(r) /\ r.kind # "unlock" /\ r.kind # "idle"
  BY <1>3 DEF Locked, Signout
<1>6. CASE Refused(r)
  <2>1. Go(j, "401") /\ UNCHANGED <<token, unlock>>
    BY <1>6 DEF Serve
  <2>2. "401" \in Steps \ {"credentials", "signedIn", "key", "ok"}
    BY DEF Steps
  <2>3. /\ \A i \in Jobs : i # j => job'[i] = job[i]
        /\ job'[j].step = "401" /\ job'[j].kind = r.kind /\ job'[j].tried = r.tried
    BY <1>t, <1>5, <2>1, <2>2, GoType
  <2>4. ~r.token.fresh
    BY <1>3, <1>6, NoneApart DEF Refused
  <2>5. SigningOut(job'[j])
    BY <1>3, <2>3, <2>4 DEF SigningOut
  <2>6. QED
    BY <1>2, <1>3, <1>4, <1>5, <2>1, <2>3, <2>5, StillSigningOut DEF device
<1>7. CASE ~Refused(r)
  <2>1. /\ token' = (IF r.kind = "logoutAll" THEN Stale(token, r.token.user) ELSE token) /\ UNCHANGED unlock
        /\ job' = IF r.kind = "logoutAll"
                  THEN [i \in Jobs |-> [job[i] EXCEPT !.token = Stale(@, r.token.user), !.step = IF i = j THEN "ok" ELSE @]]
                  ELSE [job EXCEPT ![j].step = "ok"]
    BY <1>3, <1>5, <1>7 DEF Serve, Signout
  <2>2. /\ \A i \in Jobs : i # j => job'[i].kind = job[i].kind
        /\ job'[j].step = "ok" /\ job'[j].kind = r.kind
    BY <1>t, <2>1 DEF JobsOK, Request
  <2>3. left.fresh => token' = None
    BY <1>4, <2>1 DEF Stale
  <2>4. SigningOut(job'[j])
    BY <1>3, <2>2 DEF SigningOut
  <2>5. QED
    BY <1>2, <1>4, <1>5, <2>1, <2>2, <2>3, <2>4, StillSigningOut DEF device
<1>8. QED
  BY <1>6, <1>7

LEMMA AnsweredLeft ==
    ASSUME TypeOK, LeftInv, left # None, NEW j \in Jobs, Answered(j)
    PROVE  LeftInv'
<1>1. job[j].step = "ok" /\ job \in [Jobs -> Request]
  BY DEF Answered, At, TypeOK, JobsOK
<1>2. job[j].kind \in Signout /\ \A i \in Jobs : i # j => job[i].kind = "idle"
  BY <1>1, OnlySigningOut DEF SigningOut
<1>3. cookie' = 0 /\ UNCHANGED <<left, user, unlock, token, device>> /\ job' = [job EXCEPT ![j] = Idle]
  BY <1>2 DEF Answered, Signout
<1>4. job'[j].kind = "idle" /\ \A i \in Jobs : i # j => job'[i] = job[i]
  BY <1>1, <1>3, IdleType
<1>5. left.fresh => token' = None
  BY <1>3 DEF LeftInv
<1>6. QED
  BY <1>2, <1>3, <1>4, <1>5, StillSigningOut DEF device

LEMMA RefreshingLeft ==
    ASSUME TypeOK, LeftInv, left # None, NEW j \in Jobs, Refresh(j) \/ Rotate(j) \/ Rotated(j)
    PROVE  LeftInv'
<1> DEFINE r == job[j]
<1>t. StorageOK /\ JarOK /\ JobsOK /\ RotatedOK
  BY DEF TypeOK
<1>1. r.step \in {"401", "refresh", "rotated"} /\ job \in [Jobs -> Request]
  BY <1>t DEF Refresh, Rotate, Rotated, At, JobsOK
<1>2. SigningOut(r) /\ \A i \in Jobs : i # j => job[i].kind = "idle" /\ job[i].step = "none"
  BY <1>1, OnlySigningOut
<1>3. /\ r.kind \in Signout /\ ~left.fresh /\ (r.step = "401" => r.tried = {})
      /\ r.kind # "idle" /\ r.kind # "call"
  BY <1>1, <1>2 DEF SigningOut, Signout
<1>4. Mates(j, {"waitRefresh"}) = {} /\ Mates(j, {"refresh", "rotated"}) = {}
  BY <1>2 DEF Mates
<1>5. CASE Refresh(j)
  <2>1. /\ job' = [job EXCEPT ![j].tried = {"refresh"}, ![j].cookie = cookie, ![j].step = "refresh"]
        /\ UNCHANGED <<storage, device, left>>
    BY <1>3, <1>4, <1>5 DEF Refresh, At
  <2>2. job'[j].kind = r.kind /\ job'[j].step = "refresh" /\ \A i \in Jobs : i # j => job'[i] = job[i]
    BY <1>1, <2>1 DEF Request
  <2>3. SigningOut(job'[j])
    BY <1>3, <2>2 DEF SigningOut
  <2>4. QED
    BY <1>2, <1>3, <2>1, <2>2, <2>3, StillSigningOut DEF storage, device
<1>6. CASE Rotate(j)
  <2>1. PICK d : job' = [job EXCEPT ![j].step = "rotated", ![j].cookie = d]
    BY <1>6 DEF Rotate
  <2>2. UNCHANGED <<storage, device, left>>
    BY <1>6 DEF Rotate
  <2>3. job'[j].kind = r.kind /\ job'[j].step = "rotated" /\ \A i \in Jobs : i # j => job'[i] = job[i]
    BY <1>1, <2>1 DEF Request
  <2>4. SigningOut(job'[j])
    BY <1>3, <2>3 DEF SigningOut
  <2>5. QED
    BY <1>2, <1>3, <2>2, <2>3, <2>4, StillSigningOut DEF storage, device
<1>7. CASE Rotated(j)
  <2> DEFINE c == r.cookie
             all == {j} \cup Mates(j, {"waitRefresh"})
             t == [user |-> owner[c], fresh |-> TRUE]
  <2>1. At(j, "rotated") /\ cookie' = c /\ UNCHANGED <<device, left>> /\ all = {j} /\ c \in 0..MaxCookies
    BY <1>1, <1>4, <1>7 DEF Rotated, Request
  <2>2. CASE c = 0
    <3>1. Fail({j}, 401)
      BY <1>7, <2>1, <2>2 DEF Rotated
    <3>2. UNCHANGED storage /\ \A i \in Jobs : job'[i] = IF i \in {j} THEN Idle ELSE job[i]
      BY <1>t, <1>3, <3>1, FailType
    <3>3. QED
      BY <1>2, <1>3, <2>1, <2>2, <3>2, IdleType, StillSigningOut DEF storage, device
  <2>3. CASE c # 0
    <3>1. token' = t /\ UNCHANGED <<user, unlock>>
          /\ job' = [i \in Jobs |-> IF i \in all THEN Sent(job[i], t, unlock, c) ELSE job[i]]
      BY <1>7, <2>3 DEF Rotated
    <3>2. t \in Token /\ t \in Token \cup {None} /\ unlock \in Session \cup {None} /\ t.fresh
      BY <1>t, <2>1, <2>3 DEF At, RotatedOK, Token, StorageOK
    <3>3. job'[j] = Sent(r, t, unlock, c) /\ \A i \in Jobs : i # j => job'[i] = job[i]
      BY <2>1, <3>1
    <3> HIDE DEF t, c
    <3>4. job'[j].kind = r.kind /\ job'[j].step = "sent" /\ job'[j].token = t
      BY <1>1, <2>1, <3>2, <3>3, SentType
    <3>5. SigningOut(job'[j])
      BY <1>3, <3>2, <3>4 DEF SigningOut
    <3>6. QED
      BY <1>2, <1>3, <2>1, <3>1, <3>3, <3>5, <3>4, StillSigningOut DEF device
  <2>4. QED
    BY <2>2, <2>3
<1>8. QED
  BY <1>5, <1>6, <1>7

LEMMA SurroundingsLeft ==
    ASSUME TypeOK, LeftInv, left # None, ForgetDevice \/ Expire \/ \E u \in Users : LockExpires(u)
    PROVE  LeftInv'
<1>j. job \in [Jobs -> Request]
  BY DEF TypeOK, JobsOK
<1>1. CASE ForgetDevice
  <2>1. UNCHANGED <<token, user, unlock, cookie, job, left>>
    BY <1>1 DEF ForgetDevice, storage, jar
  <2>2. forgets \in 0..2 /\ forgets > 0 /\ forgets' = forgets - 1
        /\ IF forgets = 2 THEN wrap' = 0 /\ dek' = dek ELSE wrap' = wrap /\ dek' = None
    BY <1>1 DEF ForgetDevice, TypeOK, DeviceOK
  <2>3. ~left.admin => (forgets < 2 => wrap = 0) /\ (forgets = 0 => dek = None)
    BY DEF LeftInv
  <2>4. ~left.admin => (forgets' < 2 => wrap' = 0) /\ (forgets' = 0 => dek' = None)
    BY <2>2, <2>3
  <2>5. QED
    BY <2>1, <2>4 DEF LeftInv, Busy, SigningOut
<1>2. CASE Expire \/ \E u \in Users : LockExpires(u)
  <2>1. job' = Unsafe(job) /\ UNCHANGED <<user, unlock, wrap, dek, forgets, cookie, left>>
        /\ (left.fresh => token' = None)
    BY <1>2 DEF Expire, LockExpires, storage, device, jar, LeftInv
  <2>2. \A i \in Jobs : /\ job'[i].kind = job[i].kind /\ job'[i].step = job[i].step
                        /\ job'[i].tried = job[i].tried /\ job'[i].token = job[i].token
    BY <1>j, <2>1, UnsafeType
  <2>3. \A i \in Jobs : (Busy(i)' <=> Busy(i)) /\ (SigningOut(job[i])' <=> SigningOut(job[i]))
    BY <2>1, <2>2 DEF Busy, SigningOut
  <2>4. QED
    BY <2>1, <2>3 DEF LeftInv
<1>3. QED
  BY <1>1, <1>2

LEMMA NextLeft == TypeOK /\ LeftInv /\ [Next]_vars => LeftInv'
<1> SUFFICES ASSUME TypeOK, LeftInv, [Next]_vars PROVE LeftInv'
  OBVIOUS
<1>n. left' = None => LeftInv'
  BY DEF LeftInv
<1>1. CASE UNCHANGED vars
  BY <1>1 DEF vars, storage, device, jar, LeftInv, Busy, SigningOut
<1>2. CASE \E j \in Jobs, t \in Tabs, k \in Signout : Logout(j, t, k)
  BY <1>2, BeginningLeft
<1>3. CASE \/ \E j \in Jobs, t \in Tabs : \/ Call(j, t) \/ Unlock(j, t)
                                          \/ \E u \in Users, k \in {"login", "google"} : Login(j, t, u, k)
           \/ \E u \in Users : SignedOut(u)
  BY <1>3, <1>n DEF Call, Unlock, Login, SignedOut
<1>4. CASE \E j \in Jobs : \/ Credentials(j) \/ SignedIn(j) \/ Key(j) \/ RememberWrap(j) \/ RememberDek(j)
                           \/ Recover(j) \/ Recovered(j) \/ DeviceUnlock(j) \/ DeviceOpened(j)
  <2>1. PICK j \in Jobs : /\ UNCHANGED left
                          /\ job[j].step \in {"credentials", "signedIn", "key", "wrap", "dek",
                                              "400", "recover", "device", "opened"}
    BY <1>4 DEF Credentials, SignedIn, Key, RememberWrap, RememberDek, Recover, Recovered, DeviceUnlock,
                DeviceOpened, At
  <2>2. left # None => SigningOut(job[j])
    BY <2>1, OnlySigningOut
  <2>3. left = None
    BY <2>1, <2>2 DEF SigningOut
  <2>4. QED
    BY <1>n, <2>1, <2>3
<1>5. CASE \E j \in Jobs : Lose(j)
  <2>1. PICK j \in Jobs : Lose(j)
    BY <1>5
  <2>2. job[j].step # "none" /\ left' = IF job[j].kind \in Signout THEN None ELSE left
    BY <2>1 DEF Lose
  <2>3. left # None => job[j].kind \in Signout
    BY <2>2, OnlySigningOut DEF SigningOut
  <2>4. QED
    BY <1>n, <2>2, <2>3
<1>6. CASE \/ \E j \in Jobs : Serve(j) \/ Answered(j) \/ Refresh(j) \/ Rotate(j) \/ Rotated(j)
           \/ ForgetDevice \/ Expire \/ \E u \in Users : LockExpires(u)
  <2>1. UNCHANGED left
    BY <1>6 DEF Serve, Answered, Refresh, Rotate, Rotated, ForgetDevice, Expire, LockExpires
  <2>2. CASE left # None
    BY <1>6, <2>2, ServingLeft, AnsweredLeft, RefreshingLeft, SurroundingsLeft
  <2>3. QED
    BY <1>n, <2>1, <2>2
<1>7. QED
  BY <1>1, <1>2, <1>3, <1>4, <1>5, <1>6 DEF Next

-----------------------------------------------------------------------------
(* Nobody is asked in vain                                                 *)

(* While a call is safe, whatever is in flight is a call of one tab, the   *)
(* device has the key, and the cookie works, or the refresh of the tab has *)
(* the one that does.                                                      *)
CallSteps == {"sent", "ok", "401", "refresh", "waitRefresh", "rotated",
              "400", "recover", "waitDevice", "device", "opened"}
Recovering == {"400", "recover", "waitDevice", "device", "opened"}
Calm == \E j \in Jobs : job[j].safe # "no"

CallOK(r) ==
    /\ r.kind = "call" /\ r.step \in CallSteps
    /\ r.token \in Token /\ r.token.user = user /\ (r.token.fresh => token.fresh)
    /\ r.step = "sent" /\ r.tried # {} => r.token.fresh
    /\ r.step = "401" => r.tried = {}
    /\ r.step \in {"refresh", "waitRefresh", "rotated"} => "device" \notin r.tried
    /\ r.step \in Recovering => token.fresh
    /\ r.step = "recover" => r.key = wrap
    /\ r.step = "device" => r.who = user /\ r.token.fresh

FitStill ==
    /\ token \in Token /\ token.user = user /\ user \notin Admins /\ forgets = 0
    /\ dek # None /\ dek.wrap = wrap /\ dek.user = user

CookieStill ==
    /\ \A i, j \in Jobs :
          job[i].step \in {"refresh", "rotated"} /\ job[j].step \in {"refresh", "rotated"} => i = j
    /\ (\A i \in Jobs : job[i].step # "rotated") => cookie \in good /\ owner[cookie] = user
    /\ \A i \in Jobs : job[i].step = "refresh" => job[i].cookie = cookie
    /\ \A i \in Jobs : job[i].step = "rotated" => job[i].cookie \in good /\ owner[job[i].cookie] = user

(* Alone, the unlock that the device brought is not outdated by another.   *)
AloneOK(j) ==
    job[j].safe = "alone" =>
        /\ \A i \in Jobs : Busy(i) => i = j
        /\ job[j].step = "opened" \/ (job[j].step = "sent" /\ "device" \in job[j].tried) =>
              job[j].unlock = Live(user) /\ opened[user] # None
        /\ job[j].step = "400" => "device" \notin job[j].tried

CalmInv ==
    /\ \A j \in Jobs : job[j].safe # "no" => Busy(j)
    /\ Calm => /\ FitStill /\ CookieStill
               /\ \A i \in Jobs : Busy(i) => CallOK(job[i])
               /\ \A i, j \in Jobs : Busy(i) /\ Busy(j) => job[i].tab = job[j].tab
               /\ \A i \in Jobs : AloneOK(i)

Asked == asked' \subseteq asked \cup {<<400, "shared">>}

LEMMA NoneSafe ==
    ASSUME \A i \in Jobs : job'[i].safe = "no"
    PROVE  CalmInv'
BY DEF CalmInv, Calm

LEMMA UnsafeSafe ==
    ASSUME NEW jobs \in [Jobs -> Request]
    PROVE  \A i \in Jobs : Unsafe(jobs)[i].safe = "no"
BY DEF Unsafe, Request

(* What a request that may be safe begins with.                            *)
Begun(j, t, k, r, s) ==
    /\ job'[j] = [r EXCEPT !.kind = k, !.tab = t, !.safe = s]
    /\ s # "no" => Fit
    /\ s = "alone" => \A i \in Jobs : ~Busy(i)

LEMMA StartSafe ==
    ASSUME JobsOK, NEW j \in Jobs, NEW t \in Tabs, NEW k, NEW r \in Request, Start(j, t, k, r)
    PROVE  \/ \A i \in Jobs : job'[i].safe = "no"
           \/ /\ k = "call" /\ ~Busy(j) /\ \A i \in Jobs : Busy(i) => job[i].safe # "no" /\ job[i].tab = t
              /\ \A i \in Jobs : i # j =>
                    job'[i] = IF Busy(i) THEN [job[i] EXCEPT !.safe = "shared"] ELSE job[i]
              /\ \E s \in {"no", "alone", "shared"} : Begun(j, t, k, r, s)
<1> DEFINE others == {i \in Jobs : Busy(i)}
           calm == k = "call" /\ \A i \in others : job[i].safe # "no" /\ job[i].tab = t
           beside == [i \in Jobs |-> IF i \in others THEN [job[i] EXCEPT !.safe = "shared"] ELSE job[i]]
           s == IF ~(calm /\ Fit) THEN "no" ELSE IF others = {} THEN "alone" ELSE "shared"
           q == [r EXCEPT !.kind = k, !.tab = t, !.safe = s]
<1>1. job' = [IF calm THEN beside ELSE Unsafe(job) EXCEPT ![j] = q] /\ ~Busy(j)
  BY DEF Start
<1>2. CASE ~calm
  <2>1. q.safe = "no"
    BY <1>2 DEF Request
  <2> HIDE DEF q, calm
  <2>2. Unsafe(job) \in [Jobs -> Request] /\ \A i \in Jobs : Unsafe(job)[i].safe = "no"
    BY UnsafeType, UnsafeSafe DEF JobsOK
  <2>3. \A i \in Jobs : job'[i] = IF i = j THEN q ELSE Unsafe(job)[i]
    BY <1>1, <1>2, <2>2
  <2>4. QED
    BY <2>1, <2>2, <2>3
<1>3. CASE calm
  <2>1. s \in {"no", "alone", "shared"} /\ (s # "no" => Fit) /\ (s = "alone" => others = {})
    OBVIOUS
  <2> HIDE DEF s
  <2>2. job'[j] = q /\ \A i \in Jobs : i # j =>
            job'[i] = IF Busy(i) THEN [job[i] EXCEPT !.safe = "shared"] ELSE job[i]
    <3>1. job' = [beside EXCEPT ![j] = q]
      BY <1>1, <1>3
    <3> HIDE DEF q
    <3>2. QED
      BY <3>1
  <2>3. Begun(j, t, k, r, s)
    BY <2>1, <2>2 DEF Begun
  <2>4. QED
    BY <1>1, <1>3, <2>1, <2>2, <2>3
<1>4. QED
  BY <1>2, <1>3

(* A call begins.                                                          *)
LEMMA CallCalm ==
    ASSUME TypeOK, CalmInv, NEW j \in Jobs, NEW t \in Tabs, Call(j, t)
    PROVE  CalmInv'
<1> DEFINE r == Sent(Idle, token, unlock, cookie)
<1>t. StorageOK /\ JarOK /\ JobsOK
  BY DEF TypeOK
<1>c. /\ token \in Token /\ token \in Token \cup {None} /\ unlock \in Session \cup {None}
      /\ cookie \in 0..MaxCookies /\ UNCHANGED <<storage, device, jar, opened>>
  BY <1>t DEF Call, StorageOK, JarOK
<1>1. r \in Request /\ r.step = "sent" /\ r.token = token /\ r.tried = {} /\ Start(j, t, "call", r)
  BY <1>c, IdleType, SentType DEF Call
<1> HIDE DEF r
<1>2. CASE \A i \in Jobs : job'[i].safe = "no"
  BY <1>2, NoneSafe
<1>3. CASE ~\A i \in Jobs : job'[i].safe = "no"
  <2>0. /\ ~Busy(j) /\ \A i \in Jobs : Busy(i) => job[i].safe # "no" /\ job[i].tab = t
        /\ \A i \in Jobs : i # j =>
              job'[i] = IF Busy(i) THEN [job[i] EXCEPT !.safe = "shared"] ELSE job[i]
        /\ \E s \in {"no", "alone", "shared"} : Begun(j, t, "call", r, s)
    BY <1>t, <1>1, <1>3, StartSafe
  <2>1. /\ ~Busy(j) /\ \A i \in Jobs : Busy(i) => job[i].safe # "no" /\ job[i].tab = t
        /\ \A i \in Jobs : i # j =>
              job'[i] = IF Busy(i) THEN [job[i] EXCEPT !.safe = "shared"] ELSE job[i]
    BY <2>0
  <2>2. PICK s \in {"no", "alone", "shared"} : Begun(j, t, "call", r, s)
    BY <2>0
  <2> USE DEF Begun
  <2>3. /\ job'[j].kind = "call" /\ job'[j].tab = t /\ job'[j].safe = s /\ job'[j].step = "sent"
        /\ job'[j].token = token /\ job'[j].tried = {}
    BY <1>1, <2>2 DEF Request
  <2>4. \A i \in Jobs : ~Busy(i) => job[i].safe = "no" /\ job[i].step = "none"
    BY <1>t DEF CalmInv, JobsOK, RequestOK, Busy
  <2>5. \A i \in Jobs : i # j =>
            /\ job'[i].kind = job[i].kind /\ job'[i].tab = job[i].tab /\ job'[i].step = job[i].step
            /\ job'[i].token = job[i].token /\ job'[i].tried = job[i].tried /\ job'[i].key = job[i].key
            /\ job'[i].who = job[i].who /\ job'[i].cookie = job[i].cookie
            /\ job'[i].safe = IF Busy(i) THEN "shared" ELSE "no"
    <3> SUFFICES ASSUME NEW i \in Jobs, i # j
                 PROVE  /\ job'[i].kind = job[i].kind /\ job'[i].tab = job[i].tab /\ job'[i].step = job[i].step
                        /\ job'[i].token = job[i].token /\ job'[i].tried = job[i].tried
                        /\ job'[i].key = job[i].key /\ job'[i].who = job[i].who
                        /\ job'[i].cookie = job[i].cookie
                        /\ job'[i].safe = IF Busy(i) THEN "shared" ELSE "no"
      OBVIOUS
    <3>1. job[i] \in Request
      BY <1>t DEF JobsOK
    <3>2. CASE Busy(i)
      <4>1. job'[i] = [job[i] EXCEPT !.safe = "shared"]
        BY <2>1, <3>2
      <4>2. QED
        BY <3>1, <3>2, <4>1 DEF Request
    <3>3. CASE ~Busy(i)
      BY <2>1, <2>4, <3>3
    <3>4. QED
      BY <3>2, <3>3
  <2>6. FitStill /\ CookieStill /\ \A i \in Jobs : Busy(i) => CallOK(job[i])
    <3>1. CASE \A i \in Jobs : ~Busy(i)
      <4>1. s # "no"
        BY <1>3, <2>3, <2>5, <3>1
      <4>2. Fit
        BY <2>2, <4>1
      <4>3. FitStill
        BY <1>c, <4>2 DEF Fit, FitStill
      <4>4. CookieStill
        BY <2>4, <3>1, <4>2 DEF Fit, CookieStill
      <4>5. QED
        BY <3>1, <4>3, <4>4
    <3>2. CASE \E i \in Jobs : Busy(i)
      BY <2>1, <3>2 DEF CalmInv, Calm
    <3>3. QED
      BY <3>1, <3>2
  <2>7. FitStill'
    BY <1>c, <2>6 DEF FitStill, storage, device
  <2>8. CookieStill'
    <3>1. \A i \in Jobs : /\ job'[i].step \in {"refresh", "rotated"} =>
                                 i # j /\ job'[i].step = job[i].step /\ job'[i].cookie = job[i].cookie
                          /\ job[i].step = "rotated" => job'[i].step = "rotated"
      BY <2>1, <2>3, <2>4, <2>5
    <3>2. QED
      BY <1>c, <2>6, <3>1 DEF CookieStill, jar, storage
  <2>9. \A i \in Jobs : Busy(i)' => CallOK(job[i])'
    <3>1. CallOK(job[j])'
      BY <1>c, <2>3, <2>6 DEF CallOK, FitStill, CallSteps, Recovering, storage
    <3>2. ASSUME NEW i \in Jobs, i # j, Busy(i)' PROVE CallOK(job[i])'
      <4>1. CallOK(job[i])
        BY <2>5, <2>6, <3>2 DEF Busy
      <4>2. QED
        BY <1>c, <2>5, <3>2, <4>1 DEF CallOK, storage, device
    <3>3. QED
      BY <3>1, <3>2
  <2>10. \A i, k \in Jobs : Busy(i)' /\ Busy(k)' => job'[i].tab = job'[k].tab
    BY <2>1, <2>3, <2>5 DEF Busy
  <2>11. \A i \in Jobs : AloneOK(i)'
    <3>1. \A i \in Jobs : i # j => job'[i].safe # "alone"
      BY <2>5
    <3>2. AloneOK(j)'
      BY <2>2, <2>3, <2>5 DEF AloneOK, Busy
    <3>3. QED
      BY <3>1, <3>2 DEF AloneOK
  <2>12. \A i \in Jobs : job'[i].safe # "no" => Busy(i)'
    BY <2>3, <2>5 DEF Busy
  <2>13. QED
    BY <2>7, <2>8, <2>9, <2>10, <2>11, <2>12 DEF CalmInv
<1>4. QED
  BY <1>2, <1>3

(* One call goes on, or ends, and nothing else is written.                 *)
LEMMA CallGoesOn ==
    ASSUME CalmInv, Calm, NEW j \in Jobs, Busy(j), \A i \in Jobs : i # j => job'[i] = job[i],
           UNCHANGED <<storage, device, opened>>,
           \/ job'[j] = Idle
           \/ /\ CallOK(job'[j]) /\ job'[j].tab = job[j].tab /\ job'[j].safe = job[j].safe
              /\ job'[j].step = "400" => "device" \notin job'[j].tried \/ job'[j].safe # "alone"
              /\ job'[j].step # "opened" /\ (job'[j].step = "sent" => "device" \notin job'[j].tried),
           CookieStill'
    PROVE  CalmInv'
<1>1. CASE job'[j] = Idle
  <2>1. \A i \in Jobs : Busy(i)' => i # j /\ Busy(i)
    BY <1>1, IdleType DEF Busy
  <2>2. job'[j].safe = "no"
    BY <1>1 DEF Idle
  <2>3. QED
    BY <2>1, <2>2 DEF CalmInv, FitStill, AloneOK, CallOK, Busy, storage, device
<1>2. CASE CallOK(job'[j]) /\ job'[j] # Idle
  <2>1. \A i \in Jobs : (Busy(i)' <=> Busy(i)) /\ job'[i].tab = job[i].tab /\ job'[i].safe = job[i].safe
    BY <1>2 DEF CallOK, Busy
  <2>2. \A i \in Jobs : AloneOK(i)'
    <3>1. ASSUME NEW i \in Jobs, i # j, job'[i].safe = "alone" PROVE FALSE
      BY <2>1, <3>1 DEF CalmInv, AloneOK
    <3>2. AloneOK(j)'
      BY <1>2, <2>1 DEF CalmInv, AloneOK
    <3>3. QED
      BY <3>1, <3>2 DEF AloneOK
  <2>3. \A i \in Jobs : Busy(i)' => CallOK(job[i])'
    <3>1. CallOK(job[j])'
      BY <1>2 DEF CallOK, storage, device
    <3>2. ASSUME NEW i \in Jobs, i # j, Busy(i)' PROVE CallOK(job[i])'
      BY <2>1, <3>2 DEF CalmInv, CallOK, storage, device
    <3>3. QED
      BY <3>1, <3>2
  <2>4. FitStill'
    BY DEF CalmInv, FitStill, storage, device
  <2>5. QED
    BY <2>1, <2>2, <2>3, <2>4 DEF CalmInv
<1>3. QED
  BY <1>1, <1>2

(* What does not refresh leaves the cookies.                               *)
LEMMA CookieSame ==
    ASSUME CookieStill, UNCHANGED <<jar, user>>,
           \A i \in Jobs : job'[i].step \in {"refresh", "rotated"} \/ job[i].step \in {"refresh", "rotated"} =>
               job'[i].step = job[i].step /\ job'[i].cookie = job[i].cookie
    PROVE  CookieStill'
BY DEF CookieStill, jar

LEMMA InFlight ==
    ASSUME TypeOK, CalmInv, Calm, NEW j \in Jobs, job[j].step # "none"
    PROVE  /\ Busy(j) /\ CallOK(job[j]) /\ job[j] \in Request /\ job \in [Jobs -> Request]
           /\ FitStill /\ CookieStill /\ AloneOK(j)
           /\ \A i \in Jobs : job[i].step # "none" => job[i].tab = job[j].tab
<1>1. \A i \in Jobs : job[i].step # "none" => Busy(i)
  BY DEF TypeOK, JobsOK, RequestOK, Busy
<1>2. QED
  BY <1>1 DEF CalmInv, TypeOK, JobsOK

LEMMA ServingCalm ==
    ASSUME TypeOK, CalmInv, Calm, NEW j \in Jobs, Serve(j) \/ Answered(j)
    PROVE  CalmInv'
<1> DEFINE r == job[j]
<1>1. r.step \in {"sent", "ok"}
  BY DEF Serve, Answered, At
<1>2. /\ Busy(j) /\ CallOK(r) /\ r \in Request /\ job \in [Jobs -> Request]
      /\ FitStill /\ CookieStill /\ AloneOK(j)
  BY <1>1, InFlight
<1>3. r.kind = "call" /\ r.kind \notin Signout
  BY <1>2 DEF CallOK, Signout
<1>4. ASSUME UNCHANGED <<storage, device, jar, opened>>, job'[j].step \notin {"refresh", "rotated"},
             \A i \in Jobs : i # j => job'[i] = job[i]
      PROVE  CookieStill'
  BY <1>1, <1>2, <1>4, CookieSame DEF storage
<1>5. CASE Serve(j)
  <2>1. PICK s \in {"401", "400", "ok"} :
            /\ job' = [job EXCEPT ![j].step = s]
            /\ (s = "401" <=> Refused(r)) /\ (s = "400" => Locked(r))
            /\ UNCHANGED <<storage, device, jar, opened>>
    <3>1. CASE Refused(r)
      BY <1>5, <3>1 DEF Serve, Go, storage
    <3>2. CASE ~Refused(r) /\ Locked(r)
      BY <1>5, <3>2 DEF Serve, Go, storage
    <3>3. CASE ~Refused(r) /\ ~Locked(r)
      BY <1>3, <1>5, <3>3 DEF Serve, storage, jar
    <3>4. QED
      BY <3>1, <3>2, <3>3
  <2> DEFINE q == [r EXCEPT !.step = s]
  <2>2. /\ q.step = s /\ q.kind = r.kind /\ q.token = r.token /\ q.tried = r.tried /\ q.tab = r.tab
        /\ q.safe = r.safe
    BY <1>2 DEF Request
  <2>3. job'[j] = q /\ \A i \in Jobs : i # j => job'[i] = job[i]
    BY <1>2, <2>1
  <2> HIDE DEF q
  <2>4. r.step = "sent"
    BY <1>5 DEF Serve, At
  <2>5. (s = "401" => q.tried = {}) /\ (s = "400" => token.fresh)
    <3>1. CASE s = "401"
      BY <1>2, <2>1, <2>2, <2>4, <3>1, NoneApart DEF CallOK, Refused
    <3>2. CASE s = "400"
      BY <1>2, <2>1, <3>2 DEF CallOK, Refused
    <3>3. QED
      BY <3>1, <3>2
  <2>6. CallOK(q)
    BY <1>2, <2>2, <2>5 DEF CallOK, CallSteps, Recovering
  <2>7. s = "400" /\ r.safe = "alone" => "device" \notin r.tried
    BY <1>2, <2>1, <2>4 DEF AloneOK, CallOK, Locked
  <2>8. CookieStill'
    BY <1>4, <2>1, <2>2, <2>3
  <2>9. QED
    BY <1>2, <2>1, <2>2, <2>3, <2>6, <2>7, <2>8, CallGoesOn
<1>6. CASE Answered(j)
  <2>1. job' = [job EXCEPT ![j] = Idle] /\ UNCHANGED <<storage, device, jar, opened>>
    BY <1>3, <1>6 DEF Answered, storage, jar
  <2>2. job'[j] = Idle /\ \A i \in Jobs : i # j => job'[i] = job[i]
    BY <1>2, <2>1
  <2>3. CookieStill'
    BY <1>4, <2>1, <2>2, IdleType
  <2>4. QED
    BY <1>2, <2>1, <2>2, <2>3, CallGoesOn
<1>7. QED
  BY <1>5, <1>6

LEMMA RefreshingCalm ==
    ASSUME TypeOK, CalmInv, Calm, NEW j \in Jobs, Refresh(j) \/ Rotate(j)
    PROVE  CalmInv' /\ UNCHANGED asked
<1> DEFINE r == job[j]
<1>1. r.step \in {"401", "refresh"}
  BY DEF Refresh, Rotate, At
<1>2. /\ Busy(j) /\ CallOK(r) /\ r \in Request /\ job \in [Jobs -> Request] /\ FitStill /\ CookieStill
      /\ \A i \in Jobs : job[i].step # "none" => job[i].tab = r.tab
  BY <1>1, InFlight
<1>3. CASE Refresh(j)
  <2> DEFINE s == IF Mates(j, {"refresh", "rotated"}) # {} THEN "waitRefresh" ELSE "refresh"
             q == [r EXCEPT !.tried = {"refresh"}, !.cookie = cookie, !.step = s]
  <2>1. r.step = "401" /\ r.tried = {}
    BY <1>2, <1>3 DEF Refresh, At, CallOK
  <2>2. /\ job' = [job EXCEPT ![j].tried = {"refresh"}, ![j].cookie = cookie, ![j].step = s]
        /\ UNCHANGED <<storage, asked, device, jar, opened>>
    BY <1>3, <2>1 DEF Refresh
  <2>3. s \in {"waitRefresh", "refresh"}
        /\ (s = "refresh" => \A i \in Jobs : job[i].step \notin {"refresh", "rotated"})
    BY <1>2, <2>1 DEF Mates
  <2> HIDE DEF s
  <2>4. /\ q.step = s /\ q.kind = r.kind /\ q.token = r.token /\ q.tried = {"refresh"} /\ q.tab = r.tab
        /\ q.safe = r.safe /\ q.cookie = cookie
    BY <1>2 DEF Request
  <2>5. job'[j] = q /\ \A i \in Jobs : i # j => job'[i] = job[i]
    BY <1>2, <2>2
  <2> HIDE DEF q
  <2>6. CallOK(q)
    BY <1>2, <2>3, <2>4 DEF CallOK, CallSteps, Recovering
  <2>7. CookieStill'
    BY <1>2, <2>1, <2>2, <2>3, <2>4, <2>5 DEF CookieStill, jar, storage
  <2>8. QED
    BY <1>2, <2>2, <2>3, <2>4, <2>5, <2>6, <2>7, CallGoesOn
<1>4. CASE Rotate(j)
  <2> DEFINE c == r.cookie
             d == NewCookie
             q == [r EXCEPT !.step = "rotated", !.cookie = d]
  <2>1. r.step = "refresh" /\ c = cookie /\ \A i \in Jobs : job[i].step \in {"refresh", "rotated"} => i = j
    BY <1>2, <1>4 DEF Rotate, At, CookieStill
  <2>2. c \in good /\ owner[c] = user
    BY <1>2, <2>1 DEF CookieStill
  <2>3. d \in 1..MaxCookies
    BY <1>4, CookieType, BoundsAssumption DEF Rotate
  <2>4. /\ good' = (good \ {c}) \cup {d} /\ owner' = [owner EXCEPT ![d] = owner[c]]
        /\ job' = [job EXCEPT ![j].step = "rotated", ![j].cookie = d]
        /\ UNCHANGED <<storage, device, cookie, opened, asked>>
    BY <1>4, <2>2 DEF Rotate
  <2> HIDE DEF d
  <2>5. d \in good' /\ owner'[d] = user
    BY <2>2, <2>3, <2>4 DEF TypeOK, JarOK
  <2>6. /\ q.step = "rotated" /\ q.kind = r.kind /\ q.token = r.token /\ q.tried = r.tried /\ q.tab = r.tab
        /\ q.safe = r.safe /\ q.cookie = d
    BY <1>2, <2>3, BoundsAssumption DEF Request
  <2>7. job'[j] = q /\ \A i \in Jobs : i # j => job'[i] = job[i]
    BY <1>2, <2>4
  <2> HIDE DEF q
  <2>8. CallOK(q)
    BY <1>2, <2>1, <2>6 DEF CallOK, CallSteps, Recovering
  <2>9. CookieStill'
    BY <2>1, <2>4, <2>5, <2>6, <2>7 DEF CookieStill, storage
  <2>10. QED
    BY <1>2, <2>4, <2>6, <2>7, <2>8, <2>9, CallGoesOn
<1>5. QED
  BY <1>3, <1>4

(* The refresh of the tab comes back with a cookie that works.             *)
LEMMA RotatedCalm ==
    ASSUME TypeOK, CalmInv, Calm, NEW j \in Jobs, Rotated(j)
    PROVE  CalmInv' /\ UNCHANGED asked
<1> DEFINE r == job[j]
           c == r.cookie
           all == {j} \cup Mates(j, {"waitRefresh"})
           t == [user |-> owner[c], fresh |-> TRUE]
<1>1. r.step = "rotated" /\ cookie' = c /\ UNCHANGED <<device, owner, good, opened>>
  BY DEF Rotated, At
<1>2. /\ Busy(j) /\ job \in [Jobs -> Request] /\ FitStill /\ CookieStill
      /\ \A i \in Jobs : Busy(i) => CallOK(job[i])
  BY <1>1, InFlight DEF CalmInv
<1>3. c \in good /\ owner[c] = user /\ c # 0 /\ c \in 0..MaxCookies /\ user \in Users
  <2>1. c \in good /\ owner[c] = user
    BY <1>1, <1>2 DEF CookieStill
  <2>2. c \in 1..MaxCookies
    BY <2>1 DEF TypeOK, JarOK
  <2>3. user \in Users
    BY <1>2 DEF FitStill, Token
  <2>4. QED
    BY <2>1, <2>2, <2>3, BoundsAssumption
<1>4. /\ token' = t /\ UNCHANGED <<user, unlock, asked>>
      /\ job' = [i \in Jobs |-> IF i \in all THEN Sent(job[i], t, unlock, c) ELSE job[i]]
  BY <1>3 DEF Rotated
<1>5. t \in Token /\ t.user = user /\ t.fresh /\ t \in Token \cup {None} /\ unlock \in Session \cup {None}
  BY <1>3 DEF Token, TypeOK, StorageOK
<1>6. all \subseteq Jobs /\ \A i \in all : job[i].step \in {"rotated", "waitRefresh"} /\ Busy(i)
  BY <1>1, <1>2 DEF Mates, Busy, TypeOK, JobsOK, RequestOK
<1>7. \A i \in Jobs \ all : job'[i] = job[i]
  BY <1>4
<1>u. \A i \in all : job'[i] = Sent(job[i], t, unlock, c)
  BY <1>4, <1>6
<1> HIDE DEF t, c, all
<1>8. ASSUME NEW i \in all
      PROVE  /\ job'[i].step = "sent" /\ job'[i].kind = "call" /\ job'[i].token = t
             /\ job'[i].tab = job[i].tab /\ job'[i].safe = job[i].safe /\ job'[i].tried = job[i].tried
  <2>1. job[i] \in Request /\ job[i].kind = "call"
    BY <1>2, <1>6 DEF CallOK
  <2>2. job'[i] = Sent(job[i], t, unlock, c)
    BY <1>u
  <2>3. job'[i].step = "sent" /\ job'[i].kind = "call" /\ job'[i].token = t
        /\ job'[i].tab = job[i].tab /\ job'[i].tried = job[i].tried
    BY <1>3, <1>5, <2>1, <2>2, SentType
  <2>4. Sent(job[i], t, unlock, c).safe = job[i].safe
    BY <2>1 DEF Sent, Request
  <2>5. QED
    BY <2>2, <2>3, <2>4
<1>9. \A i \in Jobs : (Busy(i)' <=> Busy(i)) /\ job'[i].tab = job[i].tab /\ job'[i].safe = job[i].safe
  BY <1>6, <1>7, <1>8 DEF Busy
<1>10. FitStill'
  BY <1>1, <1>2, <1>4, <1>5 DEF FitStill, device
<1>11. CookieStill'
  <2>1. \A i \in Jobs : job'[i].step \notin {"refresh", "rotated"}
    <3>1. \A i \in Jobs : job[i].step \in {"refresh", "rotated"} => i \in all
      BY <1>1, <1>2 DEF CookieStill, all
    <3>2. QED
      BY <1>7, <1>8, <3>1
  <2>2. QED
    BY <1>1, <1>3, <1>4, <2>1 DEF CookieStill
<1>12. ASSUME NEW i \in Jobs, Busy(i)' PROVE CallOK(job[i])'
  <2>1. CASE i \in all
    BY <1>4, <1>5, <1>8, <2>1 DEF CallOK, CallSteps, Recovering
  <2>2. CASE i \notin all
    <3>1. CallOK(job[i]) /\ job'[i] = job[i]
      BY <1>2, <1>7, <1>9, <1>12, <2>2
    <3>2. QED
      BY <1>1, <1>4, <1>5, <3>1 DEF CallOK, device
  <2>3. QED
    BY <2>1, <2>2
<1>13. ASSUME NEW i \in Jobs, job'[i].safe = "alone" PROVE AloneOK(i)'
  <2>1. AloneOK(i) /\ \A k \in Jobs : Busy(k) => k = i
    BY <1>9, <1>13 DEF CalmInv, AloneOK
  <2>2. i = j /\ i \in all
    BY <1>2, <2>1 DEF all
  <2>3. job'[i].step = "sent" /\ "device" \notin job'[i].tried
    BY <1>1, <1>2, <1>8, <2>2 DEF CallOK
  <2>4. \A k \in Jobs : Busy(k)' => k = i
    BY <1>9, <2>1
  <2>5. QED
    BY <2>3, <2>4 DEF AloneOK
<1>14. QED
  BY <1>4, <1>9, <1>10, <1>11, <1>12, <1>13 DEF CalmInv, AloneOK

LEMMA RecoverCalm ==
    ASSUME TypeOK, CalmInv, Calm, NEW j \in Jobs, Recover(j) \/ Recovered(j)
    PROVE  CalmInv' /\ Asked
<1> DEFINE r == job[j]
<1>1. r.step \in {"400", "recover"}
  BY DEF Recover, Recovered, At
<1>2. /\ Busy(j) /\ CallOK(r) /\ r \in Request /\ job \in [Jobs -> Request]
      /\ FitStill /\ CookieStill /\ AloneOK(j) /\ UNCHANGED <<device, jar, opened>>
  BY <1>1, InFlight DEF Recover, Recovered
<1>3. ASSUME UNCHANGED storage, job'[j].step \notin {"refresh", "rotated"},
             \A i \in Jobs : i # j => job'[i] = job[i]
      PROVE  CookieStill'
  BY <1>1, <1>2, <1>3, CookieSame DEF storage
<1>4. CASE Recover(j)
  <2>1. r.step = "400" /\ user # None /\ user \notin Admins
    BY <1>2, <1>4, NoneApart DEF Recover, At, FitStill, Token
  <2>2. CASE "device" \in r.tried
    <3>1. Fail({j}, 400) /\ r.safe # "alone"
      BY <1>2, <1>4, <2>1, <2>2 DEF Recover, AloneOK
    <3>2. UNCHANGED storage /\ job' = [i \in Jobs |-> IF i \in {j} THEN Idle ELSE job[i]]
          /\ asked' = asked \cup {<<400, job[i].safe>> : i \in {i \in {j} : job[i].safe # "no"}}
      BY <3>1 DEF Fail
    <3>3. job'[j] = Idle /\ \A i \in Jobs : i # j => job'[i] = job[i]
      BY <3>2
    <3>4. r.safe \in {"no", "shared"}
      BY <1>2, <3>1 DEF Request
    <3>5. Asked
      BY <3>2, <3>4 DEF Asked
    <3>6. CookieStill'
      BY <1>3, <3>2, <3>3, IdleType
    <3>7. QED
      BY <1>2, <3>2, <3>3, <3>5, <3>6, CallGoesOn
  <2>3. CASE "device" \notin r.tried
    <3>1. PICK s \in {"waitDevice", "recover"} :
              job' = [job EXCEPT ![j].tried = @ \cup {"device"}, ![j].step = s, ![j].key = wrap]
      BY <1>4, <2>1, <2>3 DEF Recover
    <3>2. UNCHANGED <<storage, asked>>
      BY <1>4, <2>1, <2>3 DEF Recover
    <3> DEFINE q == [r EXCEPT !.tried = @ \cup {"device"}, !.step = s, !.key = wrap]
    <3>3. q.step = s /\ q.kind = r.kind /\ q.token = r.token /\ q.tab = r.tab /\ q.safe = r.safe /\ q.key = wrap
      BY <1>2 DEF Request
    <3>4. job'[j] = q /\ \A i \in Jobs : i # j => job'[i] = job[i]
      BY <1>2, <3>1
    <3> HIDE DEF q
    <3>5. CallOK(q)
      BY <1>2, <2>1, <3>3 DEF CallOK, CallSteps, Recovering
    <3>6. CookieStill'
      BY <1>3, <3>2, <3>3, <3>4
    <3>7. Asked
      BY <3>2 DEF Asked
    <3>8. QED
      BY <1>2, <3>2, <3>3, <3>4, <3>5, <3>6, <3>7, CallGoesOn
  <2>4. QED
    BY <2>2, <2>3
<1>5. CASE Recovered(j)
  <2>1. r.step = "recover" /\ r.key = wrap /\ dek # None /\ dek.wrap = r.key /\ dek.user = user
    BY <1>2, <1>5 DEF Recovered, At, CallOK, FitStill
  <2>2. job' = [job EXCEPT ![j].step = "device", ![j].who = user, ![j].token = token]
        /\ UNCHANGED <<storage, asked>>
    BY <1>5, <2>1 DEF Recovered
  <2> DEFINE q == [r EXCEPT !.step = "device", !.who = user, !.token = token]
  <2>3. q.step = "device" /\ q.kind = r.kind /\ q.token = token /\ q.tab = r.tab /\ q.safe = r.safe /\ q.who = user
    BY <1>2 DEF Request
  <2>4. job'[j] = q /\ \A i \in Jobs : i # j => job'[i] = job[i]
    BY <1>2, <2>2
  <2> HIDE DEF q
  <2>5. CallOK(q)
    BY <1>2, <2>1, <2>3 DEF CallOK, CallSteps, Recovering, FitStill
  <2>6. CookieStill'
    BY <1>3, <2>2, <2>3, <2>4
  <2>7. Asked
    BY <2>2 DEF Asked
  <2>8. QED
    BY <1>2, <2>2, <2>3, <2>4, <2>5, <2>6, <2>7, CallGoesOn
<1>6. QED
  BY <1>4, <1>5

LEMMA OutdatedSame ==
    ASSUME JobsOK, NEW u
    PROVE  \A i \in Jobs : /\ Outdated(u)[i].tab = job[i].tab /\ Outdated(u)[i].key = job[i].key
                           /\ Outdated(u)[i].safe = job[i].safe
BY DEF Outdated, JobsOK, Request

LEMMA DeviceUnlockCalm ==
    ASSUME TypeOK, CalmInv, Calm, NEW j \in Jobs, DeviceUnlock(j)
    PROVE  CalmInv' /\ UNCHANGED asked
<1> DEFINE r == job[j]
           q == [Outdated(user)[j] EXCEPT !.step = "opened", !.unlock = Live(user)]
<1>1. r.step = "device"
  BY DEF DeviceUnlock, At
<1>2. /\ Busy(j) /\ CallOK(r) /\ FitStill /\ CookieStill /\ JobsOK
      /\ \A i \in Jobs : Busy(i) => CallOK(job[i])
  BY <1>1, InFlight DEF CalmInv, TypeOK
<1>3. r.token \in Token /\ r.token.user = user /\ r.token.fresh /\ r.who = user /\ user \in Users
  BY <1>1, <1>2 DEF CallOK, Token
<1>4. ~Refused(r) /\ OpensAccount(r.token.user, r.who)
  BY <1>2, <1>3, NoneApart DEF FitStill, Refused, OpensAccount
<1>5. /\ opened' = [opened EXCEPT ![user] = user]
      /\ job' = [Outdated(user) EXCEPT ![j].step = "opened", ![j].unlock = Live(user)]
      /\ UNCHANGED <<token, user, asked, device, jar>>
  BY <1>3, <1>4 DEF DeviceUnlock, device
<1>6. /\ Outdated(user) \in [Jobs -> Request]
      /\ \A i \in Jobs : LET o == Outdated(user)[i]
                         IN /\ o.kind = job[i].kind /\ o.step = job[i].step /\ o.who = job[i].who
                            /\ o.cookie = job[i].cookie /\ o.tried = job[i].tried /\ o.token = job[i].token
  BY <1>2, <1>3, OutdatedType
<1>7. \A i \in Jobs : /\ Outdated(user)[i].tab = job[i].tab /\ Outdated(user)[i].key = job[i].key
                       /\ Outdated(user)[i].safe = job[i].safe
  BY <1>2, OutdatedSame
<1>8. job'[j] = q /\ \A i \in Jobs : i # j => job'[i] = Outdated(user)[i]
  BY <1>5, <1>6
<1>9. /\ q.step = "opened" /\ q.unlock = Live(user) /\ q.kind = r.kind /\ q.token = r.token /\ q.tab = r.tab
      /\ q.safe = r.safe
  <2>1. Outdated(user)[j] \in Request /\ Outdated(user)[j].kind = r.kind /\ Outdated(user)[j].token = r.token
        /\ Outdated(user)[j].tab = r.tab /\ Outdated(user)[j].safe = r.safe
    BY <1>6, <1>7
  <2>2. QED
    BY <2>1 DEF Request
<1> HIDE DEF q
<1>10. \A i \in Jobs : (Busy(i)' <=> Busy(i)) /\ job'[i].tab = job[i].tab /\ job'[i].safe = job[i].safe
  BY <1>6, <1>7, <1>8, <1>9 DEF Busy
<1>11. FitStill'
  BY <1>2, <1>5 DEF FitStill, device
<1>12. CookieStill'
  BY <1>1, <1>2, <1>5, <1>6, <1>8, <1>9, CookieSame
<1>13. ASSUME NEW i \in Jobs, Busy(i)' PROVE CallOK(job[i])'
  <2>1. CASE i = j
    BY <1>1, <1>2, <1>5, <1>8, <1>9, <2>1 DEF CallOK, CallSteps, Recovering
  <2>2. CASE i # j
    <3>1. CallOK(job[i])
      BY <1>2, <1>10, <1>13
    <3>2. QED
      BY <1>5, <1>6, <1>7, <1>8, <2>2, <3>1 DEF CallOK, device
  <2>3. QED
    BY <2>1, <2>2
<1>14. ASSUME NEW i \in Jobs, job'[i].safe = "alone" PROVE AloneOK(i)'
  <2>1. i = j /\ \A k \in Jobs : Busy(k)' => k = i
    BY <1>2, <1>10, <1>14 DEF CalmInv, AloneOK
  <2>2. opened'[user] = user /\ user # None
    BY <1>3, <1>5, NoneApart DEF TypeOK, ServerOK
  <2>3. QED
    BY <1>5, <1>8, <1>9, <2>1, <2>2 DEF AloneOK
<1>15. \A i, k \in Jobs : Busy(i)' /\ Busy(k)' => job'[i].tab = job'[k].tab
  BY <1>10 DEF CalmInv
<1>16. \A i \in Jobs : job'[i].safe # "no" => Busy(i)'
  BY <1>10 DEF CalmInv
<1>17. \A i \in Jobs : AloneOK(i)'
  BY <1>14 DEF AloneOK
<1>18. QED
  BY <1>5, <1>11, <1>12, <1>13, <1>15, <1>16, <1>17 DEF CalmInv

LEMMA DeviceOpenedCalm ==
    ASSUME TypeOK, CalmInv, Calm, NEW j \in Jobs, DeviceOpened(j)
    PROVE  CalmInv' /\ UNCHANGED asked
<1> DEFINE r == job[j]
           all == {j} \cup Mates(j, {"waitDevice"})
<1>1. r.step = "opened"
  BY DEF DeviceOpened, At
<1>2. /\ Busy(j) /\ job \in [Jobs -> Request] /\ FitStill /\ CookieStill /\ AloneOK(j) /\ r \in Request
      /\ \A i \in Jobs : Busy(i) => CallOK(job[i])
  BY <1>1, InFlight DEF CalmInv
<1>3. /\ unlock' = r.unlock /\ UNCHANGED <<token, user, device, jar, opened, asked>>
      /\ job' = [i \in Jobs |-> IF i \in all THEN Sent(job[i], token, r.unlock, cookie) ELSE job[i]]
  BY DEF DeviceOpened
<1>4. /\ token \in Token /\ token.user = user /\ token.fresh /\ token \in Token \cup {None}
      /\ r.unlock \in Session \cup {None} /\ cookie \in 0..MaxCookies
  BY <1>1, <1>2 DEF FitStill, CallOK, Recovering, Request, TypeOK, JarOK
<1>5. all \subseteq Jobs /\ \A i \in all : job[i].step \in {"opened", "waitDevice"} /\ Busy(i)
  BY <1>1, <1>2 DEF Mates, Busy, TypeOK, JobsOK, RequestOK
<1>6. /\ \A i \in Jobs \ all : job'[i] = job[i]
      /\ \A i \in all : job'[i] = Sent(job[i], token, r.unlock, cookie)
  BY <1>3, <1>5
<1> HIDE DEF all
<1>7. ASSUME NEW i \in all
      PROVE  /\ job'[i].step = "sent" /\ job'[i].kind = "call" /\ job'[i].token = token
             /\ job'[i].tab = job[i].tab /\ job'[i].safe = job[i].safe /\ job'[i].unlock = r.unlock
  <2>1. job[i] \in Request /\ job[i].kind = "call"
    BY <1>2, <1>5 DEF CallOK
  <2>2. job'[i] = Sent(job[i], token, r.unlock, cookie)
    BY <1>6
  <2>3. job'[i].step = "sent" /\ job'[i].kind = "call" /\ job'[i].token = token /\ job'[i].tab = job[i].tab
    BY <1>4, <2>1, <2>2, SentType
  <2>4. Sent(job[i], token, r.unlock, cookie).safe = job[i].safe
        /\ Sent(job[i], token, r.unlock, cookie).unlock = r.unlock
    BY <2>1 DEF Sent, Request
  <2>5. QED
    BY <2>2, <2>3, <2>4
<1>8. \A i \in Jobs : (Busy(i)' <=> Busy(i)) /\ job'[i].tab = job[i].tab /\ job'[i].safe = job[i].safe
  BY <1>5, <1>6, <1>7 DEF Busy
<1>9. FitStill'
  BY <1>2, <1>3 DEF FitStill, device
<1>10. CookieStill'
  BY <1>2, <1>3, <1>5, <1>6, <1>7, CookieSame
<1>11. ASSUME NEW i \in Jobs, Busy(i)' PROVE CallOK(job[i])'
  <2>1. CASE i \in all
    BY <1>3, <1>4, <1>7, <2>1 DEF CallOK, CallSteps, Recovering
  <2>2. CASE i \notin all
    <3>1. CallOK(job[i]) /\ job'[i] = job[i]
      BY <1>2, <1>6, <1>8, <1>11, <2>2
    <3>2. QED
      BY <1>3, <3>1 DEF CallOK, device
  <2>3. QED
    BY <2>1, <2>2
<1>12. ASSUME NEW i \in Jobs, job'[i].safe = "alone" PROVE AloneOK(i)'
  <2>1. i = j /\ i \in all /\ \A k \in Jobs : Busy(k)' => k = i
    BY <1>2, <1>8, <1>12 DEF CalmInv, AloneOK, all
  <2>2. r.unlock = Live(user) /\ opened[user] # None
    BY <1>1, <1>2, <1>8, <1>12, <2>1 DEF AloneOK
  <2>3. QED
    BY <1>3, <1>7, <2>1, <2>2 DEF AloneOK
<1>13. QED
  BY <1>3, <1>8, <1>9, <1>10, <1>11, <1>12 DEF CalmInv, AloneOK

(* Nobody becomes safe but by beginning.                                   *)
Keeps == \A i \in Jobs : job'[i].safe \in {job[i].safe, "no"}

LEMMA FailKeeps ==
    ASSUME NEW js \in SUBSET Jobs, NEW status, Fail(js, status)
    PROVE  Keeps /\ (~Calm => asked' = asked)
<1>1. \A i \in Jobs : job'[i] = IF i \in js THEN Idle ELSE job[i]
  BY DEF Fail
<1>2. Keeps
  BY <1>1 DEF Keeps, Idle
<1>3. ~Calm => asked' = asked
  BY DEF Calm, Fail
<1>4. QED
  BY <1>2, <1>3

LEMMA ServerKeeps ==
    ASSUME TypeOK, NEW j \in Jobs, Serve(j) \/ Answered(j) \/ Credentials(j) \/ SignedIn(j) \/ Key(j)
                                   \/ RememberWrap(j) \/ RememberDek(j)
    PROVE  Keeps /\ UNCHANGED asked
<1> DEFINE r == job[j]
<1>t. JobsOK /\ job \in [Jobs -> Request] /\ \A i \in Jobs : job[i] \in Request
  BY DEF TypeOK, JobsOK
<1>a. UNCHANGED asked
  BY DEF Serve, Answered, Credentials, SignedIn, Key, RememberWrap, RememberDek
<1> SUFFICES Keeps
  BY <1>a
<1>o. ASSUME NEW u, NEW q, q.safe = r.safe, job' = [Outdated(u) EXCEPT ![j] = q] PROVE Keeps
  <2>1. \A i \in Jobs : Outdated(u)[i].safe = job[i].safe
    BY <1>t, OutdatedSame
  <2>2. \A i \in Jobs : job'[i] = IF i = j THEN q ELSE Outdated(u)[i]
    BY <1>o DEF Outdated
  <2>3. QED
    BY <1>o, <2>1, <2>2 DEF Keeps
<1>s. ASSUME NEW k, NEW u, NEW c, job' = [Outdated(u) EXCEPT ![j].step = k, ![j].cookie = c, ![j].got = Live(u)]
      PROVE  Keeps
  <2> DEFINE o == Outdated(u)[j]
             q == [o EXCEPT !.step = k, !.cookie = c, !.got = Live(u)]
  <2>1. q.safe = r.safe
    BY <1>t DEF Outdated, Request
  <2>2. job' = [Outdated(u) EXCEPT ![j] = q]
    BY <1>s
  <2> HIDE DEF q
  <2>3. QED
    BY <1>o, <2>1, <2>2
<1>1. CASE Serve(j)
  <2>1. CASE \E s : job' = [job EXCEPT ![j].step = s]
    BY <1>t, <2>1 DEF Keeps, Request
  <2>2. CASE Refused(r) \/ Locked(r)
    BY <1>1, <2>1, <2>2 DEF Serve, Go
  <2>3. CASE ~Refused(r) /\ ~Locked(r)
    <3>1. CASE r.kind = "unlock"
      <4> DEFINE u == r.token.user
                 o == Outdated(u)[j]
                 q == [o EXCEPT !.step = "ok", !.got = Live(u)]
      <4>1. job' = [Outdated(u) EXCEPT ![j] = q]
        BY <1>1, <2>3, <3>1 DEF Serve
      <4>2. q.safe = r.safe
        BY <1>t DEF Outdated, Request
      <4> HIDE DEF q, u
      <4>3. QED
        BY <1>o, <4>1, <4>2
    <3>2. CASE r.kind = "logoutAll"
      <4>1. job' = [i \in Jobs |-> [job[i] EXCEPT !.token = Stale(@, r.token.user),
                                                  !.step = IF i = j THEN "ok" ELSE @]]
        BY <1>1, <2>3, <3>2 DEF Serve
      <4>2. QED
        BY <1>t, <4>1 DEF Keeps, Request
    <3>3. CASE r.kind \notin {"unlock", "logoutAll"}
      BY <1>1, <2>1, <2>3, <3>3 DEF Serve
    <3>4. QED
      BY <3>1, <3>2, <3>3
  <2>4. QED
    BY <2>2, <2>3
<1>2. CASE Answered(j)
  <2> DEFINE e == [r EXCEPT !.kind = "me", !.tried = {}]
             q == CASE r.kind = "unlock" -> Sent(e, token, r.got, 0)
                    [] r.kind = "me" /\ token # None /\ r.token.user \notin Admins -> Enroll(r, token, r.got)
                    [] OTHER -> Idle
  <2>1. job' = [job EXCEPT ![j] = q]
    BY <1>2 DEF Answered
  <2>2. e.safe = r.safe /\ Enroll(r, token, r.got).safe = r.safe
    BY <1>t DEF Enroll, Request
  <2>3. Sent(e, token, r.got, 0).safe = r.safe
    BY <1>t DEF Sent, Request
  <2>4. q.safe \in {r.safe, "no"}
    BY <2>2, <2>3 DEF Idle
  <2> HIDE DEF q
  <2>5. QED
    BY <1>t, <2>1, <2>4 DEF Keeps
<1>3. CASE Credentials(j)
  <2>1. CASE Unlocks(j)
    <3>1. job' = [Outdated(r.who) EXCEPT ![j].step = "signedIn", ![j].cookie = NewCookie, ![j].got = Live(r.who)]
      BY <1>3, <2>1 DEF Credentials
    <3>2. QED
      BY <1>s, <3>1
  <2>2. CASE ~Unlocks(j)
    <3>1. job' = [job EXCEPT ![j].step = "signedIn", ![j].cookie = NewCookie, ![j].got = None]
      BY <1>3, <2>2 DEF Credentials
    <3>2. QED
      BY <1>t, <3>1 DEF Keeps, Request
  <2>3. QED
    BY <2>1, <2>2
<1>4. CASE SignedIn(j)
  <2> DEFINE e == Enroll(r, token', unlock')
             q == IF Unlocks(j) THEN e ELSE Idle
  <2>1. job' = [job EXCEPT ![j] = q]
    BY <1>4 DEF SignedIn
  <2>2. e.safe = r.safe
    BY <1>t DEF Enroll, Request
  <2>3. q.safe \in {r.safe, "no"}
    BY <2>2 DEF Idle
  <2> HIDE DEF q
  <2>4. QED
    BY <1>t, <2>1, <2>3 DEF Keeps
<1>5. CASE Key(j) \/ RememberDek(j)
  <2>1. CASE job' = [job EXCEPT ![j] = Idle]
    BY <1>t, <2>1 DEF Keeps, Idle
  <2>2. CASE \E w, k : job' = [job EXCEPT ![j].step = "wrap", ![j].who = w, ![j].key = k]
    BY <1>t, <2>2 DEF Keeps, Request
  <2>3. QED
    BY <1>5, <2>1, <2>2 DEF Key, RememberDek
<1>6. CASE RememberWrap(j)
  BY <1>t, <1>6 DEF RememberWrap, Go, Keeps, Request
<1>7. QED
  BY <1>1, <1>2, <1>3, <1>4, <1>5, <1>6

LEMMA WrapperKeeps ==
    ASSUME TypeOK, ~Calm, NEW j \in Jobs,
           \/ Refresh(j) \/ Rotate(j) \/ Rotated(j) \/ Recover(j) \/ Recovered(j)
           \/ DeviceUnlock(j) \/ DeviceOpened(j)
    PROVE  Keeps /\ UNCHANGED asked
<1> DEFINE r == job[j]
<1>t. JobsOK /\ job \in [Jobs -> Request] /\ \A i \in Jobs : job[i] \in Request
  BY DEF TypeOK, JobsOK
<1>m. \A S : {j} \cup Mates(j, S) \in SUBSET Jobs /\ {j} \in SUBSET Jobs
  BY DEF Mates
<1>f. ASSUME NEW js \in SUBSET Jobs, NEW status, Fail(js, status) PROVE Keeps /\ UNCHANGED asked
  BY <1>f, FailKeeps
<1>s. ASSUME NEW js \in SUBSET Jobs, NEW t, NEW k, NEW c, Resent(js, t, k, c) PROVE Keeps
  BY <1>t, <1>s DEF Resent, Keeps, Sent, Request
<1>1. CASE Refresh(j)
  <2>1. CASE Fail({j}, 401)
    BY <1>f, <1>m, <2>1
  <2>2. CASE ~Fail({j}, 401)
    <3>1. \E s : job' = [job EXCEPT ![j].tried = {"refresh"}, ![j].cookie = cookie, ![j].step = s]
      BY <1>1, <2>2 DEF Refresh
    <3>2. UNCHANGED asked
      BY <1>1, <2>2 DEF Refresh
    <3>3. QED
      BY <1>t, <3>1, <3>2 DEF Keeps, Request
  <2>3. QED
    BY <2>1, <2>2
<1>2. CASE Rotate(j)
  <2>1. (\E c : job' = [job EXCEPT ![j].step = "rotated", ![j].cookie = c]) /\ UNCHANGED asked
    BY <1>2 DEF Rotate
  <2>2. QED
    BY <1>t, <2>1 DEF Keeps, Request
<1>3. CASE Rotated(j)
  <2> DEFINE all == {j} \cup Mates(j, {"waitRefresh"})
  <2>1. all \in SUBSET Jobs
    BY <1>m
  <2>2. Fail(all, 401) \/ (Resent(all, token', unlock, r.cookie) /\ UNCHANGED asked)
    BY <1>3 DEF Rotated, Resent
  <2> HIDE DEF all
  <2>3. QED
    BY <1>f, <1>s, <2>1, <2>2
<1>4. CASE Recover(j)
  <2>1. CASE Fail({j}, 400)
    BY <1>f, <1>m, <2>1
  <2>2. CASE ~Fail({j}, 400)
    <3>1. \E s : job' = [job EXCEPT ![j].tried = @ \cup {"device"}, ![j].step = s, ![j].key = wrap]
      BY <1>4, <2>2 DEF Recover
    <3>2. UNCHANGED asked
      BY <1>4, <2>2 DEF Recover
    <3>3. QED
      BY <1>t, <3>1, <3>2 DEF Keeps, Request
  <2>3. QED
    BY <2>1, <2>2
<1>5. CASE Recovered(j) \/ DeviceUnlock(j)
  <2> DEFINE all == {j} \cup Mates(j, {"waitDevice"})
  <2>1. all \in SUBSET Jobs
    BY <1>m
  <2>2. CASE Fail(all, 400)
    BY <1>f, <2>1, <2>2
  <2>3. CASE Recovered(j) /\ ~Fail(all, 400)
    <3>1. job' = [job EXCEPT ![j].step = "device", ![j].who = dek.user, ![j].token = token] /\ UNCHANGED asked
      BY <2>3 DEF Recovered
    <3>2. QED
      BY <1>t, <3>1 DEF Keeps, Request
  <2>4. CASE DeviceUnlock(j) /\ ~Fail(all, 400)
    <3> DEFINE u == r.token.user
               o == Outdated(u)[j]
               q == [o EXCEPT !.step = "opened", !.unlock = Live(u)]
    <3>1. job' = [Outdated(u) EXCEPT ![j].step = "opened", ![j].unlock = Live(u)] /\ UNCHANGED asked
      BY <2>4 DEF DeviceUnlock
    <3>2. job' = [Outdated(u) EXCEPT ![j] = q]
      BY <3>1
    <3>3. q.safe = r.safe
      BY <1>t DEF Outdated, Request
    <3> HIDE DEF q
    <3>4. \A i \in Jobs : Outdated(u)[i].safe = job[i].safe
      BY <1>t, OutdatedSame
    <3>5. \A i \in Jobs : job'[i] = IF i = j THEN q ELSE Outdated(u)[i]
      BY <3>2 DEF Outdated
    <3>6. QED
      BY <3>1, <3>3, <3>4, <3>5 DEF Keeps
  <2>5. QED
    BY <1>5, <2>2, <2>3, <2>4
<1>6. CASE DeviceOpened(j)
  <2> DEFINE all == {j} \cup Mates(j, {"waitDevice"})
  <2>1. all \in SUBSET Jobs
    BY <1>m
  <2>2. Resent(all, token, unlock', cookie) /\ UNCHANGED asked
    BY <1>6 DEF DeviceOpened, Resent
  <2> HIDE DEF all
  <2>3. QED
    BY <1>s, <2>1, <2>2
<1>7. QED
  BY <1>1, <1>2, <1>3, <1>4, <1>5, <1>6

LEMMA NextCalm == ASSUME TypeOK, CalmInv, [Next]_vars PROVE CalmInv' /\ Asked
<1>t. JobsOK /\ job \in [Jobs -> Request]
  BY DEF TypeOK, JobsOK
<1>n. ASSUME \A i \in Jobs : job'[i].safe = "no", UNCHANGED asked PROVE CalmInv' /\ Asked
  BY <1>n, NoneSafe DEF Asked
<1>k. ASSUME ~Calm, Keeps, UNCHANGED asked PROVE CalmInv' /\ Asked
  BY <1>k, <1>n DEF Calm, Keeps
<1>1. CASE UNCHANGED vars
  BY <1>1 DEF vars, storage, device, jar, CalmInv, Calm, Busy, FitStill, CookieStill, CallOK, AloneOK, Asked
<1>2. ASSUME NEW j \in Jobs, NEW t \in Tabs, Call(j, t) PROVE CalmInv' /\ Asked
  BY <1>2, CallCalm DEF Call, Asked
<1>3. ASSUME NEW j \in Jobs, NEW t \in Tabs,
             \/ Unlock(j, t) \/ \E k \in Signout : Logout(j, t, k)
             \/ \E u \in Users, k \in {"login", "google"} : Login(j, t, u, k)
      PROVE  CalmInv' /\ Asked
  <2>1. token \in Token \cup {None} /\ unlock \in Session \cup {None} /\ cookie \in 0..MaxCookies
    BY DEF TypeOK, StorageOK, JarOK
  <2>2. ASSUME NEW k, k # "call", NEW r \in Request, Start(j, t, k, r), UNCHANGED asked PROVE CalmInv' /\ Asked
    BY <1>t, <1>n, <2>2, StartSafe
  <2>3. CASE Unlock(j, t)
    <3>1. Sent(Idle, token, unlock, cookie) \in Request
      BY <2>1, IdleType, SentType
    <3>2. QED
      BY <2>2, <2>3, <3>1 DEF Unlock
  <2>4. ASSUME NEW k \in Signout, Logout(j, t, k) PROVE CalmInv' /\ Asked
    <3> DEFINE s == [Idle EXCEPT !.kind = k]
    <3>1. s \in Request /\ k # "call"
      BY IdleType DEF Request, Kinds, Signout
    <3>2. Start(j, t, k, Sent(s, token, unlock, cookie)) /\ UNCHANGED asked
      BY <2>4 DEF Logout
    <3> HIDE DEF s
    <3>3. Sent(s, token, unlock, cookie) \in Request
      BY <2>1, <3>1, SentType
    <3>4. QED
      BY <2>2, <3>1, <3>2, <3>3
  <2>5. ASSUME NEW u \in Users, NEW k \in {"login", "google"}, Login(j, t, u, k) PROVE CalmInv' /\ Asked
    <3> DEFINE r == [Idle EXCEPT !.step = "credentials", !.who = u]
    <3>1. r \in Request /\ k # "call"
      BY IdleType DEF Request, Steps, Someone
    <3>2. Start(j, t, k, r) /\ UNCHANGED asked
      BY <2>5 DEF Login
    <3> HIDE DEF r
    <3>3. QED
      BY <2>2, <3>1, <3>2
  <2>6. QED
    BY <1>3, <2>3, <2>4, <2>5
<1>4. ASSUME NEW j \in Jobs, Credentials(j) \/ SignedIn(j) \/ Key(j) \/ RememberWrap(j) \/ RememberDek(j)
      PROVE  CalmInv' /\ Asked
  <2>1. job[j].step \in {"credentials", "signedIn", "key", "wrap", "dek"}
    BY <1>4 DEF Credentials, SignedIn, Key, RememberWrap, RememberDek, At
  <2>2. ~Calm
    BY <2>1, InFlight DEF CallOK, CallSteps
  <2>3. QED
    BY <1>k, <1>4, <2>2, ServerKeeps
<1>5. ASSUME NEW j \in Jobs, Serve(j) \/ Answered(j) PROVE CalmInv' /\ Asked
  <2>1. Keeps /\ UNCHANGED asked
    BY <1>5, ServerKeeps
  <2>2. CASE Calm
    BY <1>5, <2>1, <2>2, ServingCalm DEF Asked
  <2>3. QED
    BY <1>k, <2>1, <2>2
<1>6. ASSUME NEW j \in Jobs, \/ Refresh(j) \/ Rotate(j) \/ Rotated(j) \/ Recover(j) \/ Recovered(j)
                             \/ DeviceUnlock(j) \/ DeviceOpened(j)
      PROVE  CalmInv' /\ Asked
  <2>1. CASE Calm
    BY <1>6, <2>1, RefreshingCalm, RotatedCalm, RecoverCalm, DeviceUnlockCalm, DeviceOpenedCalm DEF Asked
  <2>2. CASE ~Calm
    BY <1>6, <1>k, <2>2, WrapperKeeps
  <2>3. QED
    BY <2>1, <2>2
<1>7. ASSUME NEW j \in Jobs, Lose(j) PROVE CalmInv' /\ Asked
  <2>1. PICK all \in SUBSET Jobs : job' = Unsafe([i \in Jobs |-> IF i \in all THEN Idle ELSE job[i]])
    BY <1>7 DEF Lose, Mates
  <2>2. [i \in Jobs |-> IF i \in all THEN Idle ELSE job[i]] \in [Jobs -> Request]
    BY <1>t, IdleType
  <2>3. \A i \in Jobs : job'[i].safe = "no"
    BY <2>1, <2>2, UnsafeSafe
  <2>4. QED
    BY <1>7, <1>n, <2>3 DEF Lose
<1>8. CASE ForgetDevice
  <2>1. forgets > 0 /\ UNCHANGED <<job, asked>>
    BY <1>8 DEF ForgetDevice
  <2>2. ~Calm
    BY <2>1 DEF CalmInv, FitStill
  <2>3. QED
    BY <1>k, <2>1, <2>2 DEF Keeps
<1>9. CASE Expire \/ \E u \in Users : LockExpires(u)
  <2>1. job' = Unsafe(job) /\ UNCHANGED asked
    BY <1>9 DEF Expire, LockExpires
  <2>2. QED
    BY <1>n, <1>t, <2>1, UnsafeSafe
<1>10. ASSUME NEW u \in Users, SignedOut(u) PROVE CalmInv' /\ Asked
  <2>1. \A i \in Jobs : job'[i].safe = "no"
    BY <1>10, <1>t DEF SignedOut, Request
  <2>2. QED
    BY <1>10, <1>n, <2>1 DEF SignedOut
<1>11. QED
  BY <1>1, <1>2, <1>3, <1>4, <1>5, <1>6, <1>7, <1>8, <1>9, <1>10 DEF Next

-----------------------------------------------------------------------------
(* The theorems                                                            *)

LEMMA Typed == Spec => []TypeOK
BY InitType, NextType, PTL DEF Spec

(* A sign-out that nothing ran beside leaves neither user, unlock, cookie  *)
(* nor, of a journalist, the key, however the refresh inside it, the       *)
(* deletions of forgetDevice, and the clocks are ordered.                  *)
THEOREM SignOutLeavesNothing == Spec => []NothingLeft
<1>1. Init => LeftInv
  BY DEF Init, LeftInv
<1>2. LeftInv => NothingLeft
  <2> SUFFICES ASSUME LeftInv, Quiet, left # None
               PROVE  /\ user = None /\ unlock = None /\ cookie = 0
                      /\ ~left.admin => wrap = 0 /\ dek = None
                      /\ left.fresh => token = None
    BY DEF NothingLeft
  <2>1. forgets = 0 /\ \A j \in Jobs : ~Busy(j)
    BY DEF Quiet
  <2>2. QED
    BY <2>1 DEF LeftInv
<1>3. QED
  BY <1>1, <1>2, Typed, NextLeft, PTL DEF Spec

(* A journalist whose cookie works and whose device remembers the key is   *)
(* never sent to sign in, whatever calls of the tab recover together, nor, *)
(* by a call that runs alone, to the page that asks for the password.      *)
THEOREM CallsRecover == Spec => []NotAskedInVain
<1>1. Init => CalmInv /\ NotAskedInVain
  BY IdleType DEF Init, CalmInv, Calm, Idle, NotAskedInVain
<1>2. TypeOK /\ CalmInv /\ NotAskedInVain /\ [Next]_vars => CalmInv' /\ NotAskedInVain'
  BY NextCalm DEF Asked, NotAskedInVain
<1>3. QED
  BY <1>1, <1>2, Typed, PTL DEF Spec
=============================================================================
