-------------------------- MODULE AdminKeysProofs --------------------------
(* Which keys administrators hold (AdminKeys), proved for every number of  *)
(* administrators, editorials and handlers.  A handler writes slots and    *)
(* sessions from what it read steps before, so each invariant says of the  *)
(* rows, of the sessions and of every handler in flight what the next      *)
(* write relies on.                                                        *)
EXTENDS AdminKeys, TLAPS

Steps == {"none", "ensure", "generate", "enroll", "system", "provision", "unlock", "commit",
          "grantSystem", "list", "grants", "claim", "delete", "material", "wrap", "wrap1",
          "wrap2", "data", "authority", "seal"}
Handler == [kind : JobKinds, who : Admins \cup {NoOne}, whom : Admins \cup {NoOne},
            own : Owners \cup {NoOne}, step : Steps, todo : SUBSET Owners, got : SUBSET Owners,
            tok : Nat, pair : Seq(Authorities \cup {NoAuthority})]

\* Where a handler of each kind can be, and what its record then names.
InCourse(h) ==
  /\ h.kind = "idle" => h.step = "none"
  /\ h.kind = "unlock" => h.step \in {"ensure", "generate"}
  /\ h.kind = "enroll" => h.step \in {"enroll", "system", "provision", "unlock", "ensure", "generate"}
  /\ h.kind = "admin" => h.step \in {"commit", "enroll", "grantSystem", "list", "grants"}
  /\ h.kind = "claim" => h.step = "claim"
  /\ h.kind = "remove" => h.step = "delete"
  /\ h.kind = "editorial" => h.step \in {"material", "ensure", "generate", "wrap", "wrap1", "wrap2", "data"}
  /\ h.kind = "recovery" => h.step \in {"authority", "wrap", "wrap1", "wrap2"}
  /\ h.kind = "seal" => h.step = "seal"
  /\ h.kind # "idle" => h.who \in Admins
  /\ h.kind \in {"admin", "remove"} \/ h.step = "enroll" => h.whom \in Admins
  /\ h.kind = "admin" => h.own \in Editorials \cup {NoOne}
  /\ h.kind \in {"editorial", "recovery"} => h.own \in Editorials /\ h.todo \subseteq {h.own}
  /\ h.step \in {"generate", "seal"} => h.own \in Owners
  /\ h.step = "authority" => h.pair \in Seq(Authorities) /\ h.pair # <<>>

Course == job \in [Jobs -> Handler] /\ \A j \in Jobs : InCourse(job[j])
Types == TypeOK /\ Course

-----------------------------------------------------------------------------
(* Who holds which key.                                                    *)

Standing == rows \cup {System}
Senior(a) == role[a] \in {"ADMIN", "gone"}

\* A set of keys out of the database is in step with it: keys of owners that
\* exist have their material, and a living administrator still has the slots.
Carries(K, a) ==
  /\ K \subseteq used \cup {System}
  /\ K \cap Standing \subseteq keyed
  /\ Live(a) => K \cap keyed \subseteq SlotsOf(a)

TablesOK ==
  /\ \A a \in kek : Live(a)
  /\ keyed \subseteq Standing
  /\ \A s \in slots : s[1] \in keyed /\ s[2] \in kek
  /\ \A a \in Admins : role[a] = "EDITORIAL_ADMIN" => SlotsOf(a) \subseteq {home[a]}

SessionsOK ==
  \A a \in Admins : /\ Carries(session[a].keys, a)
                    /\ role[a] = "none" => session[a].keys = {}

HandlerOK(h) ==
  /\ h.kind # "idle" => role[h.who] # "none"
  /\ h.kind = "unlock" => Carries(h.got, h.who)
  /\ h.kind \in {"claim", "editorial"} \/ h.step \in {"system", "provision"} => Senior(h.who)
  /\ h.kind = "editorial" => h.own \in used
  /\ h.kind = "editorial" /\ h.step # "material" /\ h.own \in rows =>
       h.own \in keyed /\ (Live(h.who) => <<h.own, h.who>> \in slots)
  /\ h.kind = "enroll" /\ h.step = "enroll" => h.whom = h.who
  /\ h.step \in {"enroll", "grants"} => role[h.whom] # "none"
  /\ h.step \in {"grantSystem", "list"} => Senior(h.whom)
  /\ h.kind = "admin" /\ h.step \in {"enroll", "grants"} =>
       Senior(h.whom) \/ (h.todo \subseteq used /\ h.todo \cap rows \subseteq {home[h.whom]})

KeysInv == TablesOK /\ SessionsOK /\ \A j \in Jobs : HandlerOK(job[j])

-----------------------------------------------------------------------------
(* What one request at a time keeps.                                       *)

AloneOK(h) ==
  /\ h.step = "generate" => pub[h.own] = 0
  /\ h.step = "seal" => h.tok = pub[h.own]

AloneInv ==
  /\ \A s \in seals : s[2] # 0
  /\ \A j \in Jobs : job[j].step = "seal" => job[j].tok # 0
  /\ ~overlap => /\ \A i, j \in Jobs : Busy(i) /\ Busy(j) => i = j
                 /\ \A j \in Jobs : AloneOK(job[j])
                 /\ \A s \in seals : s[2] = pub[s[1]]

-----------------------------------------------------------------------------
(* What is left to recover with.                                           *)

Sealed(e, i) == rslot[e][i] # NoAuthority
NobodyGone == \A a \in Admins : role[a] # "gone"

RecoveryInv ==
  NobodyGone =>
    /\ \A e \in data : Sealed(e, 1) /\ Sealed(e, 2)
    /\ \A j \in Jobs : /\ job[j].step = "wrap2" => Sealed(job[j].own, 1)
                       /\ job[j].step = "data" => Sealed(job[j].own, 1) /\ Sealed(job[j].own, 2)
-----------------------------------------------------------------------------
(* Types                                                                   *)

LEMMA IdleOK == Idle \in Handler /\ InCourse(Idle)
  BY DEF Idle, Handler, JobKinds, Steps, InCourse, NoAuthority

LEMMA SetCourse ==
    ASSUME Course, NEW j \in Jobs, NEW r \in Handler, InCourse(r), Set(j, r)
    PROVE  Course'
<1>1. job' \in [Jobs -> Handler]
  BY DEF Course, Set
<1>2. \A i \in Jobs : job'[i] = IF i = j THEN r ELSE job[i]
  BY DEF Course, Set
<1>3. QED
  BY <1>1, <1>2 DEF Course

LEMMA EndCourse ==
    ASSUME Course, NEW j \in Jobs, End(j)
    PROVE  Course'
  BY IdleOK, SetCourse DEF End

\* A step to another place changes nothing else a handler carries.
LEMMA GoHandler ==
    ASSUME NEW h \in Handler, NEW s \in Steps
    PROVE  [h EXCEPT !.step = s] \in Handler
  BY DEF Handler

\* The rows are as they were: what only moves a handler keeps the types.
LEMMA QuietTypes ==
    ASSUME TypeOK, Course', overlap' \in BOOLEAN, begun' \in 0..MaxRequests,
           UNCHANGED <<account, material, seals, editorial, recovery, memory>>
    PROVE  Types'
  BY DEF TypeOK, Types, Course, Handler, account, material, editorial, recovery, memory

LEMMA StartTypes ==
    ASSUME Types, NEW j \in Jobs, NEW k, NEW a \in Admins, NEW r, Start(j, k, a, r),
           [r EXCEPT !.kind = k, !.who = a] \in Handler, InCourse([r EXCEPT !.kind = k, !.who = a]) 
    PROVE  Course' /\ overlap' \in BOOLEAN /\ begun' \in 0..MaxRequests
<1>1. Course'
  BY SetCourse DEF Start, Types
<1>2. overlap' \in BOOLEAN
  BY DEF Start, Types, TypeOK
<1>3. begun' \in 0..MaxRequests
  BY BoundAssumption DEF Start, Types, TypeOK
<1>4. QED
  BY <1>1, <1>2, <1>3

LEMMA UnlockTypes ==
    ASSUME Types, NEW j \in Jobs, NEW a \in Admins, Unlock(j, a)
    PROVE  Types'
<1> DEFINE new == [Idle EXCEPT !.step = "ensure", !.got = SlotsOf(a), !.todo = SlotsOf(a)]
<1>1. [new EXCEPT !.kind = "unlock", !.who = a] \in Handler
  BY IdleOK DEF Handler, SlotsOf, Steps, JobKinds
<1>2. InCourse([new EXCEPT !.kind = "unlock", !.who = a])
  BY DEF Idle, InCourse
<1>3. QED
  BY <1>1, <1>2, StartTypes, QuietTypes DEF Unlock, Types

LEMMA EnsureReadKeyTypes ==
    ASSUME Types, NEW j \in Jobs, NEW o \in Owners, EnsureReadKey(j, o)
    PROVE  Types'
<1>1. job[j] \in Handler /\ InCourse(job[j])
  BY DEF Types, Course
<1>2. CASE End(j)
  BY <1>2, EndCourse, QuietTypes DEF EnsureReadKey, Types, TypeOK
<1>3. CASE Set(j, [job[j] EXCEPT !.todo = @ \ {o}])
  <2>1. [job[j] EXCEPT !.todo = @ \ {o}] \in Handler /\ InCourse([job[j] EXCEPT !.todo = @ \ {o}])
    BY <1>1 DEF Handler, InCourse
  <2>2. QED
    BY <1>3, <2>1, SetCourse, QuietTypes DEF EnsureReadKey, Types, TypeOK
<1>4. CASE Set(j, [job[j] EXCEPT !.step = "generate", !.own = o])
  <2>1. [job[j] EXCEPT !.step = "generate", !.own = o] \in Handler
    BY <1>1 DEF Handler, Steps
  <2>2. InCourse([job[j] EXCEPT !.step = "generate", !.own = o])
    BY <1>1 DEF Handler, InCourse, EnsureReadKey, At
  <2>3. QED
    BY <1>4, <2>1, <2>2, SetCourse, QuietTypes DEF EnsureReadKey, Types, TypeOK
<1>5. QED
  BY <1>2, <1>3, <1>4 DEF EnsureReadKey

\* A handler that moves or ends, and touches no row.
LEMMA MoveTypes ==
    ASSUME Types, NEW j \in Jobs, NEW r \in Handler, InCourse(r), Set(j, r) \/ End(j),
           UNCHANGED <<account, material, seals, editorial, recovery, memory, overlap, begun>>
    PROVE  Types'
<1>1. Course'
  BY SetCourse, EndCourse DEF Types
<1>2. QED
  BY <1>1, QuietTypes DEF Types, TypeOK

LEMMA WriteReadKeyTypes ==
    ASSUME Types, NEW j \in Jobs, WriteReadKey(j)
    PROVE  Types'
<1> DEFINE o == job[j].own
           new == [job[j] EXCEPT !.step = "ensure", !.todo = @ \ {o}]
<1>1. job[j] \in Handler /\ InCourse(job[j]) /\ job[j].step = "generate"
  BY DEF Types, Course, WriteReadKey, At
<1>2. new \in Handler
  BY <1>1 DEF Handler, Steps
<1>3. InCourse(new)
  BY <1>1 DEF Handler, InCourse
<1>4. Course'
  BY <1>2, <1>3, SetCourse, EndCourse DEF WriteReadKey, Types
<1>5. pub' \in [Owners -> Nat] /\ made' \in [Owners -> Nat]
  BY <1>1 DEF WriteReadKey, Types, TypeOK, InCourse
<1>6. QED
  BY <1>4, <1>5 DEF WriteReadKey, Types, TypeOK, Course, Handler, account, editorial, recovery, memory

LEMMA OpenSessionTypes ==
    ASSUME Types, NEW j \in Jobs, OpenSession(j)
    PROVE  Types'
<1>1. job[j] \in Handler /\ InCourse(job[j])
  BY DEF Types, Course
<1>2. Course'
  BY EndCourse DEF OpenSession, Types
<1>3. ntok' \in 0..MaxTok /\ [tok |-> ntok + 1, keys |-> job[j].got] \in [tok : 0..MaxTok, keys : SUBSET Owners]
  BY <1>1, BoundAssumption DEF OpenSession, Types, TypeOK, Handler
<1>4. session' \in [Admins -> [tok : 0..MaxTok, keys : SUBSET Owners]]
  BY <1>3 DEF OpenSession, Types, TypeOK
<1>5. QED
  BY <1>2, <1>3, <1>4 DEF OpenSession, Types, TypeOK, Course, Handler, account, material, editorial, recovery

LEMMA DropTypes ==
    ASSUME Types, NEW a \in Admins, Drop(a)
    PROVE  Types'
<1>1. NoSession \in [tok : 0..MaxTok, keys : SUBSET Owners]
  BY BoundAssumption DEF NoSession
<1>2. session' \in [Admins -> [tok : 0..MaxTok, keys : SUBSET Owners]]
  BY <1>1 DEF Drop, Types, TypeOK
<1>3. QED
  BY <1>2 DEF Drop, Types, TypeOK, Course, account, material, editorial, recovery

LEMMA EnrollTypes ==
    ASSUME Types, NEW j \in Jobs, NEW a \in Admins, Enroll(j, a)
    PROVE  Types'
<1> DEFINE new == [Idle EXCEPT !.step = "enroll", !.whom = a]
<1>1. [new EXCEPT !.kind = "enroll", !.who = a] \in Handler
  BY IdleOK DEF Handler, Steps, JobKinds
<1>2. InCourse([new EXCEPT !.kind = "enroll", !.who = a])
  BY DEF Idle, InCourse
<1>3. QED
  BY <1>1, <1>2, StartTypes, QuietTypes DEF Enroll, Types

LEMMA EnrollAdminTypes ==
    ASSUME Types, NEW j \in Jobs, EnrollAdmin(j)
    PROVE  Types'
<1> DEFINE a == job[j].whom
           s == CASE job[j].kind = "admin" -> FirstGrant(a)
                  [] job[j].kind = "enroll" /\ role[a] = "ADMIN" -> "system"
                  [] OTHER -> "unlock"
<1>1. job[j] \in Handler /\ InCourse(job[j]) /\ job[j].step = "enroll"
  BY DEF Types, Course, EnrollAdmin, At
<1>2. s \in Steps
  BY DEF FirstGrant, Steps
<1>3. [job[j] EXCEPT !.step = s] \in Handler
  BY <1>1, <1>2, GoHandler
<1>4. /\ job[j].kind = "admin" => s \in {"grantSystem", "grants"}
      /\ job[j].kind # "admin" => s \in {"system", "unlock"} /\ job[j].kind = "enroll"
  BY <1>1 DEF FirstGrant, InCourse, Handler, JobKinds
<1>5. InCourse([job[j] EXCEPT !.step = s])
  BY <1>1, <1>4 DEF Handler, InCourse
<1>6. Course'
  BY <1>3, <1>5, SetCourse, EndCourse DEF EnrollAdmin, Types, Go
<1>7. kek' \subseteq Admins
  BY <1>1 DEF EnrollAdmin, Types, TypeOK, InCourse
<1>8. QED
  BY <1>6, <1>7 DEF EnrollAdmin, Types, TypeOK, Course, Handler, material, editorial, recovery, memory

LEMMA EnrollSystemTypes ==
    ASSUME Types, NEW j \in Jobs, EnrollSystem(j)
    PROVE  Types'
<1> DEFINE s == IF System \in keyed THEN "unlock" ELSE "provision"
<1>1. job[j] \in Handler /\ InCourse(job[j]) /\ job[j].step = "system"
  BY DEF Types, Course, EnrollSystem, At
<1>2. [job[j] EXCEPT !.step = s] \in Handler
  BY <1>1, GoHandler DEF Steps
<1>3. job[j].kind = "enroll"
  BY <1>1 DEF InCourse, Handler, JobKinds
<1>4. InCourse([job[j] EXCEPT !.step = s])
  BY <1>1, <1>3 DEF Handler, InCourse
<1>5. QED
  BY <1>2, <1>4, MoveTypes DEF EnrollSystem, Go

LEMMA ProvisionSystemTypes ==
    ASSUME Types, NEW j \in Jobs, ProvisionSystem(j)
    PROVE  Types'
<1> DEFINE new == [job[j] EXCEPT !.step = "ensure", !.todo = {System}]
<1>1. job[j] \in Handler /\ InCourse(job[j]) /\ job[j].step = "provision"
  BY DEF Types, Course, ProvisionSystem, At
<1>2. new \in Handler
  BY <1>1 DEF Handler, Steps, Owners
<1>3. job[j].kind = "enroll"
  BY <1>1 DEF InCourse, Handler, JobKinds
<1>4. InCourse(new)
  BY <1>1, <1>3 DEF Handler, InCourse
<1>5. Course'
  BY <1>2, <1>4, SetCourse, EndCourse DEF ProvisionSystem, Types
<1>6. keyed' \subseteq Owners /\ slots' \subseteq Owners \X Admins
  BY <1>1, <1>3 DEF ProvisionSystem, Types, TypeOK, InCourse, Owners
<1>7. QED
  BY <1>5, <1>6 DEF ProvisionSystem, Types, TypeOK, Course, Handler, account, editorial, recovery, memory

LEMMA EnrollUnlockTypes ==
    ASSUME Types, NEW j \in Jobs, EnrollUnlock(j)
    PROVE  Types'
<1> DEFINE a == job[j].who
           new == [Idle EXCEPT !.kind = "unlock", !.who = a, !.step = "ensure",
                               !.got = SlotsOf(a), !.todo = SlotsOf(a)]
<1>1. a \in Admins
  BY DEF Types, Course, InCourse, EnrollUnlock
<1>2. new \in Handler
  BY <1>1, IdleOK DEF Handler, Steps, SlotsOf, JobKinds
<1>3. InCourse(new)
  BY <1>1 DEF Idle, InCourse
<1>4. QED
  BY <1>2, <1>3, MoveTypes DEF EnrollUnlock

LEMMA CreateAdminTypes ==
    ASSUME Types, NEW j \in Jobs, NEW a \in Admins, NEW b \in Admins, NEW r \in Roles,
           NEW e \in Editorials \cup {NoOne}, CreateAdmin(j, a, b, r, e)
    PROVE  Types'
<1> DEFINE o == IF r = "ADMIN" THEN NoOne ELSE e
           new == [Idle EXCEPT !.step = "commit", !.whom = b, !.tok = session[a].tok, !.own = o]
<1>1. session[a].tok \in Nat /\ o \in Editorials \cup {NoOne}
  BY DEF Types, TypeOK
<1>2. [new EXCEPT !.kind = "admin", !.who = a] \in Handler
  BY <1>1, IdleOK DEF Handler, Steps, JobKinds, Owners
<1>3. InCourse([new EXCEPT !.kind = "admin", !.who = a])
  BY <1>1 DEF Idle, InCourse
<1>4. QED
  BY <1>2, <1>3, StartTypes, QuietTypes DEF CreateAdmin, Types

LEMMA CommitAdminTypes ==
    ASSUME Types, NEW j \in Jobs, CommitAdmin(j)
    PROVE  Types'
<1> DEFINE b == job[j].whom
           e == job[j].own
           new == [job[j] EXCEPT !.step = "enroll", !.todo = {e} \ {NoOne}]
<1>1. job[j] \in Handler /\ InCourse(job[j]) /\ job[j].step = "commit"
  BY DEF Types, Course, CommitAdmin, At
<1>2. job[j].kind = "admin"
  BY <1>1 DEF InCourse, Handler, JobKinds
<1>3. new \in Handler /\ InCourse(new)
  <2>1. new \in Handler
    BY <1>1 DEF Handler, Steps
  <2>2. InCourse(new)
    BY <1>1, <1>2 DEF Handler, InCourse
  <2>3. QED
    BY <2>1, <2>2
<1>4. Course'
  BY <1>3, SetCourse, EndCourse DEF CommitAdmin, Types
<1>5. e \in Editorials \cup {NoOne}
  BY <1>1, <1>2 DEF InCourse
<1>6. role' \in [Admins -> Roles \cup {"none", "gone"}] /\ home' \in [Admins -> Editorials \cup {NoOne}]
  BY <1>5 DEF CommitAdmin, Types, TypeOK, Roles
<1>7. QED
  BY <1>4, <1>6 DEF CommitAdmin, Types, TypeOK, Course, Handler, material, editorial, recovery, memory

\* Facts a step of Handler and InCourse gives, at each place a row is written.
LEMMA Places ==
    ASSUME NEW h \in Handler, InCourse(h)
    PROVE  /\ h.step \in {"commit", "grantSystem", "list", "grants"} => h.kind = "admin"
           /\ h.step = "claim" => h.kind = "claim"
           /\ h.step = "delete" => h.kind = "remove"
           /\ h.step \in {"material", "data"} => h.kind = "editorial"
           /\ h.step \in {"wrap", "wrap1", "wrap2"} => h.kind \in {"editorial", "recovery"}
           /\ h.step = "authority" => h.kind = "recovery"
           /\ h.step = "seal" => h.kind = "seal"
           /\ h.step \in {"system", "provision", "unlock"} => h.kind = "enroll"
           /\ h.step = "enroll" => h.kind \in {"enroll", "admin"}
           /\ h.step \in {"ensure", "generate"} => h.kind \in {"unlock", "enroll", "editorial"}
  BY DEF Handler, InCourse, JobKinds

LEMMA GrantSystemTypes ==
    ASSUME Types, NEW j \in Jobs, GrantSystem(j)
    PROVE  Types'
<1>1. job[j] \in Handler /\ InCourse(job[j]) /\ job[j].step = "grantSystem"
  BY DEF Types, Course, GrantSystem, At
<1>2. job[j].kind = "admin"
  BY <1>1, Places
<1>3. [job[j] EXCEPT !.step = "list"] \in Handler
  BY <1>1, GoHandler DEF Steps
<1>4. InCourse([job[j] EXCEPT !.step = "list"])
  BY <1>1, <1>2 DEF Handler, InCourse
<1>5. Course'
  BY <1>3, <1>4, SetCourse, EndCourse DEF GrantSystem, Types, Go
<1>6. slots' \subseteq Owners \X Admins
  BY <1>1, <1>2 DEF GrantSystem, WriteSlot, Types, TypeOK, InCourse, Owners
<1>7. QED
  BY <1>5, <1>6 DEF GrantSystem, Types, TypeOK, Course, Handler, account, editorial, recovery, memory

LEMMA ListEditorialsTypes ==
    ASSUME Types, NEW j \in Jobs, ListEditorials(j)
    PROVE  Types'
<1> DEFINE new == [job[j] EXCEPT !.step = "grants", !.todo = rows]
<1>1. job[j] \in Handler /\ InCourse(job[j]) /\ job[j].step = "list"
  BY DEF Types, Course, ListEditorials, At
<1>2. job[j].kind = "admin"
  BY <1>1, Places
<1>3. new \in Handler
  BY <1>1 DEF Handler, Steps, Types, TypeOK, Owners
<1>4. InCourse(new)
  BY <1>1, <1>2 DEF Handler, InCourse
<1>5. QED
  BY <1>3, <1>4, MoveTypes DEF ListEditorials

LEMMA GrantEditorialTypes ==
    ASSUME Types, NEW j \in Jobs, NEW o \in Owners, GrantEditorial(j, o)
    PROVE  Types'
<1> DEFINE new == [job[j] EXCEPT !.todo = @ \ {o}]
<1>1. job[j] \in Handler /\ InCourse(job[j]) /\ job[j].step = "grants"
  BY DEF Types, Course, GrantEditorial, At
<1>2. job[j].kind = "admin"
  BY <1>1, Places
<1>3. new \in Handler
  BY <1>1 DEF Handler
<1>4. InCourse(new)
  BY <1>1, <1>2 DEF Handler, InCourse
<1>5. Course'
  BY <1>3, <1>4, SetCourse, EndCourse DEF GrantEditorial, Types
<1>6. slots' \subseteq Owners \X Admins
  BY <1>1, <1>2 DEF GrantEditorial, WriteSlot, Types, TypeOK, InCourse
<1>7. QED
  BY <1>5, <1>6 DEF GrantEditorial, Types, TypeOK, Course, Handler, account, editorial, recovery, memory

LEMMA ClaimTypes ==
    ASSUME Types, NEW j \in Jobs, NEW a \in Admins, NEW o \in Editorials, Claim(j, a, o)
    PROVE  Types'
<1> DEFINE new == [Idle EXCEPT !.step = "claim", !.own = o]
<1>1. [new EXCEPT !.kind = "claim", !.who = a] \in Handler
  BY IdleOK DEF Handler, Steps, JobKinds, Owners
<1>2. InCourse([new EXCEPT !.kind = "claim", !.who = a])
  BY DEF Idle, InCourse
<1>3. QED
  BY <1>1, <1>2, StartTypes, QuietTypes DEF Claim, Types

LEMMA ClaimWriteTypes ==
    ASSUME Types, NEW j \in Jobs, ClaimWrite(j)
    PROVE  Types'
<1>1. job[j] \in Handler /\ InCourse(job[j]) /\ job[j].step = "claim"
  BY DEF Types, Course, ClaimWrite, At
<1>2. job[j].who \in Admins
  BY <1>1, Places DEF InCourse
<1>3. Course'
  BY EndCourse DEF ClaimWrite, Types
<1>4. slots' \subseteq Owners \X Admins
  BY <1>2 DEF ClaimWrite, WriteSlot, Types, TypeOK
<1>5. QED
  BY <1>3, <1>4 DEF ClaimWrite, Types, TypeOK, Course, Handler, account, editorial, recovery, memory

LEMMA RemoveAdminTypes ==
    ASSUME Types, NEW j \in Jobs, NEW a \in Admins, NEW b \in Admins, RemoveAdmin(j, a, b)
    PROVE  Types'
<1> DEFINE new == [Idle EXCEPT !.step = "delete", !.whom = b]
<1>1. [new EXCEPT !.kind = "remove", !.who = a] \in Handler
  BY IdleOK DEF Handler, Steps, JobKinds
<1>2. InCourse([new EXCEPT !.kind = "remove", !.who = a])
  BY DEF Idle, InCourse
<1>3. QED
  BY <1>1, <1>2, StartTypes, QuietTypes DEF RemoveAdmin, Types

LEMMA DeleteAdminTypes ==
    ASSUME Types, NEW j \in Jobs, DeleteAdmin(j)
    PROVE  Types'
<1>1. Course'
  BY EndCourse DEF DeleteAdmin, Types
<1>2. role' \in [Admins -> Roles \cup {"none", "gone"}]
  BY DEF DeleteAdmin, Types, TypeOK
<1>3. rslot' \in [Editorials -> [1..2 -> Authorities \cup {NoAuthority}]]
  BY DEF DeleteAdmin, Types, TypeOK
<1>4. /\ kek' \subseteq Admins /\ slots' \subseteq Owners \X Admins
      /\ auths' \subseteq Authorities /\ older' \subseteq Authorities \X Authorities
  BY DEF DeleteAdmin, Types, TypeOK
<1>5. QED
  BY <1>1, <1>2, <1>3, <1>4 DEF DeleteAdmin, Types, TypeOK, Course, Handler, editorial, memory

LEMMA CreateEditorialTypes ==
    ASSUME Types, NEW j \in Jobs, NEW a \in Admins, NEW e \in Editorials, CreateEditorial(j, a, e)
    PROVE  Types'
<1> DEFINE new == [Idle EXCEPT !.step = "material", !.own = e, !.tok = session[a].tok]
<1>1. session[a].tok \in Nat
  BY DEF Types, TypeOK
<1>2. [new EXCEPT !.kind = "editorial", !.who = a] \in Handler
  BY <1>1, IdleOK DEF Handler, Steps, JobKinds, Owners
<1>3. InCourse([new EXCEPT !.kind = "editorial", !.who = a])
  BY DEF Idle, InCourse
<1>4. Course' /\ overlap' \in BOOLEAN /\ begun' \in 0..MaxRequests
  BY <1>2, <1>3, StartTypes DEF CreateEditorial
<1>5. QED
  BY <1>4 DEF CreateEditorial, Types, TypeOK, Course, Handler, account, material, recovery, memory

LEMMA ProvisionEditorialTypes ==
    ASSUME Types, NEW j \in Jobs, ProvisionEditorial(j)
    PROVE  Types'
<1> DEFINE e == job[j].own
           new == [job[j] EXCEPT !.step = "ensure", !.todo = {e}]
<1>1. job[j] \in Handler /\ InCourse(job[j]) /\ job[j].step = "material"
  BY DEF Types, Course, ProvisionEditorial, At
<1>2. job[j].kind = "editorial" /\ e \in Editorials /\ job[j].who \in Admins
  BY <1>1, Places DEF InCourse
<1>3. new \in Handler
  BY <1>1, <1>2 DEF Handler, Steps, Owners
<1>4. InCourse(new)
  BY <1>1, <1>2 DEF Handler, InCourse
<1>5. Course'
  BY <1>3, <1>4, SetCourse DEF ProvisionEditorial, Types
<1>6. keyed' \subseteq Owners /\ slots' \subseteq Owners \X Admins
  BY <1>2 DEF ProvisionEditorial, Types, TypeOK, Owners
<1>7. QED
  BY <1>5, <1>6 DEF ProvisionEditorial, Types, TypeOK, Course, Handler, account, editorial, recovery, memory

LEMMA PutKeyTypes ==
    ASSUME Types, NEW j \in Jobs, PutKey(j)
    PROVE  Types'
<1>1. job[j] \in Handler /\ InCourse(job[j]) /\ job[j].kind = "editorial"
  BY DEF Types, Course, PutKey
<1>2. job[j].own \in Owners /\ job[j].who \in Admins
  BY <1>1 DEF InCourse, Owners
<1>3. [job[j] EXCEPT !.step = "wrap"] \in Handler
  BY <1>1, GoHandler DEF Steps
<1>4. InCourse([job[j] EXCEPT !.step = "wrap"])
  BY <1>1 DEF Handler, InCourse
<1>5. Course'
  BY <1>3, <1>4, SetCourse DEF PutKey, Types, Go
<1>6. session' \in [Admins -> [tok : 0..MaxTok, keys : SUBSET Owners]]
  BY <1>2 DEF PutKey, Types, TypeOK
<1>7. QED
  BY <1>5, <1>6 DEF PutKey, Types, TypeOK, Course, Handler, account, material, editorial, recovery

LEMMA WrapReadTypes ==
    ASSUME Types, NEW j \in Jobs, WrapRead(j)
    PROVE  Types'
<1>1. job[j] \in Handler /\ InCourse(job[j]) /\ job[j].step = "wrap"
  BY DEF Types, Course, WrapRead, At
<1>2. CASE End(j)
  BY <1>1, <1>2, MoveTypes DEF WrapRead
<1>3. ASSUME NEW x \in auths, NEW y \in auths, Set(j, [job[j] EXCEPT !.step = "wrap1", !.pair = <<x, y>>])
      PROVE  Types'
  <2> DEFINE new == [job[j] EXCEPT !.step = "wrap1", !.pair = <<x, y>>]
  <2>1. <<x, y>> \in Seq(Authorities \cup {NoAuthority})
    BY DEF Types, TypeOK
  <2>2. new \in Handler
    BY <1>1, <2>1 DEF Handler, Steps
  <2>3. job[j].kind \in {"editorial", "recovery"}
    BY <1>1, Places
  <2>4. InCourse(new)
    BY <1>1, <2>3 DEF Handler, InCourse
  <2>5. QED
    BY <1>3, <2>2, <2>4, MoveTypes DEF WrapRead
<1>4. QED
  BY <1>2, <1>3 DEF WrapRead

LEMMA WrapWriteTypes ==
    ASSUME Types, NEW j \in Jobs, NEW i \in 1..2, WrapWrite(j, i)
    PROVE  Types'
<1>1. job[j] \in Handler /\ InCourse(job[j]) /\ job[j].step \in {"wrap1", "wrap2"}
  BY DEF Types, Course, WrapWrite, At
<1>2. job[j].kind \in {"editorial", "recovery"} /\ job[j].own \in Editorials
  BY <1>1, Places DEF InCourse
<1>3. [job[j] EXCEPT !.step = "wrap2"] \in Handler /\ [job[j] EXCEPT !.step = "data"] \in Handler
  BY <1>1, GoHandler DEF Steps
<1>4. InCourse([job[j] EXCEPT !.step = "wrap2"])
  BY <1>1, <1>2 DEF Handler, InCourse
<1>5. job[j].kind = "editorial" => InCourse([job[j] EXCEPT !.step = "data"])
  BY <1>1, <1>2 DEF Handler, InCourse
<1>6. Go(j, "wrap2") \/ (job[j].kind = "editorial" /\ Go(j, "data")) \/ End(j)
  BY DEF WrapWrite
<1>7. Course'
  BY <1>3, <1>4, <1>5, <1>6, SetCourse, EndCourse DEF Types, Go
<1>8. rslot' \in [Editorials -> [1..2 -> Authorities \cup {NoAuthority}]]
  BY <1>2 DEF WrapWrite, Types, TypeOK
<1>9. QED
  BY <1>7, <1>8 DEF WrapWrite, Types, TypeOK, Course, Handler, account, material, editorial, memory

LEMMA WriteDataTypes ==
    ASSUME Types, NEW j \in Jobs, WriteData(j)
    PROVE  Types'
<1>1. Course'
  BY EndCourse DEF WriteData, Types
<1>2. QED
  BY <1>1 DEF WriteData, Types, TypeOK, Course, Handler, account, material, recovery, memory

LEMMA RecoverySlotsTypes ==
    ASSUME Types, NEW j \in Jobs, NEW a \in Admins, NEW e \in Editorials, NEW b \in Admins,
           NEW c \in Admins, RecoverySlots(j, a, e, b, c)
    PROVE  Types'
<1> DEFINE p == <<<<b, 1>>, <<c, 2>>>>
           new == [Idle EXCEPT !.step = "authority", !.own = e, !.pair = p]
<1>1. p \in Seq(Authorities) /\ p \in Seq(Authorities \cup {NoAuthority}) /\ p # <<>>
  BY DEF Authorities
<1> HIDE DEF p
<1>2. [new EXCEPT !.kind = "recovery", !.who = a] \in Handler
  BY <1>1, IdleOK DEF Handler, Steps, JobKinds, Owners
<1>3. InCourse([new EXCEPT !.kind = "recovery", !.who = a])
  BY <1>1 DEF Idle, InCourse
<1>4. QED
  BY <1>2, <1>3, StartTypes, QuietTypes DEF RecoverySlots, Types, p

LEMMA CreateAuthorityTypes ==
    ASSUME Types, NEW j \in Jobs, CreateAuthority(j)
    PROVE  Types'
<1> DEFINE x == Head(job[j].pair)
           rest == Tail(job[j].pair)
           done == [job[j] EXCEPT !.step = "wrap", !.pair = Idle.pair]
           next == [job[j] EXCEPT !.pair = rest]
<1>1. job[j] \in Handler /\ InCourse(job[j]) /\ job[j].step = "authority"
  BY DEF Types, Course, CreateAuthority, At
<1>2. job[j].kind = "recovery" /\ job[j].pair \in Seq(Authorities) /\ job[j].pair # <<>>
  BY <1>1, Places DEF InCourse
<1>3. x \in Authorities /\ rest \in Seq(Authorities)
  BY <1>2
<1>4. rest \in Seq(Authorities \cup {NoAuthority}) /\ Idle.pair \in Seq(Authorities \cup {NoAuthority})
  BY <1>3 DEF Idle
<1> HIDE DEF x, rest
<1>5. done \in Handler /\ InCourse(done)
  <2>1. done \in Handler
    BY <1>1, <1>4 DEF Handler, Steps
  <2>2. InCourse(done)
    BY <1>1, <1>2 DEF Handler, InCourse
  <2>3. QED
    BY <2>1, <2>2
<1>6. rest # <<>> => next \in Handler /\ InCourse(next)
  <2>1. next \in Handler
    BY <1>1, <1>4 DEF Handler
  <2>2. rest # <<>> => InCourse(next)
    BY <1>1, <1>2, <1>3 DEF Handler, InCourse
  <2>3. QED
    BY <2>1, <2>2
<1>7. Course'
  BY <1>5, <1>6, SetCourse DEF CreateAuthority, Types, rest
<1>8. auths' \subseteq Authorities /\ older' \subseteq Authorities \X Authorities
  BY <1>3 DEF CreateAuthority, Types, TypeOK, x
<1>9. QED
  BY <1>7, <1>8 DEF CreateAuthority, Types, TypeOK, Course, Handler, account, material, editorial, memory

LEMMA RemoveEditorialTypes ==
    ASSUME Types, NEW e \in Editorials, RemoveEditorial(e)
    PROVE  Types'
<1>1. home' \in [Admins -> Editorials \cup {NoOne}]
  BY DEF RemoveEditorial, Types, TypeOK
<1>2. QED
  BY <1>1 DEF RemoveEditorial, Types, TypeOK, Course, recovery, memory

LEMMA SealTypes ==
    ASSUME Types, NEW j \in Jobs, NEW a \in Admins, NEW o \in Owners, Seal(j, a, o)
    PROVE  Types'
<1> DEFINE new == [Idle EXCEPT !.step = "seal", !.own = o, !.tok = pub[o]]
<1>1. pub[o] \in Nat
  BY DEF Types, TypeOK
<1>2. [new EXCEPT !.kind = "seal", !.who = a] \in Handler
  BY <1>1, IdleOK DEF Handler, Steps, JobKinds
<1>3. InCourse([new EXCEPT !.kind = "seal", !.who = a])
  BY DEF Idle, InCourse
<1>4. QED
  BY <1>2, <1>3, StartTypes, QuietTypes DEF Seal, Types

LEMMA SealWriteTypes ==
    ASSUME Types, NEW j \in Jobs, SealWrite(j)
    PROVE  Types'
<1>1. job[j] \in Handler /\ InCourse(job[j]) /\ job[j].step = "seal"
  BY DEF Types, Course, SealWrite, At
<1>2. job[j].own \in Owners /\ job[j].tok \in Nat
  BY <1>1 DEF InCourse, Handler
<1>3. Course'
  BY EndCourse DEF SealWrite, Types
<1>4. QED
  BY <1>2, <1>3 DEF SealWrite, Types, TypeOK, Course, Handler, account, material, editorial, recovery, memory

LEMMA RestartTypes ==
    ASSUME Types, Restart
    PROVE  Types'
<1>1. NoSession \in [tok : 0..MaxTok, keys : SUBSET Owners]
  BY BoundAssumption DEF NoSession
<1>2. Course'
  BY IdleOK DEF Restart, Course
<1>3. session' \in [Admins -> [tok : 0..MaxTok, keys : SUBSET Owners]]
  BY <1>1 DEF Restart
<1>4. QED
  BY <1>2, <1>3 DEF Restart, Types, TypeOK, Course, Handler, account, material, editorial, recovery

LEMMA RequestTypes ==
    ASSUME Types, NEW j \in Jobs, NEW a \in Admins, Request(j, a)
    PROVE  Types'
<1>1. CASE Unlock(j, a) \/ Enroll(j, a)
  BY <1>1, UnlockTypes, EnrollTypes
<1>2. ASSUME NEW b \in Admins, RemoveAdmin(j, a, b) \/ CreateAdmin(j, a, b, "ADMIN", NoOne)
      PROVE  Types'
  BY <1>2, RemoveAdminTypes, CreateAdminTypes DEF Roles
<1>3. ASSUME NEW b \in Admins, NEW e \in Editorials,
             CreateAdmin(j, a, b, "EDITORIAL_ADMIN", e) \/ \E c \in Admins : RecoverySlots(j, a, e, b, c)
      PROVE  Types'
  BY <1>3, CreateAdminTypes, RecoverySlotsTypes DEF Roles
<1>4. ASSUME NEW e \in Editorials, Claim(j, a, e) \/ CreateEditorial(j, a, e)
      PROVE  Types'
  BY <1>4, ClaimTypes, CreateEditorialTypes
<1>5. ASSUME NEW o \in Owners, Seal(j, a, o)
      PROVE  Types'
  BY <1>5, SealTypes
<1>6. QED
  BY <1>1, <1>2, <1>3, <1>4, <1>5 DEF Request

LEMMA StepTypes ==
    ASSUME Types, NEW j \in Jobs, Step(j)
    PROVE  Types'
<1>1. ASSUME NEW o \in Owners, EnsureReadKey(j, o) \/ GrantEditorial(j, o)
      PROVE  Types'
  BY <1>1, EnsureReadKeyTypes, GrantEditorialTypes
<1>2. CASE WriteReadKey(j) \/ OpenSession(j) \/ EnrollAdmin(j) \/ EnrollSystem(j) \/ ProvisionSystem(j) \/ EnrollUnlock(j)
  BY <1>2, WriteReadKeyTypes, OpenSessionTypes, EnrollAdminTypes, EnrollSystemTypes, ProvisionSystemTypes,
     EnrollUnlockTypes
<1>3. CASE CommitAdmin(j) \/ GrantSystem(j) \/ ListEditorials(j) \/ ClaimWrite(j) \/ DeleteAdmin(j)
  BY <1>3, CommitAdminTypes, GrantSystemTypes, ListEditorialsTypes, ClaimWriteTypes, DeleteAdminTypes
<1>4. CASE ProvisionEditorial(j) \/ PutKey(j) \/ WrapRead(j) \/ WriteData(j) \/ \E i \in 1..2 : WrapWrite(j, i)
  BY <1>4, ProvisionEditorialTypes, PutKeyTypes, WrapReadTypes, WriteDataTypes, WrapWriteTypes
<1>5. CASE CreateAuthority(j) \/ SealWrite(j)
  BY <1>5, CreateAuthorityTypes, SealWriteTypes
<1>6. CASE GrantsDone(j) \/ Throw(j)
  BY <1>6, IdleOK, MoveTypes DEF GrantsDone, Throw
<1>7. QED
  BY <1>1, <1>2, <1>3, <1>4, <1>5, <1>6 DEF Step

LEMMA InitTypes == Init => Types
<1> SUFFICES ASSUME Init PROVE Types
  OBVIOUS
<1>1. Course
  BY IdleOK DEF Init, Course
<1>2. rslot \in [Editorials -> [1..2 -> Authorities \cup {NoAuthority}]]
  BY DEF Init
<1>3. session \in [Admins -> [tok : 0..MaxTok, keys : SUBSET Owners]] /\ ntok \in 0..MaxTok
  BY BoundAssumption DEF Init, NoSession
<1>4. kek \subseteq Admins /\ keyed \subseteq Owners /\ slots \subseteq Owners \X Admins
      /\ auths \subseteq Authorities
  <2>1. {First} \subseteq Admins /\ {System} \subseteq Owners /\ {<<System, First>>} \subseteq Owners \X Admins
    BY AdminAssumption DEF Owners
  <2>2. {<<First, 1>>, <<First, 2>>} \subseteq Authorities
    BY AdminAssumption DEF Authorities
  <2>3. QED
    BY <2>1, <2>2 DEF Init
<1>5. role \in [Admins -> Roles \cup {"none", "gone"}] /\ home \in [Admins -> Editorials \cup {NoOne}]
  BY DEF Init, Roles
<1>6. pub \in [Owners -> Nat] /\ made \in [Owners -> Nat]
  BY DEF Init
<1>7. seals \subseteq Owners \X Nat /\ rows \subseteq used /\ used \subseteq Editorials /\ data \subseteq rows
      /\ older \subseteq Authorities \X Authorities
  BY DEF Init
<1>8. overlap \in BOOLEAN /\ begun \in 0..MaxRequests
  <2>1. overlap = FALSE /\ begun = 0
    BY DEF Init
  <2>2. 0 \in 0..MaxRequests
    BY BoundAssumption
  <2>3. QED
    BY <2>1, <2>2, Zenon
<1>9. \A j \in Jobs : job[j].kind \in JobKinds /\ job[j].todo \subseteq Owners
  BY <1>1 DEF Course, Handler
<1>10. QED
  BY <1>1, <1>2, <1>3, <1>4, <1>5, <1>6, <1>7, <1>8, <1>9 DEF Types, TypeOK

LEMMA NextTypes == Types /\ [Next]_vars => Types'
<1> SUFFICES ASSUME Types, [Next]_vars PROVE Types'
  OBVIOUS
<1>1. CASE \E j \in Jobs : Step(j) \/ \E a \in Admins : Request(j, a)
  BY <1>1, StepTypes, RequestTypes
<1>2. CASE \E a \in Admins : Drop(a)
  BY <1>2, DropTypes
<1>3. CASE \E e \in Editorials : RemoveEditorial(e)
  BY <1>3, RemoveEditorialTypes
<1>4. CASE Restart
  BY <1>4, RestartTypes
<1>5. CASE UNCHANGED vars
  BY <1>5 DEF vars, account, material, editorial, recovery, memory, Types, TypeOK, Course
<1>6. QED
  BY <1>1, <1>2, <1>3, <1>4, <1>5 DEF Next

LEMMA AllTypes == Spec => []Types
  BY InitTypes, NextTypes, PTL DEF Spec

(* Every row, session and handler has its type (TypeOK).                   *)
THEOREM AdministratorsTyped == Spec => []TypeOK
  BY AllTypes, PTL DEF Types

-----------------------------------------------------------------------------
(* Keys                                                                    *)

\* What one step may do to the tables: an administrator starts, or is gone for
\* good; an editorial's id never comes back; a key and a slot go only with
\* their owner or their administrator.
Evolves ==
  /\ \A a \in Admins : role'[a] = role[a] \/ role[a] = "none" \/ role'[a] = "gone"
  /\ \A a \in Admins : role'[a] = "none" => role[a] = "none"
  /\ \A a \in Admins : role[a] = "gone" => role'[a] = "gone"
  /\ \A a \in Admins : role[a] # "none" => home'[a] = home[a] \/ home[a] \notin rows'
  /\ used \subseteq used' /\ rows' \cap used \subseteq rows
  /\ keyed \cap (rows' \cup {System}) \subseteq keyed'
  /\ \A s \in slots : s[1] \in keyed' /\ role'[s[2]] \in Roles => s \in slots'

LEMMA Still ==
    ASSUME TablesOK, UNCHANGED <<account, keyed, slots, rows, used>>
    PROVE  Evolves /\ TablesOK'
<1>1. Evolves
  BY DEF Evolves, account
<1>2. TablesOK'
  BY DEF TablesOK, Live, SlotsOf, Standing, account
<1>3. QED
  BY <1>1, <1>2

LEMMA CarriesOn ==
    ASSUME Types, NEW K, NEW a \in Admins, Carries(K, a), Evolves, TablesOK',
           role[a] # "none" \/ K = {}
    PROVE  Carries(K, a)'
<1>1. K \subseteq used' \cup {System}
  BY DEF Carries, Evolves
<1>2. K \cap Standing' \subseteq keyed
  BY DEF Carries, Evolves, Standing
<1>3. K \cap Standing' \subseteq keyed'
  BY <1>2 DEF Evolves, Standing
<1>4. ASSUME Live(a)', NEW o \in K, o \in keyed'
      PROVE  o \in SlotsOf(a)'
  <2>1. Live(a)
    BY <1>4 DEF Evolves, Live, Roles
  <2>2. o \in keyed
    BY <1>2, <1>4 DEF TablesOK
  <2>3. <<o, a>> \in slots
    BY <1>4, <2>1, <2>2 DEF Carries, SlotsOf
  <2>4. o \in Owners
    BY <2>2 DEF Types, TypeOK
  <2>5. <<o, a>> \in slots'
    BY <1>4, <2>3 DEF Evolves, Live
  <2>6. QED
    BY <2>4, <2>5 DEF SlotsOf
<1>5. QED
  BY <1>1, <1>3, <1>4 DEF Carries

LEMMA SeniorOn ==
    ASSUME Evolves, NEW a \in Admins, Senior(a)
    PROVE  Senior(a)'
  BY DEF Evolves, Senior

LEMMA HandlerOn ==
    ASSUME Types, NEW h \in Handler, InCourse(h), HandlerOK(h), Evolves, TablesOK'
    PROVE  HandlerOK(h)'
<1>1. h.kind # "idle" => h.who \in Admins /\ role'[h.who] # "none"
  BY DEF HandlerOK, InCourse, Evolves
<1>2. h.kind = "unlock" => Carries(h.got, h.who)'
  BY CarriesOn DEF HandlerOK, InCourse
<1>3. h.step \in {"system", "provision"} => h.kind # "idle"
  BY DEF InCourse
<1>4. h.kind \in {"claim", "editorial"} \/ h.step \in {"system", "provision"} => Senior(h.who)'
  BY <1>1, <1>3, SeniorOn DEF HandlerOK
<1>5. h.kind = "editorial" => h.own \in used'
  BY DEF HandlerOK, Evolves
<1>6. ASSUME h.kind = "editorial", h.step # "material", h.own \in rows'
      PROVE  h.own \in keyed' /\ (Live(h.who)' => <<h.own, h.who>> \in slots')
  <2>1. h.own \in rows /\ h.own \in keyed /\ (Live(h.who) => <<h.own, h.who>> \in slots)
    BY <1>6 DEF HandlerOK, Evolves
  <2>2. h.own \in keyed'
    BY <1>6, <2>1 DEF Evolves
  <2>3. Live(h.who)' => Live(h.who)
    BY <1>6 DEF HandlerOK, InCourse, Evolves, Live, Roles
  <2>4. QED
    BY <2>1, <2>2, <2>3 DEF Evolves, Live
<1>7. h.step \in {"enroll", "grants", "grantSystem", "list"} \/ h.kind = "admin" => h.whom \in Admins
  BY Places DEF InCourse
<1>8. h.step \in {"enroll", "grants"} => role'[h.whom] # "none"
  BY <1>7 DEF HandlerOK, Evolves
<1>9. h.step \in {"grantSystem", "list"} => Senior(h.whom)'
  BY <1>7, SeniorOn DEF HandlerOK
<1>10. ASSUME h.kind = "admin", h.step \in {"enroll", "grants"}
       PROVE  Senior(h.whom)' \/ (h.todo \subseteq used' /\ h.todo \cap rows' \subseteq {home'[h.whom]})
  <2>1. CASE Senior(h.whom)
    BY <1>7, <1>10, <2>1, SeniorOn
  <2>2. CASE ~Senior(h.whom) /\ role[h.whom] # "none"
    <3>1. h.todo \subseteq used /\ h.todo \cap rows \subseteq {home[h.whom]}
      BY <1>10, <2>2 DEF HandlerOK
    <3>2. h.todo \subseteq used' /\ h.todo \cap rows' \subseteq {home[h.whom]}
      BY <3>1 DEF Evolves
    <3>3. home'[h.whom] = home[h.whom] \/ home[h.whom] \notin rows'
      BY <1>7, <1>10, <2>2 DEF Evolves
    <3>4. QED
      BY <3>2, <3>3
  <2>3. role[h.whom] # "none"
    BY <1>10 DEF HandlerOK
  <2>4. QED
    BY <2>1, <2>2, <2>3
<1>11. QED
  BY <1>1, <1>2, <1>4, <1>5, <1>6, <1>8, <1>9, <1>10 DEF HandlerOK

LEMMA Shift ==
    ASSUME NEW i, NEW h, h = job'[i], HandlerOK(h)'
    PROVE  HandlerOK(job[i])'
  BY DEF HandlerOK, Carries, Senior, Live, SlotsOf, Standing

LEMMA SessionOn ==
    ASSUME Types, KeysInv, Evolves, TablesOK', NEW a \in Admins, session'[a] = session[a]
    PROVE  Carries(session[a].keys, a)' /\ (role'[a] = "none" => session'[a].keys = {})
<1>1. PICK K : K = session[a].keys
  OBVIOUS
<1>2. Carries(K, a) /\ (role[a] # "none" \/ K = {})
  BY <1>1 DEF KeysInv, SessionsOK, Carries
<1>3. Carries(K, a)'
  BY <1>2, CarriesOn
<1>4. Carries(session[a].keys, a)'
  BY <1>1, <1>3 DEF Carries, Live, SlotsOf, Standing
<1>5. role'[a] = "none" => role[a] = "none"
  BY DEF Evolves
<1>6. QED
  BY <1>1, <1>2, <1>4, <1>5

LEMMA OtherOn ==
    ASSUME Types, KeysInv, Evolves, TablesOK', NEW i \in Jobs, job'[i] = job[i]
    PROVE  HandlerOK(job[i])'
<1>1. PICK h : h = job[i]
  OBVIOUS
<1>2. h \in Handler /\ InCourse(h) /\ HandlerOK(h)
  BY <1>1 DEF Types, Course, KeysInv, HandlerOK
<1>3. HandlerOK(h)'
  BY <1>2, HandlerOn
<1>4. QED
  BY <1>1, <1>3, Shift

LEMMA SetHandlers ==
    ASSUME Types, KeysInv, Evolves, TablesOK', NEW j \in Jobs, NEW r, HandlerOK(r)', Set(j, r)
    PROVE  \A i \in Jobs : HandlerOK(job[i])'
<1> SUFFICES ASSUME NEW i \in Jobs
             PROVE  HandlerOK(job[i])'
  OBVIOUS
<1>1. CASE i = j
  <2>1. job'[i] = r
    BY <1>1 DEF Set, Types, Course
  <2>2. QED
    BY <2>1, Shift
<1>2. CASE i # j
  <2>1. job'[i] = job[i]
    BY <1>2 DEF Set, Types, Course
  <2>2. QED
    BY <2>1, OtherOn
<1>3. QED
  BY <1>1, <1>2

LEMMA SetKeys ==
    ASSUME Types, KeysInv, Evolves, TablesOK', session' = session, NEW j \in Jobs, NEW r,
           HandlerOK(r)', Set(j, r)
    PROVE  KeysInv'
<1>1. SessionsOK'
  BY SessionOn DEF SessionsOK
<1>2. QED
  BY <1>1, SetHandlers DEF KeysInv

\* No handler moves, no session changes.
LEMMA StayKeys ==
    ASSUME Types, KeysInv, Evolves, TablesOK', session' = session, job' = job
    PROVE  KeysInv'
  BY SessionOn, OtherOn DEF KeysInv, SessionsOK

LEMMA IdleKeys ==
    ASSUME NEW r, r = Idle
    PROVE  HandlerOK(r) /\ HandlerOK(r)'
  BY DEF Idle, HandlerOK

LEMMA EndKeys ==
    ASSUME Types, KeysInv, Evolves, TablesOK', session' = session, NEW j \in Jobs, End(j)
    PROVE  KeysInv'
<1>1. PICK r : r = Idle
  OBVIOUS
<1>2. QED
  BY <1>1, IdleKeys, SetKeys DEF End

\* No key moves: neither the tables nor the sessions change.
LEMMA QuietKeys ==
    ASSUME Types, KeysInv, UNCHANGED <<account, keyed, slots, rows, used, session>>,
           NEW j \in Jobs, NEW r, HandlerOK(r), Set(j, r) \/ End(j)
    PROVE  KeysInv'
<1>1. Evolves /\ TablesOK'
  BY Still DEF KeysInv
<1>2. HandlerOK(r)'
  BY DEF HandlerOK, Carries, Senior, Live, SlotsOf, Standing, account
<1>3. QED
  BY <1>1, <1>2, SetKeys, EndKeys

LEMMA SlotsCarried ==
    ASSUME Types, TablesOK, NEW a \in Admins
    PROVE  Carries(SlotsOf(a), a)
  BY DEF Types, TypeOK, TablesOK, Carries, SlotsOf, Standing

LEMMA UnlockKeys ==
    ASSUME Types, KeysInv, NEW j \in Jobs, NEW a \in Admins, Unlock(j, a)
    PROVE  KeysInv'
<1>1. PICK r : r = [[Idle EXCEPT !.step = "ensure", !.got = SlotsOf(a), !.todo = SlotsOf(a)]
                     EXCEPT !.kind = "unlock", !.who = a]
  OBVIOUS
<1>2. r.kind = "unlock" /\ r.who = a /\ r.step = "ensure" /\ r.got = SlotsOf(a)
  BY <1>1 DEF Idle
<1>3. role[a] # "none"
  BY DEF Unlock, Start, Live, Roles
<1>4. HandlerOK(r)
  BY <1>2, <1>3, SlotsCarried DEF KeysInv, HandlerOK
<1>5. Set(j, r)
  BY <1>1 DEF Unlock, Start
<1>6. QED
  BY <1>4, <1>5, QuietKeys DEF Unlock, material, editorial, memory

LEMMA EnsureReadKeyKeys ==
    ASSUME Types, KeysInv, NEW j \in Jobs, NEW o \in Owners, EnsureReadKey(j, o)
    PROVE  KeysInv'
<1>1. job[j] \in Handler /\ InCourse(job[j]) /\ HandlerOK(job[j]) /\ job[j].step = "ensure" /\ o \in job[j].todo
  BY DEF Types, Course, KeysInv, EnsureReadKey, At
<1>2. UNCHANGED <<account, keyed, slots, rows, used, session>>
  BY DEF EnsureReadKey, material, editorial, memory
<1>3. CASE End(j)
  BY <1>1, <1>2, <1>3, QuietKeys
<1>4. CASE Set(j, [job[j] EXCEPT !.todo = @ \ {o}])
  <2>1. PICK r : r = [job[j] EXCEPT !.todo = @ \ {o}]
    OBVIOUS
  <2>2. r.kind = job[j].kind /\ r.step = "ensure" /\ r.who = job[j].who /\ r.got = job[j].got
        /\ r.own = job[j].own /\ r.whom = job[j].whom
    BY <1>1, <2>1 DEF Handler
  <2>3. HandlerOK(r)
    BY <1>1, <2>2, Places DEF HandlerOK
  <2>4. QED
    BY <1>2, <1>4, <2>1, <2>3, QuietKeys
<1>5. CASE Set(j, [job[j] EXCEPT !.step = "generate", !.own = o])
  <2>1. PICK r : r = [job[j] EXCEPT !.step = "generate", !.own = o]
    OBVIOUS
  <2>2. r.kind = job[j].kind /\ r.step = "generate" /\ r.who = job[j].who /\ r.got = job[j].got
        /\ r.own = o /\ r.whom = job[j].whom
    BY <1>1, <2>1 DEF Handler
  <2>3. r.kind = "editorial" => r.own = job[j].own
    BY <1>1, <2>2 DEF InCourse
  <2>4. HandlerOK(r)
    BY <1>1, <2>2, <2>3, Places DEF HandlerOK
  <2>5. QED
    BY <1>2, <1>5, <2>1, <2>4, QuietKeys
<1>6. QED
  BY <1>3, <1>4, <1>5 DEF EnsureReadKey

LEMMA WriteReadKeyKeys ==
    ASSUME Types, KeysInv, NEW j \in Jobs, WriteReadKey(j)
    PROVE  KeysInv'
<1>1. job[j] \in Handler /\ InCourse(job[j]) /\ HandlerOK(job[j]) /\ job[j].step = "generate"
  BY DEF Types, Course, KeysInv, WriteReadKey, At
<1>2. PICK r : r = [job[j] EXCEPT !.step = "ensure", !.todo = @ \ {job[j].own}]
  OBVIOUS
<1>3. r.kind = job[j].kind /\ r.step = "ensure" /\ r.who = job[j].who /\ r.got = job[j].got
      /\ r.own = job[j].own /\ r.whom = job[j].whom
  BY <1>1, <1>2 DEF Handler
<1>4. HandlerOK(r)
  BY <1>1, <1>3, Places DEF HandlerOK
<1>5. UNCHANGED <<account, keyed, slots, rows, used, session>>
  BY DEF WriteReadKey, editorial, memory
<1>6. Set(j, r) \/ End(j)
  BY <1>2 DEF WriteReadKey
<1>7. QED
  BY <1>4, <1>5, <1>6, QuietKeys

LEMMA EnrollKeys ==
    ASSUME Types, KeysInv, NEW j \in Jobs, NEW a \in Admins, Enroll(j, a)
    PROVE  KeysInv'
<1>1. PICK r : r = [[Idle EXCEPT !.step = "enroll", !.whom = a] EXCEPT !.kind = "enroll", !.who = a]
  OBVIOUS
<1>2. r.kind = "enroll" /\ r.who = a /\ r.whom = a /\ r.step = "enroll"
  BY <1>1 DEF Idle
<1>3. role[a] # "none"
  BY DEF Enroll, Start, Live, Roles
<1>4. HandlerOK(r)
  BY <1>2, <1>3 DEF HandlerOK
<1>5. Set(j, r)
  BY <1>1 DEF Enroll, Start
<1>6. QED
  BY <1>4, <1>5, QuietKeys DEF Enroll, material, editorial, memory

LEMMA EnrollSystemKeys ==
    ASSUME Types, KeysInv, NEW j \in Jobs, EnrollSystem(j)
    PROVE  KeysInv'
<1> DEFINE s == IF System \in keyed THEN "unlock" ELSE "provision"
<1>1. job[j] \in Handler /\ InCourse(job[j]) /\ HandlerOK(job[j]) /\ job[j].step = "system"
  BY DEF Types, Course, KeysInv, EnrollSystem, At
<1>2. job[j].kind = "enroll" /\ Senior(job[j].who) /\ s \in {"unlock", "provision"}
  BY <1>1, Places DEF HandlerOK
<1>3. PICK r : r = [job[j] EXCEPT !.step = s]
  OBVIOUS
<1> HIDE DEF s
<1>4. r.kind = "enroll" /\ r.step = s /\ r.who = job[j].who
  BY <1>1, <1>2, <1>3 DEF Handler
<1>5. HandlerOK(r)
  BY <1>1, <1>2, <1>4 DEF HandlerOK
<1>6. Set(j, r)
  BY <1>3 DEF EnrollSystem, Go, s
<1>7. QED
  BY <1>5, <1>6, QuietKeys DEF EnrollSystem, material, editorial, memory

LEMMA EnrollUnlockKeys ==
    ASSUME Types, KeysInv, NEW j \in Jobs, EnrollUnlock(j)
    PROVE  KeysInv'
<1> DEFINE a == job[j].who
<1>1. a \in Admins /\ role[a] # "none"
  BY DEF Types, Course, InCourse, KeysInv, HandlerOK, EnrollUnlock
<1>2. PICK r : r = [Idle EXCEPT !.kind = "unlock", !.who = a, !.step = "ensure",
                                !.got = SlotsOf(a), !.todo = SlotsOf(a)]
  OBVIOUS
<1>3. r.kind = "unlock" /\ r.who = a /\ r.step = "ensure" /\ r.got = SlotsOf(a)
  BY <1>2 DEF Idle
<1>4. HandlerOK(r)
  BY <1>1, <1>3, SlotsCarried DEF KeysInv, HandlerOK
<1>5. Set(j, r) \/ End(j)
  BY <1>2 DEF EnrollUnlock
<1>6. QED
  BY <1>4, <1>5, QuietKeys DEF EnrollUnlock, material, editorial, memory

LEMMA CreateAdminKeys ==
    ASSUME Types, KeysInv, NEW j \in Jobs, NEW a \in Admins, NEW b \in Admins, NEW role0,
           NEW e, CreateAdmin(j, a, b, role0, e)
    PROVE  KeysInv'
<1>1. PICK r : r = [[Idle EXCEPT !.step = "commit", !.whom = b, !.tok = session[a].tok,
                                 !.own = IF role0 = "ADMIN" THEN NoOne ELSE e]
                     EXCEPT !.kind = "admin", !.who = a]
  OBVIOUS
<1>2. r.kind = "admin" /\ r.who = a /\ r.step = "commit"
  BY <1>1 DEF Idle
<1>3. role[a] # "none"
  BY DEF CreateAdmin
<1>4. HandlerOK(r)
  BY <1>2, <1>3 DEF HandlerOK
<1>5. Set(j, r)
  BY <1>1 DEF CreateAdmin, Start
<1>6. QED
  BY <1>4, <1>5, QuietKeys DEF CreateAdmin, material, editorial, memory

LEMMA ListEditorialsKeys ==
    ASSUME Types, KeysInv, NEW j \in Jobs, ListEditorials(j)
    PROVE  KeysInv'
<1>1. job[j] \in Handler /\ InCourse(job[j]) /\ HandlerOK(job[j]) /\ job[j].step = "list"
  BY DEF Types, Course, KeysInv, ListEditorials, At
<1>2. job[j].kind = "admin" /\ Senior(job[j].whom)
  BY <1>1, Places DEF HandlerOK
<1>3. PICK r : r = [job[j] EXCEPT !.step = "grants", !.todo = rows]
  OBVIOUS
<1>4. r.kind = "admin" /\ r.step = "grants" /\ r.who = job[j].who /\ r.whom = job[j].whom
  BY <1>1, <1>2, <1>3 DEF Handler
<1>5. HandlerOK(r)
  BY <1>1, <1>2, <1>4 DEF HandlerOK, Senior
<1>6. QED
  BY <1>3, <1>5, QuietKeys DEF ListEditorials, material, editorial, memory

LEMMA ClaimKeys ==
    ASSUME Types, KeysInv, NEW j \in Jobs, NEW a \in Admins, NEW o, Claim(j, a, o)
    PROVE  KeysInv'
<1>1. PICK r : r = [[Idle EXCEPT !.step = "claim", !.own = o] EXCEPT !.kind = "claim", !.who = a]
  OBVIOUS
<1>2. r.kind = "claim" /\ r.who = a /\ r.step = "claim"
  BY <1>1 DEF Idle
<1>3. role[a] = "ADMIN"
  BY DEF Claim
<1>4. HandlerOK(r)
  BY <1>2, <1>3 DEF HandlerOK, Senior
<1>5. Set(j, r)
  BY <1>1 DEF Claim, Start
<1>6. QED
  BY <1>4, <1>5, QuietKeys DEF Claim, material, editorial, memory

LEMMA RemoveAdminKeys ==
    ASSUME Types, KeysInv, NEW j \in Jobs, NEW a \in Admins, NEW b \in Admins, RemoveAdmin(j, a, b)
    PROVE  KeysInv'
<1>1. PICK r : r = [[Idle EXCEPT !.step = "delete", !.whom = b] EXCEPT !.kind = "remove", !.who = a]
  OBVIOUS
<1>2. r.kind = "remove" /\ r.who = a /\ r.step = "delete"
  BY <1>1 DEF Idle
<1>3. role[a] # "none"
  BY DEF RemoveAdmin
<1>4. HandlerOK(r)
  BY <1>2, <1>3 DEF HandlerOK
<1>5. Set(j, r)
  BY <1>1 DEF RemoveAdmin, Start
<1>6. QED
  BY <1>4, <1>5, QuietKeys DEF RemoveAdmin, material, editorial, memory

LEMMA RecoverySlotsKeys ==
    ASSUME Types, KeysInv, NEW j \in Jobs, NEW a \in Admins, NEW e, NEW b, NEW c, RecoverySlots(j, a, e, b, c)
    PROVE  KeysInv'
<1>1. PICK r : r = [[Idle EXCEPT !.step = "authority", !.own = e, !.pair = <<<<b, 1>>, <<c, 2>>>>]
                     EXCEPT !.kind = "recovery", !.who = a]
  OBVIOUS
<1>2. r.kind = "recovery" /\ r.who = a /\ r.step = "authority"
  BY <1>1 DEF Idle
<1>3. role[a] # "none"
  BY DEF RecoverySlots
<1>4. HandlerOK(r)
  BY <1>2, <1>3 DEF HandlerOK
<1>5. Set(j, r)
  BY <1>1 DEF RecoverySlots, Start
<1>6. QED
  BY <1>4, <1>5, QuietKeys DEF RecoverySlots, material, editorial, memory

LEMMA SealKeys ==
    ASSUME Types, KeysInv, NEW j \in Jobs, NEW a \in Admins, NEW o, Seal(j, a, o)
    PROVE  KeysInv'
<1>1. PICK r : r = [[Idle EXCEPT !.step = "seal", !.own = o, !.tok = pub[o]] EXCEPT !.kind = "seal", !.who = a]
  OBVIOUS
<1>2. r.kind = "seal" /\ r.who = a /\ r.step = "seal"
  BY <1>1 DEF Idle
<1>3. role[a] # "none"
  BY DEF Seal, Start, Live, Roles
<1>4. HandlerOK(r)
  BY <1>2, <1>3 DEF HandlerOK
<1>5. Set(j, r)
  BY <1>1 DEF Seal, Start
<1>6. QED
  BY <1>4, <1>5, QuietKeys DEF Seal, material, editorial, memory

\* The recovery slots are written with no key in the tables moving.
LEMMA WrapReadKeys ==
    ASSUME Types, KeysInv, NEW j \in Jobs, WrapRead(j)
    PROVE  KeysInv'
<1>1. job[j] \in Handler /\ InCourse(job[j]) /\ HandlerOK(job[j]) /\ job[j].step = "wrap"
  BY DEF Types, Course, KeysInv, WrapRead, At
<1>2. CASE End(j)
  BY <1>1, <1>2, QuietKeys DEF WrapRead, material, editorial, memory
<1>3. ASSUME NEW x, NEW y, Set(j, [job[j] EXCEPT !.step = "wrap1", !.pair = <<x, y>>])
      PROVE  KeysInv'
  <2>1. PICK r : r = [job[j] EXCEPT !.step = "wrap1", !.pair = <<x, y>>]
    OBVIOUS
  <2>2. r.kind = job[j].kind /\ r.step = "wrap1" /\ r.who = job[j].who /\ r.own = job[j].own
    BY <1>1, <2>1 DEF Handler
  <2>3. HandlerOK(r)
    BY <1>1, <2>2, Places DEF HandlerOK
  <2>4. QED
    BY <1>3, <2>1, <2>3, QuietKeys DEF WrapRead, material, editorial, memory
<1>4. QED
  BY <1>2, <1>3 DEF WrapRead

LEMMA WrapWriteKeys ==
    ASSUME Types, KeysInv, NEW j \in Jobs, NEW i \in 1..2, WrapWrite(j, i)
    PROVE  KeysInv'
<1>1. job[j] \in Handler /\ InCourse(job[j]) /\ HandlerOK(job[j]) /\ job[j].step \in {"wrap1", "wrap2"}
  BY DEF Types, Course, KeysInv, WrapWrite, At
<1>2. job[j].kind \in {"editorial", "recovery"}
  BY <1>1, Places
<1>3. PICK s \in {"wrap2", "data"} : Go(j, s) \/ End(j)
  BY DEF WrapWrite
<1>4. PICK r : r = [job[j] EXCEPT !.step = s]
  OBVIOUS
<1>5. r.kind = job[j].kind /\ r.step = s /\ r.who = job[j].who /\ r.own = job[j].own
  BY <1>1, <1>4 DEF Handler
<1>6. HandlerOK(r)
  BY <1>1, <1>2, <1>5 DEF HandlerOK
<1>7. QED
  BY <1>3, <1>4, <1>6, QuietKeys DEF WrapWrite, Go, material, editorial, memory

LEMMA CreateAuthorityKeys ==
    ASSUME Types, KeysInv, NEW j \in Jobs, CreateAuthority(j)
    PROVE  KeysInv'
<1>1. job[j] \in Handler /\ InCourse(job[j]) /\ HandlerOK(job[j]) /\ job[j].step = "authority"
  BY DEF Types, Course, KeysInv, CreateAuthority, At
<1>2. job[j].kind = "recovery"
  BY <1>1, Places
<1>a. PICK s \in {"wrap", "authority"} : \E p : Set(j, [job[j] EXCEPT !.step = s, !.pair = p])
  <2>1. CASE Set(j, [job[j] EXCEPT !.step = "wrap", !.pair = Idle.pair])
    BY <2>1
  <2>2. CASE Set(j, [job[j] EXCEPT !.pair = Tail(job[j].pair)])
    <3>1. [job[j] EXCEPT !.pair = Tail(job[j].pair)]
            = [job[j] EXCEPT !.step = "authority", !.pair = Tail(job[j].pair)]
      BY <1>1 DEF Handler
    <3>2. QED
      BY <2>2, <3>1
  <2>3. QED
    BY <2>1, <2>2 DEF CreateAuthority
<1>3. PICK p : Set(j, [job[j] EXCEPT !.step = s, !.pair = p])
  BY <1>a
<1>4. PICK r : r = [job[j] EXCEPT !.step = s, !.pair = p]
  OBVIOUS
<1>5. r.kind = "recovery" /\ r.step = s /\ r.who = job[j].who
  BY <1>1, <1>2, <1>4 DEF Handler
<1>6. HandlerOK(r)
  BY <1>1, <1>2, <1>5 DEF HandlerOK
<1>7. QED
  BY <1>3, <1>4, <1>6, QuietKeys DEF CreateAuthority, material, editorial, memory

LEMMA EndsKeys ==
    ASSUME Types, KeysInv, NEW j \in Jobs, GrantsDone(j) \/ WriteData(j) \/ SealWrite(j) \/ Throw(j)
    PROVE  KeysInv'
<1>1. PICK r : r = Idle
  OBVIOUS
<1>2. UNCHANGED <<account, keyed, slots, rows, used, session>> /\ End(j)
  BY DEF GrantsDone, WriteData, SealWrite, Throw, material, editorial, memory
<1>3. QED
  BY <1>1, <1>2, IdleKeys, QuietKeys

-----------------------------------------------------------------------------
(* The steps that move a key                                               *)

\* A slot written for an administrator with a key row: a system administrator,
\* or the one of the editorial.
LEMMA SlotWritten ==
    ASSUME Types, TablesOK, NEW o, NEW a \in Admins, WriteSlot(o, a),
           Senior(a) \/ o = home[a],
           UNCHANGED <<account, keyed, rows, used>>
    PROVE  Evolves /\ TablesOK'
<1>1. Evolves
  BY DEF Evolves, account, WriteSlot
<1>2. role[a] = "EDITORIAL_ADMIN" => o = home[a]
  BY DEF Senior
<1>3. \A b \in Admins : SlotsOf(b)' \subseteq SlotsOf(b) \cup IF b = a THEN {o} ELSE {}
  BY DEF SlotsOf, WriteSlot
<1>4. ASSUME NEW b \in Admins, role'[b] = "EDITORIAL_ADMIN"
      PROVE  SlotsOf(b)' \subseteq {home'[b]}
  BY <1>2, <1>3, <1>4 DEF TablesOK, account
<1>5. \A s \in slots' : s[1] \in keyed' /\ s[2] \in kek'
  BY DEF TablesOK, WriteSlot, account
<1>6. (\A b \in kek' : Live(b)') /\ keyed' \subseteq Standing'
  BY DEF TablesOK, Live, Standing, account
<1>7. QED
  BY <1>1, <1>4, <1>5, <1>6 DEF TablesOK

LEMMA EnrollAdminKeys ==
    ASSUME Types, KeysInv, NEW j \in Jobs, EnrollAdmin(j)
    PROVE  KeysInv'
<1> DEFINE a == job[j].whom
           s == CASE job[j].kind = "admin" -> FirstGrant(a)
                  [] job[j].kind = "enroll" /\ role[a] = "ADMIN" -> "system"
                  [] OTHER -> "unlock"
<1>1. job[j] \in Handler /\ InCourse(job[j]) /\ HandlerOK(job[j]) /\ job[j].step = "enroll" /\ a \in Admins
  BY DEF Types, Course, KeysInv, EnrollAdmin, At, InCourse
<1>2. Evolves /\ TablesOK'
  <2>1. Evolves
    BY DEF EnrollAdmin, Evolves, material, editorial
  <2>2. TablesOK'
    BY DEF EnrollAdmin, KeysInv, TablesOK, Live, SlotsOf, Standing, material, editorial
  <2>3. QED
    BY <2>1, <2>2
<1>3. session' = session
  BY DEF EnrollAdmin, memory
<1>4. CASE End(j)
  BY <1>2, <1>3, <1>4, EndKeys
<1>5. CASE Live(a) /\ Go(j, s)
  <2>1. PICK r : r = [job[j] EXCEPT !.step = s]
    OBVIOUS
  <2>2. CASE job[j].kind = "admin"
    <3>1. s = FirstGrant(a)
      BY <2>2
    <3>2. s \in {"grantSystem", "grants"} /\ (s = "grantSystem" => Senior(a))
      BY <3>1 DEF FirstGrant, Senior
    <3> HIDE DEF s
    <3>3. r.kind = "admin" /\ r.step = s /\ r.who = job[j].who /\ r.whom = a /\ r.todo = job[j].todo
      BY <1>1, <2>1, <2>2 DEF Handler
    <3>4. HandlerOK(r)
      BY <1>1, <1>5, <2>2, <3>2, <3>3 DEF HandlerOK
    <3>5. r \in Handler /\ InCourse(r)
      <4>1. r \in Handler
        BY <1>1, <2>1, <3>2, GoHandler DEF Steps
      <4>2. r.own = job[j].own
        BY <1>1, <2>1 DEF Handler
      <4>3. QED
        BY <1>1, <2>2, <3>2, <3>3, <4>1, <4>2 DEF InCourse
    <3>6. HandlerOK(r)'
      BY <1>2, <3>4, <3>5, HandlerOn
    <3>7. QED
      BY <1>2, <1>3, <1>5, <2>1, <3>6, SetKeys DEF Go
  <2>3. CASE job[j].kind = "enroll"
    <3>1. s \in {"system", "unlock"} /\ (s = "system" => Senior(a))
      BY <2>3 DEF Senior
    <3> HIDE DEF s
    <3>2. a = job[j].who
      BY <1>1, <2>3 DEF HandlerOK
    <3>3. r.kind = "enroll" /\ r.step = s /\ r.who = job[j].who
      BY <1>1, <2>1, <2>3 DEF Handler
    <3>4. HandlerOK(r)
      BY <1>1, <2>3, <3>1, <3>2, <3>3 DEF HandlerOK
    <3>5. r \in Handler /\ InCourse(r)
      <4>1. r \in Handler
        BY <1>1, <2>1, <3>1, GoHandler DEF Steps
      <4>2. QED
        BY <1>1, <2>3, <3>1, <3>3, <4>1 DEF InCourse
    <3>6. HandlerOK(r)'
      BY <1>2, <3>4, <3>5, HandlerOn
    <3>7. QED
      BY <1>2, <1>3, <1>5, <2>1, <3>6, SetKeys DEF Go
  <2>4. QED
    BY <1>1, <2>2, <2>3, Places
<1>6. QED
  BY <1>4, <1>5 DEF EnrollAdmin

LEMMA ProvisionSystemKeys ==
    ASSUME Types, KeysInv, NEW j \in Jobs, ProvisionSystem(j)
    PROVE  KeysInv'
<1> DEFINE a == job[j].who
<1>1. job[j] \in Handler /\ InCourse(job[j]) /\ HandlerOK(job[j]) /\ job[j].step = "provision"
  BY DEF Types, Course, KeysInv, ProvisionSystem, At
<1>2. job[j].kind = "enroll" /\ a \in Admins /\ Senior(a)
  BY <1>1, Places DEF InCourse, HandlerOK
<1>3. CASE End(j) /\ UNCHANGED <<keyed, slots>>
  <2>1. Evolves /\ TablesOK'
    BY <1>3, Still DEF ProvisionSystem, KeysInv, editorial
  <2>2. QED
    BY <1>3, <2>1, EndKeys DEF ProvisionSystem, memory
<1>4. CASE /\ System \notin keyed /\ a \in kek
           /\ keyed' = keyed \cup {System} /\ slots' = slots \cup {<<System, a>>}
           /\ Set(j, [job[j] EXCEPT !.step = "ensure", !.todo = {System}])
  <2>1. UNCHANGED <<role, home, kek, rows, used, session>>
    BY DEF ProvisionSystem, account, editorial, memory
  <2>2. Evolves
    BY <1>4, <2>1 DEF Evolves
  <2>3. TablesOK'
    <3>1. (\A b \in kek' : Live(b)') /\ keyed' \subseteq Standing'
      BY <1>4, <2>1 DEF KeysInv, TablesOK, Live, Standing
    <3>2. \A s \in slots' : s[1] \in keyed' /\ s[2] \in kek'
      BY <1>4, <2>1 DEF KeysInv, TablesOK
    <3>3. role[a] = "ADMIN"
      BY <1>2, <1>4 DEF KeysInv, TablesOK, Live, Roles, Senior
    <3>4. \A b \in Admins : b # a => SlotsOf(b)' = SlotsOf(b)
      BY <1>4 DEF SlotsOf
    <3>5. QED
      BY <2>1, <3>1, <3>2, <3>3, <3>4 DEF KeysInv, TablesOK
  <2>4. PICK r : r = [job[j] EXCEPT !.step = "ensure", !.todo = {System}]
    OBVIOUS
  <2>5. r.kind = "enroll" /\ r.step = "ensure" /\ r.who = a
    BY <1>1, <1>2, <2>4 DEF Handler
  <2>6. HandlerOK(r)'
    BY <1>1, <1>2, <2>1, <2>5 DEF HandlerOK
  <2>7. QED
    BY <1>4, <2>1, <2>2, <2>3, <2>4, <2>6, SetKeys
<1>5. QED
  BY <1>3, <1>4 DEF ProvisionSystem

LEMMA CommitAdminKeys ==
    ASSUME Types, KeysInv, NEW j \in Jobs, CommitAdmin(j)
    PROVE  KeysInv'
<1> DEFINE b == job[j].whom
           e == job[j].own
<1>1. job[j] \in Handler /\ InCourse(job[j]) /\ HandlerOK(job[j]) /\ job[j].step = "commit"
  BY DEF Types, Course, KeysInv, CommitAdmin, At
<1>2. job[j].kind = "admin" /\ b \in Admins /\ job[j].who \in Admins /\ role[job[j].who] # "none"
  BY <1>1, Places DEF InCourse, HandlerOK
<1>3. CASE End(j) /\ UNCHANGED <<role, home>>
  <2>1. Evolves /\ TablesOK'
    BY <1>3, Still DEF CommitAdmin, KeysInv, material, editorial, account
  <2>2. QED
    BY <1>3, <2>1, EndKeys DEF CommitAdmin, memory
<1>4. CASE /\ role[b] = "none" /\ e \in rows \cup {NoOne}
           /\ role' = [role EXCEPT ![b] = IF e = NoOne THEN "ADMIN" ELSE "EDITORIAL_ADMIN"]
           /\ home' = [home EXCEPT ![b] = e]
           /\ Set(j, [job[j] EXCEPT !.step = "enroll", !.todo = {e} \ {NoOne}])
  <2>1. UNCHANGED <<kek, keyed, slots, rows, used, session>>
    BY DEF CommitAdmin, material, editorial, memory
  <2>2. \A a \in Admins : a # b => role'[a] = role[a] /\ home'[a] = home[a]
    BY <1>4 DEF Types, TypeOK
  <2>3. role'[b] = (IF e = NoOne THEN "ADMIN" ELSE "EDITORIAL_ADMIN") /\ home'[b] = e
    BY <1>2, <1>4 DEF Types, TypeOK
  <2>4. Evolves
    BY <1>4, <2>1, <2>2, <2>3 DEF Evolves
  <2>5. SlotsOf(b) = {}
    BY <1>4 DEF KeysInv, TablesOK, SlotsOf, Live, Roles
  <2>6. TablesOK'
    <3>1. \A a \in kek' : Live(a)'
      BY <1>4, <2>1, <2>2, <2>3 DEF KeysInv, TablesOK, Live, Roles, Types, TypeOK
    <3>2. \A a \in Admins : role'[a] = "EDITORIAL_ADMIN" => SlotsOf(a)' \subseteq {home'[a]}
      BY <2>1, <2>2, <2>5 DEF KeysInv, TablesOK, SlotsOf
    <3>3. QED
      BY <2>1, <3>1, <3>2 DEF KeysInv, TablesOK, Standing
  <2>7. PICK r : r = [job[j] EXCEPT !.step = "enroll", !.todo = {e} \ {NoOne}]
    OBVIOUS
  <2>8. r.kind = "admin" /\ r.step = "enroll" /\ r.who = job[j].who /\ r.whom = b /\ r.todo = {e} \ {NoOne}
    BY <1>1, <1>2, <2>7 DEF Handler
  <2>9. r.todo \subseteq used' /\ r.todo \subseteq {home'[b]}
    BY <1>4, <2>1, <2>3, <2>8 DEF Types, TypeOK
  <2>10. role'[b] # "none" /\ role'[job[j].who] # "none"
    BY <1>2, <2>2, <2>3
  <2>11. HandlerOK(r)'
    BY <2>8, <2>9, <2>10 DEF HandlerOK
  <2>12. QED
    BY <1>4, <2>1, <2>4, <2>6, <2>7, <2>11, SetKeys
<1>5. QED
  BY <1>3, <1>4 DEF CommitAdmin

LEMMA GrantSystemKeys ==
    ASSUME Types, KeysInv, NEW j \in Jobs, GrantSystem(j)
    PROVE  KeysInv'
<1>1. job[j] \in Handler /\ InCourse(job[j]) /\ HandlerOK(job[j]) /\ job[j].step = "grantSystem"
  BY DEF Types, Course, KeysInv, GrantSystem, At
<1>2. job[j].kind = "admin" /\ job[j].whom \in Admins /\ Senior(job[j].whom)
  BY <1>1, Places DEF InCourse, HandlerOK
<1>3. UNCHANGED <<account, keyed, rows, used, session>>
  BY DEF GrantSystem, editorial, memory
<1>4. CASE End(j) /\ UNCHANGED slots
  BY <1>3, <1>4, Still, EndKeys DEF KeysInv
<1>5. CASE WriteSlot(System, job[j].whom) /\ Go(j, "list")
  <2>1. Evolves /\ TablesOK'
    BY <1>2, <1>3, <1>5, SlotWritten DEF KeysInv
  <2>2. PICK r : r = [job[j] EXCEPT !.step = "list"]
    OBVIOUS
  <2>3. r.kind = "admin" /\ r.step = "list" /\ r.who = job[j].who /\ r.whom = job[j].whom
    BY <1>1, <1>2, <2>2 DEF Handler
  <2>4. HandlerOK(r)'
    BY <1>1, <1>2, <1>3, <2>3 DEF HandlerOK, Senior, account
  <2>5. QED
    BY <1>3, <1>5, <2>1, <2>2, <2>4, SetKeys DEF Go
<1>6. QED
  BY <1>4, <1>5 DEF GrantSystem

LEMMA GrantEditorialKeys ==
    ASSUME Types, KeysInv, NEW j \in Jobs, NEW o \in Owners, GrantEditorial(j, o)
    PROVE  KeysInv'
<1>1. job[j] \in Handler /\ InCourse(job[j]) /\ HandlerOK(job[j]) /\ job[j].step = "grants" /\ o \in job[j].todo
  BY DEF Types, Course, KeysInv, GrantEditorial, At
<1>2. job[j].kind = "admin" /\ job[j].whom \in Admins
  BY <1>1, Places DEF InCourse
<1>3. UNCHANGED <<account, keyed, rows, used, session>>
  BY DEF GrantEditorial, editorial, memory
<1>4. CASE End(j) /\ UNCHANGED slots
  BY <1>3, <1>4, Still, EndKeys DEF KeysInv
<1>5. CASE WriteSlot(o, job[j].whom) /\ Set(j, [job[j] EXCEPT !.todo = @ \ {o}])
  <2>1. o \in rows \cup {System}
    BY <1>5 DEF WriteSlot, KeysInv, TablesOK, Standing
  <2>2. Senior(job[j].whom) \/ o = home[job[j].whom]
    BY <1>1, <1>2, <2>1, OwnerAssumption DEF HandlerOK, Types, TypeOK
  <2>3. Evolves /\ TablesOK'
    BY <1>2, <1>3, <1>5, <2>2, SlotWritten DEF KeysInv
  <2>4. PICK r : r = [job[j] EXCEPT !.todo = @ \ {o}]
    OBVIOUS
  <2>5. r.kind = "admin" /\ r.step = "grants" /\ r.who = job[j].who /\ r.whom = job[j].whom
        /\ r.todo \subseteq job[j].todo
    BY <1>1, <1>2, <2>4 DEF Handler
  <2>6. HandlerOK(r)'
    BY <1>1, <1>2, <1>3, <2>5 DEF HandlerOK, Senior, account
  <2>7. QED
    BY <1>3, <1>5, <2>3, <2>4, <2>6, SetKeys
<1>6. QED
  BY <1>4, <1>5 DEF GrantEditorial

LEMMA ClaimWriteKeys ==
    ASSUME Types, KeysInv, NEW j \in Jobs, ClaimWrite(j)
    PROVE  KeysInv'
<1>1. job[j] \in Handler /\ InCourse(job[j]) /\ HandlerOK(job[j]) /\ job[j].step = "claim"
  BY DEF Types, Course, KeysInv, ClaimWrite, At
<1>2. job[j].who \in Admins /\ Senior(job[j].who)
  BY <1>1, Places DEF InCourse, HandlerOK
<1>3. UNCHANGED <<account, keyed, rows, used, session>>
  BY DEF ClaimWrite, editorial, memory
<1>4. Evolves /\ TablesOK'
  BY <1>2, <1>3, SlotWritten DEF ClaimWrite, KeysInv
<1>5. QED
  BY <1>3, <1>4, EndKeys DEF ClaimWrite

LEMMA DeleteAdminKeys ==
    ASSUME Types, KeysInv, NEW j \in Jobs, DeleteAdmin(j)
    PROVE  KeysInv'
<1> DEFINE b == job[j].whom
<1>1. UNCHANGED <<home, keyed, rows, used, session>>
  BY DEF DeleteAdmin, editorial, memory
<1>2. /\ role' = [role EXCEPT ![b] = "gone"] /\ kek' = kek \ {b}
      /\ slots' = {s \in slots : s[2] # b} /\ Live(b) /\ End(j)
  BY DEF DeleteAdmin
<1>3. \A a \in Admins : role'[a] = IF a = b THEN "gone" ELSE role[a]
  BY <1>2 DEF Types, TypeOK
<1>4. Evolves
  <2>1. \A s \in slots : s[2] \in Admins
    BY DEF Types, TypeOK
  <2>2. \A s \in slots : role'[s[2]] \in Roles => s \in slots'
    BY <1>2, <1>3, <2>1 DEF Roles
  <2>3. QED
    BY <1>1, <1>2, <1>3, <2>2 DEF Evolves, Live, Roles
<1>5. TablesOK'
  <2>1. \A a \in kek' : Live(a)'
    BY <1>2, <1>3 DEF KeysInv, TablesOK, Live, Types, TypeOK
  <2>2. \A s \in slots' : s[1] \in keyed' /\ s[2] \in kek'
    BY <1>1, <1>2 DEF KeysInv, TablesOK
  <2>3. \A a \in Admins : SlotsOf(a)' \subseteq SlotsOf(a)
    BY <1>2 DEF SlotsOf
  <2>4. QED
    BY <1>1, <1>3, <2>1, <2>2, <2>3 DEF KeysInv, TablesOK, Standing
<1>6. QED
  BY <1>1, <1>2, <1>4, <1>5, EndKeys

LEMMA CreateEditorialKeys ==
    ASSUME Types, KeysInv, NEW j \in Jobs, NEW a \in Admins, NEW e \in Editorials, CreateEditorial(j, a, e)
    PROVE  KeysInv'
<1>1. UNCHANGED <<account, keyed, slots, session>> /\ rows' = rows \cup {e} /\ used' = used \cup {e}
      /\ e \notin used /\ role[a] = "ADMIN"
  BY DEF CreateEditorial, material, memory
<1>2. Evolves
  <2>1. keyed \cap (rows' \cup {System}) \subseteq keyed'
    BY <1>1
  <2>2. QED
    BY <1>1, <2>1 DEF Evolves, account
<1>3. TablesOK'
  BY <1>1 DEF KeysInv, TablesOK, Live, SlotsOf, Standing, account
<1>4. PICK r : r = [[Idle EXCEPT !.step = "material", !.own = e, !.tok = session[a].tok]
                     EXCEPT !.kind = "editorial", !.who = a]
  OBVIOUS
<1>5. r.kind = "editorial" /\ r.step = "material" /\ r.who = a /\ r.own = e
  BY <1>4 DEF Idle
<1>6. HandlerOK(r)'
  BY <1>1, <1>5 DEF HandlerOK, Senior, account
<1>7. Set(j, r)
  BY <1>4 DEF CreateEditorial, Start
<1>8. QED
  BY <1>1, <1>2, <1>3, <1>6, <1>7, SetKeys

LEMMA ProvisionEditorialKeys ==
    ASSUME Types, KeysInv, NEW j \in Jobs, ProvisionEditorial(j)
    PROVE  KeysInv'
<1> DEFINE a == job[j].who
           e == job[j].own
<1>1. job[j] \in Handler /\ InCourse(job[j]) /\ HandlerOK(job[j]) /\ job[j].step = "material"
  BY DEF Types, Course, KeysInv, ProvisionEditorial, At
<1>2. job[j].kind = "editorial" /\ a \in Admins /\ Senior(a) /\ e \in used
  BY <1>1, Places DEF InCourse, HandlerOK
<1>3. /\ UNCHANGED <<role, home, kek, rows, used, session>> /\ e \in rows /\ a \in kek
      /\ keyed' = keyed \cup {e} /\ slots' = slots \cup {<<e, a>>}
  BY DEF ProvisionEditorial, account, editorial, memory
<1>4. Evolves
  BY <1>3 DEF Evolves
<1>5. TablesOK'
  <2>1. (\A b \in kek' : Live(b)') /\ keyed' \subseteq Standing'
    BY <1>3 DEF KeysInv, TablesOK, Live, Standing
  <2>2. \A s \in slots' : s[1] \in keyed' /\ s[2] \in kek'
    BY <1>3 DEF KeysInv, TablesOK
  <2>3. role[a] = "ADMIN"
    BY <1>2, <1>3 DEF KeysInv, TablesOK, Live, Roles, Senior
  <2>4. \A b \in Admins : b # a => SlotsOf(b)' = SlotsOf(b)
    BY <1>3 DEF SlotsOf
  <2>5. QED
    BY <1>3, <2>1, <2>2, <2>3, <2>4 DEF KeysInv, TablesOK
<1>6. PICK r : r = [job[j] EXCEPT !.step = "ensure", !.todo = {e}]
  OBVIOUS
<1>7. r.kind = "editorial" /\ r.step = "ensure" /\ r.who = a /\ r.own = e
  BY <1>1, <1>2, <1>6 DEF Handler
<1>8. HandlerOK(r)'
  BY <1>1, <1>2, <1>3, <1>7 DEF HandlerOK, Senior
<1>9. Set(j, r)
  BY <1>6 DEF ProvisionEditorial
<1>10. QED
  BY <1>3, <1>4, <1>5, <1>8, <1>9, SetKeys

LEMMA RemoveEditorialKeys ==
    ASSUME Types, KeysInv, NEW e \in Editorials, RemoveEditorial(e)
    PROVE  KeysInv'
<1>1. /\ UNCHANGED <<role, kek, used, session, job>> /\ rows' = rows \ {e} /\ keyed' = keyed \ {e}
      /\ slots' = {s \in slots : s[1] # e}
      /\ home' = [a \in Admins |-> IF home[a] = e THEN NoOne ELSE home[a]]
  BY DEF RemoveEditorial, memory
<1>2. Evolves
  BY <1>1, OwnerAssumption DEF Evolves
<1>3. TablesOK'
  <2>1. keyed' \subseteq Standing' /\ \A a \in kek' : Live(a)'
    BY <1>1, OwnerAssumption DEF KeysInv, TablesOK, Standing, Live
  <2>2. \A s \in slots' : s[1] \in keyed' /\ s[2] \in kek'
    BY <1>1 DEF KeysInv, TablesOK
  <2>3. \A a \in Admins : SlotsOf(a)' = SlotsOf(a) \ {e}
    BY <1>1 DEF SlotsOf
  <2>4. \A a \in Admins : role'[a] = "EDITORIAL_ADMIN" => SlotsOf(a)' \subseteq {home'[a]}
    BY <1>1, <2>3 DEF KeysInv, TablesOK
  <2>5. QED
    BY <2>1, <2>2, <2>4 DEF TablesOK
<1>4. QED
  BY <1>1, <1>2, <1>3, StayKeys

\* A session is opened with what the slots held when they were read.
LEMMA OpenSessionKeys ==
    ASSUME Types, KeysInv, NEW j \in Jobs, OpenSession(j)
    PROVE  KeysInv'
<1> DEFINE w == job[j].who
<1>1. job[j].kind = "unlock" /\ w \in Admins /\ role[w] # "none" /\ Carries(job[j].got, w)
  BY DEF Types, Course, InCourse, KeysInv, HandlerOK, OpenSession
<1>2. Evolves /\ TablesOK'
  BY Still DEF KeysInv, OpenSession, material, editorial
<1>3. PICK r : r = Idle
  OBVIOUS
<1>4. \A i \in Jobs : HandlerOK(job[i])'
  BY <1>2, <1>3, IdleKeys, SetHandlers DEF OpenSession, End
<1>5. session' = [session EXCEPT ![w] = [tok |-> ntok + 1, keys |-> job[j].got]]
  BY DEF OpenSession
<1>6. SessionsOK'
  <2> SUFFICES ASSUME NEW a \in Admins
               PROVE  Carries(session[a].keys, a)' /\ (role'[a] = "none" => session'[a].keys = {})
    BY DEF SessionsOK
  <2>1. CASE a = w
    <3>1. session'[a].keys = job[j].got
      BY <1>5, <2>1 DEF Types, TypeOK
    <3>2. role'[a] # "none"
      BY <1>1, <2>1 DEF OpenSession, account
    <3>3. PICK K : K = job[j].got
      OBVIOUS
    <3>4. Carries(K, a)'
      BY <1>1, <1>2, <2>1, <3>3, CarriesOn
    <3>5. Carries(session[a].keys, a)'
      BY <3>1, <3>3, <3>4 DEF Carries, Live, SlotsOf, Standing
    <3>6. QED
      BY <3>2, <3>5
  <2>2. CASE a # w
    <3>1. session'[a] = session[a]
      BY <1>5, <2>2 DEF Types, TypeOK
    <3>2. QED
      BY <1>2, <3>1, SessionOn
  <2>3. QED
    BY <2>1, <2>2
<1>7. QED
  BY <1>2, <1>4, <1>6 DEF KeysInv

\* A session dropped holds no key.
LEMMA Dropped ==
    ASSUME NEW a \in Admins, session'[a] = NoSession
    PROVE  Carries(session[a].keys, a)' /\ session'[a].keys = {}
<1>1. session'[a].keys = {}
  BY DEF NoSession
<1>2. QED
  BY <1>1 DEF Carries

LEMMA DropKeys ==
    ASSUME Types, KeysInv, NEW a \in Admins, Drop(a)
    PROVE  KeysInv'
<1>1. Evolves /\ TablesOK'
  BY Still DEF KeysInv, Drop, material, editorial
<1>2. \A i \in Jobs : HandlerOK(job[i])'
  BY <1>1, OtherOn DEF Drop
<1>3. ASSUME NEW b \in Admins
      PROVE  Carries(session[b].keys, b)' /\ (role'[b] = "none" => session'[b].keys = {})
  <2>1. session'[b] = IF b = a THEN NoSession ELSE session[b]
    BY DEF Drop, Types, TypeOK
  <2>2. QED
    BY <1>1, <2>1, SessionOn, Dropped
<1>4. QED
  BY <1>1, <1>2, <1>3 DEF KeysInv, SessionsOK

LEMMA RestartKeys ==
    ASSUME Types, KeysInv, Restart
    PROVE  KeysInv'
<1>1. Evolves /\ TablesOK'
  BY Still DEF KeysInv, Restart, material, editorial
<1>2. ASSUME NEW i \in Jobs
      PROVE  HandlerOK(job[i])'
  <2>1. PICK r : r = Idle
    OBVIOUS
  <2>2. job'[i] = r
    BY <2>1 DEF Restart
  <2>3. QED
    BY <2>1, <2>2, IdleKeys, Shift
<1>3. \A a \in Admins : session'[a] = NoSession
  BY DEF Restart
<1>4. QED
  BY <1>1, <1>2, <1>3, Dropped DEF KeysInv, SessionsOK

\* The key put into a session: its slot was written when the material was.
LEMMA PutKeyKeys ==
    ASSUME Types, KeysInv, NEW j \in Jobs, PutKey(j)
    PROVE  KeysInv'
<1> DEFINE w == job[j].who
           e == job[j].own
<1>1. job[j] \in Handler /\ InCourse(job[j]) /\ HandlerOK(job[j])
      /\ job[j].kind = "editorial" /\ job[j].step = "ensure"
  BY DEF Types, Course, KeysInv, PutKey, At
<1>2. w \in Admins /\ e \in Editorials /\ e \in used /\ role[w] # "none"
  BY <1>1 DEF InCourse, HandlerOK
<1>3. Evolves /\ TablesOK'
  BY Still DEF KeysInv, PutKey, material, editorial
<1>4. PICK r : r = [job[j] EXCEPT !.step = "wrap"]
  OBVIOUS
<1>5. r.kind = "editorial" /\ r.step = "wrap" /\ r.who = w /\ r.own = e
  BY <1>1, <1>4 DEF Handler
<1>6. HandlerOK(r)
  BY <1>1, <1>5 DEF HandlerOK
<1>7. HandlerOK(r)'
  BY <1>6 DEF HandlerOK, Carries, Senior, Live, SlotsOf, Standing, PutKey, account, material, editorial
<1>8. \A i \in Jobs : HandlerOK(job[i])'
  BY <1>3, <1>4, <1>7, SetHandlers DEF PutKey, Go
<1>9. SessionsOK'
  <2> SUFFICES ASSUME NEW a \in Admins
               PROVE  Carries(session[a].keys, a)' /\ (role'[a] = "none" => session'[a].keys = {})
    BY DEF SessionsOK
  <2>1. CASE session'[a] = session[a]
    BY <1>3, <2>1, SessionOn
  <2>2. CASE a = w /\ session'[a].keys = session[a].keys \cup {e}
    <3>1. PICK K : K = session[a].keys \cup {e}
      OBVIOUS
    <3>2. Carries(session[a].keys, a)
      BY DEF KeysInv, SessionsOK
    <3>3. e \in rows => e \in keyed /\ (Live(a) => <<e, a>> \in slots)
      BY <1>1, <2>2 DEF HandlerOK
    <3>4. e \in keyed => e \in rows
      BY <1>2, OwnerAssumption DEF KeysInv, TablesOK, Standing
    <3>5. Carries(K, a)
      BY <1>2, <3>1, <3>2, <3>3, <3>4, OwnerAssumption DEF Carries, Standing, SlotsOf, Owners
    <3>6. Carries(K, a)'
      BY <1>2, <1>3, <2>2, <3>5, CarriesOn
    <3>7. Carries(session[a].keys, a)'
      BY <2>2, <3>1, <3>6 DEF Carries, Live, SlotsOf, Standing
    <3>8. role'[a] # "none"
      BY <1>2, <2>2 DEF PutKey, account
    <3>9. QED
      BY <3>7, <3>8
  <2>3. QED
    BY <2>1, <2>2 DEF PutKey, Types, TypeOK
<1>10. QED
  BY <1>3, <1>8, <1>9 DEF KeysInv

LEMMA RequestKeys ==
    ASSUME Types, KeysInv, NEW j \in Jobs, NEW a \in Admins, Request(j, a)
    PROVE  KeysInv'
<1>1. CASE Unlock(j, a) \/ Enroll(j, a)
  BY <1>1, UnlockKeys, EnrollKeys
<1>2. ASSUME NEW b \in Admins, RemoveAdmin(j, a, b) \/ CreateAdmin(j, a, b, "ADMIN", NoOne)
      PROVE  KeysInv'
  BY <1>2, RemoveAdminKeys, CreateAdminKeys
<1>3. ASSUME NEW b \in Admins, NEW e \in Editorials,
             CreateAdmin(j, a, b, "EDITORIAL_ADMIN", e) \/ \E c \in Admins : RecoverySlots(j, a, e, b, c)
      PROVE  KeysInv'
  BY <1>3, CreateAdminKeys, RecoverySlotsKeys
<1>4. ASSUME NEW e \in Editorials, Claim(j, a, e) \/ CreateEditorial(j, a, e)
      PROVE  KeysInv'
  BY <1>4, ClaimKeys, CreateEditorialKeys
<1>5. ASSUME NEW o \in Owners, Seal(j, a, o)
      PROVE  KeysInv'
  BY <1>5, SealKeys
<1>6. QED
  BY <1>1, <1>2, <1>3, <1>4, <1>5 DEF Request

LEMMA StepKeys ==
    ASSUME Types, KeysInv, NEW j \in Jobs, Step(j)
    PROVE  KeysInv'
<1>1. ASSUME NEW o \in Owners, EnsureReadKey(j, o) \/ GrantEditorial(j, o)
      PROVE  KeysInv'
  BY <1>1, EnsureReadKeyKeys, GrantEditorialKeys
<1>2. CASE WriteReadKey(j) \/ OpenSession(j) \/ EnrollAdmin(j) \/ EnrollSystem(j) \/ ProvisionSystem(j) \/ EnrollUnlock(j)
  BY <1>2, WriteReadKeyKeys, OpenSessionKeys, EnrollAdminKeys, EnrollSystemKeys, ProvisionSystemKeys,
     EnrollUnlockKeys
<1>3. CASE CommitAdmin(j) \/ GrantSystem(j) \/ ListEditorials(j) \/ ClaimWrite(j) \/ DeleteAdmin(j)
  BY <1>3, CommitAdminKeys, GrantSystemKeys, ListEditorialsKeys, ClaimWriteKeys, DeleteAdminKeys
<1>4. CASE ProvisionEditorial(j) \/ PutKey(j) \/ WrapRead(j) \/ \E i \in 1..2 : WrapWrite(j, i)
  BY <1>4, ProvisionEditorialKeys, PutKeyKeys, WrapReadKeys, WrapWriteKeys
<1>5. CASE CreateAuthority(j)
  BY <1>5, CreateAuthorityKeys
<1>6. CASE GrantsDone(j) \/ WriteData(j) \/ SealWrite(j) \/ Throw(j)
  BY <1>6, EndsKeys
<1>7. QED
  BY <1>1, <1>2, <1>3, <1>4, <1>5, <1>6 DEF Step

LEMMA InitKeys == Init => KeysInv
<1> SUFFICES ASSUME Init PROVE KeysInv
  OBVIOUS
<1>1. \A a \in Admins : role[a] # "EDITORIAL_ADMIN"
  BY DEF Init
<1>2. Live(First)
  BY AdminAssumption DEF Init, Live, Roles
<1>3. keyed \subseteq {System} /\ \A s \in slots : s[1] \in keyed /\ s[2] \in kek
  BY DEF Init
<1>4. kek \subseteq {First}
  BY DEF Init
<1>5. TablesOK
  BY <1>1, <1>2, <1>3, <1>4 DEF TablesOK, Standing
<1>6. \A a \in Admins : session[a].keys = {}
  BY DEF Init, NoSession
<1>7. SessionsOK
  BY <1>6 DEF SessionsOK, Carries
<1>8. \A j \in Jobs : HandlerOK(job[j])
  BY IdleKeys DEF Init
<1>9. QED
  BY <1>5, <1>7, <1>8 DEF KeysInv

LEMMA NextKeys == Types /\ KeysInv /\ [Next]_vars => KeysInv'
<1> SUFFICES ASSUME Types, KeysInv, [Next]_vars PROVE KeysInv'
  OBVIOUS
<1>1. CASE \E j \in Jobs : Step(j) \/ \E a \in Admins : Request(j, a)
  BY <1>1, StepKeys, RequestKeys
<1>2. CASE \E a \in Admins : Drop(a)
  BY <1>2, DropKeys
<1>3. CASE \E e \in Editorials : RemoveEditorial(e)
  BY <1>3, RemoveEditorialKeys
<1>4. CASE Restart
  BY <1>4, RestartKeys
<1>5. CASE UNCHANGED vars
  BY <1>5, Still, StayKeys DEF vars, account, material, editorial, memory, KeysInv
<1>6. QED
  BY <1>1, <1>2, <1>3, <1>4, <1>5 DEF Next

LEMMA AllKeys == Spec => []KeysInv
  BY InitKeys, NextKeys, AllTypes, PTL DEF Spec

(* What a session holds in memory the slots hold too: whoever opened it,   *)
(* and whatever was granted, claimed, removed or put while handlers were   *)
(* under way (SessionMatchesSlots).                                        *)
THEOREM SessionsMatchSlots == Spec => []SessionMatchesSlots
<1>1. KeysInv => SessionMatchesSlots
  BY DEF KeysInv, SessionsOK, Carries, SessionMatchesSlots
<1>2. QED
  BY <1>1, AllKeys, PTL

(* An administrator of an editorial comes to no key but that editorial's,  *)
(* in a slot or in memory (EditorialAdminConfined).                        *)
THEOREM EditorialAdminsConfined == Spec => []EditorialAdminConfined
<1>1. KeysInv => EditorialAdminConfined
  <2> SUFFICES ASSUME KeysInv, NEW a \in Admins, role[a] = "EDITORIAL_ADMIN"
               PROVE  (SlotsOf(a) \cup session[a].keys) \cap keyed \subseteq {home[a]}
    BY DEF EditorialAdminConfined
  <2>1. session[a].keys \cap keyed \subseteq SlotsOf(a)
    BY DEF KeysInv, SessionsOK, Carries, Live, Roles
  <2>2. SlotsOf(a) \subseteq {home[a]}
    BY DEF KeysInv, TablesOK
  <2>3. QED
    BY <2>1, <2>2
<1>2. QED
  BY <1>1, AllKeys, PTL

-----------------------------------------------------------------------------
(* One request at a time                                                   *)

\* With no overlap so far, the handler that moves is the only one in flight.
Alone(j) == ~overlap' => ~overlap /\ \A i \in Jobs \ {j} : ~Busy(i)

\* Steps that neither read nor write what the next two invariants are about.
Plain(j) ==
  /\ \E r : Set(j, r) /\ r.step \notin {"generate", "seal", "wrap2", "data"}
  /\ UNCHANGED <<role, pub, seals, data, rslot>>

LEMMA StepAlone ==
    ASSUME Types, AloneInv, NEW j \in Jobs, Busy(j), overlap' = overlap
    PROVE  Alone(j)
  BY DEF AloneInv, Alone

LEMMA StartAlone ==
    ASSUME NEW j \in Jobs, NEW k, NEW a, NEW r, Start(j, k, a, r)
    PROVE  Alone(j)
  BY DEF Start, Alone

LEMMA MoveAlone ==
    ASSUME Types, AloneInv, NEW j \in Jobs, Alone(j), NEW r, Set(j, r),
           r.step = "seal" => r.tok # 0,
           \A s \in seals' : s[2] # 0,
           ~overlap' => AloneOK(r)' /\ \A s \in seals' : s[2] = pub'[s[1]]
    PROVE  AloneInv'
<1>1. job'[j] = r /\ \A i \in Jobs \ {j} : job'[i] = job[i]
  BY DEF Set, Types, Course
<1>2. \A i \in Jobs : job'[i].step = "seal" => job'[i].tok # 0
  BY <1>1 DEF AloneInv
<1>3. ASSUME ~overlap', NEW i \in Jobs, i # j
      PROVE  ~Busy(i)' /\ job'[i].kind = "idle" /\ job'[i].step = "none"
  BY <1>1, <1>3 DEF Alone, Busy, Types, Course, InCourse
<1>4. ASSUME ~overlap', NEW i \in Jobs
      PROVE  AloneOK(job[i])'
  BY <1>1, <1>3, <1>4 DEF AloneOK
<1>5. ~overlap' => \A i, k \in Jobs : Busy(i)' /\ Busy(k)' => i = k
  BY <1>3
<1>6. QED
  BY <1>2, <1>4, <1>5 DEF AloneInv

LEMMA PlainAlone ==
    ASSUME Types, AloneInv, NEW j \in Jobs, Alone(j), Plain(j)
    PROVE  AloneInv'
<1>1. PICK r : Set(j, r) /\ r.step \notin {"generate", "seal", "wrap2", "data"}
  BY DEF Plain
<1>2. AloneOK(r)'
  BY <1>1 DEF AloneOK
<1>3. ~overlap' => \A s \in seals' : s[2] = pub'[s[1]]
  BY DEF Alone, AloneInv, Plain
<1>4. \A s \in seals' : s[2] # 0
  BY DEF Plain, AloneInv
<1>5. QED
  BY <1>1, <1>2, <1>3, <1>4, MoveAlone

LEMMA EndPlain ==
    ASSUME NEW j \in Jobs, End(j), UNCHANGED <<role, pub, seals, data, rslot>>
    PROVE  Plain(j)
<1>1. PICK r : r = Idle
  OBVIOUS
<1>2. r.kind = "idle" /\ r.step = "none"
  BY <1>1 DEF Idle
<1>3. QED
  BY <1>1, <1>2 DEF End, Plain

LEMMA GoPlain ==
    ASSUME Types, NEW j \in Jobs, NEW r, Set(j, r), r.kind = job[j].kind, job[j].step # "delete",
           r.step \notin {"generate", "seal", "wrap2", "data"},
           UNCHANGED <<role, pub, seals, data, rslot>>
    PROVE  Plain(j)
BY DEF Plain

\* The requests that begin in this way ...
LEMMA PlainStart ==
    ASSUME Types, NEW j \in Jobs, NEW a, NEW b, NEW c, NEW e, NEW role0,
           \/ Unlock(j, a) \/ Enroll(j, a) \/ CreateAdmin(j, a, b, role0, e)
           \/ RecoverySlots(j, a, e, b, c) \/ Claim(j, a, e) \/ CreateEditorial(j, a, e)
    PROVE  Plain(j) /\ Alone(j)
<1>1. UNCHANGED <<role, pub, seals, data, rslot>>
  BY DEF Unlock, Enroll, CreateAdmin, RecoverySlots, Claim, CreateEditorial, account, material,
     editorial, recovery
<1>2. Alone(j)
  BY StartAlone DEF Unlock, Enroll, CreateAdmin, RecoverySlots, Claim, CreateEditorial
<1>3. CASE Unlock(j, a)
  <2>1. PICK r : r = [[Idle EXCEPT !.step = "ensure", !.got = SlotsOf(a), !.todo = SlotsOf(a)]
                       EXCEPT !.kind = "unlock", !.who = a]
    OBVIOUS
  <2>2. r.kind = "unlock" /\ r.step = "ensure"
    BY <2>1 DEF Idle
  <2>3. Set(j, r)
    BY <1>3, <2>1 DEF Unlock, Start
  <2>4. QED
    BY <1>1, <1>2, <2>2, <2>3 DEF Plain
<1>4. CASE Enroll(j, a)
  <2>1. PICK r : r = [[Idle EXCEPT !.step = "enroll", !.whom = a] EXCEPT !.kind = "enroll", !.who = a]
    OBVIOUS
  <2>2. r.kind = "enroll" /\ r.step = "enroll"
    BY <2>1 DEF Idle
  <2>3. Set(j, r)
    BY <1>4, <2>1 DEF Enroll, Start
  <2>4. QED
    BY <1>1, <1>2, <2>2, <2>3 DEF Plain
<1>5. CASE CreateAdmin(j, a, b, role0, e)
  <2>1. PICK r : r = [[Idle EXCEPT !.step = "commit", !.whom = b, !.tok = session[a].tok,
                                   !.own = IF role0 = "ADMIN" THEN NoOne ELSE e]
                       EXCEPT !.kind = "admin", !.who = a]
    OBVIOUS
  <2>2. r.kind = "admin" /\ r.step = "commit"
    BY <2>1 DEF Idle
  <2>3. Set(j, r)
    BY <1>5, <2>1 DEF CreateAdmin, Start
  <2>4. QED
    BY <1>1, <1>2, <2>2, <2>3 DEF Plain
<1>6. CASE RecoverySlots(j, a, e, b, c)
  <2>1. PICK r : r = [[Idle EXCEPT !.step = "authority", !.own = e, !.pair = <<<<b, 1>>, <<c, 2>>>>]
                       EXCEPT !.kind = "recovery", !.who = a]
    OBVIOUS
  <2>2. r.kind = "recovery" /\ r.step = "authority"
    BY <2>1 DEF Idle
  <2>3. Set(j, r)
    BY <1>6, <2>1 DEF RecoverySlots, Start
  <2>4. QED
    BY <1>1, <1>2, <2>2, <2>3 DEF Plain
<1>7. CASE Claim(j, a, e)
  <2>1. PICK r : r = [[Idle EXCEPT !.step = "claim", !.own = e] EXCEPT !.kind = "claim", !.who = a]
    OBVIOUS
  <2>2. r.kind = "claim" /\ r.step = "claim"
    BY <2>1 DEF Idle
  <2>3. Set(j, r)
    BY <1>7, <2>1 DEF Claim, Start
  <2>4. QED
    BY <1>1, <1>2, <2>2, <2>3 DEF Plain
<1>8. CASE CreateEditorial(j, a, e)
  <2>1. PICK r : r = [[Idle EXCEPT !.step = "material", !.own = e, !.tok = session[a].tok]
                       EXCEPT !.kind = "editorial", !.who = a]
    OBVIOUS
  <2>2. r.kind = "editorial" /\ r.step = "material"
    BY <2>1 DEF Idle
  <2>3. Set(j, r)
    BY <1>8, <2>1 DEF CreateEditorial, Start
  <2>4. QED
    BY <1>1, <1>2, <2>2, <2>3 DEF Plain
<1>9. QED
  BY <1>3, <1>4, <1>5, <1>6, <1>7, <1>8

\* ... and the steps that go on in this way.
LEMMA PlainStep ==
    ASSUME Types, NEW j \in Jobs, NEW o,
           \/ OpenSession(j) \/ EnrollAdmin(j) \/ EnrollSystem(j) \/ ProvisionSystem(j)
           \/ EnrollUnlock(j) \/ GrantSystem(j) \/ ListEditorials(j) \/ GrantEditorial(j, o)
           \/ GrantsDone(j) \/ ClaimWrite(j) \/ ProvisionEditorial(j) \/ PutKey(j)
           \/ WrapRead(j) \/ CreateAuthority(j) \/ Throw(j)
    PROVE  Plain(j) /\ Busy(j) /\ overlap' = overlap
<1>1. job[j] \in Handler /\ InCourse(job[j])
  BY DEF Types, Course
<1>2. UNCHANGED <<role, pub, seals, data, rslot, overlap>>
  BY DEF OpenSession, EnrollAdmin, EnrollSystem, ProvisionSystem, EnrollUnlock, GrantSystem,
     ListEditorials, GrantEditorial, GrantsDone, ClaimWrite, ProvisionEditorial, PutKey, WrapRead,
     CreateAuthority, Throw, account, material, editorial, recovery
<1>3. job[j].step # "none" \/ Busy(j)
  BY DEF OpenSession, EnrollAdmin, EnrollSystem, ProvisionSystem, EnrollUnlock, GrantSystem,
     ListEditorials, GrantEditorial, GrantsDone, ClaimWrite, ProvisionEditorial, PutKey, WrapRead,
     CreateAuthority, Throw, At
<1>4. Busy(j)
  BY <1>1, <1>3 DEF Busy, InCourse
<1>5. CASE End(j)
  BY <1>2, <1>4, <1>5, EndPlain
<1>6. CASE GrantsDone(j) \/ ClaimWrite(j) \/ Throw(j) \/ OpenSession(j)
  BY <1>5, <1>6 DEF GrantsDone, ClaimWrite, Throw, OpenSession
<1>7. CASE EnrollAdmin(j) \/ EnrollSystem(j) \/ GrantSystem(j) \/ PutKey(j)
  <2>1. PICK s \in {"system", "unlock", "provision", "grantSystem", "grants", "list", "wrap"} :
          job[j].step # "delete" /\ (Go(j, s) \/ End(j))
    <3>1. CASE EnrollAdmin(j)
      BY <3>1 DEF EnrollAdmin, FirstGrant, At
    <3>2. CASE EnrollSystem(j)
      BY <3>2 DEF EnrollSystem, At
    <3>3. CASE GrantSystem(j)
      BY <3>3 DEF GrantSystem, At
    <3>4. CASE PutKey(j)
      BY <3>4 DEF PutKey, At
    <3>5. QED
      BY <1>7, <3>1, <3>2, <3>3, <3>4
  <2>2. PICK r : r = [job[j] EXCEPT !.step = s]
    OBVIOUS
  <2>3. r.kind = job[j].kind /\ r.step = s
    BY <1>1, <2>2 DEF Handler
  <2>4. QED
    BY <1>2, <1>4, <1>5, <2>1, <2>2, <2>3, GoPlain DEF Go
<1>8. CASE ProvisionSystem(j) \/ ListEditorials(j) \/ ProvisionEditorial(j)
  <2>1. PICK s, t :
          s \in {"ensure", "grants"} /\ job[j].step # "delete" /\ (Set(j, [job[j] EXCEPT !.step = s, !.todo = t]) \/ End(j))
    <3>1. CASE ProvisionSystem(j)
      BY <3>1 DEF ProvisionSystem, At
    <3>2. CASE ListEditorials(j)
      BY <3>2 DEF ListEditorials, At
    <3>3. CASE ProvisionEditorial(j)
      BY <3>3 DEF ProvisionEditorial, At
    <3>4. QED
      BY <1>8, <3>1, <3>2, <3>3
  <2>2. PICK r : r = [job[j] EXCEPT !.step = s, !.todo = t]
    OBVIOUS
  <2>3. r.kind = job[j].kind /\ r.step = s
    BY <1>1, <2>2 DEF Handler
  <2>4. QED
    BY <1>2, <1>4, <1>5, <2>1, <2>2, <2>3, GoPlain
<1>9. CASE GrantEditorial(j, o)
  <2>1. PICK r : r = [job[j] EXCEPT !.todo = @ \ {o}]
    OBVIOUS
  <2>2. r.kind = job[j].kind /\ r.step = job[j].step
    BY <1>1, <2>1 DEF Handler
  <2>3. job[j].step = "grants" /\ (Set(j, r) \/ End(j))
    BY <1>9, <2>1 DEF GrantEditorial, At
  <2>4. QED
    BY <1>2, <1>4, <1>5, <2>2, <2>3, GoPlain
<1>10. CASE EnrollUnlock(j)
  <2>1. PICK r : r = [Idle EXCEPT !.kind = "unlock", !.who = job[j].who, !.step = "ensure",
                                  !.got = SlotsOf(job[j].who), !.todo = SlotsOf(job[j].who)]
    OBVIOUS
  <2>2. r.kind = "unlock" /\ r.step = "ensure"
    BY <2>1 DEF Idle
  <2>3. Set(j, r) \/ End(j)
    BY <1>10, <2>1 DEF EnrollUnlock
  <2>4. QED
    BY <1>2, <1>4, <1>5, <2>2, <2>3 DEF Plain
<1>11. CASE WrapRead(j) \/ CreateAuthority(j)
  <2>1. PICK s, p :
          s \in {"wrap1", "wrap", "authority"} /\ job[j].step # "delete" /\ (Set(j, [job[j] EXCEPT !.step = s, !.pair = p]) \/ End(j))
    <3>1. CASE WrapRead(j)
      BY <3>1 DEF WrapRead, At
    <3>2. CASE CreateAuthority(j)
      <4>1. [job[j] EXCEPT !.pair = Tail(job[j].pair)]
              = [job[j] EXCEPT !.step = "authority", !.pair = Tail(job[j].pair)]
        BY <1>1, <3>2 DEF Handler, CreateAuthority, At
      <4>2. QED
        BY <3>2, <4>1 DEF CreateAuthority, At
    <3>3. QED
      BY <1>11, <3>1, <3>2
  <2>2. PICK r : r = [job[j] EXCEPT !.step = s, !.pair = p]
    OBVIOUS
  <2>3. r.kind = job[j].kind /\ r.step = s
    BY <1>1, <2>2 DEF Handler
  <2>4. QED
    BY <1>2, <1>4, <1>5, <2>1, <2>2, <2>3, GoPlain
<1>12. QED
  BY <1>6, <1>7, <1>8, <1>9, <1>10, <1>11

LEMMA EnsureReadKeyAlone ==
    ASSUME Types, AloneInv, NEW j \in Jobs, NEW o \in Owners, EnsureReadKey(j, o)
    PROVE  AloneInv'
<1>1. job[j] \in Handler /\ InCourse(job[j]) /\ job[j].step = "ensure"
  BY DEF Types, Course, EnsureReadKey, At
<1>2. UNCHANGED <<role, pub, seals, data, rslot, overlap>>
  BY DEF EnsureReadKey, account, material, editorial, recovery
<1>3. Busy(j) /\ Alone(j)
  BY <1>1, <1>2, StepAlone DEF Busy, InCourse
<1>4. CASE End(j)
  BY <1>2, <1>3, <1>4, EndPlain, PlainAlone
<1>5. CASE Set(j, [job[j] EXCEPT !.todo = @ \ {o}])
  <2>1. PICK r : r = [job[j] EXCEPT !.todo = @ \ {o}]
    OBVIOUS
  <2>2. r.kind = job[j].kind /\ r.step = "ensure"
    BY <1>1, <2>1 DEF Handler
  <2>3. Plain(j)
    BY <1>1, <1>2, <1>5, <2>1, <2>2, GoPlain
  <2>4. QED
    BY <1>3, <2>3, PlainAlone
<1>6. CASE NeedsReadKey(o) /\ Set(j, [job[j] EXCEPT !.step = "generate", !.own = o])
  <2>1. PICK r : r = [job[j] EXCEPT !.step = "generate", !.own = o]
    OBVIOUS
  <2>2. r.kind = job[j].kind /\ r.step = "generate" /\ r.own = o
    BY <1>1, <2>1 DEF Handler
  <2>3. AloneOK(r)'
    BY <1>2, <1>6, <2>2 DEF AloneOK, NeedsReadKey
  <2>4. ~overlap' => \A s \in seals' : s[2] = pub'[s[1]]
    BY <1>2, <1>3 DEF Alone, AloneInv
  <2>5. \A s \in seals' : s[2] # 0
    BY <1>2 DEF AloneInv
  <2>6. QED
    BY <1>3, <1>6, <2>1, <2>2, <2>3, <2>4, <2>5, MoveAlone
<1>7. QED
  BY <1>4, <1>5, <1>6 DEF EnsureReadKey

\* Alone, the pair is still missing when it is written: no seal was made to another.
LEMMA WriteReadKeyAlone ==
    ASSUME Types, AloneInv, NEW j \in Jobs, WriteReadKey(j)
    PROVE  AloneInv'
<1> DEFINE o == job[j].own
<1>1. job[j] \in Handler /\ InCourse(job[j]) /\ job[j].step = "generate" /\ o \in Owners
  BY DEF Types, Course, WriteReadKey, At, InCourse
<1>2. UNCHANGED <<role, seals, data, rslot, overlap>>
  BY DEF WriteReadKey, account, editorial, recovery
<1>3. Busy(j) /\ Alone(j)
  BY <1>1, <1>2, StepAlone DEF Busy, InCourse
<1>4. CASE End(j) /\ UNCHANGED pub
  BY <1>2, <1>3, <1>4, EndPlain, PlainAlone
<1>5. CASE /\ pub' = [pub EXCEPT ![o] = made[o] + 1]
           /\ Set(j, [job[j] EXCEPT !.step = "ensure", !.todo = @ \ {o}])
  <2>1. PICK r : r = [job[j] EXCEPT !.step = "ensure", !.todo = @ \ {o}]
    OBVIOUS
  <2>2. r.kind = job[j].kind /\ r.step = "ensure"
    BY <1>1, <2>1 DEF Handler
  <2>3. AloneOK(r)'
    BY <2>2 DEF AloneOK
  <2>4. ASSUME ~overlap'
        PROVE  \A s \in seals' : s[2] = pub'[s[1]]
    <3>1. ~overlap /\ pub[o] = 0
      BY <1>1, <1>3, <2>4 DEF Alone, AloneInv, AloneOK
    <3>2. \A s \in seals : s[1] # o /\ s[1] \in Owners
      BY <3>1 DEF AloneInv, Types, TypeOK
    <3>3. \A x \in Owners : x # o => pub'[x] = pub[x]
      BY <1>5 DEF Types, TypeOK
    <3>4. QED
      BY <1>2, <3>1, <3>2, <3>3 DEF AloneInv
  <2>5. \A s \in seals' : s[2] # 0
    BY <1>2 DEF AloneInv
  <2>6. QED
    BY <1>3, <1>5, <2>1, <2>2, <2>3, <2>4, <2>5, MoveAlone
<1>6. QED
  BY <1>4, <1>5 DEF WriteReadKey

LEMMA CommitAdminAlone ==
    ASSUME Types, AloneInv, NEW j \in Jobs, CommitAdmin(j)
    PROVE  AloneInv'
<1>1. job[j] \in Handler /\ InCourse(job[j]) /\ job[j].step = "commit"
  BY DEF Types, Course, CommitAdmin, At
<1>2. UNCHANGED <<pub, seals, overlap>>
  BY DEF CommitAdmin, material
<1>3. Busy(j) /\ Alone(j) /\ job[j].kind = "admin"
  BY <1>1, <1>2, StepAlone, Places DEF Busy, InCourse
<1>4. PICK r : Set(j, r) /\ r.step \notin {"generate", "seal"}
  <2>1. CASE End(j)
    BY <2>1 DEF End, Idle
  <2>2. CASE Set(j, [job[j] EXCEPT !.step = "enroll", !.todo = {job[j].own} \ {NoOne}])
    <3>1. PICK r : r = [job[j] EXCEPT !.step = "enroll", !.todo = {job[j].own} \ {NoOne}]
      OBVIOUS
    <3>2. r.kind = "admin" /\ r.step = "enroll"
      BY <1>1, <1>3, <3>1 DEF Handler
    <3>3. QED
      BY <2>2, <3>1, <3>2
  <2>3. QED
    BY <2>1, <2>2 DEF CommitAdmin
<1>5. AloneOK(r)'
  BY <1>4 DEF AloneOK
<1>6. ~overlap' => \A s \in seals' : s[2] = pub'[s[1]]
  BY <1>2, <1>3 DEF Alone, AloneInv
<1>7. \A s \in seals' : s[2] # 0
  BY <1>2 DEF AloneInv
<1>8. QED
  BY <1>3, <1>4, <1>5, <1>6, <1>7, MoveAlone

LEMMA RemoveAdminAlone ==
    ASSUME Types, AloneInv, NEW j \in Jobs, NEW a \in Admins, NEW b \in Admins, RemoveAdmin(j, a, b)
    PROVE  AloneInv'
<1>1. UNCHANGED <<role, pub, seals>> /\ Alone(j)
  BY StartAlone DEF RemoveAdmin, account, material
<1>2. PICK r : r = [[Idle EXCEPT !.step = "delete", !.whom = b] EXCEPT !.kind = "remove", !.who = a]
  OBVIOUS
<1>3. r.kind = "remove" /\ r.who = a /\ r.whom = b /\ r.step = "delete"
  BY <1>2 DEF Idle
<1>4. Set(j, r)
  BY <1>2 DEF RemoveAdmin, Start
<1>5. AloneOK(r)'
  BY <1>1, <1>3 DEF AloneOK, RemoveAdmin, Removable
<1>6. ~overlap' => \A s \in seals' : s[2] = pub'[s[1]]
  BY <1>1 DEF Alone, AloneInv
<1>7. \A s \in seals' : s[2] # 0
  BY <1>1 DEF AloneInv
<1>8. QED
  BY <1>1, <1>3, <1>4, <1>5, <1>6, <1>7, MoveAlone

LEMMA DeleteAdminAlone ==
    ASSUME Types, AloneInv, NEW j \in Jobs, DeleteAdmin(j)
    PROVE  AloneInv'
<1>1. job[j] \in Handler /\ InCourse(job[j]) /\ job[j].step = "delete"
  BY DEF Types, Course, DeleteAdmin, At
<1>2. UNCHANGED <<pub, seals, overlap>>
  BY DEF DeleteAdmin
<1>3. Busy(j) /\ Alone(j)
  BY <1>1, <1>2, StepAlone, Places DEF Busy, InCourse
<1>4. PICK r : r = Idle
  OBVIOUS
<1>5. r.kind = "idle" /\ r.step = "none" /\ Set(j, r)
  BY <1>4 DEF Idle, DeleteAdmin, End
<1>6. AloneOK(r)'
  BY <1>5 DEF AloneOK
<1>7. ~overlap' => \A s \in seals' : s[2] = pub'[s[1]]
  BY <1>2, <1>3 DEF Alone, AloneInv
<1>8. \A s \in seals' : s[2] # 0
  BY <1>2 DEF AloneInv
<1>9. QED
  BY <1>3, <1>5, <1>6, <1>7, <1>8, MoveAlone

LEMMA SealAlone ==
    ASSUME Types, AloneInv, NEW j \in Jobs, NEW a \in Admins, NEW o \in Owners, Seal(j, a, o)
    PROVE  AloneInv'
<1>1. UNCHANGED <<role, pub, seals>> /\ Alone(j)
  BY StartAlone DEF Seal, account, material
<1>2. PICK r : r = [[Idle EXCEPT !.step = "seal", !.own = o, !.tok = pub[o]] EXCEPT !.kind = "seal", !.who = a]
  OBVIOUS
<1>3. r.kind = "seal" /\ r.step = "seal" /\ r.own = o /\ r.tok = pub[o]
  BY <1>2 DEF Idle
<1>4. Set(j, r)
  BY <1>2 DEF Seal, Start
<1>5. AloneOK(r)' /\ r.tok # 0
  BY <1>1, <1>3 DEF AloneOK, Seal
<1>6. ~overlap' => \A s \in seals' : s[2] = pub'[s[1]]
  BY <1>1 DEF Alone, AloneInv
<1>7. \A s \in seals' : s[2] # 0
  BY <1>1 DEF AloneInv
<1>8. QED
  BY <1>1, <1>4, <1>5, <1>6, <1>7, MoveAlone

LEMMA SealWriteAlone ==
    ASSUME Types, AloneInv, NEW j \in Jobs, SealWrite(j)
    PROVE  AloneInv'
<1>1. job[j] \in Handler /\ InCourse(job[j]) /\ job[j].step = "seal"
  BY DEF Types, Course, SealWrite, At
<1>2. UNCHANGED <<role, pub, overlap>> /\ seals' = seals \cup {<<job[j].own, job[j].tok>>}
  BY DEF SealWrite, account, material
<1>3. Busy(j) /\ Alone(j)
  BY <1>1, <1>2, StepAlone DEF Busy, InCourse
<1>4. PICK r : r = Idle
  OBVIOUS
<1>5. r.kind = "idle" /\ r.step = "none" /\ Set(j, r)
  BY <1>4 DEF Idle, SealWrite, End
<1>6. AloneOK(r)'
  BY <1>5 DEF AloneOK
<1>7. ASSUME ~overlap'
      PROVE  \A s \in seals' : s[2] = pub'[s[1]]
  <2>1. ~overlap /\ job[j].tok = pub[job[j].own]
    BY <1>1, <1>3, <1>7 DEF Alone, AloneInv, AloneOK
  <2>2. QED
    BY <1>2, <2>1 DEF AloneInv
<1>8. \A s \in seals' : s[2] # 0
  BY <1>1, <1>2 DEF AloneInv
<1>9. QED
  BY <1>3, <1>5, <1>6, <1>7, <1>8, MoveAlone

\* The recovery slots and the details of an editorial.
LEMMA WrapWriteAlone ==
    ASSUME Types, AloneInv, NEW j \in Jobs, NEW i \in 1..2, WrapWrite(j, i) \/ WriteData(j)
    PROVE  AloneInv'
<1>1. job[j] \in Handler /\ InCourse(job[j]) /\ job[j].step \in {"wrap1", "wrap2", "data"}
  BY DEF Types, Course, WrapWrite, WriteData, At
<1>2. UNCHANGED <<role, pub, seals, overlap>>
  BY DEF WrapWrite, WriteData, account, material
<1>3. Busy(j) /\ Alone(j)
  BY <1>1, <1>2, StepAlone DEF Busy, InCourse
<1>4. PICK r : Set(j, r) /\ r.step \notin {"generate", "seal"}
  <2>1. CASE End(j)
    BY <2>1 DEF End, Idle
  <2>2. ASSUME NEW s \in {"wrap2", "data"}, Go(j, s)
        PROVE  \E r : Set(j, r) /\ r.step \notin {"generate", "seal"}
    <3>1. PICK r : r = [job[j] EXCEPT !.step = s]
      OBVIOUS
    <3>2. r.kind = job[j].kind /\ r.step = s
      BY <1>1, <3>1 DEF Handler
    <3>3. QED
      BY <1>3, <2>2, <3>1, <3>2 DEF Go
  <2>3. QED
    BY <2>1, <2>2 DEF WrapWrite, WriteData
<1>5. AloneOK(r)'
  BY <1>4 DEF AloneOK
<1>6. ~overlap' => \A s \in seals' : s[2] = pub'[s[1]]
  BY <1>2 DEF Alone, AloneInv
<1>7. \A s \in seals' : s[2] # 0
  BY <1>2 DEF AloneInv
<1>8. QED
  BY <1>3, <1>4, <1>5, <1>6, <1>7, MoveAlone

LEMMA RequestAlone ==
    ASSUME Types, AloneInv, NEW j \in Jobs, NEW a \in Admins, Request(j, a)
    PROVE  AloneInv'
<1>1. ASSUME NEW b, NEW c, NEW e, NEW role0,
             \/ Unlock(j, a) \/ Enroll(j, a) \/ CreateAdmin(j, a, b, role0, e)
             \/ RecoverySlots(j, a, e, b, c) \/ Claim(j, a, e) \/ CreateEditorial(j, a, e)
      PROVE  AloneInv'
  BY <1>1, PlainStart, PlainAlone
<1>2. ASSUME NEW b \in Admins, RemoveAdmin(j, a, b)
      PROVE  AloneInv'
  BY <1>2, RemoveAdminAlone
<1>3. ASSUME NEW o \in Owners, Seal(j, a, o)
      PROVE  AloneInv'
  BY <1>3, SealAlone
<1>4. QED
  BY <1>1, <1>2, <1>3 DEF Request

LEMMA StepsAlone ==
    ASSUME Types, AloneInv, NEW j \in Jobs, Step(j)
    PROVE  AloneInv'
<1>1. ASSUME NEW o \in Owners, EnsureReadKey(j, o)
      PROVE  AloneInv'
  BY <1>1, EnsureReadKeyAlone
<1>2. CASE WriteReadKey(j) \/ CommitAdmin(j) \/ DeleteAdmin(j) \/ SealWrite(j)
  BY <1>2, WriteReadKeyAlone, CommitAdminAlone, DeleteAdminAlone, SealWriteAlone
<1>3. CASE WriteData(j) \/ \E i \in 1..2 : WrapWrite(j, i)
  BY <1>3, WrapWriteAlone
<1>4. ASSUME NEW o \in Owners,
             \/ OpenSession(j) \/ EnrollAdmin(j) \/ EnrollSystem(j) \/ ProvisionSystem(j)
             \/ EnrollUnlock(j) \/ GrantSystem(j) \/ ListEditorials(j) \/ GrantEditorial(j, o)
             \/ GrantsDone(j) \/ ClaimWrite(j) \/ ProvisionEditorial(j) \/ PutKey(j)
             \/ WrapRead(j) \/ CreateAuthority(j) \/ Throw(j)
      PROVE  AloneInv'
  BY <1>4, PlainStep, StepAlone, PlainAlone
<1>5. System \in Owners
  BY DEF Owners
<1>6. QED
  BY <1>1, <1>2, <1>3, <1>4, <1>5 DEF Step

LEMMA NextAlone == Types /\ AloneInv /\ [Next]_vars => AloneInv'
<1> SUFFICES ASSUME Types, AloneInv, [Next]_vars PROVE AloneInv'
  OBVIOUS
<1>1. CASE \E j \in Jobs : Step(j) \/ \E a \in Admins : Request(j, a)
  BY <1>1, StepsAlone, RequestAlone
<1>2. CASE UNCHANGED <<role, pub, seals, overlap, job>>
  BY <1>2 DEF AloneInv, AloneOK, Busy
<1>3. CASE Restart
  <2>1. UNCHANGED <<role, pub, seals, overlap>>
    BY <1>3 DEF Restart, account, material
  <2>2. \A j \in Jobs : job'[j].kind = "idle" /\ job'[j].step = "none"
    BY <1>3 DEF Restart, Idle
  <2>3. QED
    BY <2>1, <2>2 DEF AloneInv, AloneOK, Busy
<1>4. QED
  BY <1>1, <1>2, <1>3 DEF Next, Drop, RemoveEditorial, vars, account, material

LEMMA InitAlone == Init => AloneInv
<1> SUFFICES ASSUME Init PROVE AloneInv
  OBVIOUS
<1>1. \A j \in Jobs : job[j].kind = "idle" /\ job[j].step = "none"
  BY DEF Init, Idle
<1>2. seals = {}
  BY DEF Init
<1>3. QED
  BY <1>1, <1>2 DEF AloneInv, AloneOK, Busy

LEMMA AllAlone == Spec => []AloneInv
  BY InitAlone, NextAlone, AllTypes, PTL DEF Spec

(* While requests come one at a time, whichever of them throw midway, every *)
(* seal was made to the read key in the database: no profile key is lost to *)
(* a pair written later (SealsReadable).                                   *)
THEOREM SealsStayReadable == Spec => []SealsReadable
<1>1. AloneInv => SealsReadable
  BY DEF AloneInv, SealsReadable
<1>2. QED
  BY <1>1, AllAlone, PTL

-----------------------------------------------------------------------------
(* Recovery                                                                *)

LEMMA MoveRecovery ==
    ASSUME Types, NobodyGone' => RecoveryInv /\ NobodyGone, NEW j \in Jobs, NEW r, Set(j, r),
           \A e \in Editorials, i \in 1..2 : Sealed(e, i) => Sealed(e, i)',
           NobodyGone' => /\ r.step = "wrap2" => Sealed(r.own, 1)'
                          /\ r.step = "data" => Sealed(r.own, 1)' /\ Sealed(r.own, 2)'
                          /\ \A e \in data' : e \in data \/ (Sealed(e, 1)' /\ Sealed(e, 2)')
    PROVE  RecoveryInv'
<1> SUFFICES ASSUME NobodyGone'
             PROVE  /\ \A e \in data' : Sealed(e, 1)' /\ Sealed(e, 2)'
                    /\ \A i \in Jobs : /\ job'[i].step = "wrap2" => Sealed(job[i].own, 1)'
                                       /\ job'[i].step = "data" => Sealed(job[i].own, 1)' /\ Sealed(job[i].own, 2)'
  BY DEF RecoveryInv
<1>1. \A e \in data' : Sealed(e, 1)' /\ Sealed(e, 2)'
  <2>1. \A e \in data : e \in Editorials /\ Sealed(e, 1) /\ Sealed(e, 2)
    BY DEF RecoveryInv, Types, TypeOK
  <2>2. QED
    BY <2>1
<1>2. ASSUME NEW i \in Jobs
      PROVE  /\ job'[i].step = "wrap2" => Sealed(job[i].own, 1)'
             /\ job'[i].step = "data" => Sealed(job[i].own, 1)' /\ Sealed(job[i].own, 2)'
  <2>1. CASE i = j
    <3>1. job'[i] = r
      BY <2>1 DEF Set, Types, Course
    <3>2. QED
      BY <3>1 DEF Sealed
  <2>2. CASE i # j
    <3>1. job'[i] = job[i]
      BY <2>2 DEF Set, Types, Course
    <3>2. job[i].step \in {"wrap2", "data"} => job[i].own \in Editorials
      BY Places DEF Types, Course, InCourse
    <3>3. /\ job[i].step = "wrap2" => Sealed(job[i].own, 1)
          /\ job[i].step = "data" => Sealed(job[i].own, 1) /\ Sealed(job[i].own, 2)
      BY DEF RecoveryInv
    <3>4. QED
      BY <3>1, <3>2, <3>3 DEF Sealed
  <2>3. QED
    BY <2>1, <2>2
<1>3. QED
  BY <1>1, <1>2

LEMMA PlainRecovery ==
    ASSUME Types, RecoveryInv, NEW j \in Jobs, Plain(j)
    PROVE  RecoveryInv'
<1>1. PICK r : Set(j, r) /\ r.step \notin {"generate", "seal", "wrap2", "data"}
  BY DEF Plain
<1>2. NobodyGone' => NobodyGone
  BY DEF NobodyGone, Plain
<1>3. data' = data /\ \A e \in Editorials, i \in 1..2 : Sealed(e, i) => Sealed(e, i)'
  BY DEF Plain, Sealed
<1>4. QED
  BY <1>1, <1>2, <1>3, MoveRecovery

\* The steps about read keys, seals and accounts keep what is sealed.
LEMMA ElsewhereRecovery ==
    ASSUME Types, RecoveryInv, NEW j \in Jobs, NEW r, Set(j, r), r.step \notin {"wrap2", "data"},
           UNCHANGED <<data, rslot>>, NobodyGone' => NobodyGone
    PROVE  RecoveryInv'
<1>1. \A e \in Editorials, i \in 1..2 : Sealed(e, i) => Sealed(e, i)'
  BY DEF Sealed
<1>2. QED
  BY <1>1, MoveRecovery

LEMMA KeysRecovery ==
    ASSUME Types, RecoveryInv, NEW j \in Jobs, NEW a \in Admins, NEW b \in Admins, NEW o \in Owners,
           \/ EnsureReadKey(j, o) \/ WriteReadKey(j) \/ Seal(j, a, o) \/ SealWrite(j)
           \/ RemoveAdmin(j, a, b) \/ CommitAdmin(j)
    PROVE  RecoveryInv'
<1>1. job[j] \in Handler
  BY DEF Types, Course
<1>2. UNCHANGED <<data, rslot>>
  BY DEF EnsureReadKey, WriteReadKey, Seal, SealWrite, RemoveAdmin, CommitAdmin, editorial, recovery
<1>3. NobodyGone' => NobodyGone
  <2>1. CASE CommitAdmin(j)
    BY <2>1 DEF CommitAdmin, NobodyGone, Types, TypeOK
  <2>2. CASE EnsureReadKey(j, o) \/ WriteReadKey(j) \/ Seal(j, a, o) \/ SealWrite(j) \/ RemoveAdmin(j, a, b)
    BY <2>2 DEF EnsureReadKey, WriteReadKey, Seal, SealWrite, RemoveAdmin, account, NobodyGone
  <2>3. QED
    BY <2>1, <2>2
<1>4. PICK r : Set(j, r) /\ r.step \notin {"wrap2", "data"}
  <2>1. CASE End(j)
    BY <2>1 DEF End, Idle
  <2>2. CASE EnsureReadKey(j, o)
    <3>1. CASE Set(j, [job[j] EXCEPT !.todo = @ \ {o}])
      <4>1. PICK r : r = [job[j] EXCEPT !.todo = @ \ {o}]
        OBVIOUS
      <4>2. r.step = "ensure"
        BY <1>1, <2>2, <4>1 DEF Handler, EnsureReadKey, At
      <4>3. QED
        BY <3>1, <4>1, <4>2
    <3>2. CASE Set(j, [job[j] EXCEPT !.step = "generate", !.own = o])
      <4>1. PICK r : r = [job[j] EXCEPT !.step = "generate", !.own = o]
        OBVIOUS
      <4>2. r.step = "generate"
        BY <1>1, <4>1 DEF Handler
      <4>3. QED
        BY <3>2, <4>1, <4>2
    <3>3. QED
      BY <2>1, <2>2, <3>1, <3>2 DEF EnsureReadKey
  <2>3. CASE WriteReadKey(j)
    <3>1. PICK r : r = [job[j] EXCEPT !.step = "ensure", !.todo = @ \ {job[j].own}]
      OBVIOUS
    <3>2. r.step = "ensure"
      BY <1>1, <3>1 DEF Handler
    <3>3. QED
      BY <2>1, <2>3, <3>1, <3>2 DEF WriteReadKey
  <2>4. CASE Seal(j, a, o)
    <3>1. PICK r : r = [[Idle EXCEPT !.step = "seal", !.own = o, !.tok = pub[o]] EXCEPT !.kind = "seal", !.who = a]
      OBVIOUS
    <3>2. r.step = "seal"
      BY <3>1 DEF Idle
    <3>3. QED
      BY <2>4, <3>1, <3>2 DEF Seal, Start
  <2>5. CASE RemoveAdmin(j, a, b)
    <3>1. PICK r : r = [[Idle EXCEPT !.step = "delete", !.whom = b] EXCEPT !.kind = "remove", !.who = a]
      OBVIOUS
    <3>2. r.step = "delete"
      BY <3>1 DEF Idle
    <3>3. QED
      BY <2>5, <3>1, <3>2 DEF RemoveAdmin, Start
  <2>6. CASE CommitAdmin(j)
    <3>1. PICK r : r = [job[j] EXCEPT !.step = "enroll", !.todo = {job[j].own} \ {NoOne}]
      OBVIOUS
    <3>2. r.step = "enroll"
      BY <1>1, <3>1 DEF Handler
    <3>3. QED
      BY <2>1, <2>6, <3>1, <3>2 DEF CommitAdmin
  <2>7. QED
    BY <2>1, <2>2, <2>3, <2>4, <2>5, <2>6 DEF SealWrite
<1>5. QED
  BY <1>2, <1>3, <1>4, ElsewhereRecovery

LEMMA DeleteAdminRecovery ==
    ASSUME Types, NEW j \in Jobs, DeleteAdmin(j)
    PROVE  RecoveryInv'
<1>1. job[j].whom \in Admins
  BY Places DEF Types, Course, InCourse, DeleteAdmin, At
<1>2. ~NobodyGone'
  BY <1>1 DEF DeleteAdmin, NobodyGone, Types, TypeOK
<1>3. QED
  BY <1>2 DEF RecoveryInv

\* A slot is sealed to an authority that exists at that moment, the first
\* before the second, and both before the details.
LEMMA WrapWriteRecovery ==
    ASSUME Types, RecoveryInv, NEW j \in Jobs, NEW i \in 1..2, WrapWrite(j, i)
    PROVE  RecoveryInv'
<1>1. PICK e, x : e = job[j].own /\ x = job[j].pair[i]
  OBVIOUS
<1>2. job[j] \in Handler /\ e \in Editorials
  BY <1>1, Places DEF Types, Course, InCourse, WrapWrite, At
<1>3. UNCHANGED <<role, data>> /\ rslot' = [rslot EXCEPT ![e][i] = x] /\ x \in auths
      /\ job[j].step = IF i = 1 THEN "wrap1" ELSE "wrap2"
  BY <1>1 DEF WrapWrite, account, editorial, At
<1>4. x # NoAuthority
  BY <1>3, AdminAssumption DEF Types, TypeOK, Authorities, NoAuthority
<1>5. /\ \A f \in Editorials, k \in 1..2 : Sealed(f, k) => Sealed(f, k)'
      /\ Sealed(e, i)'
  <2>1. \A f \in Editorials, k \in 1..2 : rslot'[f][k] = IF f = e /\ k = i THEN x ELSE rslot[f][k]
    BY <1>2, <1>3 DEF Types, TypeOK
  <2>2. QED
    BY <1>2, <1>4, <2>1 DEF Sealed
<1>6. NobodyGone' => NobodyGone
  BY <1>3 DEF NobodyGone
<1>7. CASE Go(j, "wrap2") /\ i = 1
  <2>1. PICK r : r = [job[j] EXCEPT !.step = "wrap2"]
    OBVIOUS
  <2>2. r.step = "wrap2" /\ r.own = e
    BY <1>1, <1>2, <2>1 DEF Handler
  <2>3. Sealed(r.own, 1)'
    BY <1>5, <1>7, <2>2 DEF Sealed
  <2>4. QED
    BY <1>3, <1>5, <1>6, <1>7, <2>1, <2>2, <2>3, MoveRecovery DEF Go
<1>8. CASE Go(j, "data") /\ i = 2
  <2>1. PICK r : r = [job[j] EXCEPT !.step = "data"]
    OBVIOUS
  <2>2. r.step = "data" /\ r.own = e
    BY <1>1, <1>2, <2>1 DEF Handler
  <2>3. NobodyGone' => Sealed(e, 1)
    BY <1>1, <1>3, <1>6, <1>8 DEF RecoveryInv
  <2>4. NobodyGone' => Sealed(e, 1)' /\ Sealed(e, 2)'
    BY <1>2, <1>5, <1>8, <2>3 DEF Sealed
  <2>5. NobodyGone' => Sealed(r.own, 1)' /\ Sealed(r.own, 2)'
    BY <2>2, <2>4 DEF Sealed
  <2>6. QED
    BY <1>3, <1>5, <1>6, <1>8, <2>1, <2>2, <2>5, MoveRecovery DEF Go
<1>9. CASE End(j)
  <2>1. PICK r : r = Idle
    OBVIOUS
  <2>2. r.step = "none" /\ Set(j, r)
    BY <1>9, <2>1 DEF Idle, End
  <2>3. QED
    BY <1>3, <1>5, <1>6, <2>2, MoveRecovery
<1>10. QED
  BY <1>7, <1>8, <1>9 DEF WrapWrite

LEMMA WriteDataRecovery ==
    ASSUME Types, RecoveryInv, NEW j \in Jobs, WriteData(j)
    PROVE  RecoveryInv'
<1>1. PICK r : r = Idle
  OBVIOUS
<1>2. r.step = "none" /\ Set(j, r)
  BY <1>1 DEF Idle, End, WriteData
<1>3. /\ UNCHANGED <<role, rslot>> /\ data' = data \cup {job[j].own}
      /\ job[j].step = "data"
  BY DEF WriteData, account, recovery, At
<1>4. NobodyGone' => NobodyGone
  BY <1>3 DEF NobodyGone
<1>5. \A e, i : Sealed(e, i) => Sealed(e, i)'
  BY <1>3 DEF Sealed
<1>6. NobodyGone' => Sealed(job[j].own, 1) /\ Sealed(job[j].own, 2)
  BY <1>3, <1>4 DEF RecoveryInv
<1>7. NobodyGone' => \A e \in data' : e \in data \/ (Sealed(e, 1)' /\ Sealed(e, 2)')
  BY <1>3, <1>5, <1>6
<1>8. QED
  BY <1>2, <1>4, <1>5, <1>7, MoveRecovery

LEMMA StepRecovery ==
    ASSUME Types, RecoveryInv, NEW j \in Jobs, Step(j)
    PROVE  RecoveryInv'
<1>1. System \in Owners /\ First \in Admins
  BY AdminAssumption DEF Owners
<1>2. ASSUME NEW o \in Owners,
             EnsureReadKey(j, o) \/ WriteReadKey(j) \/ SealWrite(j) \/ CommitAdmin(j)
      PROVE  RecoveryInv'
  BY <1>1, <1>2, KeysRecovery
<1>3. CASE DeleteAdmin(j) \/ WriteData(j) \/ \E i \in 1..2 : WrapWrite(j, i)
  BY <1>3, DeleteAdminRecovery, WriteDataRecovery, WrapWriteRecovery
<1>4. ASSUME NEW o \in Owners,
             \/ OpenSession(j) \/ EnrollAdmin(j) \/ EnrollSystem(j) \/ ProvisionSystem(j)
             \/ EnrollUnlock(j) \/ GrantSystem(j) \/ ListEditorials(j) \/ GrantEditorial(j, o)
             \/ GrantsDone(j) \/ ClaimWrite(j) \/ ProvisionEditorial(j) \/ PutKey(j)
             \/ WrapRead(j) \/ CreateAuthority(j) \/ Throw(j)
      PROVE  RecoveryInv'
  BY <1>4, PlainStep, PlainRecovery
<1>5. QED
  BY <1>1, <1>2, <1>3, <1>4 DEF Step

LEMMA RequestRecovery ==
    ASSUME Types, RecoveryInv, NEW j \in Jobs, NEW a \in Admins, Request(j, a)
    PROVE  RecoveryInv'
<1>1. ASSUME NEW b, NEW c, NEW e, NEW role0,
             \/ Unlock(j, a) \/ Enroll(j, a) \/ CreateAdmin(j, a, b, role0, e)
             \/ RecoverySlots(j, a, e, b, c) \/ Claim(j, a, e) \/ CreateEditorial(j, a, e)
      PROVE  RecoveryInv'
  BY <1>1, PlainStart, PlainRecovery
<1>2. System \in Owners
  BY DEF Owners
<1>3. ASSUME NEW b \in Admins, NEW o \in Owners, RemoveAdmin(j, a, b) \/ Seal(j, a, o)
      PROVE  RecoveryInv'
  BY <1>3, KeysRecovery
<1>4. QED
  BY <1>1, <1>2, <1>3 DEF Request

LEMMA NextRecovery == Types /\ RecoveryInv /\ [Next]_vars => RecoveryInv'
<1> SUFFICES ASSUME Types, RecoveryInv, [Next]_vars PROVE RecoveryInv'
  OBVIOUS
<1>1. CASE \E j \in Jobs : Step(j) \/ \E a \in Admins : Request(j, a)
  BY <1>1, StepRecovery, RequestRecovery
<1>2. CASE UNCHANGED <<role, rslot, job>> /\ data' \subseteq data
  BY <1>2 DEF RecoveryInv, NobodyGone, Sealed
<1>3. CASE Restart
  <2>1. UNCHANGED <<role, rslot, data>>
    BY <1>3 DEF Restart, account, editorial, recovery
  <2>2. \A j \in Jobs : job'[j].step = "none"
    BY <1>3 DEF Restart, Idle
  <2>3. QED
    BY <2>1, <2>2 DEF RecoveryInv, NobodyGone, Sealed
<1>4. QED
  BY <1>1, <1>2, <1>3 DEF Next, Drop, RemoveEditorial, vars, account, editorial, recovery

LEMMA InitRecovery == Init => RecoveryInv
<1> SUFFICES ASSUME Init PROVE RecoveryInv
  OBVIOUS
<1>1. data = {} /\ \A j \in Jobs : job[j].step = "none"
  BY DEF Init, Idle
<1>2. QED
  BY <1>1 DEF RecoveryInv

(* An editorial with details has both recovery slots, until an             *)
(* administrator's removal takes one away (DataHasRecovery).               *)
THEOREM DataIsRecoverable == Spec => []DataHasRecovery
<1>1. RecoveryInv => DataHasRecovery
  BY DEF RecoveryInv, DataHasRecovery, NobodyGone, Sealed
<1>2. Spec => []RecoveryInv
  BY InitRecovery, NextRecovery, AllTypes, PTL DEF Spec
<1>3. QED
  BY <1>1, <1>2, PTL
=============================================================================
