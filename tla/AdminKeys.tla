----------------------------- MODULE AdminKeys -----------------------------
(***************************************************************************)
(* The keys administrators work with.  The System KEK and one KEK per      *)
(* editorial are stored only wrapped: in a slot of each administrator who  *)
(* may open them, and in two recovery slots sealed to recovery             *)
(* authorities.  Unlocking copies the keys of an administrator's slots     *)
(* into a session in memory; handlers hand them on from there.             *)
(*                                                                         *)
(* Every handler is a job that does one database call per step, so two     *)
(* jobs interleave at each await and any of them may throw at any of them. *)
(* Keys are ideal and a key is named by its owner; what can differ is the  *)
(* read keypair of an owner, which carries a generation.                   *)
(***************************************************************************)
EXTENDS Naturals, FiniteSets, Sequences

CONSTANTS Admins, First, Editorials, System, NoOne, Jobs, MaxTok, MaxRequests

ASSUME AdminAssumption == First \in Admins /\ NoOne \notin Admins
ASSUME OwnerAssumption == System \notin Editorials /\ NoOne \notin Editorials \cup {System}
ASSUME BoundAssumption == MaxTok \in Nat /\ MaxRequests \in Nat

Owners == Editorials \cup {System}
Roles == {"ADMIN", "EDITORIAL_ADMIN"}
Authorities == Admins \X {1, 2}      \* an administrator and a slotNumber
NoAuthority == <<NoOne, 0>>
NoSession == [tok |-> 0, keys |-> {}]

VARIABLES
  role,      \* "none", a role, or "gone": the account of an administrator
  home,      \* the editorial an EDITORIAL_ADMIN is bound to
  kek,       \* administrators with an AdminKeyMaterial row
  keyed,     \* owners with a key material row
  slots,     \* <<owner, administrator>>: the key wrapped for the administrator
  pub,       \* generation of the owner's read keypair, 0 when there is none
  made,      \* generations made so far
  seals,     \* <<owner, generation>>: profile keys sealed to a read key
  rows,      \* editorials that exist
  used,      \* editorials that ever existed: an id is never used again
  data,      \* editorials whose encryptedData is written
  auths,     \* recovery authorities
  older,     \* of two with one slotNumber, the one with the smaller id first
  rslot,     \* the two recovery slots of an editorial's key
  session,   \* the unlock session of an administrator
  ntok,      \* tokens handed out
  job,       \* handlers in flight
  overlap,   \* whether two handlers were ever in flight at once
  begun      \* requests begun

account == <<role, home, kek>>
material == <<keyed, slots, pub, made>>
editorial == <<rows, used, data>>
recovery == <<auths, older, rslot>>
memory == <<session, ntok>>
vars == <<account, material, seals, editorial, recovery, memory, job, overlap, begun>>

Idle == [kind |-> "idle", who |-> NoOne, whom |-> NoOne, own |-> NoOne, step |-> "none",
         todo |-> {}, got |-> {}, tok |-> 0, pair |-> <<NoAuthority, NoAuthority>>]
Live(a) == role[a] \in Roles
SystemAdmins == {a \in Admins : role[a] = "ADMIN"}
Busy(j) == job[j].kind # "idle"
At(j, s) == job[j].step = s
HasKey(j, o) == session[job[j].who].tok = job[j].tok /\ o \in session[job[j].who].keys
SlotsOf(a) == {o \in Owners : <<o, a>> \in slots}

Set(j, r) == job' = [job EXCEPT ![j] = r]
Go(j, s) == Set(j, [job[j] EXCEPT !.step = s])
End(j) == Set(j, Idle)
Start(j, k, a, r) ==
  /\ ~Busy(j) /\ Live(a)
  /\ Set(j, [r EXCEPT !.kind = k, !.who = a])
  /\ overlap' = (overlap \/ \E i \in Jobs \ {j} : Busy(i))
  /\ begun < MaxRequests /\ begun' = begun + 1

(***************************************************************************)
(* The seed has committed the first administrator.  The security backfill  *)
(* has, or has not yet, run after it: then the System KEK and two recovery *)
(* authorities, both of that administrator, are there as well.  A database *)
(* of an older release has no read keypair.                                *)
(***************************************************************************)
Init ==
  /\ role = [a \in Admins |-> IF a = First THEN "ADMIN" ELSE "none"]
  /\ home = [a \in Admins |-> NoOne]
  /\ made = [o \in Owners |-> 0]
  /\ \/ kek = {} /\ keyed = {} /\ slots = {} /\ auths = {}
     \/ /\ kek = {First} /\ keyed = {System} /\ slots = {<<System, First>>}
        /\ auths = {<<First, 1>>, <<First, 2>>}
  /\ pub = [o \in Owners |-> 0]
  /\ seals = {} /\ rows = {} /\ used = {} /\ data = {}
  /\ older = {} /\ rslot = [e \in Editorials |-> <<NoAuthority, NoAuthority>>]
  /\ session = [a \in Admins |-> NoSession] /\ ntok = 0
  /\ job = [j \in Jobs |-> Idle] /\ overlap = FALSE /\ begun = 0

-----------------------------------------------------------------------------
(* Unlocking: the slots are read, the read keypair of each key is made when *)
(* it is missing, and the session replaces the administrator's last one.    *)

Unlock(j, a) ==
  /\ Start(j, "unlock", a, [Idle EXCEPT !.step = "ensure", !.got = SlotsOf(a), !.todo = SlotsOf(a)])
  /\ a \in kek
  /\ UNCHANGED <<account, material, seals, editorial, recovery, memory>>

\* Variant: a pair is made at every unlock.
AlwaysReadKey(o) == TRUE

NeedsReadKey(o) == pub[o] = 0

\* ensureSystemReadKey and ensureEditorialReadKey find the material ...
EnsureReadKey(j, o) ==
  /\ At(j, "ensure") /\ o \in job[j].todo
  /\ \/ o \notin keyed /\ End(j)
     \/ o \in keyed /\ ~NeedsReadKey(o) /\ Set(j, [job[j] EXCEPT !.todo = @ \ {o}])
     \/ o \in keyed /\ NeedsReadKey(o) /\ Set(j, [job[j] EXCEPT !.step = "generate", !.own = o])
  /\ UNCHANGED <<account, material, seals, editorial, recovery, memory, overlap, begun>>

\* ... and write the pair they have generated over whatever is there by then.
WriteReadKey(j) ==
  LET o == job[j].own IN
  /\ At(j, "generate")
  /\ \/ o \notin keyed /\ End(j) /\ UNCHANGED <<pub, made>>
     \/ /\ o \in keyed
        /\ made' = [made EXCEPT ![o] = @ + 1]
        /\ pub' = [pub EXCEPT ![o] = made[o] + 1]
        /\ Set(j, [job[j] EXCEPT !.step = "ensure", !.todo = @ \ {o}])
  /\ UNCHANGED <<account, keyed, slots, seals, editorial, recovery, memory, overlap, begun>>

OpenSession(j) ==
  /\ job[j].kind = "unlock" /\ At(j, "ensure") /\ job[j].todo = {} /\ ntok < MaxTok
  /\ ntok' = ntok + 1
  /\ session' = [session EXCEPT ![job[j].who] = [tok |-> ntok + 1, keys |-> job[j].got]]
  /\ End(j)
  /\ UNCHANGED <<account, material, seals, editorial, recovery, overlap, begun>>

\* lock, change-passphrase (rewrapAdmin keeps the key), logout and the timer.
Drop(a) ==
  /\ session[a] # NoSession
  /\ session' = [session EXCEPT ![a] = NoSession]
  /\ UNCHANGED <<account, material, seals, editorial, recovery, ntok, job, overlap, begun>>

-----------------------------------------------------------------------------
(* Enrolment of an administrator's own key, by the seed or over the web.    *)

Enroll(j, a) ==
  /\ Start(j, "enroll", a, [Idle EXCEPT !.step = "enroll", !.whom = a])
  /\ a \notin kek
  /\ UNCHANGED <<account, material, seals, editorial, recovery, memory>>

\* Variant: every administrator starts with the System KEK.
SystemForAll(a) == "grantSystem"

FirstGrant(a) == IF role[a] = "ADMIN" THEN "grantSystem" ELSE "grants"

\* enrollAdmin; its user and the uniqueness of the row are the database's.
EnrollAdmin(j) ==
  LET a == job[j].whom IN
  /\ At(j, "enroll")
  /\ \/ ~(Live(a) /\ a \notin kek) /\ End(j) /\ kek' = kek
     \/ /\ Live(a) /\ a \notin kek
        /\ kek' = kek \cup {a}
        /\ Go(j, CASE job[j].kind = "admin" -> FirstGrant(a)
                   [] job[j].kind = "enroll" /\ role[a] = "ADMIN" -> "system"
                   [] OTHER -> "unlock")
  /\ UNCHANGED <<role, home, material, seals, editorial, recovery, memory, overlap, begun>>

EnrollSystem(j) ==
  /\ At(j, "system")
  /\ Go(j, IF System \in keyed THEN "unlock" ELSE "provision")
  /\ UNCHANGED <<account, material, seals, editorial, recovery, memory, overlap, begun>>

\* The material is row 1 and comes with the slot of the first administrator.
ProvisionSystem(j) ==
  LET a == job[j].who IN
  /\ At(j, "provision")
  /\ \/ ~(System \notin keyed /\ a \in kek) /\ End(j) /\ UNCHANGED <<keyed, slots>>
     \/ /\ System \notin keyed /\ a \in kek
        /\ keyed' = keyed \cup {System} /\ slots' = slots \cup {<<System, a>>}
        /\ Set(j, [job[j] EXCEPT !.step = "ensure", !.todo = {System}])
  /\ UNCHANGED <<account, pub, made, seals, editorial, recovery, memory, overlap, begun>>

EnrollUnlock(j) ==
  LET a == job[j].who IN
  /\ job[j].kind = "enroll"
  /\ At(j, "unlock") \/ (At(j, "ensure") /\ job[j].todo = {})
  /\ IF a \in kek
     THEN Set(j, [Idle EXCEPT !.kind = "unlock", !.who = a, !.step = "ensure",
                              !.got = SlotsOf(a), !.todo = SlotsOf(a)])
     ELSE End(j)
  /\ UNCHANGED <<account, material, seals, editorial, recovery, memory, overlap, begun>>

-----------------------------------------------------------------------------
(* A new administrator: the account with its recovery slots in one          *)
(* transaction, then its key, then the keys it gets, one call each.         *)

\* The order in which the authorities are read: by slotNumber, then by id.
Before(x, y) == x[2] < y[2] \/ (x[2] = y[2] /\ <<x, y>> \in older)
FirstOf(x, S) == x \in S /\ \A y \in S \ {x} : Before(x, y)
TopTwo(x, y) == FirstOf(x, auths) /\ FirstOf(y, auths \ {x})
TwoAuthorities == \E x, y \in auths : x # y

CreateAdmin(j, a, b, r, e) ==
  /\ Start(j, "admin", a, [Idle EXCEPT !.step = "commit", !.whom = b, !.tok = session[a].tok,
                                       !.own = IF r = "ADMIN" THEN NoOne ELSE e])
  /\ role[a] = "ADMIN" /\ role[b] = "none"
  /\ r = "ADMIN" \/ e \in rows
  /\ UNCHANGED <<account, material, seals, editorial, recovery, memory>>

CommitAdmin(j) ==
  LET b == job[j].whom
      e == job[j].own
  IN /\ At(j, "commit")
     /\ \/ ~(TwoAuthorities /\ role[b] = "none" /\ e \in rows \cup {NoOne})
           /\ End(j) /\ UNCHANGED <<role, home>>
        \/ /\ TwoAuthorities /\ role[b] = "none" /\ e \in rows \cup {NoOne}
           /\ role' = [role EXCEPT ![b] = IF e = NoOne THEN "ADMIN" ELSE "EDITORIAL_ADMIN"]
           /\ home' = [home EXCEPT ![b] = e]
           /\ Set(j, [job[j] EXCEPT !.step = "enroll", !.todo = {e} \ {NoOne}])
     /\ UNCHANGED <<kek, material, seals, editorial, recovery, memory, overlap, begun>>

\* grantSystemToAdmin and grantEditorialToAdmin: the upsert of one slot.
WriteSlot(o, a) == o \in keyed /\ a \in kek /\ slots' = slots \cup {<<o, a>>}

GrantSystem(j) ==
  /\ At(j, "grantSystem")
  /\ \/ ~HasKey(j, System) /\ End(j) /\ UNCHANGED slots
     \/ HasKey(j, System) /\ WriteSlot(System, job[j].whom) /\ Go(j, "list")
  /\ UNCHANGED <<account, keyed, pub, made, seals, editorial, recovery, memory, overlap, begun>>

ListEditorials(j) ==
  /\ At(j, "list")
  /\ Set(j, [job[j] EXCEPT !.step = "grants", !.todo = rows])
  /\ UNCHANGED <<account, material, seals, editorial, recovery, memory, overlap, begun>>

GrantEditorial(j, o) ==
  /\ At(j, "grants") /\ o \in job[j].todo
  /\ \/ ~HasKey(j, o) /\ End(j) /\ UNCHANGED slots
     \/ /\ HasKey(j, o) /\ WriteSlot(o, job[j].whom)
        /\ Set(j, [job[j] EXCEPT !.todo = @ \ {o}])
  /\ UNCHANGED <<account, keyed, pub, made, seals, editorial, recovery, memory, overlap, begun>>

GrantsDone(j) ==
  /\ At(j, "grants") /\ job[j].todo = {}
  /\ End(j)
  /\ UNCHANGED <<account, material, seals, editorial, recovery, memory, overlap, begun>>

\* claimEditorial takes the key from whichever session holds it.
Claim(j, a, o) ==
  /\ Start(j, "claim", a, [Idle EXCEPT !.step = "claim", !.own = o])
  /\ role[a] = "ADMIN" /\ session[a] # NoSession
  /\ \E b \in Admins : o \in session[b].keys
  /\ UNCHANGED <<account, material, seals, editorial, recovery, memory>>

ClaimWrite(j) ==
  /\ At(j, "claim") /\ WriteSlot(job[j].own, job[j].who)
  /\ End(j)
  /\ UNCHANGED <<account, keyed, pub, made, seals, editorial, recovery, memory, overlap, begun>>

-----------------------------------------------------------------------------
(* Removal: the last system administrator is kept by a count; the delete    *)
(* cascades to the key, its slots, and the authorities with what they open. *)

Removable(a, b) ==
  /\ Live(b) /\ a # b
  /\ role[b] = "ADMIN" => Cardinality(SystemAdmins) > 1

RemoveAdmin(j, a, b) ==
  /\ Start(j, "remove", a, [Idle EXCEPT !.step = "delete", !.whom = b])
  /\ role[a] = "ADMIN" /\ Removable(a, b)
  /\ UNCHANGED <<account, material, seals, editorial, recovery, memory>>

DeleteAdmin(j) ==
  LET b == job[j].whom IN
  /\ At(j, "delete") /\ Live(b)
  /\ role' = [role EXCEPT ![b] = "gone"]
  /\ kek' = kek \ {b}
  /\ slots' = {s \in slots : s[2] # b}
  /\ auths' = {x \in auths : x[1] # b}
  /\ older' = {p \in older : b \notin {p[1][1], p[2][1]}}
  /\ rslot' = [e \in Editorials |->
                 [i \in 1..2 |-> IF rslot[e][i][1] = b THEN NoAuthority ELSE rslot[e][i]]]
  /\ End(j)
  /\ UNCHANGED <<home, keyed, pub, made, seals, editorial, memory, overlap, begun>>

-----------------------------------------------------------------------------
(* A new editorial: the row, its key with the creator's slot, the read key, *)
(* the key in the creator's session, the recovery slots, and its data.      *)

CreateEditorial(j, a, e) ==
  /\ Start(j, "editorial", a, [Idle EXCEPT !.step = "material", !.own = e, !.tok = session[a].tok])
  /\ role[a] = "ADMIN" /\ session[a] # NoSession /\ e \notin used
  /\ rows' = rows \cup {e} /\ used' = used \cup {e}
  /\ UNCHANGED <<account, material, seals, data, recovery, memory>>

\* Variant: the creator's slot is left to a later claim.
ProvisionWithoutSlot(j) ==
  LET e == job[j].own IN
  /\ At(j, "material") /\ e \in rows
  /\ keyed' = keyed \cup {e}
  /\ Set(j, [job[j] EXCEPT !.step = "ensure", !.todo = {e}])
  /\ UNCHANGED <<account, slots, pub, made, seals, editorial, recovery, memory, overlap, begun>>

ProvisionEditorial(j) ==
  LET e == job[j].own
      a == job[j].who
  IN /\ At(j, "material") /\ e \in rows /\ a \in kek
     /\ keyed' = keyed \cup {e} /\ slots' = slots \cup {<<e, a>>}
     /\ Set(j, [job[j] EXCEPT !.step = "ensure", !.todo = {e}])
     /\ UNCHANGED <<account, pub, made, seals, editorial, recovery, memory, overlap, begun>>

PutKey(j) ==
  LET a == job[j].who IN
  /\ job[j].kind = "editorial" /\ At(j, "ensure") /\ job[j].todo = {}
  /\ session' = IF session[a].tok = job[j].tok /\ session[a] # NoSession
                THEN [session EXCEPT ![a].keys = @ \cup {job[j].own}] ELSE session
  /\ Go(j, "wrap")
  /\ UNCHANGED <<account, material, seals, editorial, recovery, ntok, overlap, begun>>

\* Variant: without two authorities there is nothing to wrap, and no error.
WrapReadLenient(j) ==
  /\ At(j, "wrap")
  /\ \/ ~TwoAuthorities /\ Go(j, "data")
     \/ \E x, y \in auths : TopTwo(x, y) /\ Set(j, [job[j] EXCEPT !.step = "wrap1", !.pair = <<x, y>>])
  /\ UNCHANGED <<account, material, seals, editorial, recovery, memory, overlap, begun>>

\* wrapOwnerForRecovery takes the first two authorities by slotNumber and id.
WrapRead(j) ==
  /\ At(j, "wrap")
  /\ \/ ~TwoAuthorities /\ End(j)
     \/ \E x, y \in auths : TopTwo(x, y) /\ Set(j, [job[j] EXCEPT !.step = "wrap1", !.pair = <<x, y>>])
  /\ UNCHANGED <<account, material, seals, editorial, recovery, memory, overlap, begun>>

WrapWrite(j, i) ==
  LET x == job[j].pair[i] IN
  /\ At(j, IF i = 1 THEN "wrap1" ELSE "wrap2") /\ x \in auths
  /\ rslot' = [rslot EXCEPT ![job[j].own][i] = x]
  /\ CASE i = 1 -> Go(j, "wrap2")
       [] i = 2 /\ job[j].kind = "editorial" -> Go(j, "data")
       [] OTHER -> End(j)
  /\ UNCHANGED <<account, material, seals, editorial, auths, older, memory, overlap, begun>>

\* Variant: the details are written although the editorial is gone.
WriteDataBlindly(j) ==
  /\ At(j, "data")
  /\ data' = data \cup {job[j].own}
  /\ End(j)
  /\ UNCHANGED <<account, material, seals, rows, used, recovery, memory, overlap, begun>>

WriteData(j) ==
  /\ At(j, "data") /\ job[j].own \in rows
  /\ data' = data \cup {job[j].own}
  /\ End(j)
  /\ UNCHANGED <<account, material, seals, rows, used, recovery, memory, overlap, begun>>

\* createRecoverySlots for an editorial: an authority per position, unless it
\* is there, and then wrapOwnerForRecovery with whichever two come first.
RecoverySlots(j, a, e, b, c) ==
  /\ Start(j, "recovery", a, [Idle EXCEPT !.step = "authority", !.own = e,
                                          !.pair = <<<<b, 1>>, <<c, 2>>>>])
  /\ role[a] = "ADMIN" /\ e \in session[a].keys
  /\ UNCHANGED <<account, material, seals, editorial, recovery, memory>>

CreateAuthority(j) ==
  LET x == Head(job[j].pair)
      rest == Tail(job[j].pair)
  IN /\ At(j, "authority") /\ Live(x[1])
     /\ auths' = auths \cup {x}
     /\ older' = IF x \in auths THEN older
                 ELSE older \cup {<<y, x>> : y \in {z \in auths : z[2] = x[2]}}
     /\ IF rest = <<>> THEN Set(j, [job[j] EXCEPT !.step = "wrap", !.pair = Idle.pair])
                       ELSE Set(j, [job[j] EXCEPT !.pair = rest])
     /\ UNCHANGED <<account, material, seals, editorial, rslot, memory, overlap, begun>>

\* The cascade of an editorial: its key and slots go, the recovery slots, which
\* name their owner only by text, stay; its administrators are unbound.
RemoveEditorial(e) ==
  /\ e \in rows
  /\ rows' = rows \ {e} /\ data' = data \ {e} /\ keyed' = keyed \ {e}
  /\ slots' = {s \in slots : s[1] # e}
  /\ home' = [a \in Admins |-> IF home[a] = e THEN NoOne ELSE home[a]]
  /\ UNCHANGED <<role, kek, pub, made, seals, used, recovery, memory, job, overlap, begun>>

-----------------------------------------------------------------------------
(* A profile key is sealed to the read key found earlier (registration,     *)
(* sign-in, joining).  Any await may throw; a restart ends everything.      *)

Seal(j, a, o) ==
  /\ Start(j, "seal", a, [Idle EXCEPT !.step = "seal", !.own = o, !.tok = pub[o]])
  /\ o \in keyed /\ pub[o] # 0
  /\ UNCHANGED <<account, material, seals, editorial, recovery, memory>>

SealWrite(j) ==
  /\ At(j, "seal")
  /\ seals' = seals \cup {<<job[j].own, job[j].tok>>}
  /\ End(j)
  /\ UNCHANGED <<account, material, editorial, recovery, memory, overlap, begun>>

Throw(j) ==
  /\ Busy(j) /\ End(j)
  /\ UNCHANGED <<account, material, seals, editorial, recovery, memory, overlap, begun>>

Restart ==
  /\ \E a \in Admins : session[a] # NoSession
  /\ session' = [a \in Admins |-> NoSession]
  /\ job' = [j \in Jobs |-> Idle]
  /\ UNCHANGED <<account, material, seals, editorial, recovery, ntok, overlap, begun>>

Request(j, a) ==
  \/ Unlock(j, a) \/ Enroll(j, a)
  \/ \E b \in Admins :
       \/ RemoveAdmin(j, a, b)
       \/ CreateAdmin(j, a, b, "ADMIN", NoOne)
       \/ \E e \in Editorials :
            \/ CreateAdmin(j, a, b, "EDITORIAL_ADMIN", e)
            \/ \E c \in Admins : RecoverySlots(j, a, e, b, c)
  \/ \E e \in Editorials : Claim(j, a, e) \/ CreateEditorial(j, a, e)
  \/ \E o \in Owners : Seal(j, a, o)

Step(j) ==
  \/ \E o \in Owners : EnsureReadKey(j, o) \/ GrantEditorial(j, o)
  \/ WriteReadKey(j) \/ OpenSession(j)
  \/ EnrollAdmin(j) \/ EnrollSystem(j) \/ ProvisionSystem(j) \/ EnrollUnlock(j)
  \/ CommitAdmin(j) \/ GrantSystem(j) \/ ListEditorials(j) \/ GrantsDone(j)
  \/ ClaimWrite(j) \/ DeleteAdmin(j)
  \/ ProvisionEditorial(j) \/ PutKey(j) \/ WrapRead(j) \/ WriteData(j)
  \/ \E i \in 1..2 : WrapWrite(j, i)
  \/ CreateAuthority(j) \/ SealWrite(j) \/ Throw(j)

Next ==
  \/ \E j \in Jobs : Step(j) \/ \E a \in Admins : Request(j, a)
  \/ \E a \in Admins : Drop(a)
  \/ \E e \in Editorials : RemoveEditorial(e)
  \/ Restart

Spec == Init /\ [][Next]_vars

-----------------------------------------------------------------------------
(* Properties.                                                              *)

JobKinds == {"idle", "unlock", "enroll", "admin", "claim", "remove", "editorial", "recovery", "seal"}

\* The types of the rows, the sessions and the handlers in flight.
TypeOK ==
  /\ role \in [Admins -> Roles \cup {"none", "gone"}]
  /\ home \in [Admins -> Editorials \cup {NoOne}]
  /\ kek \subseteq Admins /\ keyed \subseteq Owners /\ slots \subseteq Owners \X Admins
  /\ pub \in [Owners -> Nat] /\ made \in [Owners -> Nat] /\ seals \subseteq Owners \X Nat
  /\ rows \subseteq used /\ used \subseteq Editorials /\ data \subseteq rows
  /\ auths \subseteq Authorities /\ older \subseteq Authorities \X Authorities
  /\ rslot \in [Editorials -> [1..2 -> Authorities \cup {NoAuthority}]]
  /\ session \in [Admins -> [tok : 0..MaxTok, keys : SUBSET Owners]] /\ ntok \in 0..MaxTok
  /\ \A j \in Jobs : job[j].kind \in JobKinds /\ job[j].todo \subseteq Owners
  /\ overlap \in BOOLEAN /\ begun \in 0..MaxRequests

\* An administrator of an editorial holds, in slots and in memory, no key but
\* that of the editorial it is bound to: not the System KEK, which opens every
\* profile, and not another editorial's, whatever is granted, claimed,
\* provisioned or put meanwhile.  (A session may keep the key of an editorial
\* that is gone.)
EditorialAdminConfined ==
  \A a \in Admins : role[a] = "EDITORIAL_ADMIN" =>
    (SlotsOf(a) \cup session[a].keys) \cap keyed \subseteq {home[a]}

\* What a session holds in memory, the next unlock will hold again: for every
\* key in the session of a living administrator whose material still exists
\* there is a slot in the database (put, claim and the grants are in step).
SessionMatchesSlots ==
  \A a \in Admins : Live(a) => session[a].keys \cap keyed \subseteq SlotsOf(a)

\* What was sealed to a read key can be opened: the pair found in the database
\* is the one every seal was made to, as long as no two requests overlapped,
\* whichever of them threw midway.  Two overlapping unlocks make two pairs.
SealsReadable == ~overlap => \A s \in seals : s[1] \in keyed => s[2] = pub[s[1]]

\* An editorial whose details were written can be recovered: its key was sealed
\* to two authorities before, and until an administrator is removed both
\* recovery slots are there, whatever overlaps or throws.
DataHasRecovery ==
  (\A a \in Admins : role[a] # "gone") =>
    \A e \in data : NoAuthority \notin {rslot[e][1], rslot[e][2]}
=============================================================================
