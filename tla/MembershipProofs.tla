-------------------------- MODULE MembershipProofs --------------------------
(* Proofs about Membership, for every set of journalists, editorials and   *)
(* requests and every bound.                                               *)
EXTENDS Membership, TLAPS

(* TypeOK by table: what each part says, and what it depends on.           *)
PeopleOK ==
    /\ accounts \in [Journalists -> AccountStates]
    /\ files \subseteq Journalists
    /\ editorials \subseteq Editorials

MembersOK ==
    /\ members \subseteq MemberRow /\ rows \in 0..MaxRows /\ joined \subseteq Pairs
    /\ \A m \in members : m.id <= rows /\ Stands(m.of)
    /\ \A m, n \in members : m.id = n.id \/ m.of = n.of => m = n

LinksOK ==
    /\ invites \in [Pairs -> InviteStates]
    /\ grants \in [Pairs -> SUBSET Envelopes]
    /\ \A p \in Pairs : invites[p] # "none" \/ grants[p] # {} => Stands(p)

CardsOK ==
    /\ cards \subseteq CardRow /\ issued \in 0..MaxCards
    /\ \A c \in cards : c.id <= issued /\ Exists(c.j) /\ c.e \in editorials \cup {None}
    /\ \A c, d \in cards : c.id = d.id => c = d

RequestsOK == req \in [Requests -> Request]

LEMMA Parts == TypeOK <=> PeopleOK /\ MembersOK /\ LinksOK /\ CardsOK /\ RequestsOK
BY DEF TypeOK, PeopleOK, MembersOK, LinksOK, CardsOK, RequestsOK

LEMMA PartsAfter == TypeOK' <=> PeopleOK' /\ MembersOK' /\ LinksOK' /\ CardsOK' /\ RequestsOK'
BY DEF TypeOK, PeopleOK, MembersOK, LinksOK, CardsOK, RequestsOK

-----------------------------------------------------------------------------
(* The table of requests                                                   *)

LEMMA PairParts == ASSUME NEW p \in Pairs PROVE p[1] \in Journalists /\ p[2] \in Editorials
BY DEF Pairs

LEMMA AnyOfType == ASSUME NEW j \in Journalists PROVE AnyOf(j) \in Pairs
BY EditorialsAssumption DEF AnyOf, Pairs

LEMMA NoRequestType == NoRequest \in Request
<1>1. (CHOOSE j \in Journalists : TRUE) \in Journalists
  BY EditorialsAssumption
<1>2. AnyOf(CHOOSE j \in Journalists : TRUE) \in Pairs
  BY <1>1, AnyOfType
<1>3. QED
  BY <1>2 DEF NoRequest, Request, Steps

LEMMA FinishType ==
    ASSUME RequestsOK, NEW r \in Requests, Finish(r)
    PROVE  RequestsOK'
BY NoRequestType DEF Finish, RequestsOK

LEMMA ContinueType ==
    ASSUME RequestsOK, NEW r \in Requests, NEW step \in Steps, Continue(r, step)
    PROVE  RequestsOK'
BY DEF Continue, RequestsOK, Request

LEMMA BeginType ==
    ASSUME RequestsOK, NEW r \in Requests, NEW p \in Pairs, NEW step \in Steps, NEW id \in Nat,
           Begin(r, p, step, id)
    PROVE  RequestsOK'
<1>1. [NoRequest EXCEPT !.at = step, !.of = p, !.id = id] \in Request
  BY NoRequestType DEF Request
<1>2. QED
  BY <1>1 DEF Begin, RequestsOK

LEMMA KeyType ==
    ASSUME RequestsOK, NEW r \in Requests, NEW p \in Pairs, NEW id \in Nat, NEW next \in Steps,
           NEW want \in {"ACTIVE", "BLOCKED", "as is"}, Key(r, p, id, next, want)
    PROVE  RequestsOK'
<1>1. "key.read" \in Steps
  BY DEF Steps
<1>2. [NoRequest EXCEPT !.at = "key.read", !.of = p, !.id = id, !.next = next, !.want = want]
         \in Request
  BY <1>1, NoRequestType DEF Request
<1>3. QED
  BY <1>2 DEF Key, RequestsOK

LEMMA ResumeType ==
    ASSUME RequestsOK, NEW r \in Requests, Resume(r)
    PROVE  RequestsOK'
<1>1. req[r].next \in Steps
  BY DEF RequestsOK, Request
<1>2. CASE req[r].next = "idle"
  BY <1>2, FinishType DEF Resume
<1>3. CASE req[r].next # "idle"
  BY <1>1, <1>3, ContinueType DEF Resume
<1>4. QED
  BY <1>2, <1>3

LEMMA OfType ==
    ASSUME RequestsOK, NEW r \in Requests
    PROVE  /\ req[r].of \in Pairs /\ req[r].of[1] \in Journalists /\ req[r].of[2] \in Editorials
           /\ req[r].id \in Nat
           /\ req[r].todo \subseteq MemberRow /\ req[r].users \subseteq Journalists
           /\ req[r].want \in {"ACTIVE", "BLOCKED", "as is"}
BY DEF RequestsOK, Request, Pairs

-----------------------------------------------------------------------------
(* The tables                                                              *)

(* A part is kept by a step that leaves its tables and those its foreign   *)
(* keys go to alone.                                                       *)
LEMMA PeopleKept ==
    ASSUME PeopleOK, UNCHANGED <<people, editorials>> PROVE PeopleOK'
BY DEF PeopleOK, people

LEMMA MembersKept ==
    ASSUME MembersOK, UNCHANGED <<people, editorials, members, rows, joined>> PROVE MembersOK'
BY DEF MembersOK, people, Stands, Exists

LEMMA LinksKept ==
    ASSUME LinksOK, UNCHANGED <<people, editorials, invites, grants>> PROVE LinksOK'
BY DEF LinksOK, people, Stands, Exists

LEMMA CardsKept ==
    ASSUME CardsOK, UNCHANGED <<people, editorials, cards, issued>> PROVE CardsOK'
BY DEF CardsOK, people, Exists

LEMMA OnlyRequests ==
    ASSUME TypeOK, RequestsOK', UNCHANGED <<people, belonging, credentials>>
    PROVE  TypeOK'
BY Parts, PartsAfter, PeopleKept, MembersKept, LinksKept, CardsKept DEF belonging, credentials

(* UPDATE of the state of one membership row.                              *)
LEMMA SetMemberType ==
    ASSUME TypeOK, NEW r \in Requests, NEW state \in {"active", "removed", "expired"},
           NEW next \in Steps, SetMember(r, state, next)
    PROVE  TypeOK'
<1>1. CASE \E m \in members : m.id = req[r].id
  <2> DEFINE Set(m) == IF m.id = req[r].id THEN [m EXCEPT !.state = state] ELSE m
  <2>1. members' = {Set(m) : m \in members} /\ Continue(r, next)
    BY <1>1 DEF SetMember
  <2>2. \A m \in members : Set(m) \in MemberRow /\ Set(m).id = m.id /\ Set(m).of = m.of
    BY DEF TypeOK, MemberRow
  <2>3. UNCHANGED <<people, editorials, rows, joined, invites, grants, cards, issued>>
    BY DEF SetMember, credentials
  <2> HIDE DEF Set
  <2>4. members' \subseteq MemberRow
    BY <2>1, <2>2
  <2>5. \A n \in members' : n.id <= rows' /\ Stands(n.of)'
    BY <2>1, <2>2, <2>3 DEF TypeOK, Stands, Exists, people
  <2>6. \A m, n \in members' : m.id = n.id \/ m.of = n.of => m = n
    <3> SUFFICES ASSUME NEW m \in members', NEW n \in members', m.id = n.id \/ m.of = n.of
                 PROVE  m = n
      OBVIOUS
    <3>1. PICK a \in members : m = Set(a)
      BY <2>1
    <3>2. PICK b \in members : n = Set(b)
      BY <2>1
    <3>3. a.id = b.id \/ a.of = b.of
      BY <2>2, <3>1, <3>2
    <3>4. QED
      BY <3>1, <3>2, <3>3 DEF TypeOK
  <2>7. MembersOK'
    BY <2>3, <2>4, <2>5, <2>6, Parts DEF MembersOK
  <2>8. QED
    BY <2>1, <2>3, <2>7, Parts, PartsAfter, PeopleKept, LinksKept, CardsKept, ContinueType DEF people
<1>2. CASE ~\E m \in members : m.id = req[r].id
  BY <1>2, Parts, FinishType, OnlyRequests DEF SetMember, belonging
<1>3. QED
  BY <1>1, <1>2

(* INSERT of a membership row for a pair that has none.                    *)
LEMMA InsertMemberType ==
    ASSUME MembersOK, NEW p \in Pairs, Stands(p), RowOf(p) = {}, rows < MaxRows,
           UNCHANGED <<people, editorials>>, InsertMember(p)
    PROVE  MembersOK'
<1> DEFINE new == [id |-> rows + 1, of |-> p, state |-> "active"]
<1>1. rows' = rows + 1 /\ members' = members \cup {new} /\ joined' = joined \cup {p}
  BY DEF InsertMember
<1>2. rows + 1 \in 1..MaxRows
  BY BoundsAssumption DEF MembersOK
<1>3. new \in MemberRow /\ new.id = rows + 1 /\ new.of = p
  BY <1>2 DEF MemberRow
<1> HIDE DEF new
<1>4. \A m \in members : m.id # new.id /\ m.of # new.of
  <2> SUFFICES ASSUME NEW m \in members PROVE m.id # new.id /\ m.of # new.of
    OBVIOUS
  <2>1. m.id \in Nat /\ rows \in Nat /\ m.id <= rows
    BY DEF MembersOK, MemberRow
  <2>2. m.of # p
    BY DEF RowOf
  <2>3. QED
    BY <1>3, <2>1, <2>2
<1>5. members' \subseteq MemberRow /\ rows' \in 0..MaxRows /\ joined' \subseteq Pairs
  BY <1>1, <1>2, <1>3 DEF MembersOK
<1>6. \A m \in members' : m.id <= rows' /\ Stands(m.of)'
  <2> SUFFICES ASSUME NEW m \in members' PROVE m.id <= rows' /\ Stands(m.of)'
    OBVIOUS
  <2>1. CASE m \in members
    <3>1. m.id \in Nat /\ rows \in Nat /\ m.id <= rows /\ Stands(m.of)
      BY <2>1 DEF MembersOK, MemberRow
    <3>2. QED
      BY <1>1, <3>1 DEF Stands, Exists, people
  <2>2. CASE m = new
    <3>1. m.id = rows' /\ m.id \in Nat
      BY <1>1, <1>2, <1>3, <2>2
    <3>2. Stands(m.of)'
      BY <1>3, <2>2 DEF Stands, Exists, people
    <3>3. QED
      BY <3>1, <3>2
  <2>3. QED
    BY <1>1, <2>1, <2>2
<1>7. \A m, n \in members' : m.id = n.id \/ m.of = n.of => m = n
  BY <1>1, <1>4 DEF MembersOK
<1>8. QED
  BY <1>5, <1>6, <1>7 DEF MembersOK

LEMMA AddEnvelopeType ==
    ASSUME LinksOK, NEW p \in Pairs, NEW envelope \in Envelopes, AddEnvelope(p, envelope),
           UNCHANGED <<people, editorials, invites>>
    PROVE  LinksOK'
<1>1. CASE Stands(p)
  <2>1. grants' = [grants EXCEPT ![p] = @ \cup {envelope}]
    BY <1>1 DEF AddEnvelope
  <2>2. grants' \in [Pairs -> SUBSET Envelopes]
    BY <2>1 DEF LinksOK
  <2>3. \A q \in Pairs : q # p => grants'[q] = grants[q]
    BY <2>1 DEF LinksOK
  <2>4. \A q \in Pairs : Stands(q)' <=> Stands(q)
    BY DEF Stands, Exists, people
  <2>5. \A q \in Pairs : invites'[q] # "none" \/ grants'[q] # {} => Stands(q)'
    BY <1>1, <2>3, <2>4 DEF LinksOK
  <2>6. QED
    BY <2>2, <2>5 DEF LinksOK
<1>2. CASE ~Stands(p)
  BY <1>2, LinksKept DEF AddEnvelope
<1>3. QED
  BY <1>1, <1>2

(* A join request is set for a pair that stands, or taken away.            *)
LEMMA SetInviteType ==
    ASSUME LinksOK, NEW p \in Pairs, NEW status \in InviteStates, Stands(p) \/ status = "none",
           invites' = [invites EXCEPT ![p] = status], UNCHANGED <<people, editorials, grants>>
    PROVE  LinksOK'
<1>1. invites' \in [Pairs -> InviteStates]
  BY DEF LinksOK
<1>2. invites'[p] = status /\ \A q \in Pairs : q # p => invites'[q] = invites[q]
  BY DEF LinksOK
<1>3. \A q \in Pairs : Stands(q)' <=> Stands(q)
  BY DEF Stands, Exists, people
<1>4. \A q \in Pairs : invites'[q] # "none" \/ grants'[q] # {} => Stands(q)'
  BY <1>2, <1>3 DEF LinksOK
<1>5. QED
  BY <1>1, <1>4 DEF LinksOK

(* UPDATE of a card row: it keeps its journalist and its editorial.        *)
LEMMA SetCardType ==
    ASSUME CardsOK, NEW c \in cards, NEW d \in CardRow, d.id = c.id, d.j = c.j, d.e = c.e,
           SetCard(c.id, d), UNCHANGED <<people, editorials, issued>>
    PROVE  CardsOK'
<1> DEFINE Set(x) == IF x.id = c.id THEN d ELSE x
<1>1. cards' = {Set(x) : x \in cards}
  BY DEF SetCard
<1>2. \A x \in cards : /\ Set(x) \in CardRow
                       /\ Set(x).id = x.id /\ Set(x).j = x.j /\ Set(x).e = x.e
  BY DEF CardsOK
<1> HIDE DEF Set
<1>3. cards' \subseteq CardRow
  BY <1>1, <1>2
<1>4. \A x \in cards' : x.id <= issued' /\ Exists(x.j)' /\ x.e \in editorials' \cup {None}
  BY <1>1, <1>2 DEF CardsOK, Exists, people
<1>5. \A x, y \in cards' : x.id = y.id => x = y
  BY <1>1, <1>2 DEF CardsOK
<1>6. QED
  BY <1>3, <1>4, <1>5 DEF CardsOK

(* UPDATE of users.deletedAt of a row that is there.                       *)
LEMMA SetAccountType ==
    ASSUME TypeOK, NEW r \in Requests, NEW j \in Journalists, NEW state \in {"live", "deleted"},
           NEW next \in Steps, SetAccount(r, j, state, next)
    PROVE  TypeOK'
<1>1. CASE Exists(j)
  <2>1. /\ accounts' = [accounts EXCEPT ![j] = state]
        /\ UNCHANGED <<files, belonging, credentials>>
    BY <1>1 DEF SetAccount
  <2>2. accounts' \in [Journalists -> AccountStates]
    BY <2>1 DEF TypeOK, AccountStates
  <2>3. \A k \in Journalists : Exists(k) => Exists(k)'
    BY <2>1 DEF TypeOK, Exists
  <2>4. \A p \in Pairs : Stands(p) => Stands(p)'
    BY <2>1, <2>3, PairParts DEF Stands, belonging
  <2>5. PeopleOK' /\ MembersOK' /\ LinksOK'
    BY <2>1, <2>2, <2>4, Parts
       DEF PeopleOK, MembersOK, LinksOK, MemberRow, belonging, credentials
  <2>6. CardsOK'
    BY <2>1, <2>3, Parts DEF CardsOK, CardRow, belonging, credentials
  <2>7. RequestsOK'
    <3>1. CASE next = "idle"
      BY <1>1, <3>1, Parts, FinishType DEF SetAccount
    <3>2. CASE next # "idle"
      BY <1>1, <3>2, Parts, ContinueType DEF SetAccount
    <3>3. QED
      BY <3>1, <3>2
  <2>8. QED
    BY <2>5, <2>6, <2>7, PartsAfter
<1>2. CASE ~Exists(j)
  BY <1>2, Parts, FinishType, OnlyRequests DEF SetAccount, people
<1>3. QED
  BY <1>1, <1>2

-----------------------------------------------------------------------------
(* The handlers                                                            *)

LEMMA JoiningType ==
    ASSUME TypeOK, NEW r \in Requests, Joining(r)
    PROVE  TypeOK'
<1> USE Parts, PartsAfter
<1> DEFINE p == req[r].of
<1>p. p \in Pairs
  BY OfType
<1>1. CASE \E q \in Pairs : AttachRead(r, q, "attach") \/ AttachRead(r, q, "superAttach")
  <2>1. PICK q \in Pairs, handler \in {"attach", "superAttach"} : AttachRead(r, q, handler)
    BY <1>1
  <2>2. RequestsOK'
    <3>1. CASE \E m \in RowOf(q) : Begin(r, q, "attach.reactivate", m.id)
      <4>1. PICK m \in RowOf(q) : Begin(r, q, "attach.reactivate", m.id)
        BY <3>1
      <4>2. m.id \in Nat
        BY DEF RowOf, TypeOK, MemberRow
      <4>3. "attach.reactivate" \in Steps
        BY DEF Steps
      <4>4. QED
        BY <4>1, <4>2, <4>3, BeginType
    <3>2. CASE Begin(r, q, IF handler = "attach" THEN "attach.invite" ELSE "attach.create", 0)
      <4>1. (IF handler = "attach" THEN "attach.invite" ELSE "attach.create") \in Steps
        BY DEF Steps
      <4>2. QED
        BY <3>2, <4>1, BeginType
    <3>3. QED
      BY <2>1, <3>1, <3>2 DEF AttachRead
  <2>3. QED
    BY <2>1, <2>2, OnlyRequests DEF AttachRead
<1>2. CASE \E q \in Pairs, accept \in BOOLEAN : RespondRead(r, q, accept)
  <2>1. PICK q \in Pairs, accept \in BOOLEAN : RespondRead(r, q, accept)
    BY <1>2
  <2>2. (IF accept THEN "respond.accept" ELSE "respond.reject") \in Steps
    BY DEF Steps
  <2>3. QED
    BY <2>1, <2>2, BeginType, OnlyRequests DEF RespondRead
<1>3. CASE AttachReactivate(r)
  <2>1. "answer" \in Steps
    BY DEF Steps
  <2>2. QED
    BY <1>3, <2>1, SetMemberType DEF AttachReactivate
<1>4. CASE AttachInvite(r)
  <2>1. LinksOK'
    <3>1. CASE Stands(p)
      <4>1. "PENDING" \in InviteStates
        BY DEF InviteStates
      <4>2. QED
        BY <1>p, <1>4, <3>1, <4>1, SetInviteType DEF AttachInvite, credentials
    <3>2. CASE ~Stands(p)
      BY <1>4, <3>2, LinksKept DEF AttachInvite, credentials
    <3>3. QED
      BY <3>1, <3>2
  <2>2. QED
    BY <1>4, <2>1, PeopleKept, MembersKept, CardsKept, FinishType DEF AttachInvite, credentials
<1>5. CASE AttachCreate(r)
  <2>1. CASE Stands(p) /\ RowOf(p) = {} /\ rows < MaxRows
    <3>1. /\ InsertMember(p) /\ Continue(r, "attach.grant")
          /\ UNCHANGED <<people, credentials, editorials, invites>>
      BY <1>5, <2>1 DEF AttachCreate
    <3>2. MembersOK'
      BY <1>p, <2>1, <3>1, InsertMemberType
    <3>3. RequestsOK'
      <4>1. "attach.grant" \in Steps
        BY DEF Steps
      <4>2. QED
        BY <3>1, <4>1, ContinueType
    <3>4. QED
      BY <3>1, <3>2, <3>3, PeopleKept, LinksKept, CardsKept DEF credentials
  <2>2. CASE ~(Stands(p) /\ RowOf(p) = {} /\ rows < MaxRows)
    BY <1>5, <2>2, FinishType, OnlyRequests DEF AttachCreate, belonging
  <2>3. QED
    BY <2>1, <2>2
<1>6. CASE AttachGrant(r)
  <2>1. LinksOK'
    <3>1. "wrapped" \in Envelopes
      BY DEF Envelopes
    <3>2. CASE UNCHANGED grants
      BY <1>6, <3>2, LinksKept DEF AttachGrant, belonging
    <3>3. CASE AddEnvelope(p, "wrapped")
      BY <1>p, <1>6, <3>1, <3>3, AddEnvelopeType DEF AttachGrant, belonging
    <3>4. QED
      BY <1>6, <3>2, <3>3 DEF AttachGrant
  <2>2. RequestsOK'
    <3>1. "answer" \in Steps
      BY DEF Steps
    <3>2. QED
      BY <1>6, <3>1, ContinueType DEF AttachGrant
  <2>3. QED
    BY <1>6, <2>1, <2>2, PeopleKept, MembersKept, CardsKept DEF AttachGrant, belonging
<1>7. CASE RespondReject(r)
  <2>1. LinksOK'
    <3>1. CASE invites[p] = "none"
      BY <1>7, <3>1, LinksKept DEF RespondReject, credentials
    <3>2. CASE invites[p] # "none"
      <4>1. Stands(p)
        BY <1>p, <3>2 DEF LinksOK
      <4>2. "REJECTED" \in InviteStates
        BY DEF InviteStates
      <4>3. QED
        BY <1>p, <1>7, <3>2, <4>1, <4>2, SetInviteType DEF RespondReject, credentials
    <3>3. QED
      BY <3>1, <3>2
  <2>2. QED
    BY <1>7, <2>1, PeopleKept, MembersKept, CardsKept, FinishType DEF RespondReject, credentials
<1>8. CASE RespondAccept(r)
  <2>1. CASE Stands(p) /\ invites[p] # "none" /\ (RowOf(p) = {} => rows < MaxRows)
    <3>1. /\ IF RowOf(p) = {} THEN InsertMember(p) ELSE UNCHANGED <<rows, members, joined>>
          /\ AddEnvelope(p, "sealed")
          /\ invites' = [invites EXCEPT ![p] = "ACCEPTED"]
          /\ Finish(r) /\ UNCHANGED <<people, editorials, cards, issued>>
      BY <1>8, <2>1 DEF RespondAccept
    <3>2. MembersOK'
      BY <1>p, <2>1, <3>1, InsertMemberType, MembersKept
    <3>3. LinksOK'
      <4>1. grants' = [grants EXCEPT ![p] = @ \cup {"sealed"}]
        BY <2>1, <3>1 DEF AddEnvelope
      <4>2. grants' \in [Pairs -> SUBSET Envelopes] /\ invites' \in [Pairs -> InviteStates]
        BY <3>1, <4>1 DEF LinksOK, Envelopes, InviteStates
      <4>3. \A q \in Pairs : q # p => grants'[q] = grants[q] /\ invites'[q] = invites[q]
        BY <3>1, <4>1 DEF LinksOK
      <4>4. \A q \in Pairs : Stands(q)' <=> Stands(q)
        BY <3>1 DEF Stands, Exists, people
      <4>5. QED
        BY <2>1, <4>2, <4>3, <4>4 DEF LinksOK
    <3>4. QED
      BY <3>1, <3>2, <3>3, PeopleKept, CardsKept, FinishType
  <2>2. CASE ~(Stands(p) /\ invites[p] # "none" /\ (RowOf(p) = {} => rows < MaxRows))
    BY <1>8, <2>2, FinishType, OnlyRequests DEF RespondAccept, belonging, credentials
  <2>3. QED
    BY <2>1, <2>2
<1>9. QED
  BY <1>1, <1>2, <1>3, <1>4, <1>5, <1>6, <1>7, <1>8 DEF Joining

LEMMA LeavingType ==
    ASSUME TypeOK, NEW r \in Requests, Leaving(r)
    PROVE  TypeOK'
<1> USE Parts, PartsAfter
<1>s. {"detach.count", "detach.write", "detach.invites", "restore.write", "answer"} \subseteq Steps
  BY DEF Steps
<1>i. \A m \in members : m.id \in Nat
  BY DEF TypeOK, MemberRow
<1>1. ASSUME NEW q \in Pairs, DetachRead(r, q) \/ RestoreMembership(r, q)
      PROVE  TypeOK'
  <2>1. PICK m \in RowOf(q), step \in {"detach.count", "restore.write"} : Begin(r, q, step, m.id)
    BY <1>1 DEF DetachRead, RestoreMembership
  <2>2. m.id \in Nat
    BY <1>i DEF RowOf
  <2>3. RequestsOK'
    BY <1>s, <2>1, <2>2, BeginType
  <2>4. QED
    BY <1>1, <2>3, OnlyRequests DEF DetachRead, RestoreMembership
<1>2. CASE DetachCount(r)
  BY <1>s, <1>2, FinishType, ContinueType, OnlyRequests DEF DetachCount
<1>3. CASE DetachWrite(r)
  BY <1>s, <1>3, SetMemberType DEF DetachWrite
<1>4. CASE DetachInvites(r)
  <2>1. "none" \in InviteStates
    BY DEF InviteStates
  <2>2. LinksOK'
    BY <1>4, <2>1, OfType, SetInviteType DEF DetachInvites, credentials
  <2>3. RequestsOK'
    BY <1>s, <1>4, ContinueType DEF DetachInvites
  <2>4. QED
    BY <1>4, <2>2, <2>3, PeopleKept, MembersKept, CardsKept DEF DetachInvites, credentials
<1>5. CASE RestoreMembershipWrite(r)
  BY <1>s, <1>5, SetMemberType DEF RestoreMembershipWrite
<1>6. QED
  BY <1>1, <1>2, <1>3, <1>4, <1>5 DEF Leaving

LEMMA GrantingType ==
    ASSUME TypeOK, NEW r \in Requests, Granting(r)
    PROVE  TypeOK'
<1> USE Parts, PartsAfter
<1> DEFINE p == req[r].of
<1>p. p \in Pairs
  BY OfType
<1>s. {"grant.write", "signIn.restore", "signIn.grants", "signIn.seal", "key.wrap", "idle"}
        \subseteq Steps
  BY DEF Steps
<1>e. Envelopes = {"sealed", "wrapped"}
  BY DEF Envelopes
<1>m. \A m \in members : m.of \in Pairs
  BY DEF TypeOK, MemberRow
<1>1. ASSUME NEW q \in Pairs, GrantRead(r, q)
      PROVE  TypeOK'
  BY <1>s, <1>1, BeginType, OnlyRequests DEF GrantRead
<1>2. ASSUME NEW q \in Pairs, AdminRead(r, q)
      PROVE  TypeOK'
  BY <1>s, <1>2, KeyType, OnlyRequests DEF AdminRead
<1>3. ASSUME NEW j \in Journalists, SignInRead(r, j)
      PROVE  TypeOK'
  <2> DEFINE todo == {m \in members : m.of[1] = j /\ m.state = "active"}
             step == IF accounts[j] = "deleted" THEN "signIn.restore" ELSE "signIn.grants"
  <2>1. todo \subseteq MemberRow /\ step \in Steps
    BY <1>s DEF TypeOK
  <2>2. req' = [req EXCEPT ![r] = [NoRequest EXCEPT !.at = step, !.of = AnyOf(j), !.todo = todo]]
    BY <1>3 DEF SignInRead
  <2> HIDE DEF todo, step
  <2>3. [NoRequest EXCEPT !.at = step, !.of = AnyOf(j), !.todo = todo] \in Request
    BY <2>1, AnyOfType, NoRequestType DEF Request
  <2>4. RequestsOK'
    BY <2>2, <2>3 DEF RequestsOK
  <2>5. QED
    BY <1>3, <2>4, OnlyRequests DEF SignInRead
<1>4. CASE GrantWrite(r)
  <2>1. LinksOK'
    BY <1>p, <1>e, <1>4, AddEnvelopeType DEF GrantWrite, belonging
  <2>2. QED
    BY <1>4, <2>1, PeopleKept, MembersKept, CardsKept, FinishType DEF GrantWrite, belonging
<1>5. CASE SignInRestore(r)
  BY <1>s, <1>5, OfType, SetAccountType DEF SignInRestore
<1>6. CASE SignInGrants(r)
  <2>1. CASE Finish(r)
    BY <1>6, <2>1, FinishType, OnlyRequests DEF SignInGrants
  <2>2. CASE \E m \in req[r].todo :
               req' = [req EXCEPT ![r].todo = @ \ {m}, ![r].of = m.of,
                                  ![r].at = IF grants[m.of] = {} /\ m.of[2] \in editorials
                                            THEN "signIn.seal" ELSE "signIn.grants"]
    <3>1. PICK m \in req[r].todo :
               req' = [req EXCEPT ![r].todo = @ \ {m}, ![r].of = m.of,
                                  ![r].at = IF grants[m.of] = {} /\ m.of[2] \in editorials
                                            THEN "signIn.seal" ELSE "signIn.grants"]
      BY <2>2
    <3>2. m.of \in Pairs
      BY OfType DEF MemberRow
    <3> DEFINE step == IF grants[m.of] = {} /\ m.of[2] \in editorials
                       THEN "signIn.seal" ELSE "signIn.grants"
               new == [req[r] EXCEPT !.todo = @ \ {m}, !.of = m.of, !.at = step]
    <3>3. step \in Steps
      BY <1>s
    <3>4. req' = [req EXCEPT ![r] = new]
      BY <3>1 DEF RequestsOK, Request
    <3> HIDE DEF step
    <3>5. new \in Request
      BY <3>2, <3>3 DEF RequestsOK, Request
    <3> HIDE DEF new
    <3>6. RequestsOK'
      BY <3>4, <3>5 DEF RequestsOK
    <3>7. QED
      BY <1>6, <3>6, OnlyRequests DEF SignInGrants
  <2>3. QED
    BY <1>6, <2>1, <2>2 DEF SignInGrants
<1>7. CASE SignInSeal(r)
  <2>1. LinksOK'
    BY <1>p, <1>e, <1>7, AddEnvelopeType DEF SignInSeal, belonging
  <2>2. RequestsOK'
    BY <1>s, <1>7, FinishType, ContinueType DEF SignInSeal
  <2>3. QED
    BY <1>7, <2>1, <2>2, PeopleKept, MembersKept, CardsKept DEF SignInSeal, belonging
<1>8. CASE Answer(r)
  <2>1. CASE Finish(r)
    BY <1>8, <2>1, FinishType, OnlyRequests DEF Answer
  <2>2. CASE \E m \in members : Key(r, m.of, 0, "idle", "as is")
    BY <1>s, <1>m, <1>8, <2>2, KeyType, OnlyRequests DEF Answer
  <2>3. QED
    BY <1>8, <2>1, <2>2 DEF Answer
<1>9. CASE KeyRead(r)
  <2>1. Finish(r) \/ Resume(r) \/ Continue(r, "key.wrap")
    BY <1>9 DEF KeyRead
  <2>2. RequestsOK'
    BY <1>s, <2>1, FinishType, ResumeType, ContinueType
  <2>3. QED
    BY <1>9, <2>2, OnlyRequests DEF KeyRead
<1>10. CASE KeyWrap(r)
  <2>1. RequestsOK'
    BY <1>10, FinishType, ResumeType DEF KeyWrap
  <2>2. LinksOK'
    <3>1. CASE grants[p] # {}
      <4>1. grants' = [grants EXCEPT ![p] = @ \cup {"wrapped"}]
        BY <1>10, <3>1 DEF KeyWrap
      <4>2. Stands(p)
        BY <1>p, <3>1 DEF LinksOK
      <4>3. AddEnvelope(p, "wrapped")
        BY <4>1, <4>2 DEF AddEnvelope
      <4>4. QED
        BY <1>p, <1>e, <1>10, <4>3, AddEnvelopeType DEF KeyWrap, belonging
    <3>2. CASE grants[p] = {}
      BY <1>10, <3>2, LinksKept DEF KeyWrap, belonging
    <3>3. QED
      BY <3>1, <3>2
  <2>3. QED
    BY <1>10, <2>1, <2>2, PeopleKept, MembersKept, CardsKept DEF KeyWrap, belonging
<1>11. QED
  BY <1>1, <1>2, <1>3, <1>4, <1>5, <1>6, <1>7, <1>8, <1>9, <1>10 DEF Granting

LEMMA IssuingType ==
    ASSUME TypeOK, NEW r \in Requests, Issuing(r)
    PROVE  TypeOK'
<1> USE Parts, PartsAfter
<1> DEFINE p == req[r].of
<1>p. p \in Pairs /\ p[1] \in Journalists /\ p[2] \in Editorials
  BY OfType
<1>s. {"card.create", "card.data", "card.write", "card.block", "card.remove", "idle"}
        \subseteq Steps
  BY DEF Steps
<1>c. \A c \in cards : /\ c.id \in Nat /\ c.j \in Journalists
                       /\ (c.e # None => <<c.j, c.e>> \in Pairs)
  BY DEF TypeOK, CardRow, Pairs
<1>o. \A c \in CardOf(req[r].id) : c \in cards /\ c \in CardRow
  BY DEF CardOf, CardsOK
<1>a. ASSUME NEW c \in cards, AnswerCard(r, c) PROVE RequestsOK'
  BY <1>s, <1>c, <1>a, FinishType, KeyType DEF AnswerCard
<1>1. ASSUME NEW q \in Pairs, IssueRead(r, q) PROVE TypeOK'
  BY <1>s, <1>1, KeyType, OnlyRequests DEF IssueRead
<1>2. ASSUME NEW c \in cards, RenewRead(r, c) PROVE TypeOK'
  BY <1>s, <1>c, <1>2, KeyType, OnlyRequests DEF RenewRead
<1>3. ASSUME NEW c \in cards, NEW want \in {"ACTIVE", "BLOCKED", "as is"}, UpdateRead(r, c, want)
      PROVE  TypeOK'
  BY <1>s, <1>c, <1>3, KeyType, OnlyRequests DEF UpdateRead
<1>4. ASSUME NEW c \in cards, BlockRead(r, c) \/ RemoveRead(r, c) PROVE TypeOK'
  <2>1. PICK step \in {"card.block", "card.remove"} :
          req' = [req EXCEPT ![r] = [NoRequest EXCEPT !.at = step, !.id = c.id]]
    BY <1>4 DEF BlockRead, RemoveRead
  <2>2. [NoRequest EXCEPT !.at = step, !.id = c.id] \in Request
    BY <1>s, <1>c, NoRequestType DEF Request
  <2>3. RequestsOK'
    BY <2>1, <2>2 DEF RequestsOK
  <2>4. QED
    BY <1>4, <2>3, OnlyRequests DEF BlockRead, RemoveRead
<1>5. CASE CardCreate(r)
  <2>1. CASE Stands(p) /\ issued < MaxCards
    <3> DEFINE new == [id |-> issued + 1, j |-> p[1], e |-> p[2],
                       status |-> "ACTIVE", data |-> FALSE]
    <3>1. /\ issued' = issued + 1 /\ cards' = cards \cup {new}
          /\ req' = [req EXCEPT ![r].at = "card.data", ![r].id = issued + 1]
          /\ UNCHANGED <<people, belonging, grants>>
      BY <1>5, <2>1 DEF CardCreate
    <3>2. issued \in Nat /\ issued + 1 \in 1..MaxCards
      BY <2>1, BoundsAssumption DEF CardsOK
    <3>3. new \in CardRow /\ new.id = issued + 1 /\ new.j = p[1] /\ new.e = p[2]
      BY <1>p, <3>2 DEF CardRow
    <3> HIDE DEF new
    <3>4. Exists(new.j) /\ new.e \in editorials
      BY <2>1, <3>3 DEF Stands
    <3>5. \A c \in cards : c.id \in Nat /\ c.id <= issued
      BY <1>c DEF CardsOK
    <3>6. \A c \in cards : c.id # new.id
      BY <3>2, <3>3, <3>5
    <3>7. cards' \subseteq CardRow /\ issued' \in 0..MaxCards
      BY <3>1, <3>2, <3>3 DEF CardsOK
    <3>8. \A c \in cards' : c.id <= issued'
      BY <3>1, <3>2, <3>3, <3>5
    <3>9. \A c \in cards' : Exists(c.j)' /\ c.e \in editorials' \cup {None}
      BY <3>1, <3>4 DEF CardsOK, Exists, people, belonging
    <3>10. \A c, d \in cards' : c.id = d.id => c = d
      BY <3>1, <3>6 DEF CardsOK
    <3>11. CardsOK'
      BY <3>7, <3>8, <3>9, <3>10 DEF CardsOK
    <3>12. RequestsOK'
      <4> DEFINE next == [req[r] EXCEPT !.at = "card.data", !.id = issued + 1]
      <4>1. next \in Request
        <5>1. req[r] \in Request /\ issued + 1 \in Nat /\ "card.data" \in Steps
          BY <1>s, <3>2 DEF RequestsOK
        <5>2. QED
          BY <5>1 DEF Request
      <4>2. req' = [req EXCEPT ![r] = next]
        BY <3>1 DEF RequestsOK, Request
      <4>3. QED
        BY <4>1, <4>2 DEF RequestsOK
    <3>13. QED
      BY <3>1, <3>11, <3>12, PeopleKept, MembersKept, LinksKept DEF belonging
  <2>2. CASE ~(Stands(p) /\ issued < MaxCards)
    BY <1>5, <2>2, FinishType, OnlyRequests DEF CardCreate, credentials
  <2>3. QED
    BY <2>1, <2>2
<1>6. CASE CardData(r)
  <2>1. CASE UNCHANGED cards
    BY <1>6, <2>1, FinishType, OnlyRequests DEF CardData, credentials
  <2>2. CASE \E c \in CardOf(req[r].id) : SetCard(c.id, [c EXCEPT !.data = TRUE])
    <3>1. PICK c \in CardOf(req[r].id) : SetCard(c.id, [c EXCEPT !.data = TRUE])
      BY <2>2
    <3> DEFINE d == [c EXCEPT !.data = TRUE]
    <3>2. c \in cards /\ d \in CardRow /\ d.id = c.id /\ d.j = c.j /\ d.e = c.e
      BY <1>o DEF CardRow
    <3>3. CardsOK'
      BY <1>6, <3>1, <3>2, SetCardType DEF CardData, belonging
    <3>4. QED
      BY <1>6, <3>3, PeopleKept, MembersKept, LinksKept, FinishType DEF CardData, belonging
  <2>3. QED
    BY <1>6, <2>1, <2>2 DEF CardData
<1>7. CASE CardWrite(r)
  <2> DEFINE d(c) == [c EXCEPT !.status = IF req[r].want = "as is" THEN @ ELSE req[r].want]
  <2>1. CASE Finish(r) /\ UNCHANGED cards
    BY <1>7, <2>1, FinishType, OnlyRequests DEF CardWrite, credentials
  <2>2. CASE \E c \in CardOf(req[r].id) : SetCard(c.id, d(c)) /\ AnswerCard(r, c)
    <3>1. PICK c \in CardOf(req[r].id) : SetCard(c.id, d(c)) /\ AnswerCard(r, c)
      BY <2>2
    <3>2. c \in cards /\ d(c) \in CardRow /\ d(c).id = c.id /\ d(c).j = c.j /\ d(c).e = c.e
      <4>1. c \in cards /\ c \in CardRow /\ req[r].want \in {"ACTIVE", "BLOCKED", "as is"}
        BY <1>o, OfType
      <4>2. QED
        BY <4>1 DEF CardRow
    <3> HIDE DEF d
    <3>3. CardsOK'
      BY <1>7, <3>1, <3>2, SetCardType DEF CardWrite, belonging
    <3>4. RequestsOK'
      BY <1>a, <3>1, <3>2
    <3>5. QED
      BY <1>7, <3>3, <3>4, PeopleKept, MembersKept, LinksKept DEF CardWrite, belonging
  <2>3. QED
    BY <1>7, <2>1, <2>2 DEF CardWrite
<1>8. CASE CardBlock(r)
  <2>1. CASE Finish(r) /\ UNCHANGED cards
    BY <1>8, <2>1, FinishType, OnlyRequests DEF CardBlock, credentials
  <2>2. CASE \E c \in CardOf(req[r].id) :
               SetCard(c.id, [c EXCEPT !.status = "BLOCKED"]) /\ AnswerCard(r, c)
    <3>1. PICK c \in CardOf(req[r].id) :
               SetCard(c.id, [c EXCEPT !.status = "BLOCKED"]) /\ AnswerCard(r, c)
      BY <2>2
    <3> DEFINE d == [c EXCEPT !.status = "BLOCKED"]
    <3>2. c \in cards /\ d \in CardRow /\ d.id = c.id /\ d.j = c.j /\ d.e = c.e
      BY <1>o DEF CardRow
    <3>3. CardsOK'
      BY <1>8, <3>1, <3>2, SetCardType DEF CardBlock, belonging
    <3>4. RequestsOK'
      BY <1>a, <3>1, <3>2
    <3>5. QED
      BY <1>8, <3>3, <3>4, PeopleKept, MembersKept, LinksKept DEF CardBlock, belonging
  <2>3. QED
    BY <1>8, <2>1, <2>2 DEF CardBlock
<1>9. CASE CardRemove(r)
  <2>1. CardsOK'
    BY <1>9 DEF CardRemove, CardsOK, Exists, people, belonging
  <2>2. QED
    BY <1>9, <2>1, PeopleKept, MembersKept, LinksKept, FinishType DEF CardRemove, belonging
<1>10. QED
  BY <1>1, <1>2, <1>3, <1>4, <1>5, <1>6, <1>7, <1>8, <1>9 DEF Issuing

LEMMA DeletingType ==
    ASSUME TypeOK, NEW r \in Requests, Deleting(r)
    PROVE  TypeOK'
<1> USE Parts, PartsAfter
<1>s. {"account.remove", "account.restore", "editorial.remove", "idle", "answer"} \subseteq Steps
  BY DEF Steps
<1>1. ASSUME NEW j \in Journalists, RemoveAccount(r, j) \/ RestoreAccount(r, j)
      PROVE  TypeOK'
  BY <1>s, <1>1, AnyOfType, BeginType, OnlyRequests DEF RemoveAccount, RestoreAccount
<1>2. ASSUME NEW q \in Pairs, RemoveEditorial(r, q) PROVE TypeOK'
  BY <1>s, <1>2, BeginType, OnlyRequests DEF RemoveEditorial
<1>3. CASE AccountRemove(r)
  BY <1>s, <1>3, OfType, SetAccountType DEF AccountRemove
<1>4. CASE AccountRestore(r)
  BY <1>s, <1>4, OfType, SetAccountType DEF AccountRestore
<1>5. CASE EditorialRemove(r)
  <2> DEFINE e == req[r].of[2]
             Cut(c) == IF c.e = e THEN [c EXCEPT !.e = None] ELSE c
  <2>1. /\ editorials' = editorials \ {e}
        /\ members' = {m \in members : m.of[2] # e}
        /\ invites' = [p \in Pairs |-> IF p[2] = e THEN "none" ELSE invites[p]]
        /\ grants' = [p \in Pairs |-> IF p[2] = e THEN {} ELSE grants[p]]
        /\ cards' = {Cut(c) : c \in cards}
        /\ Finish(r) /\ UNCHANGED <<people, rows, joined, issued>>
    BY <1>5 DEF EditorialRemove
  <2>2. \A c \in cards : /\ Cut(c) \in CardRow /\ Cut(c).id = c.id /\ Cut(c).j = c.j
                         /\ Cut(c).e \in (editorials \ {e}) \cup {None}
    BY DEF CardsOK, CardRow
  <2> HIDE DEF e, Cut
  <2>3. \A p \in Pairs : Stands(p)' <=> Stands(p) /\ p[2] # e
    BY <2>1 DEF Stands, Exists, people
  <2>4. PeopleOK'
    BY <2>1 DEF PeopleOK, people
  <2>5. MembersOK'
    BY <2>1, <2>3 DEF MembersOK, MemberRow
  <2>6. invites' \in [Pairs -> InviteStates] /\ grants' \in [Pairs -> SUBSET Envelopes]
    BY <2>1 DEF LinksOK, InviteStates
  <2>7. \A p \in Pairs : invites'[p] # "none" \/ grants'[p] # {} => Stands(p)'
    BY <2>1, <2>3 DEF LinksOK
  <2>8. CardsOK'
    BY <2>1, <2>2 DEF CardsOK, Exists, people
  <2>9. QED
    BY <2>1, <2>4, <2>5, <2>6, <2>7, <2>8, FinishType DEF LinksOK
<1>6. QED
  BY <1>1, <1>2, <1>3, <1>4, <1>5 DEF Deleting

LEMMA PurgingType ==
    ASSUME TypeOK, NEW r \in Requests, PurgeStart(r) \/ Purging(r)
    PROVE  TypeOK'
<1> USE Parts, PartsAfter
<1>s. {"purge.members", "purge.drop", "purge.files", "purge.user"} \subseteq Steps
  BY DEF Steps
<1>r. req[r] \in Request
  BY DEF RequestsOK
<1>1. CASE PurgeStart(r)
  <2> DEFINE todo == {m \in members : m.state = "expired"}
             new == [NoRequest EXCEPT !.at = "purge.members", !.todo = todo]
  <2>1. todo \subseteq MemberRow
    BY DEF TypeOK
  <2> HIDE DEF todo
  <2>2. new \in Request
    BY <1>s, <2>1, NoRequestType DEF Request
  <2>3. req' = [req EXCEPT ![r] = new]
    BY <1>1 DEF PurgeStart, todo
  <2>4. RequestsOK'
    BY <2>2, <2>3 DEF RequestsOK
  <2>5. QED
    BY <1>1, <2>4, OnlyRequests DEF PurgeStart
<1>2. CASE PurgeRevoke(r)
  <2>1. PICK m \in req[r].todo :
          /\ req' = [req EXCEPT ![r].at = "purge.drop", ![r].id = m.id, ![r].todo = @ \ {m}]
          /\ grants' = [grants EXCEPT ![m.of] = {}] \/ UNCHANGED grants
    BY <1>2 DEF PurgeRevoke
  <2>2. m \in MemberRow /\ m.id \in Nat
    <3>1. req[r].todo \subseteq MemberRow
      BY <1>r DEF Request
    <3>2. m \in MemberRow
      BY <3>1
    <3>3. QED
      BY <3>2 DEF MemberRow
  <2> DEFINE new == [req[r] EXCEPT !.at = "purge.drop", !.id = m.id, !.todo = @ \ {m}]
  <2>3. new \in Request
    BY <1>s, <1>r, <2>2 DEF Request
  <2>4. req' = [req EXCEPT ![r] = new]
    BY <2>1 DEF RequestsOK, Request
  <2> HIDE DEF new
  <2>5. RequestsOK'
    BY <2>3, <2>4 DEF RequestsOK
  <2>6. LinksOK'
    BY <1>2, <2>1 DEF PurgeRevoke, LinksOK, Stands, Exists, people, belonging
  <2>7. QED
    BY <1>2, <2>5, <2>6, PeopleKept, MembersKept, CardsKept DEF PurgeRevoke, belonging
<1>3. CASE PurgeDrop(r)
  <2>1. MembersOK'
    BY <1>3 DEF PurgeDrop, MembersOK, Stands, Exists, people
  <2>2. RequestsOK'
    BY <1>s, <1>3, FinishType, ContinueType DEF PurgeDrop
  <2>3. QED
    BY <1>3, <2>1, <2>2, PeopleKept, LinksKept, CardsKept DEF PurgeDrop, credentials
<1>4. CASE PurgeUsers(r)
  <2> DEFINE users == {j \in Journalists : accounts[j] = "expired"}
             new == [req[r] EXCEPT !.at = "purge.files", !.users = users]
  <2>1. new \in Request
    BY <1>s, <1>r DEF Request
  <2>2. req' = [req EXCEPT ![r] = new]
    BY <1>4 DEF PurgeUsers, RequestsOK, Request
  <2> HIDE DEF new
  <2>3. RequestsOK'
    BY <2>1, <2>2 DEF RequestsOK
  <2>4. QED
    BY <1>4, <2>3, OnlyRequests DEF PurgeUsers
<1>5. CASE PurgeFiles(r)
  <2>1. CASE Finish(r) /\ UNCHANGED files
    BY <1>5, <2>1, FinishType, OnlyRequests DEF PurgeFiles, people
  <2>2. CASE \E j \in req[r].users :
               /\ files' = files \ {j} \/ UNCHANGED files
               /\ req' = [req EXCEPT ![r].at = "purge.user", ![r].of = AnyOf(j),
                                     ![r].users = @ \ {j}]
    <3>1. PICK j \in req[r].users :
            /\ files' = files \ {j} \/ UNCHANGED files
            /\ req' = [req EXCEPT ![r].at = "purge.user", ![r].of = AnyOf(j),
                                  ![r].users = @ \ {j}]
      BY <2>2
    <3>2. AnyOf(j) \in Pairs
      BY OfType, AnyOfType
    <3> DEFINE new == [req[r] EXCEPT !.at = "purge.user", !.of = AnyOf(j), !.users = @ \ {j}]
    <3>3. new \in Request
      BY <1>s, <1>r, <3>2 DEF Request
    <3>4. req' = [req EXCEPT ![r] = new]
      BY <3>1 DEF RequestsOK, Request
    <3> HIDE DEF new
    <3>5. RequestsOK'
      BY <3>3, <3>4 DEF RequestsOK
    <3>6. UNCHANGED <<accounts, belonging, credentials>>
      BY <1>5 DEF PurgeFiles
    <3>7. PeopleOK'
      BY <3>1, <3>6 DEF PeopleOK, belonging
    <3>8. MembersOK' /\ LinksOK' /\ CardsOK'
      BY <3>6 DEF MembersOK, LinksOK, CardsOK, Stands, Exists, belonging, credentials
    <3>9. QED
      BY <3>5, <3>7, <3>8
  <2>3. QED
    BY <1>5, <2>1, <2>2 DEF PurgeFiles
<1>6. CASE PurgeUser(r)
  <2> DEFINE j == req[r].of[1]
  <2>1. /\ accounts' = [accounts EXCEPT ![j] = "purged"]
        /\ members' = {m \in members : m.of[1] # j}
        /\ invites' = [p \in Pairs |-> IF p[1] = j THEN "none" ELSE invites[p]]
        /\ grants' = [p \in Pairs |-> IF p[1] = j THEN {} ELSE grants[p]]
        /\ cards' = {c \in cards : c.j # j}
        /\ Continue(r, "purge.files") \/ Finish(r)
        /\ UNCHANGED <<files, editorials, rows, joined, issued>>
    BY <1>6 DEF PurgeUser
  <2>2. j \in Journalists
    BY OfType
  <2> HIDE DEF j
  <2>3. \A k \in Journalists : k # j => (Exists(k)' <=> Exists(k))
    BY <2>1, <2>2 DEF Exists, PeopleOK
  <2>4. \A p \in Pairs : p[1] # j => (Stands(p)' <=> Stands(p))
    BY <2>1, <2>3, PairParts DEF Stands
  <2>5. PeopleOK'
    BY <2>1 DEF PeopleOK, AccountStates
  <2>6. MembersOK'
    BY <2>1, <2>4 DEF MembersOK, MemberRow
  <2>7. invites' \in [Pairs -> InviteStates] /\ grants' \in [Pairs -> SUBSET Envelopes]
    BY <2>1 DEF LinksOK, InviteStates
  <2>8. \A p \in Pairs : invites'[p] # "none" \/ grants'[p] # {} => Stands(p)'
    BY <2>1, <2>4 DEF LinksOK
  <2>9. CardsOK'
    BY <2>1, <2>3 DEF CardsOK, CardRow
  <2>10. RequestsOK'
    BY <1>s, <2>1, FinishType, ContinueType
  <2>11. QED
    BY <2>5, <2>6, <2>7, <2>8, <2>9, <2>10 DEF LinksOK
<1>7. QED
  BY <1>1, <1>2, <1>3, <1>4, <1>5, <1>6 DEF Purging

LEMMA EnvironmentType ==
    ASSUME TypeOK, Environment
    PROVE  TypeOK'
<1> USE Parts, PartsAfter
<1>1. ASSUME NEW j \in Journalists, AccountExpires(j) PROVE TypeOK'
  <2>1. /\ accounts[j] = "deleted" /\ accounts' = [accounts EXCEPT ![j] = "expired"]
        /\ UNCHANGED <<files, belonging, credentials, req>>
    BY <1>1 DEF AccountExpires
  <2>2. PeopleOK'
    BY <2>1 DEF PeopleOK, AccountStates, belonging
  <2>3. \A k \in Journalists : Exists(k)' <=> Exists(k)
    BY <2>1 DEF PeopleOK, Exists
  <2>4. \A p \in Pairs : Stands(p)' <=> Stands(p)
    BY <2>1, <2>3, PairParts DEF Stands, belonging
  <2>5. MembersOK' /\ LinksOK'
    BY <2>1, <2>4 DEF MembersOK, LinksOK, MemberRow, belonging, credentials
  <2>6. CardsOK'
    BY <2>1, <2>3 DEF CardsOK, CardRow, belonging, credentials
  <2>7. QED
    BY <2>1, <2>2, <2>5, <2>6 DEF RequestsOK
<1>2. ASSUME NEW m \in members, MemberExpires(m) PROVE TypeOK'
  <2> DEFINE new == [m EXCEPT !.state = "expired"]
  <2>1. /\ members' = (members \ {m}) \cup {new}
        /\ UNCHANGED <<people, credentials, editorials, rows, joined, invites, req>>
    BY <1>2 DEF MemberExpires
  <2>2. new \in MemberRow /\ new.id = m.id /\ new.of = m.of
    BY DEF MembersOK, MemberRow
  <2> HIDE DEF new
  <2>3. members' \subseteq MemberRow
    BY <2>1, <2>2 DEF MembersOK
  <2>4. \A n \in members' : n.id <= rows' /\ Stands(n.of)'
    BY <2>1, <2>2 DEF MembersOK, Stands, Exists, people
  <2>5. \A n, o \in members' : n.id = o.id \/ n.of = o.of => n = o
    BY <2>1, <2>2 DEF MembersOK
  <2>6. MembersOK'
    BY <2>1, <2>3, <2>4, <2>5 DEF MembersOK
  <2>7. QED
    BY <2>1, <2>6, PeopleKept, LinksKept, CardsKept DEF RequestsOK, credentials
<1>3. CASE Restart
  <2>1. RequestsOK'
    BY <1>3, NoRequestType DEF Restart, RequestsOK
  <2>2. QED
    BY <1>3, <2>1, OnlyRequests DEF Restart
<1>4. QED
  BY <1>1, <1>2, <1>3 DEF Environment

LEMMA InitType == Init => TypeOK
<1> SUFFICES ASSUME Init PROVE TypeOK
  OBVIOUS
<1>1. PeopleOK
  BY DEF Init, PeopleOK, AccountStates
<1>2. MembersOK /\ CardsOK
  BY BoundsAssumption DEF Init, MembersOK, CardsOK
<1>3. LinksOK
  BY DEF Init, LinksOK, InviteStates
<1>4. RequestsOK
  BY NoRequestType DEF Init, RequestsOK
<1>5. QED
  BY <1>1, <1>2, <1>3, <1>4, Parts

LEMMA NextType == TypeOK /\ [Next]_vars => TypeOK'
<1> SUFFICES ASSUME TypeOK, [Next]_vars PROVE TypeOK'
  OBVIOUS
<1>1. ASSUME NEW r \in Requests,
             \/ Joining(r) \/ Leaving(r) \/ Granting(r) \/ Issuing(r)
             \/ Deleting(r) \/ PurgeStart(r) \/ Purging(r)
      PROVE  TypeOK'
  BY <1>1, JoiningType, LeavingType, GrantingType, IssuingType, DeletingType, PurgingType
<1>2. CASE Environment
  BY <1>2, EnvironmentType
<1>3. CASE UNCHANGED vars
  BY <1>3, Parts, OnlyRequests DEF vars, RequestsOK
<1>4. QED
  BY <1>1, <1>2, <1>3 DEF Next

(* The tables of memberships keep their types, their unique constraints    *)
(* and their foreign keys (schema.prisma), whatever handlers overlap.      *)
THEOREM MembershipTypes == Spec => []TypeOK
BY InitType, NextType, PTL DEF Spec

-----------------------------------------------------------------------------
(* What an editorial holds of a journalist, it holds because the           *)
(* journalist joined it once (Membership!OnlyJoined).  The tables alone do *)
(* not keep that: a handler writes a grant or a card on what it read in an *)
(* earlier step, so what is in flight must be vouched for too.             *)

JoinTables == (\A m \in members : m.of \in joined) /\ OnlyJoined

(* At these steps the next write is a grant or a card, no more questions   *)
(* asked; at key.wrap there is a grant, or nothing is written.             *)
Vouched == {"attach.grant", "grant.write", "signIn.seal", "card.create"}

JoinRequests ==
    \A r \in Requests : /\ req[r].at \in Vouched => req[r].of \in joined
                        /\ \A m \in req[r].todo : m.of \in joined

JoinInv == JoinTables /\ JoinRequests

-----------------------------------------------------------------------------
(* The requests                                                            *)

LEMMA EntryJoin ==
    ASSUME RequestsOK, JoinRequests, joined \subseteq joined', NEW r \in Requests, NEW new,
           req' = [req EXCEPT ![r] = new],
           new.at \in Vouched => new.of \in joined',
           \A m \in new.todo : m.of \in joined'
    PROVE  JoinRequests'
<1>1. req'[r] = new /\ \A q \in Requests \ {r} : req'[q] = req[q]
  BY DEF RequestsOK
<1>2. ASSUME NEW q \in Requests
      PROVE  /\ req'[q].at \in Vouched => req'[q].of \in joined'
             /\ \A m \in req'[q].todo : m.of \in joined'
  <2>1. CASE q = r
    BY <1>1, <2>1
  <2>2. CASE q # r
    BY <1>1, <2>2 DEF JoinRequests
  <2>3. QED
    BY <2>1, <2>2
<1>3. QED
  BY <1>2 DEF JoinRequests, Vouched

LEMMA FinishJoin ==
    ASSUME RequestsOK, JoinRequests, joined \subseteq joined', NEW r \in Requests, Finish(r)
    PROVE  JoinRequests'
<1>1. NoRequest.at = "idle" /\ NoRequest.todo = {}
  BY DEF NoRequest
<1>2. QED
  BY <1>1, EntryJoin DEF Finish, Vouched

LEMMA BeginJoin ==
    ASSUME RequestsOK, JoinRequests, joined \subseteq joined', NEW r \in Requests,
           NEW p, NEW step, NEW id, Begin(r, p, step, id),
           step \in Vouched => p \in joined'
    PROVE  JoinRequests'
<1> DEFINE new == [NoRequest EXCEPT !.at = step, !.of = p, !.id = id]
<1>1. new.at = step /\ new.of = p /\ new.todo = {}
  BY DEF NoRequest
<1>2. req' = [req EXCEPT ![r] = new]
  BY DEF Begin
<1> HIDE DEF new
<1>3. QED
  BY <1>1, <1>2, EntryJoin

LEMMA ContinueJoin ==
    ASSUME RequestsOK, JoinRequests, joined \subseteq joined', NEW r \in Requests,
           NEW step \in Steps, Continue(r, step), step \in Vouched => req[r].of \in joined'
    PROVE  JoinRequests'
<1> DEFINE new == [req[r] EXCEPT !.at = step]
<1>1. new.at = step /\ new.of = req[r].of /\ new.todo = req[r].todo
  BY DEF RequestsOK, Request
<1>2. req' = [req EXCEPT ![r] = new]
  BY DEF Continue
<1>3. \A m \in req[r].todo : m.of \in joined'
  BY DEF JoinRequests
<1> HIDE DEF new
<1>4. QED
  BY <1>1, <1>2, <1>3, EntryJoin

LEMMA KeyJoin ==
    ASSUME RequestsOK, JoinRequests, joined \subseteq joined', NEW r \in Requests,
           NEW p, NEW id, NEW next, NEW want, Key(r, p, id, next, want)
    PROVE  JoinRequests'
<1> DEFINE new == [NoRequest EXCEPT !.at = "key.read", !.of = p, !.id = id,
                                    !.next = next, !.want = want]
<1>1. new.at = "key.read" /\ new.todo = {}
  BY DEF NoRequest
<1>2. req' = [req EXCEPT ![r] = new]
  BY DEF Key
<1> HIDE DEF new
<1>3. QED
  BY <1>1, <1>2, EntryJoin DEF Vouched

LEMMA ResumeJoin ==
    ASSUME RequestsOK, JoinRequests, joined \subseteq joined', NEW r \in Requests,
           Resume(r), req[r].of \in joined'
    PROVE  JoinRequests'
<1>1. req[r].next \in Steps
  BY DEF RequestsOK, Request
<1>2. QED
  BY <1>1, FinishJoin, ContinueJoin DEF Resume

-----------------------------------------------------------------------------
(* The tables                                                              *)

(* A step that joins nobody and adds no row, envelope or card.             *)
LEMMA TablesJoin ==
    ASSUME JoinTables, joined \subseteq joined',
           \A m \in members' : \E n \in members : n.of = m.of,
           \A p \in Pairs : grants'[p] # {} => grants[p] # {},
           \A c \in cards' : \E d \in cards : d.j = c.j /\ c.e \in {d.e, None}
    PROVE  JoinTables'
<1>1. \A m \in members' : m.of \in joined'
  BY DEF JoinTables
<1>2. \A p \in Pairs : grants'[p] # {} => p \in joined'
  BY DEF JoinTables, OnlyJoined
<1>3. \A c \in cards' : c.e # None => <<c.j, c.e>> \in joined'
  BY DEF JoinTables, OnlyJoined
<1>4. QED
  BY <1>1, <1>2, <1>3 DEF JoinTables, OnlyJoined

LEMMA SameTablesJoin ==
    ASSUME JoinTables, UNCHANGED <<members, joined, grants, cards>>
    PROVE  JoinTables'
BY TablesJoin

LEMMA SetMemberJoin ==
    ASSUME TypeOK, JoinInv, NEW r \in Requests, NEW state, NEW next \in Steps \ Vouched,
           SetMember(r, state, next)
    PROVE  JoinInv'
<1>1. members \subseteq MemberRow /\ RequestsOK
  BY Parts DEF MembersOK
<1>2. joined' = joined /\ grants' = grants /\ cards' = cards
  BY DEF SetMember, credentials
<1>3. JoinRequests'
  BY <1>1, <1>2, FinishJoin, ContinueJoin DEF SetMember, JoinInv
<1>4. \A m \in members' : \E n \in members : n.of = m.of
  BY <1>1 DEF SetMember, MemberRow
<1>5. QED
  BY <1>2, <1>3, <1>4, TablesJoin DEF JoinInv

LEMMA InsertMemberJoin ==
    ASSUME TypeOK, JoinTables, NEW p \in Pairs, InsertMember(p),
           \A q \in Pairs : grants'[q] # {} => grants[q] # {} \/ q = p,
           cards' = cards
    PROVE  JoinTables' /\ p \in joined' /\ joined \subseteq joined'
<1>1. joined' = joined \cup {p}
  BY DEF InsertMember
<1>2. \A m \in members' : m.of \in joined'
  BY DEF InsertMember, JoinTables
<1>3. QED
  BY <1>1, <1>2 DEF JoinTables, OnlyJoined

LEMMA AddEnvelopeJoin ==
    ASSUME TypeOK, JoinTables, NEW p \in Pairs, NEW envelope, AddEnvelope(p, envelope),
           p \in joined, UNCHANGED <<members, joined, cards>>
    PROVE  JoinTables'
<1>1. \A q \in Pairs : grants'[q] # {} => grants[q] # {} \/ q = p
  BY Parts DEF AddEnvelope, LinksOK
<1>2. QED
  BY <1>1 DEF JoinTables, OnlyJoined

LEMMA SetAccountJoin ==
    ASSUME TypeOK, JoinInv, NEW r \in Requests, NEW j, NEW state, NEW next \in Steps \ Vouched,
           SetAccount(r, j, state, next)
    PROVE  JoinInv'
<1>1. UNCHANGED <<members, joined, grants, cards>>
  BY DEF SetAccount, belonging, credentials
<1>2. RequestsOK
  BY Parts
<1>3. JoinRequests'
  BY <1>1, <1>2, FinishJoin, ContinueJoin DEF SetAccount, JoinInv
<1>4. QED
  BY <1>1, <1>3, SameTablesJoin DEF JoinInv

LEMMA SetCardJoin ==
    ASSUME TypeOK, JoinTables, NEW c \in cards, NEW d, d.j = c.j, d.e = c.e,
           SetCard(c.id, d), UNCHANGED <<members, joined, grants>>
    PROVE  JoinTables'
<1>1. \A b \in cards' : \E a \in cards : a.j = b.j /\ a.e = b.e
  BY DEF SetCard
<1>2. QED
  BY <1>1, TablesJoin

-----------------------------------------------------------------------------
(* The handlers                                                            *)

LEMMA JoiningJoin ==
    ASSUME TypeOK, JoinInv, NEW r \in Requests, Joining(r)
    PROVE  JoinInv'
<1>p. RequestsOK /\ req[r].of \in Pairs
  BY Parts, OfType
<1>s. {"attach.reactivate", "attach.grant", "answer"} \subseteq Steps
  BY DEF Steps
<1>i. JoinTables /\ JoinRequests
  BY DEF JoinInv
<1> USE <1>p, <1>i
<1>1. CASE \E q \in Pairs : AttachRead(r, q, "attach") \/ AttachRead(r, q, "superAttach")
  <2>1. JoinRequests'
    BY <1>1, BeginJoin DEF AttachRead, Vouched, belonging
  <2>2. QED
    BY <1>1, <2>1, SameTablesJoin DEF AttachRead, JoinInv, belonging, credentials
<1>2. CASE \E q \in Pairs, accept \in BOOLEAN : RespondRead(r, q, accept)
  <2>1. JoinRequests'
    BY <1>2, BeginJoin DEF RespondRead, Vouched, belonging
  <2>2. QED
    BY <1>2, <2>1, SameTablesJoin DEF RespondRead, JoinInv, belonging, credentials
<1>3. CASE AttachReactivate(r)
  BY <1>s, <1>3, SetMemberJoin DEF AttachReactivate, Vouched
<1>4. CASE AttachInvite(r)
  BY <1>4, FinishJoin, SameTablesJoin DEF AttachInvite, JoinInv, credentials
<1>5. CASE AttachCreate(r)
  <2> DEFINE p == req[r].of
  <2>1. grants' = grants /\ cards' = cards
    BY <1>5 DEF AttachCreate, credentials
  <2>2. CASE InsertMember(p) /\ Continue(r, "attach.grant")
    <3>1. JoinTables' /\ p \in joined' /\ joined \subseteq joined'
      BY <2>1, <2>2, InsertMemberJoin
    <3>2. JoinRequests'
      BY <1>s, <2>2, <3>1, ContinueJoin
    <3>3. QED
      BY <3>1, <3>2 DEF JoinInv
  <2>3. CASE Finish(r) /\ UNCHANGED <<rows, members, joined>>
    BY <2>1, <2>3, FinishJoin, SameTablesJoin DEF JoinInv
  <2>4. QED
    BY <1>5, <2>2, <2>3 DEF AttachCreate
<1>6. CASE AttachGrant(r)
  <2>1. UNCHANGED <<members, joined, cards>> /\ req[r].at = "attach.grant"
    BY <1>6 DEF AttachGrant, belonging
  <2>2. JoinTables'
    BY <1>6, <2>1, SameTablesJoin, AddEnvelopeJoin DEF AttachGrant, JoinRequests, Vouched
  <2>3. JoinRequests'
    BY <1>s, <1>6, <2>1, ContinueJoin DEF AttachGrant, Vouched
  <2>4. QED
    BY <2>2, <2>3 DEF JoinInv
<1>7. CASE RespondReject(r)
  BY <1>7, FinishJoin, SameTablesJoin DEF RespondReject, JoinInv, credentials
<1>8. CASE RespondAccept(r)
  <2> DEFINE p == req[r].of
  <2>1. Finish(r) /\ cards' = cards
    BY <1>8 DEF RespondAccept
  <2>2. CASE InsertMember(p) /\ AddEnvelope(p, "sealed")
    <3>1. \A q \in Pairs : grants'[q] # {} => grants[q] # {} \/ q = p
      BY <2>2, Parts DEF AddEnvelope, LinksOK
    <3>2. JoinTables' /\ joined \subseteq joined'
      BY <2>1, <2>2, <3>1, InsertMemberJoin
    <3>3. QED
      BY <2>1, <3>2, FinishJoin DEF JoinInv
  <2>3. CASE RowOf(p) # {} /\ UNCHANGED <<rows, members, joined>> /\ AddEnvelope(p, "sealed")
    <3>1. p \in joined
      BY <2>3 DEF RowOf, JoinTables
    <3>2. JoinTables'
      BY <2>1, <2>3, <3>1, AddEnvelopeJoin
    <3>3. QED
      BY <2>1, <2>3, <3>2, FinishJoin DEF JoinInv
  <2>4. CASE UNCHANGED <<rows, members, joined, grants, invites>>
    BY <2>1, <2>4, FinishJoin, SameTablesJoin DEF JoinInv
  <2>5. QED
    BY <1>8, <2>2, <2>3, <2>4 DEF RespondAccept
<1>9. QED
  BY <1>1, <1>2, <1>3, <1>4, <1>5, <1>6, <1>7, <1>8 DEF Joining

LEMMA LeavingJoin ==
    ASSUME TypeOK, JoinInv, NEW r \in Requests, Leaving(r)
    PROVE  JoinInv'
<1>s. {"detach.write", "detach.invites", "answer"} \subseteq Steps
  BY DEF Steps
<1>i. RequestsOK /\ JoinTables /\ JoinRequests
  BY Parts DEF JoinInv
<1>1. CASE \E p \in Pairs : DetachRead(r, p) \/ RestoreMembership(r, p)
  <2>1. JoinRequests'
    BY <1>i, <1>1, BeginJoin DEF DetachRead, RestoreMembership, Vouched, belonging
  <2>2. QED
    BY <1>i, <1>1, <2>1, SameTablesJoin
    DEF DetachRead, RestoreMembership, JoinInv, belonging, credentials
<1>2. CASE DetachCount(r) \/ DetachInvites(r)
  <2>1. UNCHANGED <<members, joined, grants, cards>>
    BY <1>2 DEF DetachCount, DetachInvites, belonging, credentials
  <2>2. JoinRequests'
    BY <1>i, <1>s, <1>2, <2>1, FinishJoin, ContinueJoin DEF DetachCount, DetachInvites, Vouched
  <2>3. QED
    BY <1>i, <2>1, <2>2, SameTablesJoin DEF JoinInv
<1>3. CASE DetachWrite(r) \/ RestoreMembershipWrite(r)
  BY <1>s, <1>3, SetMemberJoin DEF DetachWrite, RestoreMembershipWrite, Vouched
<1>4. QED
  BY <1>1, <1>2, <1>3 DEF Leaving

LEMMA GrantingJoin ==
    ASSUME TypeOK, JoinInv, NEW r \in Requests, Granting(r)
    PROVE  JoinInv'
<1>s. {"signIn.grants", "key.wrap"} \subseteq Steps /\ "signIn.grants" \notin Vouched
      /\ "key.wrap" \notin Vouched
  BY DEF Steps, Vouched
<1>i. RequestsOK /\ JoinTables /\ JoinRequests /\ LinksOK
  BY Parts DEF JoinInv
<1>p. req[r].of \in Pairs /\ req[r].of[1] \in Journalists
  BY <1>i, OfType
<1>1. CASE \E p \in Pairs : GrantRead(r, p) \/ AdminRead(r, p)
  <2>1. UNCHANGED <<members, joined, grants, cards>>
    BY <1>1 DEF GrantRead, AdminRead, belonging, credentials
  <2>2. ASSUME NEW p \in Pairs, GrantRead(r, p) PROVE JoinRequests'
    <3>1. p \in joined
      BY <1>i, <2>2 DEF GrantRead, RowOf, JoinTables
    <3>2. QED
      BY <1>i, <2>1, <2>2, <3>1, BeginJoin DEF GrantRead
  <2>3. ASSUME NEW p \in Pairs, AdminRead(r, p) PROVE JoinRequests'
    BY <1>i, <2>1, <2>3, KeyJoin DEF AdminRead
  <2>4. QED
    BY <1>i, <1>1, <2>1, <2>2, <2>3, SameTablesJoin DEF JoinInv
<1>2. ASSUME NEW j \in Journalists, SignInRead(r, j) PROVE JoinInv'
  <2> DEFINE todo == {m \in members : m.of[1] = j /\ m.state = "active"}
             new == [NoRequest EXCEPT
                       !.at = IF accounts[j] = "deleted" THEN "signIn.restore" ELSE "signIn.grants",
                       !.of = AnyOf(j), !.todo = todo]
  <2>1. UNCHANGED <<members, joined, grants, cards>> /\ req' = [req EXCEPT ![r] = new]
    BY <1>2 DEF SignInRead, belonging, credentials
  <2>2. \A m \in todo : m.of \in joined
    BY <1>i DEF JoinTables
  <2> HIDE DEF todo
  <2>3. new.at \notin Vouched /\ new.todo = todo
    BY DEF NoRequest, Vouched
  <2> HIDE DEF new
  <2>4. JoinRequests'
    BY <1>i, <2>1, <2>2, <2>3, EntryJoin
  <2>5. QED
    BY <1>i, <2>1, <2>4, SameTablesJoin DEF JoinInv
<1>3. CASE GrantWrite(r)
  <2>1. UNCHANGED <<members, joined, cards>> /\ req[r].of \in joined
    BY <1>i, <1>3 DEF GrantWrite, JoinRequests, Vouched, belonging
  <2>2. JoinTables'
    BY <1>i, <1>p, <1>3, <2>1, AddEnvelopeJoin DEF GrantWrite
  <2>3. QED
    BY <1>i, <1>3, <2>1, <2>2, FinishJoin DEF GrantWrite, JoinInv
<1>4. CASE SignInRestore(r)
  BY <1>s, <1>4, SetAccountJoin DEF SignInRestore
<1>5. CASE SignInGrants(r)
  <2>1. UNCHANGED <<members, joined, grants, cards>>
    BY <1>5 DEF SignInGrants, belonging, credentials
  <2>2. CASE Finish(r)
    BY <1>i, <2>1, <2>2, FinishJoin, SameTablesJoin DEF JoinInv
  <2>3. CASE \E m \in req[r].todo :
               req' = [req EXCEPT ![r].todo = @ \ {m}, ![r].of = m.of,
                                  ![r].at = IF grants[m.of] = {} /\ m.of[2] \in editorials
                                            THEN "signIn.seal" ELSE "signIn.grants"]
    <3>1. PICK m \in req[r].todo :
            req' = [req EXCEPT ![r].todo = @ \ {m}, ![r].of = m.of,
                               ![r].at = IF grants[m.of] = {} /\ m.of[2] \in editorials
                                         THEN "signIn.seal" ELSE "signIn.grants"]
      BY <2>3
    <3> DEFINE new == [req[r] EXCEPT !.todo = @ \ {m}, !.of = m.of,
                         !.at = IF grants[m.of] = {} /\ m.of[2] \in editorials
                                THEN "signIn.seal" ELSE "signIn.grants"]
    <3>2. req' = [req EXCEPT ![r] = new]
      BY <1>i, <3>1 DEF RequestsOK, Request
    <3>3. new.of = m.of /\ new.todo = req[r].todo \ {m}
      BY <1>i DEF RequestsOK, Request
    <3>4. \A n \in req[r].todo : n.of \in joined
      BY <1>i DEF JoinRequests
    <3> HIDE DEF new
    <3>5. JoinRequests'
      BY <1>i, <2>1, <3>2, <3>3, <3>4, EntryJoin
    <3>6. QED
      BY <1>i, <2>1, <3>5, SameTablesJoin DEF JoinInv
  <2>4. QED
    BY <1>5, <2>2, <2>3 DEF SignInGrants
<1>6. CASE SignInSeal(r)
  <2>1. UNCHANGED <<members, joined, cards>> /\ req[r].of \in joined
    BY <1>i, <1>6 DEF SignInSeal, JoinRequests, Vouched, belonging
  <2>2. JoinTables'
    BY <1>i, <1>p, <1>6, <2>1, AddEnvelopeJoin DEF SignInSeal
  <2>3. JoinRequests'
    BY <1>i, <1>s, <1>6, <2>1, FinishJoin, ContinueJoin DEF SignInSeal
  <2>4. QED
    BY <2>2, <2>3 DEF JoinInv
<1>7. CASE Answer(r)
  <2>1. UNCHANGED <<members, joined, grants, cards>>
    BY <1>7 DEF Answer, belonging, credentials
  <2>2. JoinRequests'
    BY <1>i, <1>7, <2>1, FinishJoin, KeyJoin DEF Answer
  <2>3. QED
    BY <1>i, <2>1, <2>2, SameTablesJoin DEF JoinInv
<1>8. CASE KeyRead(r)
  <2>1. UNCHANGED <<members, joined, grants, cards>>
    BY <1>8 DEF KeyRead, belonging, credentials
  <2>2. grants[req[r].of] # {} => req[r].of \in joined
    BY <1>i, <1>p DEF JoinTables, OnlyJoined
  <2>3. Finish(r) \/ Continue(r, "key.wrap") \/ (grants[req[r].of] # {} /\ Resume(r))
    BY <1>8 DEF KeyRead
  <2>4. JoinRequests'
    BY <1>i, <1>s, <2>1, <2>2, <2>3, FinishJoin, ContinueJoin, ResumeJoin
  <2>5. QED
    BY <1>i, <2>1, <2>4, SameTablesJoin DEF JoinInv
<1>9. CASE KeyWrap(r)
  <2> DEFINE p == req[r].of
  <2>1. UNCHANGED <<members, joined, cards>>
    BY <1>9 DEF KeyWrap, belonging
  <2>2. CASE grants[p] # {} /\ grants' = [grants EXCEPT ![p] = @ \cup {"wrapped"}] /\ Resume(r)
    <3>1. p \in joined
      BY <1>i, <1>p, <2>2 DEF JoinTables, OnlyJoined
    <3>2. \A q \in Pairs : grants'[q] # {} => grants[q] # {}
      BY <1>i, <2>2 DEF LinksOK
    <3>3. JoinTables'
      BY <1>i, <2>1, <3>2, TablesJoin
    <3>4. QED
      BY <1>i, <2>1, <2>2, <3>1, <3>3, ResumeJoin DEF JoinInv
  <2>3. CASE UNCHANGED grants /\ Finish(r)
    BY <1>i, <2>1, <2>3, FinishJoin, SameTablesJoin DEF JoinInv
  <2>4. QED
    BY <1>9, <2>2, <2>3 DEF KeyWrap
<1>10. QED
  BY <1>1, <1>2, <1>3, <1>4, <1>5, <1>6, <1>7, <1>8, <1>9 DEF Granting

LEMMA IssuingJoin ==
    ASSUME TypeOK, JoinInv, NEW r \in Requests, Issuing(r)
    PROVE  JoinInv'
<1>i. RequestsOK /\ JoinTables /\ JoinRequests
  BY Parts DEF JoinInv
<1>p. req[r].of \in Pairs
  BY <1>i, OfType
<1>1. CASE \/ \E p \in Pairs : IssueRead(r, p)
           \/ \E c \in cards : RenewRead(r, c)
           \/ \E c \in cards, want \in {"ACTIVE", "BLOCKED", "as is"} : UpdateRead(r, c, want)
  <2>1. UNCHANGED <<members, joined, grants, cards>>
    BY <1>1 DEF IssueRead, RenewRead, UpdateRead, belonging, credentials
  <2>2. \E p, id, next, want : Key(r, p, id, next, want)
    BY <1>1 DEF IssueRead, RenewRead, UpdateRead
  <2>3. QED
    BY <1>i, <2>1, <2>2, KeyJoin, SameTablesJoin DEF JoinInv
<1>2. CASE \E c \in cards : BlockRead(r, c) \/ RemoveRead(r, c)
  <2>1. PICK c \in cards : BlockRead(r, c) \/ RemoveRead(r, c)
    BY <1>2
  <2>2. UNCHANGED <<members, joined, grants, cards>>
    BY <2>1 DEF BlockRead, RemoveRead, belonging, credentials
  <2>3. PICK step \in {"card.block", "card.remove"} :
          req' = [req EXCEPT ![r] = [NoRequest EXCEPT !.at = step, !.id = c.id]]
    BY <2>1 DEF BlockRead, RemoveRead
  <2> DEFINE new == [NoRequest EXCEPT !.at = step, !.id = c.id]
  <2>4. new.at \notin Vouched /\ new.todo = {} /\ req' = [req EXCEPT ![r] = new]
    BY <2>3 DEF NoRequest, Vouched
  <2> HIDE DEF new
  <2>5. QED
    BY <1>i, <2>2, <2>4, EntryJoin, SameTablesJoin DEF JoinInv
<1>3. CASE CardCreate(r)
  <2> DEFINE p == req[r].of
  <2>1. UNCHANGED <<members, joined, grants>> /\ p \in joined
    BY <1>i, <1>3 DEF CardCreate, JoinRequests, Vouched, belonging
  <2>2. CASE /\ cards' = cards \cup {[id |-> issued + 1, j |-> p[1], e |-> p[2],
                                      status |-> "ACTIVE", data |-> FALSE]}
             /\ req' = [req EXCEPT ![r].at = "card.data", ![r].id = issued + 1]
    <3>1. <<p[1], p[2]>> = p
      BY <1>p DEF Pairs
    <3>2. JoinTables'
      BY <1>i, <2>1, <2>2, <3>1 DEF JoinTables, OnlyJoined
    <3> DEFINE new == [req[r] EXCEPT !.at = "card.data", !.id = issued + 1]
    <3>3. new.at = "card.data" /\ new.todo = req[r].todo /\ req' = [req EXCEPT ![r] = new]
      BY <1>i, <2>2 DEF RequestsOK, Request
    <3>4. \A m \in req[r].todo : m.of \in joined
      BY <1>i DEF JoinRequests
    <3> HIDE DEF new
    <3>5. JoinRequests'
      BY <1>i, <2>1, <3>3, <3>4, EntryJoin DEF Vouched
    <3>6. QED
      BY <3>2, <3>5 DEF JoinInv
  <2>3. CASE Finish(r) /\ UNCHANGED cards
    BY <1>i, <2>1, <2>3, FinishJoin, SameTablesJoin DEF JoinInv
  <2>4. QED
    BY <1>3, <2>2, <2>3 DEF CardCreate
<1>4. CASE CardData(r) \/ CardWrite(r) \/ CardBlock(r)
  <2>1. UNCHANGED <<members, joined, grants>>
    BY <1>4 DEF CardData, CardWrite, CardBlock, belonging
  <2>2. Finish(r) \/ \E p, id, next, want : Key(r, p, id, next, want)
    BY <1>4 DEF CardData, CardWrite, CardBlock, AnswerCard
  <2>3. JoinRequests'
    BY <1>i, <2>1, <2>2, FinishJoin, KeyJoin
  <2>4. cards' = cards \/ \E c \in cards : \E d : d.j = c.j /\ d.e = c.e /\ SetCard(c.id, d)
    <3>1. ASSUME NEW c \in cards, NEW status, NEW data
          PROVE  /\ [c EXCEPT !.status = status].j = c.j /\ [c EXCEPT !.status = status].e = c.e
                 /\ [c EXCEPT !.data = data].j = c.j /\ [c EXCEPT !.data = data].e = c.e
      BY Parts DEF CardsOK, CardRow
    <3>2. CASE CardData(r)
      BY <3>1, <3>2 DEF CardData, CardOf
    <3>3. CASE CardWrite(r)
      BY <3>1, <3>3 DEF CardWrite, CardOf
    <3>4. CASE CardBlock(r)
      BY <3>1, <3>4 DEF CardBlock, CardOf
    <3>5. QED
      BY <1>4, <3>2, <3>3, <3>4
  <2>5. JoinTables'
    BY <1>i, <2>1, <2>4, SetCardJoin, SameTablesJoin
  <2>6. QED
    BY <2>3, <2>5 DEF JoinInv
<1>5. CASE CardRemove(r)
  <2>1. UNCHANGED <<members, joined, grants>> /\ cards' \subseteq cards
    BY <1>5 DEF CardRemove, belonging
  <2>2. JoinTables'
    BY <1>i, <2>1, TablesJoin
  <2>3. QED
    BY <1>i, <1>5, <2>1, <2>2, FinishJoin DEF CardRemove, JoinInv
<1>6. QED
  BY <1>1, <1>2, <1>3, <1>4, <1>5 DEF Issuing

LEMMA DeletingJoin ==
    ASSUME TypeOK, JoinInv, NEW r \in Requests, Deleting(r)
    PROVE  JoinInv'
<1>s. {"idle", "answer"} \subseteq Steps \ Vouched
  BY DEF Steps, Vouched
<1>i. RequestsOK /\ JoinTables /\ JoinRequests
  BY Parts DEF JoinInv
<1>1. CASE \/ \E j \in Journalists : RemoveAccount(r, j) \/ RestoreAccount(r, j)
           \/ \E p \in Pairs : RemoveEditorial(r, p)
  <2>1. UNCHANGED <<members, joined, grants, cards>>
    BY <1>1 DEF RemoveAccount, RestoreAccount, RemoveEditorial, belonging, credentials
  <2>2. \E p, step, id : step \notin Vouched /\ Begin(r, p, step, id)
    BY <1>1 DEF RemoveAccount, RestoreAccount, RemoveEditorial, Vouched
  <2>3. QED
    BY <1>i, <2>1, <2>2, BeginJoin, SameTablesJoin DEF JoinInv
<1>2. CASE AccountRemove(r) \/ AccountRestore(r)
  BY <1>s, <1>2, SetAccountJoin DEF AccountRemove, AccountRestore
<1>3. CASE EditorialRemove(r)
  <2> DEFINE e == req[r].of[2]
  <2>1. /\ members' = {m \in members : m.of[2] # e}
        /\ grants' = [p \in Pairs |-> IF p[2] = e THEN {} ELSE grants[p]]
        /\ cards' = {IF c.e = e THEN [c EXCEPT !.e = None] ELSE c : c \in cards}
        /\ joined' = joined /\ Finish(r)
    BY <1>3 DEF EditorialRemove
  <2> HIDE DEF e
  <2>2. \A c \in cards' : \E d \in cards : d.j = c.j /\ c.e \in {d.e, None}
    BY <2>1, Parts DEF CardsOK, CardRow
  <2>3. JoinTables'
    BY <1>i, <2>1, <2>2, TablesJoin
  <2>4. QED
    BY <1>i, <2>1, <2>3, FinishJoin DEF JoinInv
<1>4. QED
  BY <1>1, <1>2, <1>3 DEF Deleting

LEMMA PurgingJoin ==
    ASSUME TypeOK, JoinInv, NEW r \in Requests, PurgeStart(r) \/ Purging(r)
    PROVE  JoinInv'
<1>s. {"purge.members", "purge.files"} \subseteq Steps \ Vouched
  BY DEF Steps, Vouched
<1>i. RequestsOK /\ JoinTables /\ JoinRequests /\ LinksOK
  BY Parts DEF JoinInv
<1>t. \A m \in req[r].todo : m.of \in joined
  BY <1>i DEF JoinRequests
<1>r. req[r] \in Request
  BY <1>i DEF RequestsOK
<1>1. CASE PurgeStart(r)
  <2> DEFINE todo == {m \in members : m.state = "expired"}
             new == [NoRequest EXCEPT !.at = "purge.members", !.todo = todo]
  <2>1. UNCHANGED <<members, joined, grants, cards>> /\ req' = [req EXCEPT ![r] = new]
    BY <1>1 DEF PurgeStart, belonging, credentials
  <2>2. \A m \in todo : m.of \in joined
    BY <1>i DEF JoinTables
  <2> HIDE DEF todo
  <2>3. new.at = "purge.members" /\ new.todo = todo
    BY DEF NoRequest
  <2> HIDE DEF new
  <2>4. QED
    BY <1>s, <1>i, <2>1, <2>2, <2>3, EntryJoin, SameTablesJoin DEF JoinInv
<1>2. CASE PurgeRevoke(r)
  <2>1. PICK m \in req[r].todo :
          /\ req' = [req EXCEPT ![r].at = "purge.drop", ![r].id = m.id, ![r].todo = @ \ {m}]
          /\ grants' = [grants EXCEPT ![m.of] = {}] \/ UNCHANGED grants
    BY <1>2 DEF PurgeRevoke
  <2>2. UNCHANGED <<members, joined, cards>>
    BY <1>2 DEF PurgeRevoke, belonging
  <2> DEFINE new == [req[r] EXCEPT !.at = "purge.drop", !.id = m.id, !.todo = @ \ {m}]
  <2>3. new.at = "purge.drop" /\ new.todo \subseteq req[r].todo
    BY <1>r DEF Request
  <2>4. req' = [req EXCEPT ![r] = new]
    BY <1>i, <2>1 DEF RequestsOK, Request
  <2> HIDE DEF new
  <2>5. JoinRequests'
    BY <1>i, <1>t, <2>2, <2>3, <2>4, EntryJoin DEF Vouched
  <2>6. \A p \in Pairs : grants'[p] # {} => grants[p] # {}
    BY <1>i, <2>1 DEF LinksOK
  <2>7. QED
    BY <1>i, <2>2, <2>5, <2>6, TablesJoin DEF JoinInv
<1>3. CASE PurgeDrop(r)
  <2>1. UNCHANGED <<joined, grants, cards>> /\ members' \subseteq members
    BY <1>3 DEF PurgeDrop, credentials
  <2>2. JoinTables'
    BY <1>i, <2>1, TablesJoin
  <2>3. JoinRequests'
    BY <1>s, <1>i, <1>3, <2>1, FinishJoin, ContinueJoin DEF PurgeDrop
  <2>4. QED
    BY <2>2, <2>3 DEF JoinInv
<1>4. CASE PurgeUsers(r)
  <2> DEFINE users == {j \in Journalists : accounts[j] = "expired"}
             new == [req[r] EXCEPT !.at = "purge.files", !.users = users]
  <2>1. UNCHANGED <<members, joined, grants, cards>>
    BY <1>4 DEF PurgeUsers, belonging, credentials
  <2>2. req' = [req EXCEPT ![r] = new]
    BY <1>i, <1>4 DEF PurgeUsers, RequestsOK, Request
  <2>3. new.at = "purge.files" /\ new.todo = req[r].todo
    BY <1>r DEF Request
  <2> HIDE DEF new
  <2>4. QED
    BY <1>s, <1>i, <1>t, <2>1, <2>2, <2>3, EntryJoin, SameTablesJoin DEF JoinInv
<1>5. CASE PurgeFiles(r)
  <2>1. UNCHANGED <<members, joined, grants, cards>>
    BY <1>5 DEF PurgeFiles, belonging, credentials
  <2>2. CASE Finish(r)
    BY <1>i, <2>1, <2>2, FinishJoin, SameTablesJoin DEF JoinInv
  <2>3. CASE \E j \in req[r].users :
               req' = [req EXCEPT ![r].at = "purge.user", ![r].of = AnyOf(j),
                                  ![r].users = @ \ {j}]
    <3>1. PICK j \in req[r].users :
            req' = [req EXCEPT ![r].at = "purge.user", ![r].of = AnyOf(j),
                               ![r].users = @ \ {j}]
      BY <2>3
    <3> DEFINE new == [req[r] EXCEPT !.at = "purge.user", !.of = AnyOf(j), !.users = @ \ {j}]
    <3>2. req' = [req EXCEPT ![r] = new]
      BY <1>i, <3>1 DEF RequestsOK, Request
    <3>3. new.at = "purge.user" /\ new.todo = req[r].todo
      BY <1>r DEF Request
    <3> HIDE DEF new
    <3>4. QED
      BY <1>i, <1>t, <2>1, <3>2, <3>3, EntryJoin, SameTablesJoin DEF JoinInv, Vouched
  <2>4. QED
    BY <1>5, <2>2, <2>3 DEF PurgeFiles
<1>6. CASE PurgeUser(r)
  <2> DEFINE j == req[r].of[1]
  <2>1. /\ members' = {m \in members : m.of[1] # j}
        /\ grants' = [p \in Pairs |-> IF p[1] = j THEN {} ELSE grants[p]]
        /\ cards' = {c \in cards : c.j # j}
        /\ joined' = joined
        /\ Continue(r, "purge.files") \/ Finish(r)
    BY <1>6 DEF PurgeUser
  <2> HIDE DEF j
  <2>2. JoinTables'
    BY <1>i, <2>1, TablesJoin
  <2>3. JoinRequests'
    BY <1>s, <1>i, <2>1, FinishJoin, ContinueJoin
  <2>4. QED
    BY <2>2, <2>3 DEF JoinInv
<1>7. QED
  BY <1>1, <1>2, <1>3, <1>4, <1>5, <1>6 DEF Purging

LEMMA EnvironmentJoin ==
    ASSUME TypeOK, JoinInv, Environment
    PROVE  JoinInv'
<1>i. RequestsOK /\ JoinTables /\ JoinRequests
  BY Parts DEF JoinInv
<1>1. ASSUME NEW j \in Journalists, AccountExpires(j) PROVE JoinInv'
  <2>1. UNCHANGED <<members, joined, grants, cards, req>>
    BY <1>1 DEF AccountExpires, belonging, credentials
  <2>2. QED
    BY <1>i, <2>1, SameTablesJoin DEF JoinInv, JoinRequests
<1>2. ASSUME NEW m \in members, MemberExpires(m) PROVE JoinInv'
  <2>1. /\ members' = (members \ {m}) \cup {[m EXCEPT !.state = "expired"]}
        /\ UNCHANGED <<joined, grants, cards, req>>
    BY <1>2 DEF MemberExpires, credentials
  <2>2. [m EXCEPT !.state = "expired"].of = m.of
    BY Parts DEF MembersOK, MemberRow
  <2>3. JoinTables'
    BY <1>i, <2>1, <2>2, TablesJoin
  <2>4. QED
    BY <1>i, <2>1, <2>3 DEF JoinInv, JoinRequests
<1>3. CASE Restart
  <2>1. UNCHANGED <<members, joined, grants, cards>> /\ req' = [r \in Requests |-> NoRequest]
    BY <1>3 DEF Restart, belonging, credentials
  <2>2. NoRequest.at \notin Vouched /\ NoRequest.todo = {}
    BY DEF NoRequest, Vouched
  <2>3. JoinRequests'
    BY <2>1, <2>2 DEF JoinRequests, Vouched
  <2>4. QED
    BY <1>i, <2>1, <2>3, SameTablesJoin DEF JoinInv
<1>4. QED
  BY <1>1, <1>2, <1>3 DEF Environment

LEMMA InitJoin == Init => JoinInv
<1> SUFFICES ASSUME Init PROVE JoinInv
  OBVIOUS
<1>1. JoinTables
  BY DEF Init, JoinTables, OnlyJoined
<1>2. NoRequest.at \notin Vouched /\ NoRequest.todo = {}
  BY DEF NoRequest, Vouched
<1>3. JoinRequests
  BY <1>2 DEF Init, JoinRequests
<1>4. QED
  BY <1>1, <1>3 DEF JoinInv

LEMMA NextJoin == TypeOK /\ JoinInv /\ [Next]_vars => JoinInv'
<1> SUFFICES ASSUME TypeOK, JoinInv, [Next]_vars PROVE JoinInv'
  OBVIOUS
<1>1. ASSUME NEW r \in Requests,
             \/ Joining(r) \/ Leaving(r) \/ Granting(r) \/ Issuing(r)
             \/ Deleting(r) \/ PurgeStart(r) \/ Purging(r)
      PROVE  JoinInv'
  BY <1>1, JoiningJoin, LeavingJoin, GrantingJoin, IssuingJoin, DeletingJoin, PurgingJoin
<1>2. CASE Environment
  BY <1>2, EnvironmentJoin
<1>3. CASE UNCHANGED vars
  BY <1>3, SameTablesJoin DEF vars, JoinInv, JoinRequests, belonging, credentials
<1>4. QED
  BY <1>1, <1>2, <1>3 DEF Next

(* Whatever handlers overlap and wherever they are cut short, an editorial *)
(* holds the key of, and has cards on, only journalists who joined it      *)
(* (attach, respondToJoinRequest, grantEditorial, login, create).          *)
THEOREM GrantsFollowJoining == Spec => []OnlyJoined
<1>1. Spec => []TypeOK
  BY MembershipTypes
<1>2. Spec => []JoinInv
  BY <1>1, InitJoin, NextJoin, PTL DEF Spec
<1>3. JoinInv => OnlyJoined
  BY DEF JoinInv, JoinTables
<1>4. QED
  BY <1>2, <1>3, PTL

-----------------------------------------------------------------------------
(* The rules of the grace window.  They are about requests that do not     *)
(* overlap on one journalist; those about different ones may.              *)

PurgeSteps == {"purge.members", "purge.drop", "purge.files", "purge.user"}

(* The journalists a request in flight is about: the purge, those it has   *)
(* read and not yet seen to; the removal of an editorial, all of them.     *)
Concerns(r) ==
    {j \in Journalists :
        \/ req[r].at \notin PurgeSteps \cup {"idle", "card.block", "card.remove"} /\ j = req[r].of[1]
        \/ req[r].at = "editorial.remove"
        \/ req[r].at = "purge.user" /\ j = req[r].of[1]
        \/ req[r].at = "purge.drop" /\ \E m \in members : m.id = req[r].id /\ j = m.of[1]
        \/ req[r].at \in PurgeSteps /\ (j \in req[r].users \/ \E m \in req[r].todo : j = m.of[1])}

(* No two requests in flight are about one journalist.                     *)
OneEach == \A r, s \in Requests : r # s => Concerns(r) \cap Concerns(s) = {}

(* What a request has read and still relies on.                            *)
(* It is about to write a grant: the membership is there.                  *)
MemberOK(r) ==
    /\ req[r].at \in {"grant.write", "attach.grant", "signIn.seal"} => RowOf(req[r].of) # {}
    /\ req[r].at \in {"signIn.restore", "signIn.grants", "signIn.seal"} =>
           \A m \in req[r].todo : m.of[1] = req[r].of[1] /\ RowOf(m.of) # {}

(* It is about to write the membership, or the card, of its journalist.    *)
RowOK(r) ==
    req[r].at \in {"attach.reactivate", "detach.count", "detach.write", "restore.write"} =>
        req[r].id <= rows /\ \A m \in members : m.id = req[r].id => m.of = req[r].of
CardOK(r) ==
    /\ req[r].next \in {"idle", "card.create", "card.write"}
    /\ \/ req[r].at = "card.write"
       \/ req[r].at \in {"key.read", "key.wrap"} /\ req[r].next = "card.write"
       => req[r].id <= issued /\ \A c \in cards : c.id = req[r].id => c.j = req[r].of[1]

(* The purge: what it is to end is expired still, and has no grant when    *)
(* its turn has come.                                                      *)
TodoOK(r) ==
    req[r].at \in {"purge.members", "purge.drop"} =>
        \A m \in req[r].todo :
            m.id <= rows /\ \A n \in members : n.id = m.id => n.of = m.of /\ n.state = "expired"
DropOK(r) ==
    req[r].at = "purge.drop" =>
        /\ req[r].id <= rows
        /\ \A n \in members : n.id = req[r].id =>
              n.state = "expired" /\ ("failures" \notin Handlers => grants[n.of] = {})
UsersOK(r) ==
    /\ req[r].at \in {"purge.files", "purge.user"} =>
           \A j \in req[r].users : accounts[j] \in {"expired", "purged"}
    /\ req[r].at = "purge.user" => accounts[req[r].of[1]] \in {"expired", "purged"}

HandlerOK(r) ==
    MemberOK(r) /\ RowOK(r) /\ CardOK(r) /\ TodoOK(r) /\ DropOK(r) /\ UsersOK(r)

HandlersOK == \A r \in Requests : HandlerOK(r)

GraceInv ==
    /\ HandlersOK
    /\ "failures" \notin Handlers => GrantHasMembership

(* A step about the journalists C: it leaves the rows of the others, and a *)
(* row has an id and a journalist for good.                                *)
Confined(C) ==
    /\ rows <= rows' /\ issued <= issued'
    /\ \A m \in members : m.of[1] \notin C => m \in members'
    /\ \A n \in members' :
          n \in members \/ (n.of[1] \in C /\ (n.id > rows \/ \E m \in members : m.id = n.id /\ m.of = n.of))
    /\ \A p \in Pairs : p[1] \notin C => grants'[p] = grants[p]
    /\ \A j \in Journalists : j \notin C => accounts'[j] = accounts[j]
    /\ \A c \in cards' :
          \/ c.j \in C /\ c.id > issued
          \/ \E d \in cards : d.id = c.id /\ d.j = c.j

OnlySelf(s) == \A r \in Requests : r # s => req'[r] = req[r]

(* What the rules of the grace window ask of a step.                       *)
EndsGrants == "failures" \notin Handlers /\ GrantHasMembership => GrantHasMembership'
TakesExpired ==
    /\ \A j \in Journalists : accounts[j] # "expired" /\ Exists(j) =>
          Exists(j)' /\ (j \in files => j \in files')
    /\ \A m \in members : m.state # "expired" /\ Stands(m.of)' => \E n \in members' : n.id = m.id
Rules == EndsGrants /\ TakesExpired

StepOK(s) == Confined(Concerns(s)) /\ OnlySelf(s) /\ HandlerOK(s)' /\ Rules

LEMMA NoRequestFields ==
    /\ NoRequest.at = "idle" /\ NoRequest.next = "idle" /\ NoRequest.todo = {} /\ NoRequest.users = {}
    /\ NoRequest.id = 0
BY DEF NoRequest

(* Where nothing is relied on, the handler is all right.                   *)
Careless == Steps \ ({"grant.write", "attach.grant", "signIn.seal", "signIn.restore", "signIn.grants",
                      "attach.reactivate", "detach.count", "detach.write", "restore.write",
                      "card.write", "key.read", "key.wrap", "editorial.remove"} \cup PurgeSteps)

LEMMA CarelessOK ==
    ASSUME NEW r \in Requests, req'[r].at \in Careless, req'[r].next \in {"idle", "card.create", "card.write"}
    PROVE  HandlerOK(r)'
BY DEF Careless, PurgeSteps, HandlerOK, MemberOK, RowOK, CardOK, TodoOK, DropOK, UsersOK

LEMMA EntryFields ==
    ASSUME TypeOK, NEW r \in Requests, NEW q, req' = [req EXCEPT ![r] = q]
    PROVE  req'[r] = q /\ OnlySelf(r)
BY Parts DEF RequestsOK, OnlySelf

LEMMA FinishOK ==
    ASSUME TypeOK, NEW r \in Requests, Finish(r)
    PROVE  HandlerOK(r)' /\ OnlySelf(r)
<1>1. req'[r] = NoRequest /\ OnlySelf(r)
  BY EntryFields DEF Finish
<1>2. "idle" \in Careless
  BY DEF Careless, Steps, PurgeSteps
<1>3. QED
  BY <1>1, <1>2, NoRequestFields, CarelessOK

LEMMA ContinueFields ==
    ASSUME TypeOK, NEW r \in Requests, NEW step \in Steps, Continue(r, step)
    PROVE  /\ OnlySelf(r)
           /\ req'[r].at = step /\ req'[r].of = req[r].of /\ req'[r].id = req[r].id
           /\ req'[r].next = req[r].next /\ req'[r].todo = req[r].todo /\ req'[r].users = req[r].users
BY Parts DEF Continue, RequestsOK, Request, OnlySelf

LEMMA ContinueOK ==
    ASSUME TypeOK, NEW r \in Requests, HandlerOK(r), NEW step \in Careless, Continue(r, step)
    PROVE  HandlerOK(r)' /\ OnlySelf(r)
<1>1. step \in Steps
  BY DEF Careless
<1>2. QED
  BY <1>1, ContinueFields, CarelessOK DEF HandlerOK, CardOK

LEMMA BeginFields ==
    ASSUME TypeOK, NEW r \in Requests, NEW p, NEW step, NEW id, Begin(r, p, step, id)
    PROVE  /\ OnlySelf(r)
           /\ req'[r].at = step /\ req'[r].of = p /\ req'[r].id = id /\ req'[r].next = "idle"
           /\ req'[r].todo = {} /\ req'[r].users = {}
<1>1. req'[r] = [NoRequest EXCEPT !.at = step, !.of = p, !.id = id] /\ OnlySelf(r)
  BY EntryFields DEF Begin
<1>2. QED
  BY <1>1 DEF NoRequest

LEMMA KeyOK ==
    ASSUME TypeOK, NEW r \in Requests, NEW p, NEW id, NEW want,
           NEW next \in {"idle", "card.create", "card.write"}, Key(r, p, id, next, want),
           next = "card.write" => id <= issued' /\ \A c \in cards' : c.id = id => c.j = p[1]
    PROVE  HandlerOK(r)' /\ OnlySelf(r)
<1>1. req'[r] = [NoRequest EXCEPT !.at = "key.read", !.of = p, !.id = id, !.next = next, !.want = want]
      /\ OnlySelf(r)
  BY EntryFields DEF Key
<1>2. req'[r].at = "key.read" /\ req'[r].of = p /\ req'[r].id = id /\ req'[r].next = next
  BY <1>1 DEF NoRequest
<1>3. QED
  BY <1>1, <1>2
     DEF PurgeSteps, HandlerOK, MemberOK, RowOK, CardOK, TodoOK, DropOK, UsersOK

LEMMA ResumeOK ==
    ASSUME TypeOK, NEW r \in Requests, HandlerOK(r), req[r].at \in {"key.read", "key.wrap"},
           UNCHANGED <<cards, issued>>, Resume(r)
    PROVE  HandlerOK(r)' /\ OnlySelf(r)
<1>1. req[r].next \in {"idle", "card.create", "card.write"}
  BY DEF HandlerOK, CardOK
<1>2. CASE req[r].next = "idle"
  BY <1>2, FinishOK DEF Resume
<1>3. CASE req[r].next = "card.create"
  <2>1. "card.create" \in Careless
    BY DEF Careless, Steps, PurgeSteps
  <2>2. QED
    BY <1>3, <2>1, ContinueOK DEF Resume
<1>4. CASE req[r].next = "card.write"
  <2>1. "card.write" \in Steps
    BY DEF Steps
  <2>2. Continue(r, "card.write")
    BY <1>4 DEF Resume
  <2>3. req[r].id <= issued /\ \A c \in cards : c.id = req[r].id => c.j = req[r].of[1]
    BY <1>4 DEF HandlerOK, CardOK
  <2>4. QED
    BY <1>4, <2>1, <2>2, <2>3, ContinueFields
       DEF PurgeSteps, HandlerOK, MemberOK, RowOK, CardOK, TodoOK, DropOK, UsersOK
<1>5. QED
  BY <1>1, <1>2, <1>3, <1>4

-----------------------------------------------------------------------------
(* What another request about other journalists does is not noticed.       *)
LEMMA Frame ==
    ASSUME TypeOK, TypeOK', NEW r \in Requests, HandlerOK(r), req'[r] = req[r],
           NEW C, Concerns(r) \cap C = {}, Confined(C)
    PROVE  HandlerOK(r)'
<1> DEFINE q == req[r]
<1>q. q \in Request /\ q.of \in Pairs /\ q.of[1] \in Journalists /\ q.of[2] \in Editorials /\ q.id \in Nat
  BY Parts, OfType DEF RequestsOK
<1>t. /\ q.todo \subseteq MemberRow /\ q.users \subseteq Journalists
      /\ rows \in Nat /\ rows' \in Nat /\ issued \in Nat /\ issued' \in Nat
  <2>1. rows \in 0..MaxRows /\ rows' \in 0..MaxRows /\ issued \in 0..MaxCards /\ issued' \in 0..MaxCards
    BY DEF TypeOK
  <2>2. q.todo \subseteq MemberRow /\ q.users \subseteq Journalists
    BY Parts, OfType
  <2>3. QED
    BY <2>1, <2>2, BoundsAssumption
<1>m. \A m \in members \cup members' : m.id \in Nat /\ m.of \in Pairs /\ m.of[1] \in Journalists
  BY PairParts DEF TypeOK, MemberRow
<1>c. \A j \in Journalists : j \in Concerns(r) => j \notin C
  OBVIOUS
<1>1. MemberOK(r)'
  <2>1. ASSUME NEW p \in Pairs, p[1] \notin C, RowOf(p) # {} PROVE RowOf(p)' # {}
    BY <2>1 DEF Confined, RowOf
  <2>2. q.at \in {"grant.write", "attach.grant", "signIn.restore", "signIn.grants", "signIn.seal"} =>
          q.of[1] \notin C
    BY <1>q, <1>c DEF Concerns, PurgeSteps
  <2>3. \A m \in q.todo : m.of \in Pairs
    BY <1>t DEF MemberRow
  <2>4. QED
    BY <1>q, <2>1, <2>2, <2>3 DEF HandlerOK, MemberOK
<1>n. ASSUME NEW n \in members', n.id <= rows
      PROVE  n \in members \/ (n.of[1] \in C /\ \E m \in members : m.id = n.id /\ m.of = n.of)
  BY <1>t, <1>m, <1>n DEF Confined
<1>2. RowOK(r)'
  BY <1>q, <1>t, <1>n DEF HandlerOK, RowOK, Confined
<1>3. CardOK(r)'
  <2>1. ASSUME NEW c \in cards', c.id <= issued PROVE \E d \in cards : d.id = c.id /\ d.j = c.j
    <3>1. c.id \in Nat
      BY DEF TypeOK, CardRow
    <3>2. QED
      BY <1>t, <2>1, <3>1 DEF Confined
  <2>2. QED
    BY <1>q, <1>t, <2>1 DEF HandlerOK, CardOK, Confined
<1>4. TodoOK(r)'
  <2> SUFFICES ASSUME q.at \in {"purge.members", "purge.drop"}, NEW m \in q.todo
               PROVE  m.id <= rows' /\ \A n \in members' : n.id = m.id => n.of = m.of /\ n.state = "expired"
    BY DEF TodoOK
  <2>1. m.id \in Nat /\ m.of[1] \in Journalists
    BY <1>t, PairParts DEF MemberRow
  <2>2. m.id <= rows /\ \A n \in members : n.id = m.id => n.of = m.of /\ n.state = "expired"
    BY DEF HandlerOK, TodoOK
  <2>3. m.of[1] \notin C
    BY <1>c, <2>1 DEF Concerns, PurgeSteps
  <2>4. m.id <= rows'
    BY <1>t, <2>1, <2>2 DEF Confined
  <2>5. ASSUME NEW n \in members', n.id = m.id PROVE n.of = m.of /\ n.state = "expired"
    BY <1>n, <2>2, <2>3, <2>5
  <2>6. QED
    BY <2>4, <2>5
<1>5. DropOK(r)'
  <2> SUFFICES ASSUME q.at = "purge.drop"
               PROVE  /\ q.id <= rows'
                      /\ \A n \in members' : n.id = q.id =>
                            n.state = "expired" /\ ("failures" \notin Handlers => grants'[n.of] = {})
    BY DEF DropOK
  <2>1. /\ q.id <= rows
        /\ \A n \in members : n.id = q.id =>
              n.state = "expired" /\ ("failures" \notin Handlers => grants[n.of] = {})
    BY DEF HandlerOK, DropOK
  <2>2. \A n \in members : n.id = q.id => n.of[1] \notin C
    BY <1>c, <1>m DEF Concerns, PurgeSteps
  <2>3. q.id <= rows'
    BY <1>q, <1>t, <2>1 DEF Confined
  <2>4. ASSUME NEW n \in members', n.id = q.id
        PROVE  n.state = "expired" /\ ("failures" \notin Handlers => grants'[n.of] = {})
    <3>1. n \in members
      BY <1>n, <2>1, <2>2, <2>4
    <3>2. n.of \in Pairs /\ grants'[n.of] = grants[n.of]
      BY <1>m, <2>2, <2>4, <3>1 DEF Confined
    <3>3. QED
      BY <2>1, <2>4, <3>1, <3>2
  <2>5. QED
    BY <2>3, <2>4
<1>6. UsersOK(r)'
  <2>1. q.at \in {"purge.files", "purge.user"} => \A j \in q.users : accounts'[j] = accounts[j]
    BY <1>t, <1>c DEF Concerns, PurgeSteps, Confined
  <2>2. q.at = "purge.user" => accounts'[q.of[1]] = accounts[q.of[1]]
    BY <1>q, <1>c DEF Concerns, PurgeSteps, Confined
  <2>3. QED
    BY <2>1, <2>2 DEF HandlerOK, UsersOK
<1>7. QED
  BY <1>1, <1>2, <1>3, <1>4, <1>5, <1>6 DEF HandlerOK
-----------------------------------------------------------------------------
(* The steps, by what they write                                           *)

LEMMA OfConcerned ==
    ASSUME TypeOK, NEW r \in Requests,
           req[r].at \notin (PurgeSteps \ {"purge.user"}) \cup {"idle", "card.block", "card.remove"}
    PROVE  req[r].of \in Pairs /\ req[r].of[1] \in Concerns(r)
BY Parts, OfType DEF Concerns, PurgeSteps

LEMMA TableTypes ==
    ASSUME TypeOK
    PROVE  /\ \A m \in members : m.of \in Pairs /\ m.of[1] \in Journalists /\ m.id \in Nat /\ m.id <= rows
           /\ \A m, n \in members : m.id = n.id \/ m.of = n.of => m = n
           /\ \A c \in cards : c.id \in Nat /\ c.id <= issued /\ c.j \in Journalists
           /\ \A c, d \in cards : c.id = d.id => c = d
           /\ rows \in Nat /\ issued \in Nat
<1>1. rows \in Nat /\ issued \in Nat
  BY BoundsAssumption DEF TypeOK
<1>2. \A c \in cards : c.id \in Nat /\ c.j \in Journalists
  BY BoundsAssumption DEF TypeOK, CardRow
<1>3. \A m \in members : m.of \in Pairs /\ m.id \in Nat
  BY BoundsAssumption DEF TypeOK, MemberRow
<1>4. QED
  BY <1>1, <1>2, <1>3, PairParts DEF TypeOK

(* Accounts and memberships are left alone.                                *)
LEMMA MembersSame ==
    ASSUME TypeOK, UNCHANGED <<people, editorials, members>>
    PROVE  TakesExpired
BY DEF people, TakesExpired, Exists

(* Only grants of pairs of the journalists it is about are written, and    *)
(* cards only deactivated.                                                 *)
LEMMA LinksWritten ==
    ASSUME TypeOK, UNCHANGED <<people, members, rows, issued>>, NEW C,
           \A p \in Pairs : p[1] \notin C => grants'[p] = grants[p],
           \A c \in cards' : \E d \in cards : d.id = c.id /\ d.j = c.j
    PROVE  Confined(C)
<1>1. rows \in Nat /\ issued \in Nat
  BY TableTypes
<1>2. QED
  BY <1>1 DEF people, Confined

LEMMA SameTables ==
    ASSUME TypeOK, UNCHANGED <<people, editorials, members, rows, credentials>>, NEW C
    PROVE  Confined(C) /\ Rules
<1>1. Confined(C)
  BY LinksWritten DEF credentials
<1>2. EndsGrants
  BY DEF EndsGrants, GrantHasMembership, RowOf, credentials
<1>3. QED
  BY <1>1, <1>2, MembersSame DEF Rules

LEMMA SetMemberOK ==
    ASSUME TypeOK, NEW r \in Requests, HandlerOK(r),
           NEW state \in {"active", "removed"}, NEW next \in Careless, SetMember(r, state, next),
           req[r].at \in {"attach.reactivate", "detach.write", "restore.write"},
           state = "removed" => req[r].at = "detach.write"
    PROVE  StepOK(r)
<1> DEFINE id == req[r].id
<1>u. UNCHANGED <<people, credentials, editorials, rows, joined, invites>>
  BY DEF SetMember
<1>1. CASE \E m \in members : m.id = id
  <2> DEFINE Set(m) == IF m.id = id THEN [m EXCEPT !.state = state] ELSE m
  <2>1. members' = {Set(m) : m \in members} /\ Continue(r, next)
    BY <1>1 DEF SetMember
  <2>2. \A m \in members : Set(m).id = m.id /\ Set(m).of = m.of /\ (m.id # id => Set(m) = m)
    BY DEF TypeOK, MemberRow
  <2>s. \A m \in members : m.id = id => Set(m).state = state
    BY DEF TypeOK, MemberRow
  <2> HIDE DEF Set
  <2>3. \A m \in members : m.id = id => m.of = req[r].of
    BY DEF HandlerOK, RowOK
  <2>4. req[r].of[1] \in Concerns(r)
    BY OfConcerned DEF PurgeSteps
  <2>5. Confined(Concerns(r))
    <3>1. \A m \in members : m.of[1] \notin Concerns(r) => m \in members'
      BY <2>1, <2>2, <2>3, <2>4
    <3>2. \A n \in members' :
            n \in members \/ (n.of[1] \in Concerns(r) /\ \E m \in members : m.id = n.id /\ m.of = n.of)
      BY <2>1, <2>2, <2>3, <2>4
    <3>3. QED
      BY <1>u, <3>1, <3>2, TableTypes DEF Confined, people, credentials
  <2>6. EndsGrants
    <3>1. \A p \in Pairs : RowOf(p) # {} => RowOf(p)' # {}
      BY <2>1, <2>2 DEF RowOf
    <3>2. QED
      BY <1>u, <3>1 DEF EndsGrants, GrantHasMembership, credentials
  <2>7. TakesExpired
    BY <1>u, <2>1, <2>2 DEF TakesExpired, people, Exists
  <2>8. QED
    BY <2>1, <2>5, <2>6, <2>7, ContinueOK DEF StepOK, Rules
<1>2. CASE ~\E m \in members : m.id = id
  <2>1. Finish(r) /\ UNCHANGED members
    BY <1>2 DEF SetMember
  <2>2. QED
    BY <1>u, <2>1, FinishOK, SameTables DEF StepOK
<1>3. QED
  BY <1>1, <1>2

(* A grant is written for a pair that has, or gets, a membership.          *)
LEMMA GrantWritten ==
    ASSUME TypeOK, NEW p \in Pairs, NEW envelope, UNCHANGED <<people, editorials, members, rows, cards, issued>>,
           UNCHANGED grants \/ AddEnvelope(p, envelope), RowOf(p) # {}, NEW C, p[1] \in C
    PROVE  Confined(C) /\ Rules
<1>1. \A q \in Pairs : q # p => grants'[q] = grants[q]
  BY DEF TypeOK, AddEnvelope
<1>2. Confined(C)
  BY <1>1, LinksWritten
<1>3. EndsGrants
  BY <1>1 DEF EndsGrants, GrantHasMembership, RowOf
<1>4. QED
  BY <1>2, <1>3, MembersSame DEF Rules

(* A membership is inserted, with or without its grant.                    *)
LEMMA MemberInserted ==
    ASSUME TypeOK, NEW p \in Pairs, Stands(p), InsertMember(p), NEW envelope,
           UNCHANGED <<people, editorials, cards, issued>>,
           UNCHANGED grants \/ AddEnvelope(p, envelope), NEW C, p[1] \in C
    PROVE  Confined(C) /\ Rules /\ RowOf(p)' # {}
<1> DEFINE new == [id |-> rows + 1, of |-> p, state |-> "active"]
<1>1. rows' = rows + 1 /\ members' = members \cup {new} /\ new.id = rows + 1 /\ new.of = p /\ new.state = "active"
  BY DEF InsertMember
<1> HIDE DEF new
<1>2. \A q \in Pairs : q # p => grants'[q] = grants[q]
  BY DEF TypeOK, AddEnvelope
<1>3. Confined(C)
  BY <1>1, <1>2, TableTypes DEF Confined, people
<1>4. RowOf(p)' # {} /\ \A q \in Pairs : RowOf(q) # {} => RowOf(q)' # {}
  BY <1>1 DEF RowOf
<1>5. EndsGrants
  BY <1>2, <1>4 DEF EndsGrants, GrantHasMembership
<1>6. TakesExpired
  BY <1>1 DEF TakesExpired, people, Exists
<1>7. QED
  BY <1>3, <1>4, <1>5, <1>6 DEF Rules
-----------------------------------------------------------------------------
(* The handlers, one request in flight at a time for each journalist       *)

LEMMA JoiningOK ==
    ASSUME TypeOK, TypeOK', NEW r \in Requests, HandlerOK(r), Joining(r)
    PROVE  StepOK(r)
<1> DEFINE p == req[r].of
<1>s. {"attach.invite", "attach.create", "respond.accept", "respond.reject", "answer"} \subseteq Careless
      /\ "attach.grant" \in Steps
  BY DEF Careless, Steps, PurgeSteps
<1>1. ASSUME NEW q \in Pairs, NEW handler \in {"attach", "superAttach"}, AttachRead(r, q, handler)
      PROVE  StepOK(r)
  <2>1. UNCHANGED <<people, belonging, credentials>>
    BY <1>1 DEF AttachRead
  <2>2. HandlerOK(r)' /\ OnlySelf(r)
    <3>1. CASE \E m \in RowOf(q) : Begin(r, q, "attach.reactivate", m.id)
      <4>1. PICK m \in RowOf(q) : Begin(r, q, "attach.reactivate", m.id)
        BY <3>1
      <4>2. m.id <= rows /\ \A n \in members : n.id = m.id => n.of = q
        BY TableTypes DEF RowOf
      <4>3. QED
        BY <2>1, <4>1, <4>2, BeginFields
           DEF belonging, PurgeSteps, HandlerOK, MemberOK, RowOK, CardOK, TodoOK, DropOK, UsersOK
    <3>2. ASSUME NEW step \in {"attach.invite", "attach.create"}, Begin(r, q, step, 0)
          PROVE  HandlerOK(r)' /\ OnlySelf(r)
      BY <1>s, <3>2, BeginFields, CarelessOK
    <3>3. QED
      BY <1>1, <3>1, <3>2 DEF AttachRead
  <2>3. QED
    BY <2>1, <2>2, SameTables DEF StepOK, belonging
<1>2. ASSUME NEW q \in Pairs, NEW accept \in BOOLEAN, RespondRead(r, q, accept) PROVE StepOK(r)
  <2>1. PICK step \in {"respond.accept", "respond.reject"} : Begin(r, q, step, 0)
    BY <1>2 DEF RespondRead
  <2>2. HandlerOK(r)' /\ OnlySelf(r)
    BY <1>s, <2>1, BeginFields, CarelessOK
  <2>3. QED
    BY <1>2, <2>2, SameTables DEF RespondRead, StepOK, belonging
<1>3. CASE AttachReactivate(r)
  BY <1>s, <1>3, SetMemberOK DEF AttachReactivate
<1>4. CASE AttachInvite(r)
  BY <1>4, FinishOK, SameTables DEF AttachInvite, StepOK
<1>5. CASE AttachCreate(r)
  <2>1. p \in Pairs /\ p[1] \in Concerns(r)
    BY <1>5, OfConcerned DEF AttachCreate, PurgeSteps
  <2>2. CASE Stands(p) /\ RowOf(p) = {} /\ rows < MaxRows
    <3>1. /\ InsertMember(p) /\ Continue(r, "attach.grant")
          /\ UNCHANGED <<people, credentials, editorials, invites>>
      BY <1>5, <2>2 DEF AttachCreate
    <3>p. PICK q \in Pairs : q = p
      BY <2>1
    <3>g. UNCHANGED grants \/ AddEnvelope(q, "wrapped")
      BY <3>1 DEF credentials
    <3>2. Confined(Concerns(r)) /\ Rules /\ RowOf(q)' # {}
      BY <2>1, <2>2, <3>p, <3>g, <3>1, MemberInserted DEF credentials
    <3>3. HandlerOK(r)' /\ OnlySelf(r)
      <4>1. req[r].next \in {"idle", "card.create", "card.write"}
        BY DEF HandlerOK, CardOK
      <4>2. req'[r].at = "attach.grant" /\ req'[r].of = q /\ req'[r].next = req[r].next /\ OnlySelf(r)
        BY <1>s, <3>p, <3>1, ContinueFields
      <4>3. QED
        BY <3>2, <4>1, <4>2
           DEF RowOf, PurgeSteps, HandlerOK, MemberOK, RowOK, CardOK, TodoOK, DropOK, UsersOK
    <3>4. QED
      BY <3>2, <3>3 DEF StepOK
  <2>3. CASE ~(Stands(p) /\ RowOf(p) = {} /\ rows < MaxRows)
    BY <1>5, <2>3, FinishOK, SameTables DEF AttachCreate, StepOK
  <2>4. QED
    BY <2>2, <2>3
<1>6. CASE AttachGrant(r)
  <2>1. p \in Pairs /\ p[1] \in Concerns(r)
    BY <1>6, OfConcerned DEF AttachGrant, PurgeSteps
  <2>2. RowOf(p) # {}
    BY <1>6 DEF AttachGrant, HandlerOK, MemberOK
  <2>3. Confined(Concerns(r)) /\ Rules
    BY <1>6, <2>1, <2>2, GrantWritten DEF AttachGrant, belonging
  <2>4. QED
    BY <1>s, <1>6, <2>3, ContinueOK DEF AttachGrant, StepOK
<1>7. CASE RespondReject(r)
  BY <1>7, FinishOK, SameTables DEF RespondReject, StepOK
<1>8. CASE RespondAccept(r)
  <2>1. p \in Pairs /\ p[1] \in Concerns(r)
    BY <1>8, OfConcerned DEF RespondAccept, PurgeSteps
  <2>2. Confined(Concerns(r)) /\ Rules
    <3>1. CASE ~(Stands(p) /\ invites[p] # "none" /\ (RowOf(p) = {} => rows < MaxRows))
      BY <1>8, <3>1, SameTables DEF RespondAccept, credentials
    <3>2. CASE Stands(p) /\ RowOf(p) = {} /\ InsertMember(p) /\ AddEnvelope(p, "sealed")
      BY <1>8, <2>1, <3>2, MemberInserted DEF RespondAccept
    <3>3. CASE RowOf(p) # {} /\ AddEnvelope(p, "sealed") /\ UNCHANGED <<rows, members>>
      BY <1>8, <2>1, <3>3, GrantWritten DEF RespondAccept
    <3>4. QED
      BY <1>8, <3>1, <3>2, <3>3 DEF RespondAccept
  <2>3. QED
    BY <1>8, <2>2, FinishOK DEF RespondAccept, StepOK
<1>9. QED
  BY <1>1, <1>2, <1>3, <1>4, <1>5, <1>6, <1>7, <1>8 DEF Joining

LEMMA LeavingOK ==
    ASSUME TypeOK, TypeOK', NEW r \in Requests, HandlerOK(r), Leaving(r)
    PROVE  StepOK(r)
<1> DEFINE p == req[r].of
<1>s. {"answer", "detach.invites"} \subseteq Careless /\ "detach.write" \in Steps
  BY DEF Careless, Steps, PurgeSteps
<1>1. ASSUME NEW q \in Pairs, DetachRead(r, q) \/ RestoreMembership(r, q) PROVE StepOK(r)
  <2>1. UNCHANGED <<people, belonging, credentials>>
    BY <1>1 DEF DetachRead, RestoreMembership
  <2>2. PICK m \in RowOf(q), step \in {"detach.count", "restore.write"} : Begin(r, q, step, m.id)
    BY <1>1 DEF DetachRead, RestoreMembership
  <2>3. m.id <= rows /\ \A n \in members : n.id = m.id => n.of = q
    BY TableTypes DEF RowOf
  <2>4. HandlerOK(r)' /\ OnlySelf(r)
    BY <2>1, <2>2, <2>3, BeginFields
       DEF belonging, PurgeSteps, HandlerOK, MemberOK, RowOK, CardOK, TodoOK, DropOK, UsersOK
  <2>5. QED
    BY <2>1, <2>4, SameTables DEF StepOK, belonging
<1>2. CASE DetachCount(r)
  <2>1. UNCHANGED <<people, belonging, credentials>>
    BY <1>2 DEF DetachCount
  <2>2. CASE ActiveCards(p) = {} /\ Continue(r, "detach.write")
    <3>1. /\ req'[r].at = "detach.write" /\ req'[r].of = p /\ req'[r].id = req[r].id
          /\ req'[r].next = req[r].next /\ OnlySelf(r)
      BY <1>s, <2>2, ContinueFields
    <3>2. req[r].id <= rows /\ \A m \in members : m.id = req[r].id => m.of = p
      BY <1>2 DEF DetachCount, HandlerOK, RowOK
    <3>3. req[r].next \in {"idle", "card.create", "card.write"}
      BY DEF HandlerOK, CardOK
    <3>4. HandlerOK(r)'
      BY <2>1, <3>1, <3>2, <3>3
         DEF belonging, PurgeSteps, HandlerOK, MemberOK, RowOK, CardOK, TodoOK, DropOK, UsersOK
    <3>5. QED
      BY <2>1, <3>1, <3>4, SameTables DEF StepOK, belonging
  <2>3. CASE Finish(r)
    BY <2>1, <2>3, FinishOK, SameTables DEF StepOK, belonging
  <2>4. QED
    BY <1>2, <2>2, <2>3 DEF DetachCount
<1>3. CASE DetachWrite(r)
  BY <1>s, <1>3, SetMemberOK DEF DetachWrite
<1>4. CASE DetachInvites(r)
  BY <1>s, <1>4, ContinueOK, SameTables DEF DetachInvites, StepOK
<1>5. CASE RestoreMembershipWrite(r)
  BY <1>s, <1>5, SetMemberOK DEF RestoreMembershipWrite
<1>6. QED
  BY <1>1, <1>2, <1>3, <1>4, <1>5 DEF Leaving
LEMMA SetAccountOK ==
    ASSUME TypeOK, NEW r \in Requests, NEW j \in Journalists, NEW state \in {"live", "deleted"},
           NEW next, SetAccount(r, j, state, next), NEW C, j \in C
    PROVE  Confined(C) /\ Rules
<1>u. UNCHANGED <<files, belonging, credentials>>
  BY DEF SetAccount
<1>1. CASE Exists(j)
  <2>1. accounts' = [accounts EXCEPT ![j] = state]
    BY <1>1 DEF SetAccount
  <2>2. /\ \A k \in Journalists : k # j => accounts'[k] = accounts[k]
        /\ \A k \in Journalists : Exists(k) => Exists(k)'
    BY <2>1 DEF TypeOK, Exists
  <2>3. Confined(C)
    BY <1>u, <2>2, TableTypes DEF Confined, belonging, credentials
  <2>4. EndsGrants
    BY <1>u DEF EndsGrants, GrantHasMembership, RowOf, belonging, credentials
  <2>5. TakesExpired
    BY <1>u, <2>2 DEF TakesExpired, belonging
  <2>6. QED
    BY <2>3, <2>4, <2>5 DEF Rules
<1>2. CASE ~Exists(j)
  BY <1>u, <1>2, SameTables DEF SetAccount, people, belonging
<1>3. QED
  BY <1>1, <1>2

LEMMA GrantingOK ==
    ASSUME TypeOK, TypeOK', NEW r \in Requests, HandlerOK(r), Granting(r)
    PROVE  StepOK(r)
<1>s. {"signIn.grants", "signIn.seal", "signIn.restore", "grant.write", "key.wrap"} \subseteq Steps
  BY DEF Steps
<1>n. req[r].next \in {"idle", "card.create", "card.write"}
  BY DEF HandlerOK, CardOK
<1>p. req[r].of \in Pairs /\ req[r].of[1] \in Journalists
  BY Parts, OfType
<1>1. ASSUME NEW q \in Pairs, GrantRead(r, q) PROVE StepOK(r)
  <2>1. UNCHANGED <<people, belonging, credentials>> /\ Begin(r, q, "grant.write", 0) /\ RowOf(q) # {}
    BY <1>1 DEF GrantRead
  <2>2. HandlerOK(r)' /\ OnlySelf(r)
    BY <2>1, BeginFields
       DEF RowOf, belonging, PurgeSteps, HandlerOK, MemberOK, RowOK, CardOK, TodoOK, DropOK, UsersOK
  <2>3. QED
    BY <2>1, <2>2, SameTables DEF StepOK, belonging
<1>2. ASSUME NEW q \in Pairs, AdminRead(r, q) PROVE StepOK(r)
  BY <1>2, KeyOK, SameTables DEF AdminRead, StepOK, belonging
<1>3. ASSUME NEW j \in Journalists, SignInRead(r, j) PROVE StepOK(r)
  <2> DEFINE todo == {m \in members : m.of[1] = j /\ m.state = "active"}
             new == [NoRequest EXCEPT
                       !.at = IF accounts[j] = "deleted" THEN "signIn.restore" ELSE "signIn.grants",
                       !.of = AnyOf(j), !.todo = todo]
  <2>1. UNCHANGED <<people, belonging, credentials>> /\ req' = [req EXCEPT ![r] = new]
    BY <1>3 DEF SignInRead
  <2>2. AnyOf(j)[1] = j /\ \A m \in todo : m.of[1] = j /\ RowOf(m.of) # {}
    BY DEF AnyOf, RowOf
  <2> HIDE DEF todo
  <2>3. /\ new.at \in {"signIn.restore", "signIn.grants"} /\ new.todo = todo
        /\ new.of = AnyOf(j) /\ new.next = "idle"
    BY DEF NoRequest
  <2> HIDE DEF new
  <2>4. req'[r] = new /\ OnlySelf(r)
    BY <2>1, EntryFields
  <2>5. HandlerOK(r)'
    BY <2>1, <2>2, <2>3, <2>4
       DEF RowOf, belonging, PurgeSteps, HandlerOK, MemberOK, RowOK, CardOK, TodoOK, DropOK, UsersOK
  <2>6. QED
    BY <2>1, <2>4, <2>5, SameTables DEF StepOK, belonging
<1>4. CASE GrantWrite(r)
  <2>1. req[r].of[1] \in Concerns(r) /\ RowOf(req[r].of) # {}
    BY <1>4, OfConcerned DEF GrantWrite, PurgeSteps, HandlerOK, MemberOK
  <2>2. Confined(Concerns(r)) /\ Rules
    BY <1>p, <1>4, <2>1, GrantWritten DEF GrantWrite, belonging
  <2>3. QED
    BY <1>4, <2>2, FinishOK DEF GrantWrite, StepOK
<1>5. CASE SignInRestore(r)
  <2>1. SetAccount(r, req[r].of[1], "live", "signIn.grants") /\ req[r].at = "signIn.restore"
    BY <1>5 DEF SignInRestore
  <2>2. req[r].of[1] \in Concerns(r)
    BY <2>1, OfConcerned DEF PurgeSteps
  <2>3. Confined(Concerns(r)) /\ Rules
    BY <1>p, <2>1, <2>2, SetAccountOK
  <2>4. HandlerOK(r)' /\ OnlySelf(r)
    <3>1. CASE Finish(r)
      BY <3>1, FinishOK
    <3>2. CASE Continue(r, "signIn.grants")
      <4>1. /\ req'[r].at = "signIn.grants" /\ req'[r].of = req[r].of /\ req'[r].todo = req[r].todo
            /\ req'[r].next = req[r].next /\ OnlySelf(r)
        BY <1>s, <3>2, ContinueFields
      <4>2. \A m \in req[r].todo : m.of[1] = req[r].of[1] /\ RowOf(m.of) # {}
        BY <2>1 DEF HandlerOK, MemberOK
      <4>3. members' = members
        BY <2>1 DEF SetAccount, belonging
      <4>4. QED
        BY <1>n, <4>1, <4>2, <4>3
           DEF RowOf, PurgeSteps, HandlerOK, MemberOK, RowOK, CardOK, TodoOK, DropOK, UsersOK
    <3>3. QED
      BY <2>1, <3>1, <3>2 DEF SetAccount
  <2>5. QED
    BY <2>3, <2>4 DEF StepOK
<1>6. CASE SignInGrants(r)
  <2>1. UNCHANGED <<people, belonging, credentials>>
    BY <1>6 DEF SignInGrants
  <2>2. CASE Finish(r)
    BY <2>1, <2>2, FinishOK, SameTables DEF StepOK, belonging
  <2>3. ASSUME NEW m \in req[r].todo,
               req' = [req EXCEPT ![r].todo = @ \ {m}, ![r].of = m.of,
                                  ![r].at = IF grants[m.of] = {} /\ m.of[2] \in editorials
                                            THEN "signIn.seal" ELSE "signIn.grants"]
        PROVE  StepOK(r)
    <3>1. /\ req'[r].at \in {"signIn.seal", "signIn.grants"} /\ req'[r].of = m.of
          /\ req'[r].todo = req[r].todo \ {m} /\ req'[r].next = req[r].next /\ OnlySelf(r)
      BY <2>3, Parts DEF RequestsOK, Request, OnlySelf
    <3>2. \A n \in req[r].todo : n.of[1] = req[r].of[1] /\ RowOf(n.of) # {}
      BY <1>6 DEF SignInGrants, HandlerOK, MemberOK
    <3>3. HandlerOK(r)'
      BY <1>n, <2>1, <3>1, <3>2
         DEF RowOf, belonging, PurgeSteps, HandlerOK, MemberOK, RowOK, CardOK, TodoOK, DropOK, UsersOK
    <3>4. QED
      BY <2>1, <3>1, <3>3, SameTables DEF StepOK, belonging
  <2>4. QED
    BY <1>6, <2>2, <2>3 DEF SignInGrants
<1>7. CASE SignInSeal(r)
  <2>1. /\ req[r].of[1] \in Concerns(r) /\ RowOf(req[r].of) # {}
        /\ \A m \in req[r].todo : m.of[1] = req[r].of[1] /\ RowOf(m.of) # {}
    BY <1>7, OfConcerned DEF SignInSeal, PurgeSteps, HandlerOK, MemberOK
  <2>2. Confined(Concerns(r)) /\ Rules
    BY <1>p, <1>7, <2>1, GrantWritten DEF SignInSeal, belonging
  <2>3. HandlerOK(r)' /\ OnlySelf(r)
    <3>1. CASE Finish(r)
      BY <3>1, FinishOK
    <3>2. CASE Continue(r, "signIn.grants")
      <4>1. /\ req'[r].at = "signIn.grants" /\ req'[r].of = req[r].of /\ req'[r].todo = req[r].todo
            /\ req'[r].next = req[r].next /\ OnlySelf(r)
        BY <1>s, <3>2, ContinueFields
      <4>2. members' = members
        BY <1>7 DEF SignInSeal, belonging
      <4>3. QED
        BY <1>n, <2>1, <4>1, <4>2
           DEF RowOf, PurgeSteps, HandlerOK, MemberOK, RowOK, CardOK, TodoOK, DropOK, UsersOK
    <3>3. QED
      BY <1>7, <3>1, <3>2 DEF SignInSeal
  <2>4. QED
    BY <2>2, <2>3 DEF StepOK
<1>8. CASE Answer(r)
  <2>1. Finish(r) \/ \E m \in members : Key(r, m.of, 0, "idle", "as is")
    BY <1>8 DEF Answer
  <2>2. HandlerOK(r)' /\ OnlySelf(r)
    BY <2>1, FinishOK, KeyOK
  <2>3. QED
    BY <1>8, <2>2, SameTables DEF Answer, StepOK, belonging
<1>9. CASE KeyRead(r)
  <2>1. UNCHANGED <<people, belonging, credentials>> /\ req[r].at = "key.read"
        /\ (Finish(r) \/ Continue(r, "key.wrap") \/ Resume(r))
    BY <1>9 DEF KeyRead
  <2>2. HandlerOK(r)' /\ OnlySelf(r)
    <3>1. CASE Finish(r)
      BY <3>1, FinishOK
    <3>2. CASE Resume(r)
      BY <2>1, <3>2, ResumeOK DEF credentials
    <3>3. CASE Continue(r, "key.wrap")
      <4>1. /\ req'[r].at = "key.wrap" /\ req'[r].of = req[r].of /\ req'[r].id = req[r].id
            /\ req'[r].next = req[r].next /\ OnlySelf(r)
        BY <1>s, <3>3, ContinueFields
      <4>2. req[r].next = "card.write" =>
              req[r].id <= issued /\ \A c \in cards : c.id = req[r].id => c.j = req[r].of[1]
        BY <2>1 DEF HandlerOK, CardOK
      <4>3. QED
        BY <1>n, <2>1, <4>1, <4>2
           DEF credentials, PurgeSteps, HandlerOK, MemberOK, RowOK, CardOK, TodoOK, DropOK, UsersOK
    <3>4. QED
      BY <2>1, <3>1, <3>2, <3>3
  <2>3. QED
    BY <2>1, <2>2, SameTables DEF StepOK, belonging
<1>10. CASE KeyWrap(r)
  <2>1. req[r].at = "key.wrap" /\ UNCHANGED <<people, belonging, cards, issued>>
    BY <1>10 DEF KeyWrap
  <2>2. req[r].of[1] \in Concerns(r)
    BY <2>1, OfConcerned DEF PurgeSteps
  <2>3. /\ \A q \in Pairs : q # req[r].of => grants'[q] = grants[q]
        /\ \A q \in Pairs : grants'[q] # {} => grants[q] # {}
    BY <1>10, <1>p DEF KeyWrap, TypeOK
  <2>4. Confined(Concerns(r))
    BY <2>1, <2>2, <2>3, LinksWritten DEF belonging
  <2>5. EndsGrants
    BY <2>1, <2>3 DEF EndsGrants, GrantHasMembership, RowOf, belonging
  <2>6. Finish(r) \/ Resume(r)
    BY <1>10 DEF KeyWrap
  <2>7. HandlerOK(r)' /\ OnlySelf(r)
    BY <2>1, <2>6, FinishOK, ResumeOK
  <2>8. QED
    BY <2>1, <2>4, <2>5, <2>7, MembersSame DEF StepOK, Rules, belonging
<1>11. QED
  BY <1>1, <1>2, <1>3, <1>4, <1>5, <1>6, <1>7, <1>8, <1>9, <1>10 DEF Granting

(* A card row is written, and its status only of a journalist it is about. *)
LEMMA CardWritten ==
    ASSUME TypeOK, NEW c \in cards, NEW d \in CardRow, d.id = c.id, d.j = c.j, SetCard(c.id, d),
           UNCHANGED <<people, belonging, grants, issued>>, NEW C,
           c.j \notin C /\ d.status = "ACTIVE" /\ d.e # None => c.status = "ACTIVE" /\ d.e = c.e
    PROVE  Confined(C) /\ Rules
<1>1. \A x \in cards' : x \in cards \/ x = d
  BY DEF SetCard
<1>2. Confined(C)
  BY <1>1, LinksWritten DEF belonging
<1>3. EndsGrants
  BY DEF EndsGrants, GrantHasMembership, RowOf, belonging
<1>4. QED
  BY <1>2, <1>3, MembersSame DEF Rules, belonging

LEMMA IssuingOK ==
    ASSUME TypeOK, TypeOK', NEW r \in Requests, HandlerOK(r), Issuing(r)
    PROVE  StepOK(r)
<1>n. req[r].next \in {"idle", "card.create", "card.write"}
  BY DEF HandlerOK, CardOK
<1>r. req[r] \in Request
  BY Parts DEF RequestsOK
<1>1. ASSUME NEW p \in Pairs, IssueRead(r, p) PROVE StepOK(r)
  BY <1>1, KeyOK, SameTables DEF IssueRead, StepOK, belonging
<1>2. ASSUME NEW c \in cards, NEW want, RenewRead(r, c) \/ UpdateRead(r, c, want) PROVE StepOK(r)
  <2>1. UNCHANGED <<people, belonging, credentials>>
    BY <1>2 DEF RenewRead, UpdateRead
  <2>2. PICK w : Key(r, <<c.j, c.e>>, c.id, "card.write", w)
    BY <1>2 DEF RenewRead, UpdateRead
  <2>3. c.id <= issued /\ \A d \in cards : d.id = c.id => d.j = <<c.j, c.e>>[1]
    BY TableTypes
  <2>4. c.id <= issued' /\ \A d \in cards' : d.id = c.id => d.j = <<c.j, c.e>>[1]
    BY <2>1, <2>3 DEF credentials
  <2>5. HandlerOK(r)' /\ OnlySelf(r)
    BY <2>2, <2>4, KeyOK
  <2>6. QED
    BY <2>1, <2>5, SameTables DEF StepOK, belonging
<1>3. ASSUME NEW c \in cards, BlockRead(r, c) \/ RemoveRead(r, c) PROVE StepOK(r)
  <2>1. UNCHANGED <<people, belonging, credentials>>
    BY <1>3 DEF BlockRead, RemoveRead
  <2>2. PICK step \in {"card.block", "card.remove"} :
          req' = [req EXCEPT ![r] = [NoRequest EXCEPT !.at = step, !.id = c.id]]
    BY <1>3 DEF BlockRead, RemoveRead
  <2> DEFINE new == [NoRequest EXCEPT !.at = step, !.id = c.id]
  <2>m. new.at = step /\ new.next = "idle" /\ req' = [req EXCEPT ![r] = new]
    BY <2>2 DEF NoRequest
  <2> HIDE DEF new
  <2>3. req'[r].at = step /\ req'[r].next = "idle" /\ OnlySelf(r)
    BY <2>m, EntryFields
  <2>4. step \in Careless
    BY DEF Careless, Steps, PurgeSteps
  <2>5. QED
    BY <2>1, <2>3, <2>4, CarelessOK, SameTables DEF StepOK, belonging
<1>4. CASE CardCreate(r)
  <2> DEFINE p == req[r].of
  <2>1. p \in Pairs /\ p[1] \in Concerns(r) /\ UNCHANGED <<people, belonging, grants>>
    BY <1>4, OfConcerned DEF CardCreate, PurgeSteps
  <2>2. CASE /\ issued' = issued + 1
             /\ cards' = cards \cup {[id |-> issued + 1, j |-> p[1], e |-> p[2],
                                      status |-> "ACTIVE", data |-> FALSE]}
             /\ req' = [req EXCEPT ![r].at = "card.data", ![r].id = issued + 1]
    <3> DEFINE new == [id |-> issued + 1, j |-> p[1], e |-> p[2], status |-> "ACTIVE", data |-> FALSE]
    <3>1. cards' = cards \cup {new} /\ new.id = issued + 1 /\ new.j = p[1]
      BY <2>2
    <3> HIDE DEF new
    <3>2. Confined(Concerns(r))
      BY <2>1, <2>2, <3>1, TableTypes DEF Confined, people, belonging
    <3>3. EndsGrants
      BY <2>1 DEF EndsGrants, GrantHasMembership, RowOf, belonging
    <3>4. req'[r].at = "card.data" /\ req'[r].next = req[r].next /\ OnlySelf(r)
      BY <1>r, <2>2, Parts DEF RequestsOK, Request, OnlySelf
    <3>5. "card.data" \in Careless
      BY DEF Careless, Steps, PurgeSteps
    <3>6. HandlerOK(r)'
      BY <1>n, <3>4, <3>5, CarelessOK
    <3>7. QED
      BY <2>1, <3>2, <3>3, <3>4, <3>6, MembersSame DEF StepOK, Rules, belonging
  <2>3. CASE Finish(r) /\ UNCHANGED <<cards, issued>>
    BY <2>1, <2>3, FinishOK, SameTables DEF StepOK, belonging, credentials
  <2>4. QED
    BY <1>4, <2>2, <2>3 DEF CardCreate
<1>a. ASSUME NEW c \in cards, AnswerCard(r, c) PROVE HandlerOK(r)' /\ OnlySelf(r)
  BY <1>a, FinishOK, KeyOK DEF AnswerCard
<1>c. ASSUME NEW c \in cards
      PROVE  /\ [c EXCEPT !.data = TRUE] \in CardRow
             /\ [c EXCEPT !.data = TRUE].id = c.id /\ [c EXCEPT !.data = TRUE].j = c.j
             /\ [c EXCEPT !.data = TRUE].status = c.status /\ [c EXCEPT !.data = TRUE].e = c.e
             /\ \A st \in {"ACTIVE", "BLOCKED"} :
                   /\ [c EXCEPT !.status = st] \in CardRow
                   /\ [c EXCEPT !.status = st].id = c.id /\ [c EXCEPT !.status = st].j = c.j
                   /\ [c EXCEPT !.status = st].status = st
             /\ c.status \in {"ACTIVE", "BLOCKED"}
  <2>1. c \in CardRow
    BY DEF TypeOK
  <2>2. QED
    BY <2>1 DEF CardRow
<1>5. CASE CardData(r)
  <2>1. UNCHANGED <<people, belonging, grants, issued>> /\ Finish(r)
    BY <1>5 DEF CardData
  <2>2. CASE UNCHANGED cards
    BY <2>1, <2>2, FinishOK, SameTables DEF StepOK, belonging, credentials
  <2>3. ASSUME NEW c \in cards, SetCard(c.id, [c EXCEPT !.data = TRUE]) PROVE StepOK(r)
    <3> DEFINE d == [c EXCEPT !.data = TRUE]
    <3>d. d \in CardRow /\ d.id = c.id /\ d.j = c.j /\ d.status = c.status /\ d.e = c.e /\ SetCard(c.id, d)
      BY <1>c, <2>3
    <3> HIDE DEF d
    <3>1. Confined(Concerns(r)) /\ Rules
      BY <2>1, <3>d, CardWritten
    <3>2. QED
      BY <2>1, <3>1, FinishOK DEF StepOK
  <2>4. QED
    BY <1>5, <2>2, <2>3 DEF CardData, CardOf
<1>6. CASE CardWrite(r)
  <2>1. UNCHANGED <<people, belonging, grants, issued>> /\ req[r].at = "card.write"
    BY <1>6 DEF CardWrite
  <2>2. CASE Finish(r) /\ UNCHANGED cards
    BY <2>1, <2>2, FinishOK, SameTables DEF StepOK, belonging, credentials
  <2>3. ASSUME NEW c \in CardOf(req[r].id), AnswerCard(r, c),
               SetCard(c.id, [c EXCEPT !.status = IF req[r].want = "as is" THEN @ ELSE req[r].want])
        PROVE  StepOK(r)
    <3>1. c \in cards /\ c.id = req[r].id
      BY DEF CardOf
    <3>2. c.j = req[r].of[1]
      BY <2>1, <3>1 DEF HandlerOK, CardOK
    <3>3. c.j \in Concerns(r)
      BY <2>1, <3>2, OfConcerned DEF PurgeSteps
    <3>4. PICK st \in {"ACTIVE", "BLOCKED"} : SetCard(c.id, [c EXCEPT !.status = st])
      BY <1>c, <1>r, <2>3, <3>1 DEF Request
    <3> DEFINE d == [c EXCEPT !.status = st]
    <3>s. SetCard(c.id, d)
      BY <3>4
    <3>r. c \in CardRow
      BY <3>1 DEF TypeOK
    <3>d. d \in CardRow /\ d.id = c.id /\ d.j = c.j
      BY <3>r DEF CardRow
    <3> HIDE DEF d
    <3>5. Confined(Concerns(r)) /\ Rules
      BY <2>1, <3>1, <3>3, <3>s, <3>d, CardWritten
    <3>6. QED
      BY <1>a, <2>3, <3>1, <3>5 DEF StepOK
  <2>4. QED
    BY <1>6, <2>2, <2>3 DEF CardWrite
<1>7. CASE CardBlock(r)
  <2>1. UNCHANGED <<people, belonging, grants, issued>>
    BY <1>7 DEF CardBlock
  <2>2. CASE Finish(r) /\ UNCHANGED cards
    BY <2>1, <2>2, FinishOK, SameTables DEF StepOK, belonging, credentials
  <2>3. ASSUME NEW c \in cards, AnswerCard(r, c), SetCard(c.id, [c EXCEPT !.status = "BLOCKED"])
        PROVE  StepOK(r)
    <3> DEFINE d == [c EXCEPT !.status = "BLOCKED"]
    <3>d. d \in CardRow /\ d.id = c.id /\ d.j = c.j /\ d.status = "BLOCKED" /\ SetCard(c.id, d)
      BY <1>c, <2>3
    <3> HIDE DEF d
    <3>1. Confined(Concerns(r)) /\ Rules
      BY <2>1, <3>d, CardWritten
    <3>2. QED
      BY <1>a, <2>3, <3>1 DEF StepOK
  <2>4. QED
    BY <1>7, <2>2, <2>3 DEF CardBlock, CardOf
<1>8. CASE CardRemove(r)
  <2>1. UNCHANGED <<people, belonging, grants, issued>> /\ Finish(r) /\ cards' \subseteq cards
    BY <1>8 DEF CardRemove
  <2>2. Confined(Concerns(r))
    BY <2>1, LinksWritten DEF belonging
  <2>3. EndsGrants
    BY <2>1 DEF EndsGrants, GrantHasMembership, RowOf, belonging
  <2>4. QED
    BY <2>1, <2>2, <2>3, FinishOK, MembersSame DEF StepOK, Rules, belonging
<1>9. QED
  BY <1>1, <1>2, <1>3, <1>4, <1>5, <1>6, <1>7, <1>8 DEF Issuing

LEMMA DeletingOK ==
    ASSUME TypeOK, TypeOK', NEW r \in Requests, HandlerOK(r), Deleting(r)
    PROVE  StepOK(r)
<1>s. {"account.remove", "account.restore", "answer", "idle"} \subseteq Careless
  BY DEF Careless, Steps, PurgeSteps
<1>p. req[r].of \in Pairs /\ req[r].of[1] \in Journalists
  BY Parts, OfType
<1>1. ASSUME NEW j \in Journalists, RemoveAccount(r, j) \/ RestoreAccount(r, j) PROVE StepOK(r)
  <2>1. UNCHANGED <<people, belonging, credentials>>
    BY <1>1 DEF RemoveAccount, RestoreAccount
  <2>2. PICK step \in {"account.remove", "account.restore"} : Begin(r, AnyOf(j), step, 0)
    BY <1>1 DEF RemoveAccount, RestoreAccount
  <2>3. HandlerOK(r)' /\ OnlySelf(r)
    BY <1>s, <2>2, BeginFields, CarelessOK
  <2>4. QED
    BY <2>1, <2>3, SameTables DEF StepOK, belonging
<1>2. ASSUME NEW p \in Pairs, RemoveEditorial(r, p) PROVE StepOK(r)
  <2>1. UNCHANGED <<people, belonging, credentials>> /\ Begin(r, p, "editorial.remove", 0)
    BY <1>2 DEF RemoveEditorial
  <2>2. HandlerOK(r)' /\ OnlySelf(r)
    BY <2>1, BeginFields
       DEF belonging, PurgeSteps, HandlerOK, MemberOK, RowOK, CardOK, TodoOK, DropOK, UsersOK
  <2>3. QED
    BY <2>1, <2>2, SameTables DEF StepOK, belonging
<1>3. CASE AccountRemove(r) \/ AccountRestore(r)
  <2>1. PICK state \in {"deleted", "live"}, next \in {"idle", "answer"} : SetAccount(r, req[r].of[1], state, next)
    BY <1>3 DEF AccountRemove, AccountRestore
  <2>2. req[r].of[1] \in Concerns(r)
    BY <1>3, OfConcerned DEF AccountRemove, AccountRestore, PurgeSteps
  <2>3. Confined(Concerns(r)) /\ Rules
    BY <1>p, <2>1, <2>2, SetAccountOK
  <2>4. Finish(r) \/ Continue(r, next)
    BY <2>1 DEF SetAccount
  <2>5. HandlerOK(r)' /\ OnlySelf(r)
    BY <1>s, <2>4, FinishOK, ContinueOK
  <2>6. QED
    BY <2>3, <2>5 DEF StepOK
<1>4. CASE EditorialRemove(r)
  <2> DEFINE e == req[r].of[2]
  <2>1. /\ req[r].at = "editorial.remove" /\ editorials' = editorials \ {e}
        /\ members' = {m \in members : m.of[2] # e}
        /\ grants' = [p \in Pairs |-> IF p[2] = e THEN {} ELSE grants[p]]
        /\ cards' = {IF c.e = e THEN [c EXCEPT !.e = None] ELSE c : c \in cards}
        /\ Finish(r) /\ UNCHANGED <<people, rows, joined, issued>>
    BY <1>4 DEF EditorialRemove
  <2> HIDE DEF e
  <2>2. Journalists \subseteq Concerns(r)
    BY <2>1 DEF Concerns
  <2>3. \A c \in cards' : \E d \in cards : d.id = c.id /\ d.j = c.j
    BY <2>1, Parts DEF CardsOK, CardRow
  <2>4. Confined(Concerns(r))
    BY <2>1, <2>2, <2>3, TableTypes, PairParts DEF Confined, people
  <2>5. EndsGrants
    BY <2>1 DEF EndsGrants, GrantHasMembership, RowOf
  <2>6. TakesExpired
    BY <2>1 DEF TakesExpired, people, Exists, Stands
  <2>7. QED
    BY <2>1, <2>4, <2>5, <2>6, FinishOK DEF StepOK, Rules
<1>5. QED
  BY <1>1, <1>2, <1>3, <1>4 DEF Deleting

LEMMA PurgingOK ==
    ASSUME TypeOK, TypeOK', NEW r \in Requests, HandlerOK(r), PurgeStart(r) \/ Purging(r)
    PROVE  StepOK(r)
<1>s. {"purge.members", "purge.drop", "purge.files", "purge.user"} \subseteq Steps
  BY DEF Steps
<1>n. req[r].next \in {"idle", "card.create", "card.write"}
  BY DEF HandlerOK, CardOK
<1>r. req[r] \in Request /\ req \in [Requests -> Request]
  BY Parts DEF RequestsOK
<1>t. req[r].todo \subseteq MemberRow /\ req[r].users \subseteq Journalists
      /\ req[r].of \in Pairs /\ req[r].of[1] \in Journalists
  BY Parts, OfType
<1>1. CASE PurgeStart(r)
  <2> DEFINE todo == {m \in members : m.state = "expired"}
             new == [NoRequest EXCEPT !.at = "purge.members", !.todo = todo]
  <2>1. UNCHANGED <<people, belonging, credentials>> /\ req' = [req EXCEPT ![r] = new]
    BY <1>1 DEF PurgeStart
  <2>2. \A m \in todo : m.id <= rows /\ \A n \in members : n.id = m.id => n.of = m.of /\ n.state = "expired"
    BY TableTypes
  <2> HIDE DEF todo
  <2>3. new.at = "purge.members" /\ new.todo = todo /\ new.next = "idle"
    BY DEF NoRequest
  <2> HIDE DEF new
  <2>4. req'[r] = new /\ OnlySelf(r)
    BY <2>1, EntryFields
  <2>5. HandlerOK(r)'
    BY <2>1, <2>2, <2>3, <2>4
       DEF belonging, PurgeSteps, HandlerOK, MemberOK, RowOK, CardOK, TodoOK, DropOK, UsersOK
  <2>6. QED
    BY <2>1, <2>4, <2>5, SameTables DEF StepOK, belonging
<1>2. CASE PurgeRevoke(r)
  <2>1. PICK m \in req[r].todo :
          /\ req' = [req EXCEPT ![r].at = "purge.drop", ![r].id = m.id, ![r].todo = @ \ {m}]
          /\ \/ grants' = [grants EXCEPT ![m.of] = {}]
             \/ "failures" \in Handlers /\ UNCHANGED grants
    BY <1>2 DEF PurgeRevoke
  <2>2. UNCHANGED <<people, belonging, cards, issued>> /\ req[r].at = "purge.members"
    BY <1>2 DEF PurgeRevoke
  <2>3. m.of \in Pairs /\ m.of[1] \in Concerns(r)
    <3>1. m.of \in Pairs /\ m.of[1] \in Journalists
      BY <1>t, PairParts DEF MemberRow
    <3>2. QED
      BY <2>2, <3>1 DEF Concerns, PurgeSteps
  <2>4. /\ \A q \in Pairs : q # m.of => grants'[q] = grants[q]
        /\ \A q \in Pairs : grants'[q] # {} => grants[q] # {}
        /\ "failures" \notin Handlers => grants'[m.of] = {}
    BY <2>1, <2>3 DEF TypeOK
  <2>5. Confined(Concerns(r))
    BY <2>2, <2>3, <2>4, LinksWritten DEF belonging
  <2>6. EndsGrants
    BY <2>2, <2>4 DEF EndsGrants, GrantHasMembership, RowOf, belonging
  <2>7. /\ req'[r].at = "purge.drop" /\ req'[r].id = m.id /\ req'[r].todo = req[r].todo \ {m}
        /\ req'[r].next = req[r].next /\ OnlySelf(r)
    BY <1>r, <2>1 DEF Request, OnlySelf
  <2>8. \A k \in req[r].todo :
          k.id <= rows /\ \A n \in members : n.id = k.id => n.of = k.of /\ n.state = "expired"
    BY <2>2 DEF HandlerOK, TodoOK
  <2>9. HandlerOK(r)'
    BY <1>n, <2>2, <2>4, <2>7, <2>8
       DEF belonging, PurgeSteps, HandlerOK, MemberOK, RowOK, CardOK, TodoOK, DropOK, UsersOK
  <2>10. QED
    BY <2>2, <2>5, <2>6, <2>7, <2>9, MembersSame DEF StepOK, Rules, belonging
<1>3. CASE PurgeDrop(r)
  <2> DEFINE id == req[r].id
  <2>1. /\ UNCHANGED <<people, credentials, editorials, rows>> /\ req[r].at = "purge.drop"
        /\ members' = {m \in members : m.id # id}
        /\ Continue(r, "purge.members") \/ Finish(r)
    BY <1>3 DEF PurgeDrop
  <2>2. \A m \in members : m.id = id =>
          /\ m.state = "expired" /\ ("failures" \notin Handlers => grants[m.of] = {})
          /\ m.of[1] \in Concerns(r)
    BY <2>1, TableTypes DEF HandlerOK, DropOK, Concerns, PurgeSteps
  <2>3. Confined(Concerns(r))
    BY <2>1, <2>2, TableTypes DEF Confined, people, credentials
  <2>4. EndsGrants
    <3> SUFFICES ASSUME "failures" \notin Handlers, GrantHasMembership, NEW p \in Pairs, grants'[p] # {}
                 PROVE  RowOf(p)' # {}
      BY DEF EndsGrants, GrantHasMembership
    <3>1. PICK m \in members : m.of = p
      BY <2>1 DEF GrantHasMembership, RowOf, credentials
    <3>2. m.id # id
      BY <2>1, <2>2, <3>1 DEF credentials
    <3>3. QED
      BY <2>1, <3>1, <3>2 DEF RowOf
  <2>5. TakesExpired
    BY <2>1, <2>2 DEF TakesExpired, people, Exists
  <2>6. HandlerOK(r)' /\ OnlySelf(r)
    <3>1. CASE Finish(r)
      BY <3>1, FinishOK
    <3>2. CASE Continue(r, "purge.members")
      <4>1. /\ req'[r].at = "purge.members" /\ req'[r].todo = req[r].todo
            /\ req'[r].next = req[r].next /\ OnlySelf(r)
        BY <1>s, <3>2, ContinueFields
      <4>2. \A k \in req[r].todo :
              k.id <= rows /\ \A n \in members : n.id = k.id => n.of = k.of /\ n.state = "expired"
        BY <2>1 DEF HandlerOK, TodoOK
      <4>3. members' \subseteq members /\ rows' = rows
        BY <2>1
      <4>4. QED
        BY <1>n, <4>1, <4>2, <4>3
           DEF PurgeSteps, HandlerOK, MemberOK, RowOK, CardOK, TodoOK, DropOK, UsersOK
    <3>3. QED
      BY <2>1, <3>1, <3>2
  <2>7. QED
    BY <2>3, <2>4, <2>5, <2>6 DEF StepOK, Rules
<1>4. CASE PurgeUsers(r)
  <2> DEFINE users == {j \in Journalists : accounts[j] = "expired"}
  <2>1. /\ UNCHANGED <<people, belonging, credentials>>
        /\ req' = [req EXCEPT ![r].at = "purge.files", ![r].users = users]
    BY <1>4 DEF PurgeUsers
  <2>2. \A j \in users : accounts[j] \in {"expired", "purged"}
    OBVIOUS
  <2> HIDE DEF users
  <2>3. req'[r].at = "purge.files" /\ req'[r].users = users /\ req'[r].next = req[r].next /\ OnlySelf(r)
    BY <1>r, <2>1 DEF Request, OnlySelf
  <2>4. HandlerOK(r)'
    BY <1>n, <2>1, <2>2, <2>3
       DEF people, PurgeSteps, HandlerOK, MemberOK, RowOK, CardOK, TodoOK, DropOK, UsersOK
  <2>5. QED
    BY <2>1, <2>3, <2>4, SameTables DEF StepOK, belonging
<1>5. CASE PurgeFiles(r)
  <2>1. UNCHANGED <<accounts, belonging, credentials>> /\ req[r].at = "purge.files"
    BY <1>5 DEF PurgeFiles
  <2>2. CASE Finish(r) /\ UNCHANGED files
    BY <2>1, <2>2, FinishOK, SameTables DEF StepOK, belonging, people
  <2>3. ASSUME NEW j \in req[r].users, files' = files \ {j} \/ UNCHANGED files,
               req' = [req EXCEPT ![r].at = "purge.user", ![r].of = AnyOf(j), ![r].users = @ \ {j}]
        PROVE  StepOK(r)
    <3>1. \A k \in req[r].users : accounts[k] \in {"expired", "purged"}
      BY <2>1 DEF HandlerOK, UsersOK
    <3>2. AnyOf(j)[1] = j
      BY DEF AnyOf
    <3>3. /\ req'[r].at = "purge.user" /\ req'[r].of = AnyOf(j) /\ req'[r].users = req[r].users \ {j}
          /\ req'[r].next = req[r].next /\ OnlySelf(r)
      BY <1>r, <2>3 DEF Request, OnlySelf
    <3>4. Confined(Concerns(r))
      BY <2>1, TableTypes DEF Confined, belonging, credentials
    <3>5. EndsGrants
      BY <2>1 DEF EndsGrants, GrantHasMembership, RowOf, belonging, credentials
    <3>6. TakesExpired
      BY <2>1, <2>3, <3>1 DEF TakesExpired, Exists, belonging
    <3>7. HandlerOK(r)'
      BY <1>n, <2>1, <3>1, <3>2, <3>3
         DEF PurgeSteps, HandlerOK, MemberOK, RowOK, CardOK, TodoOK, DropOK, UsersOK
    <3>8. QED
      BY <3>3, <3>4, <3>5, <3>6, <3>7 DEF StepOK, Rules
  <2>4. QED
    BY <1>5, <2>2, <2>3 DEF PurgeFiles
<1>6. CASE PurgeUser(r)
  <2> DEFINE j == req[r].of[1]
  <2>1. /\ req[r].at = "purge.user" /\ accounts' = [accounts EXCEPT ![j] = "purged"]
        /\ members' = {m \in members : m.of[1] # j}
        /\ grants' = [p \in Pairs |-> IF p[1] = j THEN {} ELSE grants[p]]
        /\ cards' = {c \in cards : c.j # j}
        /\ Continue(r, "purge.files") \/ Finish(r)
        /\ UNCHANGED <<files, editorials, rows, joined, issued>>
    BY <1>6 DEF PurgeUser
  <2>2. j \in Journalists /\ j \in Concerns(r) /\ accounts[j] \in {"expired", "purged"}
    BY <1>t, <2>1 DEF Concerns, HandlerOK, UsersOK
  <2>8. HandlerOK(r)' /\ OnlySelf(r)
    <3>1. CASE Finish(r)
      BY <3>1, FinishOK
    <3>2. CASE Continue(r, "purge.files")
      <4>1. /\ req'[r].at = "purge.files" /\ req'[r].users = req[r].users
            /\ req'[r].next = req[r].next /\ OnlySelf(r)
        BY <1>s, <3>2, ContinueFields
      <4>2. \A k \in req[r].users : accounts[k] \in {"expired", "purged"}
        BY <2>1 DEF HandlerOK, UsersOK
      <4>3. \A k \in req[r].users : accounts'[k] \in {"expired", "purged"}
        BY <1>t, <2>1, <4>2 DEF TypeOK
      <4>4. QED
        BY <1>n, <4>1, <4>3
           DEF PurgeSteps, HandlerOK, MemberOK, RowOK, CardOK, TodoOK, DropOK, UsersOK
    <3>3. QED
      BY <2>1, <3>1, <3>2
  <2> HIDE DEF j
  <2>a. \A k \in Journalists : k # j => accounts'[k] = accounts[k]
    BY <2>1 DEF TypeOK
  <2>3. Confined(Concerns(r))
    BY <2>1, <2>2, <2>a, TableTypes DEF Confined
  <2>4. EndsGrants
    BY <2>1 DEF EndsGrants, GrantHasMembership, RowOf
  <2>5. TakesExpired
    <3>1. ASSUME NEW k \in Journalists, accounts[k] # "expired", Exists(k)
          PROVE  Exists(k)' /\ (k \in files => k \in files')
      BY <2>1, <2>2, <2>a, <3>1 DEF Exists
    <3>2. ASSUME NEW m \in members, Stands(m.of)' PROVE m \in members'
      <4>1. Exists(m.of[1])'
        BY <3>2 DEF Stands
      <4>2. accounts'[j] = "purged"
        BY <2>1, <2>2 DEF TypeOK
      <4>3. QED
        BY <2>1, <4>1, <4>2 DEF Exists
    <3>3. QED
      BY <3>1, <3>2 DEF TakesExpired
  <2>9. QED
    BY <2>3, <2>4, <2>5, <2>8 DEF StepOK, Rules
<1>7. QED
  BY <1>1, <1>2, <1>3, <1>4, <1>5, <1>6 DEF Purging

LEMMA EnvironmentOK ==
    ASSUME TypeOK, HandlersOK, Environment
    PROVE  HandlersOK' /\ Rules
<1>i. "idle" \in Careless
  BY DEF Careless, Steps, PurgeSteps
<1>q. ASSUME Quiet, UNCHANGED req, NEW r \in Requests PROVE HandlerOK(r)'
  <2>1. req'[r].at \in Careless /\ req'[r].next \in {"idle", "card.create", "card.write"}
    BY <1>i, <1>q DEF Quiet, HandlersOK, HandlerOK, CardOK
  <2>2. QED
    BY <2>1, CarelessOK
<1>1. ASSUME NEW j \in Journalists, AccountExpires(j)
      PROVE  HandlersOK' /\ Rules
  <2>1. /\ Quiet /\ accounts[j] = "deleted" /\ accounts' = [accounts EXCEPT ![j] = "expired"]
        /\ UNCHANGED <<files, belonging, credentials, req>>
    BY <1>1 DEF AccountExpires
  <2>2. EndsGrants
    BY <2>1 DEF EndsGrants, GrantHasMembership, RowOf, belonging, credentials
  <2>3. TakesExpired
    BY <2>1 DEF TypeOK, TakesExpired, Exists, belonging
  <2>4. QED
    BY <1>q, <2>1, <2>2, <2>3 DEF HandlersOK, Rules
<1>2. ASSUME NEW m \in members, MemberExpires(m)
      PROVE  HandlersOK' /\ Rules
  <2> DEFINE new == [m EXCEPT !.state = "expired"]
  <2>1. /\ Quiet /\ members' = (members \ {m}) \cup {new}
        /\ UNCHANGED <<people, credentials, editorials, rows, joined, invites, req>>
    BY <1>2 DEF MemberExpires
  <2>2. new.id = m.id /\ new.of = m.of /\ new.state = "expired"
    BY DEF TypeOK, MemberRow
  <2> HIDE DEF new
  <2>3. EndsGrants
    <3>1. ASSUME NEW p \in Pairs, RowOf(p) # {} PROVE RowOf(p)' # {}
      BY <2>1, <2>2, <3>1 DEF RowOf
    <3>2. QED
      BY <2>1, <3>1 DEF EndsGrants, GrantHasMembership, credentials
  <2>4. TakesExpired
    BY <2>1, <2>2 DEF TakesExpired, people, Exists
  <2>5. QED
    BY <1>q, <2>1, <2>3, <2>4 DEF HandlersOK, Rules
<1>3. CASE Restart
  <2>1. req' = [r \in Requests |-> NoRequest] /\ UNCHANGED <<people, belonging, credentials>>
    BY <1>3 DEF Restart
  <2>2. HandlersOK'
    BY <1>i, <2>1, NoRequestFields, CarelessOK DEF HandlersOK
  <2>3. QED
    BY <2>1, <2>2, SameTables DEF belonging
<1>4. QED
  BY <1>1, <1>2, <1>3 DEF Environment

LEMMA InitOK == Init => GraceInv
<1> SUFFICES ASSUME Init PROVE GraceInv
  OBVIOUS
<1>1. \A r \in Requests : req[r].at = "idle" /\ req[r].next = "idle"
  BY NoRequestFields DEF Init
<1>2. \A r \in Requests : HandlerOK(r)
  BY <1>1 DEF PurgeSteps, HandlerOK, MemberOK, RowOK, CardOK, TodoOK, DropOK, UsersOK
<1>3. GrantHasMembership
  BY DEF Init, GrantHasMembership
<1>4. QED
  BY <1>2, <1>3 DEF GraceInv, HandlersOK

LEMMA NextOK ==
    ASSUME TypeOK, TypeOK', GraceInv, OneEach, [Next]_vars
    PROVE  GraceInv' /\ Rules
<1> SUFFICES HandlersOK' /\ Rules
  BY DEF GraceInv, Rules, EndsGrants
<1>h. HandlersOK
  BY DEF GraceInv
<1>1. ASSUME NEW s \in Requests,
             \/ Joining(s) \/ Leaving(s) \/ Granting(s) \/ Issuing(s)
             \/ Deleting(s) \/ PurgeStart(s) \/ Purging(s)
      PROVE  HandlersOK' /\ Rules
  <2>1. StepOK(s)
    BY <1>1, <1>h, JoiningOK, LeavingOK, GrantingOK, IssuingOK, DeletingOK, PurgingOK DEF HandlersOK
  <2>2. ASSUME NEW r \in Requests, r # s PROVE HandlerOK(r)'
    <3>1. Concerns(r) \cap Concerns(s) = {} /\ req'[r] = req[r] /\ Confined(Concerns(s))
      BY <2>1, <2>2 DEF OneEach, StepOK, OnlySelf
    <3>2. QED
      BY <1>h, <3>1, Frame DEF HandlersOK
  <2>3. QED
    BY <2>1, <2>2 DEF StepOK, HandlersOK
<1>2. CASE Environment
  BY <1>h, <1>2, EnvironmentOK
<1>3. CASE UNCHANGED vars
  <2>1. UNCHANGED <<people, belonging, credentials>> /\ UNCHANGED req
    BY <1>3 DEF vars
  <2>2. HandlersOK'
    BY <1>h, <2>1
       DEF HandlersOK, people, belonging, credentials, RowOf, ActiveCards,
           HandlerOK, MemberOK, RowOK, CardOK, TodoOK, DropOK, UsersOK
  <2>3. Confined({}) /\ Rules
    BY <2>1, SameTables DEF belonging
  <2>4. QED
    BY <2>2, <2>3
<1>4. QED
  BY <1>1, <1>2, <1>3 DEF Next

(* While no two requests in flight are about one journalist, what each of  *)
(* them read of the memberships, cards and tombstones still holds when it  *)
(* writes (the read-then-write handlers of JournalistsService, CardsService*)
(* and MaintenanceService).                                                *)
THEOREM GraceInvariant == Spec /\ []OneEach => [](TypeOK /\ GraceInv)
<1>1. Init => TypeOK /\ GraceInv
  BY InitType, InitOK
<1>2. TypeOK /\ GraceInv /\ OneEach /\ [Next]_vars => (TypeOK /\ GraceInv)'
  BY NextType, NextOK
<1>3. QED
  BY <1>1, <1>2, PTL DEF Spec

(* An editorial opens a profile only while the membership, or its          *)
(* tombstone, is there: the purge that ends a membership has revoked its   *)
(* grant, if no revoke fails (MaintenanceService.purgeExpiredSoftDeletes,  *)
(* which passes over one that does).                                       *)
THEOREM GrantsEndWithMembership ==
    "failures" \notin Handlers => (Spec /\ []OneEach => []GrantHasMembership)
<1> SUFFICES ASSUME "failures" \notin Handlers PROVE Spec /\ []OneEach => []GrantHasMembership
  OBVIOUS
<1>1. GraceInv => GrantHasMembership
  BY DEF GraceInv
<1>2. QED
  BY <1>1, GraceInvariant, PTL

LEMMA StepRules ==
    TypeOK /\ TypeOK' /\ GraceInv /\ OneEach /\ [Next]_vars => TakesExpired
BY NextOK DEF Rules

(* The purge takes an account, its files or a membership only when it was  *)
(* left as a tombstone for the whole grace window: one that was restored   *)
(* stays (MaintenanceService.purgeExpiredSoftDeletes, restore,             *)
(* restoreMembership, login).                                              *)
THEOREM PurgeTakesExpired == Spec /\ []OneEach => OnlyExpiredPurged
<1>1. TypeOK /\ TypeOK' /\ GraceInv /\ OneEach /\ [Next]_vars => [TakesExpired]_vars
  BY StepRules
<1>2. QED
  BY <1>1, GraceInvariant, PTL DEF Spec, OnlyExpiredPurged, TakesExpired
=============================================================================
