----------------------------- MODULE Membership -----------------------------
(***************************************************************************)
(* Journalists in editorials: memberships with their tombstones, join      *)
(* requests, the grant that lets an editorial read a profile, the press    *)
(* cards issued on it, and the purge that ends what was soft-deleted.      *)
(*                                                                         *)
(* As in AuthSessions, a handler is a chain of steps, one per database     *)
(* call, that interleaves with the others; the purge is one of them.  A    *)
(* refusal that wrote nothing frees the request (Finish).                  *)
(***************************************************************************)
EXTENDS Naturals

CONSTANTS
    Journalists,  \* journalist accounts (user row and journalist row)
    Editorials,   \* editorials there are at first
    Requests,     \* identities of what can be in flight together
    None,         \* the editorial of a card whose editorial is gone
    Handlers,     \* the handlers this instance exercises, and "failures" when
                  \* the purge's revokes and file removals may fail
    MaxRows,      \* bound: membership rows created over a behaviour, and
    MaxCards      \* cards; the database refuses an insert beyond it

AllHandlers == {"attach", "superAttach", "respond", "detach", "restoreMembership",
                "grantEditorial", "signIn", "adminRead",
                "issueCard", "renewCard", "updateCard", "blockCard", "removeCard",
                "removeAccount", "restoreAccount", "removeEditorial",
                "purge", "failures"}

ASSUME NoneAssumption == None \notin Editorials
ASSUME HandlersAssumption == Handlers \subseteq AllHandlers
ASSUME EditorialsAssumption == Journalists # {} /\ Editorials # {}
ASSUME BoundsAssumption == MaxRows \in Nat /\ MaxCards \in Nat

VARIABLES
    accounts,    \* users.deletedAt of each journalist
    files,       \* journalists whose encrypted files are stored
    editorials,  \* table editorials
    members,     \* table editorial_memberships
    rows,        \* how many membership ids were used
    joined,      \* history: who ever had a membership of which editorial
    invites,     \* table join_requests, by journalist and editorial
    grants,      \* the envelopes in table editorial_data_key_grants
    cards,       \* table cards
    issued,      \* how many card ids were used
    req          \* the requests in flight

people == <<accounts, files>>
belonging == <<editorials, members, rows, joined, invites>>
credentials == <<grants, cards, issued>>
vars == <<people, belonging, credentials, req>>

-----------------------------------------------------------------------------
Pairs == Journalists \X Editorials

(* A tombstone is "removed"/"deleted" for the grace window of seven days,  *)
(* "expired" after it; a row that is gone is absent.                       *)
AccountStates == {"live", "deleted", "expired", "purged"}
MemberRow == [id: 1..MaxRows, of: Pairs, state: {"active", "removed", "expired"}]
InviteStates == {"none", "PENDING", "ACCEPTED", "REJECTED"}
Envelopes == {"sealed", "wrapped"}
CardRow == [id: 1..MaxCards, j: Journalists, e: Editorials \cup {None},
            status: {"ACTIVE", "BLOCKED"}, data: BOOLEAN]

Steps == {"idle", "attach.reactivate", "attach.invite", "attach.create", "attach.grant",
          "respond.reject", "respond.accept", "detach.count", "detach.write", "detach.invites",
          "restore.write", "grant.write", "signIn.restore", "signIn.grants", "signIn.seal",
          "key.read", "key.wrap", "card.create", "card.data", "card.write", "card.block",
          "card.remove", "answer", "account.remove", "account.restore", "editorial.remove",
          "purge.members", "purge.drop", "purge.users", "purge.files", "purge.user"}

(* id: the membership or card row read; next and want: what a card handler *)
(* does with the profile key; todo, users: lists read by a loop.           *)
Request == [at: Steps, of: Pairs, id: Nat, next: Steps, want: {"ACTIVE", "BLOCKED", "as is"},
            todo: SUBSET MemberRow, users: SUBSET Journalists]

AnyOf(j) == <<j, CHOOSE e \in Editorials : TRUE>>
NoRequest == [at |-> "idle", of |-> AnyOf(CHOOSE j \in Journalists : TRUE), id |-> 0,
              next |-> "idle", want |-> "as is", todo |-> {}, users |-> {}]

Init ==
    /\ accounts = [j \in Journalists |-> "live"]
    /\ files = Journalists
    /\ editorials = Editorials
    /\ members = {}
    /\ rows = 0
    /\ joined = {}
    /\ invites = [p \in Pairs |-> "none"]
    /\ grants = [p \in Pairs |-> {}]
    /\ cards = {}
    /\ issued = 0
    /\ req = [r \in Requests |-> NoRequest]

-----------------------------------------------------------------------------
Exists(j) == accounts[j] # "purged"
Stands(p) == Exists(p[1]) /\ p[2] \in editorials   \* both foreign keys resolve
RowOf(p) == {m \in members : m.of = p}             \* at most one: @@unique
Active(p) == \E m \in RowOf(p) : m.state = "active"

Free(r, handler) == handler \in Handlers /\ req[r].at = "idle"
Begin(r, p, step, id) ==
    req' = [req EXCEPT ![r] = [NoRequest EXCEPT !.at = step, !.of = p, !.id = id]]
Continue(r, step) == req' = [req EXCEPT ![r].at = step]
Finish(r) == req' = [req EXCEPT ![r] = NoRequest]

(* UPDATE editorial_memberships SET deleted_at WHERE id: throws when gone. *)
SetMember(r, state, next) ==
    /\ IF \E m \in members : m.id = req[r].id
       THEN /\ members' = {IF m.id = req[r].id THEN [m EXCEPT !.state = state] ELSE m :
                           m \in members}
            /\ Continue(r, next)
       ELSE Finish(r) /\ UNCHANGED members
    /\ UNCHANGED <<people, credentials, editorials, rows, joined, invites>>

InsertMember(p) ==
    /\ rows' = rows + 1
    /\ members' = members \cup {[id |-> rows + 1, of |-> p, state |-> "active"]}
    /\ joined' = joined \cup {p}

(* Upsert of a grant: needs the user and the editorial.                    *)
AddEnvelope(p, envelope) ==
    grants' = IF Stands(p) THEN [grants EXCEPT ![p] = @ \cup {envelope}] ELSE grants

-----------------------------------------------------------------------------
(* JournalistsService.attach                                               *)

(* An active membership is answered as attached, with nothing written.     *)
AttachRead(r, p, handler) ==
    /\ handler \in {"attach", "superAttach"} /\ Free(r, handler)
    /\ p[2] \in editorials /\ accounts[p[1]] = "live"
    /\ \/ \E m \in RowOf(p) : m.state # "active" /\ Begin(r, p, "attach.reactivate", m.id)
       \/ /\ RowOf(p) = {}
          /\ Begin(r, p, IF handler = "attach" THEN "attach.invite" ELSE "attach.create", 0)
    /\ UNCHANGED <<people, belonging, credentials>>

AttachReactivate(r) ==
    /\ req[r].at = "attach.reactivate"
    /\ SetMember(r, "active", "answer")

AttachInvite(r) ==
    /\ req[r].at = "attach.invite"
    /\ invites' = IF Stands(req[r].of) THEN [invites EXCEPT ![req[r].of] = "PENDING"] ELSE invites
    /\ Finish(r)
    /\ UNCHANGED <<people, credentials, editorials, members, rows, joined>>

(* superadminAttach: the unique constraint refuses a second row.           *)
AttachCreate(r) ==
    LET p == req[r].of
    IN /\ req[r].at = "attach.create"
       /\ IF Stands(p) /\ RowOf(p) = {} /\ rows < MaxRows
          THEN InsertMember(p) /\ Continue(r, "attach.grant")
          ELSE Finish(r) /\ UNCHANGED <<rows, members, joined>>
       /\ UNCHANGED <<people, credentials, editorials, invites>>

(* Best effort: without the keys unlocked there is no grant yet.           *)
AttachGrant(r) ==
    /\ req[r].at = "attach.grant"
    /\ UNCHANGED grants \/ AddEnvelope(req[r].of, "wrapped")
    /\ Continue(r, "answer")
    /\ UNCHANGED <<people, belonging, cards, issued>>

-----------------------------------------------------------------------------
(* MeService.respondToJoinRequest.  A join request withdrawn and made anew *)
(* while the answer is in flight counts as the same one.                   *)

RespondRead(r, p, accept) ==
    /\ Free(r, "respond") /\ Exists(p[1]) /\ invites[p] = "PENDING"
    /\ Begin(r, p, IF accept THEN "respond.accept" ELSE "respond.reject", 0)
    /\ UNCHANGED <<people, belonging, credentials>>

RespondReject(r) ==
    LET p == req[r].of
    IN /\ req[r].at = "respond.reject"
       /\ invites' = IF invites[p] = "none" THEN invites ELSE [invites EXCEPT ![p] = "REJECTED"]
       /\ Finish(r)
       /\ UNCHANGED <<people, credentials, editorials, members, rows, joined>>

(* One transaction: membership upsert with an empty update, grant, answer; *)
(* a join request that is gone rolls all of it back.                       *)
RespondAccept(r) ==
    LET p == req[r].of
    IN /\ req[r].at = "respond.accept"
       /\ IF Stands(p) /\ invites[p] # "none" /\ (RowOf(p) = {} => rows < MaxRows)
          THEN /\ IF RowOf(p) = {} THEN InsertMember(p) ELSE UNCHANGED <<rows, members, joined>>
               /\ AddEnvelope(p, "sealed")
               /\ invites' = [invites EXCEPT ![p] = "ACCEPTED"]
          ELSE UNCHANGED <<rows, members, joined, grants, invites>>
       /\ Finish(r)
       /\ UNCHANGED <<people, editorials, cards, issued>>

-----------------------------------------------------------------------------
(* JournalistsService.detach and restoreMembership                         *)

DetachRead(r, p) ==
    /\ Free(r, "detach")
    /\ \E m \in RowOf(p) : m.state = "active" /\ Begin(r, p, "detach.count", m.id)
    /\ UNCHANGED <<people, belonging, credentials>>

ActiveCards(p) == {c \in cards : c.j = p[1] /\ c.e = p[2] /\ c.status = "ACTIVE"}

DetachCount(r) ==
    /\ req[r].at = "detach.count"
    /\ IF ActiveCards(req[r].of) = {} THEN Continue(r, "detach.write") ELSE Finish(r)
    /\ UNCHANGED <<people, belonging, credentials>>

DetachWrite(r) ==
    /\ req[r].at = "detach.write"
    /\ SetMember(r, "removed", "detach.invites")

DetachInvites(r) ==
    /\ req[r].at = "detach.invites"
    /\ invites' = [invites EXCEPT ![req[r].of] = "none"]
    /\ Continue(r, "answer")
    /\ UNCHANGED <<people, credentials, editorials, members, rows, joined>>

(* No look at the age of the tombstone.                                    *)
RestoreMembership(r, p) ==
    /\ Free(r, "restoreMembership")
    /\ \E m \in RowOf(p) : m.state # "active" /\ Begin(r, p, "restore.write", m.id)
    /\ UNCHANGED <<people, belonging, credentials>>

RestoreMembershipWrite(r) ==
    /\ req[r].at = "restore.write"
    /\ SetMember(r, "active", "answer")

-----------------------------------------------------------------------------
(* Grants made by the journalist, and read by the editorial                *)

(* Variant: no membership is asked for.                                    *)
GrantReadAnyone(r, p) ==
    /\ Free(r, "grantEditorial") /\ Exists(p[1])
    /\ Begin(r, p, "grant.write", 0)
    /\ UNCHANGED <<people, belonging, credentials>>

(* EncryptionAccessService.grantEditorial: any membership row will do.     *)
GrantRead(r, p) ==
    /\ Free(r, "grantEditorial") /\ Exists(p[1]) /\ RowOf(p) # {}
    /\ Begin(r, p, "grant.write", 0)
    /\ UNCHANGED <<people, belonging, credentials>>

GrantWrite(r) ==
    /\ req[r].at = "grant.write"
    /\ AddEnvelope(req[r].of, "wrapped")
    /\ Finish(r)
    /\ UNCHANGED <<people, belonging, cards, issued>>

(* AuthService.login reads the account with its active memberships; within *)
(* the grace window it restores the account, then seals missing grants.    *)
SignInRead(r, j) ==
    /\ Free(r, "signIn") /\ accounts[j] \in {"live", "deleted"}
    /\ req' = [req EXCEPT ![r] = [NoRequest EXCEPT
                 !.at = IF accounts[j] = "deleted" THEN "signIn.restore" ELSE "signIn.grants",
                 !.of = AnyOf(j),
                 !.todo = {m \in members : m.of[1] = j /\ m.state = "active"}]]
    /\ UNCHANGED <<people, belonging, credentials>>

SetAccount(r, j, state, next) ==
    /\ IF Exists(j)
       THEN /\ accounts' = [accounts EXCEPT ![j] = state]
            /\ IF next = "idle" THEN Finish(r) ELSE Continue(r, next)
       ELSE Finish(r) /\ UNCHANGED accounts
    /\ UNCHANGED <<files, belonging, credentials>>

SignInRestore(r) ==
    /\ req[r].at = "signIn.restore"
    /\ SetAccount(r, req[r].of[1], "live", "signIn.grants")

(* The loop over the memberships it read: a grant that is there is skipped.*)
SignInGrants(r) ==
    /\ req[r].at = "signIn.grants"
    /\ \/ req[r].todo = {} /\ Finish(r)
       \/ \E m \in req[r].todo :
            req' = [req EXCEPT ![r].todo = @ \ {m}, ![r].of = m.of,
                               ![r].at = IF grants[m.of] = {} /\ m.of[2] \in editorials
                                         THEN "signIn.seal" ELSE "signIn.grants"]
    /\ UNCHANGED <<people, belonging, credentials>>

SignInSeal(r) ==
    /\ req[r].at = "signIn.seal"
    /\ AddEnvelope(req[r].of, "sealed")
    /\ IF Stands(req[r].of) THEN Continue(r, "signIn.grants") ELSE Finish(r)
    /\ UNCHANGED <<people, belonging, cards, issued>>

(* profileKey, profileKeyForEditorial: no grant refuses, a sealed one is   *)
(* opened and wrapped for the next time, by an UPDATE of the row.          *)
Key(r, p, id, next, want) ==
    req' = [req EXCEPT ![r] = [NoRequest EXCEPT !.at = "key.read", !.of = p, !.id = id,
                                                !.next = next, !.want = want]]
Resume(r) == IF req[r].next = "idle" THEN Finish(r) ELSE Continue(r, req[r].next)

AdminRead(r, p) ==
    /\ Free(r, "adminRead") /\ Exists(p[1])
    /\ Key(r, p, 0, "idle", "as is")
    /\ UNCHANGED <<people, belonging, credentials>>

(* safeAdminDto: a handler on a journalist answers with the profile, read  *)
(* through one of the active memberships, or redacted.                     *)
Answer(r) ==
    /\ req[r].at = "answer"
    /\ \/ Finish(r)
       \/ \E m \in members : /\ m.of[1] = req[r].of[1] /\ m.state = "active"
                            /\ Key(r, m.of, 0, "idle", "as is")
    /\ UNCHANGED <<people, belonging, credentials>>

KeyRead(r) ==
    LET grant == grants[req[r].of]
    IN /\ req[r].at = "key.read"
       /\ \/ grant = {} /\ Finish(r)
          \/ "wrapped" \in grant /\ Resume(r)
          \/ grant = {"sealed"} /\ Continue(r, "key.wrap")
       /\ UNCHANGED <<people, belonging, credentials>>

KeyWrap(r) ==
    LET p == req[r].of
    IN /\ req[r].at = "key.wrap"
       /\ IF grants[p] # {}
          THEN grants' = [grants EXCEPT ![p] = @ \cup {"wrapped"}] /\ Resume(r)
          ELSE UNCHANGED grants /\ Finish(r)
       /\ UNCHANGED <<people, belonging, cards, issued>>

-----------------------------------------------------------------------------
(* CardsService                                                            *)

CardOf(id) == {c \in cards : c.id = id}

(* create: neither the membership nor a tombstone is looked at; the key is *)
(* what lets an editorial issue.                                           *)
IssueRead(r, p) ==
    /\ Free(r, "issueCard") /\ Stands(p)
    /\ Key(r, p, 0, "card.create", "ACTIVE")
    /\ UNCHANGED <<people, belonging, credentials>>

CardCreate(r) ==
    LET p == req[r].of
    IN /\ req[r].at = "card.create"
       /\ IF Stands(p) /\ issued < MaxCards
          THEN /\ issued' = issued + 1
               /\ cards' = cards \cup {[id |-> issued + 1, j |-> p[1], e |-> p[2],
                                        status |-> "ACTIVE", data |-> FALSE]}
               /\ req' = [req EXCEPT ![r].at = "card.data", ![r].id = issued + 1]
          ELSE Finish(r) /\ UNCHANGED <<cards, issued>>
       /\ UNCHANGED <<people, belonging, grants>>

SetCard(id, c) == cards' = {IF d.id = id THEN c ELSE d : d \in cards}

CardData(r) ==
    /\ req[r].at = "card.data"
    /\ \/ CardOf(req[r].id) = {} /\ UNCHANGED cards
       \/ \E c \in CardOf(req[r].id) : SetCard(c.id, [c EXCEPT !.data = TRUE])
    /\ Finish(r)
    /\ UNCHANGED <<people, belonging, grants, issued>>

(* renew: ACTIVE again, whatever it was; update: the status asked for.     *)
RenewRead(r, c) ==
    /\ Free(r, "renewCard") /\ c.e # None /\ c.data
    /\ Key(r, <<c.j, c.e>>, c.id, "card.write", "ACTIVE")
    /\ UNCHANGED <<people, belonging, credentials>>

UpdateRead(r, c, want) ==
    /\ Free(r, "updateCard") /\ c.e # None /\ c.data
    /\ Key(r, <<c.j, c.e>>, c.id, "card.write", want)
    /\ UNCHANGED <<people, belonging, credentials>>

(* one, hydrate: the answer opens the card with the profile key again.     *)
AnswerCard(r, c) == IF c.e = None THEN Finish(r) ELSE Key(r, <<c.j, c.e>>, c.id, "idle", "as is")

CardWrite(r) ==
    LET want == req[r].want
    IN /\ req[r].at = "card.write"
       /\ \/ CardOf(req[r].id) = {} /\ Finish(r) /\ UNCHANGED cards
          \/ \E c \in CardOf(req[r].id) :
               /\ SetCard(c.id, [c EXCEPT !.status = IF want = "as is" THEN @ ELSE want])
               /\ AnswerCard(r, c)
       /\ UNCHANGED <<people, belonging, grants, issued>>

BlockRead(r, c) ==
    /\ Free(r, "blockCard")
    /\ req' = [req EXCEPT ![r] = [NoRequest EXCEPT !.at = "card.block", !.id = c.id]]
    /\ UNCHANGED <<people, belonging, credentials>>

CardBlock(r) ==
    /\ req[r].at = "card.block"
    /\ \/ CardOf(req[r].id) = {} /\ Finish(r) /\ UNCHANGED cards
       \/ \E c \in CardOf(req[r].id) :
            SetCard(c.id, [c EXCEPT !.status = "BLOCKED"]) /\ AnswerCard(r, c)
    /\ UNCHANGED <<people, belonging, grants, issued>>

RemoveRead(r, c) ==
    /\ Free(r, "removeCard")
    /\ req' = [req EXCEPT ![r] = [NoRequest EXCEPT !.at = "card.remove", !.id = c.id]]
    /\ UNCHANGED <<people, belonging, credentials>>

CardRemove(r) ==
    /\ req[r].at = "card.remove"
    /\ cards' = cards \ CardOf(req[r].id)
    /\ Finish(r)
    /\ UNCHANGED <<people, belonging, grants, issued>>

-----------------------------------------------------------------------------
(* Soft deletion of accounts, and removal of an editorial                  *)

(* JournalistsService.remove; MeService.deleteOwnAccount, which also wants *)
(* no active membership, is one of its cases.                              *)
RemoveAccount(r, j) ==
    /\ Free(r, "removeAccount") /\ Exists(j)
    /\ Begin(r, AnyOf(j), "account.remove", 0)
    /\ UNCHANGED <<people, belonging, credentials>>

AccountRemove(r) ==
    /\ req[r].at = "account.remove"
    /\ SetAccount(r, req[r].of[1], "deleted", "idle")

(* JournalistsService.restore                                              *)
RestoreAccount(r, j) ==
    /\ Free(r, "restoreAccount") /\ Exists(j)
    /\ Begin(r, AnyOf(j), "account.restore", 0)
    /\ UNCHANGED <<people, belonging, credentials>>

AccountRestore(r) ==
    /\ req[r].at = "account.restore"
    /\ SetAccount(r, req[r].of[1], "live", "answer")

(* EditorialsService.remove: refused while there are membership rows, the  *)
(* removed ones included.                                                  *)
RemoveEditorial(r, p) ==
    /\ Free(r, "removeEditorial") /\ p[2] \in editorials
    /\ {m \in members : m.of[2] = p[2]} = {}
    /\ Begin(r, p, "editorial.remove", 0)
    /\ UNCHANGED <<people, belonging, credentials>>

(* Variant: a schema where cards keep a dangling editorial.                *)
EditorialRemoveDangling(r) ==
    LET e == req[r].of[2]
    IN /\ req[r].at = "editorial.remove"
       /\ editorials' = editorials \ {e}
       /\ members' = {m \in members : m.of[2] # e}
       /\ invites' = [p \in Pairs |-> IF p[2] = e THEN "none" ELSE invites[p]]
       /\ grants' = [p \in Pairs |-> IF p[2] = e THEN {} ELSE grants[p]]
       /\ Finish(r)
       /\ UNCHANGED <<people, rows, joined, cards, issued>>

(* DELETE with its cascades; cards keep their history without it.          *)
EditorialRemove(r) ==
    LET e == req[r].of[2]
    IN /\ req[r].at = "editorial.remove"
       /\ editorials' = editorials \ {e}
       /\ members' = {m \in members : m.of[2] # e}
       /\ invites' = [p \in Pairs |-> IF p[2] = e THEN "none" ELSE invites[p]]
       /\ grants' = [p \in Pairs |-> IF p[2] = e THEN {} ELSE grants[p]]
       /\ cards' = {IF c.e = e THEN [c EXCEPT !.e = None] ELSE c : c \in cards}
       /\ Finish(r)
       /\ UNCHANGED <<people, rows, joined, issued>>

-----------------------------------------------------------------------------
(* MaintenanceService.purgeExpiredSoftDeletes                              *)

PurgeStart(r) ==
    /\ Free(r, "purge")
    /\ req' = [req EXCEPT ![r] = [NoRequest EXCEPT
                 !.at = "purge.members", !.todo = {m \in members : m.state = "expired"}]]
    /\ UNCHANGED <<people, belonging, credentials>>

(* Variant: the membership goes, the grant is left.                        *)
PurgeRevokeNothing(r) ==
    /\ req[r].at = "purge.members"
    /\ \E m \in req[r].todo :
         req' = [req EXCEPT ![r].at = "purge.drop", ![r].id = m.id, ![r].todo = @ \ {m}]
    /\ UNCHANGED <<people, belonging, credentials>>

(* Variant: revoking a grant that is not there throws and ends the purge.  *)
PurgeRevokeOrThrow(r) ==
    /\ req[r].at = "purge.members"
    /\ \E m \in req[r].todo :
         /\ IF grants[m.of] = {} THEN Finish(r)
            ELSE req' = [req EXCEPT ![r].at = "purge.drop", ![r].id = m.id, ![r].todo = @ \ {m}]
         /\ grants' = [grants EXCEPT ![m.of] = {}]
    /\ UNCHANGED <<people, belonging, cards, issued>>

(* The loop revokes the grant (a failure is logged and passed over) ...    *)
PurgeRevoke(r) ==
    /\ req[r].at = "purge.members"
    /\ \E m \in req[r].todo :
         /\ req' = [req EXCEPT ![r].at = "purge.drop", ![r].id = m.id, ![r].todo = @ \ {m}]
         /\ \/ grants' = [grants EXCEPT ![m.of] = {}]
            \/ "failures" \in Handlers /\ UNCHANGED grants
    /\ UNCHANGED <<people, belonging, cards, issued>>

(* ... and deletes the row it read, whatever its state; throws when gone.  *)
PurgeDrop(r) ==
    /\ req[r].at = "purge.drop"
    /\ members' = {m \in members : m.id # req[r].id}
    /\ IF \E m \in members : m.id = req[r].id THEN Continue(r, "purge.members") ELSE Finish(r)
    /\ UNCHANGED <<people, credentials, editorials, rows, joined, invites>>

(* Variant: every tombstone is taken, not only those past the cutoff.      *)
PurgeUsersEarly(r) ==
    /\ req[r].at = "purge.members" /\ req[r].todo = {}
    /\ req' = [req EXCEPT ![r].at = "purge.files",
                          ![r].users = {j \in Journalists : accounts[j] \in {"deleted", "expired"}}]
    /\ UNCHANGED <<people, belonging, credentials>>

PurgeUsers(r) ==
    /\ req[r].at = "purge.members" /\ req[r].todo = {}
    /\ req' = [req EXCEPT ![r].at = "purge.files",
                          ![r].users = {j \in Journalists : accounts[j] = "expired"}]
    /\ UNCHANGED <<people, belonging, credentials>>

(* Files that could not be removed are logged and passed over.             *)
PurgeFiles(r) ==
    /\ req[r].at = "purge.files"
    /\ \/ req[r].users = {} /\ Finish(r) /\ UNCHANGED files
       \/ \E j \in req[r].users :
            /\ \/ files' = files \ {j}
               \/ "failures" \in Handlers /\ UNCHANGED files
            /\ req' = [req EXCEPT ![r].at = "purge.user", ![r].of = AnyOf(j),
                                  ![r].users = @ \ {j}]
    /\ UNCHANGED <<accounts, belonging, credentials>>

(* DELETE of the user by id, with its cascades.                            *)
PurgeUser(r) ==
    LET j == req[r].of[1]
    IN /\ req[r].at = "purge.user"
       /\ accounts' = [accounts EXCEPT ![j] = "purged"]
       /\ members' = {m \in members : m.of[1] # j}
       /\ invites' = [p \in Pairs |-> IF p[1] = j THEN "none" ELSE invites[p]]
       /\ grants' = [p \in Pairs |-> IF p[1] = j THEN {} ELSE grants[p]]
       /\ cards' = {c \in cards : c.j # j}
       /\ IF Exists(j) THEN Continue(r, "purge.files") ELSE Finish(r)
       /\ UNCHANGED <<files, editorials, rows, joined, issued>>

-----------------------------------------------------------------------------
(* Time and the process                                                    *)

(* The grace window is seven days and a request lasts seconds: a tombstone *)
(* grows old between requests.                                             *)
Quiet == \A r \in Requests : req[r].at = "idle"

AccountExpires(j) ==
    /\ Quiet /\ accounts[j] = "deleted"
    /\ accounts' = [accounts EXCEPT ![j] = "expired"]
    /\ UNCHANGED <<files, belonging, credentials, req>>

MemberExpires(m) ==
    /\ Quiet /\ m \in members /\ m.state = "removed"
    /\ members' = (members \ {m}) \cup {[m EXCEPT !.state = "expired"]}
    /\ UNCHANGED <<people, credentials, editorials, rows, joined, invites, req>>

(* A restart forgets the requests in flight.                               *)
Restart ==
    /\ ~Quiet
    /\ req' = [r \in Requests |-> NoRequest]
    /\ UNCHANGED <<people, belonging, credentials>>

-----------------------------------------------------------------------------
Joining(r) ==
    \/ \E p \in Pairs : AttachRead(r, p, "attach") \/ AttachRead(r, p, "superAttach")
    \/ \E p \in Pairs, accept \in BOOLEAN : RespondRead(r, p, accept)
    \/ AttachReactivate(r) \/ AttachInvite(r) \/ AttachCreate(r) \/ AttachGrant(r)
    \/ RespondReject(r) \/ RespondAccept(r)

Leaving(r) ==
    \/ \E p \in Pairs : DetachRead(r, p) \/ RestoreMembership(r, p)
    \/ DetachCount(r) \/ DetachWrite(r) \/ DetachInvites(r) \/ RestoreMembershipWrite(r)

Granting(r) ==
    \/ \E p \in Pairs : GrantRead(r, p) \/ AdminRead(r, p)
    \/ \E j \in Journalists : SignInRead(r, j)
    \/ GrantWrite(r) \/ SignInRestore(r) \/ SignInGrants(r) \/ SignInSeal(r)
    \/ Answer(r) \/ KeyRead(r) \/ KeyWrap(r)

Issuing(r) ==
    \/ \E p \in Pairs : IssueRead(r, p)
    \/ \E c \in cards : RenewRead(r, c) \/ BlockRead(r, c) \/ RemoveRead(r, c)
    \/ \E c \in cards, want \in {"ACTIVE", "BLOCKED", "as is"} : UpdateRead(r, c, want)
    \/ CardCreate(r) \/ CardData(r) \/ CardWrite(r) \/ CardBlock(r) \/ CardRemove(r)

Deleting(r) ==
    \/ \E j \in Journalists : RemoveAccount(r, j) \/ RestoreAccount(r, j)
    \/ \E p \in Pairs : RemoveEditorial(r, p)
    \/ AccountRemove(r) \/ AccountRestore(r) \/ EditorialRemove(r)

Purging(r) ==
    \/ PurgeRevoke(r) \/ PurgeDrop(r) \/ PurgeUsers(r) \/ PurgeFiles(r) \/ PurgeUser(r)

Environment ==
    \/ \E j \in Journalists : AccountExpires(j)
    \/ \E m \in members : MemberExpires(m)
    \/ Restart

Next ==
    \/ \E r \in Requests : Joining(r) \/ Leaving(r) \/ Granting(r) \/ Issuing(r)
                         \/ Deleting(r) \/ PurgeStart(r) \/ Purging(r)
    \/ Environment

Spec == Init /\ [][Next]_vars
-----------------------------------------------------------------------------
(* Properties                                                              *)

(* Types and the constraints of the schema: one membership row, one join   *)
(* request and one grant per journalist and editorial, every foreign key   *)
(* resolved (schema.prisma: @@unique, onDelete).                           *)
TypeOK ==
    /\ accounts \in [Journalists -> AccountStates]
    /\ files \subseteq Journalists
    /\ editorials \subseteq Editorials
    /\ members \subseteq MemberRow /\ rows \in 0..MaxRows /\ joined \subseteq Pairs
    /\ invites \in [Pairs -> InviteStates]
    /\ grants \in [Pairs -> SUBSET Envelopes]
    /\ cards \subseteq CardRow /\ issued \in 0..MaxCards
    /\ req \in [Requests -> Request]
    /\ \A m \in members : m.id <= rows /\ Stands(m.of)
    /\ \A m, n \in members : m.id = n.id \/ m.of = n.of => m = n
    /\ \A p \in Pairs : invites[p] # "none" \/ grants[p] # {} => Stands(p)
    /\ \A c \in cards : c.id <= issued /\ Exists(c.j) /\ c.e \in editorials \cup {None}
    /\ \A c, d \in cards : c.id = d.id => c = d

(* However the handlers overlap, an editorial holds a key to a profile, and *)
(* has cards on it, only of journalists who once joined it: by confirming, *)
(* or by a Superadmin (attach, login, grantEditorial, CardsService.create).*)
OnlyJoined ==
    /\ \A p \in Pairs : grants[p] # {} => p \in joined
    /\ \A c \in cards : c.e # None => <<c.j, c.e>> \in joined

(* An editorial can open a profile only while there is a membership, be it *)
(* one that was removed and can still be restored: the purge revokes the   *)
(* grant with it (MaintenanceService.purgeExpiredSoftDeletes).             *)
GrantHasMembership == \A p \in Pairs : grants[p] # {} => RowOf(p) # {}

(* Only what was soft-deleted and left for the whole grace window is       *)
(* purged: an account or membership that was restored stays, and so do the *)
(* files of the account (MaintenanceService.purgeExpiredSoftDeletes).      *)
OnlyExpiredPurged ==
    [][/\ \A j \in Journalists : accounts[j] # "expired" /\ Exists(j) =>
             Exists(j)' /\ (j \in files => j \in files')
       /\ \A m \in members : m.state # "expired" /\ Stands(m.of)' =>
             \E n \in members' : n.id = m.id]_vars

(* A credential does not outlive the membership (JournalistsService.detach)*)
CredentialHasMembership ==
    \A c \in cards : c.status = "ACTIVE" /\ c.e # None => Active(<<c.j, c.e>>)

(* Fairness: what is in flight goes on, the hourly cron starts a purge     *)
(* again, and a restart does not hit the same step of it every time.       *)
Proceeds(r) ==
    /\ req[r].at # "idle"
    /\ Joining(r) \/ Leaving(r) \/ Granting(r) \/ Issuing(r) \/ Deleting(r)
PurgeSpec ==
    /\ Spec
    /\ \A r \in Requests :
         /\ WF_vars(Proceeds(r))
         /\ SF_vars(PurgeStart(r))
         /\ SF_vars(PurgeRevoke(r)) /\ SF_vars(PurgeDrop(r)) /\ SF_vars(PurgeUsers(r))
         /\ SF_vars(PurgeFiles(r)) /\ SF_vars(PurgeUser(r))

(* Every expired tombstone is purged or restored in the end, whatever      *)
(* requests and restarts come between (MaintenanceService).                *)
ExpiredEnds ==
    /\ \A j \in Journalists : accounts[j] = "expired" ~> accounts[j] # "expired"
    /\ \A p \in Pairs :
         (\E m \in RowOf(p) : m.state = "expired") ~> ~\E m \in RowOf(p) : m.state = "expired"
=============================================================================
