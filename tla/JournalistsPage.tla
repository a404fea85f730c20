-------------------------- MODULE JournalistsPage --------------------------
(***************************************************************************)
(* The administrators' page of journalists: the list, the window with one  *)
(* journalist's details and cards, the form, the trash and the banner that *)
(* undoes a removal, against the service that answers them.                *)
(*                                                                         *)
(* One administrator, of one editorial or of the system, and an unlocked   *)
(* session. Of a journalist: an account, the membership of the editorial,  *)
(* one value for the profile and whether there is a photo; the server's    *)
(* handlers are whole steps here, their inner steps are in Membership.     *)
(* MaxCalls bounds what the administrator starts.                          *)
(*                                                                         *)
(* No name is one of Designer's: AdminPagesProofs is about both.           *)
(***************************************************************************)
EXTENDS FiniteSets, Naturals

CONSTANTS Journalists, Cards, Profiles, Calls, Nothing, MaxCalls

VARIABLES
  system,      \* a system administrator, or an editorial's
  account,     \* the journalists as stored
  card,        \* the cards as stored
  shown,       \* what the page shows
  asked,       \* the requests of the page, with what follows them
  started,
  orderly      \* nothing was started before the last answer came, and none was lost

pageVars == <<system, account, card, shown, asked, started, orderly>>

Unmade == [made |-> FALSE, deleted |-> FALSE, member |-> "no", profile |-> Nothing, photo |-> FALSE]
NoCard == [owner |-> Nothing, status |-> "none"]
NoCall == [kind |-> "idle", of |-> Nothing, card |-> Nothing, put |-> Nothing, photo |-> FALSE,
           then |-> "nothing", step |-> "none", answer |-> Nothing]
NoForm == [id |-> Nothing, new |-> FALSE]

Quiet == \A j \in Calls : asked[j] = NoCall
OwnedBy(id) == {c \in Cards : card[c].owner = id}

\* What the lists hold.
Listed(id) ==
  /\ account[id].made /\ ~account[id].deleted
  /\ system \/ account[id].member = "yes"
Row(id) == [stored |-> account[id], cards |-> Cardinality(OwnedBy(id))]
Rows == [id \in {i \in Journalists : Listed(i)} |-> Row(id)]
Trashed(id) ==
  IF system THEN account[id].deleted
  ELSE account[id].member = "removed" /\ ~account[id].deleted
CardRows == {[card |-> c, owner |-> card[c].owner, status |-> card[c].status] :
               c \in {x \in Cards : card[x].owner # Nothing /\ ~account[card[x].owner].deleted}}

\* The page asks for its list when it opens.
PageInit ==
  /\ system \in BOOLEAN
  /\ \E made \in SUBSET Journalists : \E gone \in SUBSET made :
       account = [id \in Journalists |->
         IF id \notin made THEN Unmade
         ELSE [Unmade EXCEPT !.made = TRUE, !.deleted = id \in gone /\ system, !.profile = CHOOSE v \in Profiles : TRUE,
                             !.member = IF id \in gone /\ ~system THEN "removed" ELSE "yes"]]
  /\ card \in [Cards -> {NoCard} \cup [owner : {id \in Journalists : account[id].member = "yes"}, status : {"ACTIVE"}]]
  /\ shown = [list |-> [id \in {} |-> Nothing], selected |-> Nothing, cards |-> {}, form |-> NoForm, busy |-> FALSE,
              saving |-> FALSE, undo |-> Nothing, trashOpen |-> FALSE, trash |-> {}]
  /\ \E j \in Calls :
       asked = [i \in Calls |-> IF i = j THEN [NoCall EXCEPT !.kind = "list", !.step = "sent"] ELSE NoCall]
  /\ started = 0 /\ orderly = TRUE

Sending(r) == [r EXCEPT !.step = "sent", !.answer = Nothing]
Ask(j, r) ==
  /\ asked[j] = NoCall /\ started < MaxCalls /\ started' = started + 1
  /\ asked' = [asked EXCEPT ![j] = Sending(r)]
  /\ orderly' = (orderly /\ Quiet)
  /\ UNCHANGED <<system, account, card>>
About(kind, id) == [NoCall EXCEPT !.kind = kind, !.of = id]
Shows(p) == shown' = p /\ UNCHANGED <<system, account, card, asked, started, orderly>>

-----------------------------------------------------------------------------
(* The administrator. The windows cover the page, the form the details.     *)

Uncovered == shown.selected = Nothing /\ shown.form = NoForm
InDetail == shown.selected # Nothing /\ shown.form = NoForm

\* Opening a journalist asks for the cards; those of the one before stay shown.
Select(j, id) ==
  /\ Uncovered /\ id \in DOMAIN shown.list
  /\ Ask(j, About("cards", id)) /\ shown' = [shown EXCEPT !.selected = id]
CloseDetail == InDetail /\ Shows([shown EXCEPT !.selected = Nothing])

\* Membership and account; only these buttons and the one that issues wait. The
\* system's administrator picks one of the memberships shown.
Detach(j) ==
  /\ InDetail /\ ~shown.busy /\ ~system
  /\ Ask(j, About("detach", shown.selected)) /\ shown' = [shown EXCEPT !.busy = TRUE]
DetachFrom(j) ==
  /\ InDetail /\ ~shown.busy /\ system /\ shown.list[shown.selected].stored.member = "yes"
  /\ Ask(j, About("detach", shown.selected)) /\ shown' = [shown EXCEPT !.busy = TRUE]
RemoveJournalist(j) ==
  /\ InDetail /\ ~shown.busy /\ system
  /\ Ask(j, About("remove", shown.selected)) /\ shown' = [shown EXCEPT !.busy = TRUE]
Issue(j, c) ==
  /\ InDetail /\ ~shown.busy
  /\ Ask(j, [About("issue", shown.selected) EXCEPT !.card = c]) /\ shown' = [shown EXCEPT !.busy = TRUE]

CardKinds == {"check", "renew", "block", "delete"}
OnCard(j, kind, r) ==
  /\ InDetail /\ r \in shown.cards /\ (kind = "block" => r.status # "BLOCKED")
  /\ Ask(j, [About(kind, shown.selected) EXCEPT !.card = r.card]) /\ shown' = [shown EXCEPT !.busy = TRUE]

OpenCreate(id) == Uncovered /\ Shows([shown EXCEPT !.form = [id |-> id, new |-> TRUE]])
OpenEdit == InDetail /\ Shows([shown EXCEPT !.form = [id |-> shown.selected, new |-> FALSE]])
CloseForm == shown.form # NoForm /\ Shows([shown EXCEPT !.form = NoForm])
Submit(j, v, photo) ==
  /\ shown.form # NoForm /\ ~shown.saving
  /\ Ask(j, [About(IF shown.form.new THEN "create" ELSE "update", shown.form.id) EXCEPT !.put = v, !.photo = photo])
  /\ shown' = [shown EXCEPT !.saving = TRUE]

Attach(j, id) == Uncovered /\ Ask(j, About("attach", id)) /\ UNCHANGED shown
ToggleTrash(j) ==
  /\ Uncovered
  /\ IF shown.trashOpen THEN Shows([shown EXCEPT !.trashOpen = FALSE])
     ELSE Ask(j, About("trash", Nothing)) /\ shown' = [shown EXCEPT !.trashOpen = TRUE]
Undo(j) ==
  /\ Uncovered /\ shown.undo # Nothing
  /\ Ask(j, [About("undo", shown.undo) EXCEPT !.then = IF shown.trashOpen THEN "trash" ELSE "nothing"])
  /\ UNCHANGED shown
DismissUndo == Uncovered /\ shown.undo # Nothing /\ Shows([shown EXCEPT !.undo = Nothing])
Restore(j, id) ==
  /\ Uncovered /\ shown.trashOpen /\ id \in shown.trash
  /\ Ask(j, About("restore", id)) /\ UNCHANGED shown

-----------------------------------------------------------------------------
(* The service.                                                             *)

Answers(j, a) == asked' = [asked EXCEPT ![j].step = "answered", ![j].answer = a]
Sent(j, kinds) == asked[j].step = "sent" /\ asked[j].kind \in kinds

Read(j) ==
  /\ Sent(j, {"list", "cards", "trash", "check"})
  /\ Answers(j, CASE asked[j].kind = "list" -> Rows
                  [] asked[j].kind = "cards" -> CardRows
                  [] asked[j].kind = "trash" -> {id \in Journalists : Trashed(id)}
                  [] OTHER -> Nothing)
  /\ UNCHANGED <<system, account, card, shown, started, orderly>>

\* The membership of a journalist is restored, made by the system's administrator,
\* or asked for: then it is the journalist's answer that makes it.
Joined(a) == IF system \/ a.member # "no" THEN [a EXCEPT !.member = "yes"] ELSE a

Changed(r, a) ==
  CASE r.kind = "attach" -> Joined(a)
    [] r.kind = "detach" -> [a EXCEPT !.member = "removed"]
    [] r.kind = "remove" -> [a EXCEPT !.deleted = TRUE]
    [] r.kind \in {"undo", "restore"} -> IF system THEN [a EXCEPT !.deleted = FALSE] ELSE [a EXCEPT !.member = "yes"]
    [] r.kind = "create" -> [a EXCEPT !.made = TRUE, !.profile = r.put, !.member = IF system THEN "no" ELSE "yes"]
    [] r.kind = "update" -> [a EXCEPT !.profile = r.put]
    [] OTHER -> [a EXCEPT !.photo = TRUE]

Allowed(r, a) ==
  /\ a.made = (r.kind # "create")
  /\ r.kind = "attach" => ~a.deleted
  /\ r.kind = "detach" => a.member = "yes" /\ \A c \in OwnedBy(r.of) : card[c].status # "ACTIVE"
  /\ r.kind \in {"undo", "restore"} /\ ~system => a.member = "removed"
  /\ r.kind \in {"update", "photo"} /\ ~system => a.member # "no"

ChangeAccount(j) ==
  LET r == asked[j] IN
  /\ Sent(j, {"attach", "detach", "remove", "undo", "restore", "create", "update", "photo"})
  /\ Allowed(r, account[r.of])
  /\ account' = [account EXCEPT ![r.of] = Changed(r, @)]
  /\ Answers(j, Nothing) /\ UNCHANGED <<system, card, shown, started, orderly>>

ChangeCard(j) ==
  LET r == asked[j] IN
  /\ Sent(j, {"issue", "renew", "block", "delete"})
  /\ (r.kind = "issue") = (card[r.card] = NoCard)
  /\ card' = [card EXCEPT ![r.card] =
       CASE r.kind = "issue" -> [owner |-> r.of, status |-> "ACTIVE"]
         [] r.kind = "renew" -> [@ EXCEPT !.status = "ACTIVE"]
         [] r.kind = "block" -> [@ EXCEPT !.status = "BLOCKED"]
         [] OTHER -> NoCard]
  /\ Answers(j, Nothing) /\ UNCHANGED <<system, account, shown, started, orderly>>

-----------------------------------------------------------------------------
(* Answers. What follows one is asked for in the same step.                 *)

AnswerTo(j, kinds) == asked[j].step = "answered" /\ asked[j].kind \in kinds
Then(j, r) == asked' = [asked EXCEPT ![j] = IF r = NoCall THEN NoCall ELSE Sending(r)]
Goes == UNCHANGED <<system, account, card, started, orderly>>

\* The list keeps the journalist that is open, whose cards are asked for again.
ListAnswered(j) ==
  LET kept == IF shown.selected \in DOMAIN asked[j].answer THEN shown.selected ELSE Nothing IN
  /\ AnswerTo(j, {"list"})
  /\ shown' = [shown EXCEPT !.list = asked[j].answer, !.selected = kept]
  /\ IF kept # Nothing /\ asked[j].then = "trash"
     THEN \E i \in Calls \ {j} : asked[i] = NoCall
            /\ asked' = [asked EXCEPT ![j] = Sending(About("trash", Nothing)), ![i] = Sending(About("cards", kept))]
     ELSE Then(j, IF kept # Nothing THEN About("cards", kept)
                  ELSE IF asked[j].then = "trash" THEN About("trash", Nothing) ELSE NoCall)
  /\ Goes

\* Whoever is open by now.
CardsShown(j, cards) ==
  /\ shown' = [shown EXCEPT !.cards = cards, !.busy = IF asked[j].then = "list" THEN FALSE ELSE @]
  /\ Then(j, IF asked[j].then = "list" THEN About("list", Nothing) ELSE NoCall)
CardsAnswered(j) ==
  /\ AnswerTo(j, {"cards"}) /\ CardsShown(j, {r \in asked[j].answer : r.owner = asked[j].of}) /\ Goes

TrashAnswered(j) ==
  /\ AnswerTo(j, {"trash"}) /\ shown' = [shown EXCEPT !.trash = asked[j].answer] /\ Then(j, NoCall) /\ Goes

\* Variant: the list is not asked for again.
Forgetful(j) ==
  /\ AnswerTo(j, {"detach", "remove", "issue"} \cup CardKinds)
  /\ shown' = IF asked[j].kind = "remove" \/ (asked[j].kind = "detach" /\ ~system)
             THEN [shown EXCEPT !.undo = asked[j].of, !.selected = Nothing] ELSE shown
  /\ Then(j, About("cards", asked[j].of)) /\ Goes

\* A removal closes whatever is open and offers to be undone.
ActionAnswered(j) ==
  /\ AnswerTo(j, {"detach", "remove", "issue"} \cup CardKinds)
  /\ shown' = IF asked[j].kind = "remove" \/ (asked[j].kind = "detach" /\ ~system)
             THEN [shown EXCEPT !.undo = asked[j].of, !.selected = Nothing] ELSE shown
  /\ Then(j, [About("cards", asked[j].of) EXCEPT !.then = "list"]) /\ Goes

AttachAnswered(j) == AnswerTo(j, {"attach"}) /\ Then(j, About("list", Nothing)) /\ UNCHANGED shown /\ Goes
UndoAnswered(j) ==
  /\ AnswerTo(j, {"undo"}) /\ shown' = [shown EXCEPT !.undo = Nothing]
  /\ Then(j, [About("list", Nothing) EXCEPT !.then = asked[j].then]) /\ Goes
RestoreAnswered(j, i) ==
  /\ AnswerTo(j, {"restore"}) /\ asked[i] = NoCall
  /\ asked' = [asked EXCEPT ![j] = Sending(About("list", Nothing)), ![i] = Sending(About("trash", Nothing))]
  /\ UNCHANGED shown /\ Goes

\* The photo goes after the form, and the form that is open by then is closed.
FormAnswered(j) ==
  /\ AnswerTo(j, {"create", "update", "photo"})
  /\ IF asked[j].photo THEN Then(j, About("photo", asked[j].of)) /\ UNCHANGED shown
     ELSE /\ shown' = [shown EXCEPT !.form = NoForm, !.saving = FALSE]
          /\ Then(j, About("list", Nothing))
  /\ Goes

\* A request is refused, or it or its answer is lost: nothing that follows is done,
\* but for the cards, which are shown to be none.
Fail(j) ==
  LET k == asked[j].kind IN
  /\ asked[j] # NoCall
  /\ IF k = "cards" THEN CardsShown(j, {})
     ELSE /\ Then(j, NoCall)
          /\ shown' = [shown EXCEPT
               !.busy = IF k \in {"detach", "remove", "issue"} \cup CardKinds THEN FALSE ELSE @,
               !.saving = IF k \in {"create", "update", "photo"} THEN FALSE ELSE @]
  /\ orderly' = (orderly /\ asked[j].step = "sent" /\ k \notin {"list", "cards", "photo"})
  /\ UNCHANGED <<system, account, card, started>>

PageNext ==
  \/ \E j \in Calls :
       \/ \E id \in Journalists : Select(j, id) \/ Attach(j, id) \/ Restore(j, id)
       \/ Detach(j) \/ DetachFrom(j) \/ RemoveJournalist(j) \/ ToggleTrash(j) \/ Undo(j)
       \/ \E c \in Cards : Issue(j, c)
       \/ \E kind \in CardKinds, r \in shown.cards : OnCard(j, kind, r)
       \/ \E v \in Profiles, photo \in BOOLEAN : Submit(j, v, photo)
       \/ Read(j) \/ ChangeAccount(j) \/ ChangeCard(j) \/ Fail(j)
       \/ ListAnswered(j) \/ CardsAnswered(j) \/ TrashAnswered(j) \/ ActionAnswered(j)
       \/ AttachAnswered(j) \/ UndoAnswered(j) \/ FormAnswered(j)
       \/ \E i \in Calls : RestoreAnswered(j, i)
  \/ CloseDetail \/ OpenEdit \/ CloseForm \/ DismissUndo
  \/ \E id \in Journalists : OpenCreate(id)

PageSpec == PageInit /\ [][PageNext]_pageVars

-----------------------------------------------------------------------------
(* Properties.                                                              *)

\* When the answers have come, one request at a time and none lost, the list, the
\* open journalist and the cards shown are the stored ones, whatever was done.
ShowsStored ==
  orderly /\ Quiet =>
    /\ shown.list = Rows
    /\ shown.selected # Nothing =>
         shown.cards = {r \in CardRows : r.owner = shown.selected}
=============================================================================
