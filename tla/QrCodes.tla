------------------------------- MODULE QrCodes -------------------------------
(***************************************************************************)
(* Dynamic QR codes: the journalist's card screen, which asks for a code   *)
(* for the card it shows and again when the code expires; the server, which *)
(* keeps what a code resolves to in memory for the configured lifetime; and *)
(* the public verification, which looks a code up and then reads the card. *)
(*                                                                         *)
(* A code is what it resolves to: the card, the expiry read for it, and the *)
(* ticks it has left.  A code that is lost has none left.  The lifetime is *)
(* in the settings row and in memory.  An answer of the server takes at    *)
(* most MaxDelay ticks; trouble (faults, and what users do) is bounded by  *)
(* MaxTrouble, so that liveness is about what follows.                     *)
(***************************************************************************)
EXTENDS Naturals, FiniteSets

CONSTANTS Cards, Primary, Requests, None, Lifetimes, Retry, MaxDelay, MaxTrouble, MaxDay

ASSUME LifetimeAssumption ==
  Lifetimes \subseteq Nat \ {0} /\ MaxDelay \in Nat /\ \A t \in Lifetimes : MaxDelay < t

ASSUME CardAssumption == Primary \in Cards /\ MaxDay \in Nat /\ MaxTrouble \in Nat

\* What a code resolves to.
Codes == [card : Cards, until : Nat, left : Nat, told : Nat]
ASSUME NoneAssumption == None \notin Codes /\ None \notin Cards

Longest == CHOOSE t \in Lifetimes \cup {Retry} : \A u \in Lifetimes \cup {Retry} : u <= t
Off == Longest + 1   \* no timer is set

VARIABLES
  card,      \* status ("ACTIVE", "BLOCKED", "gone") and expiry day
  deleted,   \* the journalist's account awaits its purge
  today,
  row, cached, saving, \* lifetime: stored, in memory, being saved (None)
  unlocked,  \* the journalist's unlock session is live
  at,        \* the page: "card", the same with no card ("empty"), or "encryption"
  selected, shown, stale, \* card on the screen, its code, the warning
  due,       \* ticks until the timer of the cycle
  req,       \* requests of the screen and of an administrator
  scan,      \* one verification, with its answer for the rest of the tick
  crossed,   \* a request was in flight when the card was switched
  trouble

cards == <<card, deleted, today>>
lifetime == <<row, cached, saving>>
screen == <<at, selected, shown, stale, due>>
vars == <<cards, lifetime, unlocked, screen, req, scan, crossed, trouble>>

Idle == [step |-> "idle", by |-> "none", card |-> None, until |-> 0, code |-> None, waited |-> 0]
NoScan == [step |-> "idle", uuid |-> None, code |-> None, could |-> FALSE, valid |-> FALSE]
Busy(r) == req[r].step # "idle"
At(r, s) == req[r].step = s
Go(r, s) == req' = [req EXCEPT ![r].step = s]
Drop(r) == req' = [req EXCEPT ![r] = Idle]
Ask(r, by, c, s) == ~Busy(r) /\ req' = [req EXCEPT ![r] = [Idle EXCEPT !.step = s, !.by = by, !.card = c]]
Troubled == trouble < MaxTrouble /\ trouble' = trouble + 1

\* The card would pass a verification now.
Good(c) == card[c].status = "ACTIVE" /\ ~deleted

\* The journalist has Primary and perhaps others, and opens the page, or has
\* been sent to unlock.
Init ==
  /\ \E others \in {{}, Cards} :
       card = [c \in Cards |-> [status |-> IF c \in others \cup {Primary} THEN "ACTIVE" ELSE "gone",
                               until |-> MaxDay]]
  /\ deleted = FALSE /\ today = 0
  /\ row \in Lifetimes /\ cached = row /\ saving = None
  /\ \/ unlocked = TRUE /\ at = "card" /\ due = 0
     \/ unlocked = FALSE /\ at = "encryption" /\ due = Off
  /\ selected = Primary /\ shown = None /\ stale = FALSE
  /\ req = [r \in Requests |-> Idle]
  /\ scan = NoScan
  /\ crossed = FALSE /\ trouble = 0

-----------------------------------------------------------------------------
(* The screen.                                                              *)

\* The cycle asks when its timer is due.
Fire(r) ==
  /\ at = "card" /\ due = 0
  /\ Ask(r, "cycle", selected, "sent")
  /\ due' = Off
  /\ UNCHANGED <<cards, lifetime, unlocked, at, selected, shown, stale, scan, crossed, trouble>>

\* The requests of the cycle of a card that is left answer no cycle any more.
Disowned == [r \in Requests |-> IF req[r].by = "cycle" THEN [req[r] EXCEPT !.by = "old"] ELSE req[r]]

\* A request whose answer the page that is open will show.
OfPage(r) == req[r].by \in {"cycle", "old", "pull"}

\* Those of a page that is left answer nothing.
Unmounted == [r \in Requests |-> IF OfPage(r) THEN [req[r] EXCEPT !.by = "left"] ELSE req[r]]

\* Variant: the code of the card that is left stays on the screen.
SelectKeepsCode(c) ==
  /\ at = "card" /\ c # selected /\ Troubled
  /\ selected' = c /\ due' = 0
  /\ req' = Disowned /\ crossed' = \E r \in Requests : OfPage(r)
  /\ UNCHANGED <<cards, lifetime, unlocked, at, shown, stale, scan>>

Select(c) ==
  /\ at = "card" /\ c # selected /\ Troubled
  /\ selected' = c /\ shown' = None /\ due' = 0
  /\ req' = Disowned /\ crossed' = \E r \in Requests : OfPage(r)
  /\ UNCHANGED <<cards, lifetime, unlocked, at, stale, scan>>

\* Pulling down reloads the list and then asks for a code of the card of then.
Pull(r) ==
  /\ at = "card" /\ Troubled
  /\ Ask(r, "pull", selected, "list")
  /\ UNCHANGED <<cards, lifetime, unlocked, screen, scan, crossed>>

Listed == {c \in Cards : card[c].status # "gone"}
First(c) == c \in Listed /\ (Primary \in Listed => c = Primary)

\* The page, or its card, is left.
Leave(r, page) ==
  /\ at' = page /\ shown' = None /\ due' = Off
  /\ req' = [Unmounted EXCEPT ![r].step = "sent"]
  /\ UNCHANGED <<selected, crossed>>

\* A list refused for want of an unlock leads to the encryption page.
ListRefused(r) ==
  /\ At(r, "list") /\ at # "encryption" /\ ~unlocked
  /\ Leave(r, "encryption")
  /\ UNCHANGED <<cards, lifetime, unlocked, stale, scan, trouble>>

\* The first of the list takes the place of a card that is not in it.
ListReplaces(r) ==
  /\ At(r, "list") /\ at = "card" /\ unlocked /\ OfPage(r) /\ selected \notin Listed
  /\ IF Listed = {} THEN Leave(r, "empty")
     ELSE /\ \E c \in Cards : First(c) /\ selected' = c
          /\ shown' = None /\ due' = 0 /\ crossed' = TRUE
          /\ req' = [Disowned EXCEPT ![r].step = "sent"]
          /\ UNCHANGED at
  /\ UNCHANGED <<cards, lifetime, unlocked, stale, scan, trouble>>

ListAnswered(r) ==
  /\ At(r, "list")
  /\ at = "encryption" \/ (unlocked /\ (at = "empty" \/ ~OfPage(r) \/ selected \in Listed))
  /\ Go(r, "sent")
  /\ UNCHANGED <<cards, lifetime, unlocked, screen, scan, crossed, trouble>>

\* A new code goes on the screen whatever card it was asked for ...
Answered(r) ==
  /\ At(r, "answered") /\ req[r].by # "admin"
  /\ IF OfPage(r)
     THEN /\ shown' = req[r].code /\ stale' = FALSE
          /\ due' = IF req[r].by = "cycle" THEN req[r].code.told ELSE due
     ELSE UNCHANGED <<shown, stale, due>>
  /\ Drop(r)
  /\ UNCHANGED <<cards, lifetime, unlocked, at, selected, scan, crossed, trouble>>

\* Variant: the cycle ends with a failure.
FailedEnds(r) ==
  /\ At(r, "failed")
  /\ stale' = (stale \/ OfPage(r))
  /\ UNCHANGED due
  /\ Drop(r)
  /\ UNCHANGED <<cards, lifetime, unlocked, at, selected, shown, scan, crossed, trouble>>

\* ... and a failure leaves the old one, with a warning.
Failed(r) ==
  /\ At(r, "failed")
  /\ stale' = (stale \/ OfPage(r))
  /\ due' = IF req[r].by = "cycle" THEN Retry ELSE due
  /\ Drop(r)
  /\ UNCHANGED <<cards, lifetime, unlocked, at, selected, shown, scan, crossed, trouble>>

\* Unlocking comes back to the card page, which starts anew with a list.
Unlock ==
  /\ at = "encryption" /\ ~deleted
  /\ unlocked' = TRUE /\ shown' = None /\ stale' = FALSE /\ crossed' = FALSE
  /\ IF Listed = {} THEN at' = "empty" /\ due' = Off /\ UNCHANGED selected
     ELSE at' = "card" /\ due' = 0 /\ \E c \in Cards : First(c) /\ selected' = c
  /\ UNCHANGED <<cards, lifetime, req, scan, trouble>>

-----------------------------------------------------------------------------
(* The server.                                                              *)

AdminQr(r) ==
  /\ Troubled /\ \E c \in Cards : Ask(r, "admin", c, "sent")
  /\ UNCHANGED <<cards, lifetime, unlocked, screen, scan, crossed>>

\* getCards, hydrate: the card is read; a journalist needs the unlock session.
Read(r) ==
  LET c == req[r].card IN
  /\ At(r, "sent")
  /\ IF card[c].status = "gone" \/ (req[r].by # "admin" /\ (deleted \/ ~unlocked))
     THEN Go(r, "failed")
     ELSE req' = [req EXCEPT ![r].step = "read", ![r].until = card[c].until]
  /\ UNCHANGED <<cards, lifetime, unlocked, screen, scan, crossed, trouble>>

\* A journalist whose device remembers the key is unlocked on the way.
DeviceUnlock(r) ==
  /\ req[r].step \in {"list", "sent"} /\ req[r].by # "admin" /\ ~unlocked /\ ~deleted
  /\ unlocked' = TRUE
  /\ UNCHANGED <<cards, lifetime, screen, req, scan, crossed, trouble>>

\* The second read finds the card or throws; the code gets the lifetime in memory.
Put(r) ==
  LET c == req[r].card IN
  /\ At(r, "read")
  /\ IF card[c].status = "gone" /\ req[r].by # "admin" THEN Go(r, "failed")
     ELSE req' = [req EXCEPT ![r].step = "answered",
                    ![r].code = [card |-> c, until |-> req[r].until, left |-> cached, told |-> cached]]
  /\ UNCHANGED <<cards, lifetime, unlocked, screen, scan, crossed, trouble>>

\* A request or its answer is lost.
Lose(r) ==
  /\ Busy(r) /\ ~At(r, "failed") /\ Troubled
  /\ Go(r, IF At(r, "list") THEN "sent" ELSE "failed")
  /\ UNCHANGED <<cards, lifetime, unlocked, screen, scan, crossed>>

SaveLifetime(t) ==
  /\ saving = None /\ t # row /\ Troubled
  /\ row' = t /\ saving' = t
  /\ UNCHANGED <<cards, cached, unlocked, screen, req, scan, crossed>>

ApplyLifetime ==
  /\ saving # None
  /\ cached' = saving /\ saving' = None
  /\ UNCHANGED <<cards, row, unlocked, screen, req, scan, crossed, trouble>>

\* block, renew, update and remove; a card that passes again counts for the scan.
ChangeCard(c, s, d) ==
  /\ card[c].status # "gone" /\ card[c] # [status |-> s, until |-> d] /\ Troubled
  /\ card' = [card EXCEPT ![c] = [status |-> s, until |-> d]]
  /\ scan' = [scan EXCEPT !.could = @ \/ (scan.uuid = c /\ s = "ACTIVE" /\ ~deleted)]
  /\ UNCHANGED <<deleted, today, lifetime, unlocked, screen, req, crossed>>

\* Soft delete and undo of the account.
ChangeAccount ==
  /\ Troubled
  /\ deleted' = ~deleted /\ unlocked' = FALSE
  /\ scan' = [scan EXCEPT !.could = @ \/ (deleted /\ scan.uuid # None /\ card[scan.uuid].status = "ACTIVE")]
  /\ UNCHANGED <<card, today, lifetime, screen, req, crossed>>

LockExpires ==
  /\ unlocked /\ Troubled /\ unlocked' = FALSE
  /\ UNCHANGED <<cards, lifetime, screen, req, scan, crossed>>

Lost(x) == IF x = None THEN None ELSE [x EXCEPT !.left = 0]

\* Codes, unlock sessions and requests are gone; the lifetime is read again.
Restart ==
  /\ Troubled
  /\ shown' = Lost(shown) /\ unlocked' = FALSE
  /\ cached' = row /\ saving' = None
  /\ req' = [r \in Requests |-> CASE req[r].step \in {"idle", "list"} -> req[r]
                                  [] OTHER -> [req[r] EXCEPT !.step = "failed"]]
  /\ scan' = IF scan.step = "held" THEN [scan EXCEPT !.code = Lost(@)] ELSE NoScan
  /\ UNCHANGED <<cards, row, at, selected, stale, due, crossed>>

-----------------------------------------------------------------------------
(* Verification.                                                            *)

\* Someone has the code of the screen, or of the administrator.
Hold ==
  /\ scan.step \in {"idle", "answered"} /\ shown # None
  /\ scan' = [NoScan EXCEPT !.step = "held", !.code = shown]
  /\ UNCHANGED <<cards, lifetime, unlocked, screen, req, crossed, trouble>>

HoldAdmin(r) ==
  /\ At(r, "answered") /\ req[r].by = "admin"
  /\ scan' = IF scan.step \in {"idle", "answered"} THEN [NoScan EXCEPT !.step = "held", !.code = req[r].code] ELSE scan
  /\ Drop(r)
  /\ UNCHANGED <<cards, lifetime, unlocked, screen, crossed, trouble>>

\* Live, and bound to this card.
Resolves(code, uuid) == code.left > 0 /\ code.card = uuid

Scan(c) ==
  /\ scan.step = "held"
  /\ IF Resolves(scan.code, c)
     THEN scan' = [scan EXCEPT !.step = "status", !.uuid = c, !.could = Good(c)]
     ELSE scan' = NoScan
  /\ UNCHANGED <<cards, lifetime, unlocked, screen, req, crossed, trouble>>

\* Variant: the account is not looked at.
VerdictOfCard(c, until) == card[c].status = "ACTIVE" /\ today <= until

\* effectiveCardStatus of the stored status and the expiry of the code.
Verdict(c, until) == card[c].status = "ACTIVE" /\ ~deleted /\ today <= until

Status ==
  /\ scan.step = "status"
  /\ scan' = [scan EXCEPT !.step = "answered", !.valid = Verdict(scan.uuid, scan.code.until)]
  /\ UNCHANGED <<cards, lifetime, unlocked, screen, req, crossed, trouble>>

-----------------------------------------------------------------------------
(* Time.                                                                    *)

Older(x) == IF x = None THEN None ELSE [x EXCEPT !.left = IF @ = 0 THEN 0 ELSE @ - 1]

Tick ==
  /\ due # 0
  /\ \A r \in Requests : Busy(r) => req[r].waited < MaxDelay
  /\ shown' = Older(shown)
  /\ due' = IF due = Off THEN Off ELSE due - 1
  /\ req' = [r \in Requests |-> IF Busy(r)
               THEN [req[r] EXCEPT !.waited = @ + 1, !.code = Older(@)] ELSE Idle]
  /\ scan' = CASE scan.step = "held" -> [scan EXCEPT !.code = Older(@)]
               [] scan.step = "answered" -> NoScan
               [] OTHER -> scan
  /\ UNCHANGED <<cards, lifetime, unlocked, at, selected, stale, crossed, trouble>>

NextDay ==
  /\ today < MaxDay /\ Troubled /\ today' = today + 1
  /\ UNCHANGED <<card, deleted, lifetime, unlocked, screen, req, scan, crossed>>

Server(r) == Read(r) \/ Put(r)
Client(r) == Fire(r) \/ ListRefused(r) \/ ListReplaces(r) \/ ListAnswered(r) \/ Answered(r) \/ Failed(r) \/ HoldAdmin(r)

Next ==
  \/ \E r \in Requests : Server(r) \/ Client(r) \/ Pull(r) \/ AdminQr(r) \/ Lose(r) \/ DeviceUnlock(r)
  \/ \E c \in Cards : Select(c) \/ Scan(c)
  \/ \E c \in Cards, s \in {"ACTIVE", "BLOCKED", "gone"}, d \in 0..MaxDay : ChangeCard(c, s, d)
  \/ \E t \in Lifetimes : SaveLifetime(t)
  \/ ApplyLifetime \/ ChangeAccount \/ LockExpires \/ Restart \/ Unlock
  \/ Hold \/ Status \/ Tick \/ NextDay

Fairness ==
  /\ WF_vars(Tick)
  /\ \A r \in Requests : WF_vars(Server(r)) /\ WF_vars(Client(r))

Spec == Init /\ [][Next]_vars /\ Fairness

-----------------------------------------------------------------------------
(* Properties.                                                              *)

\* The code on the screen is one of the card on the screen, unless a request
\* was in flight when the card was switched: its answer is shown all the same.
ShownOfCard == shown # None /\ ~crossed => shown.card = selected

\* A verification never says valid of a card that was blocked or removed, or
\* whose account was deleted, from before its code was looked up, however fresh
\* the code; and it never says so of a card the code was not made for.
ValidWasGood == scan.valid => scan.could /\ scan.code.card = scan.uuid

CanShow == at = "card" /\ unlocked /\ ~deleted /\ card[selected].status # "gone"
Live == shown # None /\ shown.card = selected /\ shown.left > 0

\* Once nothing more goes wrong the screen shows a code that verifies, again and
\* again; if it cannot get one, it warns.
ComesToShow == []<>(IF CanShow THEN Live ELSE stale \/ at # "card")
=============================================================================
