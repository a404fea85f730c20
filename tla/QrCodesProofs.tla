---------------------------- MODULE QrCodesProofs ----------------------------
(***************************************************************************)
(* Whose code the card screen shows, and what a verification may say, for  *)
(* any number of cards, requests in flight, lifetimes and troubles.        *)
(***************************************************************************)
EXTENDS QrCodes, TLAPS

Card == [status : {"ACTIVE", "BLOCKED", "gone"}, until : Nat]
Steps == {"idle", "list", "sent", "read", "answered", "failed"}
Askers == {"none", "cycle", "old", "pull", "left", "admin"}
Request == [step : Steps, by : Askers, card : Cards \cup {None}, until : Nat,
            code : Codes \cup {None}, waited : Nat]
ScanSteps == {"idle", "held", "status", "answered"}
Verification == [step : ScanSteps, uuid : Cards \cup {None}, code : Codes \cup {None},
                 could : BOOLEAN, valid : BOOLEAN]

\* What the program is about to read has its type, and a request that runs is
\* for a card.
Typed ==
  /\ card \in [Cards -> Card] /\ deleted \in BOOLEAN
  /\ cached \in Nat /\ row \in Nat /\ (saving # None => saving \in Nat)
  /\ selected \in Cards /\ shown \in Codes \cup {None} /\ crossed \in BOOLEAN
  /\ req \in [Requests -> Request]
  /\ scan \in Verification

\* An answer carries a code of the card it was asked for.
AnswersOwnCard ==
  \A r \in Requests :
    /\ Busy(r) => req[r].card \in Cards
    /\ At(r, "answered") => req[r].code # None /\ req[r].code.card = req[r].card

\* A page that is left has no request that will be shown ...
LeftIsLeft == at # "card" => \A r \in Requests : ~OfPage(r)

\* ... and the one that is open asks for the card it shows, until it crosses.
AsksForShown ==
  ~crossed =>
    /\ shown # None => shown.card = selected
    /\ \A r \in Requests : OfPage(r) => req[r].card = selected

\* A verification between its look-up and its verdict has seen its card good
\* if the card is good now.
SeenGood ==
  /\ scan.step # "answered" => ~scan.valid
  /\ scan.step = "held" => scan.code # None
  /\ scan.step \in {"status", "answered"} =>
       /\ scan.uuid \in Cards
       /\ scan.code # None /\ scan.code.card = scan.uuid
  /\ scan.step = "status" /\ Good(scan.uuid) => scan.could
  /\ scan.valid => scan.could

CodesInv == Typed /\ AnswersOwnCard /\ LeftIsLeft /\ AsksForShown /\ SeenGood

LEMMA CodeKept ==
  ASSUME NEW x \in Codes \cup {None}
  PROVE  /\ Older(x) \in Codes \cup {None} /\ (x # None => Older(x) # None /\ Older(x).card = x.card)
         /\ Lost(x) \in Codes \cup {None} /\ (x # None => Lost(x) # None /\ Lost(x).card = x.card)
  BY NoneAssumption DEF Older, Lost, Codes

LEMMA GoTyped ==
  ASSUME req \in [Requests -> Request], NEW r \in Requests, NEW s \in Steps, Go(r, s)
  PROVE  req' \in [Requests -> Request]
  BY DEF Go, Request

LEMMA AskTyped ==
  ASSUME req \in [Requests -> Request], NEW r \in Requests, NEW by \in Askers, NEW c \in Cards,
         NEW s \in Steps, Ask(r, by, c, s)
  PROVE  req' \in [Requests -> Request]
  BY DEF Ask, Request, Idle, Steps, Askers

\* Leaving a page, or a card, only changes whose the requests are.
LEMMA DisownedTyped ==
  ASSUME req \in [Requests -> Request]
  PROVE  Disowned \in [Requests -> Request] /\ Unmounted \in [Requests -> Request]
  BY DEF Disowned, Unmounted, Request, Askers

LEMMA SentTyped ==
  ASSUME NEW q \in [Requests -> Request], NEW r \in Requests
  PROVE  [q EXCEPT ![r].step = "sent"] \in [Requests -> Request]
  BY DEF Request, Steps

LEMMA AgedTyped ==
  ASSUME NEW q \in Request, NEW x \in Codes \cup {None}
  PROVE  [q EXCEPT !.waited = @ + 1, !.code = x] \in Request
  <1>1. q.waited + 1 \in Nat
    BY DEF Request
  <1> QED BY <1>1 DEF Request

\* Every step keeps the types.
LEMMA TypedStep == Typed /\ AnswersOwnCard /\ SeenGood /\ [Next]_vars => Typed'
<1> SUFFICES ASSUME Typed, AnswersOwnCard, SeenGood, [Next]_vars PROVE Typed'
  OBVIOUS
<1> USE DEF Typed, Card, Steps, Askers, Request, ScanSteps, Verification
<1> USE DEF Busy, At, Go, Drop, Ask, Idle, NoScan, Troubled, cards, lifetime, screen
<1>1. ASSUME NEW r \in Requests, Read(r) PROVE Typed'
  <2>1. CASE Go(r, "failed")
    BY <1>1, <2>1, GoTyped DEF Read
  <2>2. CASE req' = [req EXCEPT ![r].step = "read", ![r].until = card[req[r].card].until]
    <3>1. req[r].card \in Cards
      BY <1>1 DEF Read, AnswersOwnCard
    <3> QED BY <1>1, <2>2, <3>1 DEF Read
  <2> QED BY <1>1, <2>1, <2>2 DEF Read
<1>2. ASSUME NEW r \in Requests, Put(r) PROVE Typed'
  BY <1>2 DEF Put, Codes, AnswersOwnCard
<1>3. ASSUME NEW r \in Requests, Fire(r) PROVE Typed'
  BY <1>3 DEF Fire
<1>4. ASSUME NEW r \in Requests, ListRefused(r) PROVE Typed'
  BY <1>4 DEF ListRefused, Leave, Unmounted
<1>5. ASSUME NEW r \in Requests, ListReplaces(r) PROVE Typed'
  <2>1. CASE Listed = {}
    <3>1. req' \in [Requests -> Request]
      <4> HIDE DEF Request, Typed
      <4>1. req' = [Unmounted EXCEPT ![r].step = "sent"]
        BY <1>5, <2>1 DEF ListReplaces, Leave
      <4>2. req \in [Requests -> Request]
        BY DEF Typed
      <4> QED BY <4>1, <4>2, DisownedTyped, SentTyped
    <3> QED BY <1>5, <2>1, <3>1 DEF ListReplaces, Leave
  <2>2. CASE Listed # {}
    <3>1. req' \in [Requests -> Request]
      <4> HIDE DEF Request, Typed
      <4>1. req' = [Disowned EXCEPT ![r].step = "sent"]
        BY <1>5, <2>2 DEF ListReplaces
      <4>2. req \in [Requests -> Request]
        BY DEF Typed
      <4> QED BY <4>1, <4>2, DisownedTyped, SentTyped
    <3> QED BY <1>5, <2>2, <3>1 DEF ListReplaces
  <2> QED BY <2>1, <2>2
<1>6. ASSUME NEW r \in Requests, ListAnswered(r) PROVE Typed'
  BY <1>6, GoTyped DEF ListAnswered
<1>7. ASSUME NEW r \in Requests, Answered(r) PROVE Typed'
  BY <1>7 DEF Answered
<1>8. ASSUME NEW r \in Requests, Failed(r) PROVE Typed'
  BY <1>8 DEF Failed
<1>9. ASSUME NEW r \in Requests, HoldAdmin(r) PROVE Typed'
  BY <1>9 DEF HoldAdmin
<1>10. ASSUME NEW r \in Requests, Pull(r) PROVE Typed'
  BY <1>10 DEF Pull
<1>11. ASSUME NEW r \in Requests, AdminQr(r) PROVE Typed'
  BY <1>11, AskTyped DEF AdminQr
<1>12. ASSUME NEW r \in Requests, Lose(r) PROVE Typed'
  <2>1. PICK s \in Steps : Go(r, s)
    BY <1>12 DEF Lose
  <2> QED BY <1>12, <2>1, GoTyped DEF Lose
<1>13. ASSUME NEW r \in Requests, DeviceUnlock(r) PROVE Typed'
  BY <1>13 DEF DeviceUnlock
<1>14. ASSUME NEW c \in Cards, Select(c) PROVE Typed'
  BY <1>14 DEF Select, Disowned
<1>15. ASSUME NEW c \in Cards, Scan(c) PROVE Typed'
  <2>1. CASE scan' = [scan EXCEPT !.step = "status", !.uuid = c, !.could = Good(c)]
    <3>1. Good(c) \in BOOLEAN
      BY DEF Good
    <3> QED BY <1>15, <2>1, <3>1 DEF Scan
  <2>2. CASE scan' = NoScan
    BY <1>15, <2>2 DEF Scan
  <2> QED BY <1>15, <2>1, <2>2 DEF Scan
<1>16. ASSUME NEW c \in Cards, NEW s \in {"ACTIVE", "BLOCKED", "gone"}, NEW d \in 0..MaxDay, ChangeCard(c, s, d) PROVE Typed'
  <2>1. d \in Nat
    BY CardAssumption
  <2>2. card' \in [Cards -> Card]
    BY <1>16, <2>1 DEF ChangeCard
  <2>3. scan' \in Verification
    <3>1. (scan.could \/ (scan.uuid = c /\ s = "ACTIVE" /\ ~deleted)) \in BOOLEAN
      OBVIOUS
    <3> QED BY <1>16, <3>1 DEF ChangeCard
  <2> QED BY <1>16, <2>2, <2>3 DEF ChangeCard
<1>17. ASSUME NEW t \in Lifetimes, SaveLifetime(t) PROVE Typed'
  BY <1>17, LifetimeAssumption DEF SaveLifetime
<1>18. ASSUME ApplyLifetime PROVE Typed'
  BY <1>18 DEF ApplyLifetime
<1>19. ASSUME ChangeAccount PROVE Typed'
  BY <1>19 DEF ChangeAccount
<1>20. ASSUME LockExpires PROVE Typed'
  BY <1>20 DEF LockExpires
<1>21. ASSUME Restart PROVE Typed'
  BY <1>21, CodeKept DEF Restart
<1>22. ASSUME Unlock PROVE Typed'
  BY <1>22 DEF Unlock, First, Listed
<1>23. ASSUME Hold PROVE Typed'
  BY <1>23 DEF Hold
<1>24. ASSUME Status PROVE Typed'
  BY <1>24 DEF Status, Verdict
<1>25. ASSUME Tick PROVE Typed'
  <2>1. req' \in [Requests -> Request]
    <3> DEFINE aged(r) == [req[r] EXCEPT !.waited = @ + 1, !.code = Older(@)]
    <3>1. ASSUME NEW r \in Requests PROVE aged(r) \in Request
      <4>1. Older(req[r].code) \in Codes \cup {None}
        BY CodeKept
      <4>2. req[r] \in Request
        OBVIOUS
      <4> HIDE DEF Typed, Request
      <4> QED BY <4>1, <4>2, AgedTyped
    <3>2. Idle \in Request
      OBVIOUS
    <3>3. req' = [r \in Requests |-> IF Busy(r) THEN aged(r) ELSE Idle]
      BY <1>25 DEF Tick
    <3> HIDE DEF aged, Idle, Request, Busy
    <3> QED BY <3>1, <3>2, <3>3
  <2>2. scan' \in Verification
    BY <1>25, CodeKept DEF Tick
  <2>3. shown' \in Codes \cup {None}
    BY <1>25, CodeKept DEF Tick
  <2> QED BY <1>25, <2>1, <2>2, <2>3 DEF Tick
<1>26. ASSUME NextDay PROVE Typed'
  BY <1>26 DEF NextDay
<1>27. CASE UNCHANGED vars
  BY <1>27 DEF vars
<1> QED
  BY <1>1, <1>2, <1>3, <1>4, <1>5, <1>6, <1>7, <1>8, <1>9, <1>10, <1>11, <1>12, <1>13, <1>14, <1>15, <1>16, <1>17, <1>18, <1>19, <1>20, <1>21, <1>22, <1>23, <1>24, <1>25, <1>26, <1>27 DEF Next, Server, Client
\* A request goes on when its page, or its card, is left; those of the card stay
\* of the page, and those of the page do not.
LEMMA DisownedKeeps ==
  ASSUME req \in [Requests -> Request], NEW r \in Requests, req' = [Disowned EXCEPT ![r].step = "sent"]
  PROVE  \A u \in Requests :
           /\ req'[u].card = req[u].card /\ req'[u].code = req[u].code
           /\ req'[u].step = IF u = r THEN "sent" ELSE req[u].step
           /\ OfPage(u)' => OfPage(u)
  <1>1. ASSUME NEW u \in Requests
        PROVE  /\ Disowned[u] \in Request /\ Disowned[u].card = req[u].card /\ Disowned[u].code = req[u].code
               /\ Disowned[u].step = req[u].step /\ (Disowned[u].by \in {"cycle", "old", "pull"} => OfPage(u))
    BY DEF Disowned, Request, OfPage, Askers
  <1>2. Disowned \in [Requests -> Request]
    BY DisownedTyped
  <1>3. ASSUME NEW u \in Requests
        PROVE  /\ req'[u].card = Disowned[u].card /\ req'[u].code = Disowned[u].code /\ req'[u].by = Disowned[u].by
               /\ req'[u].step = IF u = r THEN "sent" ELSE Disowned[u].step
    <2> HIDE DEF Disowned
    <2> QED BY <1>2 DEF Request
  <1> QED BY <1>1, <1>3 DEF OfPage

LEMMA UnmountedKeeps ==
  ASSUME req \in [Requests -> Request], NEW r \in Requests, req' = [Unmounted EXCEPT ![r].step = "sent"]
  PROVE  \A u \in Requests :
           /\ req'[u].card = req[u].card /\ req'[u].code = req[u].code
           /\ req'[u].step = IF u = r THEN "sent" ELSE req[u].step
           /\ ~OfPage(u)'
  <1>1. ASSUME NEW u \in Requests
        PROVE  /\ Unmounted[u] \in Request /\ Unmounted[u].card = req[u].card /\ Unmounted[u].code = req[u].code
               /\ Unmounted[u].step = req[u].step /\ Unmounted[u].by \notin {"cycle", "old", "pull"}
    BY DEF Unmounted, Request, OfPage, Askers
  <1>2. Unmounted \in [Requests -> Request]
    BY DisownedTyped
  <1>3. ASSUME NEW u \in Requests
        PROVE  /\ req'[u].card = Unmounted[u].card /\ req'[u].code = Unmounted[u].code /\ req'[u].by = Unmounted[u].by
               /\ req'[u].step = IF u = r THEN "sent" ELSE Unmounted[u].step
    <2> HIDE DEF Unmounted
    <2> QED BY <1>2 DEF Request
  <1> QED BY <1>1, <1>3 DEF OfPage

\* Answers are made for the card that was asked for.
LEMMA AnswersStep == Typed /\ AnswersOwnCard /\ [Next]_vars => AnswersOwnCard'
<1> SUFFICES ASSUME Typed, AnswersOwnCard, [Next]_vars PROVE AnswersOwnCard'
  OBVIOUS
<1> USE DEF AnswersOwnCard, Busy, At, Go, Drop, Ask, Idle, cards, lifetime, screen, Typed, Request
<1>1. ASSUME NEW r \in Requests, Read(r) PROVE AnswersOwnCard'
  BY <1>1 DEF Read
<1>2. ASSUME NEW r \in Requests, Put(r) PROVE AnswersOwnCard'
  <2>1. CASE Go(r, "failed")
    BY <1>2, <2>1 DEF Put
  <2>2. CASE req' = [req EXCEPT ![r].step = "answered", ![r].code =
                       [card |-> req[r].card, until |-> req[r].until, left |-> cached, told |-> cached]]
    <3> DEFINE made == [card |-> req[r].card, until |-> req[r].until, left |-> cached, told |-> cached]
    <3>1. made \in Codes
      BY <1>2 DEF Put, Codes
    <3>2. made # None /\ made.card = req[r].card
      BY <3>1, NoneAssumption
    <3> HIDE DEF made
    <3>3. req' = [req EXCEPT ![r].step = "answered", ![r].code = made]
      BY <2>2 DEF made
    <3> QED BY <1>2, <3>2, <3>3 DEF Put
  <2> QED BY <1>2, <2>1, <2>2 DEF Put
<1>3. ASSUME NEW r \in Requests, Fire(r) PROVE AnswersOwnCard'
  BY <1>3 DEF Fire
<1>4. ASSUME NEW r \in Requests, ListRefused(r) PROVE AnswersOwnCard'
  BY <1>4 DEF ListRefused, Leave, Unmounted, OfPage
<1>5. ASSUME NEW r \in Requests, ListReplaces(r) PROVE AnswersOwnCard'
  <2>1. CASE Listed = {}
    <3>1. req' = [Unmounted EXCEPT ![r].step = "sent"] /\ shown' = None
      BY <1>5, <2>1 DEF ListReplaces, Leave
    <3>2. \A u \in Requests :
            /\ req'[u].card = req[u].card /\ req'[u].code = req[u].code
            /\ req'[u].step = IF u = r THEN "sent" ELSE req[u].step
      BY <3>1, UnmountedKeeps
    <3>3. req[r].step = "list"
      BY <1>5 DEF ListReplaces
    <3> HIDE DEF Typed
    <3> QED BY <3>2, <3>3
  <2>2. CASE Listed # {}
    <3>1. req' = [Disowned EXCEPT ![r].step = "sent"] /\ at' = at /\ crossed' = TRUE
      BY <1>5, <2>2 DEF ListReplaces
    <3>2. \A u \in Requests :
            /\ req'[u].card = req[u].card /\ req'[u].code = req[u].code
            /\ req'[u].step = IF u = r THEN "sent" ELSE req[u].step
      BY <3>1, DisownedKeeps
    <3>3. req[r].step = "list"
      BY <1>5 DEF ListReplaces
    <3> HIDE DEF Typed
    <3> QED BY <3>2, <3>3
  <2> QED BY <2>1, <2>2
<1>6. ASSUME NEW r \in Requests, ListAnswered(r) PROVE AnswersOwnCard'
  BY <1>6 DEF ListAnswered
<1>7. ASSUME NEW r \in Requests, Answered(r) PROVE AnswersOwnCard'
  BY <1>7 DEF Answered
<1>8. ASSUME NEW r \in Requests, Failed(r) PROVE AnswersOwnCard'
  BY <1>8 DEF Failed
<1>9. ASSUME NEW r \in Requests, HoldAdmin(r) PROVE AnswersOwnCard'
  BY <1>9 DEF HoldAdmin
<1>10. ASSUME NEW r \in Requests, Pull(r) PROVE AnswersOwnCard'
  BY <1>10 DEF Pull
<1>11. ASSUME NEW r \in Requests, AdminQr(r) PROVE AnswersOwnCard'
  BY <1>11 DEF AdminQr
<1>12. ASSUME NEW r \in Requests, Lose(r) PROVE AnswersOwnCard'
  BY <1>12 DEF Lose
<1>13. ASSUME NEW r \in Requests, DeviceUnlock(r) PROVE AnswersOwnCard'
  BY <1>13 DEF DeviceUnlock
<1>14. ASSUME NEW c \in Cards, Select(c) PROVE AnswersOwnCard'
  BY <1>14 DEF Select, Disowned
<1>15. ASSUME NEW c \in Cards, Scan(c) PROVE AnswersOwnCard'
  BY <1>15 DEF Scan
<1>16. ASSUME NEW c \in Cards, NEW s \in {"ACTIVE", "BLOCKED", "gone"}, NEW d \in 0..MaxDay, ChangeCard(c, s, d) PROVE AnswersOwnCard'
  BY <1>16 DEF ChangeCard
<1>17. ASSUME NEW t \in Lifetimes, SaveLifetime(t) PROVE AnswersOwnCard'
  BY <1>17 DEF SaveLifetime
<1>18. ASSUME ApplyLifetime PROVE AnswersOwnCard'
  BY <1>18 DEF ApplyLifetime
<1>19. ASSUME ChangeAccount PROVE AnswersOwnCard'
  BY <1>19 DEF ChangeAccount
<1>20. ASSUME LockExpires PROVE AnswersOwnCard'
  BY <1>20 DEF LockExpires
<1>21. ASSUME Restart PROVE AnswersOwnCard'
  BY <1>21 DEF Restart
<1>22. ASSUME Unlock PROVE AnswersOwnCard'
  BY <1>22 DEF Unlock
<1>23. ASSUME Hold PROVE AnswersOwnCard'
  BY <1>23 DEF Hold
<1>24. ASSUME Status PROVE AnswersOwnCard'
  BY <1>24 DEF Status
<1>25. ASSUME Tick PROVE AnswersOwnCard'
  BY <1>25, CodeKept DEF Tick
<1>26. ASSUME NextDay PROVE AnswersOwnCard'
  BY <1>26 DEF NextDay
<1>27. CASE UNCHANGED vars
  BY <1>27 DEF vars, OfPage
<1> QED
  BY <1>1, <1>2, <1>3, <1>4, <1>5, <1>6, <1>7, <1>8, <1>9, <1>10, <1>11, <1>12, <1>13, <1>14, <1>15, <1>16, <1>17, <1>18, <1>19, <1>20, <1>21, <1>22, <1>23, <1>24, <1>25, <1>26, <1>27 DEF Next, Server, Client

\* A page that is left keeps no request.
LEMMA LeftStep == Typed /\ LeftIsLeft /\ [Next]_vars => LeftIsLeft'
<1> SUFFICES ASSUME Typed, LeftIsLeft, [Next]_vars PROVE LeftIsLeft'
  OBVIOUS
<1> USE DEF LeftIsLeft, Busy, At, Go, Drop, Ask, Idle, cards, lifetime, screen, Typed, Request, OfPage
<1>1. ASSUME NEW r \in Requests, Read(r) PROVE LeftIsLeft'
  BY <1>1 DEF Read
<1>2. ASSUME NEW r \in Requests, Put(r) PROVE LeftIsLeft'
  BY <1>2 DEF Put
<1>3. ASSUME NEW r \in Requests, Fire(r) PROVE LeftIsLeft'
  BY <1>3 DEF Fire
<1>4. ASSUME NEW r \in Requests, ListRefused(r) PROVE LeftIsLeft'
  BY <1>4 DEF ListRefused, Leave, Unmounted
<1>5. ASSUME NEW r \in Requests, ListReplaces(r) PROVE LeftIsLeft'
  <2>1. CASE Listed = {}
    <3>1. req' = [Unmounted EXCEPT ![r].step = "sent"] /\ shown' = None
      BY <1>5, <2>1 DEF ListReplaces, Leave
    <3> QED BY <3>1, UnmountedKeeps
  <2>2. CASE Listed # {}
    <3>1. req' = [Disowned EXCEPT ![r].step = "sent"] /\ at' = at /\ crossed' = TRUE
      BY <1>5, <2>2 DEF ListReplaces
    <3> QED BY <3>1, DisownedKeeps
  <2> QED BY <2>1, <2>2
<1>6. ASSUME NEW r \in Requests, ListAnswered(r) PROVE LeftIsLeft'
  BY <1>6 DEF ListAnswered
<1>7. ASSUME NEW r \in Requests, Answered(r) PROVE LeftIsLeft'
  BY <1>7 DEF Answered
<1>8. ASSUME NEW r \in Requests, Failed(r) PROVE LeftIsLeft'
  BY <1>8 DEF Failed
<1>9. ASSUME NEW r \in Requests, HoldAdmin(r) PROVE LeftIsLeft'
  BY <1>9 DEF HoldAdmin
<1>10. ASSUME NEW r \in Requests, Pull(r) PROVE LeftIsLeft'
  BY <1>10 DEF Pull
<1>11. ASSUME NEW r \in Requests, AdminQr(r) PROVE LeftIsLeft'
  BY <1>11 DEF AdminQr
<1>12. ASSUME NEW r \in Requests, Lose(r) PROVE LeftIsLeft'
  BY <1>12 DEF Lose
<1>13. ASSUME NEW r \in Requests, DeviceUnlock(r) PROVE LeftIsLeft'
  BY <1>13 DEF DeviceUnlock
<1>14. ASSUME NEW c \in Cards, Select(c) PROVE LeftIsLeft'
  BY <1>14 DEF Select, Disowned
<1>15. ASSUME NEW c \in Cards, Scan(c) PROVE LeftIsLeft'
  BY <1>15 DEF Scan
<1>16. ASSUME NEW c \in Cards, NEW s \in {"ACTIVE", "BLOCKED", "gone"}, NEW d \in 0..MaxDay, ChangeCard(c, s, d) PROVE LeftIsLeft'
  BY <1>16 DEF ChangeCard
<1>17. ASSUME NEW t \in Lifetimes, SaveLifetime(t) PROVE LeftIsLeft'
  BY <1>17 DEF SaveLifetime
<1>18. ASSUME ApplyLifetime PROVE LeftIsLeft'
  BY <1>18 DEF ApplyLifetime
<1>19. ASSUME ChangeAccount PROVE LeftIsLeft'
  BY <1>19 DEF ChangeAccount
<1>20. ASSUME LockExpires PROVE LeftIsLeft'
  BY <1>20 DEF LockExpires
<1>21. ASSUME Restart PROVE LeftIsLeft'
  BY <1>21 DEF Restart
<1>22. ASSUME Unlock PROVE LeftIsLeft'
  BY <1>22 DEF Unlock
<1>23. ASSUME Hold PROVE LeftIsLeft'
  BY <1>23 DEF Hold
<1>24. ASSUME Status PROVE LeftIsLeft'
  BY <1>24 DEF Status
<1>25. ASSUME Tick PROVE LeftIsLeft'
  BY <1>25 DEF Tick
<1>26. ASSUME NextDay PROVE LeftIsLeft'
  BY <1>26 DEF NextDay
<1>27. CASE UNCHANGED vars
  BY <1>27 DEF vars, OfPage
<1> QED
  BY <1>1, <1>2, <1>3, <1>4, <1>5, <1>6, <1>7, <1>8, <1>9, <1>10, <1>11, <1>12, <1>13, <1>14, <1>15, <1>16, <1>17, <1>18, <1>19, <1>20, <1>21, <1>22, <1>23, <1>24, <1>25, <1>26, <1>27 DEF Next, Server, Client

\* The open page asks for the card it shows.
LEMMA AsksStep == Typed /\ AnswersOwnCard /\ LeftIsLeft /\ AsksForShown /\ [Next]_vars => AsksForShown'
<1> SUFFICES ASSUME Typed, AnswersOwnCard, LeftIsLeft, AsksForShown, [Next]_vars PROVE AsksForShown'
  OBVIOUS
<1> USE DEF AsksForShown, Busy, At, Go, Drop, Ask, Idle, cards, lifetime, screen, Typed, Request, OfPage, AnswersOwnCard
<1>1. ASSUME NEW r \in Requests, Read(r) PROVE AsksForShown'
  BY <1>1 DEF Read
<1>2. ASSUME NEW r \in Requests, Put(r) PROVE AsksForShown'
  BY <1>2 DEF Put
<1>3. ASSUME NEW r \in Requests, Fire(r) PROVE AsksForShown'
  BY <1>3 DEF Fire
<1>4. ASSUME NEW r \in Requests, ListRefused(r) PROVE AsksForShown'
  BY <1>4 DEF ListRefused, Leave, Unmounted
<1>5. ASSUME NEW r \in Requests, ListReplaces(r) PROVE AsksForShown'
  <2>1. CASE Listed = {}
    <3>1. req' = [Unmounted EXCEPT ![r].step = "sent"] /\ shown' = None
      BY <1>5, <2>1 DEF ListReplaces, Leave
    <3> QED BY <3>1, UnmountedKeeps
  <2>2. CASE Listed # {}
    <3>1. req' = [Disowned EXCEPT ![r].step = "sent"] /\ at' = at /\ crossed' = TRUE
      BY <1>5, <2>2 DEF ListReplaces
    <3> QED BY <3>1, DisownedKeeps
  <2> QED BY <2>1, <2>2
<1>6. ASSUME NEW r \in Requests, ListAnswered(r) PROVE AsksForShown'
  BY <1>6 DEF ListAnswered
<1>7. ASSUME NEW r \in Requests, Answered(r) PROVE AsksForShown'
  BY <1>7 DEF Answered
<1>8. ASSUME NEW r \in Requests, Failed(r) PROVE AsksForShown'
  BY <1>8 DEF Failed
<1>9. ASSUME NEW r \in Requests, HoldAdmin(r) PROVE AsksForShown'
  BY <1>9 DEF HoldAdmin
<1>10. ASSUME NEW r \in Requests, Pull(r) PROVE AsksForShown'
  BY <1>10 DEF Pull
<1>11. ASSUME NEW r \in Requests, AdminQr(r) PROVE AsksForShown'
  BY <1>11 DEF AdminQr
<1>12. ASSUME NEW r \in Requests, Lose(r) PROVE AsksForShown'
  BY <1>12 DEF Lose
<1>13. ASSUME NEW r \in Requests, DeviceUnlock(r) PROVE AsksForShown'
  BY <1>13 DEF DeviceUnlock
<1>14. ASSUME NEW c \in Cards, Select(c) PROVE AsksForShown'
  BY <1>14 DEF Select, Disowned
<1>15. ASSUME NEW c \in Cards, Scan(c) PROVE AsksForShown'
  BY <1>15 DEF Scan
<1>16. ASSUME NEW c \in Cards, NEW s \in {"ACTIVE", "BLOCKED", "gone"}, NEW d \in 0..MaxDay, ChangeCard(c, s, d) PROVE AsksForShown'
  BY <1>16 DEF ChangeCard
<1>17. ASSUME NEW t \in Lifetimes, SaveLifetime(t) PROVE AsksForShown'
  BY <1>17 DEF SaveLifetime
<1>18. ASSUME ApplyLifetime PROVE AsksForShown'
  BY <1>18 DEF ApplyLifetime
<1>19. ASSUME ChangeAccount PROVE AsksForShown'
  BY <1>19 DEF ChangeAccount
<1>20. ASSUME LockExpires PROVE AsksForShown'
  BY <1>20 DEF LockExpires
<1>21. ASSUME Restart PROVE AsksForShown'
  <2>1. shown' # None => shown # None /\ shown'.card = shown.card
    BY <1>21, CodeKept DEF Restart, Lost
  <2>2. ASSUME NEW r \in Requests, OfPage(r)' PROVE OfPage(r) /\ req'[r].card = req[r].card
    BY <1>21, <2>2 DEF Restart
  <2> QED BY <1>21, <2>1, <2>2 DEF Restart
<1>22. ASSUME Unlock PROVE AsksForShown'
  BY <1>22 DEF Unlock, LeftIsLeft
<1>23. ASSUME Hold PROVE AsksForShown'
  BY <1>23 DEF Hold
<1>24. ASSUME Status PROVE AsksForShown'
  BY <1>24 DEF Status
<1>25. ASSUME Tick PROVE AsksForShown'
  <2>1. shown' # None => shown # None /\ shown'.card = shown.card
    BY <1>25, CodeKept DEF Tick, Older
  <2>2. ASSUME NEW r \in Requests, OfPage(r)' PROVE OfPage(r) /\ req'[r].card = req[r].card
    BY <1>25, <2>2 DEF Tick
  <2> QED BY <1>25, <2>1, <2>2 DEF Tick
<1>26. ASSUME NextDay PROVE AsksForShown'
  BY <1>26 DEF NextDay
<1>27. CASE UNCHANGED vars
  BY <1>27 DEF vars, OfPage
<1> QED
  BY <1>1, <1>2, <1>3, <1>4, <1>5, <1>6, <1>7, <1>8, <1>9, <1>10, <1>11, <1>12, <1>13, <1>14, <1>15, <1>16, <1>17, <1>18, <1>19, <1>20, <1>21, <1>22, <1>23, <1>24, <1>25, <1>26, <1>27 DEF Next, Server, Client

\* A verification sees its card good whenever it is.
LEMMA SeenStep == Typed /\ AnswersOwnCard /\ SeenGood /\ [Next]_vars => SeenGood'
<1> SUFFICES ASSUME Typed, AnswersOwnCard, SeenGood, [Next]_vars PROVE SeenGood'
  OBVIOUS
<1> USE DEF SeenGood, Busy, At, Go, Drop, Ask, Idle, cards, lifetime, screen, Typed, Verification, NoScan, Good
<1>1. ASSUME NEW r \in Requests, Read(r) PROVE SeenGood'
  BY <1>1 DEF Read
<1>2. ASSUME NEW r \in Requests, Put(r) PROVE SeenGood'
  BY <1>2 DEF Put
<1>3. ASSUME NEW r \in Requests, Fire(r) PROVE SeenGood'
  BY <1>3 DEF Fire
<1>4. ASSUME NEW r \in Requests, ListRefused(r) PROVE SeenGood'
  BY <1>4 DEF ListRefused
<1>5. ASSUME NEW r \in Requests, ListReplaces(r) PROVE SeenGood'
  BY <1>5 DEF ListReplaces
<1>6. ASSUME NEW r \in Requests, ListAnswered(r) PROVE SeenGood'
  BY <1>6 DEF ListAnswered
<1>7. ASSUME NEW r \in Requests, Answered(r) PROVE SeenGood'
  BY <1>7 DEF Answered
<1>8. ASSUME NEW r \in Requests, Failed(r) PROVE SeenGood'
  BY <1>8 DEF Failed
<1>9. ASSUME NEW r \in Requests, HoldAdmin(r) PROVE SeenGood'
  BY <1>9 DEF HoldAdmin, AnswersOwnCard
<1>10. ASSUME NEW r \in Requests, Pull(r) PROVE SeenGood'
  BY <1>10 DEF Pull
<1>11. ASSUME NEW r \in Requests, AdminQr(r) PROVE SeenGood'
  BY <1>11 DEF AdminQr
<1>12. ASSUME NEW r \in Requests, Lose(r) PROVE SeenGood'
  BY <1>12 DEF Lose
<1>13. ASSUME NEW r \in Requests, DeviceUnlock(r) PROVE SeenGood'
  BY <1>13 DEF DeviceUnlock
<1>14. ASSUME NEW c \in Cards, Select(c) PROVE SeenGood'
  BY <1>14 DEF Select
<1>15. ASSUME NEW c \in Cards, Scan(c) PROVE SeenGood'
  <2>1. CASE Resolves(scan.code, c) /\ scan' = [scan EXCEPT !.step = "status", !.uuid = c, !.could = Good(c)]
    <3>1. scan'.step = "status" /\ scan'.uuid = c /\ scan'.could = Good(c)
          /\ scan'.code = scan.code /\ scan'.valid = scan.valid
      BY <2>1
    <3>2. Good(c)' = Good(c)
      BY <1>15 DEF Scan
    <3> QED BY <1>15, <2>1, <3>1, <3>2 DEF Scan, Resolves
  <2>2. CASE scan' = NoScan
    BY <1>15, <2>2 DEF Scan
  <2> QED BY <1>15, <2>1, <2>2 DEF Scan
<1>16. ASSUME NEW c \in Cards, NEW s \in {"ACTIVE", "BLOCKED", "gone"}, NEW d \in 0..MaxDay, ChangeCard(c, s, d) PROVE SeenGood'
  BY <1>16 DEF ChangeCard
<1>17. ASSUME NEW t \in Lifetimes, SaveLifetime(t) PROVE SeenGood'
  BY <1>17 DEF SaveLifetime
<1>18. ASSUME ApplyLifetime PROVE SeenGood'
  BY <1>18 DEF ApplyLifetime
<1>19. ASSUME ChangeAccount PROVE SeenGood'
  <2>1. scan' = [scan EXCEPT !.could = scan.could \/ (deleted /\ scan.uuid # None /\ card[scan.uuid].status = "ACTIVE")]
    BY <1>19 DEF ChangeAccount
  <2>2. CASE scan.step # "status"
    BY <1>19, <2>1, <2>2 DEF ChangeAccount
  <2>3. CASE scan.step = "status"
    <3>1. scan.code.card = scan.uuid /\ scan.code # None /\ scan.uuid \in Cards /\ ~scan.valid
      BY <2>3
    <3>2. scan.uuid # None
      BY <3>1, NoneAssumption
    <3> QED BY <1>19, <2>1, <2>3, <3>1, <3>2 DEF ChangeAccount
  <2> QED BY <2>2, <2>3
<1>20. ASSUME LockExpires PROVE SeenGood'
  BY <1>20 DEF LockExpires
<1>21. ASSUME Restart PROVE SeenGood'
  BY <1>21, CodeKept DEF Restart
<1>22. ASSUME Unlock PROVE SeenGood'
  BY <1>22 DEF Unlock
<1>23. ASSUME Hold PROVE SeenGood'
  BY <1>23 DEF Hold
<1>24. ASSUME Status PROVE SeenGood'
  BY <1>24 DEF Status, Verdict
<1>25. ASSUME Tick PROVE SeenGood'
  BY <1>25, CodeKept DEF Tick
<1>26. ASSUME NextDay PROVE SeenGood'
  BY <1>26 DEF NextDay
<1>27. CASE UNCHANGED vars
  BY <1>27 DEF vars, Good
<1> QED
  BY <1>1, <1>2, <1>3, <1>4, <1>5, <1>6, <1>7, <1>8, <1>9, <1>10, <1>11, <1>12, <1>13, <1>14, <1>15, <1>16, <1>17, <1>18, <1>19, <1>20, <1>21, <1>22, <1>23, <1>24, <1>25, <1>26, <1>27 DEF Next, Server, Client

LEMMA CodesInit == Init => CodesInv
<1> SUFFICES ASSUME Init PROVE CodesInv
  OBVIOUS
<1>1. \A c \in Cards : card[c] \in Card
  BY CardAssumption DEF Init, Card
<1>2. Typed
  BY <1>1, CardAssumption, LifetimeAssumption
     DEF Init, Typed, Card, Request, Steps, Askers, Idle, Verification, ScanSteps, NoScan
<1>3. AnswersOwnCard /\ LeftIsLeft /\ AsksForShown
  BY DEF Init, AnswersOwnCard, LeftIsLeft, AsksForShown, Busy, At, OfPage, Idle
<1>4. SeenGood
  BY DEF Init, SeenGood, NoScan
<1> QED BY <1>2, <1>3, <1>4 DEF CodesInv

LEMMA CodesStep == CodesInv /\ [Next]_vars => CodesInv'
  BY TypedStep, AnswersStep, LeftStep, AsksStep, SeenStep DEF CodesInv

THEOREM ScreenInvariant == Spec => []CodesInv
  BY CodesInit, CodesStep, PTL DEF Spec

\* The code on the screen is one of the card on the screen: of the pages,
\* pulls, switches and lists of card/page.tsx only a request in flight when
\* the card is switched can show another's, however many requests there are.
THEOREM CodeIsOfShownCard == Spec => []ShownOfCard
<1>1. CodesInv => ShownOfCard
  BY DEF CodesInv, AsksForShown, ShownOfCard
<1> QED BY <1>1, ScreenInvariant, PTL

\* VerifyService.verify never says valid of a card that was not good at any
\* moment since its code was looked up, nor of another card's code, whatever
\* restarts, lifetimes and days come between.
THEOREM ValidCardsWereGood == Spec => []ValidWasGood
<1>1. CodesInv => ValidWasGood
  BY DEF CodesInv, SeenGood, ValidWasGood, Typed, Verification, ScanSteps
<1> QED BY <1>1, ScreenInvariant, PTL
=============================================================================
