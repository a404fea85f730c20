-------------------------- MODULE ProfileKeysProofs -------------------------
(* One profile key in all its places (ProfileKeys), for every number of    *)
(* passwords, keys, codes and handlers.  The key goes from place to place  *)
(* in the hands of a handler: what is proved of the places rests on what   *)
(* the handler in flight may still count on, and on there being one only.  *)
EXTENDS ProfileKeys, TLAPS

Words == Passwords \cup {NoPassword}
Accounts == {"none", "open", "verified"}
Envelopes == [k : Keys, pw : Words]
Kinds == {"idle", "register", "resend", "verify", "google", "create", "enroll", "unlock", "signin",
          "device", "save", "password", "recover", "edit"}
Steps == {"none", "create", "provision", "wrap1", "wrap2", "material", "code", "mail", "confirm",
          "wrong", "link", "account", "profile", "unlock", "session", "seal", "rewrap", "envelope",
          "edit"}
Handler == [kind : Kinds, step : Steps, pw : Words, k : Keys, c : Nat, seen : Accounts]
Faults == {"overlap", "throw", "force", "bare", "reseal"}

\* The steps at which a handler has a key to make.
Making == {"provision", "wrap1", "wrap2", "material"}

Places ==
  /\ account \in Accounts /\ hash \in Words /\ env \in Envelopes
  /\ data \in Keys /\ profile \in Keys /\ rec \in Keys \X Keys /\ sys \in Keys
  /\ session \in Keys /\ device \in Keys
  /\ code \in [id : 0..MaxCode, tries : Nat] /\ mailed \subseteq 0..MaxCode /\ guesses \in Nat
  /\ lastKey \in Keys /\ lastCode \in 0..MaxCode
  /\ mishaps \subseteq Faults /\ begun \in 0..MaxRequests
InCourse(h) == (h.kind = "idle" => h = Idle) /\ (h.step = "mail" => h.c \in 0..MaxCode)
Course == job \in [Jobs -> Handler] /\ \A j \in Jobs : InCourse(job[j])
Types == Places /\ Course

\* As long as no two handlers overlapped there is one in flight at most.
Alone == "overlap" \notin mishaps => \A i, j \in Jobs : Busy(i) /\ Busy(j) => i = j

KeysOK ==
  /\ data = env.k /\ profile \in {0, env.k} /\ sys \in {0, env.k}
  /\ session \in {0, env.k} /\ device \in {0, env.k}
  /\ env.k = 0 => env = NoEnvelope /\ hash = NoPassword
  /\ account = "none" => env.k = 0
  /\ account # "verified" => session = 0 /\ device = 0 /\ (profile # 0 => sys # 0)

\* What the handler in flight holds, by the step it is at.
HoldsOK(h) ==
  /\ h.step \in {"unlock", "profile"} => account = "verified"
  /\ h.step \in {"seal", "session"} /\ h.seen # "open" => account = "verified"
  /\ h.step \in {"seal", "session", "rewrap", "envelope", "edit", "profile"} => h.k = env.k
  /\ h.step \in {"rewrap", "envelope", "edit", "wrap1", "wrap2", "material"} => h.k # 0
  /\ h.step = "edit" => sys # 0
  /\ h.step \in Making => \/ h.kind = "register" /\ account = "open"
                          \/ h.kind = "enroll" /\ account = "verified" /\ env.k = 0

\* The slots are changed one by one, then the envelope.
SlotsOK(h) ==
  /\ h.step = "wrap2" => rec[1] = h.k
  /\ h.step = "material" => rec = <<h.k, h.k>>

KeysInv ==
  mishaps = {} =>
    /\ KeysOK
    /\ \A j \in Jobs : HoldsOK(job[j]) /\ SlotsOK(job[j])
    /\ (\A j \in Jobs : job[j].step \notin {"wrap2", "material"}) => rec = <<env.k, env.k>>

\* The wrong guesses at the code in force are counted, or about to be.
CodeInv ==
  mishaps \cap {"overlap", "throw"} = {} =>
    /\ guesses <= MaxAttempts
    /\ code.id # 0 => guesses <= code.tries \/ \E j \in Jobs : At(j, "wrong") /\ guesses <= code.tries + 1

-----------------------------------------------------------------------------
(* The table of handlers.                                                   *)

Others(j) == \A i \in Jobs \ {j} : job'[i] = job[i]

LEMMA Numbers ==
    /\ 0 \in Keys /\ 0 \in 0..MaxCode /\ 0 \in 0..MaxRequests
    /\ \A n \in Keys : n < MaxKey => n + 1 \in Keys /\ n + 1 # 0
    /\ \A n \in 0..MaxCode : n < MaxCode => n + 1 \in 0..MaxCode
    /\ \A n \in 0..MaxRequests : n < MaxRequests => n + 1 \in 0..MaxRequests
BY BoundAssumption DEF Keys

LEMMA IdleOK ==
    /\ Idle \in Handler /\ InCourse(Idle) /\ Idle.kind = "idle" /\ Idle.step = "none"
    /\ Idle.pw = NoPassword /\ Idle.k = 0 /\ Idle.c = 0 /\ Idle.seen = "none"
BY Numbers DEF Idle, Handler, Kinds, Steps, Words, Accounts, InCourse

LEMMA SetShape ==
    ASSUME Course, NEW j \in Jobs, NEW r \in Handler, InCourse(r), Set(j, r)
    PROVE  Course' /\ Others(j) /\ job'[j] = r
<1>1. job' \in [Jobs -> Handler] /\ job'[j] = r /\ Others(j)
  BY DEF Course, Set, Others
<1>2. QED
  BY <1>1 DEF Course, Others

LEMMA EndShape ==
    ASSUME Course, NEW j \in Jobs, End(j)
    PROVE  Course' /\ Others(j) /\ job'[j] = Idle
BY IdleOK, SetShape DEF End

\* The handler went to step s, with nothing else changed.
Goes(j, s) ==
  /\ Others(j) /\ job'[j].step = s /\ job'[j].kind = job[j].kind
  /\ job'[j].k = job[j].k /\ job'[j].seen = job[j].seen

LEMMA GoShape ==
    ASSUME Course, NEW j \in Jobs, NEW s \in Steps \ {"mail"}, Busy(j), Go(j, s)
    PROVE  Course' /\ Goes(j, s)
<1>1. PICK r : r = [job[j] EXCEPT !.step = s]
  OBVIOUS
<1>2. /\ r \in Handler /\ r.kind = job[j].kind /\ r.step = s
      /\ r.k = job[j].k /\ r.seen = job[j].seen
  BY <1>1 DEF Course, Handler
<1>3. QED
  BY <1>1, <1>2, SetShape DEF Go, Goes, InCourse, Busy

\* A request begins, alone if nothing overlapped afterwards.
Begins(j, k, s, key, seen) ==
  /\ Others(j) /\ job'[j].kind = k /\ job'[j].step = s
  /\ job'[j].k = key /\ job'[j].seen = seen
  /\ mishaps' = IF Quiet THEN mishaps ELSE mishaps \cup {"overlap"}

LEMMA StartShape ==
    ASSUME Course, NEW j \in Jobs, NEW k \in Kinds \ {"idle"}, NEW s \in Steps \ {"mail"},
           NEW h \in Handler, Start(j, k, s, h), mishaps \subseteq Faults, begun \in 0..MaxRequests
    PROVE  Course' /\ Begins(j, k, s, h.k, h.seen) /\ mishaps' \subseteq Faults /\ begun' \in 0..MaxRequests
<1>1. PICK r : r = [h EXCEPT !.kind = k, !.step = s]
  OBVIOUS
<1>2. r \in Handler /\ r.kind = k /\ r.step = s /\ r.k = h.k /\ r.seen = h.seen
  BY <1>1 DEF Handler
<1>3. Course' /\ Others(j) /\ job'[j] = r
  BY <1>1, <1>2, SetShape DEF Start, InCourse
<1>4. mishaps' \subseteq Faults /\ begun' \in 0..MaxRequests
  BY Numbers DEF Start, Faults
<1>5. QED
  BY <1>2, <1>3, <1>4 DEF Start, Begins

LEMMA HandlerAt ==
    ASSUME Types, NEW j \in Jobs
    PROVE  /\ job[j] \in Handler /\ InCourse(job[j])
           /\ job[j].k \in Keys /\ job[j].pw \in Words /\ job[j].c \in Nat /\ job[j].seen \in Accounts
           /\ ~Busy(j) => job[j] = Idle
           /\ job[j].step # "none" => Busy(j)
BY IdleOK DEF Types, Course, Handler, InCourse, Busy

-----------------------------------------------------------------------------
(* What a request's first read does.                                        *)

LEMMA ReadTypes ==
    ASSUME Types, Course', mishaps' \subseteq Faults, begun' \in 0..MaxRequests, Read
    PROVE  Types'
BY DEF Types, Places, Read, keyRows, holders, codes

LEMMA BeginShape ==
    ASSUME Types, Read, NEW j \in Jobs, NEW k \in Kinds \ {"idle"}, NEW s \in Steps \ {"mail"},
           NEW h \in Handler, Start(j, k, s, h)
    PROVE  Types' /\ Begins(j, k, s, h.k, h.seen)
<1>1. Course /\ mishaps \subseteq Faults /\ begun \in 0..MaxRequests
  BY DEF Types, Places
<1>2. QED
  BY <1>1, StartShape, ReadTypes

\* A request that begins, by what it keeps of what it read.
LEMMA PlainShape ==
    ASSUME Types, Read, NEW j \in Jobs, NEW k \in Kinds \ {"idle"}, NEW s \in Steps \ {"mail"},
           Start(j, k, s, Idle)
    PROVE  Types' /\ Begins(j, k, s, 0, "none")
BY IdleOK, StartShape, ReadTypes DEF Types, Places

LEMMA WordShape ==
    ASSUME Types, Read, NEW j \in Jobs, NEW k \in Kinds \ {"idle"}, NEW s \in Steps \ {"mail"}, NEW p \in Words,
           Start(j, k, s, [Idle EXCEPT !.pw = p])
    PROVE  Types' /\ Begins(j, k, s, 0, "none")
<1>1. PICK h : h = [Idle EXCEPT !.pw = p]
  OBVIOUS
<1>2. h \in Handler /\ h.k = 0 /\ h.seen = "none"
  BY <1>1, IdleOK DEF Handler
<1>3. Start(j, k, s, h)
  BY <1>1
<1>4. QED
  BY <1>2, <1>3, BeginShape

LEMMA KeyShape ==
    ASSUME Types, Read, NEW j \in Jobs, NEW k \in Kinds \ {"idle"}, NEW s \in Steps \ {"mail"}, NEW key \in Keys,
           Start(j, k, s, [Idle EXCEPT !.k = key])
    PROVE  Types' /\ Begins(j, k, s, key, "none")
<1>1. PICK h : h = [Idle EXCEPT !.k = key]
  OBVIOUS
<1>2. h \in Handler /\ h.k = key /\ h.seen = "none"
  BY <1>1, IdleOK DEF Handler
<1>3. Start(j, k, s, h)
  BY <1>1
<1>4. QED
  BY <1>2, <1>3, BeginShape

LEMMA WordKeyShape ==
    ASSUME Types, Read, NEW j \in Jobs, NEW k \in Kinds \ {"idle"}, NEW s \in Steps \ {"mail"}, NEW p \in Words,
           NEW key \in Keys, Start(j, k, s, [Idle EXCEPT !.pw = p, !.k = key])
    PROVE  Types' /\ Begins(j, k, s, key, "none")
<1>1. PICK h : h = [Idle EXCEPT !.pw = p, !.k = key]
  OBVIOUS
<1>2. h \in Handler /\ h.k = key /\ h.seen = "none"
  BY <1>1, IdleOK DEF Handler
<1>3. Start(j, k, s, h)
  BY <1>1
<1>4. QED
  BY <1>2, <1>3, BeginShape

\* Each request's first read, as far as keys are concerned.
Reads(j) ==
  \/ account = "none" /\ Begins(j, "register", "create", 0, "none")
  \/ account = "open" /\ Begins(j, "register", "provision", 0, "none")
  \/ Begins(j, "resend", "code", 0, "none") \/ \E a \in Accounts : Begins(j, "google", "link", 0, a)
  \/ Begins(j, "create", "account", 0, "none")
  \/ account = "verified" /\ env = NoEnvelope /\ Begins(j, "enroll", "provision", 0, "none")
  \/ account = "verified" /\ Begins(j, "unlock", "session", env.k, "none")
  \/ account # "none" /\ \E s \in {"seal", "session"} : Begins(j, "signin", s, env.k, account)
  \/ account = "verified" /\ device # 0 /\ data \in {0, device} /\ Begins(j, "device", "session", device, "none")
  \/ account = "verified" /\ session # 0 /\ profile \in {0, session} /\ Begins(j, "save", "profile", session, "none")
  \/ account = "verified" /\ hash # NoPassword /\ Begins(j, "password", "rewrap", env.k, "none")
  \/ account # "none" /\ \E i \in 1..2 : rec[i] # 0 /\ Begins(j, "recover", "envelope", rec[i], "none")
  \/ account # "none" /\ sys # 0 /\ Begins(j, "edit", "edit", sys, "none")

LEMMA RequestShape ==
    ASSUME Types, NEW j \in Jobs, Request(j), ~\E c \in mailed \cup {0} : Verify(j, c)
    PROVE  Types' /\ Reads(j) /\ Read
<1>1. /\ account \in Accounts /\ env.k \in Keys /\ data \in Keys /\ device \in Keys /\ session \in Keys
      /\ rec[1] \in Keys /\ rec[2] \in Keys /\ sys \in Keys
  BY DEF Types, Places, Envelopes
<1>2. ASSUME NEW p \in Words, NEW mail \in BOOLEAN, Edit(j, p, mail)
      PROVE  Types' /\ Reads(j) /\ Read
  <2>1. PICK c \in Nat : c = IF mail THEN 1 ELSE 0
    OBVIOUS
  <2>2. PICK h : h = [Idle EXCEPT !.pw = p, !.k = sys, !.c = c]
    OBVIOUS
  <2>3. h \in Handler /\ h.k = sys /\ h.seen = "none"
    BY <1>1, <2>2, IdleOK DEF Handler
  <2>4. Start(j, "edit", "edit", h) /\ Read
    BY <1>2, <2>1, <2>2 DEF Edit
  <2>5. Types' /\ Begins(j, "edit", "edit", sys, "none")
    BY <2>3, <2>4, BeginShape DEF Kinds, Steps
  <2>6. QED
    BY <1>2, <2>4, <2>5 DEF Edit, Reads
<1>3. CASE Resend(j)
  BY <1>3, PlainShape DEF Resend, Reads, Kinds, Steps
<1>4. CASE Google(j)
  <2>1. PICK h : h = [Idle EXCEPT !.seen = account]
    OBVIOUS
  <2>2. h \in Handler /\ h.k = 0 /\ h.seen = account
    BY <1>1, <2>1, IdleOK DEF Handler
  <2>3. Start(j, "google", "link", h) /\ Read
    BY <1>4, <2>1 DEF Google
  <2>4. Types' /\ Begins(j, "google", "link", 0, account)
    BY <2>2, <2>3, BeginShape DEF Kinds, Steps
  <2>5. QED
    BY <1>1, <2>3, <2>4 DEF Reads
<1>5. CASE DeviceUnlock(j)
  BY <1>1, <1>5, KeyShape DEF DeviceUnlock, Reads, Kinds, Steps
<1>6. CASE SaveProfile(j)
  BY <1>1, <1>6, KeyShape DEF SaveProfile, Reads, Kinds, Steps
<1>7. ASSUME NEW p \in Passwords, Register(j, p) \/ AdminCreate(j, p) \/ Enroll(j, p)
      PROVE  Types' /\ Reads(j) /\ Read
  BY <1>7, WordShape DEF Register, RegistersAgain, AdminCreate, Enroll, Reads, Kinds, Steps, Words
<1>8. ASSUME NEW p \in Passwords, Unlock(j, p)
      PROVE  Types' /\ Reads(j) /\ Read
  BY <1>1, <1>8, KeyShape DEF Unlock, Reads, Kinds, Steps
<1>9. ASSUME NEW p \in Passwords, SignIn(j, p)
      PROVE  Types' /\ Reads(j) /\ Read
  <2>1. PICK h : h = [Idle EXCEPT !.k = env.k, !.seen = account]
    OBVIOUS
  <2>2. h \in Handler /\ h.k = env.k /\ h.seen = account
    BY <1>1, <2>1, IdleOK DEF Handler
  <2>3. PICK s \in {"seal", "session"} : Start(j, "signin", s, h) /\ Read
    BY <1>9, <2>1 DEF SignIn
  <2>4. Types' /\ Begins(j, "signin", s, env.k, account)
    BY <2>2, <2>3, BeginShape DEF Kinds, Steps
  <2>5. QED
    BY <1>9, <2>3, <2>4 DEF SignIn, Reads
<1>10. ASSUME NEW p \in Passwords, ChangePassword(j, p)
       PROVE  Types' /\ Reads(j) /\ Read
  BY <1>1, <1>10, WordKeyShape DEF ChangePassword, Reads, Kinds, Steps, Words
<1>11. ASSUME NEW p \in Passwords, NEW i \in 1..2, Recover(j, i, p)
       PROVE  Types' /\ Reads(j) /\ Read
  <2>1. rec[i] \in Keys
    BY <1>1
  <2>2. Types' /\ Begins(j, "recover", "envelope", rec[i], "none") /\ Read
    BY <1>11, <2>1, WordKeyShape DEF Recover, Kinds, Steps, Words
  <2>3. QED
    BY <1>11, <2>2 DEF Recover, Reads
<1>12. QED
  BY <1>2, <1>3, <1>4, <1>5, <1>6, <1>7, <1>8, <1>9, <1>10, <1>11 DEF Request, Words

-----------------------------------------------------------------------------
(* What the other steps do.                                                 *)

LEMMA SealedType == \A k \in Keys, p \in Words : Sealed(k, p) \in Envelopes /\ Sealed(k, p).k = k /\ Sealed(k, p).pw = p
BY DEF Sealed, Envelopes

LEMMA NoCode == [id |-> 0, tries |-> 0] \in [id : 0..MaxCode, tries : Nat]
BY BoundAssumption

LEMMA StepEnds ==
    ASSUME Types, Places', NEW j \in Jobs, End(j)
    PROVE  Types' /\ Others(j) /\ job'[j] = Idle
BY EndShape DEF Types

LEMMA StepGoes ==
    ASSUME Types, Places', NEW j \in Jobs, NEW s \in Steps \ {"mail"}, Busy(j), Go(j, s)
    PROVE  Types' /\ Goes(j, s)
BY GoShape DEF Types

LEMMA RegisterCreateShape ==
    ASSUME Types, NEW j \in Jobs, RegisterCreate(j)
    PROVE  Types' /\ Goes(j, "code")
<1>1. job[j].pw \in Words /\ Busy(j)
  BY HandlerAt DEF RegisterCreate, At
<1>2. PICK k \in Keys : k = lastKey + 1
  BY Numbers DEF RegisterCreate, Types, Places
<1>3. Places'
  BY <1>1, <1>2, SealedType DEF RegisterCreate, Types, Places, Same, holders, codes, Accounts
<1>4. QED
  BY <1>1, <1>3, StepGoes DEF RegisterCreate, Steps

LEMMA ProvisionShape ==
    ASSUME Types, NEW j \in Jobs, Provision(j)
    PROVE  /\ Types' /\ Others(j) /\ job'[j].kind = job[j].kind /\ job'[j].step = "wrap1"
           /\ job'[j].k = lastKey + 1 /\ job'[j].k # 0
<1>1. job[j] \in Handler /\ Busy(j)
  BY HandlerAt DEF Provision, At
<1>2. lastKey + 1 \in Keys /\ lastKey + 1 # 0
  BY Numbers DEF Provision, Types, Places
<1>3. PICK r : r = [job[j] EXCEPT !.step = "wrap1", !.k = lastKey + 1]
  OBVIOUS
<1>4. r \in Handler /\ r.kind = job[j].kind /\ r.step = "wrap1" /\ r.k = lastKey + 1
  BY <1>1, <1>2, <1>3 DEF Handler, Steps
<1>5. Set(j, r)
  BY <1>3 DEF Provision
<1>6. Course' /\ Others(j) /\ job'[j] = r
  BY <1>1, <1>4, <1>5, SetShape DEF Types, InCourse, Busy
<1>7. Places'
  BY <1>2 DEF Provision, Types, Places, Same, keyRows, holders, codes
<1>8. QED
  BY <1>2, <1>4, <1>6, <1>7 DEF Types

LEMMA WrapSlotShape ==
    ASSUME Types, NEW j \in Jobs, NEW i \in 1..2, WrapSlot(j, i)
    PROVE  /\ Types' /\ Goes(j, IF i = 1 THEN "wrap2" ELSE "material")
           /\ rec'[i] = job[j].k /\ \A o \in 1..2 \ {i} : rec'[o] = rec[o]
<1>1. job[j].k \in Keys /\ Busy(j)
  BY HandlerAt DEF WrapSlot, At
<1>2. rec' \in Keys \X Keys /\ rec'[i] = job[j].k /\ \A o \in 1..2 \ {i} : rec'[o] = rec[o]
  BY <1>1 DEF WrapSlot, Types, Places
<1>3. Places'
  BY <1>2 DEF WrapSlot, Types, Places, Same, keyRows, holders, codes
<1>4. QED
  BY <1>1, <1>2, <1>3, StepGoes DEF WrapSlot, Steps

LEMMA RegisterAgainShape ==
    ASSUME Types, NEW j \in Jobs, RegisterAgain(j)
    PROVE  Types' /\ Goes(j, "code")
<1>1. job[j].pw \in Words /\ job[j].k \in Keys /\ Busy(j)
  BY HandlerAt DEF RegisterAgain, At
<1>2. Places'
  BY <1>1, SealedType DEF RegisterAgain, Types, Places, holders, codes, Faults
<1>3. QED
  BY <1>1, <1>2, StepGoes DEF RegisterAgain, Steps

LEMMA IssueCodeShape ==
    ASSUME Types, NEW j \in Jobs, IssueCode(j)
    PROVE  Types' /\ Goes(j, "mail")
<1>1. job[j] \in Handler /\ Busy(j)
  BY HandlerAt DEF IssueCode, At
<1>2. PICK c \in 0..MaxCode : c = lastCode + 1
  BY Numbers DEF IssueCode, Types, Places
<1>3. PICK r : r = [job[j] EXCEPT !.step = "mail", !.c = c]
  OBVIOUS
<1>4. /\ r \in Handler /\ r.kind = job[j].kind /\ r.step = "mail" /\ r.k = job[j].k
      /\ r.seen = job[j].seen /\ r.c = c
  <2>1. c \in Nat
    BY BoundAssumption
  <2>2. QED
    BY <1>1, <1>3, <2>1 DEF Handler, Steps
<1>5. Set(j, r)
  BY <1>2, <1>3 DEF IssueCode
<1>6. Course' /\ Others(j) /\ job'[j] = r
  BY <1>1, <1>2, <1>4, <1>5, SetShape DEF Types, InCourse, Busy
<1>7. Places'
  BY <1>2 DEF IssueCode, Types, Places, Same, keyRows, holders
<1>8. QED
  BY <1>4, <1>6, <1>7 DEF Types, Goes

LEMMA SendCodeShape ==
    ASSUME Types, NEW j \in Jobs, SendCode(j)
    PROVE  Types' /\ Others(j) /\ job'[j] = Idle
<1>1. job[j].c \in 0..MaxCode
  BY HandlerAt DEF SendCode, At, InCourse
<1>2. Places'
  BY <1>1 DEF SendCode, Types, Places, Same, keyRows, holders
<1>3. QED
  BY <1>2, StepEnds DEF SendCode

LEMMA VerifyShape ==
    ASSUME Types, NEW j \in Jobs, NEW c \in mailed \cup {0}, Verify(j, c)
    PROVE  Types' /\ Begins(j, "verify", IF c = code.id THEN "confirm" ELSE "wrong", 0, "none")
<1>1. PICK s \in Steps \ {"mail"} : s = IF c = code.id THEN "confirm" ELSE "wrong"
  BY DEF Steps
<1>2. Start(j, "verify", s, Idle)
  BY <1>1 DEF Verify
<1>3. Course' /\ Begins(j, "verify", s, 0, "none") /\ mishaps' \subseteq Faults /\ begun' \in 0..MaxRequests
  BY <1>2, IdleOK, StartShape DEF Types, Places, Kinds
<1>4. Places'
  BY <1>3 DEF Verify, Types, Places, keyRows, holders
<1>5. QED
  BY <1>1, <1>3, <1>4 DEF Types

LEMMA WrongCodeShape ==
    ASSUME Types, NEW j \in Jobs, WrongCode(j)
    PROVE  /\ Types' /\ Others(j) /\ job'[j] = Idle
           /\ code'.id = code.id /\ (code.id # 0 => code'.tries = code.tries + 1)
<1>1. /\ code' \in [id : 0..MaxCode, tries : Nat]
      /\ code'.id = code.id /\ (code.id # 0 => code'.tries = code.tries + 1)
  BY DEF WrongCode, Types, Places
<1>2. Places'
  BY <1>1 DEF WrongCode, Types, Places, Same, keyRows, holders
<1>3. QED
  BY <1>1, <1>2, StepEnds DEF WrongCode

LEMMA ConfirmShape ==
    ASSUME Types, NEW j \in Jobs, ConfirmEmail(j) \/ GoogleLink(j)
    PROVE  Types' /\ Others(j) /\ job'[j] = Idle
<1>1. CASE ConfirmEmail(j)
  <2>1. code' \in [id : 0..MaxCode, tries : Nat]
    BY <1>1, NoCode DEF ConfirmEmail
  <2>2. Places'
    BY <1>1, <2>1 DEF ConfirmEmail, Types, Places, Same, keyRows, holders, Accounts
  <2>3. QED
    BY <1>1, <2>2, StepEnds DEF ConfirmEmail
<1>2. CASE GoogleLink(j)
  <2>1. Places'
    BY <1>2 DEF GoogleLink, Types, Places, Same, keyRows, holders, codes, Accounts
  <2>2. QED
    BY <1>2, <2>1, StepEnds DEF GoogleLink
<1>3. QED
  BY <1>1, <1>2

LEMMA AdminCreateShape ==
    ASSUME Types, NEW j \in Jobs, AdminCreateAccount(j)
    PROVE  /\ Types' /\ Others(j) /\ job'[j].kind = job[j].kind /\ job'[j].step = "profile"
           /\ job'[j].k = lastKey + 1 /\ lastKey + 1 # 0
<1>1. job[j] \in Handler /\ Busy(j) /\ job[j].pw \in Words
  BY HandlerAt DEF AdminCreateAccount, At
<1>2. lastKey + 1 \in Keys /\ lastKey + 1 # 0
  BY Numbers DEF AdminCreateAccount, Types, Places
<1>3. PICK r : r = [job[j] EXCEPT !.step = "profile", !.k = lastKey + 1]
  OBVIOUS
<1>4. r \in Handler /\ r.kind = job[j].kind /\ r.step = "profile" /\ r.k = lastKey + 1
  BY <1>1, <1>2, <1>3 DEF Handler, Steps
<1>5. Set(j, r)
  BY <1>3 DEF AdminCreateAccount
<1>6. Course' /\ Others(j) /\ job'[j] = r
  BY <1>1, <1>4, <1>5, SetShape DEF Types, InCourse, Busy
<1>7. Places'
  BY <1>1, <1>2, SealedType DEF AdminCreateAccount, Types, Places, Same, holders, codes, Accounts
<1>8. QED
  BY <1>2, <1>4, <1>6, <1>7 DEF Types

LEMMA EnrollWriteShape ==
    ASSUME Types, NEW j \in Jobs, EnrollWrite(j)
    PROVE  Types' /\ Goes(j, "unlock")
<1>1. job[j].pw \in Words /\ job[j].k \in Keys /\ Busy(j)
  BY HandlerAt DEF EnrollWrite, At
<1>2. Places'
  BY <1>1, SealedType DEF EnrollWrite, Types, Places, Same, holders, codes
<1>3. QED
  BY <1>1, <1>2, StepGoes DEF EnrollWrite, Steps

LEMMA ReadEnvelopeShape ==
    ASSUME Types, NEW j \in Jobs, ReadEnvelope(j)
    PROVE  /\ Types' /\ Others(j)
           /\ \/ job'[j] = Idle
              \/ /\ job'[j].kind = job[j].kind /\ job'[j].step = "session" /\ job'[j].k = env.k
                 /\ job'[j].seen = job[j].seen
<1>1. job[j] \in Handler /\ Busy(j) /\ env.k \in Keys
  BY HandlerAt DEF ReadEnvelope, At, Types, Places, Envelopes
<1>2. PICK r : r = [job[j] EXCEPT !.step = "session", !.k = env.k]
  OBVIOUS
<1>3. /\ r \in Handler /\ r.kind = job[j].kind /\ r.step = "session" /\ r.k = env.k
      /\ r.seen = job[j].seen
  BY <1>1, <1>2 DEF Handler, Steps
<1>4. Set(j, r) \/ End(j)
  BY <1>2 DEF ReadEnvelope
<1>5. Course' /\ Others(j) /\ job'[j] \in {r, Idle}
  BY <1>1, <1>3, <1>4, SetShape, EndShape DEF Types, InCourse, Busy
<1>6. Types'
  BY <1>5 DEF ReadEnvelope, Types, Places, Read, Same, keyRows, holders, codes
<1>7. QED
  BY <1>3, <1>5, <1>6

LEMMA SealShape ==
    ASSUME Types, NEW j \in Jobs, SealForSystem(j)
    PROVE  Types' /\ Goes(j, "session")
<1>1. job[j].k \in Keys /\ Busy(j)
  BY HandlerAt DEF SealForSystem, At
<1>2. Places'
  BY <1>1 DEF SealForSystem, Types, Places, Same, holders, codes
<1>3. QED
  BY <1>1, <1>2, StepGoes DEF SealForSystem, Steps

LEMMA EndsShape ==
    ASSUME Types, NEW j \in Jobs,
           OpenSession(j) \/ WriteProfile(j) \/ ChangePasswordWrite(j) \/ RecoverWrite(j)
             \/ EditWrite(j) \/ Throw(j)
    PROVE  Types' /\ Others(j) /\ job'[j] = Idle
<1>1. job[j].pw \in Words /\ job[j].k \in Keys /\ 0 \in Keys
  BY HandlerAt, Numbers
<1>2. CASE OpenSession(j) \/ WriteProfile(j) \/ Throw(j)
  <2>1. Places'
    BY <1>1, <1>2 DEF OpenSession, WriteProfile, Throw, Types, Places, Same, keyRows, holders, codes, Faults
  <2>2. QED
    BY <1>2, <2>1, StepEnds DEF OpenSession, WriteProfile, Throw
<1>3. CASE RecoverWrite(j) \/ EditWrite(j)
  <2>1. /\ env' \in Envelopes /\ hash' \in Words /\ data' \in Keys /\ profile' \in Keys
        /\ session' \in Keys /\ device' = device
    BY <1>1, <1>3, SealedType DEF RecoverWrite, EditWrite, Types, Places, holders
  <2>2. Places'
    BY <1>3, <2>1 DEF RecoverWrite, EditWrite, Types, Places, Same, codes
  <2>3. QED
    BY <1>3, <2>2, StepEnds DEF RecoverWrite, EditWrite
<1>4. CASE ChangePasswordWrite(j)
  <2>1. PICK k \in Keys : k = IF job[j].k = 0 THEN lastKey + 1 ELSE job[j].k
    BY <1>4 DEF ChangePasswordWrite
  <2>2. Places'
    BY <1>1, <1>4, <2>1, SealedType DEF ChangePasswordWrite, Types, Places, Same, holders, codes
  <2>3. QED
    BY <1>4, <2>2, StepEnds DEF ChangePasswordWrite
<1>5. QED
  BY <1>2, <1>3, <1>4

LEMMA ToolsShape ==
    ASSUME Types, NEW p \in Passwords, ResetPassword(p) \/ ForceReprovision(p)
    PROVE  Types' /\ job' = job
<1>1. p \in Words
  BY DEF Words
<1>2. CASE ResetPassword(p)
  <2>1. env' \in Envelopes
    BY <1>1, <1>2 DEF ResetPassword, Types, Places, Envelopes
  <2>2. QED
    BY <1>1, <1>2, <2>1 DEF ResetPassword, Types, Places, Course, holders, codes, Accounts, Faults
<1>3. CASE ForceReprovision(p)
  <2>1. PICK k \in Keys : k = lastKey + 1
    BY <1>3, Numbers DEF ForceReprovision, Types, Places
  <2>2. QED
    BY <1>1, <1>3, <2>1, SealedType DEF ForceReprovision, Types, Places, Course, holders, codes, Accounts, Faults
<1>4. QED
  BY <1>2, <1>3

LEMMA PlacesShape ==
    ASSUME Types, ExpireCode \/ RememberDevice \/ EndSession
    PROVE  Types' /\ job' = job
<1>1. job' = job /\ Course
  BY DEF ExpireCode, RememberDevice, EndSession, Types
<1>2. Course'
  BY <1>1 DEF Course
<1>3. CASE ExpireCode
  <2>1. code' \in [id : 0..MaxCode, tries : Nat]
    BY <1>3, NoCode DEF ExpireCode
  <2>2. QED
    BY <1>1, <1>2, <1>3, <2>1 DEF ExpireCode, Types, Places, Same, keyRows, holders
<1>4. CASE RememberDevice
  BY <1>1, <1>2, <1>4 DEF RememberDevice, Types, Places, Same, keyRows, codes
<1>5. CASE EndSession
  BY <1>1, <1>2, <1>5, Numbers DEF EndSession, Types, Places, Same, keyRows, codes
<1>6. QED
  BY <1>3, <1>4, <1>5

-----------------------------------------------------------------------------
(* One handler in flight.                                                   *)

Sole(j) == "overlap" \notin mishaps' => \A i \in Jobs \ {j} : job'[i] = Idle

LEMMA StepSole ==
    ASSUME Types, Alone, NEW j \in Jobs, Busy(j), Others(j), mishaps \subseteq mishaps'
    PROVE  Sole(j) /\ Alone'
<1>1. Sole(j)
  BY HandlerAt DEF Alone, Sole, Others
<1>2. QED
  BY <1>1, IdleOK DEF Alone, Sole, Busy

LEMMA BeginSole ==
    ASSUME Types, Alone, NEW j \in Jobs, NEW k, NEW s, NEW key, NEW seen, Begins(j, k, s, key, seen)
    PROVE  /\ Sole(j) /\ Alone'
           /\ "overlap" \notin mishaps' => Quiet /\ mishaps' = mishaps
<1>1. "overlap" \notin mishaps' => Quiet /\ mishaps' = mishaps
  BY DEF Begins
<1>2. Sole(j)
  BY <1>1, HandlerAt DEF Begins, Sole, Others, Quiet
<1>3. QED
  BY <1>1, <1>2, IdleOK DEF Alone, Sole, Busy

\* What the handler in flight may count on.
LEMMA KeysBefore ==
    ASSUME Types, Alone, KeysInv, NEW j \in Jobs, Busy(j), mishaps = {}
    PROVE  /\ KeysOK /\ HoldsOK(job[j]) /\ SlotsOK(job[j])
           /\ job[j].step \notin {"wrap2", "material"} => rec = <<env.k, env.k>>
<1>1. \A i \in Jobs \ {j} : job[i].step = "none"
  BY HandlerAt, IdleOK DEF Alone
<1>2. QED
  BY <1>1 DEF KeysInv

LEMMA KeysQuiet ==
    ASSUME Types, KeysInv, Quiet, mishaps = {}
    PROVE  KeysOK /\ rec = <<env.k, env.k>>
BY HandlerAt, IdleOK DEF KeysInv, Quiet

\* What it must leave behind.
LEMMA KeysMoved ==
    ASSUME NEW j \in Jobs, Sole(j),
           mishaps' = {} => /\ KeysOK' /\ HoldsOK(job[j])' /\ SlotsOK(job[j])'
                            /\ job'[j].step \notin {"wrap2", "material"} => rec' = <<env'.k, env'.k>>
    PROVE  KeysInv'
<1>1. HoldsOK(Idle)' /\ SlotsOK(Idle)'
  BY IdleOK DEF HoldsOK, SlotsOK, Making
<1>2. QED
  BY <1>1 DEF KeysInv, Sole

LEMMA NoKey == NoEnvelope.k = 0 /\ NoEnvelope.pw = NoPassword
BY DEF NoEnvelope, Sealed

LEMMA ReadsKeys ==
    ASSUME Types, Types', Alone, KeysInv, NEW j \in Jobs, Read, Reads(j)
    PROVE  KeysInv' /\ Alone'
<1>1. PICK k, st, key, seen : Begins(j, k, st, key, seen)
  BY DEF Reads
<1>2. Sole(j) /\ Alone' /\ (mishaps' = {} => Quiet /\ mishaps = {})
  BY <1>1, BeginSole
<1>3. ASSUME mishaps' = {}
      PROVE  KeysOK /\ rec = <<env.k, env.k>> /\ rec[1] = env.k /\ rec[2] = env.k
  BY <1>2, <1>3, KeysQuiet
<1>4. UNCHANGED <<account, hash, env, data, sys, profile, rec, session, device>>
  BY DEF Read, keyRows, holders
<1>5. ASSUME mishaps' = {}
      PROVE  HoldsOK(job[j])' /\ job'[j].step \notin {"wrap2", "material"}
  BY <1>3, <1>4, <1>5, NoKey DEF Reads, Begins, HoldsOK, KeysOK, Making, Types, Places, Accounts
<1>6. mishaps' = {} => KeysOK' /\ rec' = <<env'.k, env'.k>>
  BY <1>3, <1>4 DEF KeysOK
<1>7. mishaps' = {} => SlotsOK(job[j])'
  BY <1>5 DEF SlotsOK
<1>8. QED
  BY <1>2, <1>5, <1>6, <1>7, KeysMoved

LEMMA VerifyKeys ==
    ASSUME Types, Types', Alone, KeysInv, NEW j \in Jobs, NEW c \in mailed \cup {0}, Verify(j, c)
    PROVE  KeysInv' /\ Alone'
<1>1. PICK st \in {"confirm", "wrong"} : Begins(j, "verify", st, 0, "none")
  BY VerifyShape
<1>2. Sole(j) /\ Alone' /\ (mishaps' = {} => Quiet /\ mishaps = {})
  BY <1>1, BeginSole
<1>3. mishaps' = {} => KeysOK /\ rec = <<env.k, env.k>>
  BY <1>2, KeysQuiet
<1>4. UNCHANGED <<account, hash, env, data, sys, profile, rec, session, device>>
  BY DEF Verify, keyRows, holders
<1>5. mishaps' = {} => KeysOK' /\ rec' = <<env'.k, env'.k>>
  BY <1>3, <1>4 DEF KeysOK
<1>6. HoldsOK(job[j])' /\ SlotsOK(job[j])'
  BY <1>1 DEF Begins, HoldsOK, SlotsOK, Making
<1>7. QED
  BY <1>2, <1>5, <1>6, KeysMoved

\* A step of the handler in flight, and what it may count on.
LEMMA StepKeys ==
    ASSUME Types, Alone, KeysInv, NEW j \in Jobs, job[j].step # "none", Others(j), mishaps \subseteq mishaps',
           /\ mishaps' = {} /\ KeysOK /\ HoldsOK(job[j]) /\ SlotsOK(job[j])
           /\ job[j].step \notin {"wrap2", "material"} => rec = <<env.k, env.k>>
           => /\ KeysOK' /\ HoldsOK(job[j])' /\ SlotsOK(job[j])'
              /\ job'[j].step \notin {"wrap2", "material"} => rec' = <<env'.k, env'.k>>
    PROVE  KeysInv' /\ Alone'
<1>1. Busy(j)
  BY HandlerAt
<1>2. Sole(j) /\ Alone'
  BY <1>1, StepSole
<1>3. QED
  BY <1>1, <1>2, KeysBefore, KeysMoved

-----------------------------------------------------------------------------
(* The steps, key by key.                                                   *)

\* Slots, envelope and account data get the new key in one transaction.
LEMMA RegisterCreateKeys ==
    ASSUME Types, Alone, KeysInv, NEW j \in Jobs, RegisterCreate(j)
    PROVE  KeysInv' /\ Alone'
<1>1. Goes(j, "code")
  BY RegisterCreateShape
<1>2. PICK k \in Keys : k = lastKey + 1 /\ k # 0
  BY Numbers DEF RegisterCreate, Types, Places
<1>3. /\ job[j].step = "create" /\ account = "none" /\ account' = "open" /\ mishaps' = mishaps
      /\ env'.k = k /\ data' = k /\ rec' = <<k, k>>
      /\ UNCHANGED <<profile, sys, session, device>>
  BY <1>2, HandlerAt, SealedType DEF RegisterCreate, At, Same, holders
<1>4. ASSUME KeysOK
      PROVE  KeysOK' /\ HoldsOK(job[j])' /\ SlotsOK(job[j])'
  BY <1>1, <1>2, <1>3, <1>4 DEF KeysOK, HoldsOK, SlotsOK, Making, Goes
<1>5. QED
  BY <1>1, <1>3, <1>4, StepKeys DEF Goes

LEMMA ProvisionKeys ==
    ASSUME Types, Alone, KeysInv, NEW j \in Jobs, Provision(j)
    PROVE  KeysInv' /\ Alone'
<1>1. /\ Others(j) /\ job'[j].kind = job[j].kind /\ job'[j].step = "wrap1" /\ job'[j].k # 0
  BY ProvisionShape
<1>2. /\ job[j].step = "provision"
      /\ UNCHANGED <<account, hash, env, data, sys, profile, rec, session, device, mishaps>>
  BY DEF Provision, At, Same, keyRows, holders
<1>3. ASSUME KeysOK, HoldsOK(job[j])
      PROVE  KeysOK' /\ HoldsOK(job[j])' /\ SlotsOK(job[j])'
  BY <1>1, <1>2, <1>3 DEF KeysOK, HoldsOK, SlotsOK, Making
<1>4. QED
  BY <1>1, <1>2, <1>3, StepKeys

LEMMA WrapSlotKeys ==
    ASSUME Types, Alone, KeysInv, NEW j \in Jobs, NEW i \in 1..2, WrapSlot(j, i)
    PROVE  KeysInv' /\ Alone'
<1>1. /\ Goes(j, IF i = 1 THEN "wrap2" ELSE "material")
      /\ rec'[i] = job[j].k /\ \A o \in 1..2 \ {i} : rec'[o] = rec[o]
      /\ rec' \in Keys \X Keys
  BY WrapSlotShape DEF Types, Places
<1>2. /\ job[j].step = IF i = 1 THEN "wrap1" ELSE "wrap2"
      /\ UNCHANGED <<account, hash, env, data, sys, profile, session, device, mishaps>>
  BY DEF WrapSlot, At, Same, keyRows, holders
<1>3. ASSUME KeysOK, HoldsOK(job[j]), SlotsOK(job[j])
      PROVE  KeysOK' /\ HoldsOK(job[j])' /\ SlotsOK(job[j])'
  <2>1. KeysOK' /\ HoldsOK(job[j])'
    BY <1>1, <1>2, <1>3 DEF KeysOK, HoldsOK, Making, Goes
  <2>2. CASE i = 1
    BY <1>1, <1>2, <2>1, <2>2 DEF SlotsOK, Goes
  <2>3. CASE i = 2
    <3>1. rec'[1] = job[j].k /\ rec'[2] = job[j].k
      BY <1>1, <1>2, <1>3, <2>3 DEF SlotsOK
    <3>2. rec' = <<job[j].k, job[j].k>>
      BY <1>1, <3>1
    <3>3. QED
      BY <1>1, <2>1, <2>3, <3>2 DEF SlotsOK, Goes
  <2>4. QED
    BY <2>1, <2>2, <2>3
<1>4. QED
  BY <1>1, <1>2, <1>3, StepKeys DEF Goes

\* Registering again gives the account another key, which nobody was given yet.
LEMMA RegisterAgainKeys ==
    ASSUME Types, Alone, KeysInv, NEW j \in Jobs, RegisterAgain(j)
    PROVE  KeysInv' /\ Alone'
<1>1. Goes(j, "code")
  BY RegisterAgainShape
<1>2. /\ job[j].step = "material" /\ job[j].kind = "register" /\ mishaps \subseteq mishaps'
      /\ mishaps' = {} => mishaps = {} /\ sys = 0
      /\ env'.k = job[j].k /\ data' = job[j].k
      /\ UNCHANGED <<account, profile, sys, rec, session, device>>
  BY HandlerAt, SealedType DEF RegisterAgain, At, holders
<1>3. ASSUME KeysOK, HoldsOK(job[j]), SlotsOK(job[j]), sys = 0
      PROVE  KeysOK' /\ HoldsOK(job[j])' /\ SlotsOK(job[j])' /\ rec' = <<env'.k, env'.k>>
  BY <1>1, <1>2, <1>3 DEF KeysOK, HoldsOK, SlotsOK, Making, Goes
<1>4. QED
  BY <1>1, <1>2, <1>3, StepKeys DEF Goes

LEMMA CodeKeys ==
    ASSUME Types, Alone, KeysInv, NEW j \in Jobs, IssueCode(j) \/ SendCode(j) \/ WrongCode(j)
    PROVE  KeysInv' /\ Alone'
<1>1. Others(j) /\ job'[j].step \in {"mail", "none"}
  BY IssueCodeShape, SendCodeShape, WrongCodeShape, IdleOK DEF Goes
<1>2. /\ job[j].step \in {"code", "mail", "wrong"}
      /\ UNCHANGED <<account, hash, env, data, sys, profile, rec, session, device, mishaps>>
  BY DEF IssueCode, SendCode, WrongCode, At, Same, keyRows, holders
<1>3. ASSUME KeysOK
      PROVE  KeysOK' /\ HoldsOK(job[j])' /\ SlotsOK(job[j])'
  BY <1>1, <1>2, <1>3 DEF KeysOK, HoldsOK, SlotsOK, Making
<1>4. QED
  BY <1>1, <1>2, <1>3, StepKeys

LEMMA ConfirmKeys ==
    ASSUME Types, Alone, KeysInv, NEW j \in Jobs, ConfirmEmail(j) \/ GoogleLink(j)
    PROVE  KeysInv' /\ Alone'
<1>1. Others(j) /\ job'[j].step = "none"
  BY ConfirmShape, IdleOK
<1>2. /\ job[j].step \in {"confirm", "link"} /\ account' = "verified"
      /\ UNCHANGED <<hash, env, data, sys, profile, rec, session, device, mishaps>>
  BY DEF ConfirmEmail, GoogleLink, At, Same, keyRows, holders
<1>3. ASSUME KeysOK
      PROVE  KeysOK' /\ HoldsOK(job[j])' /\ SlotsOK(job[j])'
  BY <1>1, <1>2, <1>3 DEF KeysOK, HoldsOK, SlotsOK, Making
<1>4. QED
  BY <1>1, <1>2, <1>3, StepKeys

LEMMA AdminCreateKeys ==
    ASSUME Types, Alone, KeysInv, NEW j \in Jobs, AdminCreateAccount(j)
    PROVE  KeysInv' /\ Alone'
<1>1. Others(j) /\ job'[j].step = "profile" /\ job'[j].k = lastKey + 1 /\ lastKey + 1 # 0
  BY AdminCreateShape
<1>2. PICK k \in Keys : k = lastKey + 1
  BY Numbers DEF AdminCreateAccount, Types, Places
<1>3. /\ job[j].step = "account" /\ account = "none" /\ account' = "verified" /\ mishaps' = mishaps
      /\ env'.k = k /\ data' = k /\ sys' = k /\ rec' = <<k, k>>
      /\ UNCHANGED <<profile, session, device>>
  BY <1>2, HandlerAt, SealedType DEF AdminCreateAccount, At, Same, holders
<1>4. ASSUME KeysOK
      PROVE  KeysOK' /\ HoldsOK(job[j])' /\ SlotsOK(job[j])'
  BY <1>1, <1>2, <1>3, <1>4 DEF KeysOK, HoldsOK, SlotsOK, Making
<1>5. QED
  BY <1>1, <1>3, <1>4, StepKeys

LEMMA EnrollWriteKeys ==
    ASSUME Types, Alone, KeysInv, NEW j \in Jobs, EnrollWrite(j)
    PROVE  KeysInv' /\ Alone'
<1>1. Goes(j, "unlock")
  BY EnrollWriteShape
<1>2. /\ job[j].step = "material" /\ job[j].kind = "enroll" /\ mishaps' = mishaps
      /\ env'.k = job[j].k /\ data' = job[j].k /\ sys' = job[j].k
      /\ UNCHANGED <<account, hash, profile, rec, session, device>>
  BY HandlerAt, SealedType DEF EnrollWrite, At, Same, holders
<1>3. ASSUME KeysOK, HoldsOK(job[j]), SlotsOK(job[j])
      PROVE  KeysOK' /\ HoldsOK(job[j])' /\ SlotsOK(job[j])' /\ rec' = <<env'.k, env'.k>>
  BY <1>1, <1>2, <1>3 DEF KeysOK, HoldsOK, SlotsOK, Making, Goes
<1>4. QED
  BY <1>1, <1>2, <1>3, StepKeys DEF Goes

LEMMA ReadEnvelopeKeys ==
    ASSUME Types, Alone, KeysInv, NEW j \in Jobs, ReadEnvelope(j)
    PROVE  KeysInv' /\ Alone'
<1>1. /\ Others(j)
      /\ \/ job'[j].step = "none"
         \/ job'[j].step = "session" /\ job'[j].k = env.k
  BY ReadEnvelopeShape, IdleOK
<1>2. /\ job[j].step = "unlock"
      /\ UNCHANGED <<account, hash, env, data, sys, profile, rec, session, device, mishaps>>
  BY DEF ReadEnvelope, At, Read, Same, keyRows, holders
<1>3. ASSUME KeysOK, HoldsOK(job[j])
      PROVE  KeysOK' /\ HoldsOK(job[j])' /\ SlotsOK(job[j])'
  BY <1>1, <1>2, <1>3 DEF KeysOK, HoldsOK, SlotsOK, Making
<1>4. QED
  BY <1>1, <1>2, <1>3, StepKeys

LEMMA SealKeys ==
    ASSUME Types, Alone, KeysInv, NEW j \in Jobs, SealForSystem(j)
    PROVE  KeysInv' /\ Alone'
<1>1. Goes(j, "session")
  BY SealShape
<1>2. /\ job[j].step = "seal" /\ sys' = job[j].k
      /\ UNCHANGED <<account, hash, env, data, profile, rec, session, device, mishaps>>
  BY DEF SealForSystem, At, Same, holders
<1>3. ASSUME KeysOK, HoldsOK(job[j])
      PROVE  KeysOK' /\ HoldsOK(job[j])' /\ SlotsOK(job[j])'
  BY <1>1, <1>2, <1>3 DEF KeysOK, HoldsOK, SlotsOK, Making, Goes
<1>4. QED
  BY <1>1, <1>2, <1>3, StepKeys DEF Goes

LEMMA OpenSessionKeys ==
    ASSUME Types, Alone, KeysInv, NEW j \in Jobs, OpenSession(j) \/ WriteProfile(j)
    PROVE  KeysInv' /\ Alone'
<1>1. Others(j) /\ job'[j].step = "none"
  BY EndsShape, IdleOK
<1>2. /\ UNCHANGED <<account, hash, env, data, sys, rec, device, mishaps>>
      /\ \/ /\ job[j].step = "session" /\ profile' = profile
            /\ session' = IF job[j].seen = "open" THEN session ELSE job[j].k
         \/ job[j].step = "profile" /\ profile' = job[j].k /\ session' = session
  BY DEF OpenSession, WriteProfile, At, Same, keyRows, holders
<1>3. ASSUME KeysOK, HoldsOK(job[j])
      PROVE  KeysOK' /\ HoldsOK(job[j])' /\ SlotsOK(job[j])'
  BY <1>1, <1>2, <1>3 DEF KeysOK, HoldsOK, SlotsOK, Making
<1>4. QED
  BY <1>1, <1>2, <1>3, StepKeys

\* A new password is put round the key that was read.
LEMMA RewrapKeys ==
    ASSUME Types, Alone, KeysInv, NEW j \in Jobs, ChangePasswordWrite(j) \/ RecoverWrite(j)
    PROVE  KeysInv' /\ Alone'
<1>1. Others(j) /\ job'[j].step = "none"
  BY EndsShape, IdleOK
<1>2. /\ job[j].step \in {"rewrap", "envelope"} /\ session' = 0
      /\ job[j].k # 0 => env'.k = job[j].k
      /\ UNCHANGED <<account, data, sys, profile, rec, device, mishaps>>
  BY HandlerAt, SealedType DEF ChangePasswordWrite, RecoverWrite, At, Same
<1>3. ASSUME KeysOK, HoldsOK(job[j])
      PROVE  KeysOK' /\ HoldsOK(job[j])' /\ SlotsOK(job[j])' /\ env'.k = env.k
  BY <1>1, <1>2, <1>3 DEF KeysOK, HoldsOK, SlotsOK, Making
<1>4. QED
  BY <1>1, <1>2, <1>3, StepKeys

LEMMA EditKeys ==
    ASSUME Types, Alone, KeysInv, NEW j \in Jobs, EditWrite(j)
    PROVE  KeysInv' /\ Alone'
<1>1. Others(j) /\ job'[j].step = "none"
  BY EndsShape, IdleOK
<1>2. /\ job[j].step = "edit" /\ profile' = job[j].k /\ data' \in {data, job[j].k}
      /\ \/ env' = env /\ hash' = hash
         \/ env'.k = job[j].k
      /\ UNCHANGED <<account, sys, rec, session, device, mishaps>>
  BY HandlerAt, SealedType DEF EditWrite, At, Same, holders
<1>3. ASSUME KeysOK, HoldsOK(job[j])
      PROVE  KeysOK' /\ HoldsOK(job[j])' /\ SlotsOK(job[j])' /\ env'.k = env.k
  <2>1. job[j].k = env.k /\ env.k # 0 /\ env'.k = env.k /\ account # "none" /\ sys = env.k
    BY <1>2, <1>3 DEF KeysOK, HoldsOK
  <2>2. QED
    BY <1>1, <1>2, <1>3, <2>1 DEF KeysOK, HoldsOK, SlotsOK, Making
<1>4. QED
  BY <1>1, <1>2, <1>3, StepKeys

LEMMA ThrowKeys ==
    ASSUME Types, Alone, KeysInv, NEW j \in Jobs, Throw(j)
    PROVE  KeysInv' /\ Alone'
<1>1. Others(j) /\ job'[j].step = "none"
  BY EndsShape, IdleOK
<1>2. /\ mishaps \subseteq mishaps'
      /\ mishaps' = {} => job[j].step \notin {"wrap2", "material"}
      /\ UNCHANGED <<account, hash, env, data, sys, profile, rec, session, device>>
  BY DEF Throw, keyRows, holders
<1>3. ASSUME KeysOK
      PROVE  KeysOK' /\ HoldsOK(job[j])' /\ SlotsOK(job[j])'
  BY <1>1, <1>2, <1>3 DEF KeysOK, HoldsOK, SlotsOK, Making
<1>4. Busy(j)
  BY DEF Throw
<1>5. Sole(j) /\ Alone'
  BY <1>1, <1>2, <1>4, StepSole
<1>6. QED
  BY <1>1, <1>2, <1>3, <1>4, <1>5, KeysBefore, KeysMoved

\* No handler moved: the operator's tools, a code expiring, session and device.
LEMMA StillKeys ==
    ASSUME Types, Alone, KeysInv, job' = job, mishaps \subseteq mishaps', rec' = rec,
           mishaps' = {} => /\ KeysOK => KeysOK' /\ env'.k = env.k
                            /\ \A j \in Jobs : HoldsOK(job[j]) => HoldsOK(job[j])'
    PROVE  KeysInv' /\ Alone'
BY DEF KeysInv, Alone, Busy, SlotsOK

LEMMA ToolsKeys ==
    ASSUME Types, Alone, KeysInv, NEW p \in Passwords, ResetPassword(p) \/ ForceReprovision(p)
    PROVE  KeysInv' /\ Alone'
<1>1. job' = job /\ Quiet /\ mishaps \subseteq mishaps' /\ rec' = rec
  BY ToolsShape DEF ResetPassword, ForceReprovision
<1>2. mishaps' = {} => /\ account # "none" /\ account' = "verified" /\ env # NoEnvelope
                       /\ env'.k = env.k
                       /\ UNCHANGED <<data, sys, profile, session, device>>
  BY DEF ResetPassword, ForceReprovision, holders, Types, Places, Envelopes
<1>3. \A j \in Jobs : HoldsOK(job[j])'
  BY <1>1, HandlerAt, IdleOK DEF HoldsOK, Making, Quiet
<1>4. mishaps' = {} /\ KeysOK => KeysOK'
  BY <1>2 DEF KeysOK
<1>5. QED
  BY <1>1, <1>2, <1>3, <1>4, StillKeys

LEMMA PlacesKeys ==
    ASSUME Types, Alone, KeysInv, ExpireCode \/ RememberDevice \/ EndSession
    PROVE  KeysInv' /\ Alone'
<1>1. job' = job /\ UNCHANGED <<mishaps, rec, account, hash, env, data, sys, profile>>
  BY PlacesShape DEF ExpireCode, RememberDevice, EndSession, Same, keyRows
<1>2. session' \in {0, session} /\ device' \in {device, session} /\ (device' = device \/ session # 0)
  BY DEF ExpireCode, RememberDevice, EndSession, holders
<1>3. KeysOK => KeysOK'
  BY <1>1, <1>2 DEF KeysOK
<1>4. \A j \in Jobs : HoldsOK(job[j]) => HoldsOK(job[j])'
  BY <1>1 DEF HoldsOK
<1>5. QED
  BY <1>1, <1>3, <1>4, StillKeys

Inv == Types /\ Alone /\ KeysInv

LEMMA InitInv == Init => Inv
<1>1. SUFFICES ASSUME Init PROVE Inv
  OBVIOUS
<1>2. \A j \in Jobs : job[j] = Idle
  BY <1>1 DEF Init
<1>3. Alone /\ \A j \in Jobs : job[j].step = "none"
  BY <1>2, IdleOK DEF Alone, Busy
<1>4. Course
  BY <1>1, IdleOK DEF Init, Course
<1>5. NoEnvelope \in Envelopes /\ NoPassword \in Words /\ "none" \in Accounts
  BY Numbers, SealedType DEF NoEnvelope, Words, Accounts
<1>6. Places
  BY <1>1, <1>5, NoCode, Numbers DEF Init, Places
<1>7. KeysOK /\ rec = <<env.k, env.k>>
  BY <1>1, NoKey DEF Init, KeysOK
<1>8. \A j \in Jobs : HoldsOK(job[j]) /\ SlotsOK(job[j])
  BY <1>3 DEF HoldsOK, SlotsOK, Making
<1>9. QED
  BY <1>3, <1>4, <1>6, <1>7, <1>8 DEF Inv, Types, KeysInv

LEMMA NextTypes ==
    ASSUME Types, Next
    PROVE  Types'
<1>1. ASSUME NEW j \in Jobs, Request(j)
      PROVE  Types'
  BY <1>1, RequestShape, VerifyShape
<1>2. ASSUME NEW j \in Jobs, Step(j)
      PROVE  Types'
  BY <1>2, RegisterCreateShape, ProvisionShape, RegisterAgainShape, IssueCodeShape, SendCodeShape,
     WrapSlotShape, WrongCodeShape, ConfirmShape, AdminCreateShape, EnrollWriteShape,
     ReadEnvelopeShape, SealShape, EndsShape DEF Step
<1>3. QED
  BY <1>1, <1>2, ToolsShape, PlacesShape DEF Next

LEMMA NextInv == Inv /\ [Next]_vars => Inv'
<1>1. SUFFICES ASSUME Inv, [Next]_vars PROVE Inv'
  OBVIOUS
<1>2. Types /\ Alone /\ KeysInv
  BY <1>1 DEF Inv
<1>3. CASE UNCHANGED vars
  BY <1>2, <1>3 DEF Inv, Types, Places, Course, Alone, Busy, KeysInv, KeysOK, HoldsOK, SlotsOK,
     vars, keyRows, codes, holders
<1>4. ASSUME NEW j \in Jobs, Request(j)
      PROVE  KeysInv' /\ Alone'
  BY <1>2, <1>4, RequestShape, ReadsKeys, VerifyShape, VerifyKeys
<1>5. ASSUME NEW j \in Jobs, Step(j)
      PROVE  KeysInv' /\ Alone'
  BY <1>2, <1>5, RegisterCreateKeys, ProvisionKeys, WrapSlotKeys, RegisterAgainKeys, CodeKeys,
     ConfirmKeys, AdminCreateKeys, EnrollWriteKeys, ReadEnvelopeKeys, SealKeys, OpenSessionKeys,
     RewrapKeys, EditKeys, ThrowKeys DEF Step
<1>6. CASE Next
  BY <1>2, <1>4, <1>5, <1>6, NextTypes, ToolsKeys, PlacesKeys DEF Next, Inv
<1>7. QED
  BY <1>1, <1>3, <1>6

LEMMA AlwaysInv == Spec => []Inv
BY InitInv, NextInv, PTL DEF Spec

\* ProfileKeys!OneKey: unless one of the mishaps was met, envelope, account
\* data, profile and the system's seal are under one key
\* (registration.service.ts, user-key-material.service.ts, me.service.ts).
THEOREM KeysAreOne == Spec => []OneKey
<1>1. Inv => OneKey
  BY DEF Inv, KeysInv, KeysOK, OneKey
<1>2. QED
  BY <1>1, AlwaysInv, PTL

\* ProfileKeys!RecoveryOpensData: between requests both recovery slots hold the
\* account's key (user-key-material.service.ts).
THEOREM RecoveriesOpen == Spec => []RecoveryOpensData
<1>1. Inv => RecoveryOpensData
  BY KeysQuiet DEF Inv, RecoveryOpensData
<1>2. QED
  BY <1>1, AlwaysInv, PTL

-----------------------------------------------------------------------------
(* The key as a Vault: a key that is made is newer than every key in use,   *)
(* and whoever puts it round the account finds no copy of an older one.     *)

Fresh(h) == h.step \in {"wrap1", "wrap2", "material"} => env.k < h.k /\ h.k <= lastKey
FreshInv == mishaps = {} => env.k <= lastKey /\ \A j \in Jobs : Fresh(job[j])

Creates(j) == RegisterCreate(j) \/ AdminCreateAccount(j)
Rekeys(j) == RegisterAgain(j) \/ EnrollWrite(j)

LEMMA KeyNumbers ==
    ASSUME Types
    PROVE  /\ env.k \in Nat /\ lastKey \in Nat /\ 0 <= env.k
           /\ \A j \in Jobs : job[j].k \in Nat
BY HandlerAt, BoundAssumption DEF Types, Places, Envelopes, Keys

LEMMA MishapsGrow == Next => mishaps \subseteq mishaps'
<1>1. ASSUME NEW j \in Jobs, Request(j)
      PROVE  mishaps \subseteq mishaps'
  BY <1>1 DEF Request, Edit, Resend, Google, DeviceUnlock, SaveProfile, Verify, Register,
     AdminCreate, Enroll, Unlock, SignIn, ChangePassword, Recover, Start
<1>2. ASSUME NEW j \in Jobs, Step(j)
      PROVE  mishaps \subseteq mishaps'
  BY <1>2 DEF Step, RegisterCreate, Provision, RegisterAgain, IssueCode, SendCode, WrapSlot,
     WrongCode, ConfirmEmail, GoogleLink, AdminCreateAccount, EnrollWrite, ReadEnvelope,
     SealForSystem, OpenSession, WriteProfile, ChangePasswordWrite, EditWrite, RecoverWrite,
     Throw, Same
<1>3. QED
  BY <1>1, <1>2 DEF Next, ResetPassword, ForceReprovision, ExpireCode, RememberDevice, EndSession, Same

\* A first account, or an account created whole, has no key to replace.
LEMMA CreatesReplace ==
    ASSUME Types, Alone, KeysInv, mishaps' = {}, NEW j \in Jobs, Creates(j)
    PROVE  /\ \A p \in KeyPlaces : KeyAt(p) = 0
           /\ env.k < env'.k /\ env'.k <= lastKey'
           /\ Others(j) /\ job'[j].step \in {"code", "profile"}
<1>1. Others(j) /\ job'[j].step \in {"code", "profile"}
  BY RegisterCreateShape, AdminCreateShape DEF Creates, Goes
<1>2. Busy(j) /\ job[j].pw \in Words /\ mishaps = {} /\ account = "none"
  BY HandlerAt DEF Creates, RegisterCreate, AdminCreateAccount, At, Same
<1>3. KeysOK
  BY <1>2, KeysBefore
<1>4. lastKey \in Nat /\ env'.k = lastKey + 1 /\ lastKey' = lastKey + 1
  BY KeyNumbers DEF Creates, RegisterCreate, AdminCreateAccount, Sealed
<1>5. env.k = 0 /\ profile = 0 /\ sys = 0 /\ session = 0 /\ device = 0
  BY <1>2, <1>3 DEF KeysOK
<1>6. QED
  BY <1>1, <1>4, <1>5 DEF KeyPlaces, KeyAt

\* Enrolment finds no key, and a second registration one nobody was given.
LEMMA RekeysReplace ==
    ASSUME Types, Alone, KeysInv, FreshInv, mishaps' = {}, NEW j \in Jobs, Rekeys(j)
    PROVE  /\ \A p \in KeyPlaces : KeyAt(p) = 0
           /\ env.k < env'.k /\ env'.k <= lastKey'
           /\ Others(j) /\ job'[j].step \in {"code", "unlock"}
<1>1. Others(j) /\ job'[j].step \in {"code", "unlock"}
  BY RegisterAgainShape, EnrollWriteShape DEF Rekeys, Goes
<1>2. /\ Busy(j) /\ mishaps = {} /\ job[j].step = "material"
      /\ \/ job[j].kind = "register" /\ sys = 0
         \/ job[j].kind = "enroll"
  BY HandlerAt DEF Rekeys, RegisterAgain, EnrollWrite, At, Same
<1>3. KeysOK /\ HoldsOK(job[j]) /\ Fresh(job[j])
  BY <1>2, KeysBefore DEF FreshInv
<1>4. env'.k = job[j].k /\ lastKey' = lastKey
  BY DEF Rekeys, RegisterAgain, EnrollWrite, Sealed
<1>5. profile = 0 /\ sys = 0 /\ session = 0 /\ device = 0
  BY <1>2, <1>3 DEF KeysOK, HoldsOK, Making
<1>6. QED
  BY <1>1, <1>2, <1>3, <1>4, <1>5 DEF KeyPlaces, KeyAt, Fresh

\* Nothing else changes the key: whoever wraps it again read it from a place
\* that nobody changes meanwhile.
LEMMA StepKeepsKey ==
    ASSUME Types, Alone, KeysInv, mishaps' = {}, mishaps = {}, NEW j \in Jobs, Step(j),
           ~Creates(j), ~Rekeys(j)
    PROVE  env'.k = env.k
<1>1. CASE ChangePasswordWrite(j) \/ RecoverWrite(j) \/ EditWrite(j)
  <2>1. Busy(j) /\ job[j].step \in {"rewrap", "envelope", "edit"}
    BY <1>1, HandlerAt DEF ChangePasswordWrite, RecoverWrite, EditWrite, At
  <2>2. job[j].k = env.k /\ job[j].k # 0
    BY <2>1, KeysBefore DEF HoldsOK
  <2>3. QED
    BY <1>1, <2>2 DEF ChangePasswordWrite, RecoverWrite, EditWrite, Sealed
<1>2. CASE ~(ChangePasswordWrite(j) \/ RecoverWrite(j) \/ EditWrite(j))
  BY <1>2 DEF Step, Creates, Rekeys, Provision, IssueCode, SendCode, WrapSlot, WrongCode,
     ConfirmEmail, GoogleLink, ReadEnvelope, SealForSystem, OpenSession, WriteProfile, Throw,
     Read, keyRows
<1>3. QED
  BY <1>1, <1>2

LEMMA OthersKeepKey ==
    ASSUME Types, Next, mishaps' = {}, \A j \in Jobs : ~Step(j)
    PROVE  env'.k = env.k /\ lastKey' = lastKey
<1>1. ASSUME NEW j \in Jobs, Request(j)
      PROVE  env' = env /\ lastKey' = lastKey
  BY <1>1 DEF Request, Edit, Resend, Google, DeviceUnlock, SaveProfile, Verify, Register,
     AdminCreate, Enroll, Unlock, SignIn, ChangePassword, Recover, Read, keyRows
<1>2. ASSUME NEW p \in Passwords, ResetPassword(p) \/ ForceReprovision(p)
      PROVE  env'.k = env.k /\ lastKey' = lastKey
  BY <1>2 DEF ResetPassword, ForceReprovision, Types, Places, Envelopes
<1>3. CASE ExpireCode \/ RememberDevice \/ EndSession
  BY <1>3 DEF ExpireCode, RememberDevice, EndSession, keyRows
<1>4. QED
  BY <1>1, <1>2, <1>3 DEF Next

\* What a step leaves fresh, by the handler that took it.
LEMMA FreshMoved ==
    ASSUME NEW j \in Jobs, Sole(j), mishaps' = {} => env'.k <= lastKey' /\ Fresh(job[j])'
    PROVE  FreshInv'
<1>1. Fresh(Idle)'
  BY IdleOK DEF Fresh
<1>2. QED
  BY <1>1 DEF FreshInv, Sole

LEMMA RequestFresh ==
    ASSUME Types, Alone, FreshInv, Next, NEW j \in Jobs, Request(j)
    PROVE  FreshInv'
<1>1. PICK k, s, key, seen : Begins(j, k, s, key, seen) /\ s \notin {"wrap1", "wrap2", "material"}
  BY RequestShape, VerifyShape DEF Reads
<1>2. UNCHANGED <<env, lastKey>>
  BY DEF Request, Edit, Resend, Google, DeviceUnlock, SaveProfile, Verify, Register,
     AdminCreate, Enroll, Unlock, SignIn, ChangePassword, Recover, Read, keyRows
<1>3. Sole(j) /\ (mishaps' = {} => mishaps = {})
  BY <1>1, BeginSole
<1>4. mishaps' = {} => env'.k <= lastKey' /\ Fresh(job[j])'
  BY <1>1, <1>2, <1>3 DEF FreshInv, Fresh, Begins
<1>5. QED
  BY <1>3, <1>4, FreshMoved

\* A key is the newest when it is made, and stays in hand until it is used.
LEMMA StepFresh ==
    ASSUME Types, Alone, KeysInv, FreshInv, Next, NEW j \in Jobs, Step(j)
    PROVE  FreshInv'
<1>1. /\ Others(j)
      /\ \/ job'[j].step \notin {"wrap1", "wrap2", "material"}
         \/ Provision(j) /\ job'[j].k = lastKey + 1
         \/ /\ \E i \in 1..2 : WrapSlot(j, i)
            /\ job[j].step \in {"wrap1", "wrap2"} /\ job'[j].k = job[j].k
  BY RegisterCreateShape, ProvisionShape, RegisterAgainShape, IssueCodeShape, SendCodeShape,
     WrapSlotShape, WrongCodeShape, ConfirmShape, AdminCreateShape, EnrollWriteShape,
     ReadEnvelopeShape, SealShape, EndsShape, IdleOK DEF Step, Goes, WrapSlot, At
<1>2. Busy(j)
  BY HandlerAt, IdleOK DEF Step, RegisterCreate, Provision, RegisterAgain, IssueCode, SendCode,
     WrapSlot, WrongCode, ConfirmEmail, GoogleLink, AdminCreateAccount, EnrollWrite, ReadEnvelope,
     SealForSystem, OpenSession, WriteProfile, ChangePasswordWrite, EditWrite, RecoverWrite, Throw, At
<1>3. Sole(j)
  BY <1>1, <1>2, MishapsGrow, StepSole
<1>4. SUFFICES ASSUME mishaps' = {}
               PROVE  env'.k <= lastKey' /\ Fresh(job[j])'
  BY <1>3, FreshMoved
<1>5. mishaps = {} /\ env.k <= lastKey /\ Fresh(job[j])
  BY <1>4, MishapsGrow DEF FreshInv
<1>6. CASE Creates(j) \/ Rekeys(j)
  BY <1>4, <1>6, CreatesReplace, RekeysReplace DEF Fresh
<1>7. CASE ~Creates(j) /\ ~Rekeys(j)
  <2>1. env'.k = env.k
    BY <1>4, <1>5, <1>7, StepKeepsKey
  <2>2. CASE Provision(j)
    <3>1. lastKey' = lastKey + 1 /\ job'[j].k = lastKey + 1
      BY <2>2, ProvisionShape DEF Provision
    <3>2. QED
      BY <1>5, <2>1, <3>1, KeyNumbers DEF Fresh
  <2>3. CASE ~Provision(j)
    <3>1. lastKey' = lastKey
      <4>1. CASE ChangePasswordWrite(j)
        BY <1>2, <1>5, <4>1, KeysBefore DEF ChangePasswordWrite, At, HoldsOK
      <4>2. QED
        BY <1>7, <2>3, <4>1 DEF Step, Creates, Rekeys, IssueCode, SendCode, WrapSlot, WrongCode,
           ConfirmEmail, GoogleLink, ReadEnvelope, SealForSystem, OpenSession, WriteProfile,
           EditWrite, RecoverWrite, Throw, Read
    <3>2. QED
      BY <1>1, <1>5, <2>1, <2>3, <3>1 DEF Fresh
  <2>4. QED
    BY <2>2, <2>3
<1>8. QED
  BY <1>6, <1>7

LEMMA NextFresh == Inv /\ FreshInv /\ [Next]_vars => FreshInv'
<1>1. SUFFICES ASSUME Inv, FreshInv, [Next]_vars PROVE FreshInv'
  OBVIOUS
<1>2. CASE UNCHANGED vars
  BY <1>1, <1>2 DEF FreshInv, Fresh, vars, keyRows
<1>3. CASE Next /\ \A j \in Jobs : ~Request(j) /\ ~Step(j)
  <2>1. job' = job
    BY <1>1, <1>3, ToolsShape, PlacesShape DEF Next, Inv
  <2>2. mishaps' = {} => env'.k = env.k /\ lastKey' = lastKey /\ mishaps = {}
    BY <1>1, <1>3, OthersKeepKey, MishapsGrow DEF Inv
  <2>3. QED
    BY <1>1, <2>1, <2>2 DEF FreshInv, Fresh
<1>4. QED
  BY <1>1, <1>2, <1>3, RequestFresh, StepFresh DEF Inv

-----------------------------------------------------------------------------

Copies == [p \in KeyPlaces |-> KeyAt(p)]

LEMMA StepsVault ==
    ASSUME Inv, Inv', FreshInv, Next, mishaps' = {}
    PROVE  KeyVault!Replace \/ KeyVault!Copy
<1>1. mishaps = {} /\ Types /\ Alone /\ KeysInv
  BY MishapsGrow DEF Inv
<1>2. KeysOK /\ KeysOK'
  BY <1>1 DEF Inv, KeysInv
<1>3. Copies' \in [KeyPlaces -> {0, env'.k}] /\ data = env.k /\ data' = env'.k
  BY <1>2 DEF KeysOK, Copies, KeyAt, KeyPlaces
<1>4. CASE env'.k = env.k
  BY <1>3, <1>4 DEF KeyVault!Copy, Copies
<1>5. ASSUME NEW j \in Jobs, Creates(j) \/ Rekeys(j)
      PROVE  KeyVault!Replace
  <2>1. (\A p \in KeyPlaces : KeyAt(p) = 0) /\ env.k < env'.k
    BY <1>1, <1>5, CreatesReplace, RekeysReplace
  <2>2. env'.k \in Nat
    BY <1>1, BoundAssumption DEF Inv, Types, Places, Envelopes, Keys
  <2>3. QED
    BY <1>3, <2>1, <2>2 DEF KeyVault!Replace, Copies
<1>6. ASSUME \A j \in Jobs : ~Creates(j) /\ ~Rekeys(j)
      PROVE  env'.k = env.k
  BY <1>1, <1>6, StepKeepsKey, OthersKeepKey
<1>7. QED
  BY <1>4, <1>5, <1>6

\* ProfileKeys!VaultSpec: the handlers and tools that touch an account's key
\* implement Vault. The key is replaced only where no profile, seal, session or
\* device holds a copy of the old one, by one that was never used, with the
\* account's data in the same write (registration.service.ts,
\* encryption-access.service.ts, journalists.service.ts, me.service.ts).
THEOREM ImplementsVault == Spec => VaultSpec
<1>1. Init => KeyVault!Init /\ FreshInv
  <2>1. ASSUME Init
        PROVE  Copies = [p \in KeyPlaces |-> 0] /\ env.k = 0 /\ data = 0 /\ mishaps = {}
    BY <2>1, NoKey DEF Init, Copies, KeyAt, KeyPlaces
  <2>2. ASSUME Init
        PROVE  FreshInv
    BY <2>1, <2>2, IdleOK DEF Init, FreshInv, Fresh
  <2>3. QED
    BY <2>1, <2>2 DEF KeyVault!Init, Copies
<1>2. Inv /\ Inv' /\ FreshInv /\ [Next]_vars
        => [KeyVault!Next]_<<env.k, data, Copies, mishaps # {}>>
  <2>1. SUFFICES ASSUME Inv, Inv', FreshInv, [Next]_vars
                 PROVE  KeyVault!Next \/ UNCHANGED <<env.k, data, Copies, mishaps # {}>>
    OBVIOUS
  <2>2. CASE UNCHANGED vars
    BY <2>2 DEF vars, keyRows, holders, Copies, KeyAt
  <2>3. CASE Next /\ mishaps' = {}
    BY <2>1, <2>3, StepsVault, MishapsGrow DEF KeyVault!Next
  <2>4. CASE mishaps' # {}
    BY <2>4 DEF KeyVault!Next
  <2>5. QED
    BY <2>1, <2>2, <2>3, <2>4
<1>3. QED
  BY <1>1, <1>2, NextFresh, AlwaysInv, PTL
     DEF Spec, VaultSpec, KeyVault!Spec, Copies

-----------------------------------------------------------------------------
(* Guesses: a wrong one is counted before the next is compared.             *)

LEMMA CodeFrame ==
    ASSUME CodeInv, mishaps \subseteq mishaps', UNCHANGED <<code, guesses>>,
           \A i \in Jobs : job[i].step = "wrong" => job'[i].step = "wrong" \/ "throw" \in mishaps'
    PROVE  CodeInv'
BY DEF CodeInv, At

LEMMA RequestCode ==
    ASSUME Types, CodeInv, NEW j \in Jobs, Read, Reads(j), ~Busy(j)
    PROVE  CodeInv'
<1>1. Others(j) /\ mishaps \subseteq mishaps'
  BY DEF Reads, Begins
<1>2. UNCHANGED <<code, guesses>>
  BY DEF Read, codes
<1>3. job[j].step # "wrong"
  BY HandlerAt, IdleOK
<1>4. QED
  BY <1>1, <1>2, <1>3, CodeFrame DEF Others

\* A guess is compared when nothing is in flight: all before it were counted.
LEMMA VerifyCode ==
    ASSUME Types, CodeInv, NEW j \in Jobs, NEW c \in mailed \cup {0}, Verify(j, c)
    PROVE  CodeInv'
<1>1. PICK s \in {"confirm", "wrong"} :
        Begins(j, "verify", s, 0, "none") /\ s = IF c = code.id THEN "confirm" ELSE "wrong"
  BY VerifyShape
<1>2. SUFFICES ASSUME mishaps' \cap {"overlap", "throw"} = {}
               PROVE  CodeInv'
  BY DEF CodeInv
<1>3. Quiet /\ mishaps' = mishaps
  BY <1>1, <1>2 DEF Begins
<1>4. \A i \in Jobs : job[i].step # "wrong"
  BY <1>3, HandlerAt, IdleOK DEF Quiet
<1>5. code.id # 0 /\ code.tries < MaxAttempts /\ code' = code
      /\ guesses' = IF c = code.id THEN guesses ELSE guesses + 1
  BY DEF Verify, AttemptsLeft
<1>6. guesses <= code.tries /\ guesses <= MaxAttempts
  BY <1>2, <1>3, <1>4, <1>5 DEF CodeInv, At
<1>7. guesses \in Nat /\ code.tries \in Nat /\ MaxAttempts \in Nat
  BY AttemptsAssumption DEF Types, Places
<1>8. CASE c = code.id
  BY <1>5, <1>6, <1>8 DEF CodeInv
<1>9. CASE c # code.id
  <2>1. guesses' <= MaxAttempts /\ guesses' <= code'.tries + 1
    BY <1>5, <1>6, <1>7, <1>9
  <2>2. At(j, "wrong")'
    BY <1>1, <1>9 DEF Begins, At
  <2>3. QED
    BY <2>1, <2>2 DEF CodeInv
<1>10. QED
  BY <1>8, <1>9

LEMMA StepCode ==
    ASSUME Types, CodeInv, NEW j \in Jobs, Step(j)
    PROVE  CodeInv'
<1>1. CASE IssueCode(j)
  BY <1>1, AttemptsAssumption DEF IssueCode, CodeInv, Same
<1>2. CASE ConfirmEmail(j)
  BY <1>2 DEF ConfirmEmail, CodeInv, Same
<1>3. CASE WrongCode(j)
  <2>1. /\ code'.id = code.id /\ (code.id # 0 => code'.tries = code.tries + 1)
        /\ guesses' = guesses /\ mishaps' = mishaps
    BY <1>3, WrongCodeShape DEF WrongCode, Same
  <2>2. guesses \in Nat /\ code.tries \in Nat
    BY DEF Types, Places
  <2>3. QED
    BY <2>1, <2>2 DEF CodeInv
<1>4. CASE Throw(j)
  <2>1. Others(j) /\ mishaps \subseteq mishaps' /\ (job[j].step = "wrong" => "throw" \in mishaps')
    BY <1>4, EndsShape DEF Throw
  <2>2. UNCHANGED <<code, guesses>>
    BY <1>4 DEF Throw, codes
  <2>3. QED
    BY <2>1, <2>2, CodeFrame DEF Others
<1>5. CASE ~(IssueCode(j) \/ ConfirmEmail(j) \/ WrongCode(j) \/ Throw(j))
  <2>1. Others(j)
    BY <1>5, RegisterCreateShape, ProvisionShape, RegisterAgainShape, SendCodeShape,
       WrapSlotShape, ConfirmShape, AdminCreateShape, EnrollWriteShape,
       ReadEnvelopeShape, SealShape, EndsShape DEF Step, Goes
  <2>2. /\ job[j].step # "wrong" /\ mishaps \subseteq mishaps'
        /\ UNCHANGED <<code, guesses>>
    BY <1>5 DEF Step, RegisterCreate, Provision, RegisterAgain, SendCode, WrapSlot, GoogleLink,
       AdminCreateAccount, EnrollWrite, ReadEnvelope, SealForSystem, OpenSession, WriteProfile,
       ChangePasswordWrite, EditWrite, RecoverWrite, At, Same, Read, codes
  <2>3. QED
    BY <2>1, <2>2, CodeFrame DEF Others
<1>6. QED
  BY <1>1, <1>2, <1>3, <1>4, <1>5

LEMMA NextCode ==
    ASSUME Types, CodeInv, [Next]_vars
    PROVE  CodeInv'
<1>1. CASE UNCHANGED vars
  BY <1>1 DEF CodeInv, At, vars, codes
<1>2. ASSUME NEW j \in Jobs, Request(j)
      PROVE  CodeInv'
  <2>1. ~Busy(j)
    BY <1>2 DEF Request, Edit, Resend, Google, DeviceUnlock, SaveProfile, Verify, Register,
       AdminCreate, Enroll, Unlock, SignIn, ChangePassword, Recover, Start
  <2>2. QED
    BY <1>2, <2>1, RequestShape, RequestCode, VerifyCode
<1>3. ASSUME NEW p \in Passwords, ResetPassword(p) \/ ForceReprovision(p)
      PROVE  CodeInv'
  <2>1. job' = job /\ mishaps \subseteq mishaps' /\ UNCHANGED <<code, guesses>>
    BY <1>3, ToolsShape DEF ResetPassword, ForceReprovision, codes
  <2>2. QED
    BY <2>1, CodeFrame
<1>4. CASE ExpireCode
  BY <1>4 DEF ExpireCode, CodeInv, Same
<1>5. CASE RememberDevice \/ EndSession
  <2>1. job' = job /\ mishaps' = mishaps /\ UNCHANGED <<code, guesses>>
    BY <1>5 DEF RememberDevice, EndSession, Same, codes
  <2>2. QED
    BY <2>1, CodeFrame
<1>6. QED
  BY <1>1, <1>2, <1>3, <1>4, <1>5, StepCode DEF Next

\* ProfileKeys!GuessesBounded: a code is compared with MaxAttempts wrong ones
\* at most, unless two guesses overlapped or one was not counted
\* (registration.service.ts, verify).
THEOREM GuessesAreBounded == Spec => []GuessesBounded
<1>1. Init => CodeInv
  BY AttemptsAssumption DEF Init, CodeInv
<1>2. Inv /\ CodeInv /\ [Next]_vars => CodeInv'
  BY NextCode DEF Inv
<1>3. CodeInv => GuessesBounded
  BY DEF CodeInv, GuessesBounded
<1>4. QED
  BY <1>1, <1>2, <1>3, AlwaysInv, PTL DEF Spec

=============================================================================
