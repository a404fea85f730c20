---------------------------- MODULE ProfileKeys ----------------------------
(***************************************************************************)
(* One email address, the account that comes to be under it, and the data  *)
(* key of its profile.  The key is stored wrapped under a password (env),  *)
(* sealed to two recovery authorities (rec) and to the system read key     *)
(* (sys); it is held by unlock sessions and a remembered device; and it    *)
(* encrypts the account's data and the journalist's profile.  Every one of *)
(* these places is written by a statement of its own, so they can come to  *)
(* hold different keys.  A key is a number, 0 stands for none.             *)
(*                                                                         *)
(* Modelled: registration with its code and mail, Google sign-in, creation *)
(* by an administrator, enrolment, sign-in, unlocking, a remembered        *)
(* device, password change, recovery, profile editing and the two operator *)
(* tools that rewrite an account's password.                               *)
(***************************************************************************)
EXTENDS Naturals, FiniteSets

CONSTANTS Passwords, NoPassword, Jobs, MaxKey, MaxCode, MaxAttempts, MaxRequests

ASSUME PasswordAssumption == NoPassword \notin Passwords
ASSUME AttemptsAssumption == MaxAttempts \in Nat \ {0}
ASSUME BoundAssumption == MaxKey \in Nat /\ MaxCode \in Nat /\ MaxRequests \in Nat

Keys == 0..MaxKey
\* Key k wrapped with the password pw (passwordKdf and dataKeyEnvelope).
Sealed(k, pw) == [k |-> k, pw |-> pw]
NoEnvelope == Sealed(0, NoPassword)

VARIABLES
  account,   \* "none", "open" (email not confirmed), "verified"
  hash,      \* the password passwordHash belongs to
  env,       \* dataKeyEnvelope: the key and the password that opens it
  data,      \* the key of users.encryptedData
  profile,   \* the key of journalists.encryptedData
  rec,       \* the keys in the two recovery slots
  sys,       \* the key in systemKeyEnvelope
  session,   \* the key of the unlock session
  device,    \* the key a device remembers
  code,      \* the verification row: the code, 0 for none, and its attempts
  mailed,    \* codes that reached the mailbox
  guesses,   \* wrong codes compared with the current code
  lastKey, lastCode,
  job,       \* handlers in flight
  \* What disturbed the account so far: "overlap", handlers overlapped; "throw",
  \* one broke off between two writes; "force", force-reprovision-user threw the
  \* key away; "bare", reset-admin-password gave a password to an account without
  \* a key; "reseal", a new key left the old one sealed for the system.
  mishaps,
  begun      \* requests begun

keyRows == <<env, data, sys>>
codes == <<code, mailed, guesses, lastCode>>
holders == <<session, device>>
vars == <<account, hash, keyRows, profile, rec, holders, codes, lastKey, job, mishaps, begun>>

Idle == [kind |-> "idle", step |-> "none", pw |-> NoPassword, k |-> 0, c |-> 0, seen |-> "none"]
Busy(j) == job[j].kind # "idle"
At(j, s) == job[j].step = s
Set(j, r) == job' = [job EXCEPT ![j] = r]
Go(j, s) == Set(j, [job[j] EXCEPT !.step = s])
End(j) == Set(j, Idle)
Quiet == \A j \in Jobs : ~Busy(j)

Start(j, k, s, r) ==
  /\ ~Busy(j) /\ begun < MaxRequests /\ begun' = begun + 1
  /\ Set(j, [r EXCEPT !.kind = k, !.step = s])
  /\ mishaps' = IF Quiet THEN mishaps ELSE mishaps \cup {"overlap"}

\* What a request's first read changes: nothing but the request.
Read == UNCHANGED <<account, hash, keyRows, profile, rec, holders, codes, lastKey>>
Same == UNCHANGED <<mishaps, begun>>

Init ==
  /\ account = "none" /\ hash = NoPassword
  /\ env = NoEnvelope /\ data = 0 /\ profile = 0 /\ rec = <<0, 0>> /\ sys = 0
  /\ session = 0 /\ device = 0
  /\ code = [id |-> 0, tries |-> 0] /\ mailed = {} /\ guesses = 0
  /\ lastKey = 0 /\ lastCode = 0
  /\ job = [j \in Jobs |-> Idle] /\ mishaps = {} /\ begun = 0

-----------------------------------------------------------------------------
(* Registration.                                                            *)

\* Variant: whoever is there registers again.
AnyAccountAgain == account # "none"

\* An account whose email is confirmed is refused.
RegistersAgain == account = "open"

Register(j, p) ==
  /\ \/ account = "none" /\ Start(j, "register", "create", [Idle EXCEPT !.pw = p])
     \/ RegistersAgain /\ Start(j, "register", "provision", [Idle EXCEPT !.pw = p])
  /\ Read

\* The transaction of a first registration; the email is unique.
RegisterCreate(j) ==
  /\ At(j, "create") /\ account = "none" /\ lastKey < MaxKey
  /\ LET k == lastKey + 1 IN
       /\ env' = Sealed(k, job[j].pw) /\ data' = k /\ rec' = <<k, k>> /\ lastKey' = k
       /\ profile' = profile
  /\ account' = "open" /\ hash' = job[j].pw
  /\ Go(j, "code")
  /\ UNCHANGED <<sys, holders, codes>> /\ Same

\* Variant: the callback is not awaited for an account that has slots.
ProvisionUnwrapped(j) ==
  /\ At(j, "provision") /\ lastKey < MaxKey
  /\ lastKey' = lastKey + 1
  /\ Set(j, [job[j] EXCEPT !.step = IF rec[1] = 0 THEN "wrap1" ELSE "material", !.k = lastKey + 1])
  /\ UNCHANGED <<account, hash, keyRows, profile, rec, holders, codes>> /\ Same

\* provision generates the key; the callback wraps it slot by slot, at once.
Provision(j) ==
  /\ At(j, "provision") /\ lastKey < MaxKey
  /\ lastKey' = lastKey + 1
  /\ Set(j, [job[j] EXCEPT !.step = "wrap1", !.k = lastKey + 1])
  /\ UNCHANGED <<account, hash, keyRows, profile, rec, holders, codes>> /\ Same

WrapSlot(j, i) ==
  /\ At(j, IF i = 1 THEN "wrap1" ELSE "wrap2")
  /\ rec' = [rec EXCEPT ![i] = job[j].k]
  /\ Go(j, IF i = 1 THEN "wrap2" ELSE "material")
  /\ UNCHANGED <<account, hash, keyRows, profile, holders, codes, lastKey>> /\ Same

\* Variant: provision is called without the data to encrypt.
AgainWithoutData(j) ==
  /\ At(j, "material") /\ job[j].kind = "register"
  /\ hash' = job[j].pw /\ env' = Sealed(job[j].k, job[j].pw)
  /\ Go(j, "code")
  /\ UNCHANGED <<account, data, sys, profile, rec, holders, codes, lastKey>> /\ Same

\* The row of the account found earlier gets password, envelope and data.
RegisterAgain(j) ==
  /\ At(j, "material") /\ job[j].kind = "register"
  /\ hash' = job[j].pw /\ env' = Sealed(job[j].k, job[j].pw) /\ data' = job[j].k
  /\ mishaps' = IF sys = 0 THEN mishaps ELSE mishaps \cup {"reseal"}
  /\ Go(j, "code")
  /\ UNCHANGED <<account, sys, profile, rec, holders, codes, lastKey, begun>>

Resend(j) == account = "open" /\ Start(j, "resend", "code", Idle) /\ Read

IssueCode(j) ==
  /\ At(j, "code") /\ lastCode < MaxCode
  /\ code' = [id |-> lastCode + 1, tries |-> 0] /\ lastCode' = lastCode + 1 /\ guesses' = 0
  /\ Set(j, [job[j] EXCEPT !.step = "mail", !.c = lastCode + 1])
  /\ UNCHANGED <<account, hash, keyRows, profile, rec, holders, mailed, lastKey>> /\ Same

SendCode(j) ==
  /\ At(j, "mail")
  /\ mailed' = mailed \cup {job[j].c}
  /\ End(j)
  /\ UNCHANGED <<account, hash, keyRows, profile, rec, holders, code, guesses, lastCode, lastKey>>
  /\ Same

ExpireCode ==
  /\ code.id # 0 /\ code' = [id |-> 0, tries |-> 0]
  /\ UNCHANGED <<account, hash, keyRows, profile, rec, holders, mailed, guesses, lastCode, lastKey, job>>
  /\ Same

\* Variant: the limit is compared with one off.
OneMoreAttempt == code.tries <= MaxAttempts

AttemptsLeft == code.tries < MaxAttempts

\* The code typed is one from the mailbox, or (0) a wrong one.
Verify(j, c) ==
  /\ account = "open" /\ code.id # 0 /\ AttemptsLeft
  /\ Start(j, "verify", IF c = code.id THEN "confirm" ELSE "wrong", Idle)
  /\ guesses' = IF c = code.id THEN guesses ELSE guesses + 1
  /\ UNCHANGED <<account, hash, keyRows, profile, rec, holders, code, mailed, lastCode, lastKey>>

\* The row may carry another code by now, or be gone, which throws.
WrongCode(j) ==
  /\ At(j, "wrong")
  /\ code' = IF code.id # 0 THEN [code EXCEPT !.tries = @ + 1] ELSE code
  /\ End(j)
  /\ UNCHANGED <<account, hash, keyRows, profile, rec, holders, mailed, guesses, lastCode, lastKey>>
  /\ Same

ConfirmEmail(j) ==
  /\ At(j, "confirm") /\ code.id # 0
  /\ account' = "verified" /\ code' = [id |-> 0, tries |-> 0]
  /\ End(j)
  /\ UNCHANGED <<hash, keyRows, profile, rec, holders, mailed, guesses, lastCode, lastKey>> /\ Same

-----------------------------------------------------------------------------
(* Google: an account is found by its email and linked, or created without  *)
(* a key; an administrator creates it whole, and the profile after it.      *)

Google(j) == Start(j, "google", "link", [Idle EXCEPT !.seen = account]) /\ Read

GoogleLink(j) ==
  /\ At(j, "link") /\ (job[j].seen = "none") = (account = "none")
  /\ account' = "verified"
  /\ End(j)
  /\ UNCHANGED <<hash, keyRows, profile, rec, holders, codes, lastKey>> /\ Same

AdminCreate(j, p) ==
  /\ account = "none" /\ Start(j, "create", "account", [Idle EXCEPT !.pw = p]) /\ Read

AdminCreateAccount(j) ==
  /\ At(j, "account") /\ account = "none" /\ lastKey < MaxKey
  /\ LET k == lastKey + 1 IN
       /\ env' = Sealed(k, job[j].pw) /\ data' = k /\ rec' = <<k, k>> /\ sys' = k
       /\ lastKey' = k /\ Set(j, [job[j] EXCEPT !.step = "profile", !.k = k])
  /\ account' = "verified" /\ hash' = job[j].pw
  /\ UNCHANGED <<profile, holders, codes>> /\ Same

-----------------------------------------------------------------------------
(* Enrolment of an account without a key, and whatever opens one.           *)

Enroll(j, p) ==
  /\ account = "verified" /\ env = NoEnvelope /\ data = 0
  /\ Start(j, "enroll", "provision", [Idle EXCEPT !.pw = p]) /\ Read

EnrollWrite(j) ==
  /\ At(j, "material") /\ job[j].kind = "enroll"
  /\ env' = Sealed(job[j].k, job[j].pw) /\ data' = job[j].k /\ sys' = job[j].k
  /\ Go(j, "unlock")
  /\ UNCHANGED <<account, hash, profile, rec, holders, codes, lastKey>> /\ Same

\* The unlock at the end of an enrolment, and the one of its own.
ReadEnvelope(j) ==
  /\ At(j, "unlock")
  /\ IF env.pw = job[j].pw THEN Set(j, [job[j] EXCEPT !.step = "session", !.k = env.k]) ELSE End(j)
  /\ Read /\ Same

Unlock(j, p) ==
  /\ account = "verified" /\ env.pw = p
  /\ Start(j, "unlock", "session", [Idle EXCEPT !.k = env.k]) /\ Read

\* Sign-in opens the envelope with the password and seals the key for the
\* system if it is not, before it asks whether the email is confirmed.
SignIn(j, p) ==
  /\ account # "none" /\ hash = p /\ env.pw = p
  /\ Start(j, "signin", IF sys = 0 THEN "seal" ELSE "session",
           [Idle EXCEPT !.k = env.k, !.seen = account])
  /\ Read

SealForSystem(j) ==
  /\ At(j, "seal")
  /\ sys' = job[j].k
  /\ Go(j, "session")
  /\ UNCHANGED <<account, hash, env, data, profile, rec, holders, codes, lastKey>> /\ Same

OpenSession(j) ==
  /\ At(j, "session")
  /\ session' = IF job[j].seen = "open" THEN session ELSE job[j].k
  /\ End(j)
  /\ UNCHANGED <<account, hash, keyRows, profile, rec, device, codes, lastKey>> /\ Same

RememberDevice ==
  /\ session # 0 /\ device # session /\ device' = session
  /\ UNCHANGED <<account, hash, keyRows, profile, rec, session, codes, lastKey, job>> /\ Same

\* A device key that does not open the data it finds is refused.
DeviceUnlock(j) ==
  /\ account = "verified" /\ device # 0 /\ data \in {0, device}
  /\ Start(j, "device", "session", [Idle EXCEPT !.k = device]) /\ Read

EndSession ==
  /\ session # 0 /\ session' = 0
  /\ UNCHANGED <<account, hash, keyRows, profile, rec, device, codes, lastKey, job>> /\ Same

\* The questionnaire: what is there is decrypted, merged and written whole.
SaveProfile(j) ==
  /\ account = "verified" /\ session # 0 /\ profile \in {0, session}
  /\ Start(j, "save", "profile", [Idle EXCEPT !.k = session]) /\ Read

WriteProfile(j) ==
  /\ At(j, "profile")
  /\ profile' = job[j].k
  /\ End(j)
  /\ UNCHANGED <<account, hash, keyRows, rec, holders, codes, lastKey>> /\ Same

-----------------------------------------------------------------------------
(* A new password for the same key: by its owner, or with a recovery kit,   *)
(* which opens whatever the slot holds.                                     *)

\* An account that has a password and no key is given one, with nothing else.
ChangePassword(j, p) ==
  /\ account = "verified" /\ hash # NoPassword /\ p # hash
  /\ env = NoEnvelope \/ env.pw = hash
  /\ Start(j, "password", "rewrap", [Idle EXCEPT !.pw = p, !.k = env.k]) /\ Read

ChangePasswordWrite(j) ==
  LET fresh == job[j].k = 0
      k == IF fresh THEN lastKey + 1 ELSE job[j].k
  IN /\ At(j, "rewrap") /\ k \in Keys
     /\ hash' = job[j].pw /\ env' = Sealed(k, job[j].pw) /\ session' = 0
     /\ lastKey' = IF fresh THEN k ELSE lastKey
     /\ End(j)
     /\ UNCHANGED <<account, data, sys, profile, rec, device, codes>> /\ Same

Recover(j, i, p) ==
  /\ account # "none" /\ rec[i] # 0
  /\ Start(j, "recover", "envelope", [Idle EXCEPT !.pw = p, !.k = rec[i]]) /\ Read

RecoverWrite(j) ==
  /\ At(j, "envelope")
  /\ env' = Sealed(job[j].k, job[j].pw) /\ session' = 0
  /\ End(j)
  /\ UNCHANGED <<account, hash, data, sys, profile, rec, device, codes, lastKey>> /\ Same

\* An administrator opens the profile with the key sealed for the system, and
\* writes it back whole, with a new email and a new password when given.
Edit(j, p, mail) ==
  /\ account # "none" /\ sys # 0 /\ profile \in {0, sys}
  /\ Start(j, "edit", "edit", [Idle EXCEPT !.pw = p, !.k = sys, !.c = IF mail THEN 1 ELSE 0]) /\ Read

EditWrite(j) ==
  LET k == job[j].k
      p == job[j].pw
  IN /\ At(j, "edit")
     /\ profile' = k /\ data' = IF job[j].c = 1 THEN k ELSE data
     /\ env' = IF p = NoPassword THEN env ELSE Sealed(k, p)
     /\ hash' = IF p = NoPassword THEN hash ELSE p
     /\ End(j)
     /\ UNCHANGED <<account, sys, rec, holders, codes, lastKey>> /\ Same

\* reset-admin-password: the envelope opens with the new password, or with the
\* old one and is wrapped again; the hash follows.
ResetPassword(p) ==
  /\ account # "none" /\ hash # p /\ Quiet
  /\ env' = IF env = NoEnvelope THEN env ELSE [env EXCEPT !.pw = p]
  /\ hash' = p /\ account' = "verified"
  /\ mishaps' = IF env = NoEnvelope THEN mishaps \cup {"bare"} ELSE mishaps
  /\ UNCHANGED <<data, sys, profile, rec, holders, codes, lastKey, job, begun>>

\* force-reprovision-user: a new key, unless it would lose a profile.
ForceReprovision(p) ==
  /\ account # "none" /\ profile = 0 /\ lastKey < MaxKey /\ Quiet
  /\ lastKey' = lastKey + 1
  /\ env' = Sealed(lastKey + 1, p) /\ data' = lastKey + 1 /\ hash' = p /\ account' = "verified"
  /\ mishaps' = mishaps \cup {"force"}
  /\ UNCHANGED <<sys, profile, rec, holders, codes, job, begun>>

\* Any await may throw; what was written stays.
Throw(j) ==
  /\ Busy(j) /\ End(j)
  /\ mishaps' = IF job[j].step \in {"wrap2", "material", "wrong"} THEN mishaps \cup {"throw"} ELSE mishaps
  /\ UNCHANGED <<account, hash, keyRows, profile, rec, holders, codes, lastKey, begun>>

Request(j) ==
  \/ \E mail \in BOOLEAN, p \in Passwords \cup {NoPassword} : Edit(j, p, mail)
  \/ Resend(j) \/ Google(j) \/ DeviceUnlock(j) \/ SaveProfile(j)
  \/ \E c \in mailed \cup {0} : Verify(j, c)
  \/ \E p \in Passwords :
       \/ Register(j, p) \/ AdminCreate(j, p) \/ Enroll(j, p) \/ Unlock(j, p)
       \/ SignIn(j, p) \/ ChangePassword(j, p)
       \/ \E i \in 1..2 : Recover(j, i, p)

Step(j) ==
  \/ RegisterCreate(j) \/ Provision(j) \/ RegisterAgain(j) \/ IssueCode(j) \/ SendCode(j)
  \/ \E i \in 1..2 : WrapSlot(j, i)
  \/ WrongCode(j) \/ ConfirmEmail(j) \/ GoogleLink(j) \/ AdminCreateAccount(j)
  \/ EnrollWrite(j) \/ ReadEnvelope(j) \/ SealForSystem(j) \/ OpenSession(j) \/ WriteProfile(j)
  \/ ChangePasswordWrite(j) \/ EditWrite(j) \/ RecoverWrite(j) \/ Throw(j)

Next ==
  \/ \E j \in Jobs : Request(j) \/ Step(j)
  \/ \E p \in Passwords : ResetPassword(p) \/ ForceReprovision(p)
  \/ ExpireCode \/ RememberDevice \/ EndSession

Spec == Init /\ [][Next]_vars

-----------------------------------------------------------------------------
(* Properties.                                                              *)

\* The password opens a key that decrypts everything stored: registering again,
\* enrolment, recovery, password changes, edits by an administrator and the
\* operator's tools each leave envelope, account data and profile under one
\* key, and seal that one for the system, whatever order they come in, unless
\* one of the mishaps was met.
OneKey ==
  mishaps = {} => data = env.k /\ profile \in {0, env.k} /\ sys \in {0, env.k}

\* The key as a Vault: envelope and account data change together, the profile,
\* the seal for the system, sessions and remembered devices hold copies of the
\* key in use, and no request replaces it once there is one, unless one of the
\* mishaps was met.
KeyPlaces == {"profile", "system", "session", "device"}
KeyAt(p) ==
  CASE p = "profile" -> profile [] p = "system" -> sys
    [] p = "session" -> session [] p = "device" -> device
KeyVault == INSTANCE Vault WITH
  Places <- KeyPlaces,
  lock <- env.k,
  contents <- data,
  copies <- [p \in KeyPlaces |-> KeyAt(p)],
  broken <- mishaps # {}
VaultSpec == KeyVault!Spec

\* Between requests both recovery slots hold the account's key, so a kit never
\* puts an envelope round a key that opens nothing.
RecoveryOpensData ==
  mishaps = {} /\ Quiet /\ env.k # 0 => rec = <<env.k, env.k>>

\* No code is compared with more than MaxAttempts wrong ones, as long as no two
\* guesses overlap (they would read the same count) and each is counted.
GuessesBounded == mishaps \cap {"overlap", "throw"} = {} => guesses <= MaxAttempts
=============================================================================
