# PressPass in TLA+

PressPass issues digital press cards. It is a TypeScript monorepo: a NestJS
API (`src/apps/api`) over PostgreSQL, a Next.js client (`src/apps/web`), a
package shared by both and a set of operator scripts (`src/prisma`). Personal
data are encrypted under a key per account ("profile key"), which is wrapped
for the owner, for the editorials the owner joined, for the system and for
recovery.

This directory models the API, and the parts of the client that keep state, as
TLA+ modules, checks small instances of them with TLC, and proves theorems about
them, for every instance, with TLAPS.

Why a model is worth having here: the API has no lock and, with few exceptions,
no transaction. A handler is a chain of `await`ed database calls, and every
`await` is a point where other handlers run. Unlock sessions, QR projections
and the settings copy live in the memory of the process and go at a restart,
while the rows stay. The client has the same trouble at its end: a page sends
requests, the user goes on, and answers come in any order, late or never. The tests of the repository call one handler at a time
against a mocked database and see none of it.

## 1. Inventory

State is a table unless "memory" is said. The hazards of each part, line by line,
are in `PROJECT.json`.

| Part (source) | State | Operations | What makes it correct |
|---|---|---|---|
| Sign-in and tokens (`auth/auth.service.ts`, `auth.controller.ts`, `refresh-token.service.ts`, `guards/`) | `users.token_version`, `refresh_tokens`; JWTs at clients | login, refresh, logout, logout of all devices, the guard | a token is used once; raising the version ends every token; a deleted account holds none |
| Google sign-in (`auth/google.service.ts`) | `users.google_id` | callback, find or create | one account per identity |
| Registration (`auth/registration.service.ts`) | `users`, `email_verifications` | register, verify, resend | five guesses per code; the password that was confirmed opens the account |
| Unlock sessions (`crypto/unlock-session.service.ts`) | memory: token to keys, with a timer | create, key, put, revoke, revokeUser | no session outlives the secret it was opened with |
| Encryption access (`crypto/encryption-access.service.ts`) | key envelopes of accounts and administrators | unlock, device unlock, enroll, change passphrase, recover, grant, lock | whoever should open a profile can, and nobody else |
| User keys (`crypto/user-key-material.service.ts`) | `users.*_envelope`, `password_kdf` | provision, unlock, rewrap, recover | every envelope holds the same key |
| Key hierarchy (`crypto/key-hierarchy.service.ts`), administrators (`admins/`) | key material and slots of system, editorials, administrators, recovery | enroll, provision, grant, recover; create and remove administrators | each owner key stays reachable, and only by those it was given to |
| Memberships (`journalists/`, `me/`) | `editorial_memberships` with tombstones, `join_requests` | attach, answer, detach, restore | only journalists who joined; a credential ends with the membership |
| Grants (`crypto/editorial-key-grant.service.ts` and its users) | `editorial_data_key_grants` | seal, wrap, revoke | a grant goes with its membership |
| Cards (`cards/`) | `cards` | create, update, block, renew, remove | unique numbers; no active card without its data |
| Editorials (`editorials/`) | `editorials` | create, update, logo, remove | prefixes unique; members keep theirs |
| Purge (`maintenance/`, `common/soft-delete.ts`) | tombstones of users and memberships | hourly and manual purge | what is past the grace window goes, and nothing else |
| Encrypted files (`crypto/encrypted-file.service.ts`) | `encrypted_files` and the disk | store, read, replace, remove | what a profile points to is there |
| QR and verification (`qr/`, `verify/`, part of `me/`, `app/card/page.tsx`) | memory: projections with a timer; the card screen | issue a code, show it, verify it | a code verifies only an active card of a live account; the screen comes to show one of its card |
| Settings, mail (`settings/`, `mail/`) | `app_settings` and a copy in memory | update, load, send | the copy follows the row |
| Card template and designer (`card-template/`, `CardDesigner.tsx`, `editor-geometry.ts`) | `card_templates`, a page in the browser | load, edit, save, reset, import | what is called saved is what cards are drawn with; elements stay on the card |
| Browser session (`lib/session.ts`, `lib/api.ts`, `lib/deviceKey.ts`, login and encryption pages) | localStorage, IndexedDB, cookie jar, shared by all tabs | sign-in, silent refresh and unlock, sign-out | nobody is asked again in vain; a sign-out leaves nothing |
| Administrators' page of journalists (`app/admin/journalists/`) | a page with windows over the API's lists | list, details, form, trash, undo | it shows what is stored |
| Backup and restore (`backup/`, `deploy/restore.sh`) | an archive | dump, tar, restore | a restored row has its file |
| Positions, media cache, other pages, other scripts | a catalogue, memory, forms | | not part of the core |

How they interact. `AuthService.login` reads the account, restores it from its
tombstone, opens its profile key with the password, seals grants for the
editorials of the account and creates the unlock session; the controller then
issues a refresh token with a version it reads anew. A request for data carries
the JWT (checked by the guard against `token_version`) and the unlock token
(checked by the session store). An editorial reads a profile with its own key,
opened by the administrator's unlock, through the grant. The purge runs
beside all of them. In the browser `api()` sends every request with the token and
the unlock it finds in localStorage and, when one is refused, refreshes or unlocks
and sends the request once more.

## 2. Modules

| Module | Models | Extends or instantiates |
|---|---|---|
| `AuthSessions` | sign-in, refresh tokens, JWTs, unlock sessions, secrets | |
| `Revocation` | abstract: credentials that a version withdraws | instantiated by `AuthSessions` |
| `Membership` | accounts, memberships, join requests, grants, cards, purge | |
| `AdminKeys` | administrators, the keys of system and editorials, slots, read keypairs, recovery | |
| `ProfileKeys` | one account and its profile key: registration, enrolment, sign-in, recovery, operator's tools | |
| `Vault` | abstract: a key, what it opens and the copies of it | instantiated by `ProfileKeys` |
| `EncryptedFiles` | records, rows of files, bytes on disk, settings in memory, backup | |
| `QrCodes` | the card screen, codes in memory, verification | |
| `WebSession` | the session in the browser, for all its tabs | |
| `CardGeometry` | the arithmetic of the card editor | |
| `Designer` | the card designer and the service behind it | `CardGeometry` |
| `JournalistsPage` | the administrators' page of journalists and the service behind it | |
| `MC...` | TLC: symmetry, and the values of `Designer`'s sets | the module of the name |
| `AuthSessionsProofs` | `TypeCorrect`, `ChainsKeepVersion`, `VersionsBound`, `RevocationIsFinal`, `ImplementsRevocation`, and what holds while no two requests of one account overlap | `AuthSessions` |
| `MembershipProofs` | `MembershipTypes`, `GrantsFollowJoining`, and the rules of the grace window while no two requests about one journalist overlap | `Membership` |
| `AdminKeysProofs` | which keys administrators hold, seals, recovery | `AdminKeys` |
| `EncryptedFilesProofs` | rows and bytes, cards' copies, records, settings, what is left | `EncryptedFiles` |
| `ProfileKeysProofs` | one profile key in all its places, `ImplementsVault`, guesses | `ProfileKeys` |
| `QrCodesProofs` | whose code the screen shows, what a verification says | `QrCodes` |
| `WebSessionProofs` | what a sign-out leaves, that calls recover | `WebSession` |
| `AdminPagesProofs` | what is called saved, where an element is dropped and turned to; that the page of journalists shows what is stored | `Designer` and `JournalistsPage` |

How the modules divide what is one program. An account appears in three of them:
with its tokens and sessions (`AuthSessions`), with its memberships and grants
(`Membership`) and with its key (`ProfileKeys`). A handler that changes several
of these appears in each, with the steps that matter there: `changePassword`
raises the version in `AuthSessions` and rewraps the key in `ProfileKeys`. A key is
named by its owner in `AdminKeys` and numbered in `ProfileKeys`, where there can
be several of one account. The client's modules have their server in them:
`QrCodes` with its inner steps, because they decide what a code says, and
`WebSession`, `Designer` and `JournalistsPage` as whole answers, because a page
cannot see between the steps of a handler.

### Conventions

A handler is a chain of actions, one per database call or other `await`, driven
by the record `req[r]` of request `r`: `at` is where the handler stands, the
other fields are its local variables, read earlier and possibly stale. An
action named `<Handler>Read` has the handler's first reads and refusals; a
refusal that wrote nothing does not begin the request. Work between two awaits
is one step, because Node runs it without interruption. The transactions of the
code (`$transaction`) are one step. `Requests` is the number of handlers in
flight: with one, the model is the sequential program with restarts, expiry
and purges between steps; with two, every pair of handlers overlaps at every
await. `Handlers` restricts a run to the handlers its question is about.

In the other modules the record is `job[j]` (`req[r]` in `QrCodes`, `asked[j]` in
`JournalistsPage`): `kind` is the
handler, `step` where it stands. `Throw` is an error at the await it stands at.
What a property depends on besides the state is kept in history variables that
no guard reads: `overlap`, `mishaps` and `clash` say whether handlers were
in flight together, broke off or met at one record; `calm` and `orderly` whether a
page's requests overlapped. They let a property say exactly when the code keeps a
promise, instead of leaving the bad cases out of the model: the overlaps and the
failures are all there, and the other properties hold through them.

A definition whose comment begins with "Variant" is what the definition after
it would be with a plausible mistake; no specification uses it. Each property
of a passing run names in `PROJECT.json` the variant that breaks it.

### AuthSessions

| State | Code |
|---|---|
| `accounts[u].tv`, `.state`, `.hash`, `.kek` | `users.token_version`, `deleted_at`, `password_hash`, which secret opens `data_key_envelope` |
| `refresh` | rows of `refresh_tokens`: `id`, `tv`, plus two history fields |
| `access` | access JWTs handed out (stateless in the code) |
| `sessions` | `UnlockSessionService.sessions` |
| `issued` | next token id |
| `req` | requests in flight |

`basis` (the version under which the credential was signed in for) and
`lineage` (which sign-in a refresh token descends from) are history: no guard
reads them. `Accepts` and `Guard` are `JwtAuthGuard.canActivate`; `Usable(u)` is
every credential of `u` the API accepts.

Simplifications: an access JWT does not expire, so `access` only grows, which
gives more behaviours than the code has. Cookies, throttling, the role and the
editorial in the JWT are left out. The envelope a password opens is the
name of the password (`Secrets`). The purge of an account is one step here; its
loop is in `Membership`. `deleteOwnAccount` has one more condition (it belongs to no
editorial), which only removes behaviours.

### Revocation

What the sign-in state promises, in three actions: `Grant` adds credentials to an
account, `Withdraw` takes some away, and `Revoke` raises the version and leaves
no credential. `AuthSessions` implements it with `version <- accounts[u].tv`
and `live <- Usable(u)`: whatever is in flight, the very step that
raises a version empties the account's accepted credentials.

### Membership

| State | Code |
|---|---|
| `accounts[j]` | tombstone of the user row: `live`, `deleted`, `expired` (past seven days), `purged` |
| `files` | accounts whose encrypted files are stored |
| `editorials`, `members`, `invites`, `grants`, `cards` | their tables, with cascades and unique constraints |
| `joined` | history: pairs that ever had a membership row |
| `req` | requests in flight; `todo` and `users` are the lists a loop reads first |

A grant is the set of envelopes in its row: `sealed` to the editorial's public
key (made by the owner alone) and `wrapped` under its key. Reading a profile
materialises `wrapped` from `sealed`, so every handler that answers with a
profile ends with that read (`Answer`, `AnswerCard`). A card keeps its status
and whether its encrypted data were written, which is a second write.

Simplifications: which administrator has unlocked what is nondeterministic
(`AttachGrant`, `Answer`); a seal always finds the editorial's public key; card
numbers, dates and positions are left out; a join request that is withdrawn and
made anew counts as the same; tombstones pass the grace window only while no
request is in flight (`Quiet`), because a request lasts seconds and the window
seven days. `MaxRows` and `MaxCards` bound inserts: beyond them the database
refuses, as it may.

Creation of an account by an editorial's administrator, with its membership and
grant, is in `Membership` the attach by an administrator of an account that was
there; the keys it makes are in `ProfileKeys`.

### AdminKeys

| State | Code |
|---|---|
| `role`, `home`, `kek` | `users.role`, `editorial_id` of administrators, `admin_key_material` |
| `keyed`, `slots` | `system_key_material`, `editorial_key_material`, and the key slots of administrators |
| `pub`, `made`, `seals` | the read keypair in the material, by generation, and what was sealed to one |
| `rows`, `used`, `data` | `editorials`, every id ever used, those whose details are written |
| `auths`, `older`, `rslot` | recovery authorities (whose, and `slotNumber`), which of two with one number has the smaller id, the two slots of an editorial's key |
| `session` | `UnlockSessionService.sessions` of administrators, with the keys they hold |

An administrator is created in one transaction and enrolled, granted the system or an
editorial, in later steps; an editorial gets its row, its key with the creator's
slot, the key in the session, its recovery slots and its details in five. Each
can throw in between. `Removable` is the count of system administrators, and
`RemoveAdmin` and `DeleteAdmin` the two sides of the await after it.

### ProfileKeys

One email and everything that holds its profile key: `env` (password envelope),
`data` and `profile` (what is encrypted under it), `rec` (two recovery slots), `sys`
(system seal), `session`, `device`. A key is a number. A place that holds another
number than the others opens nothing. `code`, `mailed`, `guesses` are the email
confirmation. The verification's expiry is `ExpireCode`, at any time.

### Vault

What the profile key promises, in two actions. `Replace` gives lock and contents a new
key together, newer than all before, and is possible only where nobody has a copy of the
old one; `Copy` makes copies of the key in use, or loses them. `ProfileKeys` implements it
with `lock <- env.k`, `contents <- data`, and as copies the profile, the seal for
the system, the unlock session and the remembered device. The recovery slots are no
copies: they are changed before the envelope is (`RecoveryOpensData` is about them). Once
one of the mishaps was met the vault is `broken` and promises nothing.

### EncryptedFiles

`doc` is what a record says (its text and the file it names), `purpose` the rows of
`encrypted_files`, `disk` and `tmp` the bytes, `runtime` and `shown` the settings in
memory. Storing is temporary file, rename, row, record, cleanup, in five
steps; removal is row, then bytes. An insert of a row that throws has inserted nothing
(`Throw`): one that commits while its answer is lost would have the `catch` remove the bytes
of a row that is there, and `RowHasBytes` is not about that. `said` is the record as the answered changes make
it, one after the other. `archive` is a backup: the dump first, the files after.

### QrCodes

Time is discrete (`Tick`); a code carries the ticks it has left. The screen asks
(`Fire`), the server reads card and expiry, stores the projection and answers,
in steps with `MaxDelay` ticks at most; the page sets its timer by the answer. A
pull reloads the list first: it may be refused for want of an unlock, which leads to the
encryption page (`at`), or lack the card on the screen, which the first of the list
then replaces. Answers to requests of a page that was left change nothing. A
verification is two steps, the look-up of the code and the read of the card. A
verifier keeps a code he has seen as long as he likes.

### WebSession

`token`, `user`, `unlock` are localStorage, `wrap` and `dek` IndexedDB, `cookie` the jar.
Of the server it has which cookies still work, whose account has encrypted data (`data`),
the key in a user's unlock session and whether an unlock token is the live one. A user
without data came with Google and has not enrolled: unlocking is enrolling then, and
until it is done `deviceUnlock` has nothing to try a key on and accepts any
(`OpensAccount`), be it one that the browser remembers of somebody else. A job is a call of `api()` with its
one refresh, its one device unlock and its second try, or a sign-in, an unlock,
a sign-out. `Mates` are the calls of the same tab, which share one refresh and one
device unlock (`refreshInFlight`, `deviceUnlockInFlight`); other tabs do not.

Simplifications: the server answers each request in one step, enrolment included. What
an account without data saves under a key that is not its own is not followed any further. In
`ProfileKeys` the device is one that remembers this account's keys only.

### Designer, CardGeometry

`page` is one mount of the component, `stored` the rows of `card_templates`. Positions
are in half pixels, so that centres and halves are integers; `RoundHalf` is
`Math.round`. Dragging, resizing, turning and typing a position
go through the operators of `CardGeometry` as the page's go through
`editor-geometry.ts`. An answer replaces the whole design, and `saved` is the
word "saved" on the page. `Emptied` rows are those the security migration left
as `{}`. `Sanitize` leaves out the clamps of the card's width, height and grid size, which no
property depends on.

### JournalistsPage

`shown` is what the page shows: the list, the open journalist with the cards, the form, the
trash, the banner that undoes a removal. `asked` are its requests, and `then` is what a
request's answer sets off (another request, a closed window). The module shares no name
with `Designer`, because `AdminPagesProofs` extends both. `ShowsStored` compares with the stored state
when everything has been answered.

## 3. Runs

| Run | Question | Bounds |
|---|---|---|
| `AuthOverlap` | Do versions, chains and `Revocation` hold whatever overlaps? | 1 account, 2 requests, 1 secret, 1 version increase, 3 tokens |
| `AuthSequential` | Does every handler keep its promise when it runs alone, with restarts, expiry and purges anywhere? | 1 account, 1 request, 2 secrets, 2 increases, 3 tokens |
| `MembersOverlap` | Do constraints and `OnlyJoined` hold whatever overlaps, failing revokes and two purges included? | 1 journalist, 1 editorial, 2 requests, 1 row, 1 card |
| `MembersSequential` | Does every handler keep its promise alone, and does every tombstone end? | 1 journalist, 1 editorial, 1 request, 2 rows, 1 card |
| `Administrators` | Which keys do administrators come to hold, and what is left to recover with? | 2 administrators, 1 editorial, 2 requests at once, 5 in all, 2 tokens |
| `Profiles` | Do password and kit open what is stored, and does the key implement `Vault`? | 1 email, 2 passwords, 2 requests at once, 5 in all, 3 keys, 2 codes, 2 attempts |
| `Files` | What do record, row and bytes promise each other? | 3 records, 1 card, 3 files, 2 texts, 2 requests at once, 3 in all |
| `Codes` | Whose code is shown, what verifies, and does the screen recover? | 2 cards, 2 requests, lifetimes of 2 and 3 ticks, delay 1, 2 troubles, 1 change of day |
| `Browser` | What is asked of people, and what do they leave? | 2 tabs, 2 journalists, 1 administrator, 2 requests at once, 3 in all, 2 keys, 3 cookies |
| `Designer` | Is what is called saved stored, and what is dragged on the card? | 1 page, 1 editorial and the system, 2 requests at once, 3 in all, 3 gestures, a card of 6 by 8 |
| `Journalists` | Does the page come to show what is stored? | 2 journalists, 2 cards, 2 requests at once, 3 in all |
| `RenewAfterDetach` | (a violation, see below) | 1 journalist, 1 editorial, 1 request |

Why the bounds are enough. Every rule is per account or per pair of
journalist and editorial: two accounts share nothing but identifiers. Two
requests show every race between two handlers. One version increase is enough to
tell a credential of before from one of after, and the second (in the
sequential run) shows a chain across two. Three tokens are one sign-in with two
rotations, or three sign-ins. Two rows let a pair be purged and joined
again, so that a request holds the id of a row that is gone. For the theorems of
section 5 the bounds do not matter at all. The smaller the account's alphabet
the cheaper, so `AuthOverlap` has one secret: its properties do not
look at secrets.

In the other runs the number of requests begun bounds the depth. Five in
`Administrators` and `Profiles` are what the longest stories need: provision,
authorities, an administrator, an editorial and a removal; register, register
again, confirm, sign in, recover. Three in the others: two that meet and one
that uses what they left. Two keys of an account, three files of a record and two
cards are the old, the new and, for files, the one in flight. In `Codes` trouble
(a restart, a lost answer, a block, a lock, a new lifetime, ...) is bounded because
`ComesToShow` is about what follows it, and a lifetime of 2 and 3 ticks with a
delay of 1 has the answer come before and at the end of the code it replaces. In
`Designer` one turned element is dragged past two edges of a card of even and odd
sizes; that it stays on every card, at every distance, is proved (section 5).

`AuthSequential` leaves out the administrator's password reset, because
with it `KeysFollowVersion` does not hold; that handler is in `AuthOverlap`.

The properties:

- `LineageKeepsVersion`: the tokens one sign-in
  leads to carry one version, so a rotation never carries a token into a new
  version. The overlap may break `SingleUse`, and still does not break this.
- `DeadStaysDead`, `RevocationSpec`: superseded versions are final.
- `SignedOutEverywhere`, `DeletedHoldsNothing`, `SingleUse`, `KeysFollowVersion`:
  the promises of logoutAll, deletion, rotation and key changes, one request at a
  time (the theorems: one request of an account at a time). The disagreements
  below say what remains of them when requests of one account overlap.
- `OnlyJoined`: an editorial has a key or a card only of journalists that
  once joined it; this is the confidentiality rule of consent.
- `GrantHasMembership`, `OnlyExpiredPurged`: the rules of the grace window.
- `ExpiredEnds`: expired tombstones go although a restart may hit any purge.
- `EditorialAdminConfined`, `SessionMatchesSlots`: an administrator holds no key but
  those it was given, in memory as in the database, through every overlap and error.
- `SealsReadable`: holds unless requests overlapped, whatever throws midway. It does break
  then: two unlocks make two read keypairs, of which the second replaces the first.
- `DataHasRecovery`: an editorial with details can be recovered, until an
  administrator is removed (whose authorities go with the account).
- `OneKey`, `RecoveryOpensData`: every place that holds the profile
  key holds the same one, unless one of the named mishaps was met.
- `VaultSpec`: it is replaced, by one never used before, only where no profile, seal,
  session or device has a copy of it, so nothing that was given out is outlived by its
  key. A second registration is the step that could: it makes new keys for an account
  that may be signed in to. It is safe because it refuses confirmed accounts and nothing is
  given out of an account that is not confirmed, except the seal for the system, which is
  why `reseal` is a mishap.
- `GuessesBounded`: a code is compared with `MaxAttempts` wrong guesses at most, unless guesses
  overlap or a count fails.
- `RowHasBytes`, `NothingLeftBehind`, `RecordsStand`, `CardsKeepLogo`, `SettingsInStep`: bytes
  before rows and rows before bytes; changes of one record add up unless
  they overlapped at it.
- `ShownOfCard`, `ValidWasGood`, `ComesToShow`: the code on the screen is of the card on the
  screen; what was blocked before the look-up never verifies; the screen recovers.
- `NotAskedInVain`, `NothingLeft`: the browser's session.
- `SavedIsStored`, `PlacedAsSeen`: the designer. `ShowsStored`: the journalists' page.

### Disagreements between the code and what it says

`RenewAfterDetach` is a run that must fail, with the counterexample as the
explanation: a card that was blocked so that its journalist could be detached is
renewed afterwards, and is active without a membership, against the comment in
`journalists.service.ts` that "a credential must not outlive the membership".

The others were found by the same modules and are kept out of the runs above, by
a history variable or by the choice of handlers. Whoever repairs one of them can
drop that condition and have the run say so.

| Where | What happens |
|---|---|
| `refresh-token.service.ts:77` | two refreshes with one cookie both succeed (`SingleUse` with two requests), although the comment says the presented token is always consumed |
| `auth.service.ts:197` | a refresh or a sign-in in flight during a sign-out of all devices gets a credential of the new version (`SignedOutEverywhere` with two requests) |
| `auth.service.ts:198` | a refresh during the deletion of an account leaves it a token (`DeletedHoldsNothing` with two requests) |
| `encryption-access.service.ts:37` | an unlock during a password change leaves a session of the old password (`KeysFollowVersion` with two requests) |
| `journalists.service.ts:445` | an administrator's reset of a password leaves the unlock session of the old one |
| `auth.service.ts:212` | after a logout the access JWT is accepted until it expires, while `docs/architecture.md:41` says it is revoked |
| `encryption-access.service.ts:241` | after a change of the encryption passphrase the password does not sign in any more |
| `me.service.ts:105` | a join request accepted on the tombstone of a membership makes no member |
| `maintenance.service.ts:52` | the purge deletes what was restored after it was listed; a purge cut short after the files of an account leaves it to be restored without them |
| `maintenance.service.ts:38` | a revoke that fails leaves a grant without a membership |
| `admins.service.ts:233` | two system administrators who remove each other are both removed, each count having seen two, although "the last remaining system administrator cannot be removed" (`:221`) |
| `encryption-access.service.ts:332` | the comment above it says that a key is confirmed to open the account; an account without encrypted data is opened with any, so a first sign-in with Google on a browser that remembers a colleague's key gets a session with that key, and what it saves in its profile stays under that key when its enrolment makes it another |
| `editorials.service.ts:150` | a journalist attached between the count and the delete goes with the editorial |
| `journalists.service.ts:369` | a card issued between the count and the tombstone of a detach stays active |
| `journalists.service.ts:402` | between the end of the grace window and the next purge a tombstone is restored all the same |
| `registration.service.ts:72` | sign-in seals the key of an unconfirmed account for the system, registering again replaces the key and not the seal, and a Superadmin opens nothing, or encrypts the profile under the old key |
| `me.service.ts:369` | after `reset-admin-password` a password change gives an account a key without data and recovery slots |
| `key-hierarchy.service.ts:512` | an editorial is wrapped for the first two authorities of the list, whoever made later ones |
| `journalists.service.ts:554`, `settings.service.ts:85` | of two overlapping changes of one record one is lost; a lost photo leaves the profile with a file that is gone |
| `backup.service.ts:100` | what is stored or removed between dump and tar comes back as bytes without a row, or a row without bytes |
| `verify.service.ts:28` | a code made before its card's expiry was brought forward still verifies after the new expiry, against `docs/api.md:153` |
| `app/card/page.tsx:143` | the answer for the card that was left is shown under the card that was chosen |
| `qr-token.service.ts`, `app/card/page.tsx:164` | a lowered lifetime leaves a dead code on the screen until the timer of the longer one |
| `lib/session.ts:22` | two tabs refresh with one cookie and one of them is signed out |
| `lib/session.ts:44` | a call refused late unlocks again and ends the session of the call that unlocked first, which then asks for the password |
| `lib/api.ts:56` | a sign-out with a stale token refreshes it on the way and leaves the new token in localStorage |
| `CardDesigner.tsx:175` | a design that failed to load leaves the built-in one on the screen, which a save stores over the editorial's |
| `CardDesigner.tsx:336`, `:653` | what is edited during a save is overwritten by its answer; a reset is not disabled meanwhile |
| `card-template.controller.ts` | an administrator of an editorial whose address names none is shown the system's design and saves it as the editorial's |
| `card-template.service.ts:31` | rows emptied to `{}` by the security migration are made into the built-in design at boot, which then hides the system's |
| `card-template.ts:419` | `docs/api.md:362` says coordinates are clamped to the canvas and unknown types dropped; they are clamped to plus or minus 2000, and unknown types become text |
| `JournalistDetailModal.tsx:46` | the cards of the journalist opened before stay on the screen, and can be acted on, until the answer comes, and come back if it is late |
| `JournalistFormModal.tsx:105`, `:125` | a cleared optional field is left out of the request, so it cannot be cleared; a photo that is refused after the account was created makes the form report a failure, and the second try meets its own account |
| `admin/journalists/page.tsx` | the trash is not read again after a removal, the banner stays after a restore from the trash, and a late answer closes whatever window is open by then |

## 4. Fairness

- `QrCodes` (`Spec` has it): weak fairness of the clock and of each step of a request, on
  the server and on the page. The code's awaits end, and its timers fire. That an answer
  takes at most `MaxDelay` ticks, less than a lifetime, is an assumption: lifetimes
  are 10 seconds and more. Nothing is assumed of users, faults and restarts but that
  they are finitely many.
- `PurgeSpec`: weak fairness of what is in flight (a handler at an await goes
  on when the database answers), strong fairness of the start of the purge (the
  hourly cron fires while other requests come and go) and of each of its steps
  (a restart does not hit the same step of every purge). Without the last,
  a process that restarts in every purge never finishes one, and nothing in the
  code prevents it.

## 5. Proofs

The theorems hold for every value of the constants that satisfies the `ASSUME`s of
the module they are about, and rest on nothing else; those about one operator of `CardGeometry` have their
premises in the statement. TLC evaluates the `ASSUME`s in every run. They say that
bounds are numbers, that the names of "nobody" and "no password" are not names of
anybody, that the three kinds of record in `EncryptedFiles` are different ones, and that
a code has at least one attempt. None of the theorems assumes fairness: they are
invariants and action properties. A theorem has the premise the property needs and no
other: where a property speaks of `overlap` or `mishaps`, that is in the property
the run checks; the four of `AuthSessionsProofs` and the two of `MembershipProofs` that need it
have `[]OneEach` in the statement.

| Theorem | Says |
|---|---|
| `TypeCorrect` | `Spec => []TypeOK` of `AuthSessions` |
| `VersionsBound` | `Spec => []VersionInv` |
| `RevocationIsFinal` | `Spec => DeadStaysDead` |
| `ImplementsRevocation` | `Spec => RevocationSpec` |
| `ChainsKeepVersion` | `Spec => []LineageKeepsVersion` |
| `SignOutIsFinal` | `Spec /\ []OneEach => []SignedOutEverywhere` |
| `DeletedIsSignedOut` | `Spec /\ []OneEach => []DeletedHoldsNothing` |
| `TokensAreUsedOnce` | `Spec /\ []OneEach => []SingleUse` |
| `KeysAreOfTheVersion` | the same of `KeysFollowVersion`, without an administrator's reset |
| `MembershipTypes` | `Spec => []TypeOK` of `Membership` |
| `GrantsFollowJoining` | `Spec => []OnlyJoined` |
| `GrantsEndWithMembership` | `Spec /\ []OneEach => []GrantHasMembership`, when no revoke fails |
| `PurgeTakesExpired` | `Spec /\ []OneEach => OnlyExpiredPurged` |
| `AdministratorsTyped` | `Spec => []TypeOK` of `AdminKeys` |
| `SessionsMatchSlots` | `Spec => []SessionMatchesSlots` |
| `EditorialAdminsConfined` | `Spec => []EditorialAdminConfined` |
| `SealsStayReadable` | `Spec => []SealsReadable` |
| `DataIsRecoverable` | `Spec => []DataHasRecovery` |
| `KeysAreOne` | `Spec => []OneKey` |
| `ImplementsVault` | `Spec => VaultSpec` |
| `RecoveriesOpen` | `Spec => []RecoveryOpensData` |
| `GuessesAreBounded` | `Spec => []GuessesBounded` |
| `CodeIsOfShownCard` | `Spec => []ShownOfCard` |
| `ValidCardsWereGood` | `Spec => []ValidWasGood` |
| `SignOutLeavesNothing` | `Spec => []NothingLeft` |
| `CallsRecover` | `Spec => []NotAskedInVain` |
| `RowsHaveBytes` | `Spec => []RowHasBytes` |
| `CopiesStay` | `Spec => []CardsKeepLogo` |
| `RecordsKeepChanges` | `Spec => []RecordsStand` |
| `SettingsStayInStep` | `Spec => []SettingsInStep` |
| `LeavesNothingBehind` | `Spec => []NothingLeftBehind` |
| `SavedDesignsAreStored` | `Spec => []SavedIsStored` |
| `DroppedAsSeen` | `Spec => PlacedAsSeen` |
| `PageShowsStored` | `PageSpec => []ShowsStored` |
| `ClampInside` | clamping puts an element that fits wholly on the canvas, in any of its four turns |
| `MoveInside` | dragging by any distance leaves it there, for any grid and threshold |
| `ResizeInside` | so does resizing at the handle, when the new size fits |
| `RotateKeepsCorner` | a quarter turn keeps the corner of the bounding box, up to rounding |

In all modules the argument has one shape. What a run checks speaks of rows, and is
not inductive, because a handler writes in one step what it read in another. The
strengthening says, for each step a handler can stand at, what of the rows is
still as the handler has it, and what no other handler can have touched. Its
invariants were checked by TLC on the runs' instances before they were proved.

### Sign-in

`TypeCorrect` goes action by action. Its substance is in what the schema does:
token ids stay unique and every refresh token has its account, although the purge
of an account and a rotation may overlap.

`VersionsBound`. That a superseded token stays refused is not inductive: a
request in flight may hold a version it read before, and could issue a token with
it. `VersionInv` adds to `TypeOK` that nothing issued and nothing a request
holds is ahead of the account's version (`NotAhead`). A version read earlier is
then at most the present one, so what is issued with it is already dead, or
alive and counted. `RevocationIsFinal` and `ImplementsRevocation` follow from
`VersionInv` and one lemma about what a step does to the version of an account:
it stays or goes up by one.

`ChainsKeepVersion`. A rotation takes the old row away in one step and inserts
its successor in another; in between the chain exists only in the request's
hands. `ChainInv` therefore speaks of rows and of rotations in flight together:
two of one lineage agree on the version, wherever they are. This is why the
overlap of two rotations, which breaks `SingleUse`, does not break it.

The four theorems with `OneEach` say how much of the API's promises survives without a
lock. `OneEach` is the weakest premise we know of: no two requests of one account are in
flight together, while those of different accounts overlap at every await. With
one request in all, as in `AuthSequential`, it always holds. `OneInv` says of a request
at each step that the version it read is the present one (`FreshRead`), that its
account is not deleted (`NotDeleted`), that the token it rotates was the last of
its chain (`LastOfLine`) and that it dropped the keys before it raises the version
(`KeysDropped`). A request of another account keeps all four (`FromRequest`):
the chain of a token belongs to one account, which is what `ChainInv` is for.
So what the disagreements of section 3 need is two requests of one account, and no less.

### Memberships

`MembershipTypes`. `TypeOK` is split by table (`PeopleOK`, `MembersOK`, `LinksOK`,
`CardsOK`, `RequestsOK`), with a lemma for each kind of write: a cascade has to
keep the foreign keys of all tables, the other steps touch one or two.

`GrantsFollowJoining`. `OnlyJoined` alone is not inductive: a handler that checked
the membership, or read a list of memberships, writes its grant or its card in a
later step and does not look again. `JoinInv` adds that membership rows are of
pairs that joined, and that a request that stands before such a write
(`Vouched`), or holds a list to loop over, holds only pairs that joined. The
chain `key.read`, `key.wrap`, `card.create` is vouched for by the grant
itself: without one nothing goes on.

The two rules of the grace window. They are about handlers that read and, an await
or more later, write: the purge makes lists of what is expired, `login` reads the
memberships it will seal grants for, `detach` and `restoreMembership` hold the id of a row.
`HandlerOK` says, for each step, what of that still holds when the handler gets there.
The premise `OneEach` is again that no two requests in flight are about one journalist,
and `Concerns` says whom a request is about: most, the journalist they were called for; the
purge, whoever it has read and not yet seen to, so that those it is done with, or never
read, may come and go beside it; the removal of an editorial, every journalist; blocking
and removing a card, nobody, so those may overlap with everything. `Confined` is what a
step about some journalists leaves of the others (their rows, accounts and grants as they
were), and `Frame` that `HandlerOK` of the requests about others survives it. Without the
premise both are false: what is restored after the purge has listed it goes all the same.

### Administrators and their keys

`SessionsMatchSlots` and `EditorialAdminsConfined` hold through every overlap and every
error, and share the invariant `KeysInv`. A key travels from slots into a handler
(`got`, `todo`), from there into a session, and the session's keys into new
slots of others. `Carries(K, a)` is what may be said of such a set after it was read:
its keys of existing owners have their material, and if the administrator is still
there it has the slots. It survives because material and slots go only with
the row of their owner, whose id is not used again. That an administrator of an editorial
is confined needs `HandlerOK`: what is to be granted to a new administrator
(`todo`) is its home's key, or it is a system administrator by then.

`SealsStayReadable` is about requests one at a time (`~overlap` in the property) and uses
`AloneInv`: the pair a handler generates is written where there is still none, and is
the one it seals to. `DataIsRecoverable` rests on the order of the five writes of a new
editorial: slot 1, slot 2, details (`RecoveryInv`).

### The profile key

`KeysInv`: the key of a handler in flight is the key of the envelope from the moment it
opened it (`HoldsOK`), and while the slots are rewritten it is the key of those written
so far (`SlotsOK`). With `Alone` (no overlap means one handler) the places change hands
without a moment at which two of them hold different keys and no handler knows.
`KeysAreOne` and `RecoveriesOpen` are read off it.

`ImplementsVault` needs of `KeysInv` more than the two: it bounds what a device remembers, and
what an account that is not confirmed can have given out, on both sides of a step. So
a step that leaves the envelope's key as it was can only be `Copy`, and it remains to show
of the others that they are `Replace`. Only four are left (`Creates`, `Rekeys`), because
whoever wraps a key again has the one of the envelope in hand (`StepKeepsKey`); they find no
copies (`CreatesReplace`, `RekeysReplace`). That the new key is a newer one is not
in `KeysInv`: a handler that generated it has it in hand over three awaits. `FreshInv` says
that no key in use is ahead of the last one made, and that a key in the making is newer
than the one in use.

`GuessesAreBounded` has an invariant of its own, `CodeInv`: the guesses made are those counted, or one more
while a handler stands before the write that counts it.

### Encrypted files

`RowsHaveBytes` holds through every overlap, throw and restart, and through the restore of a
backup. `FilesInv` gives each file in storing to one handler (`Apart`): nobody has a
row of it, lists it or unlinks it until its own row is written, and a row is only
written when the bytes are there (`HeldOK`). Of an archive it says that rows
dumped have their bytes on disk until the files are packed, unless a removal came in
between. `CopiesStay`: a removal in flight removes only what is of the card or account it is
called for (`RemovalOK`). `RecordsKeepChanges`: a handler that met no other on its record has in
hand the record as it is (`RecordOK`); `clash` is, by `Met`, exactly the records at
which two met. `SettingsStayInStep` and `LeavesNothingBehind` are about runs in which
nothing failed; the second says for every file on disk and every row which handler
sees to it (`DiskTidy`, `RowsTidy`).

### Codes and verification

`CodeIsOfShownCard` needs of the requests in flight what the property says of the
screen: those of the page that is open ask for the card it shows (`AsksForShown`), what
they bring is of the card they asked for (`AnswersOwnCard`), and a page that was left
has none that would be shown when the journalist comes back (`LeftIsLeft`).
`ValidCardsWereGood`: between look-up and verdict a verification has seen its card good
if the card is good now (`SeenGood`), so the second read cannot say valid of a card that
never was. Neither uses the fairness of `Spec`.

### The browser session

`SignOutLeavesNothing`. What a sign-out cleared, an answer could bring back; `LeftInv` says
that after one that nothing ran beside only the sign-out itself is in flight, and, for each step it can be
at (`SigningOut`), what of the token and the key may still be there: its own refresh stores a token after
the user is gone, and each interrupted deletion of `forgetDevice` leaves what the property lets it
leave.
`CallsRecover` is about several calls that share one refresh and one device unlock. `CalmInv` says of
every moment at which some call is safe (a ghost: the call began with all it needs, and nothing but
calls of its tab began since): the device still has its key and its wrap (`FitStill`); the cookie in the jar
works, or the one refresh in flight holds the one that does (`CookieStill`); and each call, at its
step, has a token as fresh as the storage's or has its refresh still to come (`CallOK`). That
a stale cookie is never sent is the hard half: two refreshes of one tab cannot be in flight, since a
second call waits for the first one's (`waitRefresh`).

### The card editor

`SavedDesignsAreStored`. `TypeOK` of the proof says that every edit leaves a design a design, without
which sanitizing twice need not be sanitizing once (`SanitizeType`). The only
edit whose type is not plain is the one that filters: `Without` is a recursive function, and what it
returns is proved by a least counterexample (`LeastOf`), once for the existence of the function
and once for its values. `SavedInv` then says of a calm page that it has one
request at most, that a load is only under way before anything was saved, that the answer of a
write on its way is what cards are drawn with by now (`AnswerOK`), and that what is
called saved is, until a request has been served. `Frame` is why the others do not disturb
it: they leave its requests, its design, its editorial's row and the system's alone, or it is not calm
any more.

`DroppedAsSeen`. `OnlyPointer` leaves `PointerMove` as the only step that changes a design
while it drags. The rest is arithmetic over the four turns. An element
is kept by its unturned corner and seen by its turned bounding box; both have the
same centre, so `Clamp` bounds the centre by half the box, and the lemmas say what
the corner of the box is after the centre was moved. Snapping to the grid comes
before the clamp and snapping to the edges within it, which is why `MoveInside`
needs nothing of grid and threshold. Sizes are any integers, because they may be typed.

### The page of journalists

`PageShowsStored`. While nothing was started beside anything and nothing lost (`orderly` in
the module), there is one chain of requests, with the trash at most beside it (`OneChain`).
Between its links the page may show what is no longer stored, so `ShownInv` is about what is
still to come: the list is the stored one or a request that leads to it is on its way
(`ListComes`, `AsksList`), the same for the cards of whoever is open (`CardsCome`), an
answer on its way is what is stored by now (`AnswerCurrent`), and cards that nothing
follows are those of the journalist that is open, or the window was closed meanwhile
(`ForSelected`). The types of the values do not matter to it, only that requests and page have
their fields (`Shape`).

### What stays with TLC

Liveness (`ExpiredEnds`, `ComesToShow`), which is out of the prover's reach, and the
disagreements.

Proving also changed the models, where they could not be reasoned about or
were loose. Two `CASE` expressions had overlapping guards (the second step of creating
an administrator, and what the template service serves): TLC takes the first that
holds, the definition says any may be taken. The recovery authorities were
a sequence and are a set with the order of their ids. Bounds got their `ASSUME`s, the
card editor those of its designs. Removing an element filters with a recursive function
instead of `SelectSeq`, which the provers cannot expand. The card screen showed answers that a page left for the encryption page had asked for, which
`CodeIsOfShownCard` cannot be proved of and the code does not do: `OfPage` and `Unmounted`
are the correction.

## 6. Plan

The modules of the first plan are built, but for the card numbers, and every safety property
that a passing run checks is a theorem, some under the premise that no two requests about one
account overlap. Next, one module: card numbers, with the sequence over all years, the
templates of `card-number.ts` and the unique index that refuses the second of two.

## 7. Not modelled

Cryptography (taken as ideal: what opens an envelope is the name of a key), the text
of mails, image processing, response mapping, validation of requests, card numbers,
positions, the drawing of cards, export, the service worker, the pages of the client
that send one form and show its answer, and the scripts that run once with
the API stopped. `PROJECT.json` lists every part with the reason.
