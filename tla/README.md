# A TLA+ model of OpenSkeleton (osk1)

This directory holds a verification project for the repository: TLA+ modules
translated from the source, TLC configurations that check them on small
instances, and TLAPS proofs of the results that matter for every instance.

## 1. The system

One Spring Boot API (`backend/`) over PostgreSQL, one static web build (`web/`)
used by browsers and by an Android WebView shell, Firebase Authentication and
Cloud Messaging outside. There is no server session: a request carries a
Firebase ID token, a filter chain verifies it, and a controller runs one or
more short database transactions. Cloud Run runs several threads and may run
several instances or restart one at any time; everything kept in a Java map is
per instance and lost on restart.

### Components, state, operations

| Component | State it keeps | Operations | What makes it correct |
| --- | --- | --- | --- |
| Token bucket, request rate limit, per-email limit (`web/ratelimit`, `login/EmailLoginRateLimiter`) | per-key bucket in memory: balance, last refill instant | `tryConsume` (lazy refill) | in any span of time no more requests pass than the burst plus the accrual, whatever order clock readings arrive in |
| Email-code login (`login/`) | one row per email: hash, expiry, attempts, consumed mark; Firebase users; the mail sent | `start` (throttle, issue, dispatch), `verify` (throttle, consume, resolve or create the uid, provision, mint) | a code is used once, dies after `maxAttempts` misses, and the newest code is the one that works |
| Account identity (`user/UserService.provisionFromToken`, V2/V3/V10 migrations) | `users` rows: uid, email, phone, deleted mark, version | `provisionFromToken` (lookup by uid, by identity, relink or insert, recover), `softDelete`, `restore` | one active row per human; a sign-in always ends with the caller's row |
| Account record and audit (`user/UserService`, `admin/AdminUserService`, `audit/`, `user/LastActiveService`) | versioned row, append-only audit log, per-instance last-stamp map | `updateProfile`, `updateLifecycle`, `markAccountType`, `changeRole`, `setEnabled`, `editProfile`, `softDelete`, `touch` | no lost update; the audit log explains the row; the heartbeat is stamped at most once a window |
| Resilient token verification (`auth/`) | circuit breaker window and state, bounded worker pool, retry count per request | `verify` = retry(breaker(time limit(delegate))) | a bad token is a 401 and never opens the breaker; an outage is a 503; hung calls cannot pile up |
| Authentication filter (`auth/FirebaseAuthenticationFilter`) | none (request attributes) | bearer parse, verify, disabled gate, delegate | only a verified, enabled caller reaches a handler |
| Email verification resend (`email/`) | per-uid last-sent map | `resend` | two dispatched links are a cooldown apart |
| Devices and push (`device/`, `push/`, `web/push-client.js`) | `device_tokens` rows; client: last token, listeners, registered flag | `register`, `deregister`, `prune`, `sendToUser`, client `onAuth` | a device's notifications go to the account signed in on it |
| Avatar, account state (`avatar/`, `account/`) | none (Firebase record) | `updateAvatar`, `stateFor` | a request shows the state it wrote |
| Web sign-in guard (`web/auth.js`) | SDK load state, current user, subscribers | `ensureLoaded`, auth callbacks, sign-in methods | protected content shows only for a signed-in user |
| Web gates (`completion-gate.js`, `terms.js`, `verify-email.js`, `onboarding.js`) | overlay state, last fetched profile, in-flight flags, a pending-sync mark in `localStorage` | check, submit, accept, resend, record completion | a late answer for an earlier user never changes what the current user sees |
| Web tour and deep links (`tour.js`, `deep-link.js`) | progress and pending route in `localStorage` | start, next, back, pause, resume; tap, consume | progress resumes where it stopped; a tap is routed once, to an allowed page |
| Notification channels (`notification/`) | none | `notifyUser`: one read, one call of the chosen channel | a failed channel never reaches the caller |
| Web pages (`profile.js`, `admin.js`, `history.js`, `diagnostics.js`, `badges.js`, `geolocation.js`, `theme-switcher.js`) | page view state; the profile last seen, the editor's form, a picked file | load, edit, save, upload, page | what is saved is what this user typed, for the account it was typed for |
| Wire layer (`web/GlobalExceptionHandler`, `SecurityHeadersFilter`, `version`, `health`, `config`, `common`, `validation`) | none | error to status, headers, paging bounds | stateless |
| Android shell, infra, CI workflows, scripts | none in this repository's code | build and deploy | configuration |

### How the parts interact

A request crosses `FirebaseAuthenticationFilter` (resilient verification, then
the disabled gate, a read of the caller's row), then `RateLimitFilter`
(TokenBucket, for paths under `/api/`, keyed by the uid the first filter
published or, without one, by the client address), and reaches a controller.
Controllers provision the caller first (`UserService.provisionFromToken`) and
then run their own transaction, so one HTTP request is several transactions,
each committing by itself. The email-code endpoints are public: they go through
their own per-email bucket, the code row, Firebase, `provisionFromToken` and
Firebase again; carrying no token, they are rate-limited by address. An
interceptor stamps `last_active_at` beside all of it, on the same `users` row
that profile edits write back whole. The web client holds no truth of its own:
it caches what the API answered and must drop what belonged to an earlier user.

Shared state is the database (isolation READ COMMITTED, Spring's default; no
pessimistic locks anywhere), Firebase's user directory, and per-instance maps.

### What is hard here

* **Read-then-write transactions.** Hibernate reads an entity without a lock and
  writes every column back. `users` has a `@Version`, so a stale write fails;
  `email_login_codes` has none, so a stale write wins.
* **Several transactions per request**, with other requests, crashes and outages
  in between: consume then Firebase then provision then mint; provision then
  update; look up then relink.
* **Constraints as the real arbiter**: the UNIQUE uid covers deleted rows, the
  email index only active ones, and the finders see only active rows.
* **Per-instance caches in front of shared rows**: the heartbeat map, the buckets.
* **Clock readings taken before a lock or a transaction** and used inside it.
* **Late answers in the browser**: a response that belongs to an earlier user.
* **Two ideas of who is signed in**: `auth.currentUser`, from which a request
  takes its token, changes before `onAuthStateChanged` tells the page; and with
  two tabs one user may replace another without a sign-out the page sees.
* **State handed from page to page and tab to tab** in `localStorage`, while
  each tab waits for answers about what it asked earlier.

`PROJECT.json` lists each of them as a hazard at the line where it bites, with
the properties that would catch it.

## 2. Modules

| Module | Source | State ↔ code | Actions ↔ code |
| --- | --- | --- | --- |
| `TokenBucket` | `TokenBucket.java`, `RateLimitFilter`, `EmailLoginRateLimiter` | `balance`, `lastRefill`: the fields of one bucket; `stamp`: the `System.nanoTime()` a thread has read and not yet used | `FindBucket` (`computeIfAbsent`), `ReadClock`, `TryConsume` (the synchronized method, with `refill` as `Elapsed`/`Refilled` and the wait as `SecondsUntilToken`) |
| `EmailLogin` | `login/*` | `row`: the one row of an address; `firebase`: whether Firebase knows it; `pc`, `job`: request threads, with the entity each has read | `Start`, `IssueRead`, `IssueWrite`, `Dispatch`; `VerifyBegin`, `ConsumeRead`, `MissWrite` or `SpendWrite`, `Resolve`, `Create`, `Reread`, `Provision`, `Mint`; `Outage`, `Crash` |
| `OneTimeCode` | (abstract specification) | the code in play, the newest code, the wrong guesses against it | `Issue`, `Guess`, `Accept`, each atomic |
| `AccountIdentity` | `UserService.provisionFromToken`, `relinkUid`, `softDelete`, `restore`, V2 and V10 | `users`: the table; `job.seen`: the detached row a request carries | `FindByUid`, `FindByEmail`, `Insert`, `FindByEmailAgain`, `Relink`: one repository call each; `Update`: the transaction after it; `SoftDelete`, `Restore` |
| `AccountRecord` | the rest of `UserService`, `AdminUserService`, `AuditService` | `row` with its version, `audit`: committed events | `Read` (the finder), `Write` (flush and commit, version check, events), `Crash` |
| `Heartbeat` | `LastActiveService`, `touchLastActive`, whole-row saves | `last`, `version`, the row's `lock`, one `stamped` map per instance | `Touch`, `Look`, `BulkUpdate`, `Put`, `Commit`; `SaveRead`, `SaveWrite`; `Rollback`, `Restart` |
| `ResilientVerify` | `ResilientTokenVerifier`, `FirebaseTokenVerifier`, the `resilience4j` block of `application.yml` | `breaker`, `window`, `permits`: the breaker; `queue`, `running`, `orphans`, `started`: the bounded pool; `pc`, `tries`, `outcome`, `reply`: a servlet thread and its request | `Request`, `Admit` (permission), `Submit` (`Accept` or `Reject`), `Return`, `Timeout`, `Backoff`; `Take`, `Finish`, `FinishOrphan` (pool and SDK); `HalfOpen` |
| `AuthSession` | `web/auth.js` | `sdk`, `current`: the Firebase SDK and its user; `user`: `state.user` | `Load`, `LoadFails`, `SignIn`, `SignOut`, `Deliver` (the callback, with every subscriber's handler); `GuardMode` (`computeGuardView`), `Token` (`getIdToken`) |
| `CompletionGate` | `completion-gate.js` | `overlay`, `missing`, `lastProfile`, `body` (the scroll lock), `save` (`busy`) | `GateOnAuth`, `ServeCheck`/`ApplyCheck`, `Submit`, `ServeSave`/`ApplySave`, `LeaveForm` |
| `TermsGate` | `terms.js` | `st`, `wasIn` | `TermsOnAuth`, `ServeLookup`/`ApplyLookup`, `Accept`, `ServeAccept`/`ApplyAccept` |
| `VerifyBanner` | `verify-email.js` | `hidden`, the disabled marks, `cooldown`, `interval` | `BannerOnAuth`, `Resend`/`ApplyResend`, `SyncCooldown`, `Refresh`/`Reload`/`EndRefresh` |
| `ProfileForm` | `profile.js`, the profile controller | `original`, `form`, `formHidden`, `sending` | `ProfileOnAuth`, `AnswerLoad`, `Type`, `Save`, `ServeEdit`/`ApplyEdit` |
| `AvatarPanel` | `profile.js`, the avatar controller; `AvatarObject` | `shown`, `picked`, `uploads` | `AvatarOnAuth`, `AnswerAvatarLoad`, `SelectFile`, `StartUpload`, `StoreObject`, `ServePut`, `EndUpload` |
| `AdminConsole` | `admin.js` | `access`, `rows` (`list.items`), `editor`, `inputs`, `pending` | `ConsoleOnAuth`, `AnswerMe`, `LoadPage`/`AnswerPage`, `Mutate`/`AnswerMutation`, `OpenEditor`/`AnswerDetail`, `Choose`, `Cancel`, `SaveProfile`, `ServeProfile`/`ApplyProfile` |
| `WebPages` | the pages (`web/*.html`) | all of the above, and `subject` | a step of the script under study, beside the session |
| `DevicePush` | `push-client.js`, `DeviceTokenService`, `PushNotificationService` | `owner`: the rows of `device_tokens`; `fcm`: what each token is worth; `page`: the client; `send`: a multicast and the prune after it | `PushOnAuth`, `AnswerPermission`, `Registration`, `RegistrationError`, `Rotate`, `Left`; `Register`, `Deregister`; `SendToUser`, `Multicast`, `Prune`; `OtherDevice`, `Uninstall` |
| `TourOnboarding` | `tour.js`, `onboarding.js`, `deep-link.js` | `firstRun`, `parked`, `pendingSync`, `route`: four keys of `localStorage`; `tab`: what each tab shows and waits for | `Open`, `Boot`, `ConsumeRoute`, `Tap`; `ReadToken`, `AnswerState` (`runPlan`), `AnswerPatch`; `Launch`, `Move`, `NextPage`, `Pause`, `Finish` |

A module that is run has an `MC…` module where its constants need more than a
configuration can say (symmetry, sequences), and one that is proved about a
`…Proofs` module; `WebProofs` is that of `WebPages`, with all scripts it composes,
and of `DevicePush`. Definitions marked "A slip" are plausible
mistakes in the code; substituting one for the definition after it makes a
property fail, which is how each property is known to have teeth.

The scripts of a page are composed in two ways. Each web module but
`TourOnboarding` extends `AuthSession` and conjoins its handler to `Deliver`, as
`notify` runs all subscribers in one turn. `WebPages` then puts six of them
beside one session. They share nothing else: each has its own requests, its own
part of the page and, in these models, of the backend. (`app.html` loads the two
gates and the banner, `profile.html` the form and the panel, `admin.html` the
console. A profile changed on another page while a gate is open is not
modelled.) So an execution of the page is for each script one in which only that
script moves; `subject` says which, and the run explores every one, instead of
a product that holds no further behaviour of any of them. That this loses
nothing is a theorem: `PageSpec` is the page in which all scripts move, one
callback running all their handlers, and `WebProofs!PageProjects` projects it on
each. `TourOnboarding` does not extend `AuthSession`: its scripts ask for
a token and never look at the page's own idea of the user.

`EmailLogin` uses `AccountIdentity` only through its outcome: `Provision`
either succeeds or ends in the conflict that `AccountIdentity` shows possible.
`AccountIdentity` and `AccountRecord` model the same row from two sides: who
owns it, and what is in it. The version check is the same in both.

### Abstractions

* `TokenBucket` counts the balance in exact units of a fraction of a token; the
  code uses a `double`. Rounding of the double is not modelled.
* A code is the number of its issue, and its hash is the code: hashing is taken
  to be injective on the codes of an address and two draws to differ.
* Emails equal up to case are one value, as the `lower()` index makes them.
* The events one commit appends are one entry of `audit`; `accountType` and the
  deletions append none, as in the code.
* An attempt lasts at most the time limit (2 s), less than the open state (10 s):
  the breaker half-opens only when no attempt is left. The lengths of the
  backoffs do not matter, and an instance without credentials answers as one
  whose signing keys are out of reach.
* An `UPDATE` that meets a locked row waits and then judges its WHERE clause on
  the committed value; that is one step once the lock is free.
* A web request carries the user its token was taken for and the callback it was
  sent under (`session`). The code keeps neither; they are history, by which the
  properties say which answers were about the present user.
* Where serving a request and applying its answer can be told apart they are two
  steps; otherwise one, as each module's comment says. Two requests alike in
  everything are one. Whether a lost answer hid a request that was taken is
  always a choice.
* A profile is the set of its required fields (`CompletionGate`), a field the
  user whose value it first held, `Typed` or `Blank` (`ProfileForm`), or a whole
  profile the account it is of (`AdminConsole`); a picture is the owner of the
  Storage area it lies in.
* `computeActiveSteps` of the tour gives any number of steps up to `MaxSteps`: pages are
  laid out differently at every size. A tab runs one handler at a time, as
  browsers do, and `localStorage` is read and written at once.
* The push token of a device is one FCM has minted for it; FCM's answer about a
  token is "dead" only for a dead token, and "delivered" only for one that is not.
  The code also prunes on `INVALID_ARGUMENT` (`PushNotificationService.java:196-202`),
  which it takes to mean a malformed token; FCM may give it for a malformed message
  too, and then `RowsKept`, which assumes it does not, says nothing.

## 3. Runs

The passing runs finish within a minute or two each with two workers, `WebPages`
taking longest.

| Run | Bounds | What it shows |
| --- | --- | --- |
| `TokenBucket` | 2 threads, burst 2, 2 tokens per 7 ticks, 2 ticks a second, 8 ticks (151 805 states) | `WindowBound`: between any two allowed requests no more were allowed than the burst plus the accrual, although clock readings reach the bucket out of order. `RetryAfterHonest`: waiting the announced seconds is enough and no second too many. The ratio 2/7 makes both roundings up matter; 8 ticks pass one full refill. |
| `EmailLoginSequential` | 1 worker, cap 2, 3 codes, 4 verifies, 3 ticks, crashes, outages and conflicts (1 497 834 states) | `TypeOK`, with the stored miss counter within the cap. `SingleUse`, and `ImplementsOneTimeCode`: the row implements `OneTimeCode`, in which a code is judged at most `MaxAttempts` wrong guesses and only the newest is accepted. A third code and a fourth verify allow miss, miss, re-issue, hit, replay. |
| `EmailLoginConcurrent` | 2 workers, 2 codes, 3 verifies, no faults, fairness (223 556 states) | `ExpiryKept`, `SpentCodeYieldsToken`, and the liveness `SpentLeadsToToken`, for the request that loses the race to create the Firebase user too. |
| `EmailLoginReplay` | 2 workers | violation, see section 5 |
| `AccountIdentity` | 2 workers, 3 rows, 3 uids of 2 people, 5 requests, 2 deletions (511 717 states up to symmetry) | `TypeOK`: no row is ever stored without the uid of a token. `OneHome` until the first deletion. `InsertRecovers`, until then too: an insert that loses finds the winner's row, and ends in a 409 only if that row is written once more before its relink. `DeletedStaysDeleted` (always). Three uids give two uids of one person racing each other beside a stranger; five requests let a row be inserted, relinked away and relinked back. |
| `AccountRecord` | 2 workers, 2 profile fields of 2 values, all kinds of request, 4 requests (280 507 states up to symmetry) | `AuditChain`, `NoLostUpdate`, `DeletedKept`. Four requests over two workers are enough for a stale write after delete, restore and delete again. |
| `Heartbeat` | 2 instances, 3 threads, window 2, 3 touches, 1 save, 6 ticks, restarts and failed commits (1 397 191 states up to symmetry) | `OneWritePerWindow`, `TouchLeavesFresh`, `HeartbeatAdvances`. Six ticks hold two full windows, three touches a write, a skip and a write. |
| `ResilientVerify` | 2 servlet threads, 1 pool thread, 1 place in the queue, 2 attempts, window 3, 2 calls to judge, 2 probes; any number of requests (93 619 states) | `ProbesBounded`, `OpenedByFaults`, `OutageNever401`, and the liveness `Answered`. One hung call holds the pool, one cancelled call the queue, and the next is rejected, so every way an attempt can end occurs in every state of the breaker. |
| `WebPages` | 2 users, 2 changes of user after the SDK has loaded, 2 fields, 2 versions of the terms, 2 edits, 2 resends and 2 uploads at once, 2 accounts and 2 calls of an admin (981 567 states) | `GatesHonest`: each gate is right about the user who is there. `ScrollFree`: the page scrolls exactly when nothing covers it. `ResendUsable`: the resend button always comes back. `OnlyOwnEdits`: while the SDK and the page agree on the user, and none replaced another without a sign-out since the load, a save sends what its user typed and nothing that was loaded. `AvatarOwn`: a picture lies in its owner's area although three requests ask for the user at three moments. `EditorHonest`: the editor shows the row it was opened for. `LoadingEnds`: the cover that has no button goes away. Two changes are enough for a user, a sign-out and another user, or for one user over another, with requests of each still on their way. |
| `DevicePush` | 2 users, 2 tokens, 2 changes of user, 2 requests in flight from another device (1 106 306 states up to symmetry) | `RowsKept`: the row of a token that works goes by a DELETE of its owner only, whatever a slow multicast read before. `Listens`: the client of a signed-in user has its listeners. Two tokens give a rotation, or a send to a user with a dead token beside a live one. |
| `DevicePushSignOut` | 1 user, 1 token | violation, see section 5 |
| `TourOnboarding` | 2 tabs, 1 user, a page with `auth.js` and one without, up to 2 steps a page (368 454 states up to symmetry) | `AutoStartOnce`: whichever script starts it and however many tabs wait for the same answer. `HandedOver`: a tour that ended is recorded, queued or on its way. `TypeOK` here says that the step shown is one of the visible ones, also after a resume with fewer of them. `boot` comes before the pending route is followed, as the scripts of `app.html` do, so a tour may be started or resumed and left in one event. |

Symmetry is used only in runs without liveness properties, over values the
specification never tells apart (threads of one instance, row identifiers, users,
tokens, tabs).

The premises of the web properties are part of them. `GatesHonest` says "as long
as no answer about another user was taken for one about the present user",
`OnlyOwnEdits` "as long as the SDK and the page agree on the user who saves, and
no user replaced another without a sign-out since the load"; what happens
otherwise is listed in section 5. Their premises hold in most states of the run,
and a new sign-in restores them.

### Fairness

Three modules state a liveness property. In `EmailLogin`, `FairSpec` assumes weak fairness
of `Progress(w)` for each worker: a servlet thread that has a request is
scheduled, its database and Firebase calls return, and it answers. Nothing is
assumed of `Start`, `VerifyBegin` (nobody has to send a request), `Tick`,
`Outage` or `Crash`; `Rest` lets the system stop when no request is under way.
The liveness run has no faults, since an outage after the code is spent does
end without a token (section 5).

In `ResilientVerify`, `FairSpec` assumes weak fairness of `Serve(w)` only: a
servlet thread that can move does, and its timer fires. Nothing is assumed of
the pool's threads or the SDK, so `Answered` holds although every call hangs.

In `CompletionGate`, `GateFairness` assumes that a profile check is answered and
its answer applied: `fetch` settles, with an error if need be, because the
browser and the server bound a request, though the page itself sets no limit.
Nothing is assumed of the SDK's callbacks, of the user or of a save. `DevicePush`
and `TourOnboarding` state safety only and assume nothing.

## 4. Theorems

The proofs hold for every value of the constants, under the `ASSUME`s of the
modules (types and positivity of the constants) and what the table adds.

| Theorem | States | Adds | Inductive invariant |
| --- | --- | --- | --- |
| `TokenBucketProofs!BalanceSafe` | `TypeOK`, and `BalanceBounds`: never more than the burst, never credited for the future | – | the two plus `StampsPast`: a reading a thread carries is in the past |
| `TokenBucketProofs!RetryAfterSafe` | `RetryAfterHonest` | – | the invariant of `BalanceSafe`; the rest is arithmetic of the two roundings up, over any rate and clock |
| `TokenBucketProofs!WindowSafe` | `WindowBound` | – | `Accounted`: counted from any earlier grant, the tokens spent since and those still there were all in the burst or accrued since; the bound itself says nothing of the balance and is not inductive |
| `EmailLoginProofs!ExpirySafe` | `TypeOK`, `ExpiryKept` | – (any workers, any faults) | `IInv`: the stored row and every copy a request carries has the expiry its own code was given |
| `EmailLoginProofs!SpentCodeSafe` | `SpentCodeYieldsToken` | finitely many workers, `Faults = {}` | `Tally`: of each code, the tokens made and the workers still making one are no more than the acceptances, and as many when there are no faults |
| `EmailLoginProofs!TokensPaidFor` | no code makes more tokens than it was accepted times, which no run checks by itself | finitely many workers (any faults) | the same |
| `EmailLoginProofs!OneAtATimeSafe` | `SingleUse`, and `AttemptsCapped`, `LatestWins`, which no run checks by themselves | `OneAtATime`: one worker | `SInv`: what a request read is still the row when it writes, and the history counters are what the row says |
| `EmailLoginProofs!OneTimeRefined` | `ImplementsOneTimeCode` | `OneAtATime` | the same; each step is a step of `OneTimeCode` or a stutter |
| `AccountIdentityProofs!DeletedSafe` | `DeletedStaysDeleted` | – | `Typed`: a request that is relinking carries a row |
| `AccountIdentityProofs!OneHomeSafe`, `InsertRecoverySafe` | `OneHome`, `InsertRecovers` | `Stable`: a uid always presents the same email | `HInv` until the first deletion: active rows are some token's, no two share a uid or an email, a home is an active row, and after a refused insert the row that refused it is there to be found. Then no other row has the uid that a recovery is about to write, and only the version check can refuse it |
| `AccountRecordProofs!AuditSafe`, `EditSafe`, `DeletionSafe` | `AuditChain`, `NoLostUpdate`, `DeletedKept` | – | `IInv`: a row read at the current version is the current row, and the trail is a chain |
| `HeartbeatProofs!OneWriteSafe`, `AdvanceSafe`, `FreshSafe` | `OneWritePerWindow`, `HeartbeatAdvances`, `TouchLeavesFresh` | – | `IInv`: a write under way holds the lock and is still due, the row shows the last heartbeat written, and each entry of a map is backed by the row or by a commit to come |
| `ResilientVerifyProofs!ProbesSafe` | `TypeOK`, `ProbesBounded` | – | `PInv`: a breaker that is not half-open has no permits, and no more calls run than there are threads |
| `ResilientVerifyProofs!OpeningSafe` | `OpenedByFaults` | – | `Noted`: the window of a closed breaker holds no more failures than were noted since it closed, or enough were |
| `ResilientVerifyProofs!OwnTokenSafe` | `OutageNever401` | `"keys" \notin Faults` | `OInv`: a call in the pool is there once and is the one its servlet thread waits for; a future's result is about the token of the request waiting for it |
| `TypesSafe` of `EmailLoginProofs`, `AccountIdentityProofs`, `AccountRecordProofs`, `HeartbeatProofs`, `ResilientVerifyProofs` | `TypeOK`; of `EmailLogin` with the stored counter within the cap, of `AccountIdentity` with a uid in every stored row | – | the part of the invariants above that is about types; for the cap, that who is about to count a miss read a count below it; for the uid, `Identified`: a request under way has one |
| `WebProofs!WebTypeSafe`, `GatesSafe`, `ScrollSafe`, `ResendSafe`, `OwnEditsSafe`, `AvatarSafe`, `EditorSafe` | the invariants of `WebPages`, in the order of the run | – | `WebInv`: the script that moves keeps an invariant of its own, below, the others stay as they start |
| `WebProofs!PageProjects` | `PageSpec` implies the specification of every script, without its fairness | – | none: each step is one of the script or a stutter |
| `WebProofs!PageSafe` | all of the invariants but `TypeOK`, at once, over `PageSpec` | – | `PageInv`: the invariants of all scripts together |
| `WebProofs!PushTypeSafe`, `ListensSafe`, `RowsSafe` | `PushTypeOK`, `Listens`, `RowsKept` | – | `PushInv`: the results of a send under way, once there, are one per token, and a token they call dead is dead and stays so; only then does a prune between a send and a new registration take nobody's working row |
| `TourOnboardingProofs!AutoStartSafe` | `AutoStartOnce` | – | `StartInv`: a tour that has started itself has set the mark, and nothing takes the mark down |
| `TourOnboardingProofs!HandOverSafe` | `HandedOver` | – | `HandInv`, with `Backed`: a completion sent because it was queued has the mark still up, or one is recorded. Without it a failed retry could be the only trace there was |
| `TourOnboardingProofs!TypeSafe` | `TypeOK` | – | `TypeInv`: besides, a tab without a page waits for nothing and shows nothing |

`OneAtATime`, `Stable`, `Faults = {}` and the assumption on the keys are not
conveniences: without them the code does not have the property, as the
configurations of section 5 show (`EmailLoginBurnt` for `Faults = {}`). That
there are finitely many workers is needed to count them.

The web scripts hear of the user from one session, whose invariant `SessionInv`
bounds the number of callbacks by that of changes. On it each script has its own:

* `GateInv`: a check of the present callback was sent for the user who is there;
  what was read of a profile is still in it, as profiles only grow; and the
  profile a save would be merged with is of the present user unless a foreign
  answer was taken (`BaseOwn`). Without the last, `GateHonest` is not kept by the
  answer to a save.
* `TermsInv`: an answer under way that calls the terms accepted is true of the user
  it was asked for, and stays so, as acceptances do; and the gate is needed only
  when there is a version to accept.
* `BannerInv`: `ResendUsable` itself, with the types; and a banner that is shown
  has had a callback.
* `ProfileInv`: unless users were mixed, a field that differs from the profile
  last seen was typed by the user who is there (`TypedOwn`).
* `AvatarInv`: `AvatarOwn` and the types. No more is needed, because the backend's
  check of the object's owner comes last.
* `ConsoleInv`: who is taken for an admin on an answer about them is one, and a
  save under way holds values of its own account (`SavingOwn`).

Every invariant and action property of a passing run is the subject of a theorem.
Only model-checked are the liveness properties `SpentLeadsToToken`, `Answered` and
`LoadingEnds`: the prover has no rule for fairness. No module uses recursion.

## 5. Where the code and its documents disagree

Two are runs of `PROJECT.json` that end in a counterexample; the others are
configurations beside them to be run by hand, e.g.
`tlc -config EmailLoginBurnt.cfg MCEmailLogin.tla` (`AdminConsolePreference.cfg`
goes with `AdminConsole.tla`).

| Configuration | Property | What happens |
| --- | --- | --- |
| `EmailLoginReplay` | `SingleUse` | two verifies read the row before either commits; both accept the code. `EmailLoginCodeStore.java:66-69` says it can never be replayed |
| `EmailLoginGuessCap` (by hand) | `AttemptsCapped` | same cause: two misses write the same count |
| `EmailLoginStaleIssue` (by hand) | `LatestWins` | same cause: a miss puts the earlier code back over a re-issued one |
| `EmailLoginFirstStart` (by hand) | `StartAlwaysSends` | two first starts insert; the second meets the unique index and its code is not sent |
| `EmailLoginBurnt` (by hand) | `SpentCodeYieldsToken` | a Firebase outage after the code is consumed; the check before it covers only a missing client |
| `AccountIdentityBlockedByDeleted` (by hand) | `DeletedNeverBlocks` | a deleted row keeps its uid; its owner can neither be found nor inserted |
| `AccountIdentityUpgrade` (by hand) | `OneHome` | a uid first seen without an email never gets one stored; the email under a second uid makes a second row |
| `AccountIdentityRelinkRace` (by hand) | `RelinkResolves` | two relinks of one row, or a relink beside an edit of it; the loser's version check ends in a 409 that nothing recovers. The relink of a lost insert's recovery can end so too (the case `InsertRecovers` leaves). `UserService.java:167-171` says it recovers from a violation of the insert and the relink, "so a race resolves to the single winning row" |
| `AccountIdentityUpdateLost` (by hand) | `UpdateFindsRow` | a relink between provisioning and the update: 404 |
| `AccountRecordEnabled` (by hand) | `EnabledStory` | a request that finds nothing to change is not version-checked but appends its event, so the last event can name the state the row is not in |
| `ResilientVerifyKeys` (by hand) | `OutageNever401` | signing keys that cannot be fetched are a `FirebaseAuthException` like a bad token: 401, not recorded, not retried. `ResilientTokenVerifier.java:43-45` says an outage never masquerades as a 401 |
| `HeartbeatSuppressed` (by hand) | `NextRequestRestamps` | a save writes the old `last_active_at` back; the map suppresses the next stamp. (So does a stamp whose commit fails, the map being put before it; and after such a save another instance writes again within the window.) |
| `DevicePushSignOut` | `SignOutDeregisters` | by the time `onAuth(null)` runs, `auth.currentUser` is null, so there is no token to authenticate the DELETE with and none is sent (`push-client.js:511`): the row stays bound to the user who left, until another registers on the device. `push-client.js:11-12` and 503-504 say it is deleted on sign-out |
| `AdminConsolePreference` (by hand) | `PreferenceLeftAlone` | a row of the list has no preference, so the editor shows EMAIL until the detail arrives, and a save before that, or after it failed, sends EMAIL. `admin.js:409-410` says a field is included only when the admin left meaningful content in it |

Others are behaviour the models have without a run of their own, most of them
excluded by a premise of a property:

* `AccountRecord`: `AuditService.java:53` says that `record` "runs in its own
  transaction so the write is atomic and independent". It is `@Transactional` with
  the default propagation, so it joins the caller's, and the event commits or rolls
  back with the edit it describes. `UserService` relies on that, `AuditChain` needs
  it, and the model follows the code.
* `ResilientVerify`: the breaker records the calls a full pool turned away, so
  enough requests at once open the breaker of a healthy instance, whatever their
  tokens are (`OpenedByFaults` counts them as faults).
* `CompletionGate`: the answer to a check is applied whoever is signed in
  (`completion-gate.js:755`): it puts the form over a signed-out page, or decides
  for the next user, whose save is then merged with the other's profile. The
  form's sign-out button uncovers the page before the SDK has signed out, and
  leaves it uncovered if it does not (`completion-gate.js:984`).
* `CompletionGate`, `TermsGate`, `ProfileForm`, `DevicePush`: a user who replaces
  another without a sign-out between (another tab) is not asked about: no check,
  no lookup, no load, no registration. `AdminConsole` does ask, but takes a late
  answer about the first user for one about the second (`admin.js:616`), so a
  non-admin can be shown the console; the backend refuses what they then ask.
* `ProfileForm`: between the SDK's change of user and its callback, what one user
  typed is saved with the token of the other.
* `AvatarPanel`: a user without a picture is shown that of the user before, as
  `showCurrent` changes nothing for them (`profile.js:554`); a picked file stays
  picked over a sign-out.
* `VerifyBanner`: the answer to one user's resend hides or cools down the banner
  of the next (`verify-email.js:474`).
* `AdminConsole`: a page answered after a sign-out fills the list again behind the
  guard. `badges.js`, which is not modelled, shows a late answer the same way.
* `DevicePush`: a POST that fails is not tried again before the next sign-in, and
  one of an earlier user that arrives late binds the token back to them.
* `TourOnboarding`: the mark of an unrecorded completion is the browser's, and is
  flushed as whoever signs in next, although `onboarding.js:5` says "per USER, not
  just per browser". A tab left while its PATCH is under way loses the completion
  when the backend had not taken it, although `onboarding.js:12-14` says every
  failure leaves the mark. Targets that disappear finish a tour nobody finished
  (`tour.js:746`), which is recorded as a completion.

## 6. Not modelled

`PROJECT.json` gives the reason for each component.

* The authentication filter's disabled gate and the resend of verification mails
  on the server (`ResendCooldown`): they hold state worth a model and are left in
  the plan.
* Stateless code: error mapping, headers, validation, health, version, the choice
  of a notification channel, the Firebase read behind the account state.
* Of the web client: history, badges, diagnostics, geolocation and theme (one
  read and its rendering); texts, layout and the placing of the tour's popover;
  the sign-in methods, which differ only in what Firebase is asked.
* Build, deployment, workflows, the Android shell: configuration.
* Of the modelled parts: key derivation for the rate limits, mail delivery, the
  phone identity (every caller passes none), the growth of maps without eviction,
  floating-point rounding.

## 7. Plan

Done: `TokenBucket`, `EmailLogin` with `OneTimeCode`, `AccountIdentity`,
`AccountRecord`, `Heartbeat`, `ResilientVerify`, `DevicePush`, `TourOnboarding`,
and the page scripts composed in `WebPages`, all with their proofs. Left:

1. `RequestChain`: the filter's disabled gate composed with `AccountIdentity` and
   `AccountRecord`: a request of a disabled account changes nothing.
2. `EmailVerification`: the cooldown of a resend on several instances, beside
   `VerifyBanner`, which keeps one of its own.
