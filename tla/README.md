# A verification model of QRSafe

QRSafe makes QR codes. A *static* code carries its payload; a *dynamic* code
carries the link `/r/<slug>`, which the backend redirects to a destination its
owner may change. The repository holds a Go backend (`src/backend`, Postgres and
Redis behind it) and a Flutter app (`src/mobile`).

This directory models the backend with its rate limiter and scan analytics, and the
app's session, scanner, list of codes and generator, in TLA+, model-checks them with TLC
on small instances and proves with TLAPS, for every instance, all the safety properties
that the runs check but one.

## 1. Inventory

| Component | State it keeps | Operations | What must hold |
|---|---|---|---|
| Codes tables (`internal/codes/repository.go`, migration 0002) | `codes`, `dynamic_codes` | insert (static; dynamic in one transaction), set destination, set label, delete with cascade, lookups | a code is dynamic exactly when it has a `dynamic_codes` row; a slug leads to one code |
| Redirect cache (`internal/codes/redirect.go`) | Redis `redirect:<slug>`, TTL one hour | Lookup, Store, Invalidate | never stale without a reason; never stale for ever |
| Codes service and handlers (`internal/codes/service.go`, `handlers/codes.go`) | per request: the row it loaded, the attempt | Create, Get, List, Update, Delete, Analytics | only the owner writes; unsafe destinations never get in; every request ends; a "not found" is true |
| Redirect service and handler (`internal/codes/redirect.go`, `handlers/redirect.go`) | per visit: the target read; `scan_events` | Resolve, 302 or 404, RecordScan (detached) | a visitor goes to the current target, or to one that was current |
| Accounts (`internal/auth`, `internal/users`, `middleware/auth.go`) | `users`; issued tokens | guest, upgrade, verify | an email names one account; an account stays as it is |
| Scan analytics (`service.go`, `repository.go`, `redirect.go`) | `scan_events`; per request the answer so far | record a scan, three queries | every scan counted once; no code shown another's; what an answer's parts have in common |
| List and pagination | none; the cursor is the client's | keyset page of `limit + 1` | no code skipped or shown twice |
| Safety check (`internal/safety`) | Redis verdict cache | Check | the worst verdict wins; never an error |
| Rate limiter (`internal/ratelimit`, `middleware/ratelimit.go`) | Redis counter per IP and window | Allow | at most the limit per window; no one refused for another's requests; counters expire |
| Lifecycle (`cmd/api`, `http/server.go`, `config`, `platform`) | the process | start, drain for 15 s, stop | what it loses is known |
| QR endpoint (`internal/qr`) | none | render | it draws what the app draws |
| Mobile session (`features/auth`, `core/api`) | token store, current user | bootstrap, reset, bearer interceptor | there is a usable token, or an error is shown |
| Mobile codes (`features/codes`) | paged list, one code | refresh, loadMore, optimistic add / remove / replace, edit, delete | the list and the screens agree with the server; nothing loads for ever |
| Mobile scanner (`features/scan`) | the check's result, recent scans | detect, check, reset | the sheet shows the verdict of its own code |
| Mobile generator (`features/generator`) | the form, the screen's preview, the save under way | type, payload, dynamic, debounce, save, leave | what is shown is what is saved, once; a phone reads what was typed |

How they interact: the handlers call the services synchronously, one goroutine
per request; services share nothing in memory, so all interaction goes through
Postgres and Redis. The only asynchronous step of the backend is the scan insert
after a redirect. The app is one isolate: its races are between an `await` and
the callbacks that run meanwhile.

What is hard: the cache is filled by visitors and invalidated by owners with
nothing to order the two; every request makes two to five calls, any of which
can fail, be cut off by the client's departure (`r.Context()`) or lose its
answer; another request of the same owner can change or delete the row between
any two. `PROJECT.json` lists each hazard at its line, with the properties that
cover it, or the reason why none does.

## 2. The modules

| Module | Models | Notes |
|---|---|---|
| `CodeStore` | the two tables and each SQL statement on them | a statement, or the transaction of `CreateDynamic`, is one step |
| `RedirectCache` | the Redis keys | Get, Set, Del, expiry |
| `CodeService` | POST, PATCH, DELETE of codes | one action per call to Postgres or Redis |
| `Redirect` | `GET /r/<slug>` and the scan it records | one action per call |
| `CodesBackend` | the four together, crashes, fairness and the properties | `MCCodesBackend` adds symmetry for TLC |
| `SlugDirectory` | what `GET /r/<slug>` promises, as an abstract specification | current targets and fading ones; no cache, no requests |
| `CodesDirectory` | the refinement mapping from `CodesBackend` to `SlugDirectory` | |
| `Accounts` | `users`, the tokens, and the guest and upgrade endpoints | `MCAccounts` gives addresses that differ in case only |
| `MobileSession` | the app's token store, `AuthController`, interceptor, router and splash screen | checked with its own `.cfg` |
| `SafetyService` | the checker, its verdict cache, `POST /scan/check`, releases | a call to Redis is one step |
| `ScanFlow` | the app's scanner, result sheet and recent scans, over `SafetyService` | `MCScanFlow` gives the URLs and blocklists |
| `CodesList` | the app's codes: the paged list, the details of single codes, the generator's save, Clear local data; the guests' codes and their pages on the server | `MCCodesList` adds symmetry for TLC |
| `Payloads` | what a code holds, its JSON, the app's encoder and the server's; readers of the three formats | operators only |
| `Generator` | the form, its screen, the saves and their sheet, over `Payloads` | `MCGenerator` gives the texts |
| `RateLimiter` | the limiter of `/api/v1`: the clock, the counters in Redis, the middleware | checked with its own `.cfg` |
| `ScanAnalytics` | scans from the 302 to the owner's analytics, over `CodeStore`, and the server's life | `MCScanAnalytics` gives the visitors |
| `CodesBackendProofs`, `AccountsProofs`, `MobileSessionProofs`, `ScanFlowProofs`, `RateLimiterProofs`, `ScanAnalyticsProofs`, `GeneratorProofs`, `CodesListProofs` | the inductive invariants and the theorems | checked by TLAPS |

### The codes backend

**State.** `codes[i]` and `dynamic_codes[i]` are rows by id, `Absent` when there
is none; `cache[s]` is a Redis value or `Absent`; `api[r]` is what a request's
goroutine holds between two calls (`pc` names the call it makes next);
`visits[v]` likewise for a visitor, and after the 302 for the goroutine that
records the scan. `minted` remembers the ids Postgres has drawn, because a UUID
is not drawn twice. `overtaken` and `excused` are history: they name why an
entry may be stale and guard no step.

**Steps.** The first call of a request is merged with its arrival: until then it
holds nothing. After it, every call is a step of its own and every other
goroutine may run in between. The safety check sits between `GetByID` and the
write; it reads none of these variables, so it is evaluated with the first call.
Each call has its failures: it fails without effect (`FirstCallFails`,
`StatementFails`, `LookupFails`, `ResolveFails`, `StoreFails`,
`InvalidateFails`, `RecordScanFails`), or takes effect while its acknowledgement
is lost (`CreateStatic`, `CreateUnacked`, `LabelUnacked`, `WriteUnacked`). A Redis
call whose acknowledgement is lost has the outcome of one that worked: its error
is only logged. `Crash` drops every goroutine and keeps Postgres and Redis; a
shutdown that outlasts its 15 seconds is such a crash.

**Left out of the data.** Types and payloads (only `payload.url` matters, as the
first destination), timestamps, wording, IP hashes, user agents. A malformed
body or id is refused before any state is touched; it is the `refused` or
`not_found` answer with no further effect. `safety.Service.Check` is the
constant set `Malicious`.

**The abstract directory.** `SlugDirectory` knows for each slug its current
target and the former ones that are still about (`fading`): in the cache, or held
by a visit. `Relink` changes the target and makes the old one fade, `Fade` forgets
a former target for good, `Send` takes a visitor to the current target, to a fading
one, or to the 404 page. The mapping reads the target from the tables and the
fading ones from the cache and from the visits about to store; a visitor is sent
when it is answered.

### The rate limiter

`Allow` reads the clock, which chooses the counter, and increments that counter in
Redis some time later; between `Arrive` and `Judge` the clock may move into the next
window. `counters[k][b]` is the value under `ratelimit:<k>:<b>` with the second its
TTL ends, `Absent` when there is no key. The pipeline of `INCR` and `EXPIRE` is not a
transaction: `AnswerLost` runs one or both and loses the answer, after which go-redis,
which is not in the repository, sends the pipeline again (the client is made with its
defaults, and they retry), or gives up, which is `FailOpen`. A request that fails open
before anything ran is the same action. `gate[r]` is a request and the count that
judged it; `tries` and `late` are history. One clock stands for the API's and for
Redis's; the gap between them is at most one request's delay.

### Scans and analytics

`visits[v]` is the goroutine that `Redirect` starts for a scan, `scan_events` the
table, `reports[a]` an analytics request with what it has read so far. The column
`code` is not in the table: it remembers whose destination the visitor was sent to,
which may be an earlier holder of the slug (its cached target), so `Redirect` takes any
code that has held the slug. The row itself has the slug only, and `Delete` leaves it.
The calls of `CodesBackend`'s visit are one step here, and a creation is its INSERT:
what decides who has a slug are the statements of `CodeStore`, which both use.

The server is up, draining or down. `Stop` is the signal: requests under way are still
served, and for them `Ask`, `Redirect` and the owners' statements stay possible.
`Drained` is `Shutdown` returning once no request is under way; it knows nothing of
the goroutines that record scans. `Killed` is the 15 seconds running out, or the
process dying. `held`, `redirected`, `lost` and `since` are history.

### Accounts

`users[u]` is a row; `tokens` the tokens that have not expired; `api[r]` an upgrade
under way, between its `GetByID` and its `Update`, where the password is hashed.
Addresses are compared through `Fold`, as CITEXT does. A token is what the
middleware verified at the request's start: it is not asked again. A failing
statement, a lost acknowledgement and a crash each have their action. The hash
itself is left out: a password is a value.

### The app's session

The app is one isolate, so only an `await` ends a step. `boots[r]` is a coroutine
of `_bootstrap` or `resetGuest` and what it awaits; `auth` is the provider's
`AsyncValue` and the coroutine whose result it takes; `store` is the token in
secure storage; `calls[c]` a screen's request, from its start to its answer.

Two facts about Riverpod, which is not in the repository, are taken from how the
code uses it: `ref.invalidate` runs `build` again while the coroutine under way
goes on, its result dropped; and a refreshed error is still an error to `when`, so
the splash screen keeps showing its Retry button. Hence coroutines may overlap.
`stray` and `overtaken` are history: they say that a coroutine left behind has
written the token, and that a request was caught by this or by a reset.

The backend's part is `guests` and `live`: the users it has provisioned, and those
whose token has not expired. A token has the claims `sub` and `is_guest`.

### The scanner and the safety check

`checks[k]` is a request to `/scan/check` from the client's sending to its answer or
its loss; `verdicts[u]` the Redis value under the URL's hash; `blocklist` that of the
release that runs. A URL is the record of what `HeuristicChecker.Check` looks at:
whether it parses, the kind of its scheme, the domains its host lies in and the
signals it shows; `Reasons` and `VerdictFor` are the checker. `Deploy` starts a release
with another blocklist; what the old process had not answered is lost. A process
that drains first is the schedule in which the answers come before `Deploy`. The
checks that codes' destinations get use the same cache; they are further requests
that no sheet waits for.

`scanner` is `_onDetect` and what it awaits, `pc = "ready"` meaning that `_handling`
is false. `scan` is the `AsyncValue` of `ScanController`. Riverpod, which is not in
the repository, carries the previous value along when a notifier sets a loading
state or an error, and `valueOrNull` reads it, so `scan` has a state and a value.
Nobody reads the provider before `scanner_screen.dart:58`, where the first check is
called: `scan` starts `"unread"`, that call is what starts `build`, and its `data(null)`
comes as a microtask after `check` has set the loading state (`Checking`).
The check is not awaited: `Answered` and `Failed` set `scan` whatever the screen
shows. `stop()` and `start()` may throw; the first leaves the guard set (`"wedged"`),
the second clears it with the camera off. `hasty` and `first` are history: some check
was under way when a sheet was last dismissed; the sheet is the first since the launch.

### The app's codes

Codes are numbered as `(created_at, id)` orders them, and `server[i]` is what code
`i` says: what an edit can change, label or destination, is one value, because
`updateLabel` and `updateDestination` differ in nothing else. A cursor is the
position of a page's last code. `calls[k]` is a request of the app, with the two
instants that matter: when the server acts (a PATCH writes first and reads the row
again later) and when the controller takes the answer. `before` is what `loadMore` or
an edit read before its `await` and uses after it.

From Riverpod, which is not in the repository, the model takes what the code relies
on: setting an error keeps the value that `valueOrNull` reads; the first `ref.read` of
the list's notifier starts `build`, whose page replaces what `optimisticallyAddCode`
has put there meanwhile; a family member that was built once is kept.

A call carries the token of the guest who was there when it was made (`by`), and every
query of the server is for one guest. `ClearLocalData` is the settings screen's: it
makes the app another guest (the failures of `resetGuest` are `MobileSession`'s) and
leaves what `CodesList` keeps as it was, calls under way included; none of the codes'
providers watches the session.

`adrift` and `blurred` are history. They say that calls crossed whose effects on the
list, or on one code, undo each other, that the answer to a write was lost, or that
the guest changed; a reload of the list that crosses nothing, or an edit that goes well alone, puts things
right.

### The generator and the encoders

A text is a sequence of characters, because that is what escaping is about; `"://"`,
`"https"` and the keywords of the formats count as one each, and so does the code
after a `%`. The order of `VcardEscape`'s replacements, the trimming of `FromJson` and
the dropped password of an open network are the code's. `Chars` may be any set that holds
the formats' own characters and keywords. The readers know nothing of the encoder: each
goes through the text once, character by character, and ends a word at a separator that
no mark precedes.

`form` belongs to the provider and outlives the screen; `screen` is the widget's state
and starts anew; `saves[k]` is a call of `_save`, `here` its `mounted`. Leaving cancels
the debounce and unmounts the calls. The sheet is modal: nothing is touched or left
while it is shown, and `_saving` stays true. `copies` and `astray` are history, since
the form was last reset. The list that a save adds to is `CodesList`'s. Setting the
colour does what selecting the selected type again does; the label does nothing here.

## 3. Runs

All runs use 2 workers; each passes within two to three minutes or stops at its
counterexample within seconds.

| Run | Question | Instance | States |
|---|---|---|---|
| `redirect_cache` | do two users' requests, with failures and lost acknowledgements, keep the tables right and each other's codes untouched? can the cache be stale for no reason, or serve a refused destination? does the backend implement `SlugDirectory`? | 2 users, 2 requests, 1 visit, 1 slug, 2 ids, 3 destinations (1 malicious), all faults | 222 000 |
| `converges` | does everything end, and does the cache catch up? | 2 requests, 1 visit, 1 slug, 2 ids, fairness, no faults | 377 000 |
| `stale_patch` (violation) | is a PATCH visible to the next visitor? | 1 request, 1 visit | 9 steps |
| `accounts` | does an address name one account, do tokens tell the truth, is an upgrade all or nothing? | 3 requests, 2 users, addresses that fold together, all faults | 84 000 |
| `session` | do screens, storage and requests agree on the user, and does the splash end? | 3 guests, 2 coroutines, 2 requests, network, storage and app fail, fairness | 691 000 |
| `scan` | do sheet, list and cache tell the truth about their URL, does each wait end, does a blocklist take effect? | 2 links, 1 code of blanks, 2 checks, 2 releases, list of 2, all faults, fairness | 719 000 |
| `scan_sheet` (violation) | does a sheet show its own code's verdict? | 2 links, 2 checks, 1 release, no faults | 10 steps |
| `codes_list` | do the list and a code's screen agree with the server after answers in any order, and after Clear local data? does anything load for ever? | 3 codes of 2 guests, pages of 1, 1 code's screen, 2 calls that are alike, network faults | 3 748 000 |
| `generator` | do preview, form, Save button and sheet agree while saves outlive their screens? does a phone read what was typed, and does the server draw the same? | 5 types, 2 of them filled in, 2 saves, no answer or a refusal; 3 800 payloads for the encoders, fields of up to 4 characters | 723 000 |
| `rate_limit` | does the limit hold at the edge of a window, with pipelines sent twice? is anyone refused for others' requests? do counters stay for ever? | 3 requests, 2 addresses, limit 2, windows of 2 s, 1 s of delay, 2 tries, 5 s, fairness | 2 002 000 |
| `analytics` | is every scan counted once, and for no other code that exists? what do the parts of an answer have in common? | 2 codes, 1 slug, 2 visits, 3 scans by 3 kinds of visitor, 2 days, 1 report, 1 user agent listed, faults and restarts | 2 450 000 |
| `valid_token` (violation) | is a valid token used? | 1 coroutine, 2 guests, no faults | 9 steps |

**Bounds.** `IdLeft` stops creations when ids run out: with two ids a slug can be
created, deleted and drawn again by another code, the only way ids matter to
the cache. One slug is enough for the cache, since no step moves an entry or a
target between slugs, and one visit, since visits meet only in the cache (the proofs
are for any number of either); a creation collides while another code holds the slug,
and may succeed once that is deleted. `MaxSlugAttempts` is 2 instead of 5: retry and
exhaustion both happen. `MaxScans` counts scans; 0 leaves only the loss of one, 1
both outcomes. Three destinations: an old one, a new one and a malicious one.

`UserIds` and `Guests` run out: no more users are then created, and a guest's
creation fails. Two users and three requests are two upgrades of one guest with a
third, or of two guests with one address. Two coroutines are a bootstrap and the one
that Retry left behind; three guests let each be provisioned one and a third follow.

Two checks are the one of a dismissed sheet and the one of the sheet that follows;
`Detect` waits for a free slot. A list of two entries is full after two scans. The two
links differ in that one is on the second release's blocklist, and suspicious besides,
so that the three verdicts occur.

Pages of one code put every code on a page boundary; with three codes there are
pages with and without a next one, and one to be created beyond them. Two calls are
the least that cross, and enough for every pair. `Opened` says whose screens are
opened: the second code's, which may be the newest, the middle or the oldest one
read. The other codes are created and listed; they are not edited or deleted.

Two guests are the one before and the one after Clear local data; a third would only
do it again. Calls of the first that end under the second occur.

Limit 2 with three requests: one address reaches the limit, passes it, or both
addresses share the requests. The last second leaves room for every counter to expire,
so requests come in during the first two windows; a delay of one second lets each be
judged within its window or in the next one. Two tries are the first and a repeated
one.

One slug for two codes is the slug drawn again, whose scans mingle; visits of two codes
meet in nothing else. Three scans and two of them at a time: a report can miss one,
include one, or fall between two. Two user agents that are named and one place in the
list make ties and an order to get wrong; two days, a scan recorded on the day after
its redirect.

Two saves are the one of a screen that was left and the one of the next screen; more
would only wait for a slot. A form takes a payload that can be saved, one that cannot,
and one whose fields hold separators and edge blanks. The encoders work character by
character and look at most two characters back, so texts of two to four characters over
all of a format's special ones meet every combination; of those treated alike (`;`, `:`
and the rest) some stand for all. For longer texts, and any characters, there is the proof.

**Fairness.** Weak fairness of every request and visit under way, and of the
expiry of every entry. A goroutine is always scheduled, and every call returns:
Postgres and Redis calls have their clients' timeouts or the request's context,
and the scan has its 500 ms. No request has to arrive. Redis removes a key whose
TTL is up, or treats it as gone. `EventuallyConsistent` assumes that owners
eventually leave their codes alone; it says nothing about how soon.

In the session, weak fairness of each coroutine: Dio gives up after 10 s to connect
and 15 s to receive, and the keystore answers or throws. No user has to tap, and no
screen to ask. The interceptor's own read is taken to succeed: if it throws, Dio
decides whether the request ever completes, and Dio is not in the repository.

In the scanner, weak fairness of each check under way (Dio's timeouts again, on the
client), of the camera's answers, and of the expiry of each verdict. No one has to
dismiss a sheet or to release anything; `BlocklistTakesEffect` assumes that releases
stop.

In the limiter, weak fairness of the clock, of each pipeline (go-redis gives up after
its timeouts and retries) and of the expiry of each counter. No request has to arrive.

`ScanAnalytics`, `CodesList` and `Generator` need none: `NothingHangs` and `SavingIsReal` are invariants,
and that each call ends is what Dio's timeouts give.

## 4. Properties

- `StaleIsExplained`: an entry that disagrees with Postgres has one of three
  causes: a request still owes its invalidation; the invalidation was lost (a
  Redis error, a lost acknowledgement, a crash); or the visit that stored it read
  Postgres before the change and stored after. Together they are the list of
  what a fix has to address.
- `NoUnsafeTarget`: what the safety check refuses is never stored, cached or
  served, though it is asked only once, before the write.
- `OnlyOwnerWrites`: a code is changed or removed only by a request of its owner
  that names it, although `UpdateDestination` has no user in its WHERE.
- `RowsAgree`: `is_dynamic` and the `dynamic_codes` row agree, and slugs are unique.
- `NotFoundIsFinal`: a request that found its code and is then told "not found"
  speaks of a code that is gone for good. So a PATCH answered 404 after it had set
  the destination leaves nothing half-applied.
- `ImplementsDirectory`: a visitor reaches the current target or a former one that
  something still holds; once nothing holds a former target it never comes back. It
  is the strongest promise the code keeps.
- `EmailNamesOneUser`, `TokensHold`, `SettledForGood`, `CredentialsTogether`: an
  address, under folding, names one account; a token names a user, and an account's
  token an account; an account nobody is upgrading never changes; address, password
  and flag change together, to what one request sent. "Nobody is upgrading" is needed:
  the check of `is_guest` and the update are two statements, so of two overlapping
  upgrades of one guest both succeed, and the second replaces the first's address.
- `ReadyHasToken`, `CallsCarryTheirUser`: while screens are shown a token is stored
  and it is their user's, and a request carries the token of the user on whose
  screen it was started. Both name their exceptions: a reset that overtakes a
  request, and a coroutine left behind by Retry. The latter is real: fail once, tap
  Retry twice, and the first coroutine may store its guest's token after the second.
  Without the exception TLC refutes `ReadyHasToken` in 11 steps.
- `PatientUserSeesOwnScan`: a sheet shows progress, error or verdict of the code it was
  opened for, and that is what is recorded, unless a check was under way when a sheet
  was last dismissed. It covers the value that Riverpod carries into the loading state.
  The first sheet after a launch shows nothing instead of progress: `build`'s null has
  replaced the loading state (`scan_controller.dart:23` and 29), and the sheet draws null
  as an empty box (`scan_result_sheet.dart:44`). The comments say "loading -> spinner"
  (`scan_controller.dart:15`) and "shows a spinner while the check runs"
  (`scan_result_sheet.dart:13`); the property says what the code does, so it passes. With
  `"loading"` in place of its `IF first`, TLC refutes it in three steps.
- `VerdictsHold`: in the cache, an answer, the sheet or the list, a verdict is one
  that some release gives that very URL.
- `ListAgrees`: the list is the server's, newest first, nothing skipped or shown twice
  down to the cursor. It names its exceptions, and they are the list of what "without
  a refetch" costs: a `loadMore` or a reload that crosses a write or the other, two
  saves or two edits of one code that cross, a write whose answer was lost, a code
  added to a list that has not been read, Clear local data. Leave any one of them out,
  and TLC refutes the property. After Clear local data the list is the former guest's,
  and answers to that guest still come into it; the next refresh makes it right.
  Nothing in it says that a list with no code left on the screen has no more: delete
  the codes read so far one by one and the screen says "No codes yet", because only the
  list that it then does not build asks for more (`codes_list_screen.dart:45`).
- `DetailsAgree`: a code's screen shows what the server has, whatever was rolled back,
  unless two edits crossed or an answer was lost.
- `NothingHangs`: a spinner, and the flag that keeps `loadMore` from overlapping, belong
  to a call under way.
- `PreviewTellsTheForm`, `SheetReads`: what is previewed is on the form, and what is
  downloaded was on it when Save was tapped, through JSON and server and back, but for
  blanks at the edges and a misread recipient. The exceptions are real: a screen entered again shows no preview
  of the form it has kept; and `fromJson` trims a network's name and password, so that
  with such blanks the saved code differs from its preview
  (`generator_controller.dart:48`).
- `SavingIsReal`, `SavedOnce`, `DraftSurvives`: the Save button waits for this screen's
  save only; a form makes one code, unless a save was left behind or got no answer; what
  was left behind never touches the next draft.
- `CodecsAgree`: a phone reads back every field, whatever it holds, except a `?`, `%` or
  `#` in an email's recipient, the one field that is not encoded
  (`payload_encoder.dart:54`). The model's reader does not cut at a `#`, as a mailto
  reader does, so a recipient with one is left out of the claim; the server draws every url that the app can save, and the
  same way.
- `WindowBound`: of the requests of one address that are judged in the window they came
  in, at most `Limit` pass. The condition is real: a request judged after its window may
  find the counter expired, count from one and pass. So is the `open` request that no
  one counts. Between them they are what "fixed window, failing open" gives away.
- `NoUnjustBlock`: a refused request had more than `Limit` increments of its own
  address's counter in its own window; other addresses and earlier windows never add
  to it, refreshed TTL or not. It is stated in increments because it has to be: a
  pipeline sent twice counts one request twice, and `Limit` requests can then refuse the
  next one early.
- `CountersGo`: counters are gone in the end, except one that counted a request which
  failed open: `INCR` may have run, `EXPIRE` not, and no later request came to set it.
- `ScansAccountedFor`: each 302 is one row, one goroutine that has not recorded it yet,
  or a loss with a cause (a failed insert, the 500 ms, the end of the process). The
  server drains its requests but not these goroutines, so a restart loses scans
  silently; none is counted twice.
- `OwnScans`: of two codes that exist neither shows a scan of the other's. It is not
  "every scan shown is the code's": a slug drawn again brings the scans of its former
  code along, as `scan_events` is keyed by the slug alone.
- `ReportAgrees`: the three queries see three moments, so an answer's parts need not
  agree. What holds: it leaves out nothing that was recorded before the request, counts
  nothing that was not recorded when it ended, the days add up to the total or more,
  there are no more visitors than scans, and no user agent is left out that had more
  scans when the request began than a listed one has in the answer.
- `RequestsEnd`, `EventuallyConsistent`, `BootstrapEnds`, `SpinnerStops`,
  `BlocklistTakesEffect` and `CountersGo`: liveness, above. `EventuallyConsistent` is
  checked without faults: a lost invalidation is
  `StaleIsExplained`'s matter.
  `SpinnerStops` covers the first sheet too, whose emptiness must end like a spinner.

**Three disagreements with what the repository says**, each a run that TLC refutes (a
fourth, the first sheet's missing spinner, is part of `PatientUserSeesOwnScan` above).

- `ResolveIsCurrent`: with no failure and every request finished, a PATCH may remain
  invisible until the TTL: a visitor misses, reads the row, the owner's request writes
  and invalidates, the visitor stores what it read. After a DELETE in place of the
  PATCH the deleted code's link is alive again for as long.
- `ValidTokenIsKept`: the app looks for the claim `uid`, which the backend does not
  sign. Every launch provisions a new guest and overwrites a valid token.
- `SheetShowsItsCode`: one state serves all sheets, and `reset` does not cancel the
  check under way. A sheet dismissed early hands its answer to the next one.

## 5. Proofs

`CodesBackendProofs` proves, for any sets of users, ids, slugs, destinations,
requests and visits, any `MaxSlugAttempts`, any faults:

| Theorem | Property |
|---|---|
| `Invariance` | `Inv`, the inductive invariant |
| `TypeCorrectness`, `TablesAgree`, `CacheCoherence`, `SafetyGate` | `TypeOK`, `RowsAgree`, `StaleIsExplained`, `NoUnsafeTarget` |
| `OwnerOnly`, `NotFoundTruth` | `OnlyOwnerWrites`, `NotFoundIsFinal` |

Assumptions: `AbsentIsNil` (`Absent` is no value), `ServiceAssumption` and
`RedirectAssumption` (the constants' types).

Why `Inv` is needed. `StaleIsExplained` alone is not inductive: a request about to
invalidate could hold the wrong slug, and a visit about to store could hold
anything. `RequestsCarry` says that the slug a request loaded is still its code's
slug as long as the row exists, which needs `RowsMinted` (an id is not drawn again)
and `RowsAgree` (one row per slug). `VisitsCarry` says that a visit holds its slug's
current target unless it was overtaken. `NoUnsafeTarget` needs both: the
destination a request carries has passed the check. For the two action properties
`OwnersHold` adds that the code a request is at work on still belongs to its user.

The argument goes by the effect of a step. The lemmas `...Effect` say of each
statement on the tables which slugs it redirects: none but the code's own.
`RequestStepInv` and `VisitStep` then show that any step of one request or visit
with such an effect keeps `Inv`, and each action is shown to be such a step.

`CodesBackendProofs` also proves `DirectoryImplemented`: `Spec` implements
`SlugDirectory`. Each step of `CodesBackend` is classed by its effect: one that
relinks a slug, one that answers a visitor, one that lets an entry or a visit go, and
one that leaves the mapped state alone; a lemma per class shows that the mapped step
is the abstract action or a stutter. `Inv` supplies the only hard fact, that what is
cached or held is the current target or a fading one.

`AccountsProofs` proves `AccountsInvariance` and from it `AccountTypes`, `EmailUniqueness`,
`TokenTruth`, `SettledAccounts` and `OneUpgradesCredentials`, for any `Fold`. The
strengthening says what an upgrade under way knows: its user existed at its check.

`MobileSessionProofs` proves `SessionInvariance`, `SessionTypes`, `ReadyTokens` and
`CallsTokens`.
`AuthHolds` ties the provider's state to the coroutine it awaits and says that a
reset is never left behind, so no other coroutine clears a token that screens rely
on; `AttachHolds` says that a request still waiting for its token is on a screen of
the current user. The assumption `SessionAssumption` separates `Absent` from guests,
coroutines and tokens.

`ScanFlowProofs` proves `ScanInvariance`, `ScanTypes`, `PatientUser` and `VerdictsSound`, for any
URLs, blocklists, codes, checks and length of the list. `ChecksHold` says that an
answer is about the URL that was asked, which makes `VerdictsHold` inductive; `OwnHolds`
that a sheet's check asks about its code, and that without a hasty dismissal no other
check is under way and no value left over, which makes `PatientUserSeesOwnScan` so. The
assumptions are `SafetyAssumption` and `ScanAssumption`, the constants' types.

`RateLimiterProofs` proves `LimiterInvariance`, `LimiterTypes`, `AtMostLimitPass`
(`WindowBound`) and `RefusedForCause` (`NoUnjustBlock`), for any limit, window, delay,
number of tries and finite set of requests. That at most `Limit` pass is a counting
argument: the requests that pass in time are judged by different counts
(`CountsDiffer`), all from `1 .. Limit` (`RequestsHold`), so there are no more of them
than that. The counts differ because a counter never falls back while its window lasts
(`CountersRemember`), and it does not because its TTL, set at a second of the window
or later, ends after it (`CountersOutlive`). The other way round, a count is made of
increments of its own address and window (`CountsAreHits`). The lemmas on `Bucket`
(monotone; a window's seconds are those below the next multiple) carry the arithmetic.
The assumption is `LimiterAssumption`, the constants' types.

`ScanAnalyticsProofs` proves `AnalyticsInvariance`, `EveryScanCounted`
(`ScansAccountedFor`), `ScansOfOneCode` (`OwnScans`) and `ReportsAgree` (`ReportAgrees`),
for any codes, slugs, clients, days and reports, and a finite set of visits. `OwnScans`
follows from two facts: who ever had a slug and still exists has it now, and one code at
most does (`SlugsHold`, which rests on ids not being drawn again and on the UNIQUE slug);
and a scan, recorded or not yet, is of a code that has had its slug (`RowsHold`).
`ScansAccountedFor` is inductive beside the finiteness of the rows and their numbering.
`ReportsAgree` rests on a report's three queries seeing three sets of rows, each within
the next, all between the rows there when it was asked for and those there now. What
compares two queries is then about cardinalities of subsets; that the days add up
(`DaysAddUp`) is a bijection of the rows with the days and the numbers up to each count; and that no user agent is
left out which was ahead (`LeftOut`) follows from the ranks, which run from 0 without a
gap, so that a place beyond the limit means a full list (`TopIsFull`). The assumptions
are `AbsentIsNil` and `AnalyticsAssumption`.

`GeneratorProofs` proves `GeneratorInvariance` and from it `GeneratorTypes`,
`PreviewTells`, `SavingReal`, `SavesOnce` and `DraftsSurvive`, for any types, any texts
typed and any number of saves under way. The strengthening says which save the screen
waits for (one that is still `here`), that a save carries what the form held when it
began, and that unless something went astray the one code made is that save's. About the
encoders it proves `PlainReads` (a url or a text of any length is read as it was typed,
completed), `WifiReads`, `VcardReads` and `EmailReads` (every field is read as it was
typed, whatever separators, marks, line breaks and keywords it holds, but for an email's
recipient with a `?`, `%` or `#`), and from them `CodecsTrue` (`CodecsAgree`, the server's
drawing included) and `SheetsRead` (`SheetReads`). The assumptions are `CharsAssumption`,
`GeneratorAssumption` (the texts are payloads of their type) and `AbsentIsNoText`.

The encoders and readers go along a text, so their theorems need induction over texts.
The library's induction rules take an operator and are out of reach; `EveryText` states
the rule for a set instead (a set of texts that holds the empty one, and each longer one
if the shorter, holds all), from the well-founded order of the naturals, and each use
names the set of texts that satisfy what is to be shown. `StepByStep` gives the functions
by which `MapChars` and `Scan` are defined, `MapOneMore` and `ScanOneMore` what one more
character does.

The argument goes through one relation. `Says(w, u, format, sep)`: read within a word, w
adds u to it and leaves the reader unmarked and in the same word. It holds of a plain
character, of a marked one and of one text after another, hence of what `WifiEscape` and
`EncodeComponent` make of any text (`SaysMapped`). `VcardEscape` is four passes; as each
takes a text apart where it was put together (`ReplaceBoth`), the four come down to single
characters (`EscapeOne`), and there the order of the passes is what makes the backslash
come out once. Then a format's text is put together from its parts: which words have been
read after each (`Parsed`, `NextParsed`), which of them has a field's key and no other has
(`Value...`), whence the field. What is stored is trimmed on the way back (`StoredReads`);
a url was completed before, and completing it again changes nothing (`CompletedOnce`).

`CodesListProofs` proves `ListInvariance` and with it all that the run of the list
checks: `ListTypes`, `ListNeverHangs` (`NothingHangs`), `ScreensAgree` (`DetailsAgree`)
and `ListTrue` (`ListAgrees`), for any number of codes and guests, any page size,
contents and finite set of calls. It goes in three layers, each of which only uses the
ones before.

1. `Holds1`: types, `StateHolds`, `NothingHangs`. What a call is about was made, a screen
   that edits or deletes shows its code, creates fit under the bound. A lemma per action
   (`...Types`) says in passing what the slot of its call becomes, and the later layers
   need no more of the action than that.
2. `Holds2`: `CrossingsHold` (two calls that cross both know it), `EditsHold` and
   `DetailsAgree`. What an edit read before, and the row it is answered with, are what
   the server has, unless another edit of the code crossed it: so neither the rollback
   nor the answer can leave a screen wrong.
3. `Inv`: `ReloadsHold` and `ListHolds`. The list is not `Faithful` while writes are under
   way; it is `Current`: faithful but for the codes `Coming`, `Changing` and `Going`, whose
   calls are yet to tell it. Each step of the server moves a code into one of these sets,
   each answer takes it out and mends the page: the newest code goes on top, since its
   number is above all that are listed and no other create is under way; a row takes its
   code's place; a page of loadMore is what follows the page it read (`Follows`,
   `BothTell`). A reload that crossed nothing is alone with the list (`ReloadAlone`), as
   is a loadMore with the writes (`WriteAlone`). With no call under way the three sets
   are empty, and `Current` is `Faithful`.

The facts about data are few: what `InOrder`, `PageAfter`, `Replaced`, `Without` and the
concatenation of two pages contain and how they are ordered. The assumptions are
`ListAssumption`, whose set of calls is finite as the model caps the creates by counting
them, and `AbsentIsNoPage`.

Two theorems say more than the run: `ListTrueMeanwhile`, that the list is `Current` at every
moment and not only when no call is under way; and `RefreshTrue`, that a refresh which
nothing crossed shows what the server has, however far the list was adrift before.

Only model-checked: the liveness properties, `RequestsEnd`, `EventuallyConsistent`,
`BootstrapEnds`, `SpinnerStops`, `BlocklistTakesEffect` and `CountersGo`, which are out of
the prover's reach. Every other property that a passing run checks is a theorem.

The inductive invariants (`Inv`) stand at the head of the proof modules. They are no
properties of the runs, since they follow from the theorems; each can be checked with TLC
on its run's instance, from a module that extends the run's and the proofs'.

## 6. Plan

1. *Done:* the codes backend; `SlugDirectory` and its refinement; `Accounts`;
   `MobileSession`; `SafetyService` and `ScanFlow`; `RateLimiter`; `ScanAnalytics`;
   `CodesList` with its guests; `Payloads` and `Generator`; the proofs of all these.
2. *Open:* breadth, that is, the parts that section 7 names. Of what the passing runs check,
   liveness alone has no theorem.

## 7. Not modelled

Status `not_modelled` in `PROJECT.json` gives the reason per component: wiring,
configuration, logging, theming, layout and image rendering keep no state and are left
out. Time is modelled in the limiter only; elsewhere a TTL may run out at any moment,
so no property says how long an entry lives. In the limiter Redis loses a counter by
its TTL only, not by a restart or eviction; headers, the time to retry and a limiter
that is switched off are left out. The limiter's key is what `clientIP` returns, an
`X-Forwarded-For` included, and nothing is said about who sent it. A button that
`setState` disables is taken to be disabled at once, where the app needs the next frame
for it.

Three hazards have no property, since the code promises nothing there: a camera whose
`stop()` throws stays wedged until the screen is entered again (`ScanFlow`'s
`StopFails`); a token that expires while the app runs is not replaced
(`MobileSession`'s `Expires`); and a list whose last code on the screen was deleted
looks empty though its cursor points at more (`CodesList`'s `LoadMore`, which an empty
page does not enable). Postgres is taken
to run each statement, and `CreateDynamic`'s transaction, atomically; the UNIQUE
index makes a concurrent insert of the same slug wait for the other transaction,
which is the order in which the model runs them.
