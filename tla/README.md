# Tally Portal: specifications, model checking and proofs

Tally Portal keeps a copy of a company's TallyPrime books on a server, lets
people read and edit them in a browser or on a phone, and keeps the two sides in
step through a *Desktop Sync Agent* that runs beside TallyPrime. The code is in
`src/`:

* `src/backend/` - the server, Python on FastAPI and MySQL;
* `src/desktop-sync-agent/` - the agent, Python on the customer's PC;
* `src/frontend-nextjs/` - the web client (TypeScript, React), and the phone app
  around it (Capacitor, with an Android service of its own).

This directory holds TLA+ modules of the parts in which something can go wrong
that a test hardly reaches, TLC configurations that check them on small
instances, and TLAPS proofs of the most important results. `PROJECT.json` maps
each definition to the lines it was translated from.

To check: `tlc -config MCIdempotency.cfg MCIdempotency.tla` (and so on for the
runs below). To prove: `tlapm M.tla` for `IdempotencyProofs`,
`InboundUploadProofs`, `OutboundQueueProofs`, `InboundSyncProofs`,
`OfflineQueueProofs`, `ClientSessionProofs`, `CheckoutProofs` and
`ScreensProofs`.

## 1. Inventory

### How the parts interact

```
 TallyPrime  <--XML-->  Desktop Sync Agent  --HTTPS-->  backend processes  <--> MySQL
   (external)           floor, cursor on disk           write idempotency
                        probe, pass in memory           upload receipts, company guard
                                                        response caches, sessions
                                                               ^
 browser tabs: token, company, profile in localStorage --HTTPS-+
   (shared), each with its own memory; the fetch wrapper       |
   adds the company and an idempotency key to each write       |
 pages:  voucher form - order desk - checkout (+ gateway) -----+
         offline queue in IndexedDB (shared by the tabs) ------+
 phone:  watcher of the app, Android service -------- pings ---+
```

*Inbound.* Every cycle the agent asks the portal for its highest AlterIDs,
exports from Tally what is above them, and uploads collection after collection
(`POST /sync/inbound`); the server imports one upload of a company at a time.

*Outbound.* A change made in the browser becomes a row of `sync_queue`. The
server pushes it to Tally itself when it can reach it; otherwise the agent
fetches the pending rows, sends them to Tally and acknowledges them.

*Reconciliation write-back.* Bank dates set in the portal are written onto
Tally's vouchers by the agent, which checks that the voucher has not changed.

*Web client.* Every request goes through a wrapper around `fetch` that names the
company, gives writes an idempotency key (the same body sent again within three
seconds has the same key) and ends the session on a 401. What is entered without
a connection waits in IndexedDB, which all tabs share, and is sent by whichever
pages are open. A payment runs through the page, the gateway's window and the
gateway's webhook. A field worker on shift is followed by a service that outlives
the app.

### Components

| Component | State it keeps | Operations | What is hard | What makes it correct | Module |
|---|---|---|---|---|---|
| Write idempotency (`core/idempotency.py`) | futures in flight by fingerprint, stored responses | a write arrives, waits, is replayed, runs, ends | overlapping identical writes, failure of the one waited for, retries after a timeout | carried out once; a replay is that request's response; nobody hangs | `Idempotency` |
| Upload receipts (`services/inbound_receipts.py`) | one row per key: payload hash, state, attempts | begin, finish, release, purge | two tries insert or take over together; a backend dies; an import outlives its receipt | a replay means imported; one run per attempt; no blocked key | `InboundUpload` |
| Company guard and `sync_lock` (`core/sync_guard.py`, `routers/sync.py`) | set of companies in the process, a MySQL named lock, an asyncio lock | enter, leave | several processes, two locks held in turn, lost lock connection | one import of a company at a time; nobody waits for ever | `InboundUpload` |
| Inbound half of the agent (`agent.py`, `tally_client.py`) | retry floor and cursor on disk; counters seen, pass under way in memory | start, incremental pass, full pass, forced pass, range slices | partial failure, crash, Tally changing during a pass, lost answers | no change is lost; a skipped pass would have brought nothing; eventually caught up | `InboundSync` |
| Import of Tally data (`tally_xml_importer.py`) | the portal's copy with its AlterID | import | older data after newer, over what waits to be sent, over what was deleted | newest wins; deleted stays deleted | `InboundSync`, `OutboundQueue` (`Import`) |
| Outbound queue (`models/portal_core.py`, `routers/vouchers.py`, `routers/sync.py`, `agent.py`) | `sync_queue` rows, Tally identities on vouchers | queue, coalesce, fetch, send, acknowledge, retry | lost acknowledgements, edits between fetch and acknowledge, deletes of things never sent | every edit reaches Tally; nothing twice; nothing comes back | `OutboundQueue` |
| Offline queue (`lib/offline-storage.ts`, `app/sync/page.tsx`) | IndexedDB items with a status; per page: loops, flag, recent keys | submit, sync one / all, automatic sync, discard, clear | loops of several pages on one store, closed pages, lost answers | a synced or cleared item is on the server; removed stays removed; no double without a reason | `OfflineQueue` |
| Session of the web client (`context/AuthContext.tsx`) | token, company, profile in localStorage; each tab's memory | boot, sign in and out, switch company, impersonate, 401 | tabs with one storage, late answers of earlier sessions | requests go where the screen says; signed out only when it is over; never stuck | `ClientSession` |
| Checkout (`PlanCheckoutModal.tsx`, `SubscriptionBillingPanel.tsx`) | dialog, quotes asked for, a payment on its way, orders | quote, coupon, pay, confirm, close and reopen | late quotes, a payment that outlives its dialog | the price shown is the one asked for; one order per purchase | `Checkout` |
| Following a field worker (`AttendanceLocationTracker.tsx`, `capacitor-bg-geo.ts`, `NativeTrackingService.java`, `NativeTrackingPlugin.java`) | flag and token on the phone, watchers, service, shifts | punch, start, ping, stop, sign out | the service outlives the app, a shift ended elsewhere | a stopped service stays stopped; nobody signed out is followed; the app knows its watchers | `Tracking` |
| Order desk (`app/temporders`, `routers/orders.py`) | the order; the page's list and dialog | dispatch, undo, complete, cancel, edit | two requests on one order, dialogs older than the order | the status adds up; cancelled stays cancelled | `OrderDesk` |
| Voucher form (`VoucherFormModal.tsx`, `app/vouchers/page.tsx`) | the form's entries and lines, answers on their way | open, type, create a ledger from within, save | answers that come after the form has become another's | what is saved under a voucher is that voucher's | `VoucherForm` |
| Reconciliation write-back (`reconcile_writeback.py`) | bank date, attempt and the voucher's AlterID | propose, check, send, record | the voucher changes between check and send | no lost edit in Tally | `InboundSync` (`WriteBack`: its effect on the watermark) |
| Deletions found by key lists (`tally_deleted_reconcile.py`) | last list, suspects | compare | cut or repeated lists | nothing goes after one list | - |
| Response caches (`core/cache.py`, `core/master_cache.py`) | cached answers with a TTL | load, store, invalidate | store after invalidate | stale only up to the TTL | - |
| Sessions and devices (`core/sessions.py`) | session rows, per-process auth cache | log in, revoke, look up | logins at once, revocation against other processes' caches | device limit; revoked means out after the cache's TTL | - (`ClientSession` has a session live or ended) |
| Billing (`services/billing/`) | orders, coupon redemptions, credits | create, confirm, webhook, expire | webhook against confirmation against expiry | one fulfilment, no lost redemption, no overdraft | - (`Checkout` has an order made, charged, paid) |
| Approvals (`routers/approvals.py`) | approval requests, stock | submit, decide | two deciders | applied once | - |

The other components (reports, tax formats, administration, backups,
notifications, the agent's windows, the other pages, ...) are listed with their
sources and the reason they are left out in `PROJECT.json`; they are mostly reads
and edits of single rows, formats, or calls to external services.

## 2. Modules

### `Idempotency` - `src/backend/app/core/idempotency.py`

The middleware runs on one asyncio event loop, so what happens between two
`await`s is atomic and is one action.

| Code | Model |
|---|---|
| fingerprint: caller, method, path, query and key, or body (58-75) | `Fp`, `KeyedPrints`; without a key equal fingerprints mean equal bodies (`PrintsAssumption`) |
| `_in_flight`, `_in_flight_body`, the futures | `inFlight`, `inFlightBody`, `future` (a future is named by the request that created it) |
| `_stored` with TTL and insertion order | `stored`, fields `live` and `at` |
| a live stored response (77-82): replay or 422 | `ArriveStored` |
| the key is in flight for another body (83-85) | `ArriveReused` |
| await the future (86-93) | `ArriveWait`, then `WakeReplay` or `WakeRun` |
| run the application (94-116) | `ArriveRun`, `WakeRun`, then `Finish` |
| the `finally` block (117-121) and `_remember` (123-130) | `Finish` with `Captured`, `Remembered`, `Kept` |

`WakeRun` starts the execution *without looking at `_in_flight` again*, because
line 93 goes straight on to the execution. This is what makes the property
`OneInFlight` conditional (section 4). Requests that the
middleware passes on untouched (reads, streams, over-long bodies, no caller)
do not reach the model; client disconnects during an execution are one of the
exceptional outcomes.

### `InboundUpload` - `routers/sync.py`, `services/inbound_receipts.py`, `core/sync_guard.py`

A request goes through the program counter `new -> decide -> guard -> lock ->
wait -> import -> finish -> unlock -> leave -> answered`, or `release` when the
guard refuses it. One action is what the code does between two awaits, or one
statement of the database:

| Code | Model |
|---|---|
| `begin`: read the row | `ReadReceipt` |
| insert, with the purge of old rows | `InsertReceipt`, `Purged` |
| `IntegrityError`, second pass of the loop | `InsertConflicts` |
| answers from the row: 422, replay, 409 | `AnswerFromReceipt` |
| the conditional UPDATE that takes a row over | `TakeOver`, `TakeOverFails` |
| `company_sync_guard`: set, `GET_LOCK(.., 0)` | `EnterGuard`, `GuardBusy`, `GetLock`, `LockBusy`, `GetLockRaises` |
| `async with sync_lock` | `Acquire`, `SyncUnlock` |
| `import_tally_xml` | `ImportEnds` with success, error answer or exception |
| `finish` and its second try, `release`, leaving the guard | `FinishReceipt`, `FinishFails`, `ReleaseReceipt`, `ReleaseFails`, `LeaveGuard` |
| a backend process dies; the lock's connection dies | `ProcessDies`, `LockConnectionDies` |

Time is abstracted to what the code compares it with: `past` (the receipt is
older than `STALE_PROCESSING`, or than the replay window once it is DONE) and
`ancient` (older than the retention). `failing` is a history variable: the
requests whose `GET_LOCK`, `finish` or `release` failed in the database, which
are the ones that may be answered and leave their receipt PROCESSING.
`UploadService` is the abstract
specification: an upload is asked, runs, and is done, failed, refused, gone or
replayed; a replay needs a kept import, and imports of the company exclude one
another but for orphans of a lost lock. `InboundUpload` implements it
(`KeepsPromise`, with the state function `phase` as the refinement mapping).

### `InboundSync` - `agent.py`, `tally_client.py` and the portal's watermarks

Tally numbers every change with one counter for masters and one for vouchers.
`tally[r]` and `server[r]` are the AlterIDs of record `r` on the two sides; the
watermark is the maximum over a side (`get_last_alter_id`). A pass is

```
 idle -- BeginPass --> export (one action per collection) --> push (one per collection)
      --> plan --> range / rangePush (one pair per date range) --> settle --> idle
```

| Code (`agent.py`) | Model |
|---|---|
| what kind of pass, minima, probe, ranges (985-1060) | `BeginPass` under `StartUp`, `IncrementalPass`, `ForcedPass` |
| `export_full_collections` of `tally_client.py` | `Export`, `ExportFails`, `PassCollections`, `MinAlter` |
| `_push_collections` | `Push`, `PushFails`, `PushRefused` |
| `_sync_vouchers_in_ranges` | `OwePlan`, `CarryOn`, `PlanRanges`, `PlanUnanswered`, `FewVouchers`, `ExportRange`, `RangesUnsupported`, `PushRange`, `RangesDone` |
| `_update_inbound_retry_floor`, `_note_probe` | `Settle`, `NextFloor`, `NextSeen` |
| a pass that raises; the process ends | `PassRaises`, `Crash` |
| Tally's users; the write-back | `Edit`, `WriteBack` |

The environment is as free as the code allows: a record may change at any
moment, an upload whose answer is lost may have been kept in whole or in part,
and one whose answer is "ok" may have left out any record whose import raised
(`Arrives`; collections imported record by record are `Apart`).
`gap` is a history variable that says *why* a record's last change may have
escaped the agent's bookkeeping; a new change starts without a reason. The main
invariant `NoLostChange` says that there is no other way than these; those that
contradict what the code or its documentation says of itself are described in
section 4, one of them with a run of its own.

Not in this module: several companies in turn, the standing `force_full_sync`
setting, how the ranges are cut from the voucher index (its outcomes are:
ranges, too few vouchers, no answer), a voucher whose date moves to another
range, status texts. A record is never deleted here; deletions travel by key
lists, a component of its own.

### `OutboundQueue` - `routers/vouchers.py`, `models/portal_core.py`, `routers/sync.py`, `agent.py`, `tally_xml_importer.py`

One voucher's way to TallyPrime and back, when the portal cannot reach Tally
itself. The actors are the users of the portal (their requests are
transactions, but a delete reads the identifiers of the voucher long before it
commits), the one agent, and the users of Tally. The queue and the agent's batch
are sets of rows and tasks. The code reads the queue by `created_at`, which counts
whole seconds, so what the portal did within one second comes in any order; the
model sends any batch in any order (`First`).

A voucher users make is a member of `Vouchers`. One that an import makes bears the
number of the place in `tally` it was made from, and is created, edited, sent and
deleted like any other; `MaxMade` bounds these places.

| Code | Model |
|---|---|
| create, edit, cancel, confirm, retry (`routers/vouchers.py`) | `Create`, `Edit`, `Cancel`, `Confirm`, `Retry` |
| `delete_voucher`: identifiers read, then committed | `DeleteReads`, `DeleteCommits` |
| `queue_sync_event` and `_close_redundant_sync_rows` | `Queue`, `Supersedes` |
| `GET /sync/outbound-queue`: REMOTEID, payloads, rows retired | `Fetch`, `Addressed`, `Task`, `Deliverable` |
| `_sync_outbound_company`, task by task | `Send`, `AlreadyDone`, `SendRefused`, `SendUnanswered`, `LookedUp` |
| `/acknowledge`, `/voucher-identities` | `Acknowledge`, `Report` |
| the inbound half | `Pull`, `NoPull` |
| the import: recognised by GUID or REMOTEID and overwritten, held back by the zombie guard, or made anew | `Import`, `Bears`, `Overwritten`, `DeletedGuids`, `New`, `NewVoucher` |
| a pass that raises; the process ends | `Stops` |
| TallyPrime (external): how a task finds its voucher and what it does to it | `Among`, `Accepts`, `Applied` |

TallyPrime is modelled from what the repository records of it
(`Tally_API_Audit_Log.md`, P-01 to P-06, and the fake Tally of
`tests/test_voucher_tally_sync.py`). Where they leave it open whether writing
over a cancelled voucher revives it, both happen. `wrote` and `raced` are
history variables.

### `OfflineQueue` - `lib/offline-storage.ts`, `app/sync/page.tsx`, the forms

The store is shared; the loops, the Sync page's flag, the keys of recent writes
and the company belong to a page and die with it. Everything between two awaits
is one action.

| Code | Model |
|---|---|
| `updateItemStatus`: reads the item, puts it back if it is there | `SetStatus` |
| `withIdempotencyKey` of the fetch wrapper, `SAME_WRITE_WINDOW_MS` | `KeyOf`, `Send`, `recent`, `WindowPasses` |
| a form sends, or enqueues when offline or when the fetch throws | `Submit`, `FormAnswered`, `FormFails` |
| automatic sync on the `online` event, of every page that listens | `GoOnline`, `Take` |
| "Sync all"; "Sync Now" on an item of the page's own list, read again at times | `SyncAll`; `SyncOne`, `LoadQueue`, `list` |
| the loop: mark, send, outcome, next, end | `MarkNext`, `SendItem`, `ItemAnswered`, `ItemFails`, `GoOn`, `Finish` |
| "Discard"; "Clear completed" in two transactions | `Discard`; `ClearReads`, `ClearDeletes` |
| leaving the Sync page and coming back; reload, close, another company | `Reopen`; `Reload` |
| the server (its idempotency, see `Idempotency`) and the network | `Serve`, `Vanish`, `Orphans` |

An item is queued with the body its form sends (`Verbatim`: orders) or with
another one (photos are compressed again), which matters because keys go by
body. `doubtful` and `cut` are history variables: of a `doubtful` item two loops had
it at once, a sender heard no answer, or "Sync Now" was pressed in a list that
still offered it though it was synced or gone; of an item in `cut`, its page was
closed while sending it.

### `ClientSession` - `context/AuthContext.tsx`, `lib/current-company.ts`

| Code | Model |
|---|---|
| localStorage: token, company, profile | `store` |
| React's token, user, isLoading; the module's `activeToken`, `activeCompanyId` | `tab` |
| the mount effect | `Boot` |
| `login`, `logout`, the console's "sign in as" | `Login`, `Logout`, `Impersonate` |
| switching company: both memories written; the page then loaded anew | `Switch`, then `Boot` |
| `fetchMe`, its answer, its 401, its failure | `Me`, `MeServed`, `MeAnswered`, `MeRefused`, `MeFails` |
| the wrapper: header, request, 401 | `Header`, `Call`, `CallServed`, `CallRefused`, `EndsHere`, `SignedOut` |
| the server: a session ended, a company taken away; the company a request is carried out in (`core/permissions.py`) | `EndSession`, `TakeAway`, `Effective` |

### The pages: `Checkout`, `Tracking`, `OrderDesk`, `VoucherForm`, and `MCScreens`

Each page keeps state that several of its own answers, clicks and effects change
in an order nobody fixed. `MCScreens` holds an instance of each of the four
modules; a behaviour stays on the page it starts on (they share nothing but the
session), so the states add up instead of multiplying.

`Checkout` (`PlanCheckoutModal.tsx`, `SubscriptionBillingPanel.tsx`):

| Code | Model |
|---|---|
| the quote effect with its `cancelled` flag | `Becomes`, `Counts`, `QuoteArrives`, `QuoteFails`, `TryAgain` |
| the effect on `open`; what closing resets; gateways and profile loaded | `Open`, `Close`, `Shut`, `Loaded` |
| the fields | `PickMode`, `PickGateway`, `ApplyCoupon`, `RemoveCoupon` |
| `handleOnlinePayment` up to the gateway's window | `Pay`, `ProfileSaved` (with `SessionOf`), `OrderServed`, `OrderRefused` |
| the window; the confirm; the gateway's own message to the server | `WindowClosed`, `Charged`; `ConfirmPaid`, `ConfirmOther`, `ConfirmFails`; `Webhook` |
| sales and call-back tabs | `Inquire`, `InquiryEnds` |
| the panel's `refresh`, which may unmount the dialog | `CancelAutopay`, `Refreshed`, `RefreshFails`, `RefreshedAgain` |

`Tracking` (`AttendanceLocationTracker.tsx`, `attendance/page.tsx`,
`capacitor-bg-geo.ts`, `capacitor-native-tracking.ts`,
`NativeTrackingPlugin.java`, `NativeTrackingService.java`, `BootReceiver.java`):

| Code | Model |
|---|---|
| sign-in, `clearLocalSession`, the app swiped away and opened, the process killed | `SignIn`, `SignOut`, `EndSession`, `Swipe`, `Launch`, `Grant`, `Killed` |
| the effect: `shiftIsOpen`, the service, the watcher instead | `Asked`, `Told`, `Offline`, `StartService`, `StartWatch`, `Added`, `Fails` |
| punches, here (carried out, then heard) or on another device or by the worker of the server | `Punch`, `PunchedIn`, `PunchedOut`, `Fails`; `PunchElsewhere` |
| the plugin's `startTracking` and `stopTracking`; the preferences `is_shift_active` and `token` | `Started`, `Stopped`; `service.active`, `service.token` |
| Android starts the service: boot, alarm, `START_STICKY` | `Resumed` |
| the service's ping, the server's answer, what it does to this run of the service or to a later one | `ServicePing`, `PingAnswered`, `PingHeard`, `Orphaned` |
| the watcher's ping, `removeWatcher`, which may fail, and the id cleared after it | `WatcherPing`, `WatcherHears`, `Removed` |

A ping that is lost, refused or answered "active" changes nothing on the phone and
is dropped. `service.ended`, `late` and `overtaken`, and `watch.slip`, are history
variables: stopped since it was last started; an answer to an earlier run has come
since; started for somebody who had left; additions have overlapped, or a removal
failed.

`OrderDesk` (`temporders/page.tsx`, `temporders/edit/[id]/page.tsx`,
`routers/orders.py`): the handlers read the order and write it in two steps
(`Read`, `Commit`, `CommitEdit`), because nothing locks the row; the page has
`ChangeStatus`, `Toggle`, `MarkAll`, `Expand`, `Close`, `Reload`, and hears
`Answered`, `Failed` or `Lost`; the edit form `SubmitEdit`, `EditAnswered`.
SQLAlchemy writes back the columns that changed only, so `Commit` writes the
difference between what was read and what was decided. `order.calm` says that no
two handlers have overlapped yet.

`VoucherForm` (`VoucherFormModal.tsx`, `vouchers/page.tsx`): `Create`,
`AskEdit`/`EditArrives`/`EditFails`, `Leave`, `Save`/`Saved`/`SaveEnds` are the
list's; `SetType`, `SetLedger`, `SetAmount`, `AddEntry`, `RemoveEntry` the
accounting entries; `SetParty`, `SetItem`, `AddLine`, `RemoveLine` the invoice;
`AskQuick`, `LedgerArrives`, `ItemArrives`, `QuickFails` the small dialog;
`ItemsArrive` is the answer about the stock items, which opening a voucher asks for
and which fills that voucher's items into the form, whichever is open by then. The
form is closed by a save's answer (`Saved`) before the list is fetched again, and the
button enabled after that (`SaveEnds`). `form.mixed` says that an answer asked for
before the form opened has changed it.

## 3. Runs

Every module is parameterised; the MC modules give the functions over its
constants, the `.cfg` files the sets and bounds.

| Run | Instance | Distinct states | Asks |
|---|---|---|---|
| `idempotency` | 6 requests: three of key A, one with another body; one of key B; two alike without a key; room for 1 response | 396,129 | who is carried out, who gets whose response, does everybody get one |
| `upload_receipts` | 3 uploads of one key on 2 backends, one forced and with another payload; the key unused or left FAILED by an earlier try | 1,545,098 | receipts, takeovers, failing statements, lost locks, dying backends; the abstract service is implemented |
| `upload_locks` | 2 backends: two uploads and a Sync-page import on one, an upload on the other, all without keys (receipts let nobody wait) | 294,184 | which locks exclude whom, and that they are freed |
| `inbound_both` | a record of a filtered and one of an unfiltered master collection, 2 vouchers in 2 date ranges, AlterIDs up to 3, 2 faults | 1,329,218 | watermarks, retry point, probe, ranges; catching up |
| `outbound` | 1 voucher, 2 texts, 2 places an import may make a voucher from, 3 changes after its creation, 1 change in Tally, 2 faults | 1,012,266 | no deleted GUID comes back, nothing lost or doubled; the two sides come to agree |
| `offline` | 1 item, queued with the form's body, 2 pages with a loop each, 6 keys, each item taken up twice at most | 692,486 | what synced and cleared mean, what is sent twice, loops end |
| `session` | 2 tabs, 2 persons (one with two companies), 2 sessions, 2 requests on their way; companies are picked, and somebody signs in over somebody, in one of the tabs | 1,937,686 | which company, which token, who is signed out and why |
| `screens` | checkout: 1 coupon, 1 gateway, 2 openings, 2 quotes on their way, 2 orders; tracking: 2 workers with a session each, 2 runs of the effect or punches and 1 ping on their way, 2 shifts; desk: 2 items, 2 requests at once, 3 clicks, 1 edit; voucher form: 4 changes, amounts up to 2 | 4,363,797 | the pages, one at a time |

Four more runs end in a violation each: `inbound_edited`, `outbound_kept`,
`offline_twice`, `desk_status` (section 4).

*Why the bounds are enough.* A property of these protocols is broken by a pair
of actors and one fault between them; the instances have one more of each where
that can be afforded. Idempotency: three identical requests are an execution, a
waiter and a latecomer, and a second key is needed to evict the first. Receipts:
one upload to leave a receipt, one to take it over, one that read it before. Locks:
an upload to meet another in its process, one to meet it from another process, and
an import that knows `sync_lock` alone.
Inbound: a change below, at and above the watermark; two ranges so that one can
be done and the other not; the second fault strikes while the first is being made
good. Outbound: a voucher meets only itself on the queue, and one made from its
place; two such places let one be made from the copy of another. Three changes
let an edit, a cancel or a confirmation, and a delete of either follow each other
(the proofs of section 6 are for any number). Offline: items meet one another only
in the order of a snapshot, which the model leaves open; two loops on two pages are
what it takes to send one item twice, and six keys are more than two loops, a form
and the requests they left behind can have in use (with the proofs of section 6 for
any number). Session: an earlier session and a later one, in this tab and in
another. Pages: a dialog and its reopening, an answer and a later one.

Every property of a passing run fails under a mutant of the code that
`PROJECT.json` names: most are a dropped guard, a forgotten reset, or an answer
kept where it should not be.

`CHECK_DEADLOCK FALSE` is set where the system may stop because all requests
are answered or all bounds are used up; the inbound runs check for deadlock.

## 4. What the code does differently from what it says

With a run that shows it (kind `violation`):

* `inbound_edited` - a record changed during a pass, in a collection already
  exported, is passed over when a later change of the same pass raises the
  watermark (`agent.py:1012`, against the comment at 1142).
* `outbound_kept` - an import overwrites a voucher whose edit waits on the
  queue; what is then sent is Tally's own text (`tally_xml_importer.py:2521`,
  against `vouchers.py:496`).
* `offline_twice` - an item whose answer was lost is sent again under another
  key and recorded twice (`offline-storage.ts:418`, against line 4: "safe retry,
  duplicate prevention"). Nothing on the server reads `X-Client-Id`.
* `desk_status` - two dispatches of one order that overlap leave all items sent
  and the order 'partial' (`routers/orders.py:123`, against line 120).

Seen in the models, without a run of their own (the properties except them, by
the history variable or the condition named):

*Idempotency*: when the first of several identical requests fails, all its
waiters run at once, although "identical requests that overlap are carried out
once" (`idempotency.py:7`, 88-93); `OneInFlight` and `OncePerKey` hold while
nothing failed.

*Uploads*: "one import at a time for a company" (`sync_guard.py:1`) does not hold
for the imports of the Sync page, which take `sync_lock` and no guard: one on
another backend runs beside an upload's (`OneImportPerCompany` names it). An
upload whose release, finish or `GET_LOCK` fails in the database is answered and
leaves its key blocked until the receipt goes stale (`ProcessingHasOwner`).

*Inbound*:
* a full pass that carries on a kept cursor raises the watermark over what
  changed meanwhile in a range already done (`agent.py:1045`; `gap` =
  "skipped"), although "a restart or a failed range carries on from where it
  stopped" (`README.md:47` of the agent);
* a cursor dropped for one export of everything (`agent.py:1390`, 1414) is gone
  when that export fails ("dropped");
* a pass that raises, and a crash, leave no retry point for what the pass had
  not yet brought, since it is saved only at the end (`agent.py:1108`;
  "interrupted", for a change that no watermark and no change counter gives
  away). After a crash this matters when the agent starts while Tally
  is closed (921-926): otherwise the start is a full pass;
* a stock item, a ledger or a voucher whose import raises is left out of an
  upload answered "ok" (`tally_xml_importer.py:1852`, 2300, 3151-3153). The agent
  reports it and counts no failure (`agent.py:1257-1262`; for a date range it does
  not look, 1430), so no retry point is left and the change counters are
  remembered: a later number hides the record, and so does the probe ("rejected").
  The comment at 1258 says "They would fail the same way on a re-pull", which does
  not hold for an error that passes, a lock timeout for one. What the record had
  been given before its import raised is not in the model: with its new AlterID it
  counts as held;
* the AlterID of a reconciliation write-back raises the voucher watermark over
  changes not yet pulled (`reconcile_writeback.py:125`, against the comment at
  `sync.py:2451` on the very same column; "overtaken").

*Outbound*:
* a cancel that was not acknowledged is sent again after the voucher was
  confirmed: the payload of a Cancel row does not depend on the voucher
  (`sync.py:449`, against `portal_core.py:1790`);
* a delete by master id whose answer was lost is refused in every later cycle: the
  agent waits for "does not exist", Tally says "Cannot be deleted!" (P-06;
  `agent.py:853`, against the comment above it). The row stays for good, which is
  the one row of a voucher that was not orphaned that `EventuallyAgree` lets stay;
* a voucher deleted after `delete_voucher` read that it has no identifiers and
  before the commit, while a fetch gave it a REMOTEID: its delete names nobody
  and is retired, Tally keeps the voucher (`raced`);
* a voucher deleted before the portal knew its GUID is made again by an import
  that pulled it before the delete was sent: the guard compares GUIDs
  (`tally_xml_importer.py:2476`), the audit has the REMOTEID (`vouchers.py:1111`).
  The model makes it again too (`New`), as a voucher of its own.
  `DeletedStaysDeleted` speaks of known GUIDs only. When the delete that still
  waits then removes Tally's copy, the new voucher stays in the portal alone
  (`Orphaned`): `SettledAgree`, `OneCopy` and `EventuallyAgree` except it, and
  nothing else of what an import made;
* by P-04, an Alter by master id of a voucher that is gone in Tally makes a new
  one: each write of an orphaned voucher may leave another copy. Users of Tally
  delete nothing in this model.

*Offline queue*: a Sync page learns of changes made in its own page only
(`offline-storage.ts:191-195`, `sync/page.tsx:66-67`), so its list still offers
what another tab has synced; "Sync Now" there sends the item again and sets it back
to "syncing", since the guard of `syncSingleItem` reads the same stale copy. An
item is sent in the company, and as the person, of the page
that sends it, not of the one it was entered on; an item discarded while it is
being sent is recorded all the same; the check-in page starts a loop over the
whole queue without looking at any flag, and the guard for an item already being
sent (line 360) never applies in a loop.

*Session*: `switchCompany` remembers the company picked (`AuthContext.tsx:488`) and
then tells the browser to load the app (492), which it does later: until then the
old page runs on, still shows the company being left, and sends its requests with
the new one in the header. A delete confirmed in that moment names one company
and is made in the other, against `current-company.ts`; `HeaderIsShown` and
`CarriedOutWhereShown` except a page that is being left (`picked`), which may name
the company picked and no third. A 401 that ends this tab's session clears the
storage, which may hold another tab's newer session; a late answer of `fetchMe` puts
the earlier person's profile on the screen (and in the storage) until the next; at
boot the cached profile is shown whoever the token belongs to; a request for a
company no longer allowed is carried out in the home company, and the signature that
decides which writes are "the same" does not include the company.

*Checkout*: when the refresh after a payment fails, the dialog is unmounted and
comes back with a new session, so a purchase tried again is another order
(against the comment at 302-303, `OneOrderWhileOpen` asks for the dialog to stay
mounted); the pay button is not disabled while the quote is updating; after a
successful payment with Razorpay, and after a verification that fails, the button
stays disabled (347-378); a change of tab loads profile and gateways again, over
what was typed.

*Tracking*: closing a shift elsewhere need not reach the phone. The service and a
watcher ping only when the phone has moved by 25 m (`NativeTrackingService.java:191`,
`capacitor-bg-geo.ts:153`; the heartbeat is looked at only then), and answers
other than 401 and "inactive", and failures, are ignored. Further:
* the answer to a ping of a run that was stopped clears `is_shift_active` under the
  run started since, which then does not survive a reboot (`late`);
* a start on its way when its person signs out follows that person on, and its
  answer about the shift sets the flag, for the next one to inherit (`overtaken`),
  against the comment at `AuthContext.tsx:143`;
* a removal that fails is taken for one that succeeded, and two effects may add two
  watchers, of which one is forgotten (`slip`); a start that comes while the watcher
  is being removed takes it for one that runs, and nothing then follows the shift;
* a watcher keeps the token it was added with and goes on for ever when that session
  ends, since it does not look at a 401; signing out leaves it alone; the service and
  a watcher may both run.

*Order desk*: a manager's edit of a dispatched order makes its items anew and
leaves the status; a batch from an old dialog whose items are gone is answered
with success; an answer opens a dialog closed meanwhile; a cancellation is
overwritten by a dispatch that read the order before it; a dispatch that commits
between `edit_order`'s check that the order is pending and its delete of the items
is lost with them (`orders.py`, 52-63 and 660-752); an old list completes a
cancelled order. `StatusAddsUp`, `CancelledStays` and `OwnEditLosesNothing` speak of
orders on which no two handlers have overlapped (`calm`), and say so.

*Voucher form*: the answer of "edit" that arrives while a new voucher is being
entered turns what is typed into an alteration of the other voucher; the answer
about the stock items asked for when a voucher was opened, and left before it came,
puts that voucher's item into the empty line of the new voucher entered next
(`VoucherFormModal.tsx:493-509`); line ids may
collide after an item has been created; the answer of the small dialog puts the
entries back as they were when it was asked, and creating a ledger while altering
sets the party again.

Read, but not modelled: the bank reconciliation page shows a late answer for
another ledger or period (`bank-recon/page.tsx` 362-385), its "accept all" prompt
names a period the request does not carry (509-533), and its saves do not look at
the status of the answer (536-561); expiring an order drops the coupon
redemption of one that was paid in between (`billing/orders.py:518`), an upgrade's
credit can be counted twice (235), credits can be overdrawn (`credits.py:114`).

## 5. Fairness

* `Idempotency`: weak fairness of waking up and of ending an execution. The
  event loop runs ready tasks; the application answers every call (a handler
  that never returns would hang its waiters, and the model does not promise
  otherwise). No arrival and no expiry is fair.
* `InboundUpload`: weak fairness of every step of a request that has begun, taking
  a free `sync_lock` included: a request takes it once, so no order of service is
  needed (asyncio's lock has one, first come, first served). Lost connections and
  dying backends are never fair.
* `InboundSync`: weak fairness of the agent's next step as a whole. The daemon
  loops for ever, catches what a cycle raises and has a pass whenever the
  interval has passed; which of several possible outcomes a step has is up to
  the environment, and failures are bounded.
* `OutboundQueue`: weak fairness of the agent's next step, strong fairness of
  the pull (the interval does pass, though in many cycles it has not), weak
  fairness of the commit of a delete that has begun. Nobody has to change,
  retry or delete anything. Failures are bounded by `MaxFaults`: whatever is
  refused or lost for good is out of the scope of liveness.
* `OfflineQueue`: weak fairness of the next step of each loop: the browser runs
  the code of an open page on, and a fetch ends in an answer or an error.
* `ClientSession`: weak fairness, per tab, of the end of a `fetchMe`.

The pages have no fairness: what `Tracking` would promise in time depends on a phone
that moves and a network that answers, which the code does not ensure.

Of nothing else is fairness assumed: not of users, of Tally, of the network or of
the gateway.


## 6. Proofs

Eight modules prove results for every value of the constants: every invariant
and every action property of the passing runs, and the refinement. Each rests on
one inductive invariant `IInv` (one per page in the last two), stronger than the
properties, with three facts: it holds at the start, every action keeps it, and
it implies the properties. There is one lemma per action, or per group of actions
that differ only in a parameter; what an operator returns is stated once and
cited. Every `IInv` was checked by TLC on an instance of its module before it was
proved.

The induction rules of the library take an operator as a parameter, which no
prover here can instantiate. `SetInduction` (in `ScreensProofs`) says the same of
sets of numbers - one that has 0 and the successor of each of its members is
`Nat` - and follows from the well-foundedness of `<`; that is how a fact about an
operator that is defined by recursion over a sequence is proved.

### `IdempotencyProofs`

`TypeCorrect`, `OneRequestInFlight` (`OneInFlight`), `KeyCarriedOutOnce`
(`OncePerKey`), `FaithfulReplay` (`ReplayIsFaithful`), for any number of
requests, fingerprints and bodies and any size of the cache.

None of the properties is inductive alone. That two identical requests do not
run together follows from who is registered: as long as nothing failed, whoever
runs is the registered owner (`OnlyOwnerRuns`), which is kept only because a
registered owner is running (`OwnerIsRunning`) and because a waiter that finds
nothing in its future has seen a failure (`OutcomeIsFinal`, `WaitsForTwin`).
That a key is carried out once needs the past: a success under a key is answered
from the store (`KeyIsAnswered`), which is what the next request looks at.
Faithful replay needs that stored responses are those of successful executions
of the same body (`StoredIsGood`).

Assumptions: equal fingerprints without a key mean equal bodies
(`PrintsAssumption`); the store has room for one response (`StoreAssumption`).

### `InboundUploadProofs`

For any number of uploads, Sync-page imports, keys, payloads and backend
processes:

* `TypeCorrect` and the five safety properties of the runs: `OneImport`
  (`OneImportPerCompany`), `ProcessImportsOnce` (`OneImportPerProcess`),
  `AttemptsRunOnce` (`OneRunPerAttempt`), `NothingLeftProcessing`
  (`ProcessingHasOwner`), `ReplaysAreImports` (`ReplayMeansImported`);
* `PromiseKept` - `Spec => KeepsPromise`: the receipts and locks implement
  `UploadService` under the refinement mapping `phase`.

*Locks* (`LockIsHeld`, `SyncLockIsHeld`): from `GET_LOCK` to the end of the
guard a request holds the named lock or is recorded in `cutOff`; from `async
with` to its end it holds its process's lock. Exclusion follows at once.

*Receipts*: ids are never reused and every id in use was handed out
(`FreshIds`), a receipt's `attempts` is at least that of anybody who took it
(`AttemptsCount`); the conditional UPDATE therefore makes a pair (id, attempts)
nobody has yet (`OneRunPerAttempt`). That a PROCESSING receipt has an owner
needs that a request past `finish` or `release` no longer matches a PROCESSING
row (`EndedLetsGo`), and this in turn that attempts only grow.

*What DONE stands for*: a row keeps its payload hash, so who took its id
compared the hash when it read the row (`SamePayload`), and DONE is written only
after a success under that hash (`DoneIsImported`, for the row, for what was
read of it, and for the request about to write it).

The proofs of the steps do not unfold every action every time: the lemmas
`WriteState` to `Releases` say what an action does to the rows (`Rewrites`,
`Inserts`, `StatesOnly`), `Quiet` that all the others do nothing to them.

Assumptions (`RequestsAssumption`): finitely many keys (the receipts of earlier
tries have been numbered), `None` differs from everything else, and equal payload
hashes mean equal force flags, since the hash is taken over the flag. The proofs
do not need the last one.

### `InboundSyncProofs`

`TypeCorrect` (`TypeOK`), `NoLostChangeCorrect` (`NoLostChange`) and
`ProbeHidesNothingCorrect` (`ProbeHidesNothing`), for any number of records,
collections, filtered or not, and date ranges, and any bounds on changes and
faults.

`NoLostChange` speaks of the state between two passes; during one it does not
hold, and what does is the heart of the invariant. Call a change *loose* when
the portal lacks it and none of the known exceptions happened to it.

* `PassKeeps`: during a pass a loose change is still to be exported (`ToCome`),
  exported as it is (`InHand`), in a date range to come (`RangePending`), or the
  pass has failed (`Failed`). Whichever it is, it is above the retry point this
  pass would leave (`High`), or on the cursor (`OnCursor`), or its voucher is
  marked when the pass fails (`Marked`).
* `SettleKeeps`: at the end, the cursor brings it, or the watermark is below it,
  or the retry point will be. `Settle` turns this into `NotLost`.
* `SeenKept` and `ProbeKept`: a loose change is above the counters seen. They are
  needed because the probe is read at the beginning of a pass and remembered at
  its end, and the retry point is given up in between.
* `Numbers`: AlterIDs only grow, the portal's never run ahead of Tally's, nor do
  minima, probes and what is remembered of them. Hence a new change is above
  everything the agent has in mind.
* `Phases`: what the agent holds in each phase of a pass.

The greatest AlterID of a set is chosen with `Max`; that the choice exists
(`MinFacts`, `MaxFacts`) follows from the well-foundedness of the naturals.

Assumption (`ShapeAssumption`): finitely many records; collections without a
filter are collections of masters; `MaxAlter` is at least the number of records
of a side, so that the company's history fits.

### `OutboundQueueProofs`

`TypeCorrect`, `DeletedStaysDeletedCorrect`, `OneCopyCorrect`,
`SettledAgreeCorrect`, for any number of vouchers, texts, changes and faults.

*Places* (`Phases` to `PulledIsTrue`) says where each thing is. That Tally has a
voucher users made at one place only (`OnePlace`) is kept by a write only if the
write can be found again: it names a master id or a REMOTEID (`Tasks`), the portal
can name what Tally has (`Reachable`, and until it is pulled its place is news:
`NewsFirst`), and what is gone is not written again (`GoneForGood`).

*Lives* (`AuditTrue` to `Moves`) is about vouchers that imports make. One is made
from a place whose sender is gone or has moved on (`MadeFrom`), so that no two
vouchers of the portal claim one place; it has its master id from the start
(`MadeAddressed`), so that every row and task of it finds that place; only when
the place is gone does a write make another (`Offspring`), and only such a place
gives it another master id (`Moves`; `Stale` for a delete that read the earlier
one). From these follow that one which is not orphaned has one place
(`TamePlace`, from which `OneCopy` follows), that what an import makes never was
(`NewFacts`), and `DeletedStaysDeleted`: whatever takes a master id takes that of a
place whose GUID no other voucher was deleted under.

*Owing* says what still has to travel. `SettledAgree` follows from
`ChangesOwed` (the two sides agree on a voucher, or a row or a pull waits) and
`DeleteOwed` (what was deleted and is in Tally, or about to be, has a delete
that waits and names it). `ChangesOwed` needs `CancelOwed` and `CancelTold`,
because an import keeps the status of a voucher while it replaces its text, and
`PulledIsTrue`, because the import writes what was pulled some steps before.

Assumption (`BoundsAssumption`): the bounds are naturals and `None` is none of
the records it stands beside.

### `OfflineQueueProofs`

`TypeCorrect`, `SyncedIsTakenCorrect`, `ClearedIsTakenCorrect`,
`SyncingIsHeldCorrect`, `TwiceIsExplainedCorrect`, `RemovedStaysRemovedCorrect`,
for any number of items, pages, loops and keys.

That a synced item is on the server needs that an "ok" on its way tells of a
record (`OkIsTaken`) and that a loop's answer is about the item in its hand
(`InHand`, `OneRequest`). `TwiceIsExplained` needs an account of every item that
no two loops shared, whose senders all heard their answer, and that was not sent
from a list behind the store (`Plain`): one loop, one request, and the request
comes before the record; and that a list offers only what was entered (`Listed`).

Assumption (`OfflineAssumption`): the sets of pages, loops, items and keys are
apart from each other and from the values that stand for "none".

### `ClientSessionProofs`

`TypeCorrect`, `TokensAgreeCorrect`, `HeaderIsShownCorrect`,
`SignedOutOnlyWhenEndedCorrect`, `CarriedOutWhereShownCorrect` (the last two are
action properties), for any number of tabs, persons, companies and sessions.

`HeaderIsShown` needs `Settled` (a screen that has its answer has the company it
shows, or the one its page is being left for); that a tab is signed out only when
its session ended needs that no answer on its way belongs to a token older than the
tab's (`NoOlderToken`, `Known`); where a request is carried out follows from what it
said when it was sent (`CallsNameShown`).

Assumption (`SessionAssumption`): a person has a home company and may open it.

### `CheckoutProofs`

`QuoteIsCurrentCorrect` (`QuoteIsCurrent`) and `OneOrderWhileOpenCorrect`
(`OneOrderWhileOpen`, an action property), for any coupons, gateways, openings,
questions on their way and orders.

A price on the screen is current because the answer that counts is the one to
the last question asked, and that question was about what the screen has now
(`LastCounts`); a question that no longer counts is never the last
(`RemoveAtFacts` says what is left of a sequence when one is taken out).
`QuoteNow` is the property without the condition that the dialog is mounted,
which follows from its being open (`OpenIsMounted`). One order per purchase and
opening follows from the session in the idempotency key: what was bought or is
being bought in the opening on the screen has the dialog's session in its key
(`OneSession`), which needs that nothing belongs to an opening still to come
(`NoneAhead`). A second order for the same purchase would have the key of the
first, and is the first.

Assumption (`CheckoutAssumption`): the gateways are those the dialog knows, the
bounds are naturals.

### `ScreensProofs`

The other three pages, and with `CheckoutProofs` the types of all four
(`TypeCorrect`, that is `TypeOK`).

*Order desk*, for any items, requests, clicks and edits: `StatusAddsUpCorrect`
(`StatusAddsUp`), and the action properties `CancelledStaysCorrect`
(`CancelledStays`) and `OwnEditLosesNothingCorrect` (`OwnEditLosesNothing`). All
three speak of orders on which no two handlers have overlapped. On those, the
handler that has read the order is alone and has seen it as it is (`ReadsAlone`),
so the difference `Commit` writes is the whole of what it decided
(`CommitSets`); and what it has seen passed the checks of its handler
(`PassedChecks`: not cancelled for a dispatch, pending for the salesperson).
`PendingUnsent` - of a pending order nothing has been sent - is what the
salesperson's edit may rely on; `OneEdit` keeps the number of edits in its bound.
`MovedPreserves`, `FewerPreserves` and `AskedPreserves` say what has to hold of a
request that takes its next stage, ends, or begins; the steps are instances.

*Voucher form*, for any number of changes and any amounts: `FormInvariance` and
`SavedOnItsOwnCorrect` (`SavedOnItsOwn`). Ids are given out in order, so none in the
form, and none remembered by a small dialog of this opening, is still to come
(`IdsInOrder`): this is why the entries' ids stay distinct although a new ledger
brings older entries back, and why counting the entries instead would not do. Whose
content the form shows needs the same of what its small dialogs remember, and that
the stock items asked for in this opening were asked for V (`OwnContent`), and that
a small dialog outlives the form only as a late one (`ClosedIsLate`). An answer from
before the form opened breaks all this, which is why the parts speak of forms that
are not `mixed`. The lemmas about data: `ChangedFacts` (entries changed one by one
keep their ids), `WithoutFacts` (what is left when an id is removed are those that
had it not, and they alone; distinct ids stay distinct), `GreatestId` (the greatest
id of the lines exists, from which a new line gets its own). The sums of debits and
credits are not unfolded.

*Tracking*, for any number of runs, punches, pings and shifts: `StopLastsCorrect`
(`StopLasts`), `FollowsSignedInCorrect` (`FollowsSignedIn`) and
`WatchersKnownCorrect` (`WatchersKnown`), from `TrackingInvariance`. That a service
follows nobody who has signed out needs that one which is on, or marked to be brought
back, has somebody's token (`ServiceKept`): otherwise the next sign-in could not
contradict it. `WatchKept` is why the app knows its watchers: where one is being
added, none is known, running or also being added, and the one being removed is the
one known. `StartPreserves` and `StopPreserves` say once what every start and stop
does to the service.

Assumptions: an order has items, since `create_order` refuses one without, and
the bounds are naturals (`DeskAssumption`, `FormAssumption`,
`TrackingAssumption`, which also says that nobody is no session).

### Only model-checked

Liveness (`EveryRequestEnds`, `RequestsEnd`, `EventuallyCaughtUp`,
`EventuallyAgree`, `LoopEnds`, `LoadingEnds`): fairness and ENABLED are out of the
prover's reach. The bounds of `MCScreens` on the number of sessions of the tracking
are those of its instance (two sessions), in the proofs as well.

## 7. What is not modelled, and why

### Left out of the modules

* Failing database statements, except where the code goes on after one: the purge
  and the release, which it logs and passes over, the finish, which it tries a
  second time, and `GET_LOCK`, whose failure passes by the release. Elsewhere a
  request whose statement fails ends with an exception before it has changed
  anything more. What commits before a failure is an action, so a death between
  two commits is in the model.
* The purge has no row to take in an instance with one key; it is in the proofs,
  which are for any number of keys.
* A second conflict of the insert in `begin` (BUSY after two passes): it would
  take a purge of a row inserted a moment ago.
* The direct push (`TALLY_URL` set): the portal sends the queue itself and the
  agent's fetch finds nothing.
* Rows of masters and of reconciliations on `sync_queue`, optional and draft
  vouchers, undoing an import, numbers, dates and amounts.
* The page's own pings in a browser, and the answer to a ping that the server repeats
  for some seconds without looking (`attendance.py:554-557`).
* Deletions made by Tally's users: they reach the portal by key lists.
* Stock journals, attendance and payroll vouchers, banking and cost centres of
  the voucher form.
* Everything that is format only: Tally's XML, tax returns, reports, PDFs,
  spreadsheets, layout.

### Parts without a module, and what they would be

1. *Reconciliation write-back* (`reconcile_writeback.py`, `agent.py:882`):
   propose, check, send, record, with the voucher changing at every point. The
   AlterID is checked before the whole voucher is sent back, so a change in
   between would be overwritten; here only the effect on the watermark is
   modelled.
2. *Billing orders* (`services/billing/`): order, confirmation, webhook, expiry
   and credits as statements of several requests, with the promise that an order
   is fulfilled once and a coupon is used as often as orders that hold it.
   `Checkout` knows an order only as made, charged or paid.
3. *Deletions by key lists* (`tally_deleted_reconcile.py`): suspects over several
   lists, cut and repeated lists, the stop at mass removals.
4. *Server sessions* (`core/sessions.py`): logins at once against the device
   limit, revocation against the caches of several processes. `ClientSession`
   knows a session as live or ended.
5. *Response caches* (`core/cache.py`, `core/master_cache.py`): a reader that
   loads before an invalidation and stores after it is stale until the TTL ends.
6. *Approvals, stock quantities, the attendance worker, reminders, backups*:
   small protocols around single rows.
7. *Bank reconciliation, tax documents, reports, administration and the other
   pages of the web client*: a load, a filter and a table, algorithms over data,
   or calls to external services. Most of the web client's hundred thousand lines
   are of this kind, and most of what is not layout there is the formatting of
   rows: there is no state in it that two actors share. The modules map about
   2,800 lines of its TypeScript, and the parts of the backend, the agent and the
   Android service named in section 2; a larger share would not be a more
   faithful one.
