# Specifications of TGTLDR

TLA+ models of TGTLDR, a self-hosted service that listens to Telegram groups, stores their
messages and pushes AI summaries of them. The modules are translated from the Go code under
`app/internal`; `PROJECT.json` names, for every definition, the lines it stands for. TLC checks
the models on small instances, TLAPS proves the theorems listed below for all of them.

    tlc -workers 2 -config SummaryTasks_safety.cfg MC_SummaryTasks
    tlapm SummaryTasksProofs.tla

## The system

One Go process with a PostgreSQL database. At start (`cmd/server/main.go`) it recovers what the
last process left behind, starts a listener per authorized Telegram account, and then runs three
things side by side: the scheduler (`Service.Run`, once a minute), the maintenance loop
(`RunMaintenance`) and the HTTP server. They share the tables and one in-memory set of keys per
service; there are no database locks, and almost no operation is a transaction.

| Component | State it keeps | Operations | Hard behaviour | What makes it correct | Module |
|---|---|---|---|---|---|
| summary scheduler, `scheduler/service.go` | `summaries` rows, `Service.inflight` | `runOnce`, `RunNow`, `RunNowAsync`, `RunRetry`, `RetryDelivery`, `RepairEmptySummariesInRange` | decisions on a row read before the task is entered; an error of one chat cancels the others; midnight | one task per row, no row left running, bounded retries, partial texts never pushed | `SummaryTasks`, `SummaryLife` |
| maintenance loop, `scheduler/recovery.go`, `historical_retries.go` | `summary_recovery` rows | `QueueFailedSummaries`, `runRecovery`, `retryHistoricalFailures`, `RecoverInterruptedSummaries` | works on the rows of the scheduler and of the requests; the split by date | every failure is retried by somebody, every batch ends | `SummaryTasks`, `DailyDigest` |
| daily digest, `dailydigest/*` | `daily_digests`, sources, three kinds of in-memory keys | `RunIfReady`, `ContinueExisting`, `Rerun`, `RetryDelivery`, `execute` | the key of a generation passes from the caller to a goroutine and outlives the status "running" | exact keys, a digest is generated from its own sources, sent and recorded | `DailyDigest` |
| summary periods, `model/summary_period.go` | frequency, previous frequency, effective date of a chat | `SummaryPeriodFor`, `LatestEndedPeriod`, `ChangeSummaryFrequency`, `summaryTarget` | a change while another is under way, on any day of a week or month | no overlap, no gap, the current period is completed | `SummaryPeriods` |
| summary batch, `scheduler/summary_batch.go` | `summary_batches` and items | queue, start, check, finish, reset | waits on rows other flows regenerate | every item ends, a success is not overwritten unless asked for | `SummaryBatch` |
| failure notices, `scheduler/failure_notices.go` | `summary_failure_notices` with a lease | claim, send, finish | crash between claim, send and finish | one notice per date, none before the failures are final | `FailureNotices` |
| catch-up, `catchup/service.go` | `catch_ups` rows with their sources, in-memory keys | `Start`, `execute`, `RetryDelivery`, `FailInterrupted` | a delivery retry beside the first delivery | a run ends, what was generated stays | `CatchUp` |
| Telegram login and listeners, `telegram/service.go`, `auth_flow.go`, `store/auth_repo.go` | accounts, sessions, `pending`, `listeners` | `StartAuth`, `VerifyCode`, `CancelPendingAuth`, `SyncChats`, `EnsureListener`, `StopAccount`, `runListenerLoop` | every client writes back the whole row it has read; a listener that outlives its account | one listener per account, no row comes back, a dead session is cleared | `TelegramAccounts` |
| media downloads, `telegram/downloader.go`, `store/media_repo.go` | `media_assets` queue | `UpsertMessage`, `UpsertAvatar`, `ClaimNext`, `Complete`, `Fail`, `RecoverInterrupted`, `RequestDownload`, `ApplyAutoDownloadPolicy` | claim and crash, another account or another policy while an asset is downloading | an asset has one worker, attempts end, the queue follows the policy | `MediaQueue` |
| history back-fill, `telegram/history_backfill.go` | in-memory tasks | start, walk, rate limit, completion hook | live messages and generations beside it, retries of a part | a range is complete when it says so, empty summaries are made again | `HistoryBackfill` |
| summary generation, `summary/daily_generation.go`, `chunker.go`, `rollup/*`, `llmcontext/*` | none | chunks, packing, merging, retries with a smaller budget | parallel requests, sizes at the limit, a model that takes less than expected | every message and every source is in the result once and in order, the retries end | `TextBudget`, `DailyGeneration`, `Rollup` |
| keyword alerts, `alerts/*` | time of the last alert of a chat and keyword | `Handle`, claim, release | several messages at once, a failing bot | alerts keep their distance | `KeywordAlerts` |
| local login, `localauth/*`, `api/auth.go` | password with its version, sessions, limiter | set-up, login, change, logout, check | handlers of several statements interleave | only a session of the stored password lets a request in | `LocalLogin` |
| message store, `store/messages_*.go`, `api/chat_messages.go` | `messages` | upsert, pages, windows, days | messages arrive between two pages | a reader sees each message once | `MessagePages` |
| follow-up questions, settings, model client, bot client, web, migrations | tables; none | queries, HTTP | see `PROJECT.json` | | partly through the modules that call them |

How they interact: the scheduler calls the summary service (which calls the model), the bot client
and, at the end of each round, `dailydigest.RunIfReady`; the maintenance loop calls the same entry
points (`RunNow`, `RunRetry`, `ContinueExisting`, `Rerun`, `RetryDelivery`); HTTP handlers call them
as well; the history back-fill calls `RepairEmptySummariesInRange` when it is done; the listener
hands messages to the alerts and media to the download queue.

## The modules

### `SummaryTasks` — the rows of `summaries` and the flows that work on them

* `row[k]` is the row of a (chat, summary date) pair: status, retry count and time, delivery record.
  `inflight` is `Service.inflight`. A *flow* is a goroutine (of `runOnce`, of the maintenance loop)
  or a request; `pc`, `flow`, `item`, `outcome`, `stamp` are its program counter and local variables.
* Every database call is one action: `SchedRead` (lookup and `decideScheduledAction`), `Begin`
  (`beginTask`), `UpsertPending`, `SetRunning`, `Generate`, `SaveResult`, `ScheduleRetry`, `Reread`,
  `Send`, `MarkDelivered`, `RecordDeliveryFailure`, `SetFailed`, `Finish`; the maintenance loop adds
  `MaintRecovery`, `MaintHistory`, `HistoryRead`, `RecoverRead`, `RecoverStarted`, `RecoverCheck`;
  requests are `RunNowAsync`, `RetryDelivery` (the delivery) and `QueueFailedSummaries`.
* A failing call is `DbError`, `RecordError`, `SettingsError`, `SchedReadError`, `MaintReadError`,
  `MaintWriteError`; an error of a scheduler goroutine cancels the `errgroup` context of its round
  (`cancelled`), after which every further call of that round may fail. `Restart` kills the process
  at any step and runs `RecoverInterruptedSummaries`.
* Time: a time stamp is none, later or due (`Elapse`); `TimePasses` is the summary time, then midnight.
  The text is not kept: `item.current` says that what a flow holds is still the text of the row, and
  `ready` that a text was generated after its period had ended.

### `SummaryLife` — what a summary promises, abstractly

* `status`, `attempts`, `generating`: one generation of a key at a time, a result only from the one
  under way, a success that resets the attempts, at most `Limit + 1` attempts, a failure that a flow may
  record late. `SummaryTasks!ImplementsLife` instantiates it with the mapping `status <- row[k].status`,
  `attempts <- row[k].retry`, `generating <-` the keys some flow is between `SetRunning` and
  `SaveResult` of; the run checks `Life!Spec` as a property. `SummaryBatch` and `FailureNotices` rely on
  rows that live like this.

### `DailyDigest` — the rows of `daily_digests` and their flows

* `row[d]` is a digest, `busy` the in-memory set with its keys `rerun`, `generation`, `delivery`. The
  flows are the end of `runOnce` (`Sched`), the maintenance loop (`Maint`), requests (`User`) and the
  goroutine `startGeneration` leaves behind (`Gen`), which gives back the key its caller took.
* The summaries of the participants are those of `SummaryTasks`; here `Collect` finds them final or not.

### `SummaryPeriods` — which period a day belongs to

* Dates are day numbers; weeks begin on days congruent to `Monday`, months on `MonthStarts`.
  `periodStart`, `periodEnd`, `SummaryPeriodFor`, `LatestEndedPeriod`, `Changed` and `summaryTarget`
  are the functions of the code; the actions change the frequency, let the scheduler generate the
  latest ended period, let a user ask for any past day, and let days pass with or without a scheduler.

### `MediaQueue` — the rows of `media_assets` and the workers on them

* `asset[a]` is a row: status, account, `force_download`, size (large or not), retry count and time.
  Each account has one worker, the goroutine of `runDownloadQueue`: `pc`, `job` (the row as `ClaimNext`
  read it) and `err`. There is one goroutine per account because `listeners` admits one.
* Every statement on the table is one action, named after its method; `Download` is
  `downloadAssetOnce` up to the rename, `Refresh` the new fetch of a message whose file reference has
  expired. `SeeMessage` is the moment a listener, a back-fill or the reconciliation finds that its
  account collects the chat of a message; the row is written later, by `UpsertMessage`.
* `SaveSettings` and `ApplyAutoDownloadPolicy` are the two statements of one settings request,
  `ApplyError` the failure of the second. `StoreError` and `StopWorker` end the worker as a failing call
  or the end of its listener does, `RecoverInterrupted` starts the next one, `Restart` ends them all.
* Accounts stay authorized, so that a listener that ends by an error starts again; the end of a
  listener at a logout belongs to `TelegramAccounts`.

### `TelegramAccounts` — logins, sessions and listeners

* `accounts` is the table: status, session (the number of its key) and whether the user is known;
  `listeners` and `pending` are the maps of the service, `valid` the keys Telegram accepts.
* A process is a request or the listener goroutine of an account. Both run a Telegram client, and a client
  is a chain of statements: `LoadSession`, `StoreSessionRead`, `StoreSessionSave` (the whole row!), the
  call itself, then `PersistRead`/`PersistSave` of a login or `LogoutRead`/`LogoutSave` of a refused session.
  `StartNew`, `StartAgain`, `Verify`, `SyncChats`, `CancelPendingAuth`, `DeleteAccount` are the requests;
  `Listen`, `Interrupted`, `CheckCurrentAuthStatus`, `RunAgain`, `EndListener` the loop of a listener.
* `Revoke` is Telegram ending a session, `Fail` an error of any call, `Restart` a new process.
  `overlap` remembers whether two requests were ever served together: what holds only otherwise says so.
* No request looks at the status of its account: `SyncChats` and `DeleteAccount` take any id, of an account that is gone or
  never was as well, `StartAgain` any account there is, an authorized one too (the page hides both, but a page may not be up to
  date). Three more histories tell what follows: `made` are the ids `StartAuth` has created, `strays` those a
  synchronisation of a missing account has inserted, `again` the accounts a login was begun for while they were authorized.

### Services around the summaries

They keep separate state; `MC_Services` checks them in one run, each behaviour being one of a single service:
nothing is said of two services at work together.

* `SummaryBatch`: `PlanBatch`, `QueueBatch` (the request), `BeginRound`, `LookAt` (`runSummaryBatch`),
  `PrepareItem` .. `RunNow`, `AfterError` (the goroutine of an item), `CheckItem`. Beside them one *other* flow
  per key: a generation, a due retry or a delivery, as `SummaryLife` allows them; `late` are the rows such a flow
  has still to set to failed after it has left the task (`SetFailed`). `touched` stands for the comparison of
  `UpdatedAt` with `StartedAt`. No statement of the program deletes a chat, and a deletion by hand takes the items of the
  chat with it, so that the branch "chat no longer exists" (`scheduler/summary_batch.go:172`) is left out.
* `FailureNotices`: `ReadStates`, `QueueNotice`, `ClaimNotice`, `SendNotice`, `FinishNotice` are the steps of
  `notifyFailures`; `LeaseEnds` the next moment the claim is allowed. The parts of the date end, are put on
  the recovery queue and rerun meanwhile. `SwitchBot` takes the bot out of the settings or puts it back; a round that finds none at
  its start does nothing, and `NoticeOpen` speaks of dates with a bot.
* `CatchUp`: `CreateDocument` (the snapshot of sources), `SetRunning`, `BeginRun`, `Generate`, `SaveSucceeded`,
  `SaveFailed`, `Deliver`, `RecordDelivery` (the goroutine), `BeginRetry`, `ReadForRetry`, `SendAgain`,
  `RecordRetry` (a request), settings that change, `CatchUpRestart`. A run reads the settings before it generates, a repeated
  delivery before it sends: a bot that is switched off later is still used (`saveNoBot` is the run that found none).
* `HistoryBackfill`: the walk of the iterator from the newest message to the start of the range (`PassOver`,
  `Upsert`, `Succeed`), `Flood` with the wait added up, `FailImport`, a restart; then `RepairLook` and
  `RepairRun`, the completion hook, beside generations of the same days.
* `KeywordAlerts`: `Handle`, `ReadBot`, `Claim`, `Announce`, `GiveBack` of several goroutines and a clock. `Claim` reads the
  clock and takes the lock in one step, the code in two (`alerts/service.go:92`): a goroutine held up between them while the claim of
  another is made, fails and is given back could register an earlier time. A behaviour is one life of the process; a
  restart forgets `lastAlert`, and the first alert after it keeps no distance from the last one before.
* `LocalLogin`: the statements of login, set-up, change, logout and of the check in the middleware, of
  several browsers; passwords are numbered by the save that stored them.
* `TextBudget`: `PlanRequest`, `SplitTextToBudget`, `PackTextParts` as functions on texts. A text is a
  sequence of tokens, a token the sequence of the facts it carries; the model's answer (`AnswerOf`) spreads
  the facts of its input over its own tokens. So one can tell what a result rests on.
* `DailyGeneration`: `draft` holds the local variables of `generateDailySummary`. One action per answer of the
  model, or refusal because the request was too long: `DirectAnswered`/`DirectTooLong`, `ChunkAnswered`/
  `ChunkTooLong` (up to `Parallelism` at once, in any order), `FinalAnswered`/`FinalTooLong`, `MergeAnswered`/
  `MergeTooLong`; `ModelFails` is any other error. What the code computes between two calls belongs to the first.
* `Rollup`: the same for `rollup.Generate`, with packed sources, repeated headers and the comparison material
  that has to make room in the final request.
* `MessagePages`: one reader of a chat who goes back page by page and day by day (`OpenLatest`, `OpenAround`,
  `ListPage`, `WindowBefore`, `WindowAfter`, `AdjacentDates`, `LoadEarlier`, `PreviousDate`) while `StorePost`
  inserts messages of any time.

## What the runs check

| Run | Instance | Question |
|---|---|---|
| `summary_safety` | one daily summary, 2 requests, 1 failing call, 3 days | the task set is exact (`TaskLock`), a running row is owned (`RunningOwned`), failed deliveries stay within limit + 2, and all flows together implement `SummaryLife` (`ImplementsLife`) |
| `summary_week` | one period of two days, 1 request, 1 restart, 4 days | a partial text is never sent (`PartialNeverSent`) and is replaced (`PartialReplaced`) |
| `summary_live` | one daily summary, 1 request, 1 restart | with fairness: `RunningEnds`, `RetryHappens`, `QueueDrains`; with the restart: `RetryOvershoot` |
| `digest` | one digest, 1 request, 1 failing call, 1 restart | the three kinds of keys are exact (`KeysExact`), bounded retries; with fairness `RunningEnds`, `PendingTakenUp`, `RetryHappens` |
| `periods` | 30 Sep to 10 Nov 2026, 1 change, 1 request, 1 missed day | `Disjoint`, `NoGap`, `CurrentKept` |
| `media` | two accounts, an attachment and an avatar, limit 2, 1 request, switch of the collecting account or fault | a wish of a user is never parked (`ForcedNotParked`), the queue follows the policy (`PolicySettled`), `RetriesBounded`, `OneDownload`; with fairness a queued asset is attempted (`PendingTakenUp`) |
| `accounts` | two rows, 4 requests one at a time or 3 with two together, 2 revoked sessions, failures or restarts | one listener per account and no entry without one (`ListenersExact`), no row comes back but through a synchronisation of a missing account and, unless Telegram ends sessions, an authorized account has one (`RowsSound`), Telegram and a deletion alone log out an account nobody logs in again (`LoginKept`), a dead session is cleared (`DeadSessionCleared`) |
| `services` | see below | `NoRepeats` (alerts and notices), `SessionOfPassword`, `GeneratedStays` (catch-up), `ArchiveWhole` (back-fill and pages), `NoOverwrite` (batch), `NothingLost` (generation, roll-up), `TasksEnd` (catch-up, back-fill, repair, batch, notices, generation, roll-up) |

Bounds. The keys of different chats only meet in the in-memory set and in the cancelled context of a
round; the theorem `MutualExclusion` covers that for any number of them, so one key is enough. `Limit = 1` gives all cases of the counts (below,
at, above the limit). Three days let a row be yesterday's, today's and older; the calendar run crosses
two month boundaries and every alignment of weeks and months in between. Two requests in
`summary_safety` let a user put a failure on the recovery queue and then generate it beside the queue.
One failing call can hit every call of every flow; a second one would matter where an error path
fails as well: `SummaryTasks` has that case through the cancelled context. `summary_safety` has no
restart, `summary_week` and `summary_live` have one; the proofs cover any number of both. In `media`
one event is enough for each of the hazards by itself (a policy that changes during a download, a
crash, a handover), not for two of them together: there all four safety invariants are theorems, for
any number of events, assets and accounts. Two assets let a newer one keep an older one waiting.

In `accounts` two rows let a login meet another account and a row come back under a new id; four requests let an account be
created, authorized and then logged in again, or deleted and synchronised from a page that is not up to date; once two requests
have been served together (`overlap`) fewer of them follow, because the properties that remain (`TypeOK`,
`ListenersExact`) need no long series; session keys are more than rows and clients can hold.
`services`: one document of two chats and three days with two sources, two failing calls; two browsers,
two passwords and a limit of two failures; two handlers, two keywords and a cooldown of two; five
messages on two days, of which one arrives late, one is a service message and one is ignored by summaries; a batch of two
items one of which is started per round; a notice of two parts with two attempts; four messages (one without text, one after
a silence), windows and model limits that make every branch of the generation happen: all fits, all fits but
the model refuses, two to four chunks, a merge in one or two levels, a give-up at the smallest budget or the
deepest level; three sources the longest of which is split under its header, with and without comparison material; five
messages on two days, three of one second, pages of two.

Fairness. The code's goroutines run until they return, its ticker fires again and the maintenance
loop sleeps and goes on, so each step of a started flow, both loops and the passing of a retry's delay
are weakly fair. Requests, faults and restarts are not. In `SummaryTasks` time passes (the clock stops
at `MaxDay` after the summary time). In `DailyDigest` midnight is *not* fair: `PendingTakenUp` is a
promise for the day on which the scheduler looks at the digest. In `MediaQueue` a worker is weakly fair
including its next start (`runListenerLoop` starts the listener again five seconds after an error), the
delay of a retry passes, and a settings request does not stop between its statements unless it fails;
messages, requests, stops and restarts are not fair. In `TelegramAccounts` requests and listeners that have
begun go on. In `MC_Services` goroutines and loops are weakly fair, and a retry of a batch item's row that keeps
becoming due is strongly fair (the items of a batch, the flows beside it and the days of a
repair are fair as a whole only, which assumes less than each of them being fair): the scheduler and the maintenance loop come back to it (`RetryHappens` of
`summary_live`), though other flows may hold its task in between. The generation needs no fairness:
`DailyShrinks` and `RollupShrinks` (in `TasksEnd`) say that each call lowers a measure in the lexicographic
order of natural numbers; both are theorems. That the recovery queue of digests
always empties is not claimed: a delivery that fails again and again keeps its item waiting.

`CHECK_DEADLOCK FALSE` is set for `DailyDigest` and `SummaryPeriods`, whose clocks stop at their bound, and for
`TelegramAccounts` and `Services`, where nothing is left to do once the requests are used up.

## Where the code does not keep what it says

Each is a run that must find its property violated; the quotations are in `PROJECT.json`.

* `claim_no_gap`: a frequency changed again on the effective date of the previous change, before that
  day's summary time, forgets the period that ended the day before: a week is never summarised.
* `claim_sent_once`: the delivery retry of a weekly summary belongs to the scheduler *and* to the
  maintenance loop (the guard "only yesterday" exists for generation retries only); the one that loses
  the race for the task sends the text it had read before.
* `claim_pending_ends`: while a digest is being delivered its status is already "succeeded". A rerun is
  accepted, resets the row to "pending", finds the generation key still taken and returns success. If
  the date is not yesterday any more, nothing ever takes the digest up again, and while it is pending
  no other digest is retried.
* `claim_dead_session`: a synchronisation runs a client of its own beside the listener. If it has read the row
  before the listener logs out a session Telegram has ended, its `StoreSession` puts status and session back;
  should its own call then fail for another reason, the account is shown as authorized with a dead session,
  and no listener is there to notice until the next start.

Also met, without a run of its own.

* Digest: a delivery is recorded by id, so that one begun before a rerun marks the reset row as delivered
  and the new text is never sent; a retry that two flows have decided on keeps the delivery record of
  the first and does not send the text of the second. A rerun checks the status several calls before it
  resets the row: a retry that begins in between stores a text of the old sources beside the new ones,
  which the comment at `store/daily_digests_repo.go:74` rules out.
* Media: `RecoverInterrupted` queues the downloading assets of its account, but the account of an asset changes while it
  is downloading when its chat is given to another account and that account refreshes it; a second worker
  then claims it (`OneDownload` excepts this; `store/media_repo.go:163` does not). Two settings
  requests whose second statements come in the other order, or a failing one, leave attachments queued against the
  policy or parked although downloads are on.
* Summaries: a restart between `SaveResult` and `ScheduleRetry` loses the retry; a failing call after
  `SetRunning` outside "generate now" leaves a row of a day gone by running until the next restart; a retry
  decided by the scheduler before midnight and by the maintenance loop after it is carried out twice
  (`RetryOvershoot` bounds this at one). For a weekly period whose generations always fail, the
  scheduler and the recovery queue may take turns for ever (`QueueDrains` is checked for a day).
* Accounts: with two requests at once `RowsSound` fails, e.g. a code verified while the login is
  cancelled, or a synchronisation beside a deletion. A new login between the logout of an old listener and the deletion of
  its entry gets no listener; a slow logout may undo it. A login whose first synchronisation
  fails is authorized without a listener until the next start. Asking for another code in the set-up
  leaves a row in the state "authorizing". A back-fill runs the same chain of statements as a synchronisation.
  A synchronisation asked for by the id of a deleted account, or of none, makes a session and inserts a row that no
  login has created (`strays`). A login begun for an authorized account drops its session at once, also when no code is ever entered,
  while its listener keeps running with the old key: a late step of that listener may log the new login out, and
  when the new session ends, nobody notices before the next start. `RowsSound`, `LoginKept` and `DeadSessionEnds` speak of the
  other accounts (`again`).
  After Telegram has ended a session, the logout of the old listener may fall between the two statements by which a new
  login stores its session and its status: the account is then authorized without a session. The proof of `RowsSound`
  showed this; its second half therefore speaks of runs without an ended session.
* Login: with two changes at once a session of the lost one may let a request in (`SessionOfPassword`
  excepts this); a login that has read the old version deletes the sessions of the new one.
* Back-fill: the hook looks once; a generation that had read the messages before the import, and is still
  under way then, leaves its summary empty. The end of a range is 24 hours after its last midnight, which is not
  the end of the day when the clocks change.
* Batch: after a restart between the start of an item and its generation, a delivery record written meanwhile makes
  `checkSummaryBatchItem` count the item as succeeded. Notices: a failure after the notice about its date
  is not announced. Alerts: a message whose answer was lost gives its claim back and may be repeated.
* Generation: a chunk is measured by the texts of its messages only, not by the lines the transcript adds, and a
  message longer than the budget is a chunk of its own: such a request is sent although it does not fit,
  and only the refusal of the model brings a smaller budget. At the smallest budget the summary fails.

## What is proved

For any chats, periods, users, limits and bounds, in `SummaryTasksProofs`:

* `Types`: `Spec => []TypeOK`. `TypeOK` alone is not inductive: `Begin` looks up the first step of a
  flow, which exists only if a decided flow has a reason. `TypeAndFlow` adds that (`DecidedFlow`).
* `MutualExclusion`: `Spec => []TaskLock`. With `TypeOK` the property is inductive: keys enter the set
  with the flow that enters the task and leave it with `Finish`; an error path never skips `Finish`.
* `RetriesBounded`: `Spec => []RetryOvershoot`. The count is raised after the decision, so the
  invariant speaks of the retries *owed*: a flow owes one from its decision to `SetRetryRunning`, the
  maintenance loop from its selection on (`SchedOwes`, `MaintOwes`). `RetryBudget`: the count and what
  is owed for a key together never exceed the limit and one. `RetryFacts` says who can owe at all, so
  that no third flow does. `FirstDay[k] = day - 1` in the one decision and its negation in the other
  are not enough to exclude each other (the clock moves between them), which is why one more is possible.

For any calendar without end (`EndlessCalendar`: every day is in a month, every month ends), in
`SummaryPeriodsProofs`:

* `SamePeriod` and `PeriodOf`: for an aligned frequency (the effective date is the first day of a
  period of the new frequency) every day is in its period and all days of a period agree on it: old
  and new periods neither overlap nor leave days out.
* `CurrentPeriodKept`: `Spec => CurrentKept`, for any number of changes.
* `PeriodsDisjoint`: `Spec => []Disjoint` with at most one change. The invariant (`CalendarInv`) says
  that the frequency is aligned and that every summary is still the period of its first day; a second
  change can break the latter, which is what `claim_no_gap` shows.

For any assets, accounts, limit and bounds, in `MediaQueueProofs`:

* `Types`: `Spec => []TypeOK`, which says that a worker in a download holds an asset of the table.
* `ForcedStays`: `Spec => []ForcedNotParked`, inductive with the types: every statement either leaves
  the status of a forced row alone or gives it one of the others (`ForcedRecords`).
* `OneWorker`: `Spec => []OneDownload`. Not inductive: a recovery looks at the account of a row, not at
  its worker. `OwnInv` adds that the account of a held row is its worker's, that only the collecting
  account writes messages, and that the worker still knows the count of the row; it is what the change
  of the collecting account breaks.
* `AttemptsBounded`: `Spec => []RetriesBounded`, with `OwnInv`: the decision on another attempt uses the
  count of the claim (`BoundMoves`: a step starts a count again, keeps it, or counts one attempt).
* `PolicySettles`: `Spec => []PolicySettled` if there is one settings request at a time. `PolicyInv` adds
  that the request under way still speaks of the stored policy; with two requests it may not.

In `SummaryLifeProofs`, about `SummaryTasks`:

* `LifeImplemented`: `Spec => ImplementsLife`, the refinement. `StepMaps` has one case per action: under `LifeInv`
  (types, task lock, retry budget, and `KnownRows`: a flow works on rows that exist, and no row is ever deleted) it is a step of `SummaryLife` or
  leaves its three variables alone. The lock is needed because only the flow inside the task may save a result;
  the late failure of `SetFailed` maps to the abstract failure a flow may record late.
* `BusyRowsOwned`: `Spec => []RunningOwned`. Inductive only with what follows from having no failing call: no
  round is cancelled and no flow holds an error, so that every flow that made a row busy goes on to write a result.
* `NoPartialText`: `Spec => []PartialNeverSent`. `HeldInv` carries the check from the three places that
  decide on a delivery to the sending: a flow that delivers holds a text that was ready when it read it
  (`HeldReady`), and no flow that generates turns into one that delivers without reading again (`FlowKinds`).
* `DeliveriesBounded`: `Spec => []DeliveryOvershoot`, by a budget like that of the retries (`DeliveryBudget`).

In `DailyDigestProofs`, for any dates, users, limits, faults and restarts:

* `Types`, `KeysGuard` (`Spec => []KeysExact`): `KeyInv` states for each kind of key separately which part of a
  flow is under it (`Inside`); every step keeps, takes or gives back each of them, and the hand-over gives a key from
  the caller to the goroutine in one step.
* `RetriesBounded`: as for the summaries, with what the scheduler and the maintenance loop owe (`RetryInv`); nobody else
  retries. Both may owe one for the same date, which is why the count may pass the limit by one.

In `TelegramAccountsProofs`, for any requests, listeners and bounds:

* `Types` and `OneListener` (`Spec => []ListenersExact`): an entry of the map names the goroutine that will delete
  it, and `EnsureListener` starts none while there is an entry.
* `NoRowReturns` (`Spec => [](~overlap => NoGhost)`): `RowsInv` follows what the clients know of their rows (`OneRequest`). With
  one request at a time a row is deleted only when no other process is at work on it (`Quiet`), so that nobody
  holds a copy that a later save could insert; the only process that may find no row is a synchronisation, whose insertion
  is counted in `strays`.
* `LoginsStay` (`Spec => LoginKept`) and `RowsAreSound` (`Spec => []RowsSound`): `Calm` adds, for runs in which the
  server ends no session and for accounts not in `again`, that the sessions of logged-in rows are valid and that a row
  read by a client and not yet saved is still the stored one. A step
  of a client or a request changes the row of its own account only (`ClientOwn`, `ServedOwn`), and for an account not in
  `again` it does so only while nobody else is at work there (`OwnIsQuiet`). An account enters `again` with the first
  statement of the login, before anything of it is written, and `AgainKeeps` says that a step about such an account leaves
  what `Calm` says of every other one as it is.

In `SummaryPeriodsProofs` also `PeriodsComplete` (`Spec => []NoGap` with at most one change): the days up to the end of the
latest period that had ended when the scheduler last looked are covered (`NoGapInv`); one change moves that end by
whole periods only.

In `GenerationProofs`, for any messages, sources, windows, limits, sizes of answers and faults:

* `DailyTypes` and `EveryMessage` (`DailySpec => []MessagesKept`), `RollupTypes` and `EverySource` (`RollupSpec => []SourcesKept`). The
  invariants (`DraftInv`, `RollInv`) have three parts. The types; the *evidence*: the requests under way hold all the
  facts, so do the answers they are made from, and an answer that has come holds those of its request; the *room*: a batch
  fits the budget of its level, and that budget the cap. `EveryMessage` alone is not inductive, because a text that is "done" is
  an answer to a request packed from answers of the level before.
* They rest on what the functions on texts return, for every input: `JoinFacts`, `SplitFacts` (pieces fit and hold the text),
  `PackFacts` (so do batches, in order), `AnswerFacts`, `SplitHolds` (the chunks hold each message once), and `PiecesFacts` and
  `PackSourcesFacts` (sources under repeated headers). The library's induction cannot be instantiated here, so each fold is written as a function
  on the number of elements taken, and `Induction` is stated for a *set* of numbers, from the well-foundedness of `<` on them.
* `DailyEnds` (`DailySpec => DailyShrinks`) and `RollupEnds` (`RollupSpec => RollupShrinks`): every call leads `Nearer` the end, by
  phase, depth of merging, budget or cap, or the number of open requests. The room is what makes a repeated level
  smaller: half of a budget that was within the cap is below the cap. `DailyMeasure` and `RollupMeasure` say that the measures are natural
  numbers, so that they cannot be lowered for ever.

In `ServicesProofs`, about the batch, for any items, limits, requests, other flows, faults and restarts:

* `BatchTypes`, `BatchTask` and `BatchOverwritesNothing` (`BatchSpec => []NoOverwrite`), from one invariant (`BatchInv`):
  the item's goroutine and the other flow never hold the task together (`Holders`), a retry that was due still is when it
  is counted (`RetryCounted`), the items of a round and those at work are queued (`RoundQueued`), and one item at a time is
  prepared (`OnePrepared`). `NoOverwrite` rests on `Holders`: after the look inside the task nobody else can succeed, and
  what a flow that has left the task sets to failed late (`late`) never is a success.

In `ServicesProofs` also, one section per service:

* Alerts (`AlertsKeepApart`): what counts for a key are its announced alerts and the claims under way
  (`Counts`); they are a cooldown apart (`ClaimsApart`), and the entry in memory is never older than one of
  them unless the cooldown has passed (`Remembered`). A release removes the entry only if it is its own.
* Notices (`NoticeOnce`): an attempt under way is for a notice not yet delivered (`AttemptOpen`), and every message but
  one has cost a fault, while nothing is delivered every message (`FaultPerMessage`).
* Login (`SessionsMatchPassword`): sessions of the stored version are sessions of the stored password, and no
  session has a version to come (`VersionsFollow`); it holds as long as no two requests write together (`OneWriter`).
* Catch-up (`GeneratedIsFinal`): until its text is saved, the document of a generation under way has not succeeded (`Unfinished`).
* Back-fill (`BackfillStoresAll`): `WalkHasStored`, all that is wanted from the offset on is stored and counted; it
  survives waits and messages that arrive meanwhile because these are later than where the walk began or are met by it.
* Pages (`EveryMessageShown`): `PageOf` is the fact about `limit + 1`: if the query returns no more than the limit, the page is all
  there is, otherwise it is everything from its oldest message on. `ShownBehind` says that whatever was promised and is
  behind the cursor has been shown and nothing shown is ahead of it. The proof needs that messages of one
  instant are of one day, which `PagesAssumption` states.
* `Services` has a behaviour of one service at a time, so that the results carry over to it by its shape alone (the lemma
  `ServicesEach`): `NothingAnnouncedTwice` (`NoRepeats`), `ArchiveStaysWhole` (`ArchiveWhole`), `NoTextLost` (`NothingLost`),
  `ServicesInRange` (`ServicesTypeOK`) and `ServicesSafe` (the action properties, `DailyShrinks` and `RollupShrinks` among them)
  state them under the names the run checks.

Assumptions: those named in the modules (bounds are natural numbers, limits positive, sets of ids finite where
they are counted), `EndlessCalendar`, at most one change of frequency where `claim_no_gap` shows that
two do not do, and that there is a window and a limit to begin with (`ServicesAssumption`).

Only model-checked: the liveness properties, for the prover has neither fairness nor `ENABLED`: `RunningEnds`, `RetryHappens`,
`QueueDrains`, `PendingTakenUp`, `PartialReplaced`, `DeadSessionCleared`, and of `TasksEnd` the part with `~>` and `EmptyRepaired`. All the
invariants and action properties of the runs are theorems. `PolicySettled`, `OneDownload`, `RowsSound`, `NoGap` and `Disjoint` are theorems
under the conditions they state.

## What is not modelled, and why

Prompts, wording and layout: no property depends on them; texts appear as tokens and facts in the generation
only. Follow-up questions are one call of the model without stored state. Reads without effect (lists,
searches, activity, the web interface but for the pages it asks for). The chat switches (summary on or off,
delivery mode) stay as they are during a run of `SummaryTasks`, and the transition of the delivery mode is a function of dates
that no module needs. `delivery_suppressed` of a digest is always false for the rows the code creates today. The
model client and the bot are outcomes of a call: a result, a failure that may be retried, a final
failure, a refusal as too long. One back-fill at a time: several share only the tables, by upserts that
may be repeated. Migrations and deployment are schema and packaging.

## Plan

Done: all modules above with their runs, the proofs of every safety invariant and action property of the runs, the
refinement of `SummaryLife`, and the lemmas on joining, splitting and packing texts. To do: the conditions under which parts of
the invariants are stated (one change of frequency, requests one at a time, no ended session) made as weak as the
proofs allow, and the invariants behind the liveness properties, such as that a retry that is due always has a flow that may take it.
