# Hadir (Maugood): a TLA+ model of the backend

Hadir is a camera-based attendance system. A FastAPI process serves the API,
reads the camera streams, recognises faces, derives attendance from detection
events, runs the leave and exception requests, and mails notifications and
reports. This directory models the parts of that process where threads,
transactions and failures meet, checks them with TLC on small instances, and
proves part of what is checked, for every value of the constants, with TLAPS.

Paths below are relative to `src/backend/maugood/`.

## 1. The system

One uvicorn process (`entrypoint.sh` starts it without workers) with one
PostgreSQL schema per tenant. `main.py` 87-136 starts, in this order: the login
rate limiter, an enrollment thread, the capture manager, the attendance
scheduler, the report runner, the notification worker, the retention and the
lifecycle schedulers; it stops them in nearly the same order. Request handlers run on a
thread pool, schedulers are APScheduler threads, camera workers are two threads
each. `entrypoint.sh` upgrades every schema before it serves. `docker-compose.prod.yml` restarts the container when the process dies.
Transactions run at READ COMMITTED, and no handler modelled here locks a row it reads.

### Components

| component | state it keeps | operations | talks to | hard part | what makes it correct |
|---|---|---|---|---|---|
| Capture manager, `capture/manager.py` | registry of workers, enabled flag, scheduler | start and stop of a camera, hooks of the camera endpoints, restart of one and of all, 2 s reconcile tick, boot, stop() | camera endpoints, workers, `cameras` table | every thread works on copies: the row it fetched, the desired set, the registry it saw | one running worker per camera, none lost, the registry follows the table |
| Worker pipeline, `capture/reader.py`, `tracker.py`, `events.py` | latest frame and sequence number, tracks, status, statistics | reader loop with reconnect, analyzer loop, hot reload, event emission | stream, matcher, event bus, database | hand-over between two threads, back-off, one event per track entry | a person is reported once per entry, a stop is noticed |
| Live fan-out, `capture/event_bus.py`, `live_capture/` | one bounded queue per viewer | subscribe, publish, drop oldest | workers, WebSockets | thread to event-loop hand-over | order kept, newest delivered, a slow viewer blocks nobody |
| Request workflow, `requests/` | `requests`, `approved_leaves`, audit rows, attachments | create, cancel, manager, HR and admin decisions, side effects, attachments | ledger, recompute, notifications | read-decide-write without a lock; side effects after the commit | statuses follow the state machine, leave is granted only on approval and then reaches attendance |
| Attendance, `attendance/`, `policies/`, `attendance_calendar/` | `attendance_records`, `shift_policies`, `policy_assignments` | recompute of one date, of today, regeneration; policies and assignments; month, drawer, lists | events, ledger, holidays, settings | concurrent recomputes, each upserting what it read; days cut in two time zones | a row that was recomputed from unchanged inputs is right, all readers tell the same of it |
| Leave ledger, `leave_calendar/` | `approved_leaves`, leave types, holidays, tenant settings | CRUD, workbook import | recompute | edits recompute nothing | as above |
| Notifications, `notifications/` | `notifications`, preferences | insert, preference changes, drain every 30 s | producers, email provider | send and mark are separate, preferences flip meanwhile | bounded attempts, honest stamps, opt-out at once, the queue drains |
| Camera watcher, `notifications/camera_watch.py` | reads health snapshots | scan at each tick of the report runner | notifications | every scan fails (section 3) | one notification per outage |
| Scheduled reports, ERP export, `scheduled_reports/`, `erp_export/` | schedules, runs, files, links, `next_run_at` | due scan, run now, edit, download | email, files, retention | what a run read of the schedule is stale when it finishes | the next run follows the expression, no run runs for ever, what is due is mailed once, links work |
| Employees and organisation, `employees/`, `departments_router.py`, `divisions_router.py`, `sections_router.py`, `manager_assignments/`, `custom_fields/`, `users_lookup.py` | employees, photos and their files, units, users, assignments | CRUD, workbook import, photo upload and approval | matcher cache, files | file and row are changed in turn; a row of the import makes half the organisation | no row without file, a failed row leaves nothing, one primary manager |
| Delete requests, erasure, lifecycle cron, `employees/delete_requests.py`, `pdpl.py`, `lifecycle_cron.py` | `delete_requests` | submit, decide, override, erase; nightly deactivation | employees, photos, cache | the erasure follows the commit of the decision; the cron writes by id | an approval has erased, nobody is matched after leaving |
| Identification, `identification/` | matcher cache, embeddings, events' owners | load, invalidate, match, enroll, rematch | employees, attendance | invalidation after the commit | the cache follows the table |
| Retention, `retention/` | | nightly sweep of old rows and report files | reports | files go before their rows | no good link loses its file |
| Tenants and schemas, `db.py`, `alembic/`, `scripts/`, `entrypoint.sh` | one schema per tenant, its stamp, `public.tenants` | upgrade at start, provision, deprovision, roll back, reset, seeds | everything | the stamp comes after the commit, a restart ends a script anywhere | what is served fits the code, stamps are true, no data is forgotten |
| Authentication, `auth/`, super admin, `super_admin/` | sessions, login counters, preferences, Entra configuration, the tenant's status | login by password or Entra, the checks before every request, logout, switch of role; the operator's console | every request | a request reads its session, its user and touches the session in transactions of their own; check and count of a failure are apart | no request undoes what another did to its session, attempts bounded |
| Branding, detection settings, reporting, audit log | configuration | single-transaction CRUD and reports | | nothing of their own interleaves | |
| Frontend, backups | | | | not part of the backend's logic | |

`PROJECT.json` lists them again with their files and how much of each is
modelled, and the hazards with the lines where they bite.

## 2. Modules

| module | what it is |
|---|---|
| `Tracker`, `LiveCapture`, `CaptureWorker` | the tracker as functions; live events from a thread to its viewers; the two threads of one camera, which use both |
| `CaptureManager` | the capture supervisor of one tenant: registry, hooks, restarts, tick, boot and stop, environment |
| `RequestLifecycle` | abstract specification: how the status of one request may move |
| `RequestWorkflow` | one request with its deciders, its side effects on the leave ledger and attendance, and every other writer of those two; implements `RequestLifecycle` |
| `NotificationDelivery` | the notification queue of one tenant: producers, preferences, the email worker |
| `Schema` | the tables `db.py` declares, as facts about tables |
| `Migrations` | the 36 revisions of alembic, up and down, as functions from facts to facts |
| `TenantSchemas` | the life of the tenants' schemas: entrypoint, provision, deprovision, roll back, reset, seeds |
| `PeopleState`, `OrgChart`, `FaceGallery`, `SignIn`, `People` | the state the employee services share; units, managers, fields, employees and their import; photos, delete requests, erasures, lifecycle cron and matcher cache; sign-in, sessions and the operator's console; all of them together |
| `OfficeState`, `Attendance`, `ScheduledRuns`, `Office` | the state attendance and the jobs share; engine, policy resolution, recomputes, inputs and views; schedules, runs, ERP export, links and retention; both together with the clock |
| `MC...` | one per composition; the `.cfg` files give their constants |
| `...Proofs` | TLAPS proofs: of `CaptureManager`, `RequestWorkflow`, `NotificationDelivery`, `TenantSchemas` (with `Migrations`), `CaptureWorker` (with `LiveCapture`) and `People` (with all it is made of) in the module of that name; of `Office` in `OfficeProofs`, on its jobs, and `AttendanceProofs`, on its rows |

A step of a model is what one thread does without another being able to
interfere: a block under a lock, one database transaction, one call into a
worker, one message handed to a provider. What a thread carries from one
step to the next is a variable of its own, and may be stale when it is used.
Any transaction may raise. One that is undone altogether and that nobody goes
on from is a request that never takes its step; where something is left behind (an
earlier commit, a removed file, a place in a loop) the failure is an action: `Raises`,
`ErasureFails`, `FinishFails`, `SkipDue`, `ExportFails`, `FailRow`, `Abandon`, `Interrupted`.

### CaptureManager

| state | code |
|---|---|
| `row` | the `cameras` table: enabled flag, URL, hot-reloadable knobs |
| `enabled`, `scheduled`, `registry` | `_enabled`, the reconcile scheduler, `_workers` |
| `worker` | what a `CaptureWorker`'s threads run with, or that they have ended |
| `plan`, `seen` | `desired` and `current_workers` of `reconcile_all`; the boot's listing |
| `pc`, `call`, `hold`, `todo` | each thread's place, its call frame, the workers in its local variables, the cameras its loop has left |

`CheckStart`, `Spawn`, `Register` are the three parts of `start_camera`: look
under the lock, build and start outside it, store under it. `Pop` and `Halt` are
`stop_camera`. `CreateCamera`, `PatchCamera`, `DeleteCamera` commit the row and
enter the hook; `Fetch` is `_reconcile`; `RestartCamera`, `RestartAll`,
`NextRestart`, `Reread`, `Respawn` are the restarts; `Tick...` is `reconcile_all`
statement by statement; `Boot...`, `Stop`, `Unschedule`, `StopNext` are the lifespan
thread. The environment writes rows directly, ends workers and kills the process.

Abstractions. One tenant: the registry is keyed by tenant and camera, and tenants
share no row. A worker is stopped from the moment its stop event is set; the
joins that follow wait at most five seconds for each of its two threads. `_reconcile`'s test of
`_enabled` and its fetch are one step, and so are the two reads of a restart of all
cameras and the row and bags of a restart of one. Requests have been answered
before `stop()` begins, as uvicorn does on a graceful shutdown. The detection
toggle, the camera's bag and the two bags of the tenant are one value, `knobs`.

### Tracker, LiveCapture, CaptureWorker

| state | code |
|---|---|
| `stop`, `reader`, `analyzer` | `_stop`; where the two threads are, or that they have ended |
| `slot`, `fresh`, `held` | `_latest_frame`; `_frame_seq` is ahead of `last_analyzed_seq`; the frame the analyzer has in hand |
| `since`, `tracks`, `todo` | time since `last_detect_ts`; `_tracks`; faces still to be emitted in this cycle |
| `enabled`, `knobs` | `_detection_enabled`; the tracker's overlap, idle time and longest duration |
| `ready`, `viewer`, `slots` | callbacks the event loop has not run; each WebSocket with its queue; `_ws_counts` |
| `where`, `stream` | who stands where; whether the camera answers |
| `visit` | history: whether something came in a visitor's way, since when, and the rows written for them |

`OpenStream`, `ReadFrame`, `ReaderEnds` are the reader's loop, `LookAtFrame`, `Pace`,
`AnalyzeFrame`, `InsertRow`, `Publish`, `AnalyzerEnds` the analyzer's, with
`DetectionFails`, `MatchFails` and `EmitFails` where it may fail. `Kept` is
`_drop_stale`, `Associate` the rest of `update`, one `Claim` per detection. `UpdateTracker`,
`UpdateDetectionEnabled`, `StopWorker`, `StartWorker` are what the manager does to a
worker. `Connect`, `AcceptFails`, `Subscribe`, `SendToViewer`, `Disconnect` are one
WebSocket, `PublishEvent` and `DeliverOrDrop` the two ends of the event bus.

Abstractions. Time passes in the pause of the analyzer and is counted in its cycles;
waits of other lengths are not counted, so a bound of n cycles is one of n frames
looked at. A visitor is one stay of one person, a picture has a few places, and `Iou`
says how much boxes at two places overlap. Motion may be seen in any frame. A change
of the tracker's settings falls between two of its updates. One worker at a time: that
there may be two is `CaptureManager`'s matter. Previews, boxes, statistics, health rows
and metadata change nothing the two threads decide on.

### RequestLifecycle and RequestWorkflow

| state | code |
|---|---|
| `status`, `kind`, `audit` | the row in `requests`, its audit rows (status before, status after) |
| `granted`, `entered` | rows of `approved_leaves` for the request's employee, dates and type: inserted by an approval, entered by HR |
| `mark` | `leave_type_id` of the attendance row of one requested date is set |
| `today` | that date is the tenant's current date |
| `call`, `saw` | a decision between read and write; what a recompute has read |

`Cancel`, `ManagerDecide`, `HRDecide` and `AdminOverride` read the row and ask the
state machine; `Commit` is `update_status` with its audit row, and then enters the
side effects if the decision was an approval by HR or admin. `Lookup`, `Insert`,
`Recompute`, `Upsert` are `_apply_post_approval_side_effects` and `recompute_for`.
The ledger's transaction stands in no try, unlike the recompute: `Raises` ends the
handler there, with the decision committed, and `Answer500` tells the caller.
`JobRuns` and `Boot` are the periodic recompute and its seed thread, which share
`Recompute` and `Upsert`. `Crash` loses what handlers had still to do.

`RequestLifecycle` says that a status moves along the edges of the state machine,
each move taken from a status the request once had. That the departed status
need not be the current one is the weakest thing that is true: readers take no lock.

Abstractions. One request and one of its dates. Role gates, inbox queries and
notifications are left out, for they change no state seen here; so are attachments.
A policy resolves for the employee (without one, a recompute does nothing).

### NotificationDelivery

| state | code |
|---|---|
| `row` | the `notifications` table: `email_sent_at`, `email_attempts`, `email_error` |
| `pref`, `address`, `email` | preferences, active user with an address, `email_config` |
| `pc`, `batch` | where the drain is, and the rows it has left |
| `sends` | messages the provider has accepted, per row |
| `unrecorded`, `late` | history: accepted or attempted but not on the counter; accepted since the last opt-out |

`Tick` is the drain's first transaction; `SkipAll` a switched-off sender; `Resolve`
re-reads preference and address of a row; `SendSucceeds` and `SendFails` are the
provider's call, where a failure may come after the message was accepted; `MarkSent`,
`MarkFailed`, `MarkSkipped` the transaction that records it. `Interrupted` is a
database call that raises, or the process dying, at any of these points.

Abstractions. One tenant; the tick visits tenants in turn and contains their
errors. `mark_read` and `mark_all_read` touch only `read_at`, which the drain does
not read. Rows are never deleted while they are pending (retention is 90 days by default).

### Schema, Migrations, TenantSchemas

A *fact* is one thing the database knows of a table: that it exists, a column, a
foreign key with what a deletion does, a unique index, a check, a grant.
`Schema!Metadata` is the set of facts `db.py` declares; `Migrations!Upgrade(n, F)`
and `Downgrade(n, F)` are what `upgrade()` and `downgrade()` of revision n make of
the facts F, and `SchemaAt[n]` what the chain makes of an empty schema.

| state | code |
|---|---|
| `tenant` | rows of `public.tenants`, in the order of their id |
| `schema` | each schema: its facts and its `alembic_version` (0: none) |
| `script`, `boot` | where the operator's script and the entrypoint are |
| `admins` | schemas with an Admin user |

`Restart`, `MigrateMain`, `MigrateTenant`, `Serve` are `entrypoint.sh` with
`migrate.py`; `Provision`, `Stamp`, `StampFails`, `Cleanup...` are
`provision_tenant.py`, transaction by transaction; `Reset...` the reset script with
its wipe, its two tenants and its seeds; `RollBack` is an operator's `downgrade -1`.
`EnsureSchema` is what `env.py` begins with: alembic makes a schema that is not there,
so that a tenant deprovisioned before its stamp comes back as an empty one.
A restart ends a script wherever it is.

Abstractions. Types, defaults and indexes that enforce nothing are no facts. The
seed scripts count only for the Admin they make. A revision is atomic: PostgreSQL's
DDL is transactional and `env.py` upgrades in one transaction.

### PeopleState, OrgChart, FaceGallery, SignIn, People

| state | code |
|---|---|
| `divisions`, `departments`, `sections`, `users`, `posts`, `assigned`, `fields`, `values`, `employees` | the tables of these names; `posts` are the three tables of unit managers |
| `photos`, `files` | `employee_photos`, and the encrypted files on disk |
| `deletes` | the statuses of an employee's delete requests |
| `cache` | `MatcherCache` of the tenant: loaded, and per employee the vectors and the lifecycle |
| `sessions`, `failures` | `user_sessions`, and the limiter's counters per identifier |
| `chosen`, `oidc`, `suspended`, `console` | the users' preferences, whether Entra is configured, the tenant's status, the operator's session |
| `ops` | what each request or job in flight does next |
| `stale`, `botched` | history: what was changed by code that never tells the cache; at which step an employee's erasure has failed |

Each endpoint is an action, or one for each of its transactions and of its calls
to the cache: `ReadPending` and `WriteApproval` of an approval, `HrDecide`,
`WriteDecision`, `Erase`, `EraseRow`, `Forget` of a delete request, `PatchEmployee`
and `WritePatch` of a PATCH, which checks against the row it has read and writes by
id, `RunLifecycle` and `Deactivate` of the cron. `ErasureFails` is the roll back of
any of the three erasures: rows come back, removed files do not. `StartImport`, `ImportRow`, `EndImport` are the
workbook import, a row being all the things it makes or none. `Match` loads what
is not loaded and picks any employee the loaded vectors could mean.
`StartLogin`, `VerifyPassword`, `MakeSession` are a login, `StartOidc`,
`OidcCallback`, `MatchClaims` the way through Entra to the same insert. `Open`,
`LoadSession`, `ExpireSession`, `LoadUser`, `TouchSession` are what happens before any
handler, `SwitchRole`, `Logout`, `SetPreference` the handlers that write what
sign-in reads; `SweepSessions` is the nightly sweep's part.

Abstractions. Names, texts and images are left out; an embedding is there or not.
Ids are not handed out twice. A photo's file is identified by its row. An
identifier stands for one user, the check of a password and the protocol with Entra
are outcomes, `current_super_admin` is one step. One operator has one session. The
pilot's sign-in without a slug, which skips the tenant's status, and the
gates on roles are left out.

### OfficeState, Attendance, ScheduledRuns, Office

| state | code |
|---|---|
| `now`, `settings` | the clock in slots of the server's day; weekend and time zone of the tenant |
| `staff`, `shots`, `policies`, `assignments`, `leaves`, `holidays` | what a recompute reads |
| `records`, `notices` | `attendance_records`; how often a day's overtime was notified |
| `schedules`, `runs`, `disk`, `links`, `mailed`, `email` | the tables of reports, the files, links in mailboxes, what the tick mailed for which due time |
| `erp` | `erp_export_config` |
| `ops` | handlers and jobs in flight, with what they carry from one step to the next |
| `settled`, `overtaken`, `unrecorded` | history: rows recomputed since their inputs last changed; schedules whose expression was patched under a run; runs whose finalising transaction raised |

`Compute` is `engine.py`, `Tiers` and `Resolved` the cascade of
`resolve_policies_for_employees`. `RecomputeToday` and `Regenerate` begin a
recompute, `Snapshot` is the first transaction of today's job, `ReadRow`, `WriteRow`
and `FailRow` one employee's. `Rematch` and `Reassign` are the two halves of
`rematch_endpoint`. `PersonStatus`, `DayStatus`, `Pending`, `CompanyDay`, `ErpStatus`,
`Timeline` are what six readers make of a record. `Insert`, `Build`, `Deliver`,
`Finish` are `run_schedule_now`; `Tick`, `Scan`, `StartDue` the report runner;
`Export`, `RereadConfig`, `RecordExport` `run_export_now`; `SweepFiles`, `SweepRows`
the retention sweep. `FinishFails` is the finalising transaction of a run, which stands in
no try; `SkipDue` a due schedule that is gone or whose first transaction raises, `ExportFails`
the tick's handler of the export; `Abandon` any other job that gives up. `Crash` loses
everything in flight.

Abstractions. A day has four slots; the last stands for its last second. Cron expressions are periods of slots. A
record knows whether its day is on leave, not of which type. What a report says is
left out. Embedding and matching are an arbitrary choice of owner.

## 3. What the runs check

| run | instance | states | result |
|---|---|---|---|
| `capture_reconcile` | 2 cameras, 4 workers, 2 knob values, no request, 2 events | 41,776 | passes |
| `capture_hooks` | 1 camera, 5 workers, 2 request threads, 2 URLs (one undecryptable), 3 events | about 790,000 | passes |
| `capture_leak` | 1 camera, 1 request thread, 2 events | | violation |
| `worker` | 2 visitors, 3 places in a row (neighbours overlap), 1 viewer with a queue of 2, 2 settings, detection every 2 cycles, 2 events | 2,438,753 | passes |
| `worker_defaults` | 1 visitor, the shipped settings, no event | | violation |
| `requests` | 2 calls in flight, 5 events | 615,260 | passes |
| `request_terminal` | 2 calls in flight, 4 events | | violation |
| `notifications` | 1 subscription, 3 rows, batch of 2, 2 attempts, 4 events | 241,019 | passes |
| `tenants` | main and 2 tenants, deployments from revisions 26, 33 and 36, 6 events | 14,664 | passes |
| `tenants_fresh` | the same, 3 events | | violation |
| `people` | 2 of each row, 3 sessions, 1 failed login allowed, 2 requests in flight, 2 days, 2 events | 339,032 | passes |
| `office` | 2 employees, 2 policies, 3 detections, 2 zones, 2 schedules, 2 runs, 2 expressions, 2 jobs in flight, 2 days of 4 slots, 2 to 3 events | 1,602,037 | passes |

An *event* is something that need not happen: a request, a write from outside,
a failure, a death, a crash. `MaxEvents` bounds them; the reactions to an event
(the tick, a handler's remaining steps, the drain) are not bounded. In `Office` a behaviour
begins with a budget for each kind of event, `Beginnings`: changes of a record's inputs,
recomputes begun or failed, and everything of reports, exports and the sweep, their
ticks included.

Capture.
- `OneWorkerPerCamera`, `NoOrphanWorker`: at most one running worker per camera,
  and every running worker can be found. Both hold of the tick, boot, stop and
  restart alone, whatever dies, fails or is written; with a request thread
  beside them they do not (`capture_leak`).
- `Ownership`: a worker is in the registry under one key or in one thread's hands.
  This holds with every thread present: what goes wrong in `capture_leak` is that
  an entry is overwritten, never that a worker is shared.
- `Converges`: once events cease, exactly the startable cameras have a live
  worker with their row's knobs. It holds with requests too: the leak leaves an
  extra worker behind, but the registry itself comes right.

Worker.
- `OneRowPerVisit`: a visitor nothing goes wrong for and nobody else comes near has
  one row until their track reaches the age at which any track is given up. It takes an idle
  time no shorter than the pause between detections (`worker_defaults`).
- `SeenInTime`: such a visitor has their row two cycles after a detection is due; and
  whoever was mistaken for somebody else, or whose row failed, has one once the track
  in question has been given up and detection is due again, counted from a cycle after
  things went wrong: the track of somebody they have just moved away from may have been
  begun in the frame before, and be found theirs in the next. These bounds, and that of
  `OneRowPerVisit`, are sharp: one cycle less, or more, and TLC finds a visit that breaks them.
- `ViewerSeesNewest`: a viewer's backlog, queued and on its way, is always the last
  events published, in order and without a gap.

Requests.
- `FollowsLifecycle`: the workflow implements `RequestLifecycle`.
- `GrantsAreApproved`: there are never more ledger rows of the workflow's
  making, present or about to be, than audited approvals.
- `ApprovalReachesLedger`: a leave approval reaches the ledger, or its decider is answered
  500 because that transaction raised, or the process dies. Nothing else loses it.
- `AttendanceFollowsLedger`: today's attendance mark ends up agreeing with the ledger.

Notifications.
- `AttemptsAreBounded`: a row is mailed at most `MaxAttempts` times, but for sends
  whose mark was lost or that an operator struck from the counter.
- `StampedMeansMailed`, `StampedIsFinal`: a stamped row was mailed unless
  it was skipped, and is never mailed again.
- `OptOutTakesEffect`: after an opt-out at most one message leaves.
- `EveryRowSettles`: every row is in the end stamped or out of attempts, unless
  the sender stays unreadable.

Tenants.
- `ServedSchemasFit`: whatever the backend serves has exactly the tables, columns
  and references of `db.py`, by whichever way the schema came about.
- `StampTellsSchema`: the stamp of main, and of every tenant with a row, is true, after
  any restart, failure or roll back, so the next upgrade starts from the right revision.
  It holds through all 36 downgrades. Of schemas without a row it says nothing: an empty
  one stamped at the head may be left (below).
- `NoForgottenData`: a schema with data has its row in `public.tenants`.

People.
- `GalleryIsCurrent`: a loaded cache matches against exactly the approved photos
  with an embedding and knows everybody's lifecycle, except for what a request is
  just about to tell it and what was changed by code that never tells it.
- `OnlyFailuresStrandApproval`: an approved delete request has erased its employee,
  unless the process died in between or the transaction that erases failed.
- `RowsHaveFiles`: a photo's row has its file, but for an employee of whom an erasure
  has taken the files and not yet the rows, or failed or died before it did.
- `OnePrimaryManager`: at most one primary manager, by the index of 0012.
- `MisplacedByPatchOnly`: an employee gets into a section of another department in
  two ways only, a PATCH that moves him and does not mention the section, and one whose
  section was looked up in a department another PATCH has taken him out of meanwhile.
- `RequestsUndoNothing`: a request that loaded its session before another logged out,
  expired it or switched its role does not bring the old state back when it touches it.

Office.
- `SettledRowsAreRight`: a record whose last writer has read inputs nothing has changed
  since is what the engine computes from them, whatever reads and writes of other
  recomputes came between. A writer who read before a change may put an older row over
  a newer one; of such a record nothing is said until it is written again.
- `OvertimeNoticedOnce`: managers hear of overtime when none was stored, and not
  again unless two recomputes of the row overlapped.
- `ViewsAgree`: all readers tell the same of a record. `DetailExplainsRow`: the
  drawer's stays begin and end with the check in and out of an up-to-date record,
  as long as the tenant lives in the server's zone, and but for the last second of a
  day, which the record counts and the drawer leaves out.
- `NextRunFollowsCron`: the next run of a schedule, and of the export, matches the
  expression, unless the expression was patched while a run was in flight.
- `RunningRunsAreAlive`: a run that says "running" is, unless the process died or the
  transaction that was to finish this run raised.
- `LinksWork`: a mailed link downloads its report until it expires, as long as its
  schedule is there. `DueServedOnce`: what was due is mailed once, unless the
  process died, or a run that served this very due time could not be recorded.

Bounds. Two cameras let the tick's loops meet a second camera between two of
their steps; the registry treats cameras independently, so a third adds
nothing new. In `capture_hooks` one camera is enough, because threads interfere
only over the same key; five workers are as many as threads can hold at once
with the registry, and no more are ever needed, for an identity is reused when
nothing refers to it any longer. Three events suffice for two requests and a
failure in between. Two calls are the smallest number that race, and five events
allow a request to be filed, decided twice and approved with one failure or
crash. Three rows and a batch of two make a row wait for a second batch; two
attempts make a row fail, be retried and give up. The knob values number one in
`capture_hooks` (`capture_reconcile` has two), which keeps the run short. In `worker`
two visitors and three places in a row are what it takes to be told
apart, mistaken for each other, and to move within reach and out of it, also in one's
own track and out of another's at once, for which the first and the last place have to be apart; the two settings differ
in overlap and longest duration and meet both exactly; the queue fills and drops.
A second tenant lets the reset script and `migrate.py` be between two tenants; the
three revisions are one before the last rewrite of roles and columns, one in the middle of
the organisation's tables, and the last. Two of every row are enough for a move, a
clash of names and a row that stays, three sessions for two users and a second login; two requests for each race listed under the
hazards, and two events start them. In `office`, three slots and the last one, which the drawer leaves out, give an in, an out
and a gap; day 0 and day 1 a yesterday; a zone two slots ahead, half a day, makes the two days
differ; the configurations of `MCForm` cover hours, windows, a dated policy and grace
that wraps at midnight; periods 2 and 3 meet in every sixth slot only. `MCBeginnings` names what may come
together: with two employees an input and a recompute, or two inputs; with one, two recomputes of
the same rows that overlap while an input changes under both (TLC reaches the older row
written over the newer one); three events of the jobs, so that a tick mails, fails to record
the run and mails again (TLC reaches that too); and one event of the jobs beside one of
the others. `TokenLife`
and `KeepRuns` are equal, which is the smallest retention under which `LinksWork`
can hold.

Deadlock is not checked: with its events used up a model may come to rest, as
the system does when nobody asks anything of it.

Fairness. Threads keep running: weak fairness of each request thread's next
step, of the tick's and of the lifespan thread's. The tick is started every two
seconds with `max_instances=1`; the attendance job at its interval; the drain
every thirty seconds, with a 30 s timeout on SMTP. The process is restarted when
it dies (`restart: unless-stopped`). `CaptureWorker`, `TenantSchemas`, `People` and `Office` state no fairness: they check no liveness. Nothing is assumed of events: no request,
success of a provider or end of a failure is ever forced, save by the bound on failures.

### Where the code differs from what it says

- `capture_leak`. `reconcile_all`'s docstring calls a simultaneous hook safe because
  both go through `start_camera`, which uses the lock. It takes the lock twice, and
  does not look again the second time: two starters both spawn, and the second
  drops the first one's worker from the registry while it runs.
- `worker_defaults`. `tracker.py` 10-12 says that rows are written for new tracks only,
  which keeps their number bounded "regardless of how long a face lingers". When nothing
  moves, faces are looked for every 3 s, and the shipped tracker forgets a face after 2 s:
  someone who stands still has another row every 3 s.
- `request_terminal`. `state_machine.py` calls some statuses terminal but for an
  admin override. The update does not name the status it departs from, so of two
  concurrent deciders the later overwrites the earlier one's terminal status.
- `tenants_fresh`. `db.py` relies on two partial unique indexes which only the
  migrations make, and `provision_tenant.py` says it wires the grants the
  application needs. A tenant it provisions has neither the indexes (nor the unique
  camera code, nor two checks) nor a grant on `delete_requests`, and since it is
  stamped at the last revision no upgrade adds them. `OnePrimaryManager` therefore
  holds of migrated tenants only.

Met while modelling; the models have the code's behaviour, no run is about it.

Capture.
- `capture/manager.py` 9-12 says that the tick catches out-of-band changes of a row and
  crashes of a worker. It never compares the URL of a camera that is running; and it
  takes a worker for alive while one of its two threads is. Matching and labelling stand
  outside every handler (`reader.py` 806-828): when a cache has to be loaded and the
  database fails, the analyzer ends and the reader lives on, so nobody is seen any more
  while the worker says it is running.
- `tracker.py` 203-210 says that changed settings apply to new tracks only; `_drop_stale`
  applies them to all. A tenant's longest duration overwrites the camera's own.
- A row that could not be written is not tried again: its track goes on. Whoever steps
  into the place somebody has just left is that somebody, until the track is given up.
- A place for a viewer is taken before the block that gives it back
  (`live_capture/router.py` 452-476; the same of the MJPEG stream, 248): when the
  handshake or the audit row fails, it is lost until the process restarts.

Tenants and scripts.
- `bootstrap_dev.py` reads `public.super_admins`, which does not exist, and calls
  `provision` with arguments it does not take. `pre_omran_reset_seed.py` inserts
  `cameras.enabled`, which 0027 dropped: its second tenant is never seeded
  (`ResetSeedReal`).
- `provision_tenant.py` promises "no half-provisioned middle state": a crash between
  commit and stamp leaves a tenant without a stamp, and every later start fails on
  it (`MigrateTenant`). Deprovisioning while `migrate.py` has the tenant on its list
  leaves an empty schema.
- Deprovisioning a tenant between the commit and the stamp of `provision_tenant.py` has
  the stamp make the schema again, empty and at the head (`env.py` 102): no row names it,
  no script drops it, and `_ensure_unique` refuses the slug until the reset script runs.
- `requests.leave_type_id` is set to NULL on deletion of the type, which the check
  `leave_type_consistency` forbids.

People.
- `pdpl.py` calls `invalidate_employee` with the tenant as a second argument (186 and
  333); the `TypeError` is swallowed, and an erased employee's vectors stay in the cache
  until something else unloads them. `stale` has them among the exceptions of
  `GalleryIsCurrent`.
- The soft delete and its bulk form do not tell the cache, and neither does a PATCH
  of the last day alone; the bulk form turns "deleted" back into "inactive", and a
  PATCH can make an erased employee active again.
- `lifecycle_cron.py` writes by id, over whatever was committed since it read;
  `run_lifecycle_cron.py`, being another process, cannot tell the server's cache.
- `db.py` 217 says that "login and the request middleware refuse a suspended tenant".
  The middleware never reads the status: sessions of a suspended tenant go on working.
- The check of a password and the count of its failure are apart (`auth/router.py`
  369): attempts in flight together pass the limit, by as many as there are requests.
  A user switched off between the check and the insert gets a session row whose id the
  browser never learns, for the handler trips over its own assertion.
- Decisions on delete requests and on photos read and write in two transactions
  without a condition on the status: of two, the second stands. A hard delete that
  races an upload leaves a file without a row.
- The erasures unlink the files before the statements of their transaction. When it
  fails, rows are left without files, and nobody tries again (`employees/router.py` 2163
  puts a line into the answer of the bulk delete). The approval of a delete request has been
  committed by then and says "approved" of an employee who is still there; HR may file
  another. A file that cannot be unlinked is logged and left behind its row.
- PATCH checks a section against the row it has read and writes by id without a lock
  (`employees/router.py` 1453, 1522, 1582): of two concurrent ones, one of the section and one
  of the department, the result is an employee in a section of another department. One
  PATCH of the department alone does the same.

Office.
- Recomputes follow only the clock: a leave, holiday, policy or setting that changes
  a past day changes no record until somebody regenerates it, and detections after
  the last tick of a day never reach its record. A ledger row deleted, or left by an
  override to "rejected", keeps its mark for ever.
- `local_tz_for` says the tenant's zone counts, not the server's; `events_for` uses
  the server's. The drawer and the rematch use the tenant's, the regeneration
  compares with the server's today, the job with the tenant's.
- `company_view` subtracts leaves from absences because "engine sets absent=true" on
  leave; it does not (`engine.py` 339), so absences are counted too low.
- Grace is added to a time of day and wraps at midnight (`engine.py` 174-208).
- The drawer does not look at the ledger, the month does. Its day ends at 23:59:59
  (`attendance_calendar/queries.py` 791-793), that of `events_for` with the last microsecond:
  a detection in the last second is in the record and not in the drawer.
- The ledger row of an approval is inserted by a transaction of its own that stands in no
  try (`requests/router.py` 377-400): when it raises, the request is approved and no leave is
  granted, and nothing but an admin override to "approved" repeats it.
- The transaction that finishes a run stands in no try (`scheduled_reports/runner.py`
  445-472; the tick goes on at 573): the run stays "running", its schedule stays due and
  the next tick mails it again.
- `retention/sweep.py` 148-150 says that when the deletion of the rows fails "we leave the
  files alone (no half-state on disk)"; they are unlinked before it, in the same
  transaction (`SweepFiles`, `Abandon`): finished runs then name files that are gone.
  Deleting a schedule leaves its files for ever.
- A crash leaves a run "running" for ever, and no sweep takes it. A schedule paused
  after the tick's scan still runs. Run ids are looked up across tenants by
  `download_run`, though each tenant counts its own.
- `camera_watch.py` 83 names `cameras.c.enabled`, a column `db.py` no longer has:
  every scan raises, and no camera-unreachable notification is ever sent.

## 4. What is proved

All theorems hold of `Spec`, without fairness, for all values of the constants that
meet the modules' assumptions. These say that numbers are naturals, that what is
enumerated is of the kind it is meant to be, that `None` and `Gone` are no rows or ids,
and where the code has it, that a limit is not zero (`CaptureAssumption`,
`WorkflowAssumption`, `DeliveryAssumption`, `LiveAssumption`, the ones of `Tracker`, `CaptureWorker`,
`PeopleState`, `OrgChart`, `SignIn`, `People`, `OfficeState`, `Attendance`, `Office`).
`TenantSchemas` starts from a release with slugs (`ReleasesAssumption`, as its `Init`
does) and assumes two facts without a constant in them, `DowngradesUndoUpgrades` and
`ChainMeetsMetadata`: TLC computes both at the start of each of its runs, and there is
only one instance of them to compute. The worker assumes of its settings that there is
a longest and a shortest, that a track may live for a cycle at least, and that a box
overlaps itself by as much as is ever asked for (`KnobsAssumption`: the longest duration
is at least 5 seconds by `cameras/schemas.py` 28 and `system/router.py` 494; 492 lets the
threshold be at most 0.95, and a box overlaps itself by 1). Four theorems have a hypothesis of their own, named in the table.

| theorems | properties |
|---|---|
| `CaptureManagerProofs!TypeCorrect`, `OwnershipHolds` | `TypeOK`, `Ownership` |
| `CustodyHolds`, `OnlyOvertakingOrphans` | only two steps can lose a running worker |
| `ReconcileOrphansNone`, `ReconcileRunsOne`, if `Requests = {}` | `NoOrphanWorker`, `OneWorkerPerCamera` |
| `RequestWorkflowProofs!TypeCorrect`, `GrantsHaveApprovals` | `TypeOK`, `GrantsAreApproved` |
| `Implementation`, `HRFollowsManager` | `FollowsLifecycle`, `Lifecycle!ManagerBeforeHR` |
| `NotificationDeliveryProofs!TypeCorrect`, `AttemptsBounded`, `StampedWasMailed`, `OptOutHolds`, `StampIsFinal` | `TypeOK`, `AttemptsAreBounded`, `StampedMeansMailed`, `OptOutTakesEffect`, `StampedIsFinal` |
| `CaptureWorkerProofs!LiveHolds`, `ViewersSeeNewest`, `PlacesLimitViewers` | `ViewerSeesNewest`; viewers and places |
| `WorkerTypes` | `TypeOK` |
| `OneRowHolds`, if `Patient` | `OneRowPerVisit` |
| `NobodyOverlooked` | `SeenInTime` |
| `PeopleProofs!TypesHold`, `RowsStayWhole` | types; `TypeOK` |
| `OnePrimaryHolds`, `MisplacedByPatch`, `SessionsAreNotRevived` | `OnePrimaryManager`, `MisplacedByPatchOnly`, `RequestsUndoNothing` |
| `ApprovalsAreCarriedOut`, `PhotosHaveFiles`, `MatcherIsCurrent` | `OnlyFailuresStrandApproval`, `RowsHaveFiles`, `GalleryIsCurrent` |
| `OfficeProofs!TypesHold`, `RowsAreKept`, `RowsReferToRows` | types; `TypeOK` |
| `RunnersFinish`, `NextRunsFollow`, `DueIsServedOnce` | `RunningRunsAreAlive`, `NextRunFollowsCron`, `DueServedOnce` |
| `MailedLinksWork`, if `TokenLife <= KeepRuns` | `LinksWork` |
| `AttendanceProofs!SettledRowsHold`, `NoticesAreNotRepeated` | `SettledRowsAreRight`, `OvertimeNoticedOnce` |
| `ViewsTellTheSame`, `DetailsExplainRows` | `ViewsAgree`, `DetailExplainsRow` |
| `TenantSchemasProofs!SchemasStayMade`, `StampsAreTrue`, `ServedSchemasAreRight`, `DataIsNotForgotten` | `StampTellsSchema`, `ServedSchemasFit`, `NoForgottenData` |

`Requests = {}` is the manager under its own threads, boot, tick and stop, as in run
`capture_reconcile`; with requests the property is false (`capture_leak`).
`Patient` asks that a track may idle as long as the analyzer may pause between two
detections. The shipped settings do not meet it, and the property is then false
(`worker_defaults`); an operator's may (`system/router.py` 493), as in run `worker`.
`TokenLife <= KeepRuns` is what is shipped: a link is good for 7 days
(`config.py` 144), a run kept for 90 (`retention/sweep.py` 65).

Capture. `Ownership` is not inductive: `Register` stores the worker in hand under
the camera of the call frame, so the frame has to be that of a call in progress,
and `Spawn` needs the frame to carry a row. `Frames` says what a call frame holds at each label and who waits for it;
`Plans` that boot precedes the first tick and that a loop starts only what is in
its plan; `IInv` is these with `TypeOK` and `Ownership`. `Custody` adds that a live
worker is filed under its own camera (`Labelled`) and that a thread has at most one in
hand where it starts or stops one (`Hands`). From there every step either keeps hold of each worker or is one of
the two in `Overtaken`, so that the leak is pinned down with requests present.
Without requests neither of these can happen: `Unrivalled` says that what the tick
and the boot are about to start or drop is not alive under its key, because what
`reconcile_all` has seen can only have been replaced by nothing.

Requests. `Grounded` adds that a pending decision is one the state machine allows
and departs from a status of the past. Then a `Commit` is a `Move` of the lifecycle
along that edge, `Create` is `Submit`, and every other step is a stutter.
`HRFollowsManager` is an invariant of the lifecycle, carried over by the refinement:
the only edges to an HR decision depart from `manager_approved`, which is
therefore in the past. `GrantsHaveApprovals` counts: `granted` and the calls on
their way to an insert (`Granting`) are no more than the approvals in the audit
trail. A commit adds one to each side, an insert passes from one term of the
left to the other, a crash only takes away.

Notifications. What makes the induction go through is that only the worker stamps
rows and counts attempts, so the rows of its batch are still pending when their
turn comes (`BatchPending`), whatever users and operators do meanwhile. `Counted`
accounts for each send: on the counter, in flight or unrecorded. `Accepted` and
`Prompt` say the same of the step between a send and its mark, and between a
preference's reading and the send.

Live events. `Informed` says of a subscribed viewer that its queue and the callbacks
still to come, read from the oldest to the newest, are numbered down to 0 without a
gap, where `Called(w, i)` counts the callbacks behind position i. A publication adds one to all lags and one
callback per viewer, a delivery moves the first callback to the end of the queue and may
drop its head. `Uninformed` says that a viewer who is not subscribed has nothing
under way, which is what makes the numbering start right.

People. `Types` gives each kind of request in flight what it carries from one step to
the next, and is the ground for the rest. `References` holds together: an employee's
section exists because the department's deletion is refused while it has sections, and
so on; the limiter's counter is bounded only together with the attempts being verified
(`FailuresFit`). `OnePrimary` stands on the unique index, `SessionMoves` says what a step
can do to a session at all. For `MisplacedByPatchOnly` the prover needs what a PATCH in
flight has looked up: a section of `home`, written while it still is. For
`OnlyFailuresStrandApproval` a decision under way erases
if it approves (`ApprovalsErase`), and goes on to or has failed (`Botched`). For `RowsHaveFiles`, uploads in flight have
ids of their own and their file (`UploadsFit`), reviews a photo of the employee they name
(`ReviewsFit`), and `FilesKept` is a little stronger than the property: the erasures in the
midst of which a file may be missing have seen a photo (`Clearing`), or failed (`Cleared`). The matcher is current because whatever changes a face, a status or a last day
has the cache told before it ends, or is on the list `stale` of code that does not.

Jobs. `Alive`: a running run is carried by a worker, or could not be recorded, or the process died. `CronsHold`:
what a run will plan with is the expression its schedule has, unless that was patched
meanwhile. `ServedOnce` needs that there is one tick (`OneTick`), that what it has still to
serve was not mailed and is listed once (`Waiting`, `InTurn`), and that whoever
mailed a due time has planned beyond it, is about to, or could not be recorded (`Mails`). `LinkChain` follows a
file from `Build` to the sweep: a run in hand is running and has its file
(`RunsInHand`), a link's file is on disk while the link is good (`MailedLinks`), and the
sweep has in hand only runs whose links are over (`SweepsOld`); here the hypothesis enters.

Attendance. `RecordsRight` says of each row that is settled, or in the hand of a recompute none of
whose inputs changed meanwhile, that it is what `Compute` makes of the inputs now;
today's job reads policies and the weekend earlier than the events, so its plan is held to the same (`PlanRight`).
The lemmas before it say which rows each change of an input leaves alone (`RowStays`). `ViewsTellTheSame` counts the
company's buckets: they are disjoint subsets of the day's records (`FiniteDays`).
`DetailsExplainRows` compares the least and the greatest slot of a day's detections with those of
the same set without the last (`LastSecond`).

Tenants. The invariant lists the few contents a schema can have (`Made`): what the chain
of migrations makes up to its stamp, main's or the tenant's part of it, what
`provision_tenant.py` makes, or nothing. That upgrades stay on the list is
`RevisionPart`: each revision from 0027 on commutes with taking the tenant's part, proved revision by revision, so the
upgrade of a part is the part of the upgrade. `Serving` ties the scripts to a main
at the head, `Passed` says that what `migrate.py` has no longer on its list is up to
date, `Scripted` that the script's tenant has row and schema together, `Rowed` that no
stamp of an earlier release and no table is without its row, `Forsaken` that an empty schema at
the head is one nobody will upgrade or provision (`Abandoned`); `RollBack` needs that there was no tenant before 0008.

Worker. `Typed` is the kind of everything, and needs the tracker's functions first: `KeptIs`,
`ClaimIs` and `AssociateSound` follow them one track and one detection at a time (`CountsUp`).
`Single` says, of each visitor in view nothing went wrong for (`Watched`): everyone else's boxes, in the picture, in
the slot, in hand and among the tracks, are away from theirs (`Apart`), their own are near
enough to be continued (`Near`), and no two tracks are theirs (`One`). While the visit is
younger than any track may become (`Young`), `Lone` counts its rows, written and to be
written, with its tracks, and `Soon` says the track cannot idle out before the next
detection is due, which is where `Patient` enters. Then a detection of others
passes over the visitor's track (`OthersPass`), the visitor's own continues it
(`OwnContinues`) or, where there is none, begins it (`OwnBegins`).

`NobodyOverlooked` takes no patience: a track that idles out is begun again, with a row
of its own. `Punctual` says of every visitor in view how long nothing can have gone wrong for
them while they have no row. `Nearing` counts the way of a face from the picture to the
analyzer's hand, two cycles at most. `Spaced` says that while cycles pass calmly nobody
stands in reach, nor is pictured there; of the frames read before, only one more is looked at. Hence a track
begun later than one cycle after something went wrong is another's and lies nowhere near them
(`Unmixed`). That one cycle is why the bound is a cycle more than the ages alone suggest; on an
instance without a place between two others TLC would confirm the shorter one. `InHand` bounds the visit by the cycles since the last detection, and
by `Lag`: two for a visitor nothing went wrong for, the longest age of a track and one for anybody else. A
detection resets the one and keeps the other, because a face is either new, and its row
about to be written, or claims a track (`AssociateFrom`) that is not `Recent`.

Only model-checked: liveness (`Converges`, `ApprovalReachesLedger`,
`AttendanceFollowsLedger`, `EveryRowSettles`), which the prover does not do. Every safety
property a passing run checks has its theorem.

## 5. Not modelled

- Of authentication: hashing, Entra's protocol, the gates on roles, the pilot's
  sign-in without a slug. Of the super admin: lists and statistics.
- Of the worker: previews, boxes, statistics, health rows, metadata and the MJPEG
  stream. `CaptureManager` and `Office` see a worker and its events as `alive` and `Shoot`.
- Request attachments: check, store and insert are three steps (`requests/router.py`
  1112-1120); a status may change and a file stay behind between them.
- The camera watcher, which never gets past its query.
- Leave types, password resets, field order, branding, detection settings: one
  statement each, read by nothing that is modelled. Reports, workbooks, mails and
  the user interface: wording and layout. Smoke scripts test a running system.
- The shutdown of the capture manager does not wait for its scheduler
  (`capture/manager.py` 173), and a worker's joins give up after five seconds.

## 6. Plan

Nothing of this plan is left. What would come next is in section 5, and the hazards without a property:
a worker whose thread dies outside its handlers is taken for alive, a join that gives up
forgets a thread, a URL changed beside the API is not picked up, deletions from the ledger are
not followed by the attendance mark; hooks start a worker with knobs only a later tick puts
right; and where two writers overlap (recomputes that both notify, a run or an export over a
patch of its expression, a day cut in two zones) a property exempts what the code does.
`PROJECT.json` says so at each.
