# vps-monitor: TLA+ models, checks and proofs

vps-monitor is one Rust process (axum on tokio, SQLite through an r2d2 pool) and
one page of JavaScript. It shows the metrics, processes, services and logs of a
host to users who log in. Source paths below are relative to the repository,
`src/` being its root.

- `X.tla` models a component, `MCX.tla` with `MCX_<run>.cfg` instantiates it for
  TLC, `XProof.tla` proves theorems about it with TLAPS.
- `PROJECT.json` maps each definition to the lines it models, and lists runs,
  mutants, findings, hazards and theorems.

Run `tlc -config MCLogin_concurrent.cfg MCLogin` to check a run, `tlapm
LoginProof.tla` to check proofs.

## 1. Inventory

| Component | State it keeps | Operations | Talks to |
| --- | --- | --- | --- |
| Login (`handlers/auth.rs`, `db/users.rs`) | `users` rows: hash, `failed_count`, `locked_until` | `login`, `user-add`, `user-passwd` | SQLite from blocking threads, sessions, audit |
| Sessions (`auth/middleware.rs`, `db/sessions.rs`) | `sessions` rows: token, `expires_at` | extractor `AuthUser`, `logout`, hourly purge | every handler runs the extractor first |
| Log streams (`handlers/logs.rs`) | per websocket: offset, or a child process | `tail_file`, `stream_docker`, `stream_journal` | files of PM2 apps, docker daemon, `journalctl` |
| Metrics collector (`collectors/system.rs`) | five `RwLock`s: sys, disks, networks, users, snapshot | `refresh` every second, `snapshot`, `top_processes` | metrics and process handlers, SSE stream |
| Audit log (`db/audit.rs`) | `audit_log` rows | `write`, `list`, daily purge | login, logout, log views; always best-effort |
| PM2, services, docker collectors | none, but the docker handle of start-up | one listing per request, `find` by name | `pm2 jlist` once per home, `systemctl`, docker socket |
| Web page (`static/app.js`) | open log socket, last network sample, tables | tabs, log viewer, SSE handler | all endpoints |
| Configuration (`config.rs`) | read once | `load`, `validate_bind` | start-up |
| Server (`main.rs`, `state.rs`, `db/mod.rs`) | the process, a pool of eight connections | `serve`, graceful shutdown on Ctrl-C only | every handler and task takes a connection; systemd restarts it on failure |

What is hard, and what makes each component correct:

- **Login.** The closure of `login` opens no transaction. Each SQL statement
  commits by itself, argon2 takes tens of milliseconds between two of them, and
  the `user-*` commands are other processes. Correct: the row never contradicts
  itself, a freeze is bounded, decisions are justified although they rest on a
  copy, an error leaves no session, `max_failed_logins` failures freeze.
- **Sessions.** `find_active`, the decision to slide and `touch` are separate
  steps racing logout, purge and other requests. Correct: deleted means deleted,
  idle sessions die, used sessions live, dead rows go.
- **PM2 log tail.** Between two awaits the file grows, shrinks or is replaced,
  and each await may fail. Correct: nothing is skipped, nothing is repeated but
  what grows under the first read, the newest bytes arrive, the task ends with
  its client.
- **Collector.** One writer takes four locks, readers take one or two, and any
  reader may be dropped while it waits. Correct: answers do not go back in
  time, refreshes and requests complete.
- **Audit log.** Entries of log views are written by detached tasks that nobody
  waits for, and a daily task deletes. Correct: a view that is not older than
  the retention is on record, an older one goes.
- **Server.** Requests, audit tasks and two purges share one pool, and a
  shutdown waits for some of them, and for the clients and programs that they
  wait for. Correct: nobody holds a connection while waiting for one, none
  leaks, waiters are served, nothing inside the server holds up a drain, and no
  start serves on a public address.
- **Listings.** One request asks several daemons that fail and change in
  between. Correct: a failure hides nothing of the others, and no log opens but
  the one that was clicked.
- **Page.** Messages, close events and answers arrive when they please.
  Correct: lines under a title belong to it, no stream is forgotten open, the
  table is that of the chosen filter.
- **Journal stream.** A child must die on every way out.

`PROJECT.json` lists every hazard at its line with the properties that cover it.

## 2. Plan

Done in this order, by weight of the behaviour: `Login`, `LoginProof`,
`Sessions`, `SessionsProof`, `TailFile`, `Collector`, `LogStream`,
`SessionLease` (which `Sessions` implements), `AuditLog` composed into
`Server`, `Listings`, `Dashboard`; then the theorems about all of them, in
`TailFileProof`, `LogStreamProof`, `CollectorProof`, `ServerProof` (with the
audit log), `DashboardProof`, `ListingsProof`, the freeze in `LoginProof` and
the refinement in `SessionsProof`. To come:

1. That nobody waits for ever in `Collector`, as far as it is safety: whenever
   somebody waits, the front of some queue can go on.
2. `LogFollow`: an abstract append-only follower which `LogStream` implements,
   and `TailFile` while its log only grows, with the steps proved as those of
   `SessionLease` are.

Runs take from seconds to about two minutes: two or three actors and clocks of a few ticks
reach every interleaving of interest, as section 5 argues per run.

## 3. Modules

**Login.** One action is one statement, or the local code between two of them
where it reads the clock.

| Action | Code |
| --- | --- |
| `Submit` | a request that passes `require_xhr` and the empty-field check, `auth.rs:40-53` |
| `FindForAuth` | `users::find_for_auth`; without a row the outcome is decided, `auth.rs:57-76` |
| `CheckLock` | `until > now`, then `verify`, both on the copy, `auth.rs:78-96` |
| `ReadCount`, `DecideLock`, `RecordFailed` | the SELECT, the clock and the UPDATE of `users::record_failed` |
| `ResetFailed`, `CreateSession` | `auth.rs:113-116` |
| `WriteAudit` | `audit::write` behind `let _ =`: may fail, changes nothing |
| `StatementFails` | a `?` on the pool or on a statement, 500 with what is committed kept |
| `Reply` | the answer, with the cookie only if the outcome is "ok" |
| `UserAdd`, `SetPassword` | the two commands, one statement each |
| `Crash`, `Tick` | the process is killed and restarted; the clock |

`users`, `now` are shared; `pc`, `loc`, `verdict`, `session`, `logged` belong to
a login. `seen` and `misses` are history: what held of the account since the
login arrived, and the failures since the last reset. A login that has decided
clears its history, which keeps the state space small.

**Sessions.** `LoginBegin`/`LoginInsert` are `new_token` and
`sessions::create`; `Begin`, `FindActive`, `Slide`, `Touch` are the extractor;
`Delete` and `Reply` finish a logout; `Purge` is one run of the hourly task;
`Fail`, `Crash`, `Tick` as above. `row` is `expires_at`. `cookie` is when the
browser drops the cookie. `gone` and `used` are history. `Tick` lets no request
spend more than `MaxDelay` between two steps: `busy_timeout` and the pool's
timeout bound that in seconds while `TTL` is seven days.

**SessionLease.** What sessions promise, without any of their machinery: a
token's lease is granted once, renewed while it runs (or within two delays
after), given back, and ended in the end when it has run out. `Sessions` implements
it with `expires <- row, ended <- gone`:

| `Sessions` | `SessionLease` |
| --- | --- |
| `LoginInsert` | `Grant` |
| `Touch` of a row that exists | `Renew` |
| `Delete` of a row that exists | `End` |
| `Purge` with something to delete | `EndRunOut` |
| `Tick` | `Tick` |
| any other step | stuttering |

**TailFile.** Bytes are numbered as the app writes them, and a file is an
interval of numbers, so that a byte can be followed through truncation and
replacement. `Open`, `Stat`, `ReadTail`, `Send` are the first part of
`tail_file`; `Tick`, `Restat`, `Reread`, `Send`, `Recv` its loop. The app, the
rotator and the client are the world. `Fail` is the `?` of each of these awaits
(`logs.rs:110,111,114,118,139,145,147`), which ends the task. History:
`disturbed` says that the log was truncated or removed since it was opened,
`since` up to which byte the first metadata call has counted, and `head` how
many bytes the first read has returned. A tick that finds no file, or cannot
open it, changes nothing and is a stuttering step.

**Collector.** A tokio `RwLock` is fair, so it is one queue in order of arrival,
whose holders are at its front: a write is granted when it is first, a read
when only reads are before it. A drop gives up the place of its process
(`Places`, `Without`), wherever in the queue it is. `Wake` to `Return` are `refresh`; `Begin`,
`Acquire`, `Answer` are `snapshot()` and `top_processes()`; `Drop` is hyper
dropping the future of a request whose client is gone. Data is reduced to its
age, the number of the refresh that wrote it. `answered` and `floor` are
history.

**LogStream.** `stream_journal` and `stream_docker`, told apart by `kind`. A line
arrives in two parts, so that a `select!` round lost to the socket falls inside
a line. `Start` is `spawn()?` or `docker.logs`; `Poll`, `PollFails`, `PollEnd`
are the branch of the source, `Hear` and `Recv` that of the socket; `Send`,
`Kill` as in the code. `PollFails` leaves the function and drops the child,
which `kill_on_drop` kills and tokio reaps (`Reap`).

**AuditLog, Server.** `AuditLog` has the actions of the log of views, `Server`
extends it and says when they may happen: a task waits for the connection that
requests want too, and ends with the process.

| Action | Code |
| --- | --- |
| `Start`, `Serve`, `StartFails` | `Config::load`; `validate_bind`, `migrate`, `AppState::new`, the listener; an error in one of them, `main.rs:76-90` |
| `Accept`, `Received` | a connection of `axum::serve`, and the request when it is complete; its first closure is the extractor's, or the handler's for `login` |
| `Take`, `TakeFails` | `pool.get()` in a blocking closure |
| `Authenticated`, `Answer` | the end of the extractor's and of the handler's closure, which drops the connection |
| `Asked` | `pm2 jlist`, `systemctl` or docker has answered the handler, or failed |
| `OpenLog` (`Spawn`) | `ws_docker`, `ws_journal` after the extractor, `ws_pm2` after `pm2::find`: the upgrade, with `audit_log` |
| `AuditTake` (`Connected`), `AuditDone` (`Written`, `NotWritten`) | the closure of `audit_log` |
| `PurgeBegin` | a tick of `spawn_session_purge` or `spawn_audit_purge` whose closure gets its connection |
| `AuditPurged` (`PurgeAudit`), `PurgeIdle` | the end of the closure with the DELETE of old entries; with that of sessions, or with an error |
| `Leave` | the client has taken its answer, gives up, or closes a metrics stream or a log viewer |
| `CtrlC`, `Exit`, `Killed` | the shutdown future, the return of `serve`, every other end |

`held` names the closures that hold a connection, of requests, audit tasks and
purges. In "reading", "asking", "answered" and "sse" (`Outside`) a request waits
for somebody outside the server, as long as they like. `due` is history: the views
whose entry the log owes its readers. A failing write and the end of the
process excuse an entry, as `let _ =` and the detached task do in the code. An
IPv4 address is its first two octets as one number, an IPv6 address its first
segment and whether it is `::1`; `is_safe_bind` looks at nothing else.

**Listings.** `Begin` and `BeginAny` choose the sources (`discover_homes`, the
configured homes, or the caller's own); `Ask` is one round of the loop in
`pm2::list`, or the call of the docker daemon; `Failed` and
`Found` are the last lines of `list` and `find`; `Opened` is the log that
`ws_pm2` follows, which an app need not have (`Logged`), and for a name that
`PM2_NAME_RE` refuses (`Accepted`) nothing is asked; `Done` is the answer. The world starts and stops items and lets sources fail between the
rounds. `steady` is history: what could be listed all the time; `shared` the
names that two homes had. `ListServices` is one call of `systemctl`, which may fail and whose
output (`Line`) has padded columns (`Column`); `Split`, `Columns`, `Shown` are
`splitn`, `filter` and `retain`. A line is a sequence of words and of the empty
pieces between two blanks (`Void`), not of characters.

**Dashboard.** One action is one run of an event handler. `OpenLogs` contains
the call of `closeLogs`. A socket has its log, its `readyState` and a message
that waits for delivery; after `close()` it delivers no message but still a
close event, whose notice goes into the output whatever is shown there.
`loads` are the answers of `loadServices` that are under way, in any order.
`settled` is history: the table has not been put out of order by overlapping or
failing loads.

## 4. What each run shows

| Run | Result |
| --- | --- |
| `login_concurrent` | `LockMatchesCount`, `FreezeBounded`, `SessionOnlyIfOk`, `OutcomesJustified` hold in every interleaving, with failing statements and crashes |
| `login_serial` | logins one by one: `MaxFailuresFreeze` and `FreezeEndsByTimeOrReset`, the README's lockout, hold |
| `login_lost_freeze` | violated with two logins: a stale UPDATE writes NULL over a freeze |
| `sessions_lease` | `NeverResurrected`, `DiesWhenIdle`, `LivesWhileUsed`, `ExpiredStaysDead` hold for three racing requests, and `ImplementsLease`: `Sessions` implements `SessionLease`, with its promise that a dead row goes |
| `sessions_cookie` | violated: the row slides, the cookie does not |
| `tail_follow` | `NoGap`, `RepeatsOnce`, `CatchesUp`, `StopsWithClient` hold: only bytes written between the first metadata call and the first read are shown twice |
| `collector_locks` | `AnswersFresh`, `RefreshCompletes`, `RequestsEnd` hold: no order of locks, waits and drops stops a refresh or a request |
| `stream_follow` | `WholeLines`, `LinesArrive`, `ChildReaped` hold for both streams |
| `server_life` | `ViewsOnRecord`, `PrivateBindsOnly`, `WaitersServed`, `DrainEnds`, `OldEntriesGo` hold through starts, drains and kills; a drain ends if clients, `pm2`, `systemctl` and docker let it |
| `listings_homes` | `SteadyItemsListed`, `ClickedLogOpens`, `NothingMisfiled` hold while apps come and go and daemons fail: no other log opens than the one that was clicked |
| `services_filter` | violated: a unit shorter than the widest one is not found under `active` |
| `dashboard_page` | `OutputOfTitle` and `OneStream` hold however late messages and close events are, `TableMatchesFilter` for loads that do not overlap |

The three violated properties state what the repository's README or a comment
says; the other runs show how far the code keeps it. Each property of a
passing run also has a mutant in `PROJECT.json`, an operator beside the one it
changes, under which TLC finds the property violated.

Three more disagreements are listed as findings without a run, because reading
shows them: the first read of a log tail sends bytes twice that are appended
meanwhile (`logs.rs:129`; `RepeatsOnce` says that it repeats no others),
the PM2 tail follows stdout only (`logs.rs:58`), and the page differences a
figure that is a difference already (`app.js:92`).

What the properties leave open on purpose:

- `TableMatchesFilter` excludes overlapping loads, since `loadServices` has
  nothing that orders its answers: the older one may be rendered last.
- `ClickedLogOpens` excludes names that two homes share, since only a name is
  sent. It says that no other log opens, not that one always does.
- `DrainEnds` has a premise: each client again and again lets go of the server.
  A metrics stream that stays open, a client that never finishes its request or
  takes its answer, and a `pm2 jlist` or `systemctl` that hangs, which nothing
  times out (`pm2.rs:95`, `systemd.rs:33`), each hold up a shutdown for ever.
- `CatchesUp` ends with the task: an I/O error on a metadata call, a seek or a
  read, which the loop does not survive although it survives a failed open,
  leaves the newest bytes unshown.
- `ViewsOnRecord` and `OldEntriesGo` speak of entries that are written: one whose
  detached task fails or dies with the process is excused, and the order of
  entries is not stated.
- `OutputOfTitle` is about lines: the notice of a closing socket is written into
  whatever log is shown.
- `ActiveServicesListed` excuses a `systemctl` that fails.

## 5. Bounds and fairness

- Login: one account (rows do not interact), two passwords, three logins
  (a stale writer, a fresh writer and one that reads between them),
  `MaxFailed = 2`, the least value at which a count can be lost below the
  limit. `MaxNow` lets a freeze run out and begin again; `login_serial`
  affords a longer clock. `MaxCount` bounds `failed_count` past the limit, by
  the guard of `ReadCount`. Requests and passwords are symmetric.
- Sessions: one token (rows do not interact), three requests, `TTL = 4` so that
  TTL/2 has a proper middle, `MaxDelay = 1` so that two steps stay below half a
  life, a clock up to 6 so that a session slides, runs out and is purged. No
  symmetry, as a temporal property is checked.
- TailFile: four bytes, a first tail of two, chunks of two: the tail is
  partial, a tick reads less than there is, and two files follow one another.
- Collector: three requests and three refreshes give a queue in which requests
  stand before and after the writer.
- LogStream: three lines of two parts: one shown, one half read, one to come.
- Server: two clients and a pool of one connection, the tightest pool, in which
  requests, audit tasks and both purges all compete; a retention of one tick and
  a clock up to 2, so that an entry is kept, kept at the cutoff and purged;
  `MaxRows = 2` bounds the table, by the guard of `Spawn`. The addresses are the
  first and last member of each range and their neighbours outside.
- Listings: three homes (root's, one under /home, the caller's), which share a
  name and of which one has two apps (`MCCatalogue`), homes that are configured
  or discovered, a name that `PM2_NAME_RE` refuses and an app without a log, two
  units with names and states of different widths.
- Dashboard: two logs, three sockets (one shown, one closing, one closed), two
  filters, two loads under way.
- Deadlock says little of these models: in `Collector` a request can always begin
  or be dropped, and elsewhere the bounded clock, the bounded log or the end of
  the task stop the model, or what is left to do is up to people. That nobody
  waits for ever is the subject of the liveness properties.
- Fairness: in `Sessions` the purge task loops for ever and ignores errors
  (`WF(Purge)`). In `tail_file` the executor polls a task that can go on
  (`WF(Task)`, which also excludes an open that fails for ever while the file is
  there), and
  `select!` picks among ready branches at random while the tick is ready only
  every 500 ms, so a `recv` that is ready again and again is taken
  (`SF(Recv)`). The same holds of the branches of the other two streams, and
  tokio waits for children whose handles are dropped (`WF(Reap)`). In the collector a woken task is polled; nothing is assumed of
  `Drop`, of the app, the rotator or the browser. Send is assumed to end, as a
  peer that neither reads nor closes is not modelled.
- Fairness in `Server`: a free connection goes to a waiter, which another may
  overtake, so `SF(Take)`; a closure that has begun ends, since `busy_timeout`
  bounds its statements: `WF` of `Answer`, `AuditDone`, `PurgeIdle`, and of
  `Authenticated \/ OpenLog` while the extractor's closure runs. The audit purge
  comes round for ever, gets its connection and does not fail for ever
  (`SF(PurgeBegin("audit"))`, `SF(AuditPurged)`); `serve` returns when axum has
  drained (`WF(Exit)`). Nothing is assumed of clients (`Accept`, `Received`,
  `Leave`), of `pm2`, `systemctl` and docker (`Asked`, `OpenLog` after them), of
  the pool's timeout, the administrator or signals; `DrainEnds` states what it
  needs of clients and programs as its premise. `WaitersServed` does not rest on
  `TakeFails`.
- `Listings` and `Dashboard` have safety properties only and no fairness.

## 6. What is proved

Every safety property that a passing run checks, for every value of the
constants. Each proof finds an inductive invariant that says what a process
carries between two of its steps: a request that has read and not yet
written, or a task between two awaits, could otherwise do anything. TLC has
checked each invariant on the instance of the run before it was proved.

| Theorem | Argument |
| --- | --- |
| `LoginTypeCorrect` | `TypeOK` is inductive; it says also that a login in progress has a user |
| `LockAlwaysMatchesCount` | `LockInv`: what `record_failed` carries in its locals (`next`, `until`) already agrees like the two columns it will write, so any stale write keeps them in agreement |
| `FreezeAlwaysBounded` | `FreezeInv`: the carried `until` is bounded as the column is, and the clock only grows |
| `SessionAlwaysOnlyIfOk` | `SessionInv`: a session exists exactly while the verdict is "ok", and there is no verdict before the audit entry is due |
| `OutcomesAlwaysJustified` | `SeenInv`: the copy a login decides on is backed by the facts in its history |
| `FreezesUnlessOverlapping`, `FreezeHoldsUnlessOverlapping`, `SerialLoginsFreeze` | `RecordInv`: what is about to be written is ahead of the row, as long as `RecordsAlone` |
| `SessionsTypeCorrect` | inductive |
| `SessionsNeverResurrected` | `GoneInv`: a deleted token has no row, and no login in progress will insert it |
| `SessionsDieWhenIdle`, `SessionsLiveWhileUsed`, `ExpiredSessionsStayDead` | the pending writes of every request are tied to the clock reading they were made from, which `MaxDelay` ties to the clock |
| `SessionsImplementLease` | each step is mapped to the action of `SessionLease` in the table of section 3 or to a stutter, with `Found`: the row that a request has found is there until it is in `ended` |
| `TailTypeCorrect` | `TypeInv`: offsets and chunks fit the files, in the order in which they were written |
| `TailRepeatsOnce` | `RepeatInv`: what the loop has shown, is sending and is still to read goes forward (`Forward`, `Ahead`), and of the bytes of the first read it comes back only to those from `since` on, where the offset that the task goes on from lies (`From`) |
| `TailLeavesNoGap` | `GapInv`: while the log only grows, the offset never passes the last byte sent |
| `StreamTypeCorrect`, `StreamShowsWholeLines` | `LineInv`: the parts taken from the source are the lines shown and what the buffer holds of the next one |
| `CollectorTypeCorrect` | `TypeOK` itself says that nobody is twice in a queue or in that of a lock it does not ask for; `LockInv` adds who holds what: the refresher holds sys from its first lock until it returns (`Guarded`) |
| `CollectorAnswersFresh` | `AgeInv` ties the ages of the five parts to how far the refresh has got, so who reads sys while the refresher does not write it sees the age of the snapshot; `FreshInv` |
| `ServerTypeCorrect` | `PoolInv`: the holders are exactly the running closures and writers, the purges included, no more than the pool has |
| `ServerKeepsViews` | `AuditInv`: the `ts` of an entry is not before its view's `at`, so the purge spares what is owed |
| `ServerBindsPrivately` | `SafeIsPrivate`: arithmetic on the ranges of `is_safe_bind`, for all 65536 values of the two octets or the segment |
| `PageTypeCorrect`, `PageOutputOfTitle`, `PageKeepsOneStream` | `ViewInv`: the title is that of the current socket, all others are closing or closed, and a closed one delivers no line |
| `PageTableMatches` | `TableInv`: while loads neither overlap nor fail there is one at most, for the chosen filter |
| `ListTypeCorrect` | `ReqInv`, `HostInv` |
| `ListsSteadyItems` | `TrackInv`: a steady item is among the rows or its source is still to be asked |
| `ListOpensClickedLog` | `TrackInv`: a row that has the name of a steady item of another home is known to share it |
| `ListMisfilesNothing` | `LineShape`: where the four words of a line are, from the widths; `ColumnsShow`: a word in the third or fourth column has two words before it; `FileInv` |

Assumptions are the ones the modules name, each as weak as the code allows:
limits and bounds are natural numbers, actors differ from their placeholders,
a pool has a connection. `AddressAssumption` says what an `IpAddr` can be;
`NameAssumption` that an audit task or a purge is not a request; `ListingsAssumption`
that a host has finitely many homes and names; `ServicesAssumption` that it has
finitely many units, and that the words of `systemctl` and of a filter are not
empty (`?state=` would match the gaps of the padding; the page never sends it).

`MaxFailuresFreeze` and `FreezeEndsByTimeOrReset` are false of concurrent logins,
as `login_lost_freeze` shows, and are proved under the hypothesis
`[]RecordsAlone`: no two logins are between the two statements of
`record_failed` for one account. Every other overlap, crash and failure is
allowed, so this overlap is the whole price of the missing transaction.
`SerialLoginsFreeze` is the case of `login_serial`, whose one login satisfies
the hypothesis trivially.

Only model-checked: liveness, since TLAPS proves neither liveness under fairness
nor `ENABLED`: `CatchesUp`, `StopsWithClient`, `RefreshCompletes`, `RequestsEnd`,
`LinesArrive`, `ChildReaped`, `WaitersServed`, `DrainEnds`, `OldEntriesGo`, and
the fairness of `ImplementsLease`.

Three definitions are written the way they are because induction over data is
out of the provers' reach: `Without` removes a place from a queue, `Found`
takes the first row of a name, and `Columns` counts the pieces up to each one,
where a recursive selection from the sequence would do the same.

## 7. Not modelled

- Argon2, TLS, HTTP parsing, cookies' other attributes, regular expressions and
  the shape of JSON: libraries or data without state.
- The shape of a container's row, figures of processes and metrics, the page's
  rendering, its sparklines, its network rate and the trimming of the log
  output: data that no decision depends on.
- The other four loads of the page: they are `loadServices` without a filter, or
  with two that are read at the same moment.
- Apps of one PM2 home that share a name (cluster mode): `find` answers with the
  first of them, and `Catalogue` holds a name once per home.
- The end of a session while a metrics stream or a log viewer is open: the code
  checks a session when a stream is opened, and nothing else is promised.
- `journalctl`'s stderr, which is piped and never read.
- A purge that still waits for its connection when `serve` returns, and would
  hold the runtime up to the pool's timeout. The purges of start-up, before the
  listener is there, count as the first ones of serving.
- `MaxDelay` is an assumption: a host that suspends a request for half the
  session's life is outside `LivesWhileUsed` and `ExpiredStaysDead`, which
  state it as their premise. The theorems hold for every `MaxDelay`.
- A clock that is set back: `now` only grows.
