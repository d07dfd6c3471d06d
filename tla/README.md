# Verification of blockpanel

blockpanel is a web panel, written in Go, that runs Minecraft servers on one
host: it starts and stops their processes, edits their configurations, runs
recurring tasks and backups, and manages the users who may do so. This
directory holds TLA+ models of the parts whose correctness depends on the order
of concurrent steps, the TLC configurations that check them on small instances,
and proofs, checked by TLAPS, for instances of any size.

Line numbers refer to the files under `src/`; `PROJECT.json` maps every
definition to the lines it models.

## 1. The system

One process. Every HTTP request, every scheduled task and every managed server
has goroutines of its own; they share the objects below, each with its lock.

| component | state | operations | used by |
|---|---|---|---|
| `mc/instance.go` Instance | state, process, exit channel, `stopRequested`, crash times, configuration | Start, Stop, Kill, SendCommand; per process: readOutput, waitExit, statsLoop | handlers, scheduler, manager |
| `mc/manager.go` Manager | map of instances | Create, Import, Delete, MutateConfig, StopAll, AutoStart | handlers, scheduler, main |
| `store/store.go` servers | `servers/<id>/server.json` | LoadServers, SaveServer, DeleteServerConfig | Manager |
| `mc/scheduler.go` Scheduler | running set, `chanMutex` | wake-up loop, RunNow, execute, NextRun, due | main, handlers |
| `mc/backup.go` | archives in a directory | Create, Restore, Delete, Prune | handlers, scheduler |
| `mc/console.go`, `history.go`, `players.go` | ring buffers, subscribers, players online | Append, Last, Subscribe; Add, Recent; Join, Leave, Clear | Instance, stream handler |
| `store/store.go` accounts | users, roles, sessions, API keys, settings, audit log | create, update, delete, guarded updates | web, auth |
| `store/models.go` | - | HasGlobal, HasServer, DownloadBlocked, Clone | web |
| `web/api_auth.go`, `auth/*` | pending logins, rate limiter, last one-time code | login, second factor, password change | browser |
| `web/api_users.go` | - | user and role administration | browser |
| `web/middleware.go` | - | authentication, CSRF, authorization | every request |
| `ai/agent.go`, `ai/tools.go`, `web/api_ai.go` | conversations, running keys, pending approvals | RunAgent, Decide, ResetConv, tools | browser |
| `ai/client.go` | one reply at a time: `thinkParser` | Stream | agent |
| `web/api_admin.go`, `web/api_ai.go`, `cmd/.../config.go` | `config.json`, the AI's settings in the store | read, change, store | browser |
| `update/update.go`, `version` | phase, available release, the executable | Check, Apply, background loop | web, main |
| `webhook/discord.go` | - | Notify | Instance, scheduler |
| `cmd/blockpanel/main.go` | - | start everything; on a signal StopAll and exit | - |

What is hard about it:

- *Concurrency without one owner.* A server's process is started by buttons,
  by tasks, by AutoStart and by the timer that follows a crash; it is stopped by
  buttons, tasks, Delete and the shutdown of the panel. No call holds the
  instance lock while it waits: every Stop works with copies it took before.
- *A process that does not obey.* It may crash, hang, ignore SIGTERM, or print
  its last lines after it is gone.
- *Two copies of each configuration.* Memory changes first, then the file; the
  save may fail, the panel may die in between, a deletion may overtake it.
- *Flags that outlive their task.* A schedule is kept from running twice by an
  entry that every path has to remove.
- *Check, then act.* Limits (backups, administrators, one-time codes) are read
  in one step and relied on in a later one; whole documents are read, changed
  and stored with nothing held in between; permissions are judged on a copy.
- *Answers that come too late.* An approval may be given while its request times
  out, is cancelled, or after either.
- *Boundaries of time and size.* Windows, expiries, rings, bounded tables, and a
  reply that arrives in pieces cut anywhere.

What makes each component correct: at most one process per server, exits
classified rightly, calls that return (Instance); deleted servers that stay
deleted, acknowledged edits that are kept (Manager); a task never started twice,
flags never left behind (Scheduler); limits that hold, an archive that is
complete or absent (backups); an administrator left at all times, sessions that
die with their user, grants no larger than the grantor's, with the exceptions
that section 4 names (accounts); a buffer that equals the last lines appended
(console); an executable that starts, whenever the panel dies (update); an
approval used once, a conversation that loses no turn (agent); tasks that run
when the panel says they will (timetable); a save that changes only what it
names (settings).

## 2. Plan

Each component got a module with its abstract specification where there is one
worth stating, then the run, then the proofs. Done, in this order:

1. `Instance` with the abstract `ServerLifecycle`, and its proofs.
2. `Registry` with the abstract `ServerCatalog`, and its proofs.
3. `Scheduler` with the `chanMutex` in detail, and its proofs.
4. `Accounts`: users, administrators, sessions and the two files of the store
   under overlapping requests, and its proofs.
5. `Backup`: create, list, prune and delete on one directory, and its proofs.
6. `Updater` with the abstract `PanelExecutable`, and its proofs.
7. `Agent` with the abstract `ApprovalGate`, and its proofs.
8. `Access`: roles, overrides and the check of grants, and its proofs.
9. `Login` (the second factor) and `RateLimiter`.
10. `Console` with its stream, and `Completion`, the parser of a reply.
11. `Timetable`: `due` and `NextRun` on a clock; `Settings`.
12. The proofs about the modules of 9 to 11.

The modules of 5 and of 9 to 11 are small and share nothing; `MCParts` composes
the seven side by side, and `PartsProofs` proves each of their properties of the
whole.

Left, most useful first: API keys with their own permissions; restoring a backup
against a start of the server; the statistics loop with the player tracker
across processes; version comparison as an operator.

## 3. The modules

### ServerLifecycle, Instance, InstanceProofs

`ServerLifecycle` is the promise: a reported phase and whether a process lives.
A launch needs a stopped phase and no process; "stopped" is reported only after
the process is gone; only a starting server becomes running.

`Instance` is `mc/instance.go`. A step is one critical section of the instance
lock, one channel operation, or one signal.

| code | module |
|---|---|
| Start, 179-235 | `Launch`, in `UserStart`, `AutoRestart` and `Relaunch`; `NotLaunched` for a refusal or a failed exec |
| readOutput, 237-253 | `PrintDone` (the line is in the pipe), `ReadDone` (it is handled, maybe after the process died) |
| waitExit, 255-309 | `CloseExited`, `SettleExit`, `AccountCrash`, `AutoRestart`, one per unlocked gap |
| Stop, 314-371 | `EnterStopped`, `JoinStop`, `BeginStop`, `WriteStop`, `SendTerm`, `SendKill`, `ExitSeen` |
| Kill, 374-394 | `EnterStopped`, `BeginKill`, `SignalKill`, `ExitSeen` |
| restart handlers and tasks | `Call`, then Stop, then `Relaunch` |
| StopAll and the exit of the panel | `Call(t, "shutdown")`; the panel goes down when it returns |

The processes that are launched one after the other are numbered. Each has its
own exit channel and its own goroutines, so a late line or a late waiter always
belongs to a definite process, while the struct has one set of fields for all
of them: that mismatch is where the hazards are. `AutoRestart` of the
configuration may change at any time and is a free choice. `asked`, `outcome`
and `doomed` are history, read by properties only. Scheduled tasks
look at the state before they call, as restart does; start, stop and kill
from a task are the same calls as from a handler.

### ServerCatalog, Registry, RegistryProofs

`ServerCatalog` is the promise about the disk: a server is created once, its
stored configuration only gains edits, a removed server never comes back.

`Registry` is `mc/manager.go` with the three functions of `store.go` it calls. A
configuration is the set of edits it holds. MutateConfig is `BeginEdit` (the
lookup), `StartEdit` (saveMu), `Mutate` or `RefuseEdit` (the in-memory change,
under the instance lock), `Recheck` (the second lookup), `Save` or `SaveFails`.
Delete is `BeginDelete`, `CheckState`, `KillFirst`, `Unregister`, `Barrier`,
`Remove` or `RemoveFails`. Create and Import are `SaveNew`, `Register`; when
their save fails nothing is kept, so there is no action for it. A process is only
alive or not here; `Start`, `Exit` and `AutoRestart` are coarse views of
`Instance`. `Reboot` is a crash or exit of the panel at any point, followed by
LoadServers. `WriteJSONAtomic` renames a complete file, so a crash leaves the
old or the new content.

### Scheduler, SchedulerProofs

`Scheduler` is `mc/scheduler.go`. The `chanMutex` is modelled statement by
statement because nothing orders its lazy initialization: `Test`, `Make`, `Load`
and `Send` are Lock, `Unload` and `Receive` are Unlock. The critical sections
are `Claim`, `Mark` and `Release`. The loop is `WakeUp`, `NextDue`,
`SkipRunning`, `Launch`; a task is `RunNow`, `Execute`, `Executed`, `Released`,
`Record`. Which schedules are due is any set: the clock is in `Timetable`. What
`execute` does is Instance's and Registry's business; here it takes arbitrarily
long and returns.

### Accounts, AccountsProofs, MCAccounts

`Accounts` is the part of `store/store.go` that keeps users and sessions, with
the handlers of `web/api_auth.go` and `web/api_users.go` that change them and the
middleware that lets a request in.

The store does everything under its lock, so each of its functions is one step;
what can go wrong lies in the handlers, which call several and work on deep
copies in between. `req[t]` is a request: its step, the user it was admitted as,
and what its copies of that user and of the target said about `is_admin`.

| code | module |
|---|---|
| setup | `BeginSetup`, then `Found` or `FoundRefused`, then `NewSession` |
| login, finishLogin | `Login`, `NewSession`, `Record` |
| middleware, SessionByToken | `Admit`, or `TurnAway` for a user who is gone or disabled; `Leave` for requests that change nothing modelled |
| logout | `Logout` |
| user create | `Create` |
| user update | `BeginUpdate`, `CheckCount`, `CommitUpdate` or `CommitRefused`, `Evict` when it disables |
| user delete | `BeginDelete`, `CheckCount`, `CommitDelete` or `CommitRefused` |
| own password; password or second factor set by a manager | `BeginChange` or `BeginReset`, `Touch`, `Evict`; then `NewSession` for the own password |

`panelFile` and `sessFile` are the two files. Every store function changes the
memory first and then writes; `Writes` lets each write fail, which leaves the old
file (util.WriteJSONAtomic renames a complete one). `DeleteUser` writes both
files and reports only on one. A crash inside of a store function is a failed
write followed by `Reboot`, which opens the files again and forgets every
request. `promise`, `ended` and `lastSave` are history: what the last successful
answer said of an account, which sessions were ended, how the last write of
sessions.json went.

Left out: roles and overrides (`Access`; whether a caller who is no administrator
may manage others is open here, which allows more than the code), the second
factor (`Login`), the throttles (`RateLimiter`), usernames, the expiry of
sessions (an expired one is refused like one that is absent), the password
itself, CSRF tokens and API keys.

### Backup

`Backup` is `mc/backup.go` without RestoreBackup. Nothing is locked there, so
every call of the file system is a step: `Create` (the count, and the time that
becomes the name), `Stat`, `Open`, `Finish` (the walk and the closing of the
archive), `Rename`, `Fail`; then, as handlers and scheduled tasks do after a
successful creation, `List` and one `Prune` per surplus name. `Delete` is a
request, `Reboot` the end of the panel, which leaves partial files behind.

A file has an identity that a rename keeps, so that a file opened twice or an
archive that is replaced can be told apart; `place` says where it is or what
became of it. The time in a name is local time without a zone and may repeat;
`Create` takes any of `Seconds`. The pattern of names that requests may use admits
those of partial files, so `Delete` takes a listed or a partial file, the latter
also while a creation writes to it: the creation goes on with a file that has no
name, and its rename takes whatever file has that name then.

`reused` and `torn` are history: whether an archive got a name that another one
had before, and the names whose partial file was deleted under its writer. The
first can happen, between Stat and OpenFile or after a deletion, and then a
prune working on its old list may take a new archive: `RetentionKeeps` says what
holds while it has not happened. After the second, another creation in the same
second may take the name, and the first one's rename lists a file that is still
being written: `ArchivesWhole` excuses the names in `torn` from that, while no
two creations ever write to one file.

### PanelExecutable, Updater, UpdaterProofs

`PanelExecutable` is the promise: there is an executable that works at every
moment, an update replaces it in one step, and only by a newer version.

`Updater` is `update/update.go` with its two callers, the handler and the
background loop. Both look whether an update is available (`Ask`) and call Apply
later; Apply is then a step per critical section and per call of the file
system.

| code | module |
|---|---|
| Check, 118-130 | `Check`: any release is stored, in any order |
| Apply, 185-219 | `Refuse`, `Begin`, `Examine` |
| download, verifyBinary | `Download`, `DownloadFails`, `Verify`, `VerifyFails` |
| the swap, 231-244 | `RemovePrevious`, `MoveOld`, `Install`, `RollBack`, and the failure of each |
| PrepareRestart, restartProcess | `StopServer` per server, `Stopped`, `Exec` or `ExecFails` |
| the deferred functions | `Return` |
| StartLoop, cleanupStale | part of `Exec` and of `Boot`, before any request is served |

A file is the version it reports. The executable is at place 0, its `.previous`
at place 1, the `.previous` of that at place 2, and so on up to `Depth`; `Crash`
may come between any two steps and leaves files and servers.

Apply asks for its executable each time, and on Linux the answer follows the
file that runs when it is renamed: `self` is where that file is, and `Examine`
copies it to the call's `exe`. After an update whose restart failed, or a failed
rollback, the process runs from `.previous`, and the next apply removes
`.previous.previous`, moves `.previous` there, installs at `.previous` and restarts
from there. So it changes what runs, but not what the next start finds, although
its error says that the new version is installed. The refinement maps `binary`,
what there is to start, to the first file present, and `home` to whether the
process runs from it; `PanelExecutable` allows a replacement of `binary` only
when it does. Servers only run or do not run here (`live`); those
that survive the process image which started them are `orphans`. Not modelled:
the automatic-update setting (the loop may always apply), the progress and error
texts, a power failure (nothing is synced to the disk before the renames), and
an executable that was started by a symbolic link on a platform where
os.Executable does not resolve it: cleanupStale then looks in the directory of
the link, Apply writes to that of its target.

### Access, AccessProofs, MCAccess

`Access` is the permission model: `HasGlobal` and `HasServer` of
`store/models.go`, the store functions for roles and overrides, and
`validateGrant` and `validateRoleGrant` with the handlers of `web/api_users.go`
around them. A right is a pair of a server (or `*`, or the panel) and a
permission; overrides and roles map rights to allow, deny or nothing.

| code | module |
|---|---|
| auth and requireGlobal | `Arrive`: the caller is copied with its flag and overrides |
| the handler's lookups and refusals | `Look` |
| validateGrant, validateRoleGrant | `Check`, one right at a time, each against the copy and the role as it is *now* |
| the store functions | `CreateUser`, `UpdateUser`, `DeleteUser`, `CreateRole`, `UpdateRole`, `DeleteRole`, `Fail` |

A caller's flag and overrides are those of its copy while its role is looked up
each time, so a request is judged by a mixture of old and new; that is the code,
and the properties hold for it. A patch sets any of role, overrides and flag and
leaves the others alone (`Patches` bounds the combinations; overrides of the panel
and of servers, two maps in the code, are one here and change together), and an
identifier is known to others once it was used. `stale` is history: the requests
past their lookup whose target, role to be given or caller's role another request
has changed since (`Ground`, `Observe`).

The comment of `validateGrant` says that a caller who is no administrator can never
hand out what he lacks. `GrantBounded` says how far the code keeps to that. It
takes out a caller who holds a right on all servers and is denied it on one: asked
to hand it out on all, he is asked for that only, and the target has no denial
(`ByStar`). And it takes out requests in `stale`: two that are each allowed, one
setting the role's rights and one giving the role, may leave the target with what
neither caller was asked for. `GoneStaysGone` is about all requests, those too: a
right that no map of a user, a role or a pending request allows any more is not
brought back by one who is no administrator.

### Login, RateLimiter

`Login` is the second factor of one user: `pending` logins, `enrol`ments, the
counter of the last one-time code, in memory and in the file. A handler takes its
copy of the user (`Guess`, `Load`, `BeginDisable`), compares the code (`Compare`)
and stores what it found (`Store`, `StoreFails`) in three steps, after which its
pending login or enrolment goes (`Drop`). A code is its secret and its counter; the
clock counts their steps. `Password` and `Begin` open pending logins and
enrolments, `Reset` is an administrator's removal of the second factor, `Save` any
other change that writes the file, `Restart` reads it. A login does not look
whether its counter could be saved; disabling and confirming do, and answer with an
error although memory has changed. Disabling is open to a user without a second
factor, whose secret is empty and has codes too; `CodesSpent` speaks of real ones.

Three things make an accepted code acceptable again: a handler whose copy another
store had outdated; the counter of such a handler, which takes the user's back; a
counter that was not saved before a restart. `fresh` marks the copies, `accepted`
is the history of the codes accepted, less those that the second and the third
made acceptable again; `tried` are the secrets that a confirmation has stored, so
that a second confirmation of one, which knows no counter, counts as outdated.
`CodesSpent` says that there is no other way, code by code. `NoReplay`, without
any excuse, is what totp.go says; it is violated (section 4).

`RateLimiter` is `auth/ratelimit.go`: `Open` and `Count` are Allow's two ways to
say yes, `Refuse` and `TurnAway` (a table full of live windows) its two ways to
say no, `Sweep` the goroutine. Times are relative to now, so that the clock needs
no bound.

### ApprovalGate, Agent, AgentProofs

`ApprovalGate` is the promise about the two tools that need consent: an action is
performed at most once, and only after a grant that came while the agent was
still waiting.

`Agent` is `ai/agent.go` with the handlers of `web/api_ai.go`. A run is one
request; its conversation is copied when it begins and stored when it ends.

| code | module |
|---|---|
| RunAgent, 128-204 | `Begin`; per iteration `StreamFails`, `Answer` or `CallTools`; `PlainTool` per tool; `Store`; `Leave` |
| requestApproval, 102-124 | `RequestApproval`; the three cases of its select are `Answered`, `GiveUp`, `Expire`; its deferred delete is `Withdraw` |
| the tool after a grant | `Act`, `ActFails` |
| Decide | `Decide` under the lock, `Send` into the channel with room for one |
| store, evict, trimHistory | `Store` |
| ResetConv | `Reset` |
| the request's context | `Cancel` |

Three things that the model shows of the code and a reader may not expect: a
conversation that is reset while a run is under way comes back when the run
stores its turn; an action is performed even when its request is cancelled
after the grant, because the tools do not look at the context; and tools judge
permissions on the copy of the user that the request was admitted with.

What the model says, what a tool returns and what it reads or writes are left
out. `Ask`, the question without tools, keeps no state.

### Console, Completion

`Console` is the ring of `mc/console.go` with the stream that follows it:
`AppendLine` offers the line to each subscriber without waiting, `SendBurst`
copies the newest lines, `Subscribe` comes after it, `Drain` takes what is queued,
`Leave` ends. Lines that are appended between the burst and the subscription
reach neither; `StreamInOrder` says so and that nothing else is lost but what a
full channel drops.

`Completion` is `thinkParser` of `ai/client.go`, which takes a leading block of
reasoning out of a reply while it arrives. The tags are shortened to two and three
symbols that overlap as the real ones do. `Feed` is one delta of any length,
`Flush` the end; a symbol stands for a character, so a cut within the bytes of one
is not visible here; a symbol stands for a character, so a cut inside of the bytes of
one is not visible; the reference definition `Whole` parses the finished text.
The assembly of tool calls from the same deltas is left out.

### Timetable

`Timetable` computes, for one task, what `Scheduler` leaves open: `due`, `NextRun`
and the times that are stored with the task. The loop's `Wake` reads a copy and
`Claim` acts on it; `End` and `Record` are the end of a run; `Update`, `Delete`,
`RunNow` are handlers. Creating is two steps: `Create` makes the `draft` with its
shown time, `Insert` (or `InsertRefused`) puts it into the configuration when the
locks of MutateConfig are free, which may be after that time has come. MutateConfig
changes the memory before it saves, so a save that fails changes nothing here;
a restart is not modelled. `excused` is history.

The model makes visible: an interval counts from the end of the last run and
the loop looks once a minute, so "every N minutes" is N+1 in practice; a run by
button within 90 seconds before a daily time makes that day's run fall out; an
interval task that never ran starts at the first look although the panel shows a
full interval. `ShownTimeKept` names each case in which the shown time may pass.
Summer time is left out, and a wake-up that comes too late for a whole
minute is excused.

### Settings

`Settings` is one document, `config.json` or the AI's settings, in each
behavior: `Load` reads all of it and changes a field, `Store` writes all of it.
A `config.json` that cannot be read is stood in for by what the panel read at
its start; one that can be read is decoded onto an empty document, so a field
that it lacks is empty, which is a value here. Two overlapping saves lose one of
them; `SavesKept` says that nothing else brings an old value back. Flags that
override the file are left out.

## 4. The runs

Two workers; all runs together take about ten minutes. Type invariants are
proved, and `parts` checks those of the small modules besides.

| run | bounds | shows |
|---|---|---|
| `instance` | 2 callers, 2 processes, crash limit 1 | OneProcess, ExitClassified, KillsOnlyAsked, StopAllStops, refinement of ServerLifecycle, CallsReturn |
| `instance_limiter` | 1 caller, 4 processes, limit 2, window 2 of 3 ticks, no ready line | RestartBudget |
| `registry` | 1 server, 2 threads, 2 edits, 2 reboots | DeletedStaysGone, AckedEditsKept, DiskFollowsMemory, refinement of ServerCatalog, CallsReturn |
| `accounts` | 2 users, 2 sessions, 2 overlapping requests, 1 failed write, 1 restart | PromiseKept, EndedStaysOut, UpdatesKeepAdmin, OnlyNamedFields |
| `accounts_lockout` | same, no failed write, no restart | a documented behaviour the code does not have |
| `access` | the founder and 2 users, 1 role, 1 server, 1 permission, 4 maps, 2 overlapping requests, 4 in all | GoneStaysGone, GrantBounded |
| `updater` | 2 calls, 3 releases, 1 server, `.previous` twice in a name | refinement of PanelExecutable, ApplyEnds |
| `agent` | 2 users, 1 server, 2 runs, 1 click, room for 1 conversation of 3 messages, 2 iterations of 2 tools, 2 turns, 1 approval | NoTurnLost, HistoryReplayable, MemoryBounded, refinement of ApprovalGate, EveryoneReturns |
| `parts` | one of seven modules moves, see below | TypeOK of the seven, CodesSpent, WindowFair, RingIsTail, StreamInOrder, CutsDontMatter, ShownTimeKept, SavesKept, ArchivesWhole, OverrunBounded, RetentionKeeps |
| `login_replay` | same, only `Login` moves | a documented behaviour the code does not have |
| `scheduler` | 1 schedule, the loop and 2 tasks | LockExcludes, NeverTwice, FlagsOwned, AllReturn |
| `scheduler_lazy_lock` | same | a documented behaviour the code does not have |

Why the bounds are enough for what they show. Every hazard of `Instance` is
between one process and the next, so two processes and two callers produce every
overlap: a late line, a late Stop, a restart timer, a second Stop that joins the
first, Kill during Stop, shutdown during any of them. The limiter needs more
crashes than its limit and a clock that leaves the window: limit 2, four
processes, three ticks; ready lines do not matter to it and the constraint
`NoReadyLine` leaves them out. Configurations and deletions of different servers
share nothing but the map, so one server suffices; a transaction excludes all
others, so what can go wrong is between two threads; two edits tell a lost
update from a repeated one; the second reboot finds what was left by calls that
the first one cut. An account is contended by two requests, and the last
administrator is a matter of two accounts; a third request would only repeat
what two do to one user. The second session tells a session that is ended from
one that lives on, the failed write and the restart tell memory from file.
Users, sessions and requests are interchangeable, so that run uses symmetry
(none of its properties is about liveness). A schedule is contended by the loop,
a button, and the task that is ending. Two calls of Apply contend for
`applying`; three releases are needed for one that is newer than the running one
and older than the one cached before, and for a second update by a process that
was not restarted; that one works on the second `.previous`. Servers do not
contend with each other. A right travels from the founder to a user and from
there to another, or into a role and out of it, so two users and a role hold
every chain of two grants; the second request changes what the first one was
judged by; the third and fourth prepare the rights to delegate. The maps are
those of a manager with a right on one server, or on all with a denial on that
one, an allowance on all, and the empty one; u1 and u2, and the requests, are
interchangeable. Two runs of the agent contend for the room of one conversation,
or, of one user, for the key; a conversation of two turns with two iterations is
longer than its limit, so it is trimmed inside of a group of tool results; one
approval is what a click, a timeout, a cancellation and a withdrawal contend
for. The proofs cover all other sizes.

In `parts`, one module moves in each behavior (`Moving` names those that may),
and the bounds of each are its own. `Login`: two handlers contend for one pending
login or enrolment, a third arrival comes after them; two secrets tell an old
enrolment from a new one; two steps of the clock, with the window of one step
around each, let a code get old and an enrolment expire. Handlers and secrets are
interchangeable. `RateLimiter`: a third key meets a table of two, a window
of two ticks has a beginning, a middle and an end, and nothing else is bounded.
`Console`: five lines wrap a ring of three, a queue of two overflows, the burst is
shorter than the ring. `Completion`: every text of up to seven symbols, which is
a whole opening tag, a whole closing one and two symbols more, cut in every way.
`Timetable`: two ticks a minute, days of three minutes and weeks of two days put every
boundary (minute, midnight, the end of the week, the 90 seconds) into sixteen
ticks; two requests create and change the task. `Settings`: a lost update
needs two fields, two values and two handlers; that one handler's save falls
between the other's reading and writing is all that matters. `Backup`: two calls,
three archives with a limit of one and one to keep, so the overrun and a wrong count
show; that all are made in one second makes every name contended, and archives of
other seconds contend with nothing; one restart. The last attempt that may meet a
partial file is 0 instead of 100.

`instance`, `registry`, `accounts`, `access`, `parts` and `scheduler`, with the
runs beside them, set `CHECK_DEADLOCK FALSE`: a panel that has exited does
nothing, a registry whose servers are all deleted at its last boot has nothing
to do, identifiers and tokens of `Accounts` and arrivals of `Access` are used
once and run out, so do the texts, lines, clocks and files of `parts`, and
goroutines that met a twice-made channel may all wait for ever (that is the
first finding).

### Fairness

- `Instance`: the scheduler of Go runs every goroutine that can run (WF of each
  caller and each waiter; timers elapse, so the escalation of Stop goes on). A
  process that was sent SIGKILL dies (WF of `KilledExit`). Nothing obliges a
  process to exit or become ready otherwise, and nobody is obliged to call. The
  write of the stop command is assumed to complete: a process that leaves 64 KB
  of its input unread would block it (see the hazards).
- `Registry`: WF of every thread's own steps, SF of taking saveMu: `sync.Mutex`
  hands the lock to a waiter that has been refused for a millisecond.
- `Scheduler`: WF of every goroutine, SF of channel operations: blocked senders
  and receivers form a queue. SF of `Launch` because the bound on tasks, which
  the code does not have, must not starve the loop.

- `Updater`: WF of each call of Apply. Requests end by their time limits, the new
  binary is given twenty seconds, and StopAll ends because Stop does
  (`CallsReturn` of `Instance`).
- `Agent`: WF of each run's own steps and of each click's send. A run that waits
  for the model or for a user always has a step that ends the waiting: the run
  is given half an hour, an approval five minutes (`Expire`). Nobody is obliged to
  answer or to ask.

### Findings

Three runs show that the code does not do what it says.

1. `scheduler_lazy_lock`: "a task that is still running is never started
   twice", but two first calls of `Lock` at the same time make two channels and
   both enter. (The unsynchronized map may also make the runtime abort; the
   model shows the outcome in which it does not.)
2. `accounts_lockout`: "the store invariant that keeps at least one enabled admin
   account, evaluated atomically with the mutation" guards updates only. A
   deletion counts the administrators and deletes in a later step: two
   administrators who delete each other leave none.
3. `login_replay`: codes at or before the last accepted counter "are rejected so a
   stolen code cannot be replayed" (`totp.go`, 65-66). A login compares with the
   counter of its copy and stores the new one in a later step, without looking
   again: two that overlap are both accepted with one code. (A login also ignores
   that the counter could not be saved; the code is then accepted again after a
   restart. That is an excuse of `CodesSpent`.)

More behaviours that the models allow are worth knowing, and no run is spent on
them. A caller who holds a right on all servers but is denied it on one can hand
it out on all, that one included, and two overlapping requests together may give
what neither caller was asked for, although the comment of `validateGrant` rules
out both (`Access`, and what `GrantBounded` leaves out). An update after a
failed restart answers that the new version is installed, and "the new binary is
already in place" (update.go, 252), but it is not what the next start finds
(`Updater`). A request may delete a partial file while it is written, and a
half-written archive may then be listed for a while (`Backup`: `torn`). The
console announces "auto-restart disabled until manual start", but a manual start
leaves the crashes in the list, and the next crash within the window is not
restarted (`Instance`). A start between Delete's check of the state and the
removal from the map leaves a running process that no handler can reach
(`Registry`: `Start` is enabled between `CheckState` and `Unregister`). A server
that is started while or after StopAll passes over it lives through the update's
exec, and the new panel does not know it (`Updater`: `orphans`).

Each mutant in `PROJECT.json` replaces one definition by the variant that stands
above it in the module (a dropped guard, a missing reset, an early return that
keeps a lock, an off-by-one), and the named property then fails.

## 5. The proofs

`tlapm` on `InstanceProofs`, `RegistryProofs`, `SchedulerProofs`,
`AccountsProofs`, `UpdaterProofs`, `AccessProofs`, `AgentProofs` and
`PartsProofs` proves the theorems below for all values of the constants that
satisfy the assumptions named in the modules
(`InstanceAssumption`, `RegistryAssumption`, `SchedulerAssumption`,
`AccountsAssumption`, `UpdaterAssumption`, `AccessAssumption`, `AgentAssumption`,
and one for each part in `MCParts`: bounds are natural numbers, the null
values are not elements of their sets, sets that are counted are finite; a ring, a
limit, a minute, a day and a week are not empty, and weekdays are days of the
week).

Instance. The property OneProcess is not inductive: nothing in it keeps a dead
process' waiter from clearing the fields of its successor. `CurrentInv` adds
that the struct describes process *i* exactly while *i*'s waiter has not passed
its first critical section, and that a live process' waiter is still waiting.
`RequestInv` ties `stopRequested` to the history `asked`, `SnapshotInv` and
`ShutdownInv` say what the copies of callers are worth, and `FreshInv` that
nothing is known of processes not launched. From these follow `TypeCorrect`,
`SingleProcess`, `ExitsClassified`, `KillsAreAsked`, `ShutdownStops` and, step
by step, `ImplementsLifecycle`. `CrashBudget` has an invariant of its own:
every crash that was granted a restart and lies in the window is one the struct
still remembers.

Registry. `DeletedStaysGone` needs the barrier: `RemoveInv` says that a removal
past the barrier meets no save and that none can begin, because the second
lookup fails; `SaveInv` that a save past that lookup still has its file, and that
its copy equals the live configuration, because the lock is held; `FreshInv`
that a server is its creator's alone until it is registered. `TypeCorrect`,
`DeletionIsFinal`, `EditsAreKept`, `FileFollowsMemory` and `ImplementsCatalog`
follow.

Scheduler. All statements are under `MadeOnce`, at most one channel was made.
`ChanInv` says that operands are channels that were made, so with one channel the
token is the lock (`SendFindsFree`, `ReceiveFrees`). `FlightInv` says that a
flag belongs to exactly one goroutine and that whoever is about to set one found
it clear. `TypeCorrect`, `MutualExclusion`, `NoDoubleStart` and `NoFlagLeft`
follow.

Accounts. `TypeCorrect` carries the facts the rest needs: nobody is an
administrator or disabled who is not a user, the same of the file, no live session
has a token that was not issued, and a request past its first step names users
that once existed (`HandlerOK`). With it `PromisesHold` and `EndedForGood` are
inductive: each store function either writes what memory has become or
takes its promise back. `AdminKept` and `NamedFieldsOnly` are step properties
under the types: only `CommitUpdate`, `CommitDelete` and the restart can take an
administrator away, and the first checks what it would leave.

Updater. `Alone` says that one call at most is past the test of `applying`,
`Chosen` that its release is newer than the running version, `Running` that the file
that runs is where `self` says, `Placed` how the call's executable lies to that at
each step: the same place until the first rename, the place before it from then on.
So the steps of the swap move the running file or remove what lies behind it, and
the first file present changes only in `Install`, when it is the running one
(`FirstAfter`). `TypeCorrect`, `AlwaysRestorable`, `NoStrayFiles` and `AtomicSwap`
follow.

Access. `GoneStaysGone` and `GrantBounded` are step properties and rest on one
invariant. `Asked`: a request of an administrator has nothing to show. `Vetted`: a
request of anyone else, whose ground has not moved, has shown every right that its
target would have and that is not left to show, by what its caller holds now, and
its target is and becomes no administrator. `VettedKept` says that this depends
on nothing but `Ground`, which is what makes the definition of `stale` the right
one. The step from what `HasServer` resolves to what `validateGrant` looks at is
`ResolvedIsGranted`: a right that is resolved to an allowance is marked as one, by
itself or under `*`. With it a store operation confers only what was in the
rights to show (`ConferredIsShown`, `GrantsBounded`). For `RightsStayGone`, what a
caller holds is in force (`HeldInForce`), so a check passes nothing into a
request's hands that was gone (`CheckBrings`), and a store operation writes only
what its request has in hand (`StoreBrings`).

Agent. `TypeCorrect` carries that a run inside a loop of tools has some left
(`ToolsLeft`). `Occupied` says that a key in `running` is that of exactly one run; with
it nobody else extends the conversation that a run will replace, and `TurnsKept`
is inductive: a store ends its run, an eviction or a reset leaves the empty
conversation, which everything extends. `ConvsBounded` needs that only an absent
conversation makes room, `AsksOwned` that the entry of an approval is gone before
its run moves on. For the refinement, `Numbered` says that approvals not yet asked
for are known to nobody, `AnsweredOnce` that nobody has granted what is still in
`pending`, and `Consents` that whoever is about to act was granted
it; then each step moves one approval as `ApprovalGate` allows or none
(`ImplementsGate`). For `HistoriesReplayable`, `Owing` says of the messages of a
run that the last calls have as many results to come as the run has tools left; a
result pays one of them, other messages come when none is owing, and cutting a
complete history before any message that is no result leaves a complete one
(`EndOwing`, which is why trimHistory drops the results at the start).

The parts. `PartsProofs` has an inductive invariant for each of the seven modules
of `MCParts`; a step of one leaves the variables of the others alone, so each is an
invariant of the whole, and `TypeCorrect` takes the types out of all seven.

Backup. `OwnerInv` says that what a creation has open is a file of its own name that
nobody else has open, and that it is the partial file of that name unless a
request has dropped one (`Owned`), `NameInv` that no two entries share a name;
`OneWriter` follows. `CountInv` counts archives and creations past their check
together: the check reserves a place, a rename turns it into an archive
(`LimitOverrun`). `KeepInv` makes retention inductive: every name on a list still to
be removed either is gone or is an archive with Keep newer ones that no retention
took (`Safe`). When one of those is itself pruned, what is newer than it takes its
place (`SafePassedOn`); `NewestSpared` follows.

Login. `Behind` says that the user's counter is not below any code of its secret in
`accepted`, and that codes there are of secrets once stored. `CopiesOK` says what the
copy of a handler is worth: a fresh one of the user is the user as it is, a fresh one
of an enrolment has a secret that was never stored, and the code found is past the
counter of the copy. A fresh handler's code is then past every accepted one
(`FreshIsNew`), and what a handler with an outdated copy, or a restart, takes back
leaves `accepted` in the same step (`StaysBehind`, `LoginRestart`).
`CodesAcceptedOnce` follows.

Rate limiter. `WindowFair` speaks of all hits of the last window's length, an entry
only of those since its window opened. `Windowed` splits them: what came since is
as many as the entry counts, up to the limit, and what is older is no more than a
window's hits; a key without an entry that counts has hits of one window at most
(`Quiet`). A tick moves hits from the first set to the second or out, dropping an
entry joins the two (`LimitsAreKept`). Sets of hits are counted through the
bijection between them and their older selves (`OlderCounts`).

Console. `RingHeld` says in which slot each held line lies; the two ways in which
`Last` reads around the end of the ring are then one (`RingHoldsNewest`). A stream is
one sequence, what was sent and what is queued; `StreamOrdered` says that it
increases and has no line still to come, `StreamWhole` what it misses, `StreamQuiet`
that nothing waits before the subscription or after the end (`StreamsInOrder`).

Completion. The invariant says what each state of the parser means in terms of
the whole text. `Undecided`: so little has come that it may be a beginning of the
opening tag. `Thinking`: the text begins with it, what follows is the reasoning
passed on and the part kept back, no closing tag begins in either, and the part
kept back is as long as the beginning of one can be, unless nothing was passed on.
`Decided`: there is no reasoning, or it ends at the first closing tag. The lemmas
under it say what extending a text does to its trimmed form, its prefix
(`TrimIs`, `RestGrows`) and the places of a tag (`ClosesInFirst`,
`ClosesInSecond`); the tags are those of the model. `RepliesParsedWhole` follows.

Timetable. `NextInterval` and `NextDaily` say what `NextRun` computes: a time not
passed, and for a daily task the first tick of the minute asked for, on a day that
is allowed, because eight days from today on hold every weekday after now
(`SomeDay`). `Timely` keeps this with the stored time, `Awake` says that the loop
has looked in every minute that passed or is excused, and `Kept` is
`ShownTimeKept` with the moment itself included for daily tasks, without which it
is not inductive: the loop that saw the task at its moment does not look then again. A look
after the shown time then finds the task due (`WakeStep`): in the same minute `due`
compares the minute and the day, in a later one the loop has seen it before
(`TimesAreKept`). `DraftInv` says of a task that is not inserted yet what `Timely`
says of one that is; inserting it before its time gives a task that the loop has
still to see, later an excused one.

Settings. `SavesKept` needs `FreshSaves`: a request that nobody has outdated carries,
in the fields it does not name, what was named last (`NothingBroughtBack`).

Only model-checked: the liveness properties `CallsReturn` (both), `AllReturn`,
`ApplyEnds` and `EveryoneReturns`, which rest on fairness and are out of the
prover's reach. Every other property of a passing run is a theorem.

## 6. Not modelled

Listed with reasons in `PROJECT.json`: files and archives of servers, downloads,
properties and player lists, webhooks, prompts, key derivation and the browser's
interface are input and output or arithmetic, and keep no state that another part
relies on. In the parts that are modelled: the content of configurations and of
the console; `statsLoop` and the player tracker; whether a write to the process'
input blocks; recycled process identifiers; summer time; UpdateConfig, which
nothing calls; restoring a backup; API keys; the audit log; flags of the command
line; the assembly of tool calls; a panel that is killed while processes live on
(`Reboot` forgets them, as the panel does).
