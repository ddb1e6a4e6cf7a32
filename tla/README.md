# Dice!Next in TLA+

Dice!Next is a tabletop dice bot: one C++ process (the *core*) that listens to
chat platforms through adapters, answers commands, keeps its data in SQLite and
is administered through a web panel; a small manager starts it and installs its
updates.  This directory holds TLA+ models of the parts of it in which the order
of steps decides what is correct, the TLC configurations that check them and the
TLAPS proofs about the update transaction, the update service, reply delivery, the
causal rules, game sessions and decks, the adapters' life cycle, the Lua scheduler,
Gateway connections, public numbers, cloud cards, the built-in login and the dice
engine: all of them.

Line numbers below are those of the sources at the modelled commit; paths are
relative to `src/server/src` unless they say otherwise.  `PROJECT.json` maps
every definition to the lines it translates and lists the hazards line by line.

## The system

| part | state | operations | talks to |
|---|---|---|---|
| POSIX manager (`platform/launcher_posix.cpp`, `posix_update.h`) | program files, `updates/pending`, the journal `updates/transaction.json`, rollbacks, `last-result.json`; a lock; one child | recover, probe, begin, re-exec, launch, resume, commit, reap | execs itself, forks the core; shares `updates/` with the core |
| Update service (`service/update_service.cpp`) | phase, one-slot job queue, plan, settings, gate files of the pending package | check, download, cancel, install, restart, settings, minute timer | panel threads, a worker, the remote source, the manager through the disk |
| Message pipeline (`main.cpp`, `common/deferred_reply_queue.h`, `bounded_executor.h`, `service/ai_worker.h`, `broadcast_manager.h`) | delayed replies, callback and AI queues, the announcement | find a reply, delay, polish, send, announce, shut down | adapter threads, timers, plugin runtimes |
| Causal rules (`core/causal`) | rule table and its snapshot, cooldowns, counters | match and execute; add, edit, switch, delete; reload | adapter threads, panel threads, the database |
| Game sessions and decks (`core/command_router.h`, `common/session_deck.h`) | groups' sessions, a session's groups, masters and decks, the index of codes | `.game new/open/exit/close/over/...`, `.deck session ...`, draws; the panel ends a session | adapter threads under a mutex; the panel without it |
| Adapter lifecycle (`adapter/adapter_manager.h`) | registered objects, those started, the rows of the panel | register, start, stop, unregister, start all, stop all | panel threads, the event loop, `main` |
| Command router | settings, initiative, logs, roulettes, members shared by all threads | every other command | all of the above |
| Lua plugins (`core/mod/lua_plugin_manager.cpp`, `common/bounded_executor.h`) | generation, locks, sleeping coroutines, the queue behind the locks, timers, the worker's tasks | dispatch, resume, drain, cycle events, reload | the pipeline; the event loop; one worker |
| Gateway adapters (`adapter/discord_adapter.h`, `kook_adapter.h`, `qq_official_adapter.h`, `qq_gateway_socket.h`) | flags shown to the panel, session to resume, heartbeat, token timer, sockets with a thread each | start, stop, requests, connect, frames, reconnect | platforms; panel threads; timers |
| Identity binding (`core/identity/identity_binding.h`) | identities, endpoints, the tables keyed by public number | observe, bind, merge, clean up at start | every message |
| Dice engine (`core/dice/dice_expression.cpp`) | none between rolls | parse, evaluate, explain | the router |
| Character cards (`core/character/card_store.cpp`, `service/cloud_card_service.cpp`) | local cards, links to cloud cards | edit, delete, pull, push, sync | the router; the panel; the account centre |
| Built-in login (`service/openopq_runtime.cpp`) | a map of Instances, a worker and a process each, a directory per account | launch, stop, forget, status | adapters; panel threads; child processes |
| Other plugins, decks, replies, personas | tables in memory and files | draw, match, reload | the router |
| OneBot and Milky adapters | sockets, reconnect counters, caches | connect, receive, send | platforms |
| Panel, authentication, AI, heartbeat, notices, images, backup, MCP | mostly configuration and files | HTTP handlers, timers | everything |

Threads: `main` runs the event loop and its timers, four HTTP threads serve the
panel (`app.setThreadNum(4)`), every adapter delivers messages on threads of its
own, the AI worker, the update worker and the bounded executors have one thread
each.  What they share is protected by one mutex per component, taken for one
read or write at a time; whatever a component does in two critical sections can
be interleaved with anything else, and that is what the models are about.

## Modules

| module | models | state space of its runs |
|---|---|---|
| `AtomicInstall` | what an update promises: files change by whole packages, each package gets one verdict | (abstract) |
| `PosixUpdate` | manager and transaction, system call by system call | `posix_update`, `posix_update_gap` |
| `PosixUpdate_proofs` | theorems about it | - |
| `UpdateService` | the service in the core, critical section by critical section | `update_service`, `update_service_revoke` |
| `UpdateService_proofs` | theorems about it | - |
| `ReplyDelivery` | a reply from the command to the adapter | `reply_delivery`, `reply_sent_once` |
| `ReplyDelivery_proofs` | theorems about it | - |
| `CausalRules` | rule matching against edits | `threads` |
| `GameSession` | sessions and decks, row by row | `commands`, `game_index` |
| `AdapterLifecycle` | adapter objects, lock by lock | `runtime`, `adapter_start` |
| `LuaRuntime` | the Lua scheduler: locks, coroutines, queue, callbacks | `runtime` |
| `Lua_proofs` | theorems about it | - |
| `Runtime_proofs` | theorems about `AdapterLifecycle` and `MCRuntime` | - |
| `GatewaySession` | a robot's connection, handler by handler | `threads` |
| `IdentityBinding` | public numbers, write by write | `commands` |
| `DiceGrammar` | dice expressions as trees and as text, the parser | `commands` |
| `DiceExpression` | an expression is typed, parsed, evaluated and explained | `commands` |
| `Dice_proofs` | theorems about both | - |
| `CloudCards` | cards on both sides, request by request | `commands` |
| `Commands_proofs` | theorems about `GameSession`, `IdentityBinding`, `CloudCards` and `MCCommands` | - |
| `BuiltinLogin` | login processes, lock by lock | `threads`, `login_forget` |
| `Threads_proofs` | theorems about `CausalRules`, `GatewaySession`, `BuiltinLogin` and `MCThreads` | - |

`MC*.tla` define the constants' values for TLC, `MC*.cfg` the runs.  Operators
whose comment begins with "Mutant:" are plausible mistakes; they are used by no
specification, only substituted for the definition below them to see that the
properties notice.

`MCCommands`, `MCRuntime` and `MCThreads` check several components in one run.
These share no state as modelled, so the initial state chooses one, which then
runs while the others keep their first state: the state spaces are added, not
multiplied, and each property says of which component it speaks.  They EXTEND the
components' modules, as the proofs do, so a run and a theorem that name a property
mean the same definition.  These runs check safety only.  `MCRuntime` declares the two HTTP threads of
`AdapterLifecycle` and the two places for coroutines of `LuaRuntime` symmetric:
no property or action names one; `MCThreads` does the same with the two callers
of `BuiltinLogin`.

### PosixUpdate

Program paths are numbered in the order `begin()` visits them; a path holds the
number of the package its content came from.  `live`, `stage`, `saved`,
`journal`, `result` are the disk; `pc`, `at`, `ret`, `installing`, `stopping`
the manager; `core` the child.  `ManagerStep` is the manager's program, one
system call per action: `BeginJournal ... Prepared` is `Transaction::begin`,
`Resume` `resume`, `Commit ... CommitJournal` `commit`, `EnterRecover` and
`Undo...` `recover`.  `Crash` kills the manager between any two of them, `Fault`
makes the pending call throw, `Signal` is SIGTERM, `Download` and `Authorize`
are what the core does to `updates/pending` meanwhile.  The removal of a
directory leaves it `Torn` when it is interrupted.

Checked: the transaction **implements** `AtomicInstall` (`AtomicInstallation`).
The refinement maps the installed files to what `recover()` would restore while
a transaction is open, so the only step that installs is the write of
`committed`.  Besides: a core is only launched from a whole release; program
files are still while a core runs, also when its manager was killed and another
started; no package is tried twice; the report is true; an interrupted
transaction is settled.

`posix_update_gap` checks what the comment at `posix_update.h:186` says of the
next launch, and fails for one path: the manager itself.  Between the two
renames of `dice-next` there is no executable to launch.

Not in the model: the container variant, power loss (the code does not sync
directories either), the 1 MiB limit of `readJson`, the content of metadata.
`Download` is assumed to happen while the manager waits for its child.
Two things a reader of the launcher should know, which no property states:
SIGTERM that arrives in `begin()` or before the re-exec is forgotten, since exec
resets the flag (`launcher_posix.cpp:128-142`, 187); SIGTERM during the probe of
a package makes it fail and the package is set aside (118-120, 201-213).

### UpdateService

One action is one critical section of `mutex_` or one step of the worker between
two.  `pending` is the directory `updates/pending` with its gate files: `held`
(must not be applied without permission), `permit`, `auto`, the plan.  Time is
abstracted to whether a planned moment is ahead or past.  `BootApplies`
stands for the manager applying the package at a start; `PosixUpdate` has its
steps.

Checked: no package is applied without the administrator's consent
(`AppliedWithConsent`, with `agreed` a history of it); the service is busy while
its worker has a job; the installing phase ends;
permission goes away once the policy is no longer to install.
`update_service_revoke` shows that it does not go away *at once*, as
`docs/roadmap.md:114` has it: settings saved while a job runs are reconciled
only when it ends.

Left out: `processInstallResult`, the notices, the source cache, a launch
without the manager.  The failure of the second rename of `prepareStage` is part
of `DownloadFails`.  A configuration that cannot be saved changes nothing.

### ReplyDelivery

Each message has a state `st`; `way` says how its reply is delivered.  The
handler takes the announcement, then posts to the delayed queue, the AI worker
or finishes at once; `Send` is a segment handed to the adapter, after which the
plugins' hooks may throw `ScriptBusy`, and then a delayed callback is run again.
Shutdown is `Cancel`, `StopCallbacks`, `Close` in main's order.

Checked: places in the delayed queue never leak; a group takes an announcement
once; after the database closed no delayed reply runs; a reply that was not
delayed is sent under any load.  `reply_sent_once` shows that the premise in
`bounded_executor.h:57-59`, no side effect before the busy flag is met, does
not hold for a reply of two segments: the first is sent twice.

### CausalRules

`call[a]` is `matchAndExecute` on adapter `a`'s thread, `req[p]` a request of
the panel.  The check of a counter, the check of the cooldown, its start, the
read and the write of the counter are five steps, as they are five critical
sections.  For users whom one adapter hears, counts, limits and cooldowns are
exact under every interleaving with edits and other adapters; a user in the
reach of two adapters can be counted wrong, which the model shows when
`Solo` is dropped from the properties.  `SnapshotSettles` holds with one request
at a time; with two, the older snapshot can be installed last.

### GameSession

A command is a list of reads and writes, one row each, under `gameSessionMutex`;
the panel's request and a crash come between any two.  `cut` records that one
did.  Checked: without a cut, groups, sessions and index agree, and a group leaves
a session only by a command or request under way that leaves or ends this very
session; and, cut or not, no card of a deck is dealt twice between
two refills, because the deck is saved before the card is told.  The exception is
recorded in `astray`: the panel looks which groups are in the session it ends, one of
them moves to another session and draws from the deck there, and only then the
panel takes it out of "its" session; the deck with the card drawn is saved in the
group's own scope and the session's still has the card.  That takes six commands,
more than the run has; it was found by proving the property.
`game_index` shows the panel's unlocked read-modify-write of `game:index` losing
the code of a session made meanwhile.

A session's id doubles as its code (the code is 83 random bits, taken as fresh).
The first check of authority of `.deck session` is a filter and repeated later;
only the later one is modelled.  A write other than a deck's does not fail.
Players, variables, logs, roulettes, Lua's reads and imports are left out.

### AdapterLifecycle

A request of the panel is the list of the steps it has left: `StopAdapter`,
`UnregisterAdapter`, `RegisterAdapter` and `StartAdapter` in the order of the
handler, each of them two or three critical sections.  `startAll` holds
`startMutex_` over all starts, which blocks `Forget` and `Start` of requests and
nothing else.  A start may fail; a link comes and goes.

Checked, for ids no two requests worked on at once: when all is quiet the table
is in force; whatever runs is registered, except what `startAll` had copied
before it was removed.  `adapter_start` shows an object started twice: by
`startAll`, and again by the request that had registered it.  A manual reconnect (`resumeConnection`) is not counted as a
start.  `start()` and `stop()` of an object are one step each; saving a row
without touching the runtime is left out.

### LuaRuntime

A message stands for the rule it matches, a rule for the locks it names.
`Dispatch` is the whole handler under the runtime mutex: run to the end, sleep
with the locks, queue behind a lock, or fail because the mutex stays taken.
`Take` hands a timer's callback to the worker, whose `DrainStep` leaves and
enters the mutex for every reply it sends, as `drainLegacyLocks` does; `Expire`
drops a callback the full executor does not admit; `Reload` frees everything and
starts a generation.

Checked: the locks in force are those of the sleeping coroutines, each of one
only; whoever sleeps or is queued has a callback on its way, or a lock holder in
front of him that has.  The exception is a generation in which a callback was
dropped: a coroutine then keeps its locks, or the queue its drain flag, until the
next reload.  Scripts, limits other than locks, nested `eventMsg` and the
JavaScript manager are left out.  `scheduleCoroutineResume` compares generations
outside the mutex (3839), and several busy retries of a drain multiply it; both
are in the model and harmless.

### GatewaySession

One robot on one platform.  `sock[s]` is a socket with its thread; a frame is
read in one step and handled in another, in between anything may be stopped.
Requests are counted by what their handlers do with the answer; a request, a
timer or a socket can outlive `stop()` and act on the next start.
`connectGateway` is two steps (`Connect`, `Open`), because `gateway_` has no lock.

Checked: one running socket, and it is the adapter's own, unless two of these
steps overlapped; the flags claim nothing that nobody is working on, except for
five reasons recorded in `blame`.  These are facts of the code a reader should
know, some of them contrary to a comment beside it:

* `overlap`: two answers for an address at once, or an answer and `stop()`, leave
  two sockets for one robot, and both answer its messages;
* `ordered`: Discord's opcode 7 and KOOK's signal 5 stop their socket and expect
  the close handler to reconnect ("reconnect → onClose 走重连",
  `discord_adapter.h:307`), but a stopped socket reports no close;
* `refused`: KOOK's code other than 0, and an answer of Discord's that cannot be
  read, leave `connecting_` set for good, and `start()` then does nothing;
* `stale`: a handler of a socket stopped since sets flags of a session that is no
  more;
* `mute`: QQ arms its heartbeat at READY only, so a session resumed after a stop
  has none.

Besides, any failed request for a reply clears `connecting_`; KOOK's name
resolution clears both flags of a live session, and so does QQ's token refresh,
after which the token is never refreshed again; `openGateway` of QQ does not look
at `stopping_`.  QQ ignores opcode 9, and a TCP connection that cannot be made is not retried.
Webhooks, rate limits and the messages themselves are left out.

### IdentityBinding

Endpoints lead to identities (`link`, `ids`), `rows` holds in each table the
number under which something about an endpoint is stored, `inflight` the number
a handler was given and will write with.  `merge()` is a step per endpoint, per
table and for the identity; `Fail` and `Restart` come between any two.

Checked: endpoints always lead to an identity and a number to one identity only;
endpoints with one number have one owner and their rows are under it, except
after a merge cut short (`merge()` is no transaction and swallows every
exception), after a handler that wrote late, and after `.bind` of an endpoint
bound to another real number: `.bind` on Discord and KOOK (`command_router.h:734`)
does not ask `rejectRebind` and merges two real identities.  Virtual numbers are
given out again after a merge, so what was stored late is inherited.  Only writes
fail in the model.  A read that fails is swallowed as well and passes for an
empty answer (`identity_binding.h:274-290`): `findByPublic` then finds nobody, and
`nextVirtual` starts from its first number, so that a number could be given out
twice.  That is not modelled, and `EndpointsResolve` and `PeopleApart` say nothing of
it.

### DiceGrammar and DiceExpression

`Parse` and `Answer` are the two halves of `evaluate()`: what was typed becomes
a tree or an error, and the tree a total with two stages of explanation.  An
input is meant as a tree; `TypedText` types it with as few brackets as the grammar
allows, `ParseAll` reads the tokens as the recursive-descent parser does, one
operator per function and per loop of it, `RenderEval` writes the explanation the
players see, whose rendered fragments carry the precedences of the code.
`Meaning` is the reference: the value in integers without bounds.

The recursion is written with recursive functions, so that theorems can be
proved: trees are nested at most `MaxDepth` deep, and `Reading(s)[n]` is what the
parser returns where calls are nested at most n deep; `Deepest(s)`, four calls a
token, is more than any text needs.  `Half` is 2^31 and `MaxDice` 1000 in the
code; a number that does not fit makes the input fail (`Lexes`, for `std::stoi`).

Checked over all expressions of up to two operators and the products of three:
the total is the meaning, exactly with checked arithmetic and modulo the word
size without; every stage of the explanation evaluates to the total.  Excepted
are a roll of no dice, which renders as nothing, and `2*((2/3)*2)`, whose
brackets are lost: it is explained as `2×2/3×2=0`, although the comment at
`dice_expression.cpp:251-256` calls this regrouping exact.  An explanation may read
as a tree nested deeper than the one typed (`10d6` becomes a sum of ten numbers):
`RoomAssumption` says that `MaxDepth`, a bound of the model alone, is at least the
number of signs and operators of every explanation that is given.

### CloudCards

A field of a card holds an edit, and `past` which edits its author had seen.
`op` is the one worker's command with what it read before the request; between
its steps the player edits, other clients change the cloud card and answers get
lost.  The account centre (`Serve*`) is modelled from what the code expects of
it: revisions, field-wise merge, refusal.

Checked: a value is overwritten only by one typed after it was seen, locally and
in the cloud; the base of the next merge is an ancestor of both sides.  Both hold
until a writer without the store's mutex (locks, texts, the panel's editor) has
written what it read too early (`raced`).  Facts without a run: after
`remote_saved`, or a lost answer of an upload followed by an edit of the same
field, every later sync conflicts with the player's own upload, and a pull says
`local_changes`; a linked card once deleted cannot be pulled under its link; a
lost answer of a first upload leads to a second cloud card, which
`docs/cloud-cards.md` admits; equality of values, not of edits, decides, so an
edit taken back around a crash can undo a change in the cloud.

### BuiltinLogin

`instances` is the map, `inst[o]` an `Instance` with its worker, `caller[t]` what a
calling thread is at and which object it holds: the shared pointers, whose last
owner destroys the object and joins the worker (`Dropped`, `Reap`); `launch` lets go
of the Instance it replaces once that is stopped, where the code keeps the
pointer until it returns.  `proc` are the processes, number 0 those that outlived
a killed bot, `dying` when they have been sent SIGTERM.

Checked: between calls only the Instance in the map works; without overlapping
calls there are never two processes, in whatever state, with one exception, and
none of this bot for a deleted account.  The exception is a survivor that has been
told to end: `pkill` (`openopq_runtime.cpp:703`) does not wait for it, the new process
is started at once (769), and the two run side by side, logged in to one account
and with one data directory, until the survivor is gone.  `login_forget` shows `stop()` between `launch`'s
registration and `start()`: `start()` takes `stopping` back and `stop()` waits for
ever.  Facts without a run: overlapping deletions remove the directory under a
dying process; an account's download holds `binaryMutex`, so stopping another
account waits for it; a notification of `stop()` outside the mutex can be lost and
delays it by the back-off; a survivor runs on while the manifest cannot be
fetched.

## Runs

| run | instance | result |
|---|---|---|
| `posix_update` | 4 paths (a directory, core, manager, an optional file), 2 packages, 2 kills, 1 failing call | holds |
| `posix_update_gap` | same | violated: no executable left |
| `update_service` | 2 releases, 2 changes of settings, 2 jobs, 1 fault, 1 kill | holds |
| `update_service_revoke` | same, no fault | violated: settings saved during a job |
| `reply_delivery` | 3 messages of one group, two segments, delayed queue 2, executor 1, AI queue 1, 1 retry | holds |
| `reply_sent_once` | same | violated: first segment sent again |
| `runtime`, adapters | 2 ids, 2 HTTP threads, 3 requests, 4 objects | holds |
| `runtime`, Lua | 2 rules that share a lock, one with a second; 2 coroutines, executor 1, 1 reload; queue 2, or queue 1 and a callback that finds the runtime busy | holds |
| `commands`, sessions | 2 groups with an administrator each, 2 sessions, 2 cards, 4 commands, 1 request, 1 crash | holds |
| `commands`, identity | 2 endpoints with virtual numbers, 1 with a real one, 3 identities, 1 table, 1 failure | holds |
| `commands`, cards | 2 contexts and 1 field, 1 context and 2 fields; 2 local and 2 cloud cards, 2 further edits, 1 fault | holds |
| `commands`, dice | 2 operators over 0, 1, 3, -3 and 3 over 2, 3; 5-bit integers, 4 dice, trees 8 deep | holds |
| `threads`, gateway | 2 sockets, 1 stop, 1 request of a kind | holds |
| `threads`, login | 2 callers, 3 objects, 4 calls, 1 crash | holds |
| `threads`, causal rules | 2 rules, 2 users, 2 adapters, 2 messages each, cooldown 2, 1 edit | holds |
| `game_index` | 2 commands, 1 request | violated: code lost |
| `adapter_start` | 1 request | violated: started twice |
| `login_forget` | 2 callers, 2 calls, under `FairLoginSpec` | violated: the deletion hangs |

Why these bounds: two kills interrupt a transaction and then its recovery; the
second package shows a retry and a stale report; four paths have every kind of
path (directory, required, optional) and one before and after it.  Queues are
as short as makes them overflow with three messages.  A second request or edit
is where a first can be overtaken.  Four commands make a session and a deck, draw
and draw again or end it.  The bounds are constants with their names in
the modules, and actions stop at them; so do the runs, which therefore do not
check deadlock, except `UpdateService`'s, where the minute timer always goes on.
A session that is replaced needs two sockets and a stop between them; a merge two
virtual endpoints and a real one; an edit lost by a sync one further edit on each
side; brackets three operators; a login replaced under another caller's hands
three objects.  Larger instances, too long for a regular run, hold as well:
`GatewaySession` with 3 sockets (9.5 million states), `IdentityBinding` with 4
identities and with two tables (5.4 and 1.9 million), `CloudCards` with 2
contexts and 2 fields (4.3 million), `BuiltinLogin` with 5 calls and 4 objects
(2.1 million).

Fairness: `PosixUpdate` assumes that a supervisor starts the manager again, the
manager runs and an orphaned core ends some day; `UpdateService` that the worker
runs (its network calls time out), the timer ticks and a quit ends the process;
`ReplyDelivery` that every thread goes on with a message it has begun.  All of
it is weak fairness of single threads.  `BuiltinLogin!FairLoginSpec`, under which
`ForgetFinishes` is refuted, assumes that callers and workers are scheduled and
that a process ends that was sent a signal.  The other modules claim safety only.

## Proofs

`PosixUpdate_proofs.tla` proves, for any number of paths, packages, kills and
faults, and any choice of directories and required paths:

| theorem | states |
|---|---|
| `Invariance` | `Spec => []IInv` |
| `TypeCorrect` | `Spec => []TypeOK` |
| `ReportIsTrue` | `Spec => []ReportedTruly` |
| `FilesStill` | `Spec => FilesStillWhileCoreRuns` |
| `OneAttempt` | `Spec => NoSecondAttempt` |
| `WholeRelease` | `Spec => CoreStartsWhole` |
| `InstallationIsAtomic` | `Spec => AtomicInstallation` |

They rest on the assumptions `PathAssumption`, `BoundAssumption` and
`ContentAssumption` of `PosixUpdate` and nothing else.  The properties are not
inductive: that `recover()` restores the old release depends on how far
`begin()` got with each path, which only the program counter and the disk
together tell.  `IInv` says so: `JournalInv` ties the program counter to the
journal's state, `StageInv` to the staged package and the fate of every package,
`PathInv` says for each path which of backup, new file and staged file exist
before, at and after the index `begin` or `recover` is at, `CoreInv` whose child
the core is, `ReportInv` what the report says while a transaction is open.  The
invariant's step is proved action by action and conjunct by conjunct
(`StepInv`); the refinement from lemmas for the groups of actions that stutter
(`DiskStill`, `BeginStill`, `RecoverStill`) and for each that maps to a step of
the abstract specification (`CommitInstalls`, `UndoRefuses`, `RejectRefuses`,
`DownloadOffers`).

`Threads_proofs.tla`, on `CausalRules`, for any rules, users, adapters, requests and bounds:

| theorem | states |
|---|---|
| `CausalTypeCorrect` | `CausalSpec => []CausalTypeOK` |
| `CountersAreExact` | `CausalSpec => []CountersExact` |
| `LimitIsHeld` | `CausalSpec => []LimitHeld` |
| `FiringsSpaced` | `CausalSpec => Spaced` |
| `SnapshotIsSettled` | `CausalSpec => []SnapshotSettles`, if there is one panel thread |

They assume what `CausalRules` names: `BoundAssumption`, `ServesAssumption`,
`NonEmptyAssumption` (a rule and a user exist), `SwitchAssumption` (a row
switched is a row) and `RowAssumption`.  The properties speak of states between
calls and of users whom one adapter hears; the invariant adds what holds in the
middle of a call: which rules are known to a snapshot (`KnownInv`), what the
call has read and is about to write (`CallInv`), that the deletion of counters
belongs to a deleted rule (`DeleteInv`), and for counter, limit and cooldown what
is still owed at each program counter (`CountInv`, `CapInv`, `LimitInv`,
`CoolInv`).

`Lua_proofs.tla`, for any rules, locks, coroutines, queues and reloads:

| theorem | states |
|---|---|
| `LuaTypeCorrect` | `LuaSpec => []LuaTypeOK`: both queues keep within their limits |
| `LocksAreOwned` | `LuaSpec => []LocksOwned` |
| `WaitersAreServed` | `LuaSpec => []WaitersServed` |

They assume `ConstantsAssumption` of `LuaRuntime`: types, and that no rule has the
name of a cycle event.
`WaitersServed` is not inductive: a message may wait for a drain that is only
marked as scheduled, a drain that is running has passed some messages and not
others, and a callback of an old generation must not count for the new one.
`ServeInv` says how far the drain is (`Unvisited`) and that the flag tells the
truth (`DrainServed`), `DrainInv` that a drain works on this generation's queue,
`PastInv` that no callback of a later generation exists, `OwnInv` is `LocksOwned`
lock by lock.  What a script does to the rest is one predicate (`Ran`), shown
once for dispatch, drain, resume and cycle (`RunStep`, `ResumeStep`,
`CycleStep`).

`Runtime_proofs.tla`, on `AdapterLifecycle`, for any ids, rows, HTTP threads, objects
and requests:

| theorem | states |
|---|---|
| `AdaptersInvariant` | `AdaptersSpec => []AdaptersInv` |
| `AdaptersTypeCorrect` | `AdaptersSpec => []AdaptersTypeOK` |
| `RowsStayInForce` | `AdaptersSpec => []RowsInForce` |
| `NoneIsOrphaned` | `AdaptersSpec => []NoOrphan` |

They assume `AdaptersAssumption`: finitely many ids, and as many objects as a
start-up needs.  Both properties speak of quiet moments only.  In between, what a
request has left is the end of one of six plans (`PlanInv`), and if nobody races
it, the number of steps left says what holds of its adapter (`Reached`): whether
the row is written, whether the object is registered, whether the request's copy
of the pointer is still the registered one and whether it may still run.  At most
one request works on an id that is not raced (`SoloInv`); an id on which none works
is `Settled` (`RestInv`): registered if its row is enabled and not otherwise, and
then `Served`, that is running, failed, or about to be reached by `startAll`, which
has made its copy at some moment nobody waits for.  `OrphanInv` is `NoOrphan` at
every moment.  A step is shown for the adapter it works on by what its plan says
next (`DoneStep`, `OwnStep`), for the others by what it leaves alone
(`OthersSettled`), and for `startAll` and the links, which follow no plan, by
`OutsideStep`.

`ReplyDelivery_proofs.tla`, for any messages, groups, segments, queues and
retries:

| theorem | states |
|---|---|
| `TypeCorrect` | `Spec => []TypeOK` |
| `TicketsAreCounted` | `Spec => []TicketsCounted` |
| `NoticesAreTakenOnce` | `Spec => []NoticeTakenOnce` |
| `DelayedAreDrained` | `Spec => []DelayedDrained` |

They assume `BoundAssumption` and `AskedAssumption` of `ReplyDelivery`.
`HeldInv` says that the tickets are the number of delayed replies that wait or
are being sent; it needs `ListInv`, that either queue lists exactly the messages
in its state and each once, since stopping the executor gives back as many
tickets as its queue is long.  `WayInv` says which states each way of finishing
passes through, `ProcInv` what a stopped executor leaves, `NoticeInv` that a
group whose message carries the announcement is marked, `SentInv` bounds what was
sent by the retries taken.

`UpdateService_proofs.tla`, for any number of releases, requests, faults and kills:

| theorem | states |
|---|---|
| `TypeCorrect` | `Spec => []TypeOK` |
| `BusyIsCovered` | `Spec => []BusyCoversWorker` |
| `ConsentIsAsked` | `Spec => AppliedWithConsent` |

They assume `BoundAssumption` of `UpdateService`.  `ConsentInv` generalises the
property to every moment: if anything about the package in `updates/pending`
could let it be installed now or later (`Gates`: not held, permitted, marked or
planned), or its installation is queued or under way, the administrator agreed.
`BusyInv` says which phase each job and each step of the worker shows, which is
what keeps requests from replacing or reconciling a package under the worker's
hands.  `ReconciledFacts` says of every outcome of a reconciliation, the
half-written ones included, that it opens a gate only on a policy to install.

The same module as for causal rules, on `GatewaySession`, for any number of stops
and requests:

| theorem | states |
|---|---|
| `GatewayTypeCorrect` | `GatewaySpec => []GatewayTypeOK` |
| `SessionIsSingle` | `GatewaySpec => []OneSession` |
| `FlagsAreTrue` | `GatewaySpec => []FlagsTrue` |

They assume that the two bounds are natural numbers (`GatewayConstants`).  `SessionInv` adds to
`OneSession` that nothing runs while a connect is between its two steps,
`FrameInv` which frames a socket in each phase can have delivered, and `FlagInv`
what the flags rest on: a stopped adapter claims nothing, a greeted Discord
session has its heartbeat unless its greeting is still to be handled.

The same module on `BuiltinLogin`, for any callers, settings, objects, calls and
crashes:

| theorem | states |
|---|---|
| `LoginInvariant` | `LoginSpec => []LoginInv` |
| `LoginTypeCorrect` | `LoginSpec => []LoginTypeOK` |
| `AccountLogsInOnce` | `LoginSpec => []OneLogin` |

They assume `LoginAssumption` (numbers, and one setting at least).  The first half of
`OneLogin`, that only the Instance in the map works, holds however calls overlap,
and rests on ownership: `HandInv` says in which steps of a call it holds a pointer,
`OwnInv` that every Instance is in the map or in somebody's hands and that whoever
destroys one is the last to know it, `WorkerInv` that a thread that runs can be
joined and is started by its maker only.  The second half, at most one process
besides a survivor that was told to end, is a matter of calls that do not overlap: `SoleInv` says that one of them
acts at a time, and where an Instance that can be joined is meanwhile; `ProcInv`
that a process has its worker, or has survived a bot, and that a survivor nobody
told to end is there only as long as no Instance has come to start another.

`Commands_proofs.tla`, on `IdentityBinding`, for any endpoints, numbers, tables, identities and
failures:

| theorem | states |
|---|---|
| `IdentityTypeCorrect` | `IdentitySpec => []IdentityTypeOK` |
| `EveryoneHasANumber` | `IdentitySpec => []EndpointsResolve` |
| `PeopleStayApart` | `IdentitySpec => []PeopleApart` |

They assume (`IdentityConstants`) that there are finitely many endpoints, that real
numbers are below the virtual ones, and that no table is called like another
step of `merge()`.  `NumberInv` says that numbers are unique and that of any
numbers in use one is the greatest, which makes `nextVirtual()` find a new one;
`OperationInv` that `merge()` comes to the tables with no endpoint left behind, so that
no row is stored under the merged number again, and to the removal last;
`OwnerInv` that a virtual identity has one endpoint and those of a real one
belong to its number; `RowInv` that a row not under its owner's number is one
that the merge still has to renumber.

The same module on `GameSession`, for any groups, users, administrators, cards and
numbers of sessions, commands, requests and crashes:

| theorem | states |
|---|---|
| `GameInvariant` | `GameSpec => []GameInv` |
| `GameTypeCorrect` | `GameSpec => []GameTypeOK` |
| `GameMapped` | `GameSpec => []Mapped` |
| `GameDealtOnce` | `GameSpec => []DealtOnce` |
| `GameEndsOwnOnly` | `GameSpec => EndsOwnOnly` |

They assume `BoundAssumption` and `NameAssumption` of `GameSession`.  `Mapped` speaks of
states between commands; what holds inside of one depends on the steps it has
left.  `JobInv` therefore says which plan the running command follows (`OpenPlan`,
`NewPlan`, `OverPlan`, ...: the commands as lists of reads and writes) and, so long
as nothing cut in, which of the group's row, the session's list and the index have
been written (`LeaveAt`, `AttachAt`, `MakeMap`, `EndMap`); of the groups and sessions
the command is not about it says that they agree (`Others`, `OthersStay`).
`PanelInv` is what the panel's request has read that still holds.
`DealtOnce` does not need the map to be whole, so its part holds across cuts:
`DeckInv` says that no two scopes in use have a deck of one number (a session that
ended, `Dead`, may keep one, since nobody opens it again), that none of the cards
left in a deck is dealt, and `DrawnInv` the same of the deck in a command's hands
with the cards it has drawn.  `Naming` is what makes that true of new sessions:
before its name is written a session has no deck and no request of the panel
knows it.  `GameEndsOwnOnly` needs no more than who a step of each plan writes to.

The same module on `CloudCards`, for any contexts, fields and bounds:

| theorem | states |
|---|---|
| `CloudTypeCorrect` | `CloudSpec => []CloudTypeOK` |
| `BasesAreAncestors` | `CloudSpec => []BaseIsAncestor` |
| `NoEditIsLost` | `CloudSpec => EditsKept` |

They assume (`CloudConstants`) that the bounds are numbers, with room for the first
two edits, and that cards have a field.  Replacing edits is transitive
(`PastInv`), every revision of a cloud card has been typed over all earlier ones
(`ChainInv`), and what a link or a command remembers of a local card is something
this card has been typed over (`Tracks`).  `Extends` says what no step takes
back; it is shown once for typing (`CardTyped`), for a new revision
(`RevisionAppended`) and for steps that touch neither side (`SameStays`), and it
gives `NoEditIsLost` and the preservation of everything that is remembered.

`Dice_proofs.tla`, for any expressions, nesting, limit of dice and width of int:

| theorem | states |
|---|---|
| `ParsesWhatIsTyped` | for every tree, `ParseAll` of `TypedText` returns this tree and the end of the text |
| `DiceTypes` | `DiceSpec => []DiceTypeOK` |
| `TotalIsExact` | `DiceSpec => []TotalExact` |
| `ExplanationAddsUp` | `DiceSpec => []ReadsBack` |

They assume `GrammarAssumption` and `DiceAssumption`, the last also
`RoomAssumption`, which some `MaxDepth` satisfies for any finite set of expressions,
and which TLC evaluates for the run's.  What holds of a tree when it
holds of its parts holds of every tree (`TreeInduction`); this and the equation of
each recursive function (`NestedDef`, `TypedDef`, `ReadingDef`, `RenderDef`, ...)
come from the least number of a set (`LeastNumber`, which the library's theorem on
the strict subset ordering of finite sets gives), since a theorem with an operator
as parameter cannot be used.  `Gives` says that a call of the parser returns
something however deep it may nest, if deep enough; `Reads(s, u, t, k)` that the
text u, wherever it stands in s, is read as t by the parser's function for level k
of the grammar, where the levels below a primary may read on unless the next token
stops them (`ReadsAt`).  Each way of typing a node is then read at its level
(`ReadsRoll`, `ReadsProduct`, `ReadsSum`, ...), and brackets lift a text to the
highest (`WithinReads`).  For the totals, `RenderExact` and `RenderModulo` compare
a rendered value with the meaning of its node, `FlattenedSum` says that the signed
terms of a sum have its value, and `JoinExact` and `JoinModulo` follow the loop
of `evaluate()` over them; congruence modulo `2 * Half` is compatible with sums and
products (`CongApply`), which is why an overflow in between does no harm.

For the explanations, `Says(d, u, k, v)` is that the text u, read at level k of the
grammar, has the value v, whatever tree that takes: a rendered text need not be read
as the tree it came from (`2+(3+4)` is shown as `2+3+4`), only as one of the same
value.  A fragment says its value at the level of its precedence (`Fragment`).  Where
a right operand loses its brackets, `MayFollow` says that its text may stand behind the
operator: adding or multiplying it, factor by factor, onto whatever comes before
gives the same number (`Regrouped`), which is true of a product only if it does not
begin with a quotient (`RenderShown`; hence the exception).  `JoinSays` follows the
loop of `evaluate()` over the terms, `EvaluateValue` adds the terms up again, and
`ReadAsSaid` lets the parser read the text.

The compositions:

| theorem | states |
|---|---|
| `CommandsTypeCorrect` (`Commands_proofs`) | `CommandsSpec => []CommandsTypeOK` |
| `ThreadsTypeCorrect` (`Threads_proofs`) | `ThreadsSpec => []ThreadsTypeOK` |
| `RuntimeTypeCorrect` (`Runtime_proofs`) | `RuntimeSpec => []RuntimeTypeOK` |

In the first two every part implements its own specification (`PartsStart`,
`PartsStep`), so whatever is proved of the part alone holds of it there.  The
busy mode of `MCRuntime` runs a second instance of `LuaRuntime` with smaller
limits: `Small` instantiates `Lua_proofs` with these, the assumption of
`LuaRuntime` is shown of them (`SmallConstants`), and `SmallNext` that both
instances take the same steps.

The constants' values in `MCThreads`, `MCRuntime` and `MCCommands` satisfy these
assumptions; the named ones TLC evaluates.

Every safety property a run checks is a theorem.
Liveness (`Settles`, `InstallingEnds`, `EventuallyRevoked`, `CommandAnswered`,
`ForgetFinishes`) is out of the prover's reach and stays with TLC.

## Findings

The six violation runs are disagreements between the code and what a comment,
document or test says of it; `PROJECT.json` quotes both sides.  In short: the
manager's own executable is replaced by two renames without a fallback;
permission to install survives a change of policy made during a job; a reply of
several segments can be sent twice under `ScriptBusy`; the panel's index
update can lose a new session's code; `startAdapter` starts what `startAll`
has started; deleting an account whose login is just being started hangs.  The
sections above name further facts that no line of the repository denies.

## Hazards without a property

The list in `PROJECT.json` has every hazard found, with its line.  Those no
property covers are: stop signals the manager loses, and members of the router
shared between threads (`quoteOverride_`, `forwardNodes_`, `counterContext_`, the
roulette).  Known limits of covered ones are in their notes: the detached AI
worker at shutdown; two settings requests at once; two requests for the same
rule, or for the same adapter, at once; a counter written after its rule was
deleted; sessions cut by a crash; merges cut short; writers of cards outside the
mutex; survivors of a killed bot while nothing can be fetched.  A cooldown that
the edit of a rule does not clear, although the comment at
`causal_rule_manager.cpp:404` says so, and an announcement marked as taken by a
reply that is dropped, are facts without a property.

## Plan

Done, in this order: the update transaction with its proofs, the update
service, reply delivery, causal rules, sessions and decks, adapter lifecycle;
the Lua scheduler, Gateway sessions, identity binding, dice expressions, cloud
cards, the built-in login.

Next, models: initiative, logs and roulettes of the router, with the members its
threads share; the heartbeat's debounce; configuration and hot reload; the image
archive's replacement; the deck algorithms as operators against a reference; the
JavaScript manager.  Compositions: `UpdateService` with `PosixUpdate` over the
shared `updates/pending`; `AdapterLifecycle` with `ReplyDelivery` at shutdown and
with `BuiltinLogin` for the start of an account.

Next, proofs: an abstract specification of the adapters' table, which the
requests would implement; what of `OneSession` and `FlagsTrue` holds after each
kind of overlap.

Not planned: platform protocols, remote services, rendering and formatting,
imports of old data, the Windows launcher (its own code for the same task),
vendored libraries, build scripts.
