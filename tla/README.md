# Octowiz in TLA+

Specifications of the parts of octowiz whose correctness depends on order,
interleaving, failure or time, with the TLC runs that check them and the TLAPS
proofs of their main properties. Paths are relative to the repository root;
`src/state/store.js` is the store, not a directory of this project.

    tlc -workers 2 -config StateStore.cfg StateStoreMC.tla
    tlapm StateStoreProofs.tla

## The system

Octowiz is an engineering harness around a coding agent. Its state lives in
files, its processes are short commands, editor hooks and two long-lived
processes (the local supervisor with the queue daemon inside it, and the Python
A2A agent it starts).

| Part | State it keeps | Operations | Talks to |
|---|---|---|---|
| Engineering state document (`src/state/transitions.js`, `operations.js`, `next.js`, `schema.js`) | one JSON document per repository: where the work is, goal, artifact, questions, criteria, lean gate, evidence | eleven mutation builders, `transitionTo`, `computeNextAction`, `validateState` | the store runs each operation on a copy |
| State store and ledger (`src/state/store.js`, `ledger.js`) | `.octowiz/state.json`, `events.jsonl`, `state.lock` | `init`, `mutate`, `repair`, `read`, `history` | other processes, through the files alone |
| Runtime sessions and enforcement (`src/state/runtime.js`, `enforce.js`, `hooks/scripts/start.js`, `stop.js`, `enforce-gate.js`) | `runtime.json` of a repository on one machine, an enforcement flag | register, heartbeat, release, the stop gate | hooks of concurrent sessions, the reflog |
| Local supervisor (`hooks/scripts/local-supervisor.js`, `local.js`) | the sessions map, two timers, a child process, two ports, a pid file | lease, release, sweep, idle exit, start and stop | session hooks over HTTP; the A2A child; the daemon in the same process |
| Task queue daemon (`src/daemon.js`, `task-queue-client.js`, `a2a-client.js`) | the SSE subscription, tasks in flight | subscribe, claim, process, post a result with retries | the remote queue; steering and policy; the A2A agent |
| A2A agent (`apps/a2a-agent`) | owners of dispatched sessions; a dispatch per request | dispatch, manage agents, observe, plan, review | the agent supervisor, the workflow-run service |
| Providers (`providers/`) | none | dispatch, poll, logs, stop | external programs |
| Multiplayer (`src/multiplayer/`) | task leases, `sessions.json` with file ownership, `steering.json` | claim, renew, heartbeat, pause, resume, redirect, human gates | the daemon asks steering before a dispatch |
| Capabilities, runtimes, execution policy (`src/capabilities`, `src/runtimes`, `src/execution`) | registries, `config.json` | load, merge, resolve, probe, select, normalise | `state next` and the daemon |
| Memory client (`packages/memory_client`) | a cache on disk, a bundle | get, put, refresh | the memory service |
| Keyboard HUD (`packages/keyboard_hud`) | a lock file, a sequence number | apply, notify | concurrent hook processes |
| Marketplace client, bridge, doctor, CLIs | none | resolve, forward, report | files and HTTP |

What makes them right, and what is hard about it:

* **Document.** No sequence of commands skips a gate; the four fields that say
  where the work is agree; the recommendation fits the guards; nothing local to
  a machine gets into it. Hard because the gates are far apart, review and
  verify lead back, `blocked` is a detour from anywhere, and two dozen texts
  come in.
* **Store.** Updates are not lost, a failed command leaves nothing behind, the
  ledger tells the history of the snapshot. Hard because commands of several
  processes interleave between any two file-system calls, lock files go stale,
  appends fail after the snapshot is replaced, and processes die.
* **Enforcement.** A session stops only with its commits accounted for, and is
  not held up otherwise. Hard because hooks of several sessions share a file
  without a lock, the reflog counts seconds and names no session, and the
  identity of the repository changes under them.
* **Supervisor.** It stays while a session needs it, goes when none does, and
  forwards to an agent that is there. Hard because three timers and the requests
  of many sessions meet, sessions die without saying so, and processes that
  start at the same time race for two ports one after the other.
* **Daemon and dispatch.** A task is answered once by the holder of its lease,
  and a dispatched session always has an owner who may stop it. Hard because
  deliveries repeat, answers are lost, and deadlines race with answers.
* **Multiplayer.** A file or task has one owner, a pause holds. Hard because
  heartbeats lapse and come back, and the files are read and written without a
  lock.
* **Resolution.** Overrides add and never silently take away, settings survive
  each other, a selection ends. Hard because the files are written by hand and
  the runtimes answer late or never.

## Modules

| Module | Models | Properties |
|---|---|---|
| `Lifecycle` | what the document promises: stages, gates and the facts they rest on | abstract |
| `EngineeringState` | `transitions.js`, `next.js`, the tables of `schema.js`, what `operations.js` does to the guards' inputs | refines `Lifecycle`; proofs |
| `StateDocument` | the texts and entries of the document and the ledger: `operations.js`, `validateState`, the commands of `state/cli.js` | refines `EngineeringState`; proofs |
| `StateStore` | `store.js`, `ledger.js` | proofs |
| `StopGate` | `runtime.js`, `enforce.js`, the start, stop and gate hooks | proofs |
| `LocalSupervisor` | `local-supervisor.js`, `local.js` | proofs |
| `DispatchSession` | `dispatch.py`, `session_owners.py`, the control calls of `manage_agents.py`, `workflow_run_client.py`, the daemon's POST | proofs |
| `TaskQueue` | the subscription of `a2a-client.js`, `processTask` of `daemon.js`, `task-queue-client.js` | proofs |
| `ExecutionPolicy` | `src/execution/policy.js`, `apps/a2a-agent/execution_policy.py`: pure operators | used by `Admission` |
| `Admission` | `steering.js` and the admission in `processTask` | proofs |
| `SessionOwnership` | `sessions.js`, `ownership.js` | proofs |
| `TaskLeases` | `task-leases.js` | proofs |
| `Capabilities` | `capabilities/schema.js`, `conditions.js`, `registry.js`: pure operators | used by `Routing` |
| `Routing` | the override files, `runtimes/registry.js`, `selection.js`, the writers and readers of `config.json` | proofs |
| `*Proofs` | the theorems of the module of that name | |
| `MultiplayerProofs` | the theorems of `SessionOwnership` and `TaskLeases` | |
| `DaemonProofs` | the theorems of `Admission` and `TaskQueue` | |
| `DoctrineProofs` | the theorems of `StateDocument` and `StopGate` | |
| `*MC` | the instances TLC checks, one `.cfg` per run | |

Mutants (`...Mutant`) are plausible bugs of a definition, written next to it;
each property fails when its mutant takes the definition's place.

### EngineeringState and StateDocument

The variables of `EngineeringState` are the fields of the document. Each action
is one successful mutation: the store persists the whole document or nothing, so
an operation that throws is a stuttering step and needs no action. `Block`,
`Unblock(to)` and `Advance(to)` are the three branches of `transitionTo`;
`Guard` is the table `GUARDS`, with `hasWorkingTreeChanges` and
`--waive-activity-check` as a choice. The actions named after `operations.js`
carry that function's checks. A text is abstracted to whether it is there, an
evidence group to its status and the set of statuses its items have had, because
that is what the guards ask. `Promise` maps the document to `Lifecycle`: its
stage (seen through `blocked`), and the facts on record that no operation takes
back.

`StateDocument` has what `EngineeringState` leaves out. Its `doc` holds the
entries themselves, its `ledger` the texts of the events. A command is built the
way the code does it: the `...Calls` operators take the texts a caller may give
(none, blank, plain, or one with a machine path in it) as `cli.js` passes them
on, the operators named after `operations.js` make the new document or refuse,
and `Mutate` writes what the schema (`ValidState`) and the ledger's own check
(`Accepts`) let through. Identifiers are never used twice, so an item is known
by its position. Every step of it is a step of `EngineeringState` or a stutter.

### StateStore

One action is one call on the file system whose effect another process can see:
`CreateLock` and `FillLock` are the two halves of `writeFileSync(..., 'wx')`,
`InspectLock` and `StealLock` the read and the unlink after `EEXIST`,
`ReadRaw`, `ReadDoc`, `WriteSnapshot`, `AppendEvent`, `UndoSnapshot`,
`ReleaseLock` the steps of `mutate`. `init` and `repair` share them after
`InitCheck`, `RepairCheck` and `RepairScan`, which run before the lock as in the
code. `pc[p]` says where process `p` is and `cmd[p]` holds the locals of its
call. Mishaps: a process dies anywhere, an append throws (its line in the file
or not), the undo throws, a lock ages under a slow holder, the snapshot is
broken by hand. A document is its revision and the set of commands whose effect
it carries, so that a lost or resurrected update is seen.
`breached`, `clobbered` and `rewound` record what the code cannot prevent: a
stolen lock, an init or repair acting on an old check, a revision taken back.
The properties are stated for histories without the one they depend on, and
the findings say how the code reaches those histories.

### StopGate

A hook is a process in two steps, the read of the runtime file and its
replacement (`Start`, `End`, then `Write`); `HookDies` ends it in between. The
runtime file of a repository is found under an identity, that of the directory
until `StateInit` gives the repository a state, and the one of the state from
then on. `Stop` is the gate: it decides whether enforcement is on, takes the
lease (`Lease`), counts the reflog from its second on (`Activity`) and compares
the last update (`UpdatedAfter`). `Second` turns the fine clock into reflog
seconds, with `Offset` for where in a second the clock began. The gate reads
several files; the model reads them in one step.

### LocalSupervisor

Time is a `Tick`; a timer that is due (`idleTimer`, `leaseSweep`) must fire
before the next one, and requests of the same tick come in any order around it.
Session hooks check health and take the lease in two requests, as `local.js`
does, so the supervisor can exit, or be another one, in between. `Vanish` is a
session that dies without `SessionEnd`.

`process[p]` follows `main` of a supervisor process: `probing` until it has
looked at the A2A port (`ProbePort`), `asking` while it waits for the answer of
whoever has it (`ClassifyExistingA2A`), `binding` until it has its own port
(`Listen`) or finds it taken (`ListenFails`). `pythonChild[p]` is the agent it
spawned, which takes a while to bind and, told to stop, to let go of the port
(`AgentBinds`, `AgentStops`). `EnsureSupervisor` is the health check, the SIGTERM
to a supervisor of another version and the spawn, in one step; the process it
spawns may be arbitrarily slow, so this hides no order of what follows. Two
answers, `stale` and `foreign`, have the same consequence and are one
(`unusable`).

### DispatchSession

One request of `octowiz.dispatch`. `at` says what its coroutine awaits and each
action of the coroutine is the code between two awaits: `StartReturns`,
`CreateRun` and `StepStarted` are `start`, `WakeUp`, `PollBlind`, `PollSession`,
`GetLogs` are one turn of the loop of `run`, `NextRound` its condition, `Decide`
and `Return` the branches that end it, `Report` the update sent before a return.
`thread` is the executor job `_dispatch_and_register`, which goes on when the
coroutine is cancelled. `owned` is the entry in `session_owners`; `ControlBegins`
and `ControlEnds` are a call of `manage_agents`, which blocks the event loop
(`blocked`) whether it is allowed to touch the session or only lists sessions.
`session` moves by itself (`SessionMoves`), and a listing that fails cannot be
told from one without it (`PollBlind`), because `list_sessions` returns `[]` for
both. `run` is the run at the workflow service, `late` the updates whose request
timed out and that the service may still apply. `client` is the daemon's POST. A
`Tick` counts time against the limits of the calls (`Limit`), the deadline
(`left`) and the daemon's patience (`waited`).

### TaskQueue

A connection is one call of `_connectSSE`: `timer` before it runs, `connecting`,
`open`, `refused` while the body of an error status comes in. The actions are
its callbacks; the guard `reconnectScheduled` makes all of them but `Refused`
reuse the connection. A job is one call of `processTask`, an action the code
between two of its awaits. The checks of `CheckTask` are one choice between
posting an error, handling the task in the daemon and forwarding it; `Admission`
says which dispatches are forwarded. `ClaimTask` and `PostResult` are requests
that may be lost before or after the queue has acted.
The queue is not in the repository. It is modelled from what the daemon relies
on: a pending task goes to whoever is subscribed, the first claim leases it,
other claims and results without the current lease get 409, and a lapsed lease
makes the task pending again.

### ExecutionPolicy and Admission

A policy is a record of all fields; numbers and booleans are strings, so that a
field may hold a value of any type, and the sets of values hold both sides of
every bound the code checks. `Valid` is the daemon's check, `Accepted` the
agent server's, written apart in another language. `Admit` is the part of
`processTask` that reads steering, completes the policy (`ResolveExecutionPolicy`)
and forwards or refuses. A steering command reads the file (`Start`) and writes
it in place, in two steps (`Truncate`, `Fill`); `CommandDies` leaves a torn file, and
`Fill` may do so when the last write was longer. A torn file reads as an empty
state.

### SessionOwnership and TaskLeases

In `SessionOwnership` a call reads the ledger in one step and replaces it in
another (`Write`), with every other call free to run in between; a claim is three
such accesses (`ClaimFiles`, `GetSession`, `Reregister`). `ActiveSessions` and
`PurgeStale` write too. A call under way remembers which files have changed their
standing since it first read the ledger (`moved`), so that `SharingHasACause`
excuses a second owner of a file only where this very file moved under the call
that writes, or where a stale owner comes back; `lost` has the sessions whose last
sign of life such a call has overwritten. Task leases live in the memory of one
process, so in `TaskLeases` each call is one step, and what can go wrong is
between the manager's record and what a session was last told (`told`).

### Capabilities and Routing

`Capabilities` has the checks of the schema, the conditions, the merge of local
overrides and the resolution, over documents whose fields are given, left out or
of a wrong type. `Routing` changes the repository and the override file by hand
(`EditOverrides`, `EditRepository`) and runs `state next` over them in the three
reads it makes. `config.json` has two writers: the toggle of enforcement, which
renames (`EnforceReads`, `EnforceRenames`), and the selection of a runtime,
which reads twice and writes in place (`SelectReads`, `SelectReadsAgain`,
`SelectTruncates`, `SelectWrites`); either may die (`WriterDies`). A selection
of a runtime is one `probe` at a time, first of the preferred runtime and then
of all, while runtimes come, go, and do not answer; where nothing else keeps the
process alive, it may end before the answer (`ProcessExits`).

## Runs

| Run | Result | Shows |
|---|---|---|
| `EngineeringState` | passes | the fields that say where the work is agree (`PlaceCoherent`), shipped work left a complete trail (`ShippedIsEvidenced`), what the resolver recommends is set against the guard of the transition that comes next: alike in verify, alike in review but for criteria, which the resolver does not look at, and in plan and slice but for the artifact and the criteria (`ResolverAgreesWithGuards`), the document implements the life cycle (`ImplementsLifecycle`) |
| `StateDocument` | passes | nothing local to a machine is written (`PersistedIsPortable`), no command whose texts are in order is refused by the schema (`OperationsMeetSchema`), chains of decisions lead on and are not rewritten (`SupersededLeadsOn`, `HistoryIsKept`), the document implements `EngineeringState` (`ImplementsEngineeringState`) |
| `StateStore` | passes | `LockExcludes`, `NoLostUpdate`, `FailedLeavesNoTrace`, `ExpectedRevisionIsExact`, `LedgerFollowsSnapshot`, each but for the histories it names |
| `StopGate` | passes | a stop passes over unaccounted commits only for a named reason (`PassesHaveACause`), blocks only for commits since the session began (`BlocksAreDeserved`), and an ended session keeps no lease (`EndedSessionsHoldNoLease`) |
| `GateBypass` | violation | a start hook that fires again after `state init` hides the commits made before it from the gate, against the comment at `hooks/scripts/enforce-gate.js:31` |
| `LocalSupervisor` | passes | leases expire in time (`StaleLeasesExpire`), a supervisor exits only when it may (`ExitIsJustified`), what it forwards to is its agent (`ForwardsToItsAgent`), and all processes go when the sessions have (`EmptySupervisorExits`) |
| `DispatchSession` | passes | a live session is tracked (`SessionsAreTracked`), the run tells the outcome (`RunTellsOutcome`), the POST outlives the dispatch but for what holds the loop up (`PostOutlivesDispatch`), every dispatch ends (`DispatchEnds`) |
| `TaskQueue` | passes | one subscription is always there or on its way (`SubscriptionSurvives`), work is claimed work (`WorksAreClaimed`), every task is settled (`TasksAreSettled`) |
| `Admission` | passes | a pause or gate that stands holds (`GatesHold`), commands add up (`CommandsAddUp`), what is forwarded the server accepts (`ForwardedIsAccepted`) |
| `SessionOwnership` | passes | a file gets a second owner only from a call whose reading of that file is outdated, or by the return of a stale owner (`SharingHasACause`), and only the silent go stale, but for those whose heartbeat was overwritten (`StaleIsSilent`) |
| `TaskLeases` | passes | never two with unexpired leave for one task (`LeaseExcludes`), never a lease back from the dead (`DeadTokensStayDead`) |
| `Routing` | passes | overrides take away nothing silently (`LossIsDeclared`), and by default they decide nothing but what their own priority or a tie gives them (`PrependedAnswersFirst`), settings survive each other (`SettingsAddUp`), a selection follows the rules (`SelectionIsJustified`) and ends (`SelectionEnds`) |

Where the code does not keep what one expects of it, the property names the
exception, and PROJECT.json has a finding for each that contradicts a comment or
a document: among them the idle exit that the sweep puts off for ever with the
default intervals, the lock file that is stolen while it is still empty, the
second subscription after a refusal that fails, the POST that is aborted before
its dispatch answers, the session given up while it runs, and the supervisor
whose agent was stopped by the one that lost the port. That holds for races too:
two claims that overlap, a stale owner's return, a heartbeat that is overwritten,
steering commands that overlap, a hook that puts back an old runtime file, and an
undo that leaves its event behind are each excused by a property and recorded as a
finding, so what is shown there is that nothing else goes wrong.

## Bounds

* `EngineeringState`: one criterion, one question, two required checks of which
  one starts as not-configured, three distinct evidence items; guards ask whether
  a group has an item of a status, so more items of the same status change
  nothing. `StateDocument`: four revisions, enough for an entry to be made,
  edited and superseded twice; every text of every command in every form.
* `StateStore`: two processes (interchangeable, and no liveness property), three
  commands and two mishaps; a lost update, a stolen lock or an undo needs two
  processes and at most one mishap, the third command lets a later one build on
  the result. The number of commands is bounded, so the run may stop.
* `StopGate`: two interchangeable sessions, three starts, one commit, three units
  of time of which two make a second, and one mishap (a hook that dies or fails).
* `LocalSupervisor`: two sessions of one version or of two, two processes, an idle
  timeout of 1, a time to live and a sweep interval of 2. A supervisor that is
  gone with its agent makes room for the next, so the number of starts is not
  bounded, only how many are alive at once.
* `DispatchSession`: every limit one tick, a deadline of two, so that the loop turns
  twice, the deadline is met inside and outside a poll, and one control call holds
  the loop; the buffer is exactly the overhead, so that the POST is aborted when
  the loop is held up and only then. `MaxLag` bounds how long control calls hold
  the loop in all. A dispatch ends, so the run does not look for deadlocks.
* `TaskQueue`: one task, two jobs, two connections, two faults and one lapse under
  a running job: enough for a task to be worked on twice at once, for both the
  claim and the result to be lost, and for a second subscription. Where no
  connection is left, a refusal waits for one; the bound stands for the delays that
  keep connections few.
* `Admission`: two processes, one session, one redirection, three commands, and
  every request that differs from an acceptable one in a single field.
* `SessionOwnership`: two interchangeable sessions, two interchangeable files (so
  that one changes hands while a call about the other is under way), the advisory
  mode, two calls at once. One step of the clock and a time to live of none: an
  entry is fresh as long as the clock stands and expires at its step, which is the
  boundary the code tests; a longer time to live only adds steps at which nothing
  can expire, and multiplies the states by four.
  `TaskLeases`: two sessions, two tasks, durations 0 to 2, three steps of the
  clock, three tokens.
* `Routing`: three runtimes, eight override files (sound, unusable in the ways the
  loader tells apart, replacing, adding with a later and with the same priority,
  redefining a provider), two
  repositories, three moves of the environment or of a command's begin.

## Fairness

`LocalSupervisor`: time passes, the event loops run a timer or a callback that is
due (`Runs`), and an agent that is told to stop does, all weak; sessions owe
nothing, and the property asks for an exit only when they stay away.
`DispatchSession`: calls end, control calls included, and time passes. The
coroutine is ready only when the loop is free, and control calls may come again
and again, so `Coroutine` and `Tick` are strongly fair: the ready queue of asyncio
is first in, first out. Nothing is assumed of sessions, owners or the workflow
service. `TaskQueue`: timers fire and jobs go on (weak); of the service, that it
accepts a subscriber that keeps trying and offers it the pending tasks (strong),
and lets abandoned leases lapse (weak). Losses and crashes owe nothing and are
bounded by `MaxFaults`, without which no task need ever be settled. `Routing`: a
selection that may end does, and the timer of each probe fires (weak); nothing is
assumed of the runtimes. The timers are unref'd (`src/runtimes/registry.js:78`,
`:113`), so they fire only while something else keeps the event loop alive: where
all that is left to wait for is runtimes that do not answer, the process may end
first, and `ProcessExits`, which ends the selection without an answer and owes no
fairness, is a step beside the timer's. `SelectionEnds` holds either way.

## Proofs

The theorems hold for every value of the constants that meets the assumptions of
the module. Each safety property rests on an inductive invariant that was checked
with TLC first.

* `EngineeringStateProofs`, from `KindsAssumption` and `BoundAssumption`.
  `TypeCorrect` and `PlaceStaysCoherent` are inductive together. `TrailHolds`:
  `TrailInv` says of every stage which facts its gates have put on record (an
  implementing document is ready, a reviewing one checked too, and so on, seen
  through `blocked`). `ShippedIsEvidenced` alone is not inductive: a step to
  `shipped` knows only what its own guard asked. `ShippedWorkIsEvidenced` follows,
  and `LifecycleImplemented` from the step-by-step mapping: each action is a step
  of `Lifecycle` or stutters. `ResolverAgrees` compares the recommendation with the
  whole guard and rests on `StatusHasItem`, a part of `TrailInv`: a group whose
  status is `waived` holds the waived item.
* `StateStoreProofs`, from `ConstantsAssumption`. `TypeCorrect`: `TypeInv` adds
  that a command on its way to a write, and not only one at it, knows its document
  where it must. `LockIsExclusive`: `LockInv`, whoever is in the locked part made
  the lock file; every action keeps the lock of a working process or sets
  `breached`. `NoUpdateIsLost`: `PreparedInv` (what a command holds before it is in
  the lock) and `UpdateInv` (what the process in the lock knows of the snapshot at
  each of its places, and that acknowledged commands are in the snapshot).
  Three more theorems rest on these and on the shapes a step can have as far as
  snapshot, ledger and documents in hand go (`StepShapes`), so that each invariant
  is checked against ten shapes and not against every action.
  `NoTraceOfFailures`: `NumbersInv` says which documents the number of a running
  command can be in (none, before it writes), `TraceInv` that no failed number is
  in the snapshot or in one kept to be put back. `GuardedWritesAreExact`:
  `ExactInv`, the snapshot is the document the caller of a guarded mutation saw or
  a later one. `LedgerFollows`: `LedgerInv`, whoever is to append, or to write over
  the broken file it found, brings a revision beyond the ledger; `BrokenInv` keeps
  a repair from taking a file broken later for the one it found.
* `DispatchSessionProofs`, from `LimitsAssumption`. `OwnersKeepSessions`:
  `SessionsAreTracked` with the types is inductive. `RunAndCallerAgree`: what the
  service may still apply must agree too, so `Agrees` speaks of `run`, of `late`
  and of the update being sent; `Settled` says when the run has been told.
  `AbortedOnlyWhenLate`: `OnTime` says how late each await may begin (`Latest`);
  inside the loop `waited + left` cannot grow but by lag, and outside it the limits
  of the calls add up. The POST would never be aborted if the buffer covered the
  overhead and every lag; the one the code has, one call of the CLI long, does not,
  and a finding says so.
* `LocalSupervisorProofs`, from `TimesAssumption` and `ProcessAssumption`.
  `LeasesExpire`: `SweepIsNear`, the older a lease the nearer the sweep.
  `ExitsOnlyWhenIdle`: `ExitInv`, while the idle timer is armed nobody holds a
  lease and none was held since. `ForwardersHaveAgents`: `AgentInv`, as long as no
  two agents were started at once, an agent that is starting is the only one
  (`StartsAlone`), and a supervisor that started one still has it
  (`KeepsItsAgent`), before it has its own port too, of which the property says
  nothing.
* `MultiplayerProofs`, from `OwnershipAssumption` and `LeaseAssumption`. `OwnInv`
  says how the document of a call under way differs from the ledger: for every file
  that has not `moved` since the call read it (`FileOK`), a write makes
  nobody an owner but its own session, and that one only of a file it had or nobody
  else has; and as long as no other
  call has written, the times of the other sessions are those of the ledger
  (`TimeOK`). `SharedWithCause` and `StaleWereSilent` follow, the latter with
  `Heard`: the ledger has the last sign of life of whoever is not `lost`.
  `LeaseInv` is the one of the task leases: what a session believes to hold is
  what the manager has on record (`OnRecord`), so two believers are one.
* `DaemonProofs`, from `AdmissionAssumption` and `ParametersAssumption`.
  `ForwardedAccepted` compares the two checks over all fields of a policy.
  `AddUpInv`: until two commands overlap, the file, when it can be read, and what
  every command will write agree with what people asked for. `StandingGatesHold`
  follows. `WorkIsClaimed`: `QueueInv` counts, for every task, the jobs that hold
  its claim and have yet to begin (`Checking`), together with the times it was
  carried out, against the times the queue has granted it (`Counted`), and the
  grants against faults and lapses (`LeaseOK`): every grant of a task but the first
  followed a lapse or a fault. `WorksAreClaimed` alone is not inductive, for a job
  that is about to carry the task out is not in it. `SubscriptionLives`: a
  connection that has been refused, or whose stream ends, schedules the next one
  before it is gone.
* `DoctrineProofs`, from `DocumentAssumption` and `GateAssumption`.
  `PersistedPortable`, `SchemaIsMet`, `SupersededLead`, `HistoryStays`,
  `DocumentImplements`: `DocInv` says that the document is one that the schema
  accepts, of its type (`Docs`), and that fewer questions and criteria have been
  asked than there are revisions, which is why a new one finds a place in
  `EngineeringState`. Each command is first shown to have one of ten effects
  (`GoalIsSet` to `EvidenceIsRecorded`, `CallHasEffect`); every theorem is about
  the effects. `PersistedIsPortable` needs more than the schema: the schema looks
  at an artifact's reason only when it is waived, at its identifier only when it
  is not, and no operation fills both (`ArtifactPortable`). The refinement goes by
  the view of a document (`OpenOf`, `CriteriaOf`, `EvidenceOf`, ...), whose one
  step is a step of `EngineeringState` (`ViewStepImplements`); its bound on the
  items on record is never met, for there are at most five kinds and four
  statuses (`FewItems`).
  `ShippedHasTexts` puts the two together: `ShippedWorkIsEvidenced`, taken over an
  instance of `EngineeringStateProofs` with that view, and the schema (`DocInv`)
  give that whatever was shipped has a trail of texts, each with content and
  portable. No run states `ShippedWithTexts`: a document is at revision fifteen or
  later when it is shipped, far beyond the bound of the run. TLC confirms it, and
  reaches such documents, when a constraint keeps it to the shortest way there.
  `EndedHoldNoLease`, `PassesCaused`, `BlocksDeserved`: `GateInv` says how the file
  a hook is about to write differs from the one on disk, by the lease of its own
  session alone, as long as no other hook has written in between (`HooksClean`),
  that a session that runs has a lease the gate finds or a hook that leaves one
  (`AliveOK`), and that an identity once in a state stays (`IdsKept`).
* `RoutingProofs`. `LossesAreDeclared` and `PrependingDecidesTies` are about the
  merge and the resolution, for every registry and override file. The second
  compares the merged list with its two parts: the best resolver of a list that is
  two lists joined is the best of the first where that is of no worse priority,
  else the best of the second (`SomeIsBest`, `BestAnswers`, `MergeDecidesTies`);
  that a best one exists needs a least priority and a least position (`Least`).
  `SettingsKept`: `SettingsInv` with `OneWriter`, a writer that is alone holds
  what is wanted, changed by its own key. `SelectionsAreJustified`:
  `SelectionInv`, what a probe has collected came from runtimes that were up when
  asked.

`MultiplayerProofs`, `DaemonProofs` and `DoctrineProofs` hold the theorems of two
components each, which lie next to each other in the system; nothing in one half
is used in the other.

Type invariants are proved where a module states one, `AdmissionTypeOK` excepted:
none of the provers knows that a literal such as `"unset"` is in `STRING`. It holds
on the instance of the run (add it to the INVARIANTS). `Routing` and
`StateDocument` have their types in `SelectionInv`, `SettingsInv` and `DocInv`.

Every safety invariant and action property of the passing runs and both
refinements are proved. Only model-checked: liveness (`EmptySupervisorExits`,
`DispatchEnds`, `TasksAreSettled`, `SelectionEnds`), which is out of the prover's
reach.

## Plan

Done, in this order: `EngineeringState`, `StateStore`, `LocalSupervisor`;
`DispatchSession`, `TaskQueue`; `SessionOwnership`, `TaskLeases`, `Admission`,
`StopGate`; `Routing` and `StateDocument`; the proofs above; the supervisors that
race for the ports. What is left, the most useful first:

1. An abstract register that `StateStore` implements while the lock excludes.
2. Crashes of a supervisor and of its agent in `LocalSupervisor`.
3. The memory cache, whose put removes the old bundle before the manifest names
   the new one, and the managed-agents branch of a dispatch.

## Not modelled

* Formatting, logging and command-line parsing; migrations of the document (there
  is one version); the derivation of a repository id; path and task validation
  (`policy.js`, `validation.js`), which are checks of one value.
* In `StateStore`: a torn ledger line, and a hand edit of `state.json` while a
  command holds the lock. In `LocalSupervisor`: a supervisor or an agent that
  crashes, a foreign service on a port, a daemon that fails to start, a `ps` that
  cannot verify a process, and the pid file, which nobody reads. In
  `DispatchSession`: several dispatches at once, which share nothing but the event
  loop, the branch of `dispatch.py` that runs managed agents, and the checks of
  the request. In `TaskQueue`: events, routing and task updates of
  `a2a-client.js`, which keep no state.
* Worktrees, evidence bundles and `conflicts.js` (git subprocesses and reports);
  runtime adapters once selected and `events.js`, which nothing in the repository
  drives.
* The other A2A capabilities, the managed-agents orchestrator, the providers, the
  marketplace client, the bridge, the doctor, configuration, git context, handoff
  and workflows: each is one request, one subprocess or a report, and keeps no
  state of its own.
* The memory client (a cache of texts that are fetched again when missing) and the
  keyboard HUD (a best-effort display nothing reads back).
* Hazards that no property states because the code has nothing there that could go
  right: the registry of owners is lost on a restart of the A2A agent
  (`session_owners.py:14`); `list_active_runs`, meant for recovery, is called by
  nobody (`workflow_run_client.py:120`); no guard compares the commit of recorded
  evidence with the current one (`src/state/transitions.js:98`); a claim by a
  session that is not registered records nothing (`src/multiplayer/ownership.js:53`).
