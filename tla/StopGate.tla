------------------------------ MODULE StopGate ------------------------------
(***************************************************************************)
(* Enforced doctrine mode: the hooks of hooks/scripts (start.js, stop.js   *)
(* and enforce-gate.js), the runtime leases of src/state/runtime.js they   *)
(* keep, and the decision of src/state/enforce.js.                         *)
(*                                                                         *)
(* A session that starts leaves a lease with its start time in the         *)
(* runtime file of the repository, and takes it back when it ends.  When   *)
(* it wants to stop, the gate counts the commits in the reflog since the   *)
(* lease and blocks unless the engineering state was updated after the     *)
(* last of them.  Hooks are processes: they read the runtime file and      *)
(* replace it without a lock, and the repository has another runtime file  *)
(* once the engineering state gives it another identity.                   *)
(***************************************************************************)
EXTENDS Integers, FiniteSets

CONSTANTS
  Sessions,    \* session ids
  Derived,     \* the identity `state init` derives: "local" or "remote"
  Env,         \* OCTOWIZ_ENFORCE of each session: "on", "off" or "unset"
  Unit,        \* points of the clock in a second, the unit of the reflog
  Offset,      \* points of the first second that have passed at the start
  MaxTime,     \* bound: the clock stops here
  MaxCommits,  \* bound on the commits
  MaxStarts    \* bound on the start hooks

ASSUME GateAssumption ==
  /\ Derived \in {"local", "remote"}
  /\ Env \in [Sessions -> {"on", "off", "unset"}]
  /\ Unit \in Nat \ {0}
  /\ Offset \in Nat
  /\ MaxTime \in Nat
  /\ MaxCommits \in Nat
  /\ MaxStarts \in Nat

VARIABLES
  now,
  stateFile, \* the engineering state: is it there and readable, its
             \* repository id and its updatedAt
  runtime,   \* per identity, the startedAt of each session's lease
  hook,      \* the start or stop hook of each session that is under way
  alive,     \* sessions that run
  began,     \* history: when each session started
  commits,   \* the reflog: who committed when
  verdict,   \* what the gate said at each session's last stop, if it has
             \* stopped in this turn
  starts,    \* start hooks so far
  missed     \* history: a hook failed, or wrote over another one's change

gateVars == <<now, stateFile, runtime, hook, alive, began, commits, verdict,
              starts, missed>>
world == <<now, stateFile, alive, began, commits, starts>>

Ids == {"local", "remote"}
Times == 0..MaxTime
NoLease == -1
Files == [Sessions -> Times \union {NoLease}]
NoHook == [op |-> "none"]

\* Types of the variables.
GateTypeOK ==
  /\ now \in Times
  /\ stateFile \in [exists : BOOLEAN, readable : BOOLEAN, id : Ids, at : Times]
  /\ runtime \in [Ids -> Files]
  /\ hook \in [Sessions -> {NoHook} \union
                 [op : {"write"}, id : Ids, file : Files, dirty : BOOLEAN]]
  /\ alive \subseteq Sessions
  /\ began \in [Sessions -> Times]
  /\ commits \subseteq [by : Sessions, at : Times, nr : 1..MaxCommits]
  /\ verdict \in [Sessions -> {"none", "off", "blocked", "passed"}]
  /\ starts \in 0..MaxStarts
  /\ missed \in BOOLEAN

GateInit ==
  /\ now = 0
  /\ stateFile = [exists |-> FALSE, readable |-> TRUE, id |-> "local",
                  at |-> 0]
  /\ runtime = [i \in Ids |-> [s \in Sessions |-> NoLease]]
  /\ hook = [s \in Sessions |-> NoHook]
  /\ alive = {}
  /\ began = [s \in Sessions |-> 0]
  /\ commits = {}
  /\ verdict = [s \in Sessions |-> "none"]
  /\ starts = 0
  /\ missed = FALSE

-----------------------------------------------------------------------------
(* The start and stop hooks.                                               *)

\* The identity of the state file, else that of the directory.
RepositoryId == IF stateFile.exists THEN stateFile.id ELSE "local"

\* registerSession: an existing lease keeps its start time.
Registered(file, s) ==
  IF file[s] # NoLease THEN file ELSE [file EXCEPT ![s] = now]

\* Mutant: the session is found in the file but not taken out of it.
ReleasedMutant(file, s) == file

Released(file, s) == [file EXCEPT ![s] = NoLease]

\* Bound: one mishap, that is a hook that fails or hooks that overlap.
Mishap == ~missed

\* A hook that cannot read the state gives up without touching a lease.
Read(s, file) ==
  /\ Mishap \/ \A t \in Sessions : hook[t] = NoHook
  /\ IF stateFile.exists /\ ~stateFile.readable
     THEN missed' = TRUE /\ UNCHANGED hook
     ELSE /\ hook' = [hook EXCEPT ![s] =
               [op |-> "write", id |-> RepositoryId, file |-> file,
                dirty |-> FALSE]]
          /\ UNCHANGED missed

\* SessionStart, also fired for a session that goes on after a compaction.
Start(s) ==
  /\ hook[s] = NoHook
  /\ starts < MaxStarts
  /\ starts' = starts + 1
  /\ alive' = alive \union {s}
  /\ began' = [began EXCEPT ![s] = IF s \in alive THEN @ ELSE now]
  /\ Read(s, Registered(runtime[RepositoryId], s))
  /\ UNCHANGED <<now, stateFile, runtime, commits, verdict>>

\* SessionEnd.
End(s) ==
  /\ s \in alive /\ hook[s] = NoHook
  /\ alive' = alive \ {s}
  /\ began' = [began EXCEPT ![s] = 0]
  /\ verdict' = [verdict EXCEPT ![s] = "none"]
  /\ Read(s, Released(runtime[RepositoryId], s))
  /\ UNCHANGED <<now, stateFile, runtime, commits, starts>>

\* writeRuntime: the rename.  What others read before is out of date now.
Write(s) ==
  LET h == hook[s]
  IN  /\ h # NoHook
      /\ runtime' = [runtime EXCEPT ![h.id] = h.file]
      /\ missed' = (missed \/ h.dirty)
      /\ hook' = [t \in Sessions |->
           IF t = s THEN NoHook
           ELSE IF hook[t] # NoHook /\ hook[t].id = h.id
                   /\ h.file # runtime[h.id]
                THEN [hook[t] EXCEPT !.dirty = TRUE]
                ELSE hook[t]]
      /\ UNCHANGED <<world, verdict>>

\* The hook is killed by its timeout before it has written.
HookDies(s) ==
  /\ Mishap
  /\ hook[s] # NoHook
  /\ hook' = [hook EXCEPT ![s] = NoHook]
  /\ missed' = TRUE
  /\ UNCHANGED <<world, runtime, verdict>>

-----------------------------------------------------------------------------
(* The gate.                                                               *)

\* isEnforced, with the value of enforceDoctrine in .octowiz/config.json.
IsEnforced(s, configured) ==
  Env[s] = "on" \/ (Env[s] = "unset" /\ configured)

\* Mutant: the identity of the start is forgotten once there is a state.
LeaseMutant(s) == runtime[RepositoryId][s]

\* The lease is looked for under the state's identity, then under the
\* directory's.
Lease(s) ==
  IF stateFile.exists /\ runtime[stateFile.id][s] # NoLease
  THEN runtime[stateFile.id][s] ELSE runtime["local"][s]

Second(t) == (t + Offset) \div Unit

\* Mutant: commits made before the session began count too.
ActivityMutant(since) == commits

\* commitActivitySince: the commits of the reflog, whoever made them, from
\* the second on in which the lease began.
Activity(since) == {c \in commits : Second(c.at) >= Second(since)}

\* The update is compared with the second of the last commit.
UpdatedAfter(done, since) ==
  /\ stateFile.exists
  /\ \A c \in done : stateFile.at + Offset >= Second(c.at) * Unit

\* decide of enforce-gate.js, and decideStopGate.
Blocks(s) ==
  /\ stateFile.exists => stateFile.readable
  /\ Lease(s) # NoLease
  /\ LET done == Activity(Lease(s))
     IN  done # {} /\ ~UpdatedAfter(done, Lease(s))

\* Stop.  A session that was blocked a moment ago says so in its input
\* (stop_hook_active), and the gate yields.  The configuration may have any
\* value by now: `octowiz enforce` is there for every process.
Stop(s) ==
  /\ s \in alive /\ hook[s] = NoHook
  /\ verdict[s] \in {"none", "blocked"}
  /\ \E configured \in BOOLEAN :
       verdict' = [verdict EXCEPT ![s] =
         CASE ~IsEnforced(s, configured) -> "off"
           [] /\ IsEnforced(s, configured)
              /\ verdict[s] = "none" /\ Blocks(s) -> "blocked"
           [] OTHER -> "passed"]
  /\ UNCHANGED <<world, runtime, hook, missed>>

-----------------------------------------------------------------------------
(* What the sessions, people and the state commands do meanwhile.          *)

\* The next prompt.
Prompt(s) ==
  /\ s \in alive /\ verdict[s] \in {"passed", "off"}
  /\ verdict' = [verdict EXCEPT ![s] = "none"]
  /\ UNCHANGED <<world, runtime, hook, missed>>

Commit(s) ==
  /\ s \in alive /\ hook[s] = NoHook
  /\ Cardinality(commits) < MaxCommits
  /\ commits' = commits \union
       {[by |-> s, at |-> now, nr |-> Cardinality(commits) + 1]}
  /\ UNCHANGED <<now, stateFile, runtime, hook, alive, began, verdict, starts,
                 missed>>

Others ==
  UNCHANGED <<runtime, hook, alive, began, commits, verdict, starts, missed>>

StateInit ==
  /\ ~stateFile.exists
  /\ stateFile' = [exists |-> TRUE, readable |-> TRUE, id |-> Derived,
                   at |-> now]
  /\ UNCHANGED now /\ Others

StateUpdate ==
  /\ stateFile.exists /\ stateFile.readable
  /\ stateFile' = [stateFile EXCEPT !.at = now]
  /\ UNCHANGED now /\ Others

\* The file cannot be parsed or is not valid, as in a merge, or can again.
StateBreaks ==
  /\ stateFile.exists
  /\ Mishap \/ ~stateFile.readable
  /\ stateFile' = [stateFile EXCEPT !.readable = ~@]
  /\ UNCHANGED now /\ Others

Tick ==
  /\ now < MaxTime
  /\ now' = now + 1
  /\ UNCHANGED stateFile /\ Others

GateNext ==
  \/ Tick
  \/ StateInit
  \/ StateUpdate
  \/ StateBreaks
  \/ \E s \in Sessions :
       \/ Start(s)
       \/ End(s)
       \/ Write(s)
       \/ HookDies(s)
       \/ Stop(s)
       \/ Prompt(s)
       \/ Commit(s)

GateSpec == GateInit /\ [][GateNext]_gateVars

-----------------------------------------------------------------------------
(* Properties.                                                             *)

\* The commits a session made that no later state update accounts for.
Unaccounted(s) ==
  {c \in commits : /\ c.by = s /\ c.at >= began[s]
                   /\ stateFile.exists => c.at > stateFile.at}

Passes(s) == verdict[s] = "none" /\ verdict'[s] = "passed"

\* In enforced mode a session that leaves commits unaccounted for gets past
\* the gate at its first try only for one of these reasons: a hook failed
\* or lost a lease, the state cannot be read, the last update came in the
\* second of the commit, or the session was registered anew, and so later,
\* because the repository has another identity now.
PassesHaveACause ==
  [][\A s \in Sessions :
       Passes(s) /\ Unaccounted(s) # {} =>
         \/ missed
         \/ ~stateFile.readable
         \/ /\ stateFile.exists
            /\ \E c \in Unaccounted(s) :
                 Second(c.at) = Second(stateFile.at)
         \/ Lease(s) > began[s]]_gateVars

\* The gate blocks only over a commit that no later update accounts for,
\* made since the session started, to the second, or since the lease that
\* an earlier session of that id left behind.
BlocksAreDeserved ==
  [][\A s \in Sessions :
       verdict[s] # "blocked" /\ verdict'[s] = "blocked" =>
         \E c \in commits :
           /\ stateFile.exists => c.at > stateFile.at
           /\ Second(c.at) >= Second(began[s]) \/ Lease(s) < began[s]]_gateVars

\* A session that has ended leaves no lease in the repository's present
\* runtime file, unless a hook failed or overlapped with another.
EndedSessionsHoldNoLease ==
  \A s \in Sessions :
    s \notin alive /\ hook[s] = NoHook
      => missed \/ runtime[RepositoryId][s] = NoLease

\* The same as PassesHaveACause without its last reason: the gate looks for
\* the lease under the identity of the start too, so that an identity the
\* repository gets later does not let commits bypass it.
IdentityKeepsGate ==
  [][\A s \in Sessions :
       Passes(s) /\ Unaccounted(s) # {} =>
         \/ missed
         \/ ~stateFile.readable
         \/ /\ stateFile.exists
            /\ \E c \in Unaccounted(s) :
                 Second(c.at) = Second(stateFile.at)]_gateVars
=============================================================================
