-------------------------- MODULE LocalSupervisor --------------------------
(***************************************************************************)
(* The ephemeral supervisor of hooks/scripts/local-supervisor.js and the   *)
(* session hooks of hooks/scripts/local.js that keep it alive: sessions    *)
(* take a lease when they start and give it back when they end, a sweep    *)
(* drops the leases of sessions that never came back, and an idle timer    *)
(* ends the process once nobody holds one.                                 *)
(*                                                                         *)
(* Hooks of several sessions may spawn supervisors at the same time.  Each *)
(* looks at the port of the A2A agent first, where it finds one or starts  *)
(* one as its child, and takes its own port after that; the process that   *)
(* finds it taken goes, and its child with it.                             *)
(*                                                                         *)
(* Time passes in ticks.  A timer that is due fires before the next tick,  *)
(* and the other requests of the same tick come in any order around it.    *)
(***************************************************************************)
EXTENDS Naturals

CONSTANTS
  Sessions,        \* the editor sessions of this machine
  Supervisors,     \* supervisor processes (bound: those alive at once)
  Versions,        \* plugin versions
  NoVersion,
  Plugins,         \* the version of each session's plugin, as it may be
  IdleTimeout,     \* OCTOWIZ_IDLE_TIMEOUT_MS
  LeaseTtl,        \* OCTOWIZ_LEASE_TTL_MS
  SweepInterval    \* Math.min(leaseTtlMs, 60000)

ASSUME TimesAssumption ==
  /\ IdleTimeout \in Nat \ {0}
  /\ LeaseTtl \in Nat \ {0}
  /\ SweepInterval \in 1 .. LeaseTtl
ASSUME ProcessAssumption ==
  /\ NoVersion \notin Versions
  /\ \A f \in Plugins : f \in [Sessions -> Versions]

\* Longer than any lease should get, so that one that does is seen.
Ages == 0 .. LeaseTtl + SweepInterval + 1
NoLease == LeaseTtl + SweepInterval + 2
Older(age) == IF age \in Ages /\ age + 1 \in Ages THEN age + 1 ELSE age

Off == IdleTimeout + 1

VARIABLES
  plugin,       \* the plugin version of each session
  process,      \* where each supervisor process is
  version,      \* the plugin version it was started with
  a2aState,     \* what it made of the A2A port
  pythonChild,  \* its A2A agent
  signalled,    \* has the listening supervisor been sent SIGTERM
  leases,       \* the sessions map: the age of each session's lease
  idleTimer,    \* ticks until the idle exit, Off when it is not armed
  leaseSweep,   \* ticks until the next sweep
  hook,         \* what each session's hook is doing
  \* history, read by the properties alone
  sinceLease,   \* ticks since the session last got a lease of this process
  sinceHeld,    \* ticks since the supervisor last held any lease, capped
  twins         \* two supervisors found the A2A port free before either's
                \* agent had taken it

timers == <<idleTimer, leaseSweep>>
history == <<sinceLease, sinceHeld>>
agents == <<version, a2aState, pythonChild, twins>>
processes == <<process, agents, signalled>>
vars == <<plugin, processes, leases, timers, hook, history>>

Listening(p) == process[p] = "up"
running == \E p \in Supervisors : Listening(p)

Held(m) == {s \in Sessions : m[s] \in Ages}

NoLeases == [s \in Sessions |-> NoLease]

-----------------------------------------------------------------------------
(* The supervisor.                                                         *)

\* Clears the timer, and arms it again unless somebody holds a lease.
ScheduleIdleExit(remaining) ==
  idleTimer' = IF Held(remaining) # {} THEN Off ELSE IdleTimeout

\* What Listen makes of the leases: the sessions map is empty, both timers
\* start.
Boot ==
  /\ leases' = NoLeases
  /\ ScheduleIdleExit(NoLeases)
  /\ leaseSweep' = SweepInterval
  /\ sinceLease' = NoLeases
  /\ sinceHeld' = 0

\* Mutant: the pending idle exit is not cancelled.
AddLeaseMutant(s) ==
  /\ leases' = [leases EXCEPT ![s] = 0]
  /\ sinceLease' = [sinceLease EXCEPT ![s] = 0]
  /\ sinceHeld' = 0
  /\ UNCHANGED <<processes, timers>>

AddLease(s) ==
  /\ leases' = [leases EXCEPT ![s] = 0]
  /\ idleTimer' = Off
  /\ sinceLease' = [sinceLease EXCEPT ![s] = 0]
  /\ sinceHeld' = 0
  /\ UNCHANGED <<processes, leaseSweep>>

ReleaseLease(s) ==
  /\ leases' = [leases EXCEPT ![s] = NoLease]
  /\ ScheduleIdleExit(leases')
  /\ sinceLease' = [sinceLease EXCEPT ![s] = NoLease]
  /\ UNCHANGED <<processes, leaseSweep, sinceHeld>>

\* Mutant: an expired lease lives on for another time to live.
ExpiredMutant(s) == leases[s] \in Ages /\ leases[s] > LeaseTtl + LeaseTtl

Expired(s) == leases[s] \in Ages /\ leases[s] > LeaseTtl

SweepExpiredLeases ==
  /\ running
  /\ leaseSweep = 0
  /\ leases' = [s \in Sessions |-> IF Expired(s) THEN NoLease ELSE leases[s]]
  /\ ScheduleIdleExit(leases')
  /\ leaseSweep' = SweepInterval
  /\ UNCHANGED <<plugin, processes, hook, history>>

\* Mutant: the child is left to itself.
ShutdownMutant(p) ==
  /\ process' = [process EXCEPT ![p] = "none"]
  /\ a2aState' = [a2aState EXCEPT ![p] = "unknown"]
  /\ UNCHANGED <<plugin, version, pythonChild, twins, hook>>

\* shutdown: the child is sent SIGTERM, which an agent that serves acts on
\* in its own time.  (The pid file, which nobody reads, is left out.)
Shutdown(p) ==
  /\ process' = [process EXCEPT ![p] = "none"]
  /\ pythonChild' = [pythonChild EXCEPT ![p] =
                       IF @ = "serving" THEN "stopping" ELSE "none"]
  /\ version' = [version EXCEPT ![p] =
                   IF pythonChild[p] = "serving" THEN @ ELSE NoVersion]
  /\ a2aState' = [a2aState EXCEPT ![p] = "unknown"]
  /\ UNCHANGED <<plugin, twins, hook>>

\* The listening supervisor ends, for one of two reasons: the idle timer
\* fires, which does not look at the sessions again, or SIGTERM arrives.
Exit(p) ==
  /\ Listening(p)
  /\ idleTimer = 0 \/ signalled
  /\ Shutdown(p)
  /\ signalled' = FALSE
  /\ leases' = NoLeases
  /\ idleTimer' = Off
  /\ leaseSweep' = SweepInterval
  /\ sinceLease' = NoLeases
  /\ UNCHANGED sinceHeld

-----------------------------------------------------------------------------
(* How a supervisor starts.                                                *)

\* Agents that have the A2A port; one that stops has it until it is done.
Bound == {p \in Supervisors : pythonChild[p] \in {"serving", "stopping"}}

\* Mutant: the port is not looked at.
ProbePortMutant(p) ==
  /\ process[p] = "probing"
  /\ process' = [process EXCEPT ![p] = "binding"]
  /\ pythonChild' = [pythonChild EXCEPT ![p] = "starting"]
  /\ a2aState' = [a2aState EXCEPT ![p] = "started"]
  /\ twins' = (twins \/ \E q \in Supervisors : pythonChild[q] = "starting")
  /\ UNCHANGED <<plugin, version, signalled, leases, timers, hook, history>>

\* isPortOpen, and the spawn of the agent when it is not: between the two
\* nothing else of this process runs, but an agent takes a while to bind.
ProbePort(p) ==
  /\ process[p] = "probing"
  /\ IF Bound # {}
     THEN /\ process' = [process EXCEPT ![p] = "asking"]
          /\ UNCHANGED <<pythonChild, a2aState, twins>>
     ELSE /\ process' = [process EXCEPT ![p] = "binding"]
          /\ pythonChild' = [pythonChild EXCEPT ![p] = "starting"]
          /\ a2aState' = [a2aState EXCEPT ![p] = "started"]
          /\ twins' = (twins \/ \E q \in Supervisors :
                                  pythonChild[q] = "starting")
  /\ UNCHANGED <<plugin, version, signalled, leases, timers, hook, history>>

\* classifyExistingA2A: whoever has the port by now is asked for its
\* version.  An agent of another version is stale, and one that does not
\* answer in time, or no more, foreign; both are left alone.
ClassifyExistingA2A(p) ==
  /\ process[p] = "asking"
  /\ process' = [process EXCEPT ![p] = "binding"]
  /\ \/ a2aState' = [a2aState EXCEPT ![p] = "unusable"]
     \/ /\ \E q \in Bound : version[q] = version[p]
        /\ a2aState' = [a2aState EXCEPT ![p] = "reused-current"]
  /\ UNCHANGED <<plugin, version, pythonChild, signalled, twins,
                 leases, timers, hook, history>>

\* The daemon is on from here, unless the agent is of no use.
Forwards(p) == a2aState[p] \in {"started", "reused-current"}

Listen(p) ==
  /\ process[p] = "binding" /\ ~running
  /\ process' = [process EXCEPT ![p] = "up"]
  /\ Boot
  /\ UNCHANGED <<plugin, agents, signalled, hook>>

\* EADDRINUSE.
ListenFails(p) ==
  /\ process[p] = "binding" /\ running
  /\ Shutdown(p)
  /\ UNCHANGED <<signalled, leases, timers, history>>

\* The agent comes up, or finds the port taken and exits, of which the
\* supervisor makes a note in its log.
AgentBinds(p) ==
  /\ pythonChild[p] = "starting"
  /\ pythonChild' = [pythonChild EXCEPT ![p] =
                       IF Bound = {} THEN "serving" ELSE "none"]
  /\ UNCHANGED <<plugin, process, version, a2aState, twins, signalled,
                 leases, timers, hook, history>>

AgentStops(p) ==
  /\ pythonChild[p] = "stopping"
  /\ pythonChild' = [pythonChild EXCEPT ![p] = "none"]
  /\ version' = [version EXCEPT ![p] = NoVersion]
  /\ UNCHANGED <<plugin, process, a2aState, twins, signalled,
                 leases, timers, hook, history>>

-----------------------------------------------------------------------------
(* The sessions.  Health and lease are two requests: the supervisor may    *)
(* exit or be another one between them, and a session may run on without a *)
(* lease.                                                                  *)

Healthy(s) == \E p \in Supervisors : Listening(p) /\ version[p] = plugin[s]

\* Bound: a new process takes the name of one that is gone with its agent.
Free == {p \in Supervisors : process[p] = "none" /\ pythonChild[p] = "none"}

\* SessionStart, also of a session that is resumed, cleared or compacted:
\* a supervisor of another version is told to stop, without a look at its
\* leases, and a new one is spawned, which may take its time to start.
EnsureSupervisor(s) ==
  /\ hook[s] \in {"gone", "open"}
  /\ \/ /\ Healthy(s)
        /\ hook' = [hook EXCEPT ![s] = "leasing"]
        /\ UNCHANGED processes
     \/ /\ ~Healthy(s)
        /\ hook' = [hook EXCEPT ![s] = "waiting"]
        /\ signalled' = running
        /\ \E p \in Free :
             /\ process' = [process EXCEPT ![p] = "probing"]
             /\ version' = [version EXCEPT ![p] = plugin[s]]
        /\ UNCHANGED <<a2aState, pythonChild, twins>>
  /\ UNCHANGED <<plugin, leases, timers, history>>

\* Twenty looks at the health, and then the session goes on without.
AwaitSupervisor(s) ==
  /\ hook[s] = "waiting"
  /\ \/ Healthy(s) /\ hook' = [hook EXCEPT ![s] = "leasing"]
     \/ hook' = [hook EXCEPT ![s] = "open"]
  /\ UNCHANGED <<plugin, processes, leases, timers, history>>

\* Whoever listens now gets the request.
RequestLease(s) ==
  /\ hook[s] = "leasing"
  /\ hook' = [hook EXCEPT ![s] = "open"]
  /\ IF running THEN AddLease(s)
     ELSE UNCHANGED <<processes, leases, timers, history>>
  /\ UNCHANGED plugin

\* SessionEnd; without a supervisor there is nothing to release.
EndSession(s) ==
  /\ hook[s] = "open"
  /\ hook' = [hook EXCEPT ![s] = "gone"]
  /\ IF running THEN ReleaseLease(s)
     ELSE UNCHANGED <<processes, leases, timers, history>>
  /\ UNCHANGED plugin

\* The editor is killed, or its hook times out: SessionEnd never runs.
Vanish(s) ==
  /\ hook[s] # "gone"
  /\ hook' = [hook EXCEPT ![s] = "gone"]
  /\ UNCHANGED <<plugin, processes, leases, timers, history>>

-----------------------------------------------------------------------------
Tick ==
  /\ running
  /\ idleTimer # 0
  /\ leaseSweep # 0
  /\ idleTimer' = IF idleTimer = Off THEN Off ELSE idleTimer - 1
  /\ leaseSweep' = leaseSweep - 1
  /\ leases' = [s \in Sessions |-> Older(leases[s])]
  /\ sinceLease' = [s \in Sessions |-> IF sinceLease[s] <= LeaseTtl
                                       THEN sinceLease[s] + 1
                                       ELSE sinceLease[s]]
  /\ sinceHeld' = IF Held(leases) # {} THEN 0
                  ELSE IF sinceHeld < IdleTimeout THEN sinceHeld + 1
                  ELSE sinceHeld
  /\ UNCHANGED <<plugin, processes, hook>>

Init ==
  /\ plugin \in Plugins
  /\ process = [p \in Supervisors |-> "none"]
  /\ version = [p \in Supervisors |-> NoVersion]
  /\ a2aState = [p \in Supervisors |-> "unknown"]
  /\ pythonChild = [p \in Supervisors |-> "none"]
  /\ signalled = FALSE
  /\ twins = FALSE
  /\ leases = NoLeases
  /\ idleTimer = Off
  /\ leaseSweep = SweepInterval
  /\ hook = [s \in Sessions |-> "gone"]
  /\ sinceLease = NoLeases
  /\ sinceHeld = 0

\* The code of one supervisor process.
Runs(p) ==
  \/ ProbePort(p)
  \/ ClassifyExistingA2A(p)
  \/ Listen(p)
  \/ ListenFails(p)
  \/ Exit(p)

Next ==
  \/ \E s \in Sessions :
       \/ EnsureSupervisor(s)
       \/ AwaitSupervisor(s)
       \/ RequestLease(s)
       \/ EndSession(s)
       \/ Vanish(s)
  \/ \E p \in Supervisors : Runs(p) \/ AgentBinds(p) \/ AgentStops(p)
  \/ SweepExpiredLeases
  \/ Tick

Spec == Init /\ [][Next]_vars

\* Time passes, the event loops run what is due, and an agent that is told
\* to stop does; sessions come and go as they please.
FairSpec ==
  /\ Spec
  /\ WF_vars(Tick)
  /\ WF_vars(SweepExpiredLeases)
  /\ \A p \in Supervisors : WF_vars(Runs(p)) /\ WF_vars(AgentStops(p))

-----------------------------------------------------------------------------
(* Properties.                                                             *)

TypeOK ==
  /\ plugin \in Plugins
  /\ process \in [Supervisors ->
                    {"none", "probing", "asking", "binding", "up"}]
  /\ version \in [Supervisors -> Versions \cup {NoVersion}]
  /\ a2aState \in [Supervisors -> {"unknown", "started", "reused-current",
                                   "unusable"}]
  /\ pythonChild \in [Supervisors -> {"none", "starting", "serving",
                                      "stopping"}]
  /\ signalled \in BOOLEAN
  /\ twins \in BOOLEAN
  /\ leases \in [Sessions -> Ages \cup {NoLease}]
  /\ idleTimer \in 0 .. Off
  /\ leaseSweep \in 0 .. SweepInterval
  /\ hook \in [Sessions -> {"gone", "waiting", "leasing", "open"}]
  /\ sinceLease \in [Sessions -> Ages \cup {NoLease}]
  /\ sinceHeld \in 0 .. IdleTimeout

\* "Expires stale session leases" (README.md:140): the lease of a session
\* that never released it is gone one sweep after its time to live at the
\* latest, whatever other sessions do in the meantime.
StaleLeasesExpire ==
  \A s \in Sessions :
    leases[s] \in Ages => leases[s] <= LeaseTtl + SweepInterval

\* The idle timer fires without another look at the sessions (shutdown), so
\* every path that arms or cancels it has to get it right: unless a session
\* of another version told it to stop, the supervisor exits only after a
\* whole idle timeout without any lease, and under no session whose last
\* lease is younger than the time to live.
ExitIsJustified ==
  [][running /\ ~running' =>
       \/ signalled
       \/ /\ sinceHeld >= IdleTimeout
          /\ \A s \in Sessions :
               hook[s] # "gone" /\ sinceLease[s] \in Ages =>
                 sinceLease[s] > LeaseTtl]_vars

\* A supervisor that listens and whose daemon forwards tasks has its own
\* agent serving, or starting while no other one is in its place, except in
\* two cases: two supervisors started theirs at once, or it took over the
\* agent of another one, which goes with its owner (startPythonA2A).
ForwardsToItsAgent ==
  \A p \in Supervisors :
    Listening(p) /\ Forwards(p) =>
      \/ pythonChild[p] = "serving"
      \/ pythonChild[p] = "starting" /\ Bound = {}
      \/ twins
      \/ a2aState[p] = "reused-current"

\* "Exits after an idle grace period" (README.md:141): once the last session
\* is gone for good, released or not, so are the supervisors, those that
\* lost the port included, and their agents.
EmptySupervisorExits ==
  <>[](\A s \in Sessions : hook[s] = "gone")
    => <>[](\A p \in Supervisors :
              process[p] = "none" /\ pythonChild[p] = "none")
=============================================================================
