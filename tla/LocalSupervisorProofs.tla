----------------------- MODULE LocalSupervisorProofs -----------------------
(***************************************************************************)
(* For any number of sessions and of supervisor processes and every choice *)
(* of the three intervals: the variables stay in their types, a lease that *)
(* is not released goes in time, the supervisor exits only when it may,    *)
(* and what it forwards tasks to is its agent.  That it does exit depends  *)
(* on the intervals and is left to TLC.                                    *)
(***************************************************************************)
EXTENDS LocalSupervisor, TLAPS

USE DEF history, timers, agents, processes

\* What one tick makes of an age.
LEMMA OlderAge ==
  ASSUME NEW a \in Ages \cup {NoLease}
  PROVE  /\ Older(a) \in Ages \cup {NoLease}
         /\ a = NoLease => Older(a) = NoLease
         /\ a \in Ages => /\ Older(a) \in Ages
                          /\ Older(a) >= a
                          /\ Older(a) <= a + 1
BY TimesAssumption DEF Ages, NoLease, Older

\* NoLease is not an age, and Off is not a time the idle timer waits.
LEMMA Markers == /\ NoLease \notin Ages
                 /\ 0 \in Ages
                 /\ IdleTimeout \in 0 .. Off /\ IdleTimeout # Off /\ Off # 0
                 /\ Held(NoLeases) = {}
                 /\ NoLeases \in [Sessions -> Ages \cup {NoLease}]
BY TimesAssumption DEF Ages, NoLease, Off, Held, NoLeases

\* A map of leases has no holders just when every session has no lease.
LEMMA NoHolders ==
  ASSUME NEW m \in [Sessions -> Ages \cup {NoLease}]
  PROVE  Held(m) = {} <=> \A s \in Sessions : m[s] = NoLease
BY Markers DEF Held

\* The types of what the processes are doing.
ProcessTypes ==
  /\ plugin \in Plugins
  /\ process \in [Supervisors ->
                    {"none", "probing", "asking", "binding", "up"}]
  /\ version \in [Supervisors -> Versions \cup {NoVersion}]
  /\ a2aState \in [Supervisors -> {"unknown", "started", "reused-current",
                                   "unusable"}]
  /\ pythonChild \in [Supervisors -> {"none", "starting", "serving",
                                      "stopping"}]
  /\ signalled \in BOOLEAN
  /\ twins \in BOOLEAN
  /\ hook \in [Sessions -> {"gone", "waiting", "leasing", "open"}]

\* The types of what the timers and the leases count.
LeaseTypes ==
  /\ leases \in [Sessions -> Ages \cup {NoLease}]
  /\ idleTimer \in 0 .. Off
  /\ leaseSweep \in 0 .. SweepInterval
  /\ sinceLease \in [Sessions -> Ages \cup {NoLease}]
  /\ sinceHeld \in 0 .. IdleTimeout

LEMMA BothTypes == TypeOK <=> ProcessTypes /\ LeaseTypes
BY DEF TypeOK, ProcessTypes, LeaseTypes

\* Processes stay in their types: every step assigns to one of them.
LEMMA ProcessesTyped ==
  ASSUME ProcessTypes, [Next]_vars
  PROVE  ProcessTypes'
<1> USE DEF ProcessTypes
<1>1. ASSUME NEW s \in Sessions, EnsureSupervisor(s) PROVE ProcessTypes'
  <2>1. plugin[s] \in Versions
    BY ProcessAssumption
  <2>2. running \in BOOLEAN
    BY DEF running
  <2>3. hook' \in [Sessions -> {"gone", "waiting", "leasing", "open"}]
    BY <1>1 DEF EnsureSupervisor
  <2>4. /\ process' \in [Supervisors ->
                         {"none", "probing", "asking", "binding", "up"}]
        /\ version' \in [Supervisors -> Versions \cup {NoVersion}]
    BY <1>1, <2>1 DEF EnsureSupervisor, Free
  <2>5. signalled' \in BOOLEAN
    BY <1>1, <2>2 DEF EnsureSupervisor
  <2> QED
    BY <1>1, <2>3, <2>4, <2>5 DEF EnsureSupervisor
<1>2. ASSUME NEW s \in Sessions,
             \/ AwaitSupervisor(s) \/ RequestLease(s)
             \/ EndSession(s) \/ Vanish(s)
      PROVE  ProcessTypes'
  BY <1>2 DEF AwaitSupervisor, RequestLease, AddLease, EndSession,
              ReleaseLease, Vanish
<1>3. ASSUME NEW p \in Supervisors, Runs(p) PROVE ProcessTypes'
  <2>1. CASE ProbePort(p)
    <3>1. twins' \in BOOLEAN
      BY <2>1 DEF ProbePort
    <3> QED
      BY <2>1, <3>1 DEF ProbePort
  <2>2. CASE ClassifyExistingA2A(p)
    BY <2>2 DEF ClassifyExistingA2A
  <2>3. CASE Listen(p)
    BY <2>3 DEF Listen, Boot
  <2>4. ASSUME Shutdown(p), UNCHANGED signalled \/ signalled' = FALSE
        PROVE  ProcessTypes'
    BY <2>4 DEF Shutdown
  <2> QED
    BY <1>3, <2>1, <2>2, <2>3, <2>4 DEF Runs, ListenFails, Exit
<1>4. ASSUME NEW p \in Supervisors, AgentBinds(p) \/ AgentStops(p)
      PROVE  ProcessTypes'
  BY <1>4 DEF AgentBinds, AgentStops
<1>5. CASE SweepExpiredLeases \/ Tick \/ UNCHANGED vars
  BY <1>5 DEF SweepExpiredLeases, Tick, vars
<1> QED
  BY <1>1, <1>2, <1>3, <1>4, <1>5 DEF Next

\* Only these steps touch leases and timers.
LEMMA LeaseSteps ==
  ASSUME [Next]_vars
  PROVE  \/ UNCHANGED <<leases, timers, history>>
         \/ Boot
         \/ \E s \in Sessions : AddLease(s) \/ ReleaseLease(s)
         \/ \E p \in Supervisors : Exit(p)
         \/ SweepExpiredLeases
         \/ Tick
<1>1. CASE \E s \in Sessions : \/ EnsureSupervisor(s) \/ AwaitSupervisor(s)
                              \/ Vanish(s)
  BY <1>1 DEF EnsureSupervisor, AwaitSupervisor, Vanish
<1>2. CASE \E s \in Sessions : RequestLease(s) \/ EndSession(s)
  BY <1>2 DEF RequestLease, EndSession
<1>3. ASSUME NEW p \in Supervisors,
             ProbePort(p) \/ ClassifyExistingA2A(p) \/ ListenFails(p)
             \/ AgentBinds(p) \/ AgentStops(p)
      PROVE  UNCHANGED <<leases, timers, history>>
  BY <1>3 DEF ProbePort, ClassifyExistingA2A, ListenFails, AgentBinds,
              AgentStops
<1>4. ASSUME NEW p \in Supervisors, Listen(p) PROVE Boot
  BY <1>4 DEF Listen
<1>5. CASE UNCHANGED vars
  BY <1>5 DEF vars
<1> QED
  BY <1>1, <1>2, <1>3, <1>4, <1>5 DEF Next, Runs

\* Leases and timers stay in their types.
LEMMA LeasesTyped ==
  ASSUME LeaseTypes, [Next]_vars
  PROVE  LeaseTypes'
<1> USE DEF LeaseTypes
<1>a. SweepInterval \in 0 .. SweepInterval /\ 0 \in 0 .. IdleTimeout
  BY TimesAssumption
<1>b. Off \in 0 .. Off
  BY TimesAssumption DEF Off
<1>c. ASSUME NEW m, ScheduleIdleExit(m) PROVE idleTimer' \in 0 .. Off
  BY <1>b, <1>c, Markers DEF ScheduleIdleExit
<1>1. CASE UNCHANGED <<leases, timers, history>>
  BY <1>1
<1>2. CASE Boot
  BY <1>2, <1>a, <1>c, Markers DEF Boot
<1>3. ASSUME NEW s \in Sessions, AddLease(s) PROVE LeaseTypes'
  BY <1>3, <1>a, <1>b, Markers DEF AddLease
<1>4. ASSUME NEW s \in Sessions, ReleaseLease(s) PROVE LeaseTypes'
  BY <1>4, <1>c DEF ReleaseLease
<1>5. CASE SweepExpiredLeases
  BY <1>5, <1>a, <1>c DEF SweepExpiredLeases
<1>6. ASSUME NEW p \in Supervisors, Exit(p) PROVE LeaseTypes'
  BY <1>6, <1>a, <1>b, Markers DEF Exit
<1>7. CASE Tick
  <2>1. leases' \in [Sessions -> Ages \cup {NoLease}]
    BY <1>7, OlderAge DEF Tick
  <2>2. sinceLease' \in [Sessions -> Ages \cup {NoLease}]
    BY <1>7, TimesAssumption DEF Tick, Ages, NoLease
  <2>3. /\ idleTimer' \in 0 .. Off
        /\ leaseSweep' \in 0 .. SweepInterval
        /\ sinceHeld' \in 0 .. IdleTimeout
    BY <1>7, TimesAssumption DEF Tick, Off
  <2> QED
    BY <2>1, <2>2, <2>3
<1> QED
  BY <1>1, <1>2, <1>3, <1>4, <1>5, <1>6, <1>7, LeaseSteps

\* The type of every variable is kept by processes, hooks, timers and ticks.
THEOREM TypeCorrect == Spec => []TypeOK
<1>1. Init => TypeOK
  <2> SUFFICES ASSUME Init PROVE TypeOK
    OBVIOUS
  <2>1. /\ leases \in [Sessions -> Ages \cup {NoLease}]
        /\ sinceLease \in [Sessions -> Ages \cup {NoLease}]
    BY Markers DEF Init
  <2>2. /\ idleTimer \in 0 .. Off
        /\ leaseSweep \in 0 .. SweepInterval
        /\ sinceHeld \in 0 .. IdleTimeout
    BY TimesAssumption DEF Init, Off
  <2>3. ProcessTypes
    BY DEF Init, ProcessTypes
  <2> QED
    BY <2>1, <2>2, <2>3, BothTypes DEF LeaseTypes
<1>2. TypeOK /\ [Next]_vars => TypeOK'
  <2> SUFFICES ASSUME TypeOK, [Next]_vars PROVE TypeOK'
    OBVIOUS
  <2>1. ProcessTypes' /\ LeaseTypes'
    BY BothTypes, ProcessesTyped, LeasesTyped
  <2> QED
    BY <2>1 DEF ProcessTypes, LeaseTypes, TypeOK
<1> QED
  BY <1>1, <1>2, PTL DEF Spec

-----------------------------------------------------------------------------
(* StaleLeasesExpire is not inductive: a lease may be old only if the next *)
(* sweep is near.                                                          *)

SweepIsNear ==
  \A s \in Sessions :
    leases[s] \in Ages => leases[s] + leaseSweep <= LeaseTtl + SweepInterval

\* A lease nobody releases is gone one sweep after its time to live, for
\* any number of sessions that come and go meanwhile.
THEOREM LeasesExpire == Spec => []StaleLeasesExpire
<1>1. Init => SweepIsNear
  BY Markers DEF Init, SweepIsNear, NoLeases
<1>2. TypeOK /\ SweepIsNear /\ [Next]_vars => SweepIsNear'
  <2> SUFFICES ASSUME TypeOK, SweepIsNear, [Next]_vars,
                      NEW s \in Sessions, leases'[s] \in Ages
               PROVE  leases'[s] + leaseSweep' <= LeaseTtl + SweepInterval
    BY DEF SweepIsNear
  <2> USE TimesAssumption, Markers DEF TypeOK
  <2>1. CASE leases'[s] = 0 /\ leaseSweep' \in 0 .. SweepInterval
    BY <2>1
  <2>2. CASE leases'[s] = leases[s] /\ leaseSweep' = leaseSweep
    BY <2>2 DEF SweepIsNear
  <2>3. CASE Boot
    BY <2>3 DEF Boot, NoLeases
  <2>4. ASSUME NEW t \in Sessions, AddLease(t)
        PROVE  /\ leases'[s] = 0 \/ leases'[s] = leases[s]
               /\ leaseSweep' = leaseSweep
    BY <2>4 DEF AddLease
  <2>5. ASSUME NEW t \in Sessions, ReleaseLease(t)
        PROVE  leases'[s] = leases[s] /\ leaseSweep' = leaseSweep
    BY <2>5 DEF ReleaseLease
  <2>6. CASE UNCHANGED <<leases, timers, history>>
    BY <2>2, <2>6
  <2>7. CASE SweepExpiredLeases
    <3>1. leases'[s] = leases[s] /\ ~Expired(s)
      BY <2>7 DEF SweepExpiredLeases
    <3>2. leases'[s] <= LeaseTtl /\ leaseSweep' = SweepInterval
      BY <2>7, <3>1 DEF Expired, SweepExpiredLeases, Ages
    <3> QED
      BY <3>1, <3>2 DEF Ages
  <2>8. ASSUME NEW p \in Supervisors, Exit(p) PROVE FALSE
    BY <2>8 DEF Exit, NoLeases
  <2>9. CASE Tick
    <3>1. leases'[s] = Older(leases[s]) /\ leaseSweep' = leaseSweep - 1
      BY <2>9 DEF Tick
    <3>2. leases[s] \in Ages
      BY <3>1, OlderAge
    <3>3. Older(leases[s]) <= leases[s] + 1
      BY <3>2, OlderAge
    <3>4. leases[s] + leaseSweep <= LeaseTtl + SweepInterval
      BY <3>2 DEF SweepIsNear
    <3> QED
      BY <3>1, <3>2, <3>3, <3>4 DEF Ages
  <2>10. \A t \in Sessions : AddLease(t) => leaseSweep' \in 0 .. SweepInterval
    BY <2>4
  <2> QED
    BY <2>1, <2>2, <2>3, <2>4, <2>5, <2>6, <2>7, <2>8, <2>9, <2>10, LeaseSteps
<1>3. TypeOK /\ SweepIsNear => StaleLeasesExpire
  BY TimesAssumption DEF TypeOK, SweepIsNear, StaleLeasesExpire, Ages
<1> QED
  BY <1>1, <1>2, <1>3, TypeCorrect, PTL DEF Spec

-----------------------------------------------------------------------------
(* Why the idle timer may exit without looking: while it is armed nobody   *)
(* holds a lease and none was held since; and a session without a lease    *)
(* gave it back or outlived its time to live.                              *)

TimerIsHonest ==
  idleTimer # Off => /\ \A s \in Sessions : leases[s] = NoLease
                     /\ sinceHeld + idleTimer >= IdleTimeout

LossIsOfAge ==
  \A s \in Sessions :
    /\ leases[s] \in Ages =>
         /\ sinceLease[s] \in Ages
         /\ sinceLease[s] = leases[s] \/ sinceLease[s] > LeaseTtl
    /\ leases[s] = NoLease /\ sinceLease[s] \in Ages =>
         sinceLease[s] > LeaseTtl

ExitInv == TimerIsHonest /\ LossIsOfAge

\* Arming the timer anew keeps it honest.
LEMMA ArmedHonestly ==
  ASSUME TypeOK', ScheduleIdleExit(leases')
  PROVE  TimerIsHonest'
<1>1. Held(leases') = {} <=> \A s \in Sessions : leases'[s] = NoLease
  BY NoHolders DEF TypeOK
<1>2. idleTimer' # Off => Held(leases') = {} /\ idleTimer' = IdleTimeout
  BY DEF ScheduleIdleExit
<1>3. idleTimer' # Off => \A s \in Sessions : leases'[s] = NoLease
  BY <1>1, <1>2
<1>4. sinceHeld' \in 0 .. IdleTimeout
  BY DEF TypeOK
<1>5. \A n \in 0 .. IdleTimeout : n + IdleTimeout >= IdleTimeout
  BY TimesAssumption
<1>6. sinceHeld' + IdleTimeout >= IdleTimeout
  BY <1>4, <1>5, Zenon
<1> QED
  BY <1>2, <1>3, <1>6 DEF TimerIsHonest

\* The invariant behind ExitIsJustified, kept by every step.
LEMMA ExitInvariant == TypeOK /\ TypeOK' /\ ExitInv /\ [Next]_vars => ExitInv'
<1> SUFFICES ASSUME TypeOK, TypeOK', ExitInv, [Next]_vars PROVE ExitInv'
  OBVIOUS
<1> USE Markers DEF ExitInv
<1>1. CASE UNCHANGED <<leases, timers, history>>
  BY <1>1 DEF TimerIsHonest, LossIsOfAge
<1>2. CASE Boot
  <2>1. TimerIsHonest'
    <3>1. ScheduleIdleExit(leases')
      BY <1>2 DEF Boot
    <3> QED
      BY <3>1, ArmedHonestly
  <2>2. LossIsOfAge'
    BY <1>2 DEF Boot, LossIsOfAge, NoLeases
  <2> QED
    BY <2>1, <2>2
<1>3. ASSUME NEW s \in Sessions, AddLease(s) PROVE ExitInv'
  <2>1. TimerIsHonest'
    BY <1>3 DEF AddLease, TimerIsHonest
  <2>2. LossIsOfAge'
    BY <1>3 DEF AddLease, LossIsOfAge, TypeOK
  <2> QED
    BY <2>1, <2>2
<1>4. ASSUME NEW s \in Sessions, ReleaseLease(s) PROVE ExitInv'
  <2>1. TimerIsHonest'
    BY <1>4, ArmedHonestly DEF ReleaseLease
  <2>2. LossIsOfAge'
    BY <1>4 DEF ReleaseLease, LossIsOfAge, TypeOK
  <2> QED
    BY <2>1, <2>2
<1>5. CASE SweepExpiredLeases
  <2>1. TimerIsHonest'
    BY <1>5, ArmedHonestly DEF SweepExpiredLeases
  <2>2. LossIsOfAge'
    BY <1>5 DEF SweepExpiredLeases, LossIsOfAge, TypeOK, Expired
  <2> QED
    BY <2>1, <2>2
<1>6. ASSUME NEW p \in Supervisors, Exit(p) PROVE ExitInv'
  BY <1>6 DEF Exit, TimerIsHonest, LossIsOfAge, NoLeases
<1>7. CASE Tick
  <2>1. TimerIsHonest'
    <3> SUFFICES ASSUME idleTimer' # Off
                 PROVE  /\ \A s \in Sessions : leases'[s] = NoLease
                        /\ sinceHeld' + idleTimer' >= IdleTimeout
      BY DEF TimerIsHonest
    <3>1. idleTimer # Off /\ idleTimer' = idleTimer - 1
      BY <1>7 DEF Tick
    <3>2. \A s \in Sessions : leases[s] = NoLease
      BY <3>1 DEF TimerIsHonest
    <3>3. \A s \in Sessions : leases'[s] = NoLease
      BY <1>7, <3>2, OlderAge DEF Tick
    <3>4. Held(leases) = {}
      BY <3>2, NoHolders DEF TypeOK
    <3>5. sinceHeld' = IF sinceHeld < IdleTimeout THEN sinceHeld + 1
                       ELSE sinceHeld
      BY <1>7, <3>4 DEF Tick
    <3>6. sinceHeld + idleTimer >= IdleTimeout
      BY <3>1 DEF TimerIsHonest
    <3>7. sinceHeld' + idleTimer' >= IdleTimeout
      BY <1>7, <3>1, <3>5, <3>6, TimesAssumption DEF TypeOK, Off, Tick
    <3> QED
      BY <3>3, <3>7
  <2>2. LossIsOfAge'
    <3> SUFFICES ASSUME NEW s \in Sessions
                 PROVE  /\ leases'[s] \in Ages =>
                             /\ sinceLease'[s] \in Ages
                             /\ \/ sinceLease'[s] = leases'[s]
                                \/ sinceLease'[s] > LeaseTtl
                        /\ leases'[s] = NoLease /\ sinceLease'[s] \in Ages
                             => sinceLease'[s] > LeaseTtl
      BY DEF LossIsOfAge
    <3>1. /\ leases'[s] = Older(leases[s])
          /\ sinceLease'[s] = IF sinceLease[s] <= LeaseTtl
                              THEN sinceLease[s] + 1 ELSE sinceLease[s]
      BY <1>7 DEF Tick
    <3>2. /\ leases[s] \in Ages \cup {NoLease}
          /\ sinceLease[s] \in Ages \cup {NoLease}
      BY DEF TypeOK
    <3> QED
      BY <3>1, <3>2, TimesAssumption DEF LossIsOfAge, Older, Ages, NoLease
  <2> QED
    BY <2>1, <2>2
<1> QED
  BY <1>1, <1>2, <1>3, <1>4, <1>5, <1>6, <1>7, LeaseSteps

\* A step of a process that does not listen leaves the one that does.
LEMMA ListenerStays ==
  ASSUME ProcessTypes, [Next]_vars, running, ~running'
  PROVE  \E p \in Supervisors : Exit(p)
<1>1. PICK q \in Supervisors : process[q] = "up"
  BY DEF running, Listening
<1>2. process'[q] # "up"
  BY DEF running, Listening
<1>3. CASE \E s \in Sessions : EnsureSupervisor(s)
  BY <1>1, <1>2, <1>3 DEF EnsureSupervisor, Free, ProcessTypes
<1>4. CASE \E s \in Sessions : \/ AwaitSupervisor(s) \/ RequestLease(s)
                              \/ EndSession(s) \/ Vanish(s)
  BY <1>1, <1>2, <1>4 DEF AwaitSupervisor, RequestLease, AddLease, EndSession,
                          ReleaseLease, Vanish
<1>5. CASE \E p \in Supervisors : \/ ProbePort(p) \/ ClassifyExistingA2A(p)
                                 \/ Listen(p) \/ ListenFails(p)
  BY <1>1, <1>2, <1>5 DEF ProbePort, ClassifyExistingA2A, Listen, ListenFails,
                          Shutdown, ProcessTypes
<1>6. CASE \/ SweepExpiredLeases \/ Tick \/ UNCHANGED vars
           \/ \E p \in Supervisors : AgentBinds(p) \/ AgentStops(p)
  BY <1>1, <1>2, <1>6 DEF SweepExpiredLeases, Tick, vars, AgentBinds,
                          AgentStops
<1> QED
  BY <1>3, <1>4, <1>5, <1>6 DEF Next, Runs

\* Unless it was told to stop, the supervisor exits only after an idle
\* timeout in which nobody held a lease, and under no session whose last
\* lease is younger than its time to live, for every choice of the
\* intervals.
THEOREM ExitsOnlyWhenIdle == Spec => ExitIsJustified
<1>1. Init => ExitInv
  BY Markers DEF Init, ExitInv, TimerIsHonest, LossIsOfAge, NoLeases
<1>2. TypeOK /\ ExitInv /\ [Next]_vars =>
        (running /\ ~running' =>
           \/ signalled
           \/ /\ sinceHeld >= IdleTimeout
              /\ \A s \in Sessions :
                   hook[s] # "gone" /\ sinceLease[s] \in Ages =>
                     sinceLease[s] > LeaseTtl)
  <2> SUFFICES ASSUME TypeOK, ExitInv, [Next]_vars, running, ~running',
                      ~signalled
               PROVE  /\ sinceHeld >= IdleTimeout
                      /\ \A s \in Sessions :
                           hook[s] # "gone" /\ sinceLease[s] \in Ages =>
                             sinceLease[s] > LeaseTtl
    OBVIOUS
  <2>1. PICK p \in Supervisors : Exit(p)
    BY ListenerStays, BothTypes
  <2>2. idleTimer = 0 /\ idleTimer # Off
    BY <2>1, Markers DEF Exit
  <2> QED
    BY <2>2, TimesAssumption DEF ExitInv, TimerIsHonest, LossIsOfAge, TypeOK
<1>3. Spec => [](TypeOK /\ ExitInv)
  BY <1>1, ExitInvariant, TypeCorrect, PTL DEF Spec
<1> QED
  BY <1>2, <1>3, PTL DEF Spec, ExitIsJustified

-----------------------------------------------------------------------------
(* Why a supervisor that started its agent keeps it: as long as no two     *)
(* agents were started side by side, one that starts is the only one.      *)

StartsAlone ==
  \A p \in Supervisors :
    pythonChild[p] = "starting" =>
      twins \/ \A q \in Supervisors \ {p} : pythonChild[q] = "none"

KeepsItsAgent ==
  \A p \in Supervisors :
    process[p] \in {"binding", "up"} /\ a2aState[p] = "started" =>
      twins \/ pythonChild[p] \in {"starting", "serving"}

AgentInv == StartsAlone /\ KeepsItsAgent

\* The agents of a step that changes none, and of processes that keep their
\* place or leave it.
LEMMA AgentsKept ==
  ASSUME AgentInv, UNCHANGED <<a2aState, pythonChild, twins>>,
         \A p \in Supervisors :
           process'[p] \in {"binding", "up"}
             => process[p] \in {"binding", "up"}
  PROVE  AgentInv'
BY DEF AgentInv, StartsAlone, KeepsItsAgent

\* The invariant behind ForwardsToItsAgent, kept by every step.
LEMMA AgentInvariant ==
  ASSUME TypeOK, AgentInv, [Next]_vars
  PROVE  AgentInv'
<1> USE DEF TypeOK
<1>1. ASSUME NEW s \in Sessions, EnsureSupervisor(s) PROVE AgentInv'
  BY <1>1, AgentsKept DEF EnsureSupervisor, Free
<1>2. ASSUME NEW s \in Sessions,
             \/ AwaitSupervisor(s) \/ RequestLease(s)
             \/ EndSession(s) \/ Vanish(s)
      PROVE  AgentInv'
  BY <1>2, AgentsKept DEF AwaitSupervisor, RequestLease, AddLease, EndSession,
                          ReleaseLease, Vanish
<1>3. ASSUME NEW p \in Supervisors, ProbePort(p) PROVE AgentInv'
  <2>1. CASE Bound # {}
    <3>1. AgentInv
      OBVIOUS
    <3> QED
      BY <1>3, <2>1, <3>1, AgentsKept DEF ProbePort
  <2>2. CASE Bound = {}
    <3>1. /\ pythonChild' = [pythonChild EXCEPT ![p] = "starting"]
          /\ a2aState' = [a2aState EXCEPT ![p] = "started"]
          /\ process' = [process EXCEPT ![p] = "binding"]
          /\ twins' = (twins \/ \E q \in Supervisors :
                                  pythonChild[q] = "starting")
      BY <1>3, <2>2 DEF ProbePort
    <3>2. \A q \in Supervisors : pythonChild[q] \in {"none", "starting"}
      BY <2>2 DEF Bound
    <3>3. StartsAlone'
      BY <3>1, <3>2 DEF StartsAlone
    <3>4. KeepsItsAgent'
      BY <3>1 DEF AgentInv, KeepsItsAgent
    <3> QED
      BY <3>3, <3>4 DEF AgentInv
  <2> QED
    BY <2>1, <2>2
<1>4. ASSUME NEW p \in Supervisors, ClassifyExistingA2A(p) PROVE AgentInv'
  <2>1. StartsAlone'
    BY <1>4 DEF ClassifyExistingA2A, AgentInv, StartsAlone
  <2>2. KeepsItsAgent'
    BY <1>4 DEF ClassifyExistingA2A, AgentInv, KeepsItsAgent
  <2> QED
    BY <2>1, <2>2 DEF AgentInv
<1>5. ASSUME NEW p \in Supervisors, Listen(p) PROVE AgentInv'
  BY <1>5, AgentsKept DEF Listen
<1>6. ASSUME NEW p \in Supervisors, Shutdown(p) PROVE AgentInv'
  <2>1. StartsAlone'
    BY <1>6 DEF Shutdown, AgentInv, StartsAlone
  <2>2. KeepsItsAgent'
    BY <1>6 DEF Shutdown, AgentInv, KeepsItsAgent
  <2> QED
    BY <2>1, <2>2 DEF AgentInv
<1>7. ASSUME NEW p \in Supervisors, AgentBinds(p) PROVE AgentInv'
  <2>1. twins \/ Bound = {}
    BY <1>7 DEF AgentBinds, AgentInv, StartsAlone, Bound
  <2>2. StartsAlone'
    BY <1>7 DEF AgentBinds, AgentInv, StartsAlone
  <2>3. KeepsItsAgent'
    BY <1>7, <2>1 DEF AgentBinds, AgentInv, KeepsItsAgent
  <2> QED
    BY <2>2, <2>3 DEF AgentInv
<1>8. ASSUME NEW p \in Supervisors, AgentStops(p) PROVE AgentInv'
  <2>1. StartsAlone'
    BY <1>8 DEF AgentStops, AgentInv, StartsAlone
  <2>2. KeepsItsAgent'
    BY <1>8 DEF AgentStops, AgentInv, KeepsItsAgent
  <2> QED
    BY <2>1, <2>2 DEF AgentInv
<1>9. CASE SweepExpiredLeases \/ Tick \/ UNCHANGED vars
  BY <1>9, AgentsKept DEF SweepExpiredLeases, Tick, vars
<1> QED
  BY <1>1, <1>2, <1>3, <1>4, <1>5, <1>6, <1>7, <1>8, <1>9
  DEF Next, Runs, ListenFails, Exit

\* For any number of supervisors that start and stop at the same time: one
\* that forwards tasks has its own agent, unless two were started at once or
\* it took over another one's.
THEOREM ForwardersHaveAgents == Spec => []ForwardsToItsAgent
<1>1. Init => AgentInv
  BY DEF Init, AgentInv, StartsAlone, KeepsItsAgent
<1>2. AgentInv => ForwardsToItsAgent
  BY DEF AgentInv, StartsAlone, KeepsItsAgent, ForwardsToItsAgent, Listening,
         Forwards, Bound
<1> QED
  BY <1>1, <1>2, AgentInvariant, TypeCorrect, PTL DEF Spec
=============================================================================
