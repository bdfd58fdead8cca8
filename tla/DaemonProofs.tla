---------------------------- MODULE DaemonProofs ----------------------------
(***************************************************************************)
(* The two halves of processTask in src/daemon.js, for any number of jobs, *)
(* connections, processes and sessions.                                    *)
(*                                                                         *)
(* What it lets through: steering commands that do not overlap add up, a   *)
(* dispatch does not pass a pause or a gate that stands, and what the      *)
(* daemon forwards passes the agent server's own check of the policy.      *)
(*                                                                         *)
(* What it carries out: a task is carried out once for each time the queue *)
(* grants it, and it is granted again only after a lapse or a fault; and   *)
(* the subscription never dies.                                            *)
(***************************************************************************)
EXTENDS Admission, TaskQueue, FiniteSetTheorems, TLAPS
-----------------------------------------------------------------------------
(* The two checks of a policy.                                             *)

\* What the daemon's check lets through, the server's accepts: the server
\* is more lenient in two fields that may be null, and stricter in none.
LEMMA ValidIsAccepted ==
  ASSUME NEW p, Valid(p)
  PROVE  Accepted(p)
<1>1. CASE p.pattern = "advisor" /\ AdvisorOK(p)
  BY <1>1 DEF Accepted
<1>2. CASE p.pattern = "workflow" /\ WorkflowOK(p)
           /\ PartitionOK(p) /\ WritesOK(p)
           /\ p.budgetTokens \in Positive \union {"unset"}
  BY <1>2 DEF Accepted, WritesOK, Fanned
<1>3. CASE p.pattern = "managed-agents" /\ CoordinatorOK(p)
           /\ p.coordinatorAgentVersion \in Positive \union {"unset"}
           /\ PartitionOK(p) /\ WritesOK(p)
           /\ p.budgetTokens \in Positive \union {"unset"}
  BY <1>3 DEF Accepted, WritesOK, Fanned
<1> QED
  BY <1>1, <1>2, <1>3 DEF Valid, Fanned

\* The built-in advisor policy is a good one.
LEMMA DefaultsAreValid == Valid(AdvisorDefaults)
<1>1. /\ AdvisorDefaults.pattern = "advisor"
      /\ AdvisorDefaults.executorModel = "sonnet"
      /\ AdvisorDefaults.advisorModel = "fable"
      /\ AdvisorDefaults.maxAdvisorCalls = "1"
      /\ AdvisorDefaults.effort = "high"
  BY DEF AdvisorDefaults, Nothing
<1> QED
  BY <1>1 DEF Valid, AdvisorOK, Models, AtMost2

\* A request whose candidate is valid, or that names no pattern, resolves
\* to a policy that passes the check, whatever else it holds.
LEMMA ResolvedIsValid ==
  ASSUME NEW r,
         r.pattern = "unset" \/ Valid(Candidate(r, Nothing))
  PROVE  Valid(ResolveExecutionPolicy(r, Nothing))
BY DefaultsAreValid DEF ResolveExecutionPolicy, Fanned

\* What the daemon forwards passes the agent server's own check.
THEOREM ForwardedAccepted == AdmissionSpec => []ForwardedIsAccepted
<1>1. AdmissionInit => ForwardedIsAccepted
  BY DEF AdmissionInit, ForwardedIsAccepted, NoDispatch
<1>2. ForwardedIsAccepted /\ [AdmissionNext]_admissionVars
        => ForwardedIsAccepted'
  <2> SUFFICES ASSUME ForwardedIsAccepted, [AdmissionNext]_admissionVars
               PROVE  ForwardedIsAccepted'
    OBVIOUS
  <2>1. ASSUME NEW s \in Sessions, NEW r \in Requests, Admit(s, r)
        PROVE  ForwardedIsAccepted'
    <3> SUFFICES ASSUME dispatch'.verdict = "forwarded"
                 PROVE  Accepted(dispatch'.policy)
      BY DEF ForwardedIsAccepted
    <3>1. /\ r.pattern = "unset" \/ Valid(Candidate(r, Nothing))
          /\ dispatch'.policy = ResolveExecutionPolicy(r, Nothing)
      BY <2>1 DEF Admit
    <3> QED
      BY <3>1, ResolvedIsValid, ValidIsAccepted
  <2>2. CASE Posted
    BY <2>2 DEF Posted, NoDispatch, ForwardedIsAccepted
  <2>3. CASE dispatch' = dispatch
    BY <2>3 DEF ForwardedIsAccepted
  <2> QED
    BY <2>1, <2>2, <2>3
    DEF AdmissionNext, Start, Truncate, Fill, CommandDies, admissionVars
<1> QED
  BY <1>1, <1>2, PTL DEF AdmissionSpec

-----------------------------------------------------------------------------
(* The steering commands.                                                  *)

\* What a command is about to write is what it read, changed by it, and
\* only a command under way has emptied the file.
InFlight ==
  /\ pending \in [Processes -> PendingCommands \union {NoCommand}]
  /\ \A p \in Processes :
       pending[p] # NoCommand =>
         pending[p].state = Changed(pending[p].command, pending[p].base)
  /\ \A p \in truncated : p \in Processes /\ pending[p] # NoCommand

\* The inductive invariant.
AddUpInv == InFlight /\ CommandsAddUp /\ file \in States \union {Torn}

\* A command changes a state into one of the same shape.
LEMMA ChangedTyped ==
  ASSUME NEW c \in Commands, NEW st \in States
  PROVE  Changed(c, st) \in States
BY DEF Changed, Commands, Plain, OfSession, Redirections, States

\* A command that read what people had asked for writes what they ask for
\* now: it sets the pause or one session's gate and keeps the rest.
LEMMA ChangedAgrees ==
  ASSUME NEW c \in Commands, NEW st \in States, Agrees(st)
  PROVE  /\ Changed(c, st).paused = Wanted(c).paused
         /\ Changed(c, st).gates = Wanted(c).gates
BY DEF Changed, Wanted, Agrees, Commands, Plain, OfSession, Redirections,
       States

\* A pending command is none that is not there.
LEMMA PendingIsCommand == NoCommand \notin PendingCommands
BY DEF NoCommand, PendingCommands

\* What is read is a state.
LEMMA ReadTyped ==
  ASSUME file \in States \union {Torn}
  PROVE  Read \in States
BY DEF Read, EmptyState, States

\* Commands under way stay consistent, and an undisturbed file adds up.
LEMMA AddUpInvariant == AdmissionSpec => []AddUpInv
<1>1. AdmissionInit => AddUpInv
  <2> SUFFICES ASSUME AdmissionInit PROVE AddUpInv
    OBVIOUS
  <2>1. file \in States /\ file = EmptyState
    BY DEF AdmissionInit, EmptyState, States
  <2>2. Agrees(file)
    BY <2>1 DEF AdmissionInit, Agrees, EmptyState
  <2> QED
    BY <2>1, <2>2 DEF AdmissionInit, AddUpInv, InFlight, CommandsAddUp
<1>2. AddUpInv /\ [AdmissionNext]_admissionVars => AddUpInv'
  <2> SUFFICES ASSUME AddUpInv, [AdmissionNext]_admissionVars PROVE AddUpInv'
    OBVIOUS
  <2>1. ASSUME NEW p \in Processes, NEW c \in Commands, Start(p, c)
        PROVE  AddUpInv'
    <3> DEFINE new == [command |-> c, base |-> Read,
                       state |-> Changed(c, Read)]
    <3>1. new \in PendingCommands
      BY ReadTyped, ChangedTyped DEF AddUpInv, PendingCommands
    <3>2. /\ new # NoCommand
          /\ new.state = Changed(new.command, new.base)
      BY <3>1, PendingIsCommand
    <3> HIDE DEF new
    <3>3. pending' = [pending EXCEPT ![p] = new]
      BY <2>1 DEF Start, new
    <3>4. InFlight'
      BY <2>1, <3>1, <3>2, <3>3 DEF Start, AddUpInv, InFlight
    <3> QED
      BY <2>1, <3>4 DEF Start, AddUpInv, CommandsAddUp, Agrees
  <2>2. ASSUME NEW p \in Processes, Truncate(p)
        PROVE  AddUpInv'
    BY <2>2 DEF Truncate, AddUpInv, InFlight, CommandsAddUp
  <2>3. ASSUME NEW p \in Processes, Fill(p)
        PROVE  AddUpInv'
    <3>1. /\ pending[p] \in PendingCommands
          /\ pending[p].state =
               Changed(pending[p].command, pending[p].base)
      BY <2>3 DEF Fill, AddUpInv, InFlight
    <3>2. /\ pending[p].command \in Commands
          /\ pending[p].base \in States
          /\ pending[p].state \in States
      BY <3>1 DEF PendingCommands
    <3>3. InFlight'
      BY <2>3 DEF Fill, AddUpInv, InFlight
    <3>4. CASE file' = pending[p].state
      <4>1. clash' \/ Agrees(pending[p].base)
        BY <2>3 DEF Fill
      <4>2. Agrees(pending[p].base) =>
              /\ file'.paused = want'.paused
              /\ file'.gates = want'.gates
        BY <2>3, <3>1, <3>2, <3>4, ChangedAgrees DEF Fill
      <4> QED
        BY <3>2, <3>3, <3>4, <4>1, <4>2
        DEF AddUpInv, CommandsAddUp, Agrees
    <3>5. CASE file' = Torn
      BY <3>3, <3>5 DEF AddUpInv, CommandsAddUp
    <3> QED
      BY <2>3, <3>4, <3>5 DEF Fill
  <2>4. ASSUME NEW p \in Processes, CommandDies(p)
        PROVE  AddUpInv'
    BY <2>4 DEF CommandDies, AddUpInv, InFlight, CommandsAddUp, Agrees
  <2>5. CASE UNCHANGED <<file, pending, truncated, want, clash>>
    BY <2>5 DEF AddUpInv, InFlight, CommandsAddUp, Agrees
  <2> QED
    BY <2>1, <2>2, <2>3, <2>4, <2>5
    DEF AdmissionNext, Admit, Posted, admissionVars
<1> QED
  BY <1>1, <1>2, PTL DEF AdmissionSpec

\* Without a clash every command leaves the pause and the gates of the
\* others as they are.
THEOREM AddUp == AdmissionSpec => []CommandsAddUp
BY AddUpInvariant, PTL DEF AddUpInv

\* A dispatch is not forwarded against a pause or a gate that stands, unless
\* the file is torn or a command wrote over another one's change.
THEOREM StandingGatesHold == AdmissionSpec => GatesHold
<1>1. ASSUME AddUpInv, [AdmissionNext]_admissionVars,
             dispatch # dispatch', dispatch'.verdict = "forwarded"
      PROVE  \/ clash \/ file = Torn
             \/ ~want.paused /\ dispatch'.session \notin want.gates
  <2>1. PICK s \in Sessions, r \in Requests : Admit(s, r)
    BY <1>1
    DEF AdmissionNext, Start, Truncate, Fill, CommandDies, Posted,
        NoDispatch, admissionVars
  <2>2. CanDispatch(s) /\ dispatch'.session = s
    BY <1>1, <2>1 DEF Admit
  <2>3. CASE file # Torn /\ ~clash
    BY <1>1, <2>2, <2>3 DEF CanDispatch, Read, AddUpInv, CommandsAddUp, Agrees
  <2> QED
    BY <2>3
<1>2. AddUpInv /\ [AdmissionNext]_admissionVars =>
        [(dispatch # dispatch' /\ dispatch'.verdict = "forwarded")
           => \/ clash \/ file = Torn
              \/ /\ ~want.paused
                 /\ dispatch'.session \notin want.gates]_admissionVars
  BY <1>1
<1> QED
  BY <1>2, AddUpInvariant, PTL DEF AdmissionSpec, GatesHold

-----------------------------------------------------------------------------
(* The queue daemon.                                                       *)

Work == {"checking", "forwarding", "posting"}

QueueTypes ==
  /\ conn \in [Conns -> {"off", "timer", "connecting", "open", "refused"}]
  /\ backoff \in [Conns -> 0 .. MaxBackoff]
  /\ lease \in [Tasks -> Nat]
  /\ granted \in [Tasks -> Nat]
  /\ result \in [Tasks -> {"none", "completed", "error"}]
  /\ at \in [Jobs -> {"idle", "claiming"} \cup Work]
  /\ task \in [Jobs -> Tasks \cup {NoTask}]
  /\ token \in [Jobs -> Nat]
  /\ verdict \in [Jobs -> {"none", "completed", "error"}]
  /\ attempt \in [Jobs -> 0 .. MaxAttempts]
  /\ faults \in 0 .. MaxFaults
  /\ lapses \in 0 .. MaxLapses
  /\ works \in [Tasks -> Nat]

\* A job works on its task with a token that was granted for it, posts a
\* verdict it has come to, and has no token before its claim is answered.
JobOK(j) ==
  /\ at[j] = "posting" => verdict[j] # "none"
  /\ IF at[j] \in Work
     THEN task[j] \in Tasks /\ token[j] \in 1 .. granted[task[j]]
     ELSE token[j] = 0 /\ (at[j] = "claiming" => task[j] \in Tasks)

\* A task is leased under the last token given out for it.  Each grant but
\* the first followed a lapse or a fault; and when the queue may grant the
\* task again, or nobody knows the token it has granted, so did the first.
LeaseOK(t) ==
  /\ lease[t] # 0 => lease[t] = granted[t] /\ result[t] = "none"
  /\ granted[t] <= 1 + faults + lapses
  /\ result[t] = "none" /\ (lease[t] = 0 \/ Holders(t) = {})
       => granted[t] <= faults + lapses

\* Each grant makes a task be carried out once at most: the jobs that may
\* still carry it out are counted with those that have.
Checking(t) == {j \in Jobs : at[j] = "checking" /\ task[j] = t}
Counted(t) ==
  /\ IsFiniteSet(Checking(t))
  /\ works[t] + Cardinality(Checking(t)) <= granted[t]

QueueInv ==
  /\ QueueTypes
  /\ \A j \in Jobs : JobOK(j)
  /\ \A t \in Tasks : LeaseOK(t) /\ Counted(t)

LEMMA QueueInit == Init => QueueInv
<1> SUFFICES ASSUME Init PROVE QueueInv
  OBVIOUS
<1> USE ParametersAssumption
<1>1. QueueTypes
  BY DEF Init, QueueTypes, Work
<1>2. ASSUME NEW j \in Jobs PROVE JobOK(j)
  BY DEF Init, JobOK, Work
<1>3. ASSUME NEW t \in Tasks PROVE LeaseOK(t) /\ Counted(t)
  <2>1. LeaseOK(t)
    BY DEF Init, LeaseOK
  <2>2. Checking(t) = {}
    BY DEF Init, Checking
  <2>3. Counted(t)
    BY <2>2, FS_EmptySet DEF Init, Counted
  <2> QED
    BY <2>1, <2>3
<1> QED
  BY <1>1, <1>2, <1>3 DEF QueueInv

\* A step that neither begins nor ends a check of a task leaves alone who
\* checks it; one that changes no job's task or token, who holds its lease.
LEMMA CheckingStays ==
  ASSUME NEW t,
         \A j \in Jobs : (at'[j] = "checking" /\ task'[j] = t)
                           <=> (at[j] = "checking" /\ task[j] = t)
  PROVE  Checking(t)' = Checking(t)
BY DEF Checking

LEMMA CountedStays ==
  ASSUME NEW t, Counted(t), works'[t] = works[t], granted'[t] = granted[t],
         \A j \in Jobs : (at'[j] = "checking" /\ task'[j] = t)
                           <=> (at[j] = "checking" /\ task[j] = t)
  PROVE  Counted(t)'
BY CheckingStays DEF Counted

\* Connections have nothing to do with jobs and leases.
LEMMA ConnectionKeeps ==
  ASSUME QueueInv, NEW c \in Conns, Connection(c)
  PROVE  QueueInv'
<1> USE ParametersAssumption
<1>1. UNCHANGED <<queue, job, mishaps, works>>
  BY DEF Connection, TimerFires, Connected, Refused, RefusalEnds,
         RequestFails, StreamEnds
<1>2. \A n \in 0 .. MaxBackoff : Doubled(n) \in 0 .. MaxBackoff
  BY DEF Doubled
<1>3. /\ conn' \in [Conns -> {"off", "timer", "connecting", "open",
                              "refused"}]
      /\ backoff' \in [Conns -> 0 .. MaxBackoff]
  BY <1>2 DEF QueueInv, QueueTypes, Connection, TimerFires, Connected,
              Refused, RefusalEnds, RequestFails, StreamEnds
<1>4. QueueTypes'
  BY <1>1, <1>3 DEF QueueInv, QueueTypes, queue, job, mishaps, Work
<1>5. ASSUME NEW j \in Jobs PROVE JobOK(j)'
  BY <1>1 DEF QueueInv, JobOK, queue, job
<1>6. ASSUME NEW t \in Tasks PROVE LeaseOK(t)' /\ Counted(t)'
  <2>1. LeaseOK(t)'
    BY <1>1 DEF QueueInv, LeaseOK, Holders, queue, job, mishaps
  <2>2. Counted(t)'
    BY <1>1, CountedStays DEF QueueInv, queue, job
  <2> QED
    BY <2>1, <2>2
<1> QED
  BY <1>4, <1>5, <1>6 DEF QueueInv

LEMMA LapseKeeps ==
  ASSUME QueueInv, NEW t \in Tasks, LeaseLapses(t)
  PROVE  QueueInv'
<1> USE ParametersAssumption
<1>1. QueueTypes'
  BY DEF QueueInv, QueueTypes, LeaseLapses, subscription, job, Work
<1>2. ASSUME NEW j \in Jobs PROVE JobOK(j)'
  BY DEF QueueInv, JobOK, LeaseLapses, job
<1>3. ASSUME NEW u \in Tasks PROVE LeaseOK(u)' /\ Counted(u)'
  <2>1. /\ faults' = faults /\ granted' = granted /\ result' = result
        /\ lapses' \in Nat /\ lapses' >= lapses
        /\ faults \in Nat /\ lapses \in Nat /\ granted[u] \in Nat
    BY DEF QueueInv, QueueTypes, LeaseLapses
  <2>2. CASE u = t
    <3>1. lease'[u] = 0 /\ lease[u] # 0
      BY <2>2 DEF QueueInv, QueueTypes, LeaseLapses
    <3>2. granted[u] <= faults + lapses'
      <4>1. CASE Holders(u) = {}
        BY <4>1, <2>1, <3>1 DEF QueueInv, LeaseOK
      <4>2. CASE Holders(u) # {}
        <5>1. lapses' = lapses + 1
          BY <4>2, <2>2 DEF LeaseLapses
        <5> QED
          BY <5>1, <2>1 DEF QueueInv, LeaseOK
      <4> QED
        BY <4>1, <4>2
    <3> QED
      BY <3>1, <3>2, <2>1, CountedStays
      DEF QueueInv, LeaseOK, LeaseLapses, job
  <2>3. CASE u # t
    <3>1. lease'[u] = lease[u]
      BY <2>3 DEF QueueInv, QueueTypes, LeaseLapses
    <3>2. Holders(u)' = Holders(u)
      BY <3>1 DEF Holders, LeaseLapses, job
    <3>3. LeaseOK(u)'
      BY <3>1, <3>2, <2>1 DEF QueueInv, LeaseOK
    <3> QED
      BY <3>3, <2>1, CountedStays DEF QueueInv, LeaseLapses, job
  <2> QED
    BY <2>2, <2>3
<1> QED
  BY <1>1, <1>2, <1>3 DEF QueueInv

LEMMA DeliverKeeps ==
  ASSUME QueueInv, NEW t \in Tasks, NEW j \in Jobs, Deliver(j, t)
  PROVE  QueueInv'
<1> USE ParametersAssumption
<1>1. QueueTypes'
  BY DEF QueueInv, QueueTypes, Deliver, subscription, queue, mishaps, Work
<1>2. ASSUME NEW i \in Jobs PROVE JobOK(i)'
  <2>1. CASE i = j
    <3>1. at'[i] = "claiming" /\ task'[i] = t
      BY <2>1 DEF QueueInv, QueueTypes, Deliver
    <3> QED
      BY <2>1, <3>1 DEF QueueInv, JobOK, Deliver, Work
  <2>2. CASE i # j
    <3>1. at'[i] = at[i] /\ task'[i] = task[i]
      BY <2>2 DEF QueueInv, QueueTypes, Deliver
    <3> QED
      BY <3>1 DEF QueueInv, JobOK, Deliver, queue
  <2> QED
    BY <2>1, <2>2
<1>3. ASSUME NEW u \in Tasks PROVE LeaseOK(u)' /\ Counted(u)'
  <2>1. at[j] = "idle" /\ token[j] = 0 /\ at'[j] = "claiming"
    BY DEF QueueInv, QueueTypes, JobOK, Deliver, Work
  <2>2. \A i \in Jobs : i # j => at'[i] = at[i] /\ task'[i] = task[i]
    BY DEF QueueInv, QueueTypes, Deliver
  <2>3. lease[u] # 0 => Holders(u)' = Holders(u)
    BY <2>1, <2>2 DEF Holders, Deliver, queue
  <2>4. LeaseOK(u)'
    BY <2>3 DEF QueueInv, LeaseOK, Deliver, queue, mishaps
  <2>5. Counted(u)'
    BY <2>1, <2>2, CountedStays DEF QueueInv, Deliver, queue
  <2> QED
    BY <2>4, <2>5
<1> QED
  BY <1>1, <1>2, <1>3 DEF QueueInv

\* What the granting of a task leaves to show of it.
LEMMA GrantKeeps ==
  ASSUME QueueInv, NEW t \in Tasks, Grant(t), result' = result
  PROVE  /\ granted' \in [Tasks -> Nat] /\ lease' \in [Tasks -> Nat]
         /\ granted'[t] = granted[t] + 1 /\ lease'[t] = granted'[t]
         /\ \A u \in Tasks : u # t => /\ granted'[u] = granted[u]
                                      /\ lease'[u] = lease[u]
         /\ granted[t] <= faults + lapses
BY DEF QueueInv, QueueTypes, LeaseOK, Grant, Pending

\* The claim is answered with the token.
LEMMA ClaimAnswered ==
  ASSUME QueueInv, NEW j \in Jobs, at[j] = "claiming",
         Grant(task[j]),
         at' = [at EXCEPT ![j] = "checking"],
         token' = [token EXCEPT ![j] = granted'[task[j]]],
         NoFault,
         UNCHANGED <<task, verdict, attempt>>,
         UNCHANGED <<subscription, result, lapses, works>>
  PROVE  QueueInv'
<1> USE ParametersAssumption
<1> DEFINE t == task[j]
<1>1. t \in Tasks /\ token[j] = 0
  BY DEF QueueInv, JobOK, Work
<1>2. /\ granted' \in [Tasks -> Nat] /\ lease' \in [Tasks -> Nat]
      /\ granted'[t] = granted[t] + 1 /\ lease'[t] = granted'[t]
      /\ \A u \in Tasks : u # t => /\ granted'[u] = granted[u]
                                   /\ lease'[u] = lease[u]
      /\ granted[t] <= faults + lapses
  BY <1>1, GrantKeeps
<1>3. granted[t] \in Nat /\ faults \in Nat /\ lapses \in Nat
  BY <1>1 DEF QueueInv, QueueTypes
<1>4. /\ at'[j] = "checking" /\ token'[j] = granted[t] + 1
      /\ \A i \in Jobs : i # j => at'[i] = at[i] /\ token'[i] = token[i]
  BY <1>2 DEF QueueInv, QueueTypes
<1>5. QueueTypes'
  BY <1>1, <1>2, <1>3 DEF QueueInv, QueueTypes, NoFault, subscription, Work
<1>6. ASSUME NEW i \in Jobs PROVE JobOK(i)'
  <2>1. CASE i = j
    BY <2>1, <1>1, <1>2, <1>3, <1>4 DEF JobOK, Work
  <2>2. CASE i # j
    <3>1. ASSUME task[i] \in Tasks PROVE granted'[task[i]] >= granted[task[i]]
      BY <3>1, <1>2, <1>3 DEF QueueInv, QueueTypes
    <3>2. ASSUME task[i] \in Tasks
          PROVE  granted[task[i]] \in Nat /\ granted'[task[i]] \in Nat
      BY <3>2, <1>2 DEF QueueInv, QueueTypes
    <3>3. JobOK(i) /\ token[i] \in Nat
      BY DEF QueueInv, QueueTypes
    <3> QED
      BY <2>2, <1>4, <3>1, <3>2, <3>3 DEF JobOK, Work
  <2> QED
    BY <2>1, <2>2
<1>7. ASSUME NEW u \in Tasks PROVE LeaseOK(u)' /\ Counted(u)'
  <2>1. CASE u = t
    <3>1. j \in Holders(u)' /\ result[u] = "none" /\ lease'[u] # 0
      BY <2>1, <1>1, <1>2, <1>3, <1>4 DEF Holders, Grant, Pending
    <3>2. LeaseOK(u)'
      BY <3>1, <2>1, <1>2, <1>3 DEF LeaseOK, NoFault
    <3>3. Checking(u)' = Checking(u) \cup {j} /\ j \notin Checking(u)
      BY <2>1, <1>4 DEF Checking
    <3>4. IsFiniteSet(Checking(u)) /\ Cardinality(Checking(u)) \in Nat
      BY FS_CardinalityType DEF QueueInv, Counted
    <3>5. /\ IsFiniteSet(Checking(u)')
          /\ Cardinality(Checking(u)') = Cardinality(Checking(u)) + 1
      BY <3>3, <3>4, FS_AddElement
    <3>6. works[u] \in Nat /\ works'[u] = works[u]
      BY DEF QueueInv, QueueTypes
    <3>7. works[u] + Cardinality(Checking(u)) <= granted[u]
      BY DEF QueueInv, Counted
    <3> HIDE DEF t
    <3>8. works'[u] + Cardinality(Checking(u)') <= granted'[u]
      BY <2>1, <1>2, <1>3, <3>4, <3>5, <3>6, <3>7
    <3> QED
      BY <3>2, <3>5, <3>8 DEF Counted
  <2>2. CASE u # t
    <3>1. Holders(u)' = Holders(u)
      BY <2>2, <1>2, <1>4 DEF Holders
    <3>2. LeaseOK(u)'
      BY <2>2, <3>1, <1>2 DEF QueueInv, LeaseOK, NoFault
    <3>3. Counted(u)'
      BY <2>2, <1>2, <1>4, CountedStays DEF QueueInv
    <3> QED
      BY <3>2, <3>3
  <2> QED
    BY <2>1, <2>2
<1> QED
  BY <1>5, <1>6, <1>7 DEF QueueInv

\* What the return of a job leaves to show of jobs and types.
LEMMA DoneKeeps ==
  ASSUME QueueInv, NEW j \in Jobs, Done(j)
  PROVE  /\ at' \in [Jobs -> {"idle", "claiming"} \cup Work]
         /\ task' \in [Jobs -> Tasks \cup {NoTask}]
         /\ token' \in [Jobs -> Nat]
         /\ verdict' \in [Jobs -> {"none", "completed", "error"}]
         /\ attempt' \in [Jobs -> 0 .. MaxAttempts]
         /\ at'[j] = "idle" /\ task'[j] = NoTask /\ token'[j] = 0
         /\ \A i \in Jobs : i # j =>
              /\ at'[i] = at[i] /\ task'[i] = task[i]
              /\ token'[i] = token[i] /\ verdict'[i] = verdict[i]
BY ParametersAssumption DEF QueueInv, QueueTypes, Done, Work

\* A job whose claim fails held nothing that others wait for; a claim that
\* was granted, and whose answer was lost, is one fault.
LEMMA ClaimFails ==
  ASSUME QueueInv, NEW j \in Jobs, at[j] = "claiming", Done(j),
         \/ Grant(task[j]) /\ Fault
         \/ NoFault /\ UNCHANGED <<lease, granted>>
         \/ Fault /\ UNCHANGED <<lease, granted>>,
         UNCHANGED <<subscription, result, lapses, works>>
  PROVE  QueueInv'
<1> USE ParametersAssumption
<1> DEFINE t == task[j]
<1>1. t \in Tasks /\ token[j] = 0
  BY DEF QueueInv, JobOK, Work
<1>2. /\ faults \in Nat /\ lapses \in Nat /\ faults' \in 0 .. MaxFaults
      /\ faults' >= faults /\ lapses' = lapses
  BY DEF QueueInv, QueueTypes, Fault, NoFault
<1>3. /\ granted' \in [Tasks -> Nat] /\ lease' \in [Tasks -> Nat]
      /\ \A u \in Tasks :
           \/ granted'[u] = granted[u] /\ lease'[u] = lease[u]
           \/ /\ u = t /\ granted'[u] = granted[u] + 1
              /\ lease'[u] = granted'[u] /\ faults' = faults + 1
              /\ granted[u] <= faults + lapses /\ result[u] = "none"
  <2>1. CASE Grant(t) /\ Fault
    BY <2>1, <1>1, GrantKeeps DEF Fault, Grant, Pending
  <2>2. CASE UNCHANGED <<lease, granted>>
    BY <2>2 DEF QueueInv, QueueTypes
  <2> QED
    BY <2>1, <2>2
<1>4. QueueTypes'
  BY <1>2, <1>3, DoneKeeps DEF QueueInv, QueueTypes, subscription
<1>5. ASSUME NEW i \in Jobs PROVE JobOK(i)'
  <2>1. CASE i = j
    BY <2>1, DoneKeeps DEF JobOK, Work
  <2>2. CASE i # j
    <3>1. /\ at'[i] = at[i] /\ task'[i] = task[i]
          /\ token'[i] = token[i] /\ verdict'[i] = verdict[i]
      BY <2>2, DoneKeeps
    <3>2. ASSUME task[i] \in Tasks
          PROVE  /\ granted[task[i]] \in Nat /\ granted'[task[i]] \in Nat
                 /\ granted'[task[i]] >= granted[task[i]]
      BY <3>2, <1>3 DEF QueueInv, QueueTypes
    <3>3. JobOK(i) /\ token[i] \in Nat
      BY DEF QueueInv, QueueTypes
    <3> QED
      BY <3>1, <3>2, <3>3 DEF JobOK, Work
  <2> QED
    BY <2>1, <2>2
<1>6. ASSUME NEW u \in Tasks PROVE LeaseOK(u)' /\ Counted(u)'
  <2>1. granted[u] \in Nat /\ LeaseOK(u) /\ Counted(u) /\ works[u] \in Nat
    BY DEF QueueInv, QueueTypes
  <2>2. Checking(u)' = Checking(u)
    BY DoneKeeps, CheckingStays
  <2>3. Cardinality(Checking(u)) \in Nat
    BY <2>1, FS_CardinalityType DEF Counted
  <2>4. Counted(u)'
    <3>1. granted'[u] \in Nat /\ granted'[u] >= granted[u]
      BY <1>3, <2>1
    <3> QED
      BY <2>1, <2>2, <2>3, <3>1 DEF Counted
  <2>5. CASE granted'[u] = granted[u] /\ lease'[u] = lease[u]
    <3>1. lease[u] # 0 => Holders(u)' = Holders(u)
      BY <2>5, <1>1, DoneKeeps DEF Holders
    <3>2. LeaseOK(u)'
      BY <2>5, <3>1, <1>2, <2>1 DEF LeaseOK
    <3> QED
      BY <3>2, <2>4
  <2>6. CASE /\ u = t /\ granted'[u] = granted[u] + 1
             /\ lease'[u] = granted'[u] /\ faults' = faults + 1
             /\ granted[u] <= faults + lapses /\ result[u] = "none"
    BY <2>6, <2>4, <1>2, <2>1 DEF LeaseOK
  <2> QED
    BY <1>3, <2>5, <2>6
<1> QED
  BY <1>4, <1>5, <1>6 DEF QueueInv

LEMMA ClaimKeeps ==
  ASSUME QueueInv, NEW j \in Jobs, ClaimTask(j)
  PROVE  QueueInv'
<1>1. at[j] = "claiming" /\ UNCHANGED <<subscription, result, lapses, works>>
  BY DEF ClaimTask
<1>2. CASE /\ Grant(task[j])
           /\ at' = [at EXCEPT ![j] = "checking"]
           /\ token' = [token EXCEPT ![j] = granted'[task[j]]]
           /\ NoFault
           /\ UNCHANGED <<task, verdict, attempt>>
  BY <1>1, <1>2, ClaimAnswered
<1>3. CASE /\ Done(j)
           /\ \/ Grant(task[j]) /\ Fault
              \/ NoFault /\ UNCHANGED <<lease, granted>>
              \/ Fault /\ UNCHANGED <<lease, granted>>
  BY <1>1, <1>3, ClaimFails
<1> QED
  BY <1>2, <1>3 DEF ClaimTask

\* What a job that goes on, with its task and its token, leaves to show: the
\* leases are as they were, and so are those who hold them.
LEMMA GoingOn ==
  ASSUME QueueInv, NEW j \in Jobs,
         UNCHANGED <<queue, task, token, mishaps>>,
         \A i \in Jobs : i # j =>
           at'[i] = at[i] /\ verdict'[i] = verdict[i]
  PROVE  /\ \A u \in Tasks : LeaseOK(u)'
         /\ \A i \in Jobs : i # j => JobOK(i)'
BY DEF QueueInv, LeaseOK, Holders, JobOK, queue, mishaps

LEMMA CheckKeeps ==
  ASSUME QueueInv, NEW j \in Jobs, CheckTask(j)
  PROVE  QueueInv'
<1> USE ParametersAssumption
<1> DEFINE t == task[j]
<1>1. t \in Tasks /\ token[j] \in 1 .. granted[t] /\ at[j] = "checking"
  BY DEF QueueInv, JobOK, CheckTask, Work
<1>2. /\ UNCHANGED <<subscription, queue, task, token, mishaps>>
      /\ at' \in [Jobs -> {"idle", "claiming"} \cup Work]
      /\ verdict' \in [Jobs -> {"none", "completed", "error"}]
      /\ attempt' \in [Jobs -> 0 .. MaxAttempts]
      /\ at'[j] \in {"posting", "forwarding"}
      /\ at'[j] = "posting" => verdict'[j] # "none"
      /\ \A i \in Jobs : i # j =>
           at'[i] = at[i] /\ verdict'[i] = verdict[i]
  BY DEF QueueInv, QueueTypes, CheckTask, Conclude, Work
<1>3. works' = works \/ works' = [works EXCEPT ![t] = @ + 1]
  BY DEF CheckTask, CarryOut
<1>4. QueueTypes'
  BY <1>1, <1>2, <1>3
  DEF QueueInv, QueueTypes, subscription, queue, mishaps
<1>5. JobOK(j)'
  BY <1>1, <1>2 DEF JobOK, Work, queue
<1>6. ASSUME NEW u \in Tasks PROVE Counted(u)'
  <2>1. /\ IsFiniteSet(Checking(u)) /\ Cardinality(Checking(u)) \in Nat
        /\ works[u] + Cardinality(Checking(u)) <= granted[u]
    BY FS_CardinalityType DEF QueueInv, Counted
  <2>2. works[u] \in Nat /\ granted[u] \in Nat /\ granted'[u] = granted[u]
    BY <1>2 DEF QueueInv, QueueTypes, queue
  <2>3. CASE u = t
    <3>1. Checking(u)' = Checking(u) \ {j} /\ j \in Checking(u)
      BY <2>3, <1>1, <1>2 DEF Checking
    <3>2. /\ IsFiniteSet(Checking(u)')
          /\ Cardinality(Checking(u)') = Cardinality(Checking(u)) - 1
      BY <3>1, <2>1, FS_RemoveElement
    <3>3. works'[u] = works[u] \/ works'[u] = works[u] + 1
      BY <1>1, <1>3, <2>3 DEF QueueInv, QueueTypes
    <3> HIDE DEF t
    <3> QED
      BY <2>1, <2>2, <3>2, <3>3 DEF Counted
  <2>4. CASE u # t
    <3>1. works'[u] = works[u]
      BY <1>1, <1>3, <2>4 DEF QueueInv, QueueTypes
    <3> QED
      BY <2>2, <2>4, <3>1, <1>2, CountedStays DEF QueueInv
  <2> QED
    BY <2>3, <2>4
<1> QED
  BY <1>2, <1>4, <1>5, <1>6, GoingOn DEF QueueInv

LEMMA ForwardKeeps ==
  ASSUME QueueInv, NEW j \in Jobs, ForwardToA2A(j)
  PROVE  QueueInv'
<1> USE ParametersAssumption
<1>1. /\ UNCHANGED <<subscription, queue, task, token, mishaps, works>>
      /\ at[j] = "forwarding" /\ at'[j] = "posting"
      /\ verdict'[j] # "none"
      /\ \A i \in Jobs : i # j =>
           at'[i] = at[i] /\ verdict'[i] = verdict[i]
  BY DEF QueueInv, QueueTypes, ForwardToA2A, Conclude, Work
<1>2. QueueTypes'
  BY DEF QueueInv, QueueTypes, ForwardToA2A, Conclude, Work,
         subscription, queue, mishaps
<1>3. JobOK(j)'
  BY <1>1 DEF QueueInv, JobOK, Work, queue
<1>4. ASSUME NEW u \in Tasks PROVE Counted(u)'
  BY <1>1, CountedStays DEF QueueInv, queue
<1> QED
  BY <1>1, <1>2, <1>3, <1>4, GoingOn DEF QueueInv

\* The answer to a result: a task that has one is nobody's any more.
LEMMA AcceptKeeps ==
  ASSUME QueueInv, NEW j \in Jobs, at[j] = "posting",
         Accept(j) \/ UNCHANGED queue
  PROVE  /\ lease' \in [Tasks -> Nat] /\ granted' = granted
         /\ result' \in [Tasks -> {"none", "completed", "error"}]
         /\ \A u \in Tasks :
              \/ lease'[u] = lease[u] /\ result'[u] = result[u]
              \/ lease'[u] = 0 /\ result'[u] # "none"
         /\ Accept(j) /\ lease[task[j]] # 0 /\ token[j] = lease[task[j]]
              => result'[task[j]] # "none"
<1>1. /\ task[j] \in Tasks /\ token[j] # 0 /\ verdict[j] # "none"
      /\ verdict[j] \in {"none", "completed", "error"}
  BY DEF QueueInv, QueueTypes, JobOK, Work
<1>2. CASE UNCHANGED queue
  <2>1. lease[task[j]] # 0 => result[task[j]] = "none"
    BY <1>1 DEF QueueInv, LeaseOK
  <2>2. Accept(j) /\ lease[task[j]] # 0 /\ token[j] = lease[task[j]]
          => result'[task[j]] # "none"
    BY <1>1, <2>1 DEF QueueInv, QueueTypes, Accept
  <2> QED
    BY <1>2, <2>2 DEF QueueInv, QueueTypes, queue
<1>3. CASE Accept(j) /\ ~UNCHANGED queue
  BY <1>1, <1>3 DEF QueueInv, QueueTypes, Accept, queue
<1> QED
  BY <1>2, <1>3

LEMMA PostKeeps ==
  ASSUME QueueInv, NEW j \in Jobs, PostResult(j)
  PROVE  QueueInv'
<1> USE ParametersAssumption
<1> DEFINE t == task[j]
<1>1. /\ t \in Tasks /\ token[j] \in 1 .. granted[t] /\ at[j] = "posting"
      /\ UNCHANGED <<subscription, lapses, works>>
      /\ Accept(j) \/ UNCHANGED queue
  BY DEF QueueInv, JobOK, PostResult, Work
<1>2. /\ faults' \in 0 .. MaxFaults /\ faults' >= faults
      /\ Accept(j) \/ faults' = faults + 1
      /\ faults \in Nat /\ lapses \in Nat
  BY DEF QueueInv, QueueTypes, PostResult, Fault, NoFault
<1>3. /\ at' \in [Jobs -> {"idle", "claiming"} \cup Work]
      /\ task' \in [Jobs -> Tasks \cup {NoTask}]
      /\ token' \in [Jobs -> Nat]
      /\ verdict' \in [Jobs -> {"none", "completed", "error"}]
      /\ attempt' \in [Jobs -> 0 .. MaxAttempts]
      /\ \A i \in Jobs : i # j =>
           /\ at'[i] = at[i] /\ task'[i] = task[i]
           /\ token'[i] = token[i] /\ verdict'[i] = verdict[i]
      /\ \/ /\ at'[j] = at[j] /\ task'[j] = task[j]
            /\ token'[j] = token[j] /\ verdict'[j] = verdict[j]
         \/ at'[j] = "idle" /\ token'[j] = 0
  <2>1. CASE Done(j)
    BY <2>1, DoneKeeps
  <2>2. CASE Retry(j) /\ ~Done(j)
    BY <2>2 DEF QueueInv, QueueTypes, Retry
  <2> QED
    BY <2>1, <2>2 DEF PostResult
<1>4. QueueTypes'
  BY <1>1, <1>2, <1>3, AcceptKeeps DEF QueueInv, QueueTypes, subscription
<1>5. ASSUME NEW i \in Jobs PROVE JobOK(i)'
  <2>1. granted' = granted
    BY <1>1, AcceptKeeps
  <2> QED
    BY <1>3, <2>1 DEF QueueInv, JobOK, Work
<1>6. ASSUME NEW u \in Tasks PROVE LeaseOK(u)' /\ Counted(u)'
  <2>1. /\ granted'[u] = granted[u] /\ works'[u] = works[u]
        /\ \/ lease'[u] = lease[u] /\ result'[u] = result[u]
           \/ lease'[u] = 0 /\ result'[u] # "none"
    BY <1>1, AcceptKeeps
  <2>2. granted[u] \in Nat /\ LeaseOK(u) /\ Counted(u)
    BY DEF QueueInv, QueueTypes
  <2>3. Counted(u)'
    BY <2>1, <2>2, <1>1, <1>3, CountedStays
  <2>4. CASE lease'[u] = 0 /\ result'[u] # "none"
    BY <2>1, <2>2, <2>3, <2>4, <1>1, <1>2 DEF LeaseOK
  <2>5. CASE /\ lease'[u] = lease[u] /\ result'[u] = result[u]
             /\ result'[u] = "none"
    <3>1. CASE faults' = faults + 1
      BY <2>1, <2>2, <2>3, <2>5, <3>1, <1>1, <1>2 DEF LeaseOK
    <3>2. CASE Accept(j) /\ lease[u] # 0
      <4>1. j \notin Holders(u)
        BY <3>2, <2>5, <1>1, AcceptKeeps DEF Holders
      <4>2. Holders(u) \subseteq Holders(u)'
        BY <4>1, <2>5, <1>3 DEF Holders
      <4> QED
        BY <2>1, <2>2, <2>3, <2>5, <3>2, <4>2, <1>1, <1>2 DEF LeaseOK
    <3>3. CASE lease[u] = 0
      BY <2>1, <2>2, <2>3, <2>5, <3>3, <1>1, <1>2 DEF LeaseOK
    <3> QED
      BY <3>1, <3>2, <3>3, <1>2
  <2>6. CASE /\ lease'[u] = lease[u] /\ result'[u] = result[u]
             /\ result'[u] # "none"
    BY <2>1, <2>2, <2>3, <2>6, <1>1, <1>2 DEF LeaseOK
  <2> QED
    BY <2>1, <2>4, <2>5, <2>6
<1> QED
  BY <1>4, <1>5, <1>6 DEF QueueInv

LEMMA CrashKeeps ==
  ASSUME QueueInv, Crash
  PROVE  QueueInv'
<1> USE ParametersAssumption
<1>1. QueueTypes'
  BY DEF QueueInv, QueueTypes, Crash, Fault, queue, Work
<1>2. ASSUME NEW j \in Jobs PROVE JobOK(j)'
  BY DEF JobOK, Crash, Work
<1>3. ASSUME NEW t \in Tasks PROVE LeaseOK(t)' /\ Counted(t)'
  <2>1. /\ faults' = faults + 1 /\ lapses' = lapses
        /\ faults \in Nat /\ lapses \in Nat /\ granted[t] \in Nat
        /\ works[t] \in Nat /\ UNCHANGED <<lease, granted, result, works>>
    BY DEF QueueInv, QueueTypes, Crash, Fault, queue
  <2>2. LeaseOK(t)'
    BY <2>1 DEF QueueInv, LeaseOK
  <2>3. Checking(t)' = {}
    BY DEF Checking, Crash
  <2>4. Cardinality(Checking(t)) \in Nat
    BY FS_CardinalityType DEF QueueInv, Counted
  <2>5. Counted(t)'
    BY <2>1, <2>3, <2>4, FS_EmptySet DEF QueueInv, Counted
  <2> QED
    BY <2>2, <2>5
<1> QED
  BY <1>1, <1>2, <1>3 DEF QueueInv

LEMMA QueueInvariant == Spec => []QueueInv
<1>1. QueueInv /\ [Next]_vars => QueueInv'
  <2> SUFFICES ASSUME QueueInv, [Next]_vars
               PROVE  QueueInv'
    OBVIOUS
  <2>1. CASE Next
    BY <2>1, ConnectionKeeps, LapseKeeps, DeliverKeeps, ClaimKeeps,
       CheckKeeps, ForwardKeeps, PostKeeps, CrashKeeps
    DEF Next, ProcessTask
  <2>2. CASE UNCHANGED vars
    <3>1. \A j \in Jobs : JobOK(j)'
      BY <2>2 DEF QueueInv, JobOK, vars, queue, job
    <3>2. \A t \in Tasks : LeaseOK(t)'
      BY <2>2 DEF QueueInv, LeaseOK, Holders, vars, queue, job, mishaps
    <3>3. \A t \in Tasks : Counted(t)'
      BY <2>2 DEF QueueInv, Counted, Checking, vars, queue, job
    <3>4. QueueTypes'
      BY <2>2
      DEF QueueInv, QueueTypes, vars, subscription, queue, job, mishaps
    <3> QED
      BY <3>1, <3>2, <3>3, <3>4 DEF QueueInv
  <2> QED
    BY <2>1, <2>2
<1> QED
  BY <1>1, QueueInit, PTL DEF Spec

\* Every variable of the daemon stays in its type, the leases the queue
\* gives out for a task among them.
THEOREM QueueTypesHold == Spec => []TypeOK
<1>1. QueueInv => TypeOK
  <2> SUFFICES ASSUME QueueInv PROVE TypeOK
    OBVIOUS
  <2> USE ParametersAssumption
  <2>1. ASSUME NEW t \in Tasks
        PROVE  granted[t] \in Tokens /\ lease[t] \in Tokens
    BY DEF QueueInv, QueueTypes, LeaseOK, Tokens
  <2>2. ASSUME NEW j \in Jobs PROVE token[j] \in Tokens
    <3>1. CASE at[j] \in Work
      <4>1. granted[task[j]] \in Tokens /\ token[j] \in 1 .. granted[task[j]]
        BY <3>1, <2>1 DEF QueueInv, JobOK
      <4> QED
        BY <4>1 DEF Tokens
    <3>2. CASE at[j] \notin Work
      BY <3>2 DEF QueueInv, JobOK, Tokens
    <3> QED
      BY <3>1, <3>2
  <2>3. /\ lease \in [Tasks -> Tokens] /\ granted \in [Tasks -> Tokens]
        /\ token \in [Jobs -> Tokens]
    BY <2>1, <2>2 DEF QueueInv, QueueTypes
  <2> QED
    BY <2>3 DEF QueueInv, QueueTypes, TypeOK, Work
<1> QED
  BY <1>1, QueueInvariant, PTL

\* However often tasks are delivered and claimed, each is carried out once,
\* and once more for each lease that lapsed and each fault.
THEOREM WorkIsClaimed == Spec => []WorksAreClaimed
<1>1. QueueInv => WorksAreClaimed
  <2> SUFFICES ASSUME QueueInv, NEW t \in Tasks
               PROVE  works[t] <= 1 + faults + lapses
    BY DEF WorksAreClaimed
  <2>1. /\ Cardinality(Checking(t)) \in Nat
        /\ works[t] + Cardinality(Checking(t)) <= granted[t]
    BY FS_CardinalityType DEF QueueInv, Counted
  <2>2. /\ works[t] \in Nat /\ granted[t] \in Nat
        /\ faults \in Nat /\ lapses \in Nat
        /\ granted[t] <= 1 + faults + lapses
    BY DEF QueueInv, QueueTypes, LeaseOK
  <2> QED
    BY <2>1, <2>2
<1> QED
  BY <1>1, QueueInvariant, PTL

\* Whatever ends a connection, and however many live side by side, the
\* daemon is subscribed, or is about to be.
THEOREM SubscriptionLives == Spec => []SubscriptionSurvives
<1> DEFINE Conn == conn \in [Conns -> {"off", "timer", "connecting",
                                       "open", "refused"}]
<1>1. QueueInv => Conn
  BY DEF QueueInv, QueueTypes
<1>2. Init => SubscriptionSurvives
  BY DEF Init, SubscriptionSurvives
<1>3. SubscriptionSurvives /\ Conn /\ [Next]_vars => SubscriptionSurvives'
  <2> SUFFICES ASSUME SubscriptionSurvives, Conn, [Next]_vars
               PROVE  SubscriptionSurvives'
    OBVIOUS
  <2> USE DEF SubscriptionSurvives
  <2>1. ASSUME NEW c \in Conns, Refused(c)
        PROVE  SubscriptionSurvives'
    <3>1. PICK d \in Conns \ Alive :
            conn' = [conn EXCEPT ![c] = "refused", ![d] = "timer"]
      BY <2>1 DEF Refused
    <3>2. conn'[d] = "timer" /\ d \in Conns
      BY <3>1
    <3> QED
      BY <3>2
  <2>2. ASSUME NEW c \in Conns,
               TimerFires(c) \/ Connected(c) \/ RequestFails(c)
               \/ StreamEnds(c)
        PROVE  SubscriptionSurvives'
    <3>1. conn'[c] \in {"timer", "connecting", "open"}
      BY <2>2 DEF TimerFires, Connected, RequestFails, StreamEnds
    <3> QED
      BY <3>1
  <2>3. ASSUME NEW c \in Conns, RefusalEnds(c)
        PROVE  SubscriptionSurvives'
    BY <2>3 DEF RefusalEnds
  <2>4. CASE Crash
    BY <2>4 DEF Crash
  <2>5. CASE UNCHANGED conn
    BY <2>5
  <2>6. CASE \/ \E t \in Tasks : \/ LeaseLapses(t)
                                 \/ \E j \in Jobs : Deliver(j, t)
             \/ \E j \in Jobs : ProcessTask(j)
             \/ UNCHANGED vars
    BY <2>5, <2>6
    DEF LeaseLapses, Deliver, ProcessTask, ClaimTask, CheckTask,
        ForwardToA2A, PostResult, subscription, vars
  <2> QED
    BY <2>1, <2>2, <2>3, <2>4, <2>6 DEF Next, Connection
<1> QED
  BY <1>1, <1>2, <1>3, QueueInvariant, PTL DEF Spec
=============================================================================
