----------------------------- MODULE TaskQueue -----------------------------
(***************************************************************************)
(* The queue daemon: the subscription of src/a2a-client.js that delivers   *)
(* tasks, and processTask of src/daemon.js with the claim and the result   *)
(* of src/task-queue-client.js.                                            *)
(*                                                                         *)
(* The queue itself is a service that is not part of this repository; it   *)
(* is modelled from how the daemon uses it: it offers pending tasks to     *)
(* whoever is subscribed, leases a task to the first claim, answers 409 to *)
(* the others and to results that come without the current lease, and      *)
(* offers a task again once its lease has lapsed.                          *)
(***************************************************************************)
EXTENDS Naturals, FiniteSets

CONSTANTS
  Tasks,       \* task ids
  NoTask,      \* what an idle job works on
  Jobs,        \* calls of processTask that can be under way at a time
  Conns,       \* calls of _connectSSE that can be alive at a time
  MaxAttempts, \* RETRY_POLICY.maxAttempts
  MaxBackoff,  \* doublings of the base delay until MAX_RECONNECT_MS
  MaxFaults,   \* bound on lost requests and answers, and crashes
  MaxLapses    \* bound on leases that lapse under a running job

ASSUME ParametersAssumption ==
  /\ NoTask \notin Tasks
  /\ MaxAttempts \in Nat \ {0}
  /\ MaxBackoff \in Nat
  /\ MaxFaults \in Nat
  /\ MaxLapses \in Nat

Tokens == 0 .. MaxFaults + MaxLapses + 1   \* 0 is no lease

VARIABLES
  conn,      \* each connection: a pending timer, a request, a stream
  backoff,   \* doublings in the delay a connection carries
  lease,     \* the queue: the token of each task's lease
  granted,   \* the last token given out for it
  result,    \* the result it accepted
  at,        \* where each job is
  task, token, verdict, attempt,   \* of each job
  faults, lapses,
  works      \* history: how often each task was carried out

subscription == <<conn, backoff>>
queue == <<lease, granted, result>>
job == <<at, task, token, verdict, attempt>>
mishaps == <<faults, lapses>>
vars == <<subscription, queue, job, mishaps, works>>

Fault == faults < MaxFaults /\ faults' = faults + 1
NoFault == UNCHANGED faults

-----------------------------------------------------------------------------
(* The subscription.  Each call of _connectSSE is one connection, from the *)
(* timer that will start it to its end.                                    *)

Alive == {c \in Conns : conn[c] # "off"}
Doubled(n) == IF n < MaxBackoff THEN n + 1 ELSE n

TimerFires(c) ==
  /\ conn[c] = "timer"
  /\ conn' = [conn EXCEPT ![c] = "connecting"]
  /\ UNCHANGED <<backoff, queue, job, mishaps, works>>

Connected(c) ==
  /\ conn[c] = "connecting"
  /\ conn' = [conn EXCEPT ![c] = "open"]
  /\ UNCHANGED <<backoff, queue, job, mishaps, works>>

\* Mutant: reconnecting after a refusal is left to the error event.
RefusedMutant(c) ==
  /\ conn[c] = "connecting"
  /\ conn' = [conn EXCEPT ![c] = "refused"]
  /\ UNCHANGED <<backoff, queue, job, mishaps, works>>

\* Any status but 2xx: a new connection is scheduled at once and beside the
\* guard, while the body of this one is still coming in.
Refused(c) ==
  /\ conn[c] = "connecting"
  /\ \E d \in Conns \ Alive :
       /\ conn' = [conn EXCEPT ![c] = "refused", ![d] = "timer"]
       /\ backoff' = [backoff EXCEPT ![d] = Doubled(backoff[c])]
  /\ UNCHANGED <<queue, job, mishaps, works>>

RefusalEnds(c) ==
  /\ conn[c] = "refused"
  /\ conn' = [conn EXCEPT ![c] = "off"]
  /\ UNCHANGED <<backoff, queue, job, mishaps, works>>

\* The request's error event: no connection, or a socket that failed while
\* the stream or the body of a refusal was coming in.  scheduleReconnect,
\* with doubling.
RequestFails(c) ==
  /\ conn[c] \in {"connecting", "open", "refused"}
  /\ conn' = [conn EXCEPT ![c] = "timer"]
  /\ backoff' = [backoff EXCEPT ![c] = Doubled(@)]
  /\ UNCHANGED <<queue, job, mishaps, works>>

\* Mutant: no listener for the response's error event.
StreamEndsMutant(c) ==
  /\ conn[c] = "open"
  /\ \/ conn' = [conn EXCEPT ![c] = "timer"]
     \/ conn' = [conn EXCEPT ![c] = "off"]
  /\ UNCHANGED <<backoff, queue, job, mishaps, works>>

\* The stream ends, or is torn down after a minute without data.
StreamEnds(c) ==
  /\ conn[c] = "open"
  /\ conn' = [conn EXCEPT ![c] = "timer"]
  /\ UNCHANGED <<backoff, queue, job, mishaps, works>>

-----------------------------------------------------------------------------
(* The queue service.                                                      *)

Pending(t) == lease[t] = 0 /\ result[t] = "none"

Holders(t) == {j \in Jobs : task[j] = t /\ token[j] = lease[t]}

\* A lease lapses: that of a job that is gone, or one that takes too long.
LeaseLapses(t) ==
  /\ lease[t] # 0
  /\ IF Holders(t) = {} THEN UNCHANGED lapses
     ELSE lapses < MaxLapses /\ lapses' = lapses + 1
  /\ lease' = [lease EXCEPT ![t] = 0]
  /\ UNCHANGED <<subscription, granted, result, job, faults, works>>

-----------------------------------------------------------------------------
(* A job, one call of processTask.                                         *)

\* The job's call returns.
Done(j) ==
  /\ at' = [at EXCEPT ![j] = "idle"]
  /\ task' = [task EXCEPT ![j] = NoTask]
  /\ token' = [token EXCEPT ![j] = 0]
  /\ verdict' = [verdict EXCEPT ![j] = "none"]
  /\ attempt' = [attempt EXCEPT ![j] = 0]

\* The first attempt of postResult comes next.
Conclude(j, v) ==
  /\ at' = [at EXCEPT ![j] = "posting"]
  /\ verdict' = [verdict EXCEPT ![j] = v]
  /\ attempt' = [attempt EXCEPT ![j] = 1]
  /\ UNCHANGED <<task, token>>

Deliver(j, t) ==
  /\ \E c \in Conns : conn[c] = "open"
  /\ Pending(t)
  /\ at[j] = "idle"
  /\ at' = [at EXCEPT ![j] = "claiming"]
  /\ task' = [task EXCEPT ![j] = t]
  /\ UNCHANGED <<subscription, queue, token, verdict, attempt, mishaps, works>>

Grant(t) ==
  /\ Pending(t)
  /\ granted' = [granted EXCEPT ![t] = @ + 1]
  /\ lease' = [lease EXCEPT ![t] = granted'[t]]

\* Mutant: any answer to a claim is good enough.
ClaimTaskMutant(j) ==
  /\ at[j] = "claiming"
  /\ \/ /\ Grant(task[j])
        /\ token' = [token EXCEPT ![j] = granted'[task[j]]]
     \/ /\ ~Pending(task[j])
        /\ token' = [token EXCEPT ![j] = lease[task[j]]]
        /\ UNCHANGED <<lease, granted>>
  /\ at' = [at EXCEPT ![j] = "checking"]
  /\ UNCHANGED <<task, verdict, attempt, faults>>
  /\ UNCHANGED <<subscription, result, lapses, works>>

\* Only an answer with the token lets the job go on; a request that is lost,
\* and one whose answer is, end it, the second with the task leased to nobody.
ClaimTask(j) ==
  /\ at[j] = "claiming"
  /\ \/ /\ Grant(task[j])
        /\ at' = [at EXCEPT ![j] = "checking"]
        /\ token' = [token EXCEPT ![j] = granted'[task[j]]]
        /\ NoFault
        /\ UNCHANGED <<task, verdict, attempt>>
     \/ Grant(task[j]) /\ Done(j) /\ Fault
     \/ ~Pending(task[j]) /\ Done(j) /\ NoFault /\ UNCHANGED <<lease, granted>>
     \/ Done(j) /\ Fault /\ UNCHANGED <<lease, granted>>
  /\ UNCHANGED <<subscription, result, lapses, works>>

CarryOut(t) == works' = [works EXCEPT ![t] = @ + 1]

\* The task is malformed, unknown, not admitted or rejected for its policy;
\* or the daemon handles it itself; or it is forwarded to the A2A agent.
CheckTask(j) ==
  /\ at[j] = "checking"
  /\ \/ Conclude(j, "error") /\ UNCHANGED works
     \/ Conclude(j, "completed") /\ CarryOut(task[j])
     \/ /\ at' = [at EXCEPT ![j] = "forwarding"]
        /\ CarryOut(task[j])
        /\ UNCHANGED <<task, token, verdict, attempt>>
  /\ UNCHANGED <<subscription, queue, mishaps>>

\* The artifact maps to completed or error; so does a forward that failed.
ForwardToA2A(j) ==
  /\ at[j] = "forwarding"
  /\ \E v \in {"completed", "error"} : Conclude(j, v)
  /\ UNCHANGED <<subscription, queue, mishaps, works>>

\* 200 with the current lease, 409 without: both end the job.
Accept(j) ==
  LET t == task[j] IN
  IF result[t] = "none" /\ token[j] = lease[t]
  THEN /\ result' = [result EXCEPT ![t] = verdict[j]]
       /\ lease' = [lease EXCEPT ![t] = 0]
       /\ UNCHANGED granted
  ELSE UNCHANGED queue

\* Mutant: one attempt too many.
RetryMutant(j) ==
  IF attempt[j] <= MaxAttempts
  THEN /\ attempt' = [attempt EXCEPT ![j] = @ + 1]
       /\ UNCHANGED <<at, task, token, verdict>>
  ELSE Done(j)

Retry(j) ==
  IF attempt[j] < MaxAttempts
  THEN /\ attempt' = [attempt EXCEPT ![j] = @ + 1]
       /\ UNCHANGED <<at, task, token, verdict>>
  ELSE Done(j)

\* A lost request or answer, 429 and 5xx are tried again, as long as there
\* are attempts left; any other status ends the job.
PostResult(j) ==
  /\ at[j] = "posting"
  /\ \/ Accept(j) /\ Done(j) /\ NoFault
     \/ Accept(j) /\ Retry(j) /\ Fault
     \/ UNCHANGED queue /\ (Retry(j) \/ Done(j)) /\ Fault
  /\ UNCHANGED <<subscription, lapses, works>>

-----------------------------------------------------------------------------
\* The daemon dies and is started again: one connection, no jobs.
Crash ==
  /\ Fault
  /\ \E c \in Conns :
       conn' = [d \in Conns |-> IF d = c THEN "connecting" ELSE "off"]
  /\ backoff' = [c \in Conns |-> 0]
  /\ at' = [j \in Jobs |-> "idle"]
  /\ task' = [j \in Jobs |-> NoTask]
  /\ token' = [j \in Jobs |-> 0]
  /\ verdict' = [j \in Jobs |-> "none"]
  /\ attempt' = [j \in Jobs |-> 0]
  /\ UNCHANGED <<queue, lapses, works>>

Init ==
  /\ \E c \in Conns :
       conn = [d \in Conns |-> IF d = c THEN "connecting" ELSE "off"]
  /\ backoff = [c \in Conns |-> 0]
  /\ lease = [t \in Tasks |-> 0]
  /\ granted = [t \in Tasks |-> 0]
  /\ result = [t \in Tasks |-> "none"]
  /\ at = [j \in Jobs |-> "idle"]
  /\ task = [j \in Jobs |-> NoTask]
  /\ token = [j \in Jobs |-> 0]
  /\ verdict = [j \in Jobs |-> "none"]
  /\ attempt = [j \in Jobs |-> 0]
  /\ faults = 0
  /\ lapses = 0
  /\ works = [t \in Tasks |-> 0]

Connection(c) ==
  \/ TimerFires(c) \/ Connected(c) \/ Refused(c) \/ RefusalEnds(c)
  \/ RequestFails(c) \/ StreamEnds(c)

ProcessTask(j) ==
  ClaimTask(j) \/ CheckTask(j) \/ ForwardToA2A(j) \/ PostResult(j)

Next ==
  \/ \E c \in Conns : Connection(c)
  \/ \E t \in Tasks : LeaseLapses(t) \/ \E j \in Jobs : Deliver(j, t)
  \/ \E j \in Jobs : ProcessTask(j)
  \/ Crash

Spec == Init /\ [][Next]_vars

\* Timers fire, jobs go on, requests get some answer; the queue keeps
\* accepting subscribers now and then, offers each pending task to them, and
\* lets every abandoned lease lapse.
FairSpec ==
  /\ Spec
  /\ \A c \in Conns :
       /\ WF_vars(TimerFires(c))
       /\ WF_vars(RefusalEnds(c))
       /\ SF_vars(Connected(c))
  /\ \A j \in Jobs : WF_vars(ProcessTask(j))
  /\ \A t \in Tasks :
       WF_vars(LeaseLapses(t)) /\ SF_vars(\E j \in Jobs : Deliver(j, t))

-----------------------------------------------------------------------------
(* Properties.                                                             *)

TypeOK ==
  /\ conn \in [Conns -> {"off", "timer", "connecting", "open", "refused"}]
  /\ backoff \in [Conns -> 0 .. MaxBackoff]
  /\ lease \in [Tasks -> Tokens]
  /\ granted \in [Tasks -> Tokens]
  /\ result \in [Tasks -> {"none", "completed", "error"}]
  /\ at \in [Jobs -> {"idle", "claiming", "checking", "forwarding", "posting"}]
  /\ task \in [Jobs -> Tasks \cup {NoTask}]
  /\ token \in [Jobs -> Tokens]
  /\ verdict \in [Jobs -> {"none", "completed", "error"}]
  /\ attempt \in [Jobs -> 0 .. MaxAttempts]
  /\ faults \in 0 .. MaxFaults
  /\ lapses \in 0 .. MaxLapses
  /\ works \in [Tasks -> Nat]

\* "without a shared guard the subscription would silently die with no
\* reconnect" (a2a-client.js:105-106): however connections end, one is
\* pending, under way or open.
SubscriptionSurvives ==
  \E c \in Conns : conn[c] \in {"timer", "connecting", "open"}

\* "409 = another instance claimed it; silently skip" (daemon.js:197): several
\* deliveries, several subscriptions and retried requests make a task be
\* carried out a second time only when a lease lapsed or the network failed.
WorksAreClaimed ==
  \A t \in Tasks : works[t] <= 1 + faults + lapses

\* Nothing a job decides is lost: while faults and lapses are bounded, every
\* task comes to a result, by a retry or by another job.
TasksAreSettled ==
  \A t \in Tasks : <>(result[t] # "none")
=============================================================================
