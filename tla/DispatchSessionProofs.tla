----------------------- MODULE DispatchSessionProofs -----------------------
(***************************************************************************)
(* Proofs about DispatchSession, for every choice of the limits:           *)
(*   - type correctness;                                                   *)
(*   - a registered session stays its owner's (SessionsAreTracked);        *)
(*   - the run agrees with the artifact (RunTellsOutcome), by an invariant *)
(*     that also speaks of the updates still on their way;                 *)
(*   - a POST is aborted only if the buffer covers less than the calls     *)
(*     outside the deadline (PostOutlivesDispatch), by adding up how late  *)
(*     each await of the coroutine may begin.                              *)
(***************************************************************************)
EXTENDS DispatchSession, TLAPS

-----------------------------------------------------------------------------
(* Type correctness.                                                       *)

\* Every state reached is a state of the declared types: the states.
LEMMA StatesCorrect == Spec => []StatesOK
<1> USE DEF StatesOK, Active, Calls, Listed, Outcomes, RunStatuses
<1>1. Init => StatesOK
  BY DEF Init
<1>2. StatesOK /\ [Next]_vars => StatesOK'
  <2> SUFFICES ASSUME StatesOK, [Next]_vars PROVE StatesOK'
    OBVIOUS
  <2>1. CASE Launcher
    <3>1. CASE LaunchSession
      BY <3>1 DEF LaunchSession, tracking
    <3>2. CASE LaunchFails
      BY <3>2 DEF LaunchFails, tracking
    <3>3. CASE RegisterOwner
      BY <3>3 DEF RegisterOwner, tracking
    <3> QED
      BY <2>1, <3>1, <3>2, <3>3 DEF Launcher
  <2>2. CASE StartReturns
    BY <2>2 DEF StartReturns, Return, Await, EnterLoop, tracking
  <2>3. CASE CreateRun
    <3>1. run' \in RunStatuses \cup {"none"} /\ late' \subseteq RunStatuses
      BY <2>3 DEF CreateRun, Update
    <3>2. at' \in {"starting", "sleeping"}
      BY <2>3 DEF CreateRun, Await, EnterLoop
    <3> QED
      BY <2>3, <3>1, <3>2 DEF CreateRun
  <2>4. CASE StepStarted
    <3>1. run' \in RunStatuses \cup {"none"} /\ late' \subseteq RunStatuses
      BY <2>4 DEF StepStarted, Update
    <3>2. at' = "sleeping"
      BY <2>4 DEF StepStarted, Await, EnterLoop
    <3> QED
      BY <2>4, <3>1, <3>2 DEF StepStarted
  <2>5. CASE WakeUp
    BY <2>5 DEF WakeUp, Await, tracking
  <2>6. ASSUME NEW o \in Outcomes, Decide(o)
        PROVE  /\ at' \in {"reporting", "returned"}
               /\ outcome' = o
               /\ client' \in {"waiting", "answered", "aborted", "broken"}
    BY <2>6 DEF Decide, Return, Await
  <2>7. ASSUME NEW s, NextRound(s)
        PROVE  /\ at' \in {"sleeping", "reporting", "returned"}
               /\ outcome' \in Outcomes \cup {"none"}
               /\ client' \in {"waiting", "answered", "aborted", "broken"}
    BY <2>6, <2>7 DEF NextRound, Await
  <2>8. CASE PollBlind
    BY <2>7, <2>8 DEF PollBlind, tracking
  <2>9. CASE PollSession
    BY <2>9 DEF PollSession, Await, tracking
  <2>10. CASE GetLogs
    BY <2>6, <2>7, <2>10 DEF GetLogs, tracking
  <2>11. CASE Report
    BY <2>11 DEF Report, Update, Return, RunStatusOf
  <2>12. CASE ServiceAppliesLate
    BY <2>12 DEF ServiceAppliesLate
  <2>13. CASE Cancel
    BY <2>13 DEF Cancel, Abandon, InFlight, RunStatusOf
  <2>14. CASE Restart
    BY <2>14 DEF Restart, Abandon, InFlight, RunStatusOf
  <2>15. CASE SessionMoves
    BY <2>15 DEF SessionMoves, tracking
  <2>16. CASE ClientGivesUp
    BY <2>16 DEF ClientGivesUp, tracking
  <2>17. CASE ControlBegins \/ ControlEnds
    <3>1. CASE ControlBegins
      BY <3>1 DEF ControlBegins, tracking
    <3>2. CASE ControlEnds
      <4>1. session' \in Listed \cup {"none", "gone"}
        BY <3>2 DEF ControlEnds
      <4> QED
        BY <3>2, <4>1 DEF ControlEnds, tracking
    <3> QED
      BY <2>17, <3>1, <3>2
  <2>18. CASE Tick
    BY <2>18 DEF Tick, tracking
  <2>19. CASE UNCHANGED vars
    BY <2>19 DEF vars, tracking
  <2> QED
    BY <2>1, <2>2, <2>3, <2>4, <2>5, <2>8, <2>9, <2>10, <2>11, <2>12, <2>13,
       <2>14, <2>15, <2>16, <2>17, <2>18, <2>19 DEF Next, Coroutine
<1> QED
  BY <1>1, <1>2, PTL DEF Spec

\* What the other actions do to the clocks: nothing, or a clock restarts.
LEMMA ClockSteps ==
  ASSUME Next
  PROVE  \/ Tick
         \/ /\ waited' = waited /\ lag' = lag
            /\ busy' = busy \/ busy' = 0
            /\ left' = left \/ left' = Timeout
<1> USE DEF clocks, Await, Return, EnterLoop
<1>1. ASSUME NEW o, Decide(o) PROVE busy' = busy \/ busy' = 0
  BY <1>1 DEF Decide
<1>2. ASSUME NEW s, NextRound(s) PROVE busy' = busy \/ busy' = 0
  BY <1>1, <1>2 DEF NextRound
<1>3. CASE Launcher
  BY <1>3 DEF Launcher, LaunchSession, LaunchFails, RegisterOwner
<1>4. CASE StartReturns \/ CreateRun \/ StepStarted \/ WakeUp \/ PollSession
  BY <1>4 DEF StartReturns, CreateRun, StepStarted, WakeUp, PollSession
<1>5. CASE PollBlind \/ GetLogs \/ Report
  BY <1>1, <1>2, <1>5 DEF PollBlind, GetLogs, Report
<1>6. CASE Cancel \/ Restart \/ SessionMoves \/ ServiceAppliesLate
  BY <1>6 DEF Cancel, Restart, SessionMoves, ServiceAppliesLate
<1>7. CASE ClientGivesUp \/ ControlBegins \/ ControlEnds
  BY <1>7 DEF ClientGivesUp, ControlBegins, ControlEnds
<1> QED
  BY <1>3, <1>4, <1>5, <1>6, <1>7 DEF Next, Coroutine

\* The clocks.
LEMMA ClocksCorrect == Spec => []ClocksOK
<1> USE LimitsAssumption DEF ClocksOK, Patience
<1>1. Init => ClocksOK
  BY DEF Init
<1>2. ClocksOK /\ [Next]_vars => ClocksOK'
  <2> SUFFICES ASSUME ClocksOK, [Next]_vars PROVE ClocksOK'
    OBVIOUS
  <2>1. CASE Tick
    <3>1. busy' \in Nat /\ left' \in 0 .. Timeout
      BY <2>1 DEF Tick
    <3>2. waited' \in 0 .. Patience
      BY <2>1 DEF Tick
    <3>3. lag' \in 0 .. MaxLag
      BY <2>1 DEF Tick
    <3> QED
      BY <3>1, <3>2, <3>3
  <2>2. CASE Next /\ ~Tick
    BY <2>2, ClockSteps
  <2>3. CASE UNCHANGED vars
    BY <2>3 DEF vars, clocks
  <2> QED
    BY <2>1, <2>2, <2>3
<1> QED
  BY <1>1, <1>2, PTL DEF Spec

\* The flags.
LEMMA FlagsCorrect == Spec => []FlagsOK
<1> USE DEF FlagsOK
<1>1. Init => FlagsOK
  BY DEF Init
<1>2. FlagsOK /\ [Next]_vars => FlagsOK'
  <2> SUFFICES ASSUME FlagsOK, [Next]_vars PROVE FlagsOK'
    OBVIOUS
  <2>1. CASE Launcher
    BY <2>1 DEF Launcher, LaunchSession, LaunchFails, RegisterOwner, tracking
  <2>2. CASE StartReturns \/ CreateRun \/ StepStarted \/ Report
    BY <2>2 DEF StartReturns, CreateRun, StepStarted, Report, Update, Return,
                tracking
  <2>3. CASE WakeUp \/ PollSession
    BY <2>3 DEF WakeUp, PollSession, tracking
  <2>4. ASSUME NEW o, Decide(o) PROVE owned' \in BOOLEAN
    BY <2>4 DEF Decide, Return
  <2>5. ASSUME NEW s, NextRound(s) PROVE owned' \in BOOLEAN
    BY <2>4, <2>5 DEF NextRound
  <2>6. CASE PollBlind
    BY <2>5, <2>6 DEF PollBlind, tracking
  <2>7. CASE GetLogs
    BY <2>4, <2>5, <2>7 DEF GetLogs, tracking
  <2>8. CASE ServiceAppliesLate
    BY <2>8 DEF ServiceAppliesLate
  <2>9. CASE Cancel \/ Restart
    BY <2>9 DEF Cancel, Restart, Abandon
  <2>10. CASE SessionMoves \/ ClientGivesUp \/ ControlBegins \/ Tick
    BY <2>10 DEF SessionMoves, ClientGivesUp, ControlBegins, Tick, tracking
  <2>11. CASE ControlEnds
    BY <2>11 DEF ControlEnds, tracking
  <2>12. CASE UNCHANGED vars
    BY <2>12 DEF vars, tracking
  <2> QED
    BY <2>1, <2>2, <2>3, <2>6, <2>7, <2>8, <2>9, <2>10, <2>11, <2>12
       DEF Next, Coroutine
<1> QED
  BY <1>1, <1>2, PTL DEF Spec

\* Every state reached is a state of the declared types.
THEOREM TypeCorrect == Spec => []TypeOK
  BY StatesCorrect, FlagsCorrect, ClocksCorrect, PTL DEF TypeOK

-----------------------------------------------------------------------------
(* Ownership.                                                              *)

\* A registered session stays its owner's through cancellation, timeouts,
\* failed control calls and every way the dispatch can end but one.
THEOREM OwnersKeepSessions == Spec => []SessionsAreTracked
<1>1. Init => SessionsAreTracked
  BY DEF Init, SessionsAreTracked
<1>2. SessionsAreTracked /\ [Next]_vars => SessionsAreTracked'
  <2> SUFFICES ASSUME SessionsAreTracked, [Next]_vars PROVE SessionsAreTracked'
    OBVIOUS
  <2> USE DEF SessionsAreTracked, Listed
  <2>1. CASE Launcher
    BY <2>1 DEF Launcher, LaunchSession, LaunchFails, RegisterOwner
  <2>2. CASE StartReturns
    BY <2>2 DEF StartReturns, Return, Await, EnterLoop
  <2>3. CASE CreateRun \/ StepStarted \/ WakeUp \/ PollSession
    BY <2>3 DEF CreateRun, StepStarted, WakeUp, PollSession, Await, EnterLoop
  <2>4. ASSUME NEW o, Decide(o), at # "returned", UNCHANGED <<thread, session>>
        PROVE  SessionsAreTracked'
    <3>1. CASE UNCHANGED owned
      BY <2>4, <3>1
    <3>2. CASE Return(o)
      BY <2>4, <3>2 DEF Return
    <3> QED
      BY <2>4, <3>1, <3>2 DEF Decide
  <2>5. ASSUME NEW s, NextRound(s), at # "returned",
               UNCHANGED <<thread, session>>
        PROVE  SessionsAreTracked'
    BY <2>4, <2>5 DEF NextRound, Await
  <2>6. CASE PollBlind
    BY <2>5, <2>6 DEF PollBlind
  <2>7. CASE GetLogs
    BY <2>4, <2>5, <2>7 DEF GetLogs
  <2>8. CASE Report
    BY <2>8 DEF Report, Return
  <2>9. CASE Cancel
    BY <2>9 DEF Cancel, Active, Calls
  <2>10. CASE Restart
    BY <2>10 DEF Restart
  <2>11. CASE ControlBegins \/ ControlEnds
    BY <2>11 DEF ControlBegins, ControlEnds
  <2>12. CASE SessionMoves \/ ServiceAppliesLate \/ ClientGivesUp \/ Tick
    BY <2>12 DEF SessionMoves, ServiceAppliesLate, ClientGivesUp, Tick
  <2>13. CASE UNCHANGED vars
    BY <2>13 DEF vars
  <2> QED
    BY <2>1, <2>2, <2>3, <2>6, <2>7, <2>8, <2>9, <2>10, <2>11, <2>12, <2>13
       DEF Next, Coroutine
<1> QED
  BY <1>1, <1>2, PTL DEF Spec

-----------------------------------------------------------------------------
(* The run at the workflow service.                                        *)

\* Nothing is on its way to the service, applied or late, that contradicts
\* the artifact; and the artifact is decided once.
Agrees ==
  /\ {run} \cup late \subseteq
       {"none", "pending", "running"} \cup
       IF outcome = "none" THEN {} ELSE {RunStatusOf(outcome)}
  /\ outcome # "none" => at \notin Active \ {"reporting"}
  /\ at = "reporting" => outcome # "none"

\* When every update got through, the service was told the outcome.
Settled ==
  /\ late # {} => faulted
  /\ at \in {"launching", "creating"} => ~tracked
  /\ at = "returned" /\ tracked /\ ~faulted => run = RunStatusOf(outcome)

\* Deciding on an artifact keeps the run and the artifact in agreement.
LEMMA DecideAgrees ==
  ASSUME Agrees, Settled,
         at \in Active \ {"launching", "creating", "reporting"},
         NEW o \in Outcomes, Decide(o), UNCHANGED tracking
  PROVE  Agrees' /\ Settled'
<1>1. outcome = "none" /\ o # "none"
  BY DEF Agrees, Outcomes
<1>2. /\ outcome' = o /\ UNCHANGED <<run, late, tracked, faulted>>
      /\ \/ at' = "reporting"
         \/ at' = "returned" /\ ~tracked
  BY DEF Decide, Return, Await, tracking
<1>3. Agrees'
  BY <1>1, <1>2 DEF Agrees, Active, Calls
<1>4. Settled'
  BY <1>2 DEF Settled
<1> QED
  BY <1>3, <1>4

\* What the workflow service records is what the caller is told.
THEOREM RunAndCallerAgree == Spec => []RunTellsOutcome
<1>1. Init => Agrees /\ Settled
  BY DEF Init, Agrees, Settled, Active, Calls
<1>2. StatesOK /\ Agrees /\ Settled /\ [Next]_vars => Agrees' /\ Settled'
  <2> SUFFICES ASSUME StatesOK, Agrees, Settled, [Next]_vars
               PROVE  Agrees' /\ Settled'
    OBVIOUS
  <2>1. ASSUME NEW s, NextRound(s), at \in InLoop, UNCHANGED tracking
        PROVE  Agrees' /\ Settled'
    <3>1. at \in Active \ {"launching", "creating", "reporting"}
      BY <2>1 DEF InLoop, Active, Calls
    <3>2. CASE Await("sleeping") /\ UNCHANGED outcome
      BY <2>1, <3>1, <3>2 DEF Await, Agrees, Settled, tracking
    <3>3. CASE \E o \in Outcomes : Decide(o)
      BY <2>1, <3>1, <3>3, DecideAgrees
    <3> QED
      BY <2>1, <3>2, <3>3 DEF NextRound, Outcomes
  \* An update that says what the artifact says, or nothing final.
  <2>2. ASSUME NEW st, Update(st),
               st \in {"pending", "running"} \/
                 (outcome # "none" /\ st = RunStatusOf(outcome)),
               outcome' = outcome
        PROVE  /\ {run'} \cup late' \subseteq
                    {"none", "pending", "running"} \cup
                    IF outcome = "none" THEN {} ELSE {RunStatusOf(outcome)}
               /\ late' # {} => faulted'
    BY <2>2 DEF Update, Agrees, Settled
  <2>3. CASE Launcher
    BY <2>3 DEF Launcher, LaunchSession, LaunchFails, RegisterOwner, tracking,
                Agrees, Settled
  <2>4. CASE StartReturns
    <3>1. outcome = "none" /\ ~tracked
      BY <2>4 DEF StartReturns, Agrees, Settled, Active, Calls
    <3>2. CASE Return("start-failed")
      BY <2>4, <3>1, <3>2 DEF StartReturns, Return, tracking, Agrees, Settled,
                              Active, Calls
    <3>3. CASE at' \in {"creating", "sleeping"} /\ UNCHANGED outcome
      BY <2>4, <3>1, <3>3 DEF StartReturns, tracking, Agrees, Settled
    <3> QED
      BY <2>4, <3>2, <3>3 DEF StartReturns, Await, EnterLoop
  <2>5. CASE CreateRun
    <3>1. outcome' = "none" /\ outcome = "none"
      BY <2>5 DEF CreateRun, Agrees, Active, Calls
    <3>2. at' \in {"starting", "sleeping"}
      BY <2>5 DEF CreateRun, Await, EnterLoop
    <3> QED
      BY <2>2, <2>5, <3>1, <3>2 DEF CreateRun, Agrees, Settled
  <2>6. CASE StepStarted
    <3>1. outcome' = "none" /\ outcome = "none"
      BY <2>6 DEF StepStarted, Agrees, Active, Calls
    <3>2. at' = "sleeping"
      BY <2>6 DEF StepStarted, Await, EnterLoop
    <3> QED
      BY <2>2, <2>6, <3>1, <3>2 DEF StepStarted, Agrees, Settled
  <2>7. CASE WakeUp \/ PollSession
    BY <2>7 DEF WakeUp, PollSession, Await, tracking, Agrees, Settled, Active,
                Calls
  <2>8. CASE PollBlind
    BY <2>1, <2>8 DEF PollBlind, InLoop
  <2>9. CASE GetLogs
    <3>1. (\E o \in Outcomes : Decide(o)) \/ NextRound(TRUE)
      BY <2>9 DEF GetLogs, Outcomes
    <3>2. at \in Active \ {"launching", "creating", "reporting"}
      BY <2>9 DEF GetLogs, Active, Calls
    <3> QED
      BY <2>1, <2>9, <3>1, <3>2, DecideAgrees DEF GetLogs, InLoop
  <2>10. CASE Report
    <3>1. /\ outcome # "none" /\ outcome' = outcome /\ at' = "returned"
          /\ Update(RunStatusOf(outcome))
      BY <2>10 DEF Report, Return, Agrees
    <3>2. Agrees'
      BY <2>2, <3>1 DEF Agrees, Active, Calls
    <3>3. late' # {} => faulted'
      BY <2>2, <3>1
    <3>4. run' = RunStatusOf(outcome) \/ faulted' = TRUE
      BY <3>1 DEF Update
    <3> QED
      BY <3>1, <3>2, <3>3, <3>4 DEF Settled
  <2>11. CASE ServiceAppliesLate
    BY <2>11 DEF ServiceAppliesLate, Agrees, Settled
  \* Giving up leaves what was on its way, and marks it.
  <2>12. ASSUME Abandon, outcome' = outcome
         PROVE  /\ {run'} \cup late' \subseteq
                     {"none", "pending", "running"} \cup
                     IF outcome = "none" THEN {} ELSE {RunStatusOf(outcome)}
                /\ late' # {} => faulted'
                /\ faulted => faulted'
                /\ run' = run /\ tracked' = tracked
    <3>1. InFlight \subseteq {"pending", "running"} \cup
            IF outcome = "none" THEN {} ELSE {RunStatusOf(outcome)}
      BY DEF InFlight, Agrees
    <3>2. /\ late' = late \cup InFlight
          /\ run' = run /\ tracked' = tracked
      BY <2>12 DEF Abandon
    <3>3. faulted' = (faulted \/ InFlight # {})
      BY <2>12 DEF Abandon
    <3>4. late' # {} => faulted'
      BY <3>2, <3>3 DEF Settled
    <3>5. {run'} \cup late' \subseteq
            {"none", "pending", "running"} \cup
            IF outcome = "none" THEN {} ELSE {RunStatusOf(outcome)}
      BY <3>1, <3>2 DEF Agrees
    <3> QED
      BY <3>2, <3>3, <3>4, <3>5
  <2>13. CASE Cancel
    BY <2>12, <2>13 DEF Cancel, Agrees, Settled, Active, Calls
  <2>14. CASE Restart
    <3>1. outcome' = outcome /\ Abandon
      BY <2>14 DEF Restart
    <3>2. at' \in {"killed", at} /\ at' \notin Active
      BY <2>14 DEF Restart, Active, Calls
    <3> QED
      BY <2>12, <3>1, <3>2 DEF Agrees, Settled, Active, Calls
  <2>15. CASE SessionMoves \/ ClientGivesUp \/ Tick
    BY <2>15 DEF SessionMoves, ClientGivesUp, Tick, tracking, Agrees, Settled
  <2>16. CASE ControlBegins \/ ControlEnds
    <3>1. UNCHANGED <<at, outcome, tracking>>
      BY <2>16 DEF ControlBegins, ControlEnds
    <3> QED
      BY <3>1 DEF tracking, Agrees, Settled
  <2>17. CASE UNCHANGED vars
    BY <2>17 DEF vars, tracking, Agrees, Settled
  <2> QED
    BY <2>3, <2>4, <2>5, <2>6, <2>7, <2>8, <2>9, <2>10, <2>11, <2>13, <2>14,
       <2>15, <2>16, <2>17 DEF Next, Coroutine
<1>3. Agrees /\ Settled => RunTellsOutcome
  BY DEF Agrees, Settled, RunTellsOutcome
<1> QED
  BY <1>1, <1>2, <1>3, StatesCorrect, PTL DEF Spec

-----------------------------------------------------------------------------
(* The deadline.                                                           *)

\* The latest moment, but for the loop's lag, at which the coroutine begins
\* to await a.  A round of the loop begins before the deadline.
Latest(a) ==
  CASE a = "launching" -> 0
    [] a = "creating" -> StartLimit
    [] a = "starting" -> StartLimit + HttpLimit
    [] a = "sleeping" -> LoopStart + Timeout - 1
    [] a = "polling" -> LoopStart + Timeout - 1 + PollInterval
    [] a = "logging" -> LoopStart + Timeout - 1 + PollInterval + CallLimit
    [] OTHER -> LoopStart + Timeout - 1 + PollInterval + CallLimit + CallLimit

OnTime ==
  /\ at \in Active =>
       /\ waited <= Latest(at) + lag + busy
       /\ waited <= Latest(at) + lag + Limit(at)
  /\ at \in InLoop /\ left > 0 => waited + left <= LoopStart + Timeout + lag
  /\ PostOutlivesDispatch

\* An await is begun in time if the one before it was.
LEMMA LatestFollows ==
  /\ Latest("launching") + Limit("launching") = Latest("creating")
  /\ Latest("creating") + Limit("creating") = Latest("starting")
  /\ Latest("starting") + Limit("starting") = LoopStart
  /\ Latest("creating") + Limit("creating") <= LoopStart
  /\ Latest("launching") + Limit("launching") <= LoopStart
  /\ LoopStart <= Latest("sleeping")
  /\ Latest("sleeping") + Limit("sleeping") = Latest("polling")
  /\ Latest("polling") + Limit("polling") = Latest("logging")
  /\ Latest("logging") + Limit("logging") = Latest("reporting")
  /\ Latest("logging") <= Latest("reporting")
BY LimitsAssumption DEF Latest, Limit, LoopStart

\* The limits of the awaits are natural numbers.
LEMMA LatestNat ==
  \A a \in Active : Latest(a) \in Nat /\ Limit(a) \in Nat
<1> USE LimitsAssumption
<1>1. \A a \in Active : Limit(a) \in Nat
  BY DEF Limit, Active, Calls
<1>2. LoopStart \in Nat /\ LoopStart + Timeout - 1 \in Nat
  BY DEF LoopStart
<1>3. /\ Latest("launching") \in Nat /\ Latest("creating") \in Nat
      /\ Latest("starting") \in Nat /\ Latest("sleeping") \in Nat
  BY <1>2 DEF Latest
<1>4. /\ Latest("polling") \in Nat /\ Latest("logging") \in Nat
      /\ Latest("reporting") \in Nat
  BY <1>2 DEF Latest
<1> QED
  BY <1>1, <1>3, <1>4 DEF Active, Calls

\* Every await ends within the deadline and the overhead.
LEMMA OverheadCovers ==
  \A a \in Active : Latest(a) + Limit(a) < Timeout + Overhead
BY LimitsAssumption
   DEF Overhead, Latest, Limit, LoopStart, Active, Calls

\* For every choice of the limits, a POST is aborted before its dispatch has
\* returned only if the buffer covers less than the calls outside the
\* deadline and the time the loop was held up.
THEOREM AbortedOnlyWhenLate == Spec => []PostOutlivesDispatch
<1>1. Init => OnTime
  BY LimitsAssumption, LatestNat
     DEF Init, OnTime, PostOutlivesDispatch, Active, Calls, InLoop, Latest,
         Limit
<1>2. TypeOK /\ OnTime /\ [Next]_vars => OnTime'
  <2> SUFFICES ASSUME TypeOK, OnTime, [Next]_vars PROVE OnTime'
    OBVIOUS
  <2> waited \in Nat /\ lag \in 0 .. MaxLag /\ left \in Nat /\ busy \in Nat
    BY LimitsAssumption DEF TypeOK, ClocksOK, Patience
  <2> Overhead \in Nat
    BY LimitsAssumption DEF Overhead, LoopStart
  <2> USE LatestNat, LimitsAssumption DEF PostOutlivesDispatch
  \* Entering an await whose latest moment has been reached at most.
  <2>1. ASSUME NEW a \in Active, at' = a, busy' = 0,
               waited' = waited, lag' = lag, waited <= Latest(a) + lag
        PROVE  /\ waited' <= Latest(at') + lag' + busy'
               /\ waited' <= Latest(at') + lag' + Limit(at')
    <3>1. Latest(a) \in Nat /\ Limit(a) \in Nat
      BY LatestNat
    <3> QED
      BY <2>1, <3>1
  <2>2. ASSUME at \in Active PROVE waited <= Latest(at) + lag + Limit(at)
    BY <2>2 DEF OnTime
  \* Entering the loop for the first time.
  <2>3. ASSUME EnterLoop, waited <= LoopStart + lag, client' = client,
               waited' = waited, lag' = lag
        PROVE  OnTime'
    <3>1. waited <= Latest("sleeping") + lag
      BY <2>3, LatestFollows DEF LoopStart, Latest
    <3>2. at' = "sleeping" /\ busy' = 0 /\ left' = Timeout
      BY <2>3 DEF EnterLoop, Await
    <3>3. "sleeping" \in Active
      BY DEF Active
    <3>4. waited' + left' <= LoopStart + Timeout + lag'
      BY <2>3, <3>2 DEF LoopStart
    <3> QED
      BY <2>1, <2>3, <3>1, <3>2, <3>3, <3>4 DEF OnTime
  \* Leaving the loop.
  <2>4. ASSUME NEW o, Decide(o), waited <= Latest("reporting") + lag,
               waited' = waited, lag' = lag
        PROVE  OnTime'
    <3>1. CASE Return(o)
      BY <2>4, <3>1 DEF Return, OnTime, Active, Calls, InLoop
    <3>2. CASE Await("reporting") /\ UNCHANGED client
      <4>1. "reporting" \in Active /\ "reporting" \notin InLoop
        BY DEF Active, Calls, InLoop
      <4> QED
        BY <2>1, <2>4, <3>2, <4>1 DEF Await, OnTime
    <3> QED
      BY <2>4, <3>1, <3>2 DEF Decide
  \* Another round.
  <2>5. ASSUME NEW s, NextRound(s), waited <= Latest("reporting") + lag,
               at \in InLoop, waited' = waited, lag' = lag, left' = left
        PROVE  OnTime'
    <3>1. CASE left > 0 /\ Await("sleeping") /\ UNCHANGED client
      <4>1. waited + left <= LoopStart + Timeout + lag
        BY <2>5, <3>1 DEF OnTime
      <4>2. waited <= Latest("sleeping") + lag
        BY <3>1, <4>1 DEF Latest, LoopStart
      <4>3. at' = "sleeping" /\ busy' = 0 /\ "sleeping" \in Active
        BY <3>1 DEF Await, Active
      <4> QED
        BY <2>1, <2>5, <3>1, <4>1, <4>2, <4>3 DEF OnTime
    <3>2. CASE \E o \in Outcomes : Decide(o)
      BY <2>4, <2>5, <3>2
    <3> QED
      BY <2>5, <3>1, <3>2 DEF NextRound, Outcomes
  <2>6. CASE Launcher
    BY <2>6 DEF Launcher, LaunchSession, LaunchFails, RegisterOwner, clocks,
                OnTime
  <2>7. CASE StartReturns
    <3>1. waited <= Latest("creating") + lag /\ waited <= LoopStart + lag
      BY <2>2, <2>7, LatestFollows
         DEF StartReturns, Active, Calls, LoopStart, Latest, Limit
    <3>2. CASE Return("start-failed")
      BY <2>7, <3>2 DEF StartReturns, Return, OnTime, Active, Calls, InLoop
    <3>3. CASE Await("creating") /\ UNCHANGED client
      <4>1. "creating" \in Active /\ "creating" \notin InLoop
        BY DEF Active, Calls, InLoop
      <4> QED
        BY <2>1, <2>7, <3>1, <3>3, <4>1 DEF StartReturns, Await, OnTime
    <3>4. CASE EnterLoop /\ UNCHANGED client
      BY <2>3, <2>7, <3>1, <3>4 DEF StartReturns
    <3> QED
      BY <2>7, <3>2, <3>3, <3>4 DEF StartReturns
  <2>8. CASE CreateRun
    <3>1. waited <= Latest("starting") + lag /\ waited <= LoopStart + lag
      BY <2>2, <2>8, LatestFollows
         DEF CreateRun, Active, Calls, LoopStart, Latest, Limit
    <3>2. CASE Await("starting")
      <4>1. "starting" \in Active /\ "starting" \notin InLoop
        BY DEF Active, Calls, InLoop
      <4> QED
        BY <2>1, <2>8, <3>1, <3>2, <4>1 DEF CreateRun, Await, OnTime
    <3>3. CASE EnterLoop
      BY <2>3, <2>8, <3>1, <3>3 DEF CreateRun
    <3> QED
      BY <2>8, <3>2, <3>3 DEF CreateRun
  <2>9. CASE StepStarted
    <3>1. waited <= LoopStart + lag
      BY <2>2, <2>9, LatestFollows
         DEF StepStarted, Active, Calls, LoopStart, Latest, Limit
    <3> QED
      BY <2>3, <2>9, <3>1 DEF StepStarted
  <2>10. CASE WakeUp
    <3>1. waited <= Latest("polling") + lag
      BY <2>2, <2>10, LatestFollows DEF WakeUp, Active
    <3>2. "polling" \in Active /\ "sleeping" \in InLoop
      BY DEF Active, Calls, InLoop
    <3> QED
      BY <2>1, <2>10, <3>1, <3>2 DEF WakeUp, Await, OnTime
  <2>11. CASE PollBlind
    <3>1. waited <= Latest("reporting") + lag
      BY <2>2, <2>11, LatestFollows
         DEF PollBlind, Active, Calls, Latest, Limit, LoopStart
    <3> QED
      BY <2>5, <2>11, <3>1 DEF PollBlind, InLoop
  <2>12. CASE PollSession
    <3>1. waited <= Latest("logging") + lag
      BY <2>2, <2>12, LatestFollows DEF PollSession, Active, Calls
    <3>2. "logging" \in Active /\ "polling" \in InLoop
      BY DEF Active, Calls, InLoop
    <3> QED
      BY <2>1, <2>12, <3>1, <3>2 DEF PollSession, Await, OnTime
  <2>13. CASE GetLogs
    <3>1. waited <= Latest("reporting") + lag
      BY <2>2, <2>13, LatestFollows DEF GetLogs, Active, Calls
    <3>2. (\E o : Decide(o)) \/ NextRound(TRUE)
      BY <2>13 DEF GetLogs
    <3> QED
      BY <2>4, <2>5, <2>13, <3>1, <3>2 DEF GetLogs, InLoop
  <2>14. CASE Report
    BY <2>14 DEF Report, Return, OnTime, Active, Calls, InLoop
  <2>15. CASE Cancel \/ Restart
    BY <2>15 DEF Cancel, Restart, Abandon, OnTime, Active, Calls, InLoop,
                 clocks
  <2>16. CASE \/ SessionMoves \/ ServiceAppliesLate
              \/ ControlBegins \/ ControlEnds
    BY <2>16 DEF SessionMoves, ServiceAppliesLate, ControlBegins, ControlEnds,
                 OnTime, clocks
  <2>17. CASE ClientGivesUp
    <3>1. /\ at \in Active
          /\ waited <= Latest(at) + lag + Limit(at)
          /\ waited = Timeout + Buffer
      BY <2>17 DEF ClientGivesUp, OnTime, Patience
    <3>2. Latest(at) + Limit(at) < Timeout + Overhead
      BY <3>1, OverheadCovers
    <3>3. Latest(at) \in Nat /\ Limit(at) \in Nat /\ Overhead \in Nat
      BY <3>1 DEF Overhead, LoopStart
    <3>4. Buffer < Overhead + lag
      BY <3>1, <3>2, <3>3
    <3> QED
      BY <2>17, <3>4 DEF ClientGivesUp, OnTime, clocks
  <2>18. CASE Tick
    <3>1. at \in Active /\ at' = at /\ client' = client /\ busy' = busy + 1
      BY <2>18 DEF Tick
    <3>2. Latest(at) \in Nat /\ Limit(at) \in Nat
      BY <3>1
    <3>3. waited' \in {waited, waited + 1}
      BY <2>18 DEF Tick
    <3>4. \/ lag' = lag + 1
          \/ lag' = lag /\ busy < Limit(at)
      BY <2>18 DEF Tick
    <3>5. /\ waited <= Latest(at) + lag + busy
          /\ waited <= Latest(at) + lag + Limit(at)
      BY <3>1 DEF OnTime
    <3>6. /\ waited' <= Latest(at) + lag' + busy'
          /\ waited' <= Latest(at) + lag' + Limit(at)
      BY <3>1, <3>2, <3>3, <3>4, <3>5
    <3>7. ASSUME at \in InLoop, left' > 0
          PROVE  waited' + left' <= LoopStart + Timeout + lag'
      <4>1. left > 0 /\ left' = left - 1
        BY <2>18, <3>7 DEF Tick
      <4>2. waited + left <= LoopStart + Timeout + lag
        BY <3>7, <4>1 DEF OnTime
      <4> QED
        BY <3>3, <3>4, <4>1, <4>2 DEF LoopStart
    <3>8. PostOutlivesDispatch'
      BY <3>1, <3>4 DEF OnTime
    <3> QED
      BY <3>1, <3>6, <3>7, <3>8 DEF OnTime
  <2>19. CASE UNCHANGED vars
    BY <2>19 DEF vars, clocks, OnTime
  <2> QED
    BY <2>6, <2>7, <2>8, <2>9, <2>10, <2>11, <2>12, <2>13, <2>14, <2>15,
       <2>16, <2>17, <2>18, <2>19 DEF Next, Coroutine
<1>3. OnTime => PostOutlivesDispatch
  BY DEF OnTime, PostOutlivesDispatch
<1> QED
  BY <1>1, <1>2, <1>3, TypeCorrect, PTL DEF Spec
=============================================================================
