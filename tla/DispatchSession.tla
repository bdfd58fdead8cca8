-------------------------- MODULE DispatchSession --------------------------
(***************************************************************************)
(* One octowiz.dispatch request of apps/a2a-agent: the coroutine of        *)
(* capabilities/dispatch.py, the executor thread that launches the Claude  *)
(* session and registers its owner, the session itself, the owner's        *)
(* manage_agents calls, the run kept at the workflow service, and the      *)
(* daemon that posted the request and waits for the answer.                *)
(*                                                                         *)
(* Time passes in ticks.  Every call ends within its own limit, at any     *)
(* moment before it; a control call of manage_agents runs on the event     *)
(* loop and holds up the coroutine meanwhile.                              *)
(***************************************************************************)
EXTENDS Naturals

CONSTANTS
  Timeout,       \* OCTOWIZ_DISPATCH_TIMEOUT, what the deadline allows
  PollInterval,  \* OCTOWIZ_DISPATCH_POLL_INTERVAL
  StartLimit,    \* launching the CLI and five listings to find the session
  CallLimit,     \* one call of the claude CLI
  HttpLimit,     \* one call to the workflow service
  Buffer,        \* HTTP_TIMEOUT_BUFFER_MS, the daemon's patience on top
  MaxLag         \* bound on the ticks the loop is held up by control calls

ASSUME LimitsAssumption ==
  /\ Timeout \in Nat \ {0}
  /\ PollInterval \in Nat \ {0}
  /\ StartLimit \in Nat
  /\ CallLimit \in Nat
  /\ HttpLimit \in Nat
  /\ Buffer \in Nat
  /\ MaxLag \in Nat

Listed == {"running", "waiting", "stopped", "error"}
Outcomes == {"start-failed", "needs-input", "completed", "error",
             "timeout", "orphaned"}
RunStatuses == {"pending", "running", "paused", "completed", "failed"}

VARIABLES
  at,        \* what the coroutine awaits
  thread,    \* the executor job of _dispatch_and_register
  session,   \* the session as `claude agents` knows it
  owned,     \* session_owners holds its principal
  observed,  \* what the last listing said of it
  seen,      \* _ever_observed
  outcome,   \* the artifact decided on, "none" before
  run,       \* the run at the workflow service
  late,      \* updates given up on that the service may still apply
  tracked,   \* _wf_run_id is known
  client,    \* the daemon's POST
  busy,      \* ticks spent in what the coroutine awaits
  left,      \* ticks until the deadline
  waited,    \* ticks since the POST
  blocked,   \* a control call holds the event loop
  lag,       \* ticks it was held so far
  faulted    \* history: some update was given up on

clocks == <<busy, left, waited, lag>>
tracking == <<run, late, tracked, faulted>>
vars == <<at, thread, session, owned, observed, seen, outcome, tracking,
          client, clocks, blocked>>

Calls == {"launching", "creating", "starting", "polling", "logging",
          "reporting"}
Active == Calls \cup {"sleeping"}
InLoop == {"sleeping", "polling", "logging"}

Limit(a) ==
  CASE a = "launching" -> StartLimit
    [] a = "sleeping" -> PollInterval
    [] a \in {"polling", "logging"} -> CallLimit
    [] OTHER -> HttpLimit

Patience == Timeout + Buffer   \* a2aTimeoutMs

RunStatusOf(o) ==
  CASE o = "needs-input" -> "paused"
    [] o = "completed" -> "completed"
    [] OTHER -> "failed"

-----------------------------------------------------------------------------
(* The executor thread: it runs on when the coroutine is cancelled.        *)

LaunchSession ==
  /\ thread = "launching"
  /\ thread' = "resolving"
  /\ session' = "running"
  /\ UNCHANGED <<at, owned, observed, seen, outcome, tracking, client, clocks,
                 blocked>>

\* The CLI times out, fails, or prints no banner the code recognises.  The
\* session may be running all the same.
LaunchFails ==
  /\ thread = "launching"
  /\ thread' = "failed"
  /\ session' \in {"none", "running"}
  /\ UNCHANGED <<at, owned, observed, seen, outcome, tracking, client, clocks,
                 blocked>>

\* Mutant: the coroutine registers the owner when its await returns.
RegisterOwnerMutant ==
  /\ thread = "resolving"
  /\ thread' = "registered"
  /\ owned' = (at = "launching")
  /\ UNCHANGED <<at, session, observed, seen, outcome, tracking, client,
                 clocks, blocked>>

RegisterOwner ==
  /\ thread = "resolving"
  /\ thread' = "registered"
  /\ owned' = TRUE
  /\ UNCHANGED <<at, session, observed, seen, outcome, tracking, client,
                 clocks, blocked>>

-----------------------------------------------------------------------------
(* Calls to the workflow service: a failed one is logged and forgotten,    *)
(* and one that timed out may still be applied.                            *)

Update(status) ==
  \/ run' = status /\ UNCHANGED <<late, faulted>>
  \/ late' = late \cup {status} /\ faulted' = TRUE /\ run' = run

ServiceAppliesLate ==
  \E status \in late :
    /\ late' = late \ {status}
    /\ run' = status
    /\ UNCHANGED <<at, thread, session, owned, observed, seen, outcome,
                   tracked, faulted, client, clocks, blocked>>

-----------------------------------------------------------------------------
(* The coroutine.                                                          *)

Await(a) == at' = a /\ busy' = 0

\* The artifact is returned.  mark_orphaned gives the ownership up.
Return(o) ==
  /\ at' = "returned"
  /\ outcome' = o
  /\ owned' = (owned /\ o # "orphaned")
  /\ client' = IF client = "waiting" THEN "answered" ELSE client
  /\ UNCHANGED busy

\* The artifact is decided; a tracked run is told first.
Decide(o) ==
  \/ /\ tracked
     /\ outcome' = o
     /\ Await("reporting")
     /\ UNCHANGED <<owned, client>>
  \/ ~tracked /\ Return(o)

\* Mutant: a session that was seen is waited for.
NextRoundMutant(everSeen) ==
  \/ /\ left > 0 \/ everSeen
     /\ Await("sleeping")
     /\ UNCHANGED <<outcome, owned, client>>
  \/ left = 0 /\ ~everSeen /\ Decide("orphaned")

\* while time.monotonic() < deadline
NextRound(everSeen) ==
  \/ left > 0 /\ Await("sleeping") /\ UNCHANGED <<outcome, owned, client>>
  \/ left = 0 /\ Decide(IF everSeen THEN "timeout" ELSE "orphaned")

\* run(): the deadline is set only now.
EnterLoop ==
  /\ Await("sleeping")
  /\ left' = Timeout

StartReturns ==
  /\ at = "launching" /\ ~blocked
  /\ \/ thread = "failed" /\ Return("start-failed") /\ UNCHANGED left
     \/ /\ thread = "registered"
        /\ \/ Await("creating") /\ UNCHANGED left
           \/ EnterLoop   \* no workflow service is configured
        /\ UNCHANGED <<outcome, owned, client>>
  /\ UNCHANGED <<thread, session, observed, seen, tracking, waited, lag,
                 blocked>>

\* Without an answer there is no run id, and the run is never told anything.
CreateRun ==
  /\ at = "creating" /\ ~blocked
  /\ Update("pending")
  /\ IF faulted' THEN EnterLoop /\ UNCHANGED tracked
     ELSE Await("starting") /\ tracked' = TRUE /\ UNCHANGED left
  /\ UNCHANGED <<thread, session, owned, observed, seen, outcome, client,
                 waited, lag, blocked>>

StepStarted ==
  /\ at = "starting" /\ ~blocked
  /\ Update("running")
  /\ EnterLoop
  /\ UNCHANGED <<thread, session, owned, observed, seen, outcome, tracked,
                 client, waited, lag, blocked>>

WakeUp ==
  /\ at = "sleeping" /\ ~blocked
  /\ busy >= PollInterval
  /\ Await("polling")
  /\ UNCHANGED <<thread, session, owned, observed, seen, outcome, tracking,
                 client, left, waited, lag, blocked>>

\* list_sessions returns [] for any failure of the CLI: a session that is
\* not listed and a listing that failed look the same.
PollBlind ==
  /\ at = "polling" /\ ~blocked
  /\ NextRound(seen)
  /\ UNCHANGED <<thread, session, observed, seen, tracking, left, waited, lag,
                 blocked>>

PollSession ==
  /\ at = "polling" /\ ~blocked
  /\ session \in Listed
  /\ observed' = session
  /\ seen' = TRUE
  /\ Await("logging")
  /\ UNCHANGED <<thread, session, owned, outcome, tracking, client, left,
                 waited, lag, blocked>>

\* The logs are fetched, or not; the verdict is that of the listing.
GetLogs ==
  /\ at = "logging" /\ ~blocked
  /\ CASE observed = "waiting" -> Decide("needs-input")
       [] observed = "error" -> Decide("error")
       [] observed = "stopped" -> Decide("completed")
       [] OTHER -> NextRound(TRUE)
  /\ UNCHANGED <<thread, session, observed, seen, tracking, left, waited, lag,
                 blocked>>

\* Mutant: a session that timed out is reported as one that waits.
ReportMutant ==
  /\ at = "reporting" /\ ~blocked
  /\ Update(IF outcome = "timeout" THEN "paused" ELSE RunStatusOf(outcome))
  /\ Return(outcome)
  /\ UNCHANGED <<thread, session, observed, seen, tracked, left, waited, lag,
                 blocked>>

Report ==
  /\ at = "reporting" /\ ~blocked
  /\ Update(RunStatusOf(outcome))
  /\ Return(outcome)
  /\ UNCHANGED <<thread, session, observed, seen, tracked, left, waited, lag,
                 blocked>>

-----------------------------------------------------------------------------
(* What happens to a dispatch.                                             *)

\* What the coroutine is asking of the service, if anything.
InFlight ==
  CASE at = "creating" -> {"pending"}
    [] at = "starting" -> {"running"}
    [] at = "reporting" -> {RunStatusOf(outcome)}
    [] OTHER -> {}

Abandon ==
  /\ late' = late \cup InFlight
  /\ faulted' = (faulted \/ InFlight # {})
  /\ client' = IF client = "waiting" THEN "broken" ELSE client
  /\ UNCHANGED <<run, tracked>>

\* The request is cancelled; no handler catches a CancelledError.
Cancel ==
  /\ at \in Active /\ ~blocked
  /\ at' = "cancelled"
  /\ Abandon
  /\ UNCHANGED <<thread, session, owned, observed, seen, outcome, clocks,
                 blocked>>

\* The server process dies and comes back without its registry.  Sessions
\* live on, one whose launch was under way included.
Restart ==
  /\ thread # "killed"
  /\ at' = IF at \in Active THEN "killed" ELSE at
  /\ thread' = "killed"
  /\ \/ UNCHANGED session
     \/ thread = "launching" /\ session' = "running"
  /\ owned' = FALSE
  /\ blocked' = FALSE
  /\ Abandon
  /\ UNCHANGED <<observed, seen, outcome, clocks>>

\* The session goes on by itself, or its user removes it in a terminal.
SessionMoves ==
  /\ session \in Listed
  /\ session' \in (Listed \cup {"gone"}) \ {session}
  /\ UNCHANGED <<at, thread, owned, observed, seen, outcome, tracking, client,
                 clocks, blocked>>

\* The daemon's socket times out: it posts an error to the queue.
ClientGivesUp ==
  /\ client = "waiting"
  /\ at \in Active
  /\ waited = Patience
  /\ client' = "aborted"
  /\ UNCHANGED <<at, thread, session, owned, observed, seen, outcome, tracking,
                 clocks, blocked>>

-----------------------------------------------------------------------------
(* manage_agents: anyone may list the agents, and of a session that is     *)
(* registered its owner may ask for logs, stop, rm and respawn.            *)

ControlBegins ==
  /\ ~blocked
  /\ blocked' = TRUE
  /\ UNCHANGED <<at, thread, session, owned, observed, seen, outcome, tracking,
                 client, clocks>>

\* A call that failed may have reached the session; only an rm that the CLI
\* reports as done takes the record away.
ControlEnds ==
  /\ blocked
  /\ blocked' = FALSE
  /\ \/ /\ owned /\ session \in Listed
        /\ session' \in {"stopped", "running", "gone"}
     \/ UNCHANGED session
  /\ \/ UNCHANGED owned
     \/ session' = "gone" /\ owned' = FALSE
  /\ UNCHANGED <<at, thread, observed, seen, outcome, tracking, client,
                 clocks>>

-----------------------------------------------------------------------------
\* A call may last up to its limit, and the coroutine hears of it once the
\* loop is free.
Tick ==
  /\ at \in Active
  /\ IF blocked THEN lag < MaxLag ELSE busy < Limit(at)
  /\ client = "waiting" => waited < Patience
  /\ busy' = busy + 1
  /\ left' = IF at \in InLoop /\ left > 0 THEN left - 1 ELSE left
  /\ waited' = IF client = "waiting" THEN waited + 1 ELSE waited
  /\ lag' = IF blocked THEN lag + 1 ELSE lag
  /\ UNCHANGED <<at, thread, session, owned, observed, seen, outcome, tracking,
                 client, blocked>>

Init ==
  /\ at = "launching"
  /\ thread = "launching"
  /\ session = "none"
  /\ owned = FALSE
  /\ observed = "none"
  /\ seen = FALSE
  /\ outcome = "none"
  /\ run = "none" /\ late = {} /\ tracked = FALSE /\ faulted = FALSE
  /\ client = "waiting"
  /\ busy = 0 /\ left = 0 /\ waited = 0 /\ lag = 0
  /\ blocked = FALSE

Launcher == LaunchSession \/ LaunchFails \/ RegisterOwner

Coroutine ==
  \/ StartReturns \/ CreateRun \/ StepStarted
  \/ WakeUp \/ PollBlind \/ PollSession \/ GetLogs
  \/ Report

Next ==
  \/ Launcher
  \/ Coroutine
  \/ ServiceAppliesLate
  \/ Cancel \/ Restart
  \/ SessionMoves
  \/ ClientGivesUp
  \/ ControlBegins \/ ControlEnds
  \/ Tick

Spec == Init /\ [][Next]_vars

\* Calls end, the loop runs what is ready, time passes.  Control calls hold
\* the loop for MaxLag ticks in all but may keep coming, so that what waits
\* for a free loop is ready again and again: that takes strong fairness, as
\* the loop's ready queue is first in, first out.
FairSpec ==
  /\ Spec
  /\ WF_vars(Launcher)
  /\ SF_vars(Coroutine)
  /\ WF_vars(ControlEnds)
  /\ WF_vars(ClientGivesUp)
  /\ SF_vars(Tick)

-----------------------------------------------------------------------------
(* Properties.                                                             *)

StatesOK ==
  /\ at \in Active \cup {"returned", "cancelled", "killed"}
  /\ thread \in {"launching", "resolving", "registered", "failed", "killed"}
  /\ session \in Listed \cup {"none", "gone"}
  /\ observed \in Listed \cup {"none"}
  /\ outcome \in Outcomes \cup {"none"}
  /\ run \in RunStatuses \cup {"none"}
  /\ late \subseteq RunStatuses
  /\ client \in {"waiting", "answered", "aborted", "broken"}

FlagsOK ==
  /\ owned \in BOOLEAN
  /\ seen \in BOOLEAN
  /\ tracked \in BOOLEAN
  /\ faulted \in BOOLEAN
  /\ blocked \in BOOLEAN

ClocksOK ==
  /\ busy \in Nat
  /\ left \in 0 .. Timeout
  /\ waited \in 0 .. Patience
  /\ lag \in 0 .. MaxLag

TypeOK == StatesOK /\ FlagsOK /\ ClocksOK

\* "this thread still completes and the session is tracked, so manage_agents
\* log/stop/rm calls are not rejected" (dispatch.py:60-61): whenever the
\* request is cancelled, however it ends and whatever its owner tried, a
\* session that was launched and registered stays its owner's, unless it was
\* given up as an orphan or the server lost its registry.
SessionsAreTracked ==
  /\ thread = "registered"
  /\ session \in Listed
  /\ ~(at = "returned" /\ outcome = "orphaned")
  => owned

\* What the workflow service records of a run agrees with what the caller is
\* told, in spite of updates that fail, time out or arrive late; and when
\* every update got through, a returned dispatch leaves its run settled.
RunTellsOutcome ==
  /\ run \in {"paused", "completed", "failed"} =>
       outcome # "none" /\ run = RunStatusOf(outcome)
  /\ at = "returned" /\ tracked /\ ~faulted => run = RunStatusOf(outcome)

\* A POST is aborted only if the buffer is too small for what the deadline
\* does not count: the start of the dispatch, its last round and report, and
\* the time the loop was held up.
LoopStart == StartLimit + HttpLimit + HttpLimit
Overhead == LoopStart + PollInterval + CallLimit + CallLimit + HttpLimit
PostOutlivesDispatch == client = "aborted" => Buffer < Overhead + lag

\* "The HTTP timeout must exceed the Python ceiling so a POST is never aborted
\* before Python finishes" (config.js:214-215).
PostNeverAborted == client # "aborted"

\* Whatever the session, the service and its owner do, the dispatch ends and
\* its caller stops waiting.
DispatchEnds == <>(at \notin Active /\ client # "waiting")
=============================================================================
