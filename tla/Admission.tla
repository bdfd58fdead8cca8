------------------------------ MODULE Admission ------------------------------
(***************************************************************************)
(* Who may dispatch: the steering file of src/multiplayer/steering.js,     *)
(* with which people pause a repository, redirect a session or stop it at  *)
(* a human gate, and the part of processTask in src/daemon.js that looks   *)
(* at it before a dispatch is forwarded and completes its execution        *)
(* policy (ExecutionPolicy).                                               *)
(*                                                                         *)
(* Steering commands run in processes of their own.  A command reads the   *)
(* file, and then writes it in place: the file is truncated first and      *)
(* filled by a second step.  A file that cannot be parsed counts as one in *)
(* which nothing is paused and nobody is gated.                            *)
(***************************************************************************)
EXTENDS ExecutionPolicy, Integers

CONSTANTS
  Processes,    \* processes that steer
  Sessions,     \* session ids
  Redirects,    \* capabilities a session can be redirected to
  NoRedirect,
  Requests,     \* execution policies the tasks ask for
  MaxCommands   \* bound on the steering commands started

ASSUME AdmissionAssumption ==
  /\ NoRedirect \notin Redirects
  /\ Requests \subseteq [Fields -> STRING]
  /\ MaxCommands \in Nat

VARIABLES
  file,      \* steering.json, or Torn
  pending,   \* the command each process has under way, or NoCommand
  truncated, \* processes that have emptied the file and not filled it
  started,   \* commands started so far
  dispatch,  \* the dispatch the daemon is at and what it decided
  want,      \* history: what the completed commands add up to
  clash      \* history: a command wrote over a change it had not read

admissionVars == <<file, pending, truncated, started, dispatch, want, clash>>

States == [paused : BOOLEAN, gates : SUBSET Sessions,
           redirect : [Sessions -> Redirects \union {NoRedirect}]]
EmptyState == [paused |-> FALSE, gates |-> {},
               redirect |-> [s \in Sessions |-> NoRedirect]]
Torn == [torn |-> TRUE]

Plain == [op : {"pause", "resume"}]
OfSession == [op : {"recordHumanGate", "clearHumanGate",
                    "clearRedirection"}, session : Sessions]
Redirections == [op : {"redirect"}, session : Sessions, to : Redirects]
Commands == Plain \union OfSession \union Redirections
NoCommand == [state |-> "none"]
PendingCommands == [command : Commands, base : States, state : States]
NoDispatch == [verdict |-> "none", policy |-> Nothing]

\* Types of the variables.
AdmissionTypeOK ==
  /\ file \in States \union {Torn}
  /\ pending \in [Processes -> PendingCommands \union {NoCommand}]
  /\ truncated \subseteq Processes
  /\ started \in 0..MaxCommands
  /\ dispatch = NoDispatch \/
     dispatch \in [session : Sessions, policy : [Fields -> STRING],
                   verdict : {"human-gate", "invalid-execution-policy",
                              "forwarded"}]
  /\ want \in [paused : BOOLEAN, gates : SUBSET Sessions]
  /\ clash \in BOOLEAN

AdmissionInit ==
  /\ file = EmptyState
  /\ pending = [p \in Processes |-> NoCommand]
  /\ truncated = {}
  /\ started = 0
  /\ dispatch = NoDispatch
  /\ want = [paused |-> FALSE, gates |-> {}]
  /\ clash = FALSE

-----------------------------------------------------------------------------
(* The steering commands.                                                  *)

Read == IF file = Torn THEN EmptyState ELSE file

\* Mutant: a redirection starts from an empty state.
ChangedMutant(c, st) ==
  CASE c.op = "redirect" -> [EmptyState EXCEPT !.redirect[c.session] = c.to]
    [] c.op = "pause" -> [st EXCEPT !.paused = TRUE]
    [] c.op = "resume" -> [st EXCEPT !.paused = FALSE]
    [] c.op = "clearRedirection" ->
         [st EXCEPT !.redirect[c.session] = NoRedirect]
    [] c.op = "recordHumanGate" -> [st EXCEPT !.gates = @ \union {c.session}]
    [] c.op = "clearHumanGate" -> [st EXCEPT !.gates = @ \ {c.session}]

\* pause, resume, redirect, clearRedirection, recordHumanGate and
\* clearHumanGate, which clears all the gates of the session.
Changed(c, st) ==
  CASE c.op = "pause" -> [st EXCEPT !.paused = TRUE]
    [] c.op = "resume" -> [st EXCEPT !.paused = FALSE]
    [] c.op = "redirect" -> [st EXCEPT !.redirect[c.session] = c.to]
    [] c.op = "clearRedirection" ->
         [st EXCEPT !.redirect[c.session] = NoRedirect]
    [] c.op = "recordHumanGate" -> [st EXCEPT !.gates = @ \union {c.session}]
    [] c.op = "clearHumanGate" -> [st EXCEPT !.gates = @ \ {c.session}]

\* The command reads the file and changes what it read.
Start(p, c) ==
  /\ pending[p] = NoCommand
  /\ started < MaxCommands
  /\ started' = started + 1
  /\ pending' = [pending EXCEPT ![p] =
       [command |-> c, base |-> Read, state |-> Changed(c, Read)]]
  /\ UNCHANGED <<file, truncated, dispatch, want, clash>>

\* writeFileSync opens the file, which empties it.
Truncate(p) ==
  /\ pending[p] # NoCommand /\ p \notin truncated
  /\ file' = Torn
  /\ truncated' = truncated \union {p}
  /\ UNCHANGED <<pending, started, dispatch, want, clash>>

\* What people asked for so far, and now with this command.
Wanted(c) ==
  [paused |-> c.op = "pause" \/ (c.op # "resume" /\ want.paused),
   gates |-> CASE c.op = "recordHumanGate" -> want.gates \union {c.session}
               [] c.op = "clearHumanGate" -> want.gates \ {c.session}
               [] OTHER -> want.gates]
Agrees(st) == st.paused = want.paused /\ st.gates = want.gates

\* The file is filled, and the command is done.  What another command has
\* filled in meanwhile is written over; what it was longer by stays behind.
Fill(p) ==
  /\ p \in truncated
  /\ \/ file' = pending[p].state
     \/ file # Torn /\ file' = Torn
  /\ want' = Wanted(pending[p].command)
  /\ clash' = (clash \/ ~Agrees(pending[p].base))
  /\ truncated' = truncated \ {p}
  /\ pending' = [pending EXCEPT ![p] = NoCommand]
  /\ UNCHANGED <<started, dispatch>>

\* The process ends before it is done; an emptied file stays empty.
CommandDies(p) ==
  /\ pending[p] # NoCommand
  /\ pending' = [pending EXCEPT ![p] = NoCommand]
  /\ truncated' = truncated \ {p}
  /\ UNCHANGED <<file, started, dispatch, want, clash>>

-----------------------------------------------------------------------------
(* The daemon.                                                             *)

\* Mutant: only the pause is looked at.
CanDispatchMutant(s) == ~Read.paused

CanDispatch(s) == ~Read.paused /\ s \notin Read.gates

\* The steps of processTask between the check of cwd and the forwarding of
\* an octowiz.dispatch with a cwd, one synchronous piece of code.  It gives
\* no defaults of its own to the policy.
Admit(s, requested) ==
  LET policy == ResolveExecutionPolicy(requested, Nothing)
      verdict == CASE ~CanDispatch(s) -> "human-gate"
                   [] /\ CanDispatch(s)
                      /\ requested.pattern # "unset"
                      /\ ~Valid(Candidate(requested, Nothing)) ->
                        "invalid-execution-policy"
                   [] OTHER -> "forwarded"
  IN  /\ dispatch = NoDispatch
      /\ dispatch' = [session |-> s, verdict |-> verdict,
                      policy |-> IF verdict = "forwarded" THEN policy
                                 ELSE Nothing]
      /\ UNCHANGED <<file, pending, truncated, started, want, clash>>

\* The result is posted; the next dispatch may come.
Posted ==
  /\ dispatch # NoDispatch
  /\ dispatch' = NoDispatch
  /\ UNCHANGED <<file, pending, truncated, started, want, clash>>

AdmissionNext ==
  \/ \E p \in Processes :
       \/ \E c \in Commands : Start(p, c)
       \/ Truncate(p)
       \/ Fill(p)
       \/ CommandDies(p)
  \/ \E s \in Sessions, r \in Requests : Admit(s, r)
  \/ Posted

AdmissionSpec == AdmissionInit /\ [][AdmissionNext]_admissionVars

-----------------------------------------------------------------------------
(* Properties.                                                             *)

\* A dispatch is forwarded against a pause or a human gate that people have
\* set only while the file is torn, by a command that writes it or by one
\* that crashed, or after a command wrote over another one's change.
GatesHold ==
  [][(dispatch # dispatch' /\ dispatch'.verdict = "forwarded")
     => \/ clash \/ file = Torn
        \/ ~want.paused /\ dispatch'.session \notin want.gates]_admissionVars

\* Without such a clash every command leaves the pause and the gates of the
\* others as they are.
CommandsAddUp == clash \/ file = Torn \/ Agrees(file)

\* What the daemon forwards passes the agent server's own check, so that
\* no dispatch it admits is turned down there for its policy.
ForwardedIsAccepted ==
  dispatch.verdict = "forwarded" => Accepted(dispatch.policy)
=============================================================================
