----------------------------- MODULE TaskLeases -----------------------------
(***************************************************************************)
(* The task lease manager of src/multiplayer/task-leases.js: exclusive     *)
(* rights to work on a task for a bounded time.                            *)
(*                                                                         *)
(* The leases live in the memory of one process, so every call is one      *)
(* step.  A session only knows what the manager last told it: the token    *)
(* of its lease and the time until which it may work.                      *)
(***************************************************************************)
EXTENDS Integers

CONSTANTS
  Tasks,      \* task ids
  Holders,    \* session ids
  NoHolder,   \* the holder of a lease that is not there
  Default,    \* leaseDurationMs
  Durations,  \* durations a caller asks for
  MaxClock,   \* bound: the clock stops here
  MaxTokens   \* bound on the leases granted

ASSUME LeaseAssumption ==
  /\ NoHolder \notin Holders
  /\ Default \in Nat
  /\ Durations \subseteq Nat
  /\ MaxClock \in Nat
  /\ MaxTokens \in Nat

VARIABLES
  clock,
  leases,  \* the map: the lease of each task
  last,    \* the last token generated; a token is never generated twice
  told     \* what each session was last told of its lease of each task

leaseVars == <<clock, leases, last, told>>

NoLease == [holder |-> NoHolder, token |-> 0, until |-> 0,
            status |-> "none"]
Leases == [holder : Holders \union {NoHolder}, token : Nat, until : Nat,
           status : {"none", "active", "expired"}]
NoWord == [token |-> 0, until |-> 0]

\* Types of the variables.
LeaseTypeOK ==
  /\ clock \in Nat
  /\ leases \in [Tasks -> Leases]
  /\ last \in Nat
  /\ told \in [Holders -> [Tasks -> [token : Nat, until : Nat]]]

LeaseInit ==
  /\ clock = 0
  /\ leases = [t \in Tasks |-> NoLease]
  /\ last = 0
  /\ told = [s \in Holders |-> [t \in Tasks |-> NoWord]]

-----------------------------------------------------------------------------

\* Mutant: the lease counts as expired in its last unit already, a unit
\* before the session that was told until then stops.
IsExpiredMutant(lease) == lease.until <= clock

\* _isExpired: the last unit of a lease still counts.
IsExpired(lease) == lease.until < clock

Held(t) == leases[t].status = "active" /\ ~IsExpired(leases[t])
Marked(lease) == [lease EXCEPT !.status = "expired"]

Tell(s, t, token, until) ==
  told' = [told EXCEPT ![s][t] = [token |-> token, until |-> until]]

\* claim of a task nobody holds: there is no lease, it was marked, or it
\* has expired since.
ClaimFree(s, t, d) ==
  /\ ~Held(t)
  /\ last < MaxTokens
  /\ last' = last + 1
  /\ leases' = [leases EXCEPT ![t] =
       [holder |-> s, token |-> last', until |-> clock + d,
        status |-> "active"]]
  /\ Tell(s, t, last', clock + d)
  /\ UNCHANGED clock

\* claim of a task the session holds: a renewal by the default duration,
\* whatever duration the claim asks for.
ClaimAgain(s, t) ==
  /\ Held(t) /\ leases[t].holder = s
  /\ leases' = [leases EXCEPT ![t].until = clock + Default]
  /\ Tell(s, t, leases[t].token, clock + Default)
  /\ UNCHANGED <<clock, last>>

\* A claim of a task another session holds is refused and changes nothing.

HasToken(s, t) == told[s][t].token # 0 /\ leases[t].token = told[s][t].token

\* Mutant: an expired lease is renewed all the same.
RenewMutant(s, t, d) ==
  /\ HasToken(s, t)
  /\ leases' = [leases EXCEPT ![t].until = clock + d, ![t].status = "active"]
  /\ Tell(s, t, leases[t].token, clock + d)
  /\ UNCHANGED <<clock, last>>

\* renew with the token the session was given.
Renew(s, t, d) ==
  /\ HasToken(s, t)
  /\ Held(t)
  /\ leases' = [leases EXCEPT ![t].until = clock + d]
  /\ Tell(s, t, leases[t].token, clock + d)
  /\ UNCHANGED <<clock, last>>

\* renew, getLease and activeLeases mark a lease they find expired; it
\* stays in the map.
MarkExpired(t) ==
  /\ leases[t].status = "active" /\ IsExpired(leases[t])
  /\ leases' = [leases EXCEPT ![t] = Marked(@)]
  /\ UNCHANGED <<clock, last, told>>

\* release with the token, expired or not; the session gives up what it
\* was told.
ReleaseLease(s, t) ==
  /\ HasToken(s, t)
  /\ leases' = [leases EXCEPT ![t] = NoLease]
  /\ told' = [told EXCEPT ![s][t] = NoWord]
  /\ UNCHANGED <<clock, last>>

\* expireStale removes what has expired since the last look; a lease that
\* was marked before is skipped and stays.
ExpireStale ==
  LET old == {t \in Tasks : leases[t].status = "active"
                            /\ IsExpired(leases[t])}
  IN  /\ old # {}
      /\ leases' = [t \in Tasks |-> IF t \in old THEN NoLease ELSE leases[t]]
      /\ UNCHANGED <<clock, last, told>>

LeaseTick ==
  /\ clock < MaxClock
  /\ clock' = clock + 1
  /\ UNCHANGED <<leases, last, told>>

LeaseNext ==
  \/ LeaseTick
  \/ ExpireStale
  \/ \E t \in Tasks :
       \/ MarkExpired(t)
       \/ \E s \in Holders :
            \/ ClaimAgain(s, t)
            \/ ReleaseLease(s, t)
            \/ \E d \in Durations : ClaimFree(s, t, d) \/ Renew(s, t, d)

LeaseSpec == LeaseInit /\ [][LeaseNext]_leaseVars

-----------------------------------------------------------------------------
(* Properties.                                                             *)

Believes(s, t) == told[s][t].token # 0 /\ told[s][t].until >= clock

\* Two sessions never both have a time that has not passed for one task:
\* a lease is reclaimed only when its holder has stopped.
LeaseExcludes ==
  \A t \in Tasks : \A s, u \in Holders :
    Believes(s, t) /\ Believes(u, t) => s = u

\* A lease that has expired, or was marked, released or removed, never
\* holds again: whoever wants the task must be granted a new token.
DeadTokensStayDead ==
  [][\A t \in Tasks :
       /\ leases'[t].status = "active"
       /\ leases'[t] # leases[t]
       /\ leases'[t].token <= last
       => Held(t) /\ leases[t].token = leases'[t].token]_leaseVars
=============================================================================
