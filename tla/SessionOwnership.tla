--------------------------- MODULE SessionOwnership ---------------------------
(***************************************************************************)
(* The session ledger and the file claims kept in it:                      *)
(* src/multiplayer/sessions.js and src/multiplayer/ownership.js.           *)
(*                                                                         *)
(* The ledger is one file, sessions.json.  A call reads the whole          *)
(* document, changes it in memory and replaces the file by a rename; no    *)
(* lock spans the two.  Every session runs its own process, so the reads   *)
(* and writes of different calls interleave, and a write puts back the     *)
(* document the call read.  A claim is three such accesses: it reads the   *)
(* ledger to look for other owners, reads its own entry, and registers     *)
(* itself again with the longer list.                                      *)
(***************************************************************************)
EXTENDS Integers, FiniteSets

CONSTANTS
  Sessions,  \* session ids; each is also the process that calls for it
  Files,     \* files that can be claimed
  Strict,    \* createOwnershipManager({ strict })
  Ttl,       \* heartbeatTtlMs
  MaxTime,   \* bound: the clock stops here
  MaxOpen    \* bound: calls under way at once

\* The clock and the time to live are numbers of one unit.
ASSUME OwnershipAssumption ==
  /\ Ttl \in Nat
  /\ MaxTime \in Nat
  /\ MaxOpen \in Nat
  /\ Strict \in BOOLEAN

VARIABLES
  now,
  ledger,      \* sessions.json: the entry of each session, or NoEntry
  call,        \* what each process is in the middle of
  beat,        \* history: when the session last said it is alive
  lost         \* history: sessions whose last sign of life was overwritten

vars == <<now, ledger, call, beat, lost>>

Entries == [status : {"active", "stale"}, heard : 0..MaxTime,
            files : SUBSET Files]
NoEntry == [status |-> "none", heard |-> 0, files |-> {}]
Docs == [Sessions -> Entries \union {NoEntry}]
Empty == [s \in Sessions |-> NoEntry]

\* step: the next access of the call; doc: what it will write; then: what
\* follows the write; sign: the time at which the call's session showed that
\* it is alive.  History: dirty, another call has changed the ledger since
\* this one first read it; moved, the files it changed the standing of.
Calls == [step : {"idle", "write", "get", "put"}, doc : Docs,
          then : {"done", "purge", "get"},
          dirty : BOOLEAN, moved : SUBSET Files,
          sign : -1..MaxTime, add : SUBSET Files, drop : SUBSET Files]
Idle == [step |-> "idle", doc |-> Empty, then |-> "done",
         dirty |-> FALSE, moved |-> {},
         sign |-> -1, add |-> {}, drop |-> {}]

\* Types of the variables.
TypeOK ==
  /\ now \in 0..MaxTime
  /\ ledger \in Docs
  /\ call \in [Sessions -> Calls]
  /\ beat \in [Sessions -> 0..MaxTime]
  /\ lost \in SUBSET Sessions

Init ==
  /\ now = 0
  /\ ledger = Empty
  /\ call = [s \in Sessions |-> Idle]
  /\ beat = [s \in Sessions |-> 0]
  /\ lost = {}

-----------------------------------------------------------------------------
(* What the calls do to a document.                                        *)

Known(doc, s) == doc[s].status # "none"
Active(doc, s) == doc[s].status = "active"

\* What the document says of a session and a file: the status under which
\* the session has it, or "none".
Standing(doc, s, f) ==
  IF f \in doc[s].files THEN doc[s].status ELSE "none"

\* register: a new entry, or the old one active again and heard of now.
\* What is not given is left alone; a claim gives the files.
Registered(doc, s, files) ==
  [doc EXCEPT ![s] = [status |-> "active", heard |-> now, files |-> files]]

\* Mutant: the time of the heartbeat is not recorded.
BeatenMutant(doc, s) == [doc EXCEPT ![s].status = "active"]

\* heartbeat: whatever the status was, the session is active again.
Beaten(doc, s) == [doc EXCEPT ![s].status = "active", ![s].heard = now]

Released(doc, s) == [doc EXCEPT ![s] = NoEntry]

Expired(doc) ==
  [s \in Sessions |-> IF Active(doc, s) /\ now - doc[s].heard > Ttl
                      THEN [doc[s] EXCEPT !.status = "stale"]
                      ELSE doc[s]]

Purged(doc) ==
  [s \in Sessions |-> IF doc[s].status = "stale" THEN NoEntry ELSE doc[s]]

OwnedByOthers(doc, s) ==
  UNION {doc[t].files : t \in {u \in Sessions \ {s} : Active(doc, u)}}

\* Mutant: in advisory mode the claim takes the conflicting files too.
GrantedMutant(doc, s, fs) ==
  IF Strict /\ fs \intersect OwnedByOthers(doc, s) # {} THEN {} ELSE fs

\* The files a claim of fs gets: those no active session holds, and in
\* strict mode none at all when one of them is held.
Granted(doc, s, fs) ==
  LET taken == fs \intersect OwnedByOthers(doc, s)
  IN  IF Strict /\ taken # {} THEN {} ELSE fs \ taken

-----------------------------------------------------------------------------
(* The calls.  Begin is the read of the document with everything computed  *)
(* from it; the accesses that follow are steps of their own.               *)

Open == {s \in Sessions : call[s].step # "idle"}

Begin(s, c) ==
  /\ s \notin Open
  /\ Cardinality(Open) < MaxOpen
  /\ call' = [call EXCEPT ![s] = c]
  /\ UNCHANGED <<now, ledger, beat, lost>>

Writing(doc, then, add) ==
  [Idle EXCEPT !.step = "write", !.doc = doc, !.then = then, !.add = add]
Signing(doc) == [Writing(doc, "done", {}) EXCEPT !.sign = now]

Register(s) == Begin(s, Signing(Registered(ledger, s, ledger[s].files)))

Heartbeat(s) ==
  /\ Known(ledger, s)
  /\ Begin(s, Signing(Beaten(ledger, s)))

Release(s) ==
  /\ Known(ledger, s)
  /\ Begin(s, Writing(Released(ledger, s), "done", {}))

\* activeSessions and all that only asks: it writes if an entry expired.
ActiveSessions(s) ==
  /\ Expired(ledger) # ledger
  /\ Begin(s, Writing(Expired(ledger), "done", {}))

\* The expired entries are written as stale first, if there are any.
PurgeStale(s) ==
  LET doc == Expired(ledger)
  IN  Begin(s, IF doc # ledger THEN Writing(doc, "purge", {})
               ELSE Writing(Purged(doc), "done", {}))

ClaimFiles(s, fs) ==
  LET doc == Expired(ledger)
      add == Granted(doc, s, fs)
      then == IF add = {} THEN "done" ELSE "get"
  IN  /\ doc # ledger \/ add # {}
      /\ Begin(s, IF doc # ledger THEN Writing(doc, then, add)
                  ELSE [Idle EXCEPT !.step = "get", !.add = add])

\* releaseFiles; releaseAll is the call with every file.
ReleaseFiles(s, fs) ==
  Begin(s, [Idle EXCEPT !.step = "get", !.drop = fs])

\* getSession: without an entry nothing is recorded, and the claim still
\* tells its caller that the files are claimed.
GetSession(s) ==
  /\ call[s].step = "get"
  /\ call' = [call EXCEPT ![s] =
       IF Known(ledger, s)
       THEN [@ EXCEPT !.step = "put",
                      !.add = (ledger[s].files \union call[s].add)
                                 \ call[s].drop]
       ELSE Idle]
  /\ UNCHANGED <<now, ledger, beat, lost>>

\* The read of the register that ends a claim or a release of files.
Reregister(s) ==
  /\ call[s].step = "put"
  /\ call' = [call EXCEPT ![s] =
       [@ EXCEPT !.step = "write", !.then = "done", !.add = {}, !.drop = {},
                 !.sign = now, !.doc = Registered(ledger, s, call[s].add)]]
  /\ UNCHANGED <<now, ledger, beat, lost>>

\* The files whose standing a write of the document changes.
Moving(doc) ==
  {f \in Files : \E u \in Sessions :
                   Standing(doc, u, f) # Standing(ledger, u, f)}

\* The rename.  A write that changes the ledger makes the other calls'
\* readings stale.  A write of a stale reading may put back an older time
\* than the one at which a session was last heard of.
Write(s) ==
  LET c == call[s]
      next == CASE c.then = "done" -> Idle
                [] c.then = "purge" -> [c EXCEPT !.doc = Purged(c.doc),
                                                 !.then = "done"]
                [] c.then = "get" -> [c EXCEPT !.step = "get", !.doc = Empty,
                                               !.then = "done"]
  IN  /\ c.step = "write"
      /\ ledger' = c.doc
      /\ call' = [t \in Sessions |->
           IF t = s THEN next
           ELSE IF t \in Open /\ c.doc # ledger
                THEN [call[t] EXCEPT !.dirty = TRUE,
                                     !.moved = @ \union Moving(c.doc)]
                ELSE call[t]]
      /\ beat' = [beat EXCEPT ![s] = IF c.sign # -1 THEN c.sign ELSE @]
      /\ lost' = {t \in Sessions : /\ t \in lost \/ c.dirty
                                   /\ c.doc[t].heard # beat'[t]}
      /\ UNCHANGED now

\* The process ends in the middle of a call; the file is left as it was.
Crash(s) ==
  /\ s \in Open
  /\ call' = [call EXCEPT ![s] = Idle]
  /\ UNCHANGED <<now, ledger, beat, lost>>

Tick ==
  /\ now < MaxTime
  /\ now' = now + 1
  /\ UNCHANGED <<ledger, call, beat, lost>>

Next ==
  \/ Tick
  \/ \E s \in Sessions :
       \/ Register(s)
       \/ Heartbeat(s)
       \/ Release(s)
       \/ ActiveSessions(s)
       \/ PurgeStale(s)
       \/ \E fs \in SUBSET Files \ {{}} :
            \/ ClaimFiles(s, fs)
            \/ ReleaseFiles(s, fs)
       \/ GetSession(s)
       \/ Reregister(s)
       \/ Write(s)
       \/ Crash(s)

Spec == Init /\ [][Next]_vars

-----------------------------------------------------------------------------
(* Properties.                                                             *)

Owners(f) == {s \in Sessions : Active(ledger, s) /\ f \in ledger[s].files}

\* The step makes the two of them active owners of the file together.
NewlyShared(f, s, t) ==
  s # t /\ {s, t} \subseteq Owners(f)' /\ ~({s, t} \subseteq Owners(f))

\* A file gets two active owners only in a write of one of two kinds: that
\* of a call which first read the ledger before another call changed who
\* has this very file, or that of one of the two, recorded as stale, which
\* comes back with the file it had while the other has claimed it.
SharingHasACause ==
  [][\A f \in Files : \A s, t \in Sessions :
       NewlyShared(f, s, t) =>
         \E u \in Sessions :
           /\ Write(u)
           /\ \/ f \in call[u].moved
              \/ /\ u \in {s, t}
                 /\ Standing(ledger, u, f) = "stale"]_vars

\* A session recorded as stale has been silent for longer than its time to
\* live, so that the files of a session that keeps up its heartbeat are not
\* given to another one; except a session whose last heartbeat a call has
\* overwritten that read the ledger before it.
StaleIsSilent ==
  \A s \in Sessions \ lost :
    ledger[s].status = "stale" => now - beat[s] > Ttl
=============================================================================
