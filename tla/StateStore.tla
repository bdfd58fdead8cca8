----------------------------- MODULE StateStore -----------------------------
(***************************************************************************)
(* The write contract of src/state/store.js and ledger.js: processes       *)
(* that share one .octowiz directory run init, mutate and repair through a *)
(* lock file, an atomically renamed snapshot and an append-only ledger.    *)
(* One action is one call on the file system that another process can see  *)
(* the effect of, because there is no other synchronisation.               *)
(*                                                                         *)
(* A document is its revision and the set of commands whose effect it      *)
(* carries; what a command changes is EngineeringState's subject.  Every   *)
(* mutation is taken to emit one event, as each of operations.js and       *)
(* transitions.js does.  Not modelled: a torn ledger line, and an edit of  *)
(* state.json by hand while a command holds the lock.                      *)
(***************************************************************************)
EXTENDS Integers, Sequences, FiniteSets

CONSTANTS
  Processes,     \* processes running `octowiz state` commands
  NoProcess,     \* no process: the owner of a lock file that is not there
  Kinds,         \* the commands they run
  Mishaps,       \* what may go wrong
  MaxCommands,   \* bound: commands started
  MaxMishaps     \* bound: mishaps

ASSUME ConstantsAssumption ==
  /\ NoProcess \notin Processes
  /\ Kinds \subseteq {"mutate", "init", "force-init", "repair"}
  /\ Mishaps \subseteq {"crash", "append", "undo", "slow", "edit"}
  /\ MaxCommands \in Nat
  /\ MaxMishaps \in Nat

Commands == 1 .. MaxCommands

Doc == [kind : {"doc"}, rev : Nat, carries : SUBSET Commands]
Absent == [kind |-> "absent", rev |-> 0, carries |-> {}]
\* Unreadable, each hand edit in its own way.
Corrupt(n) == [kind |-> "corrupt", rev |-> n, carries |-> {}]
File == Doc \cup {Absent} \cup {Corrupt(n) : n \in 0 .. MaxMishaps}
NewDoc(rev, carries) == [kind |-> "doc", rev |-> rev, carries |-> carries]

NoLock == [owner |-> NoProcess, written |-> FALSE, stale |-> FALSE]

VARIABLES
  file,       \* .octowiz/state.json
  ledger,     \* .octowiz/events.jsonl: the revision of each event
  lock,       \* .octowiz/state.lock: who made it, is its content there yet,
              \* is it older than LOCK_STALE_MS
  pc,         \* where each process is
  cmd,        \* the command it runs, with that command's local variables
  \* history, read by the properties alone
  started,    \* commands started
  mishaps,    \* mishaps so far
  acked,      \* mutations and inits that returned ok, since the last reset
  failed,     \* mutations that threw after putting the old snapshot back
  breached,   \* a lock file was unlinked while its maker held it
  clobbered,  \* an init or repair replaced a file other than it had found
  rewound     \* the ways in which a write took the revision back

disk == <<file, ledger>>
history == <<started, mishaps, acked, failed, breached, clobbered, rewound>>
vars == <<disk, lock, pc, cmd, history>>

Command ==
  [kind : {"none", "mutate", "init", "force-init", "repair"},
   id : 0 .. MaxCommands,
   expected : Doc \cup {Absent},  \* what the caller of a guarded mutation saw
   attempt : 0 .. 1,              \* acquireLock's attempt
   raw : File,                    \* mutate's previousRaw; what repair found
   next : Doc \cup {Absent},      \* the document it is about to persist
   ok : BOOLEAN]                  \* will the call return normally

Run(k, id, expected) ==
  [kind |-> k, id |-> id, expected |-> expected, attempt |-> 0,
   raw |-> Absent, next |-> Absent, ok |-> FALSE]
NoCommand == Run("none", 0, Absent)

Guarded(p) == cmd[p].expected # Absent

-----------------------------------------------------------------------------
InLock(p) ==
  pc[p] \in {"fill", "raw", "read", "write", "append", "undo", "release"}

Goto(p, from, to) ==
  /\ pc[p] = from
  /\ pc' = [pc EXCEPT ![p] = to]

Return(p, from) ==
  /\ Goto(p, from, "idle")
  /\ cmd' = [cmd EXCEPT ![p] = NoCommand]

Mishap(m) ==
  /\ m \in Mishaps
  /\ mishaps < MaxMishaps
  /\ mishaps' = mishaps + 1

MaxRevision(revisions) ==
  LET largest == {i \in DOMAIN revisions :
                    \A j \in DOMAIN revisions : revisions[j] <= revisions[i]}
  IN  IF largest = {} THEN 0 ELSE revisions[CHOOSE i \in largest : TRUE]

-----------------------------------------------------------------------------
(* A caller runs a command.  Init and repair look at the file before they  *)
(* take the lock, mutate does not; the caller of a guarded mutation has    *)
(* looked at the document whose revision it passes.                        *)

Start(p, k, expected) ==
  /\ Goto(p, "idle", IF k = "mutate" THEN "create" ELSE "check")
  /\ started < MaxCommands
  /\ started' = started + 1
  /\ cmd' = [cmd EXCEPT ![p] = Run(k, started + 1, expected)]
  /\ UNCHANGED <<disk, lock, mishaps, acked, failed, breached, clobbered,
                 rewound>>

StartGuarded(p) ==
  /\ "mutate" \in Kinds
  /\ file.kind = "doc"
  /\ Start(p, "mutate", file)

\* init: refuses an existing file, valid or not, unless forced.
InitCheck(p) ==
  /\ \/ /\ \/ cmd[p].kind = "force-init"
           \/ cmd[p].kind = "init" /\ file = Absent
        /\ Goto(p, "check", "create")
        /\ cmd' = [cmd EXCEPT ![p].next = NewDoc(1, {cmd[p].id})]
     \/ /\ cmd[p].kind = "init" /\ file # Absent
        /\ Return(p, "check")
  /\ UNCHANGED <<disk, lock, history>>

\* repair: a valid file is returned as it is, a missing one is an error.
RepairCheck(p) ==
  /\ cmd[p].kind = "repair"
  /\ \/ /\ file.kind = "corrupt"
        /\ Goto(p, "check", "scan")
        /\ cmd' = [cmd EXCEPT ![p].raw = file]
     \/ /\ file.kind # "corrupt"
        /\ Return(p, "check")
  /\ UNCHANGED <<disk, lock, history>>

\* Mutant: the last revision of the ledger is used again.
RepairScanMutant(p) ==
  /\ Goto(p, "scan", "create")
  /\ cmd' = [cmd EXCEPT
       ![p].next = NewDoc(MaxRevision(ledger), {cmd[p].id})]
  /\ UNCHANGED <<disk, lock, history>>

\* repair continues the revisions of the ledger it finds, still unlocked.
RepairScan(p) ==
  /\ Goto(p, "scan", "create")
  /\ cmd' = [cmd EXCEPT
       ![p].next = NewDoc(MaxRevision(ledger) + 1, {cmd[p].id})]
  /\ UNCHANGED <<disk, lock, history>>

-----------------------------------------------------------------------------
(* acquireLock: writeFileSync with flag wx makes the file, then fills it;  *)
(* after EEXIST the holder is read, judged, and unlinked, in three calls.  *)

\* Mutant: the lock file is opened without the exclusive flag.
CreateLockMutant(p) ==
  /\ Goto(p, "create", "fill")
  /\ lock' = [owner |-> p, written |-> FALSE, stale |-> FALSE]
  /\ UNCHANGED <<disk, cmd, history>>

CreateLock(p) ==
  /\ \/ /\ lock = NoLock
        /\ Goto(p, "create", "fill")
        /\ lock' = [owner |-> p, written |-> FALSE, stale |-> FALSE]
     \/ /\ lock # NoLock
        /\ Goto(p, "create", "inspect")
        /\ UNCHANGED lock
  /\ UNCHANGED <<disk, cmd, history>>

\* The descriptor still leads to the file this process made, even if another
\* process has unlinked that and made its own.
FillLock(p) ==
  /\ Goto(p, "fill", IF cmd[p].kind = "mutate" THEN "raw" ELSE "write")
  /\ lock' = IF lock.owner = p THEN [lock EXCEPT !.written = TRUE] ELSE lock
  /\ cmd' = [cmd EXCEPT ![p].attempt = 0]
  /\ UNCHANGED <<disk, history>>

\* A file that is gone or still empty has no acquiredAt: its age is infinite.
LooksStale == ~lock.written \/ lock.stale

InspectLock(p) ==
  /\ \/ LooksStale /\ Goto(p, "inspect", "steal") /\ UNCHANGED cmd
     \/ ~LooksStale /\ Return(p, "inspect")
  /\ UNCHANGED <<disk, lock, history>>

\* Unlinks whatever lock file is there by now, then tries again; after the
\* second attempt the command fails although the lock is free.
StealLock(p) ==
  /\ \/ /\ cmd[p].attempt = 0
        /\ Goto(p, "steal", "create")
        /\ cmd' = [cmd EXCEPT ![p].attempt = 1]
     \/ /\ cmd[p].attempt = 1
        /\ Return(p, "steal")
  /\ lock' = NoLock
  /\ breached' = (breached \/ \E q \in Processes :
                                lock.owner = q /\ InLock(q))
  /\ UNCHANGED <<disk, started, mishaps, acked, failed, clobbered, rewound>>

\* releaseLock unlinks the lock file whoever made it; the call then returns.
ReleaseLock(p) ==
  /\ Return(p, "release")
  /\ lock' = NoLock
  /\ breached' = (breached \/ \E q \in Processes \ {p} :
                                lock.owner = q /\ InLock(q))
  /\ acked' = IF cmd[p].ok /\ cmd[p].kind # "repair"
              THEN acked \cup {cmd[p].id} ELSE acked
  /\ UNCHANGED <<disk, started, mishaps, failed, clobbered, rewound>>

-----------------------------------------------------------------------------
(* The locked part.                                                        *)

ReadRaw(p) ==
  /\ Goto(p, "raw", "read")
  /\ cmd' = [cmd EXCEPT ![p].raw = file]
  /\ UNCHANGED <<disk, lock, history>>

\* Mutant: a newer document passes as well.
AdmitsMutant(p) ==
  /\ file.kind = "doc"
  /\ Guarded(p) => file.rev >= cmd[p].expected.rev

\* read, then the check of the expected revision.
Admits(p) ==
  /\ file.kind = "doc"
  /\ Guarded(p) => file.rev = cmd[p].expected.rev

Successor(doc, id) == NewDoc(doc.rev + 1, doc.carries \cup {id})

ReadDoc(p) ==
  /\ \/ /\ Admits(p)
        /\ Goto(p, "read", "write")
        /\ cmd' = [cmd EXCEPT ![p].next = Successor(file, cmd[p].id)]
     \/ /\ ~Admits(p)
        /\ Goto(p, "read", "release")
        /\ UNCHANGED cmd
  /\ UNCHANGED <<disk, lock, history>>

\* The operation throws, its result does not validate, or the temporary file
\* cannot be written: nothing has changed yet.
GiveUp(p) ==
  /\ Goto(p, "write", "release")
  /\ UNCHANGED <<disk, lock, cmd, history>>

\* writeAtomic's rename.
WriteSnapshot(p) ==
  /\ Goto(p, "write", "append")
  /\ file' = cmd[p].next
  /\ acked' = IF cmd[p].kind = "force-init" THEN {} ELSE acked
  /\ clobbered' = \/ clobbered
                  \/ cmd[p].kind = "init" /\ file # Absent
                  \/ cmd[p].kind = "repair" /\ file # cmd[p].raw
  /\ rewound' = rewound \cup ({cmd[p].kind} \cap {"force-init", "repair"})
  /\ UNCHANGED <<ledger, lock, cmd, started, mishaps, failed, breached>>

AppendEvent(p) ==
  /\ Goto(p, "append", "release")
  /\ ledger' = Append(ledger, cmd[p].next.rev)
  /\ cmd' = [cmd EXCEPT ![p].ok = TRUE]
  /\ UNCHANGED <<file, lock, history>>

\* Mutant: the lock is released before the snapshot is put back.
AppendFailsMutant(p, landed) ==
  /\ Mishap("append")
  /\ Goto(p, "append", IF cmd[p].kind = "mutate" THEN "undo" ELSE "release")
  /\ lock' = NoLock
  /\ ledger' = IF landed THEN Append(ledger, cmd[p].next.rev) ELSE ledger
  /\ cmd' = [cmd EXCEPT ![p].ok = (cmd[p].kind = "repair")]
  /\ UNCHANGED <<file, started, acked, failed, breached, clobbered, rewound>>

\* The append throws; its line may be in the file all the same (a failed
\* fsync).  mutate goes on to undo, init fails, repair ignores it.
AppendFails(p, landed) ==
  /\ Mishap("append")
  /\ Goto(p, "append", IF cmd[p].kind = "mutate" THEN "undo" ELSE "release")
  /\ ledger' = IF landed THEN Append(ledger, cmd[p].next.rev) ELSE ledger
  /\ cmd' = [cmd EXCEPT ![p].ok = (cmd[p].kind = "repair")]
  /\ UNCHANGED <<file, lock, started, acked, failed, breached, clobbered,
                 rewound>>

\* Mutant: the new snapshot is deleted and nothing is put back.
UndoSnapshotMutant(p) ==
  /\ Goto(p, "undo", "release")
  /\ file' = Absent
  /\ failed' = failed \cup {cmd[p].id}
  /\ rewound' = rewound \cup {"undo"}
  /\ UNCHANGED <<ledger, lock, cmd, started, mishaps, acked, breached,
                 clobbered>>

\* The previous snapshot is put back.
UndoSnapshot(p) ==
  /\ Goto(p, "undo", "release")
  /\ file' = IF cmd[p].raw = Absent THEN file ELSE cmd[p].raw
  /\ failed' = failed \cup {cmd[p].id}
  /\ rewound' = rewound \cup {"undo"}
  /\ UNCHANGED <<ledger, lock, cmd, started, mishaps, acked, breached,
                 clobbered>>

\* The disk that refused the event refuses the old snapshot too.
UndoFails(p) ==
  /\ Mishap("undo")
  /\ Goto(p, "undo", "release")
  /\ UNCHANGED <<disk, lock, cmd, started, acked, failed, breached,
                 clobbered, rewound>>

-----------------------------------------------------------------------------
(* The world around.                                                       *)

\* A process dies at any point; what it had put on disk stays.
Crash(p) ==
  /\ Mishap("crash")
  /\ pc[p] # "idle"
  /\ Return(p, pc[p])
  /\ UNCHANGED <<disk, lock, started, acked, failed, breached, clobbered,
                 rewound>>

\* LOCK_STALE_MS pass: over a lock its maker left behind, or (slow) over one
\* it still holds.
LockAges ==
  /\ lock.written
  /\ ~lock.stale
  /\ lock' = [lock EXCEPT !.stale = TRUE]
  /\ IF \E p \in Processes : lock.owner = p /\ InLock(p)
     THEN Mishap("slow") ELSE UNCHANGED mishaps
  /\ UNCHANGED <<disk, pc, cmd, started, acked, failed, breached, clobbered,
                 rewound>>

\* A hand edit or a merge leaves the snapshot unreadable.
CorruptFile ==
  /\ Mishap("edit")
  /\ file.kind = "doc"
  /\ \A p \in Processes : ~InLock(p)
  /\ file' = Corrupt(mishaps)
  /\ acked' = {}
  /\ UNCHANGED <<ledger, lock, pc, cmd, started, failed, breached, clobbered,
                 rewound>>

-----------------------------------------------------------------------------
Init ==
  /\ file = Absent
  /\ ledger = <<>>
  /\ lock = NoLock
  /\ pc = [p \in Processes |-> "idle"]
  /\ cmd = [p \in Processes |-> NoCommand]
  /\ started = 0
  /\ mishaps = 0
  /\ acked = {}
  /\ failed = {}
  /\ breached = FALSE
  /\ clobbered = FALSE
  /\ rewound = {}

Lockstep(p) == CreateLock(p) \/ FillLock(p) \/ InspectLock(p) \/ StealLock(p)
               \/ ReleaseLock(p)

Store(p) == ReadRaw(p) \/ ReadDoc(p) \/ GiveUp(p) \/ WriteSnapshot(p)
            \/ AppendEvent(p) \/ UndoSnapshot(p)

Trouble(p) == (\E landed \in BOOLEAN : AppendFails(p, landed))
              \/ UndoFails(p) \/ Crash(p)

Next ==
  \/ \E p \in Processes :
       \/ \E k \in Kinds : Start(p, k, Absent)
       \/ StartGuarded(p)
       \/ InitCheck(p) \/ RepairCheck(p) \/ RepairScan(p)
       \/ Lockstep(p)
       \/ Store(p)
       \/ Trouble(p)
  \/ LockAges
  \/ CorruptFile

Spec == Init /\ [][Next]_vars

-----------------------------------------------------------------------------
(* Properties.                                                             *)

\* Every variable stays in its type, and a process that may still write
\* always knows the document it means to write.
TypeOK ==
  /\ file \in File
  /\ ledger \in Seq(Nat)
  /\ lock \in [owner : Processes \cup {NoProcess}, written : BOOLEAN,
               stale : BOOLEAN]
  /\ pc \in [Processes -> {"idle", "check", "scan", "create", "inspect",
                           "steal", "fill", "raw", "read", "write", "append",
                           "undo", "release"}]
  /\ cmd \in [Processes -> Command]
  /\ started \in 0 .. MaxCommands
  /\ mishaps \in 0 .. MaxMishaps
  /\ acked \in SUBSET Commands
  /\ failed \in SUBSET Commands
  /\ breached \in BOOLEAN
  /\ clobbered \in BOOLEAN
  /\ rewound \in SUBSET {"force-init", "repair", "undo"}
  /\ \A p \in Processes :
       /\ pc[p] # "idle" => cmd[p].id \in Commands
       /\ pc[p] \in {"write", "append", "undo"} => cmd[p].next \in Doc

\* The lock file excludes (store.js, acquireLock): as long as nobody has
\* unlinked the lock of a process that is still working, each process in the
\* locked part is the maker of the one lock file there is.
LockExcludes ==
  ~breached =>
    /\ \A p \in Processes : InLock(p) => lock.owner = p
    /\ \A p, q \in Processes : InLock(p) /\ InLock(q) => p = q

\* No lost update (store.js, mutate): while the lock excludes and no init or
\* repair acts on what it checked before the lock, the document a mutation is
\* about to replace is the one it computed its successor from, and the
\* snapshot carries every command that was reported done, whichever
\* commands crashed, failed or were undone in between.
NoLostUpdate ==
  ~breached /\ ~clobbered =>
    /\ \A p \in Processes : pc[p] = "write" /\ cmd[p].kind = "mutate" =>
                              cmd[p].next = Successor(file, cmd[p].id)
    /\ file.kind = "doc" => acked \subseteq file.carries

\* "The mutation must fail as a whole" (store.js, the undo in mutate): the
\* effect of a mutation whose snapshot was put back is in no later document,
\* not even in one computed while it was still on disk.
FailedLeavesNoTrace ==
  ~breached /\ ~clobbered => failed \cap file.carries = {}

\* What --expected-revision is for: a guarded mutation that passes the check
\* replaces the very document its caller had looked at, not another of the
\* same revision - unless an undo, a repair or a forced init has taken the
\* revision back, which the check cannot see.
ExpectedRevisionIsExact ==
  ~breached /\ ~clobbered /\ rewound = {} =>
    \A p \in Processes :
      pc[p] = "write" /\ Guarded(p) => file = cmd[p].expected

\* The ledger tells the history of the snapshot (ledger.js, repair): its
\* revisions grow strictly and never run ahead of the snapshot's, even over
\* crashes between snapshot and event and over repairs, which continue the
\* revisions of the ledger - unless a forced init restarted them or an undo
\* left its event behind.
LedgerFollowsSnapshot ==
  ~breached /\ ~clobbered /\ rewound \subseteq {"repair"} =>
    /\ \A i, j \in DOMAIN ledger : i < j => ledger[i] < ledger[j]
    /\ file.kind = "doc" =>
         \A i \in DOMAIN ledger : ledger[i] <= file.rev
=============================================================================
