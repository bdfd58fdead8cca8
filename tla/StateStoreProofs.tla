-------------------------- MODULE StateStoreProofs --------------------------
(***************************************************************************)
(* For any number of processes, commands and mishaps: the variables of     *)
(* StateStore keep their types, the lock file excludes until one is        *)
(* unlinked under its maker, and until then no update is lost, no undone   *)
(* mutation leaves a trace, an expected revision stands for the expected   *)
(* document and the ledger follows the snapshot.                           *)
(***************************************************************************)
EXTENDS StateStore, TLAPS

-----------------------------------------------------------------------------
(* Types.                                                                  *)

\* What a new document is made of (store.js, createInitialState's use and
\* mutate's nextDoc): a revision and the commands it carries give a document.
LEMMA NewDocIsDoc ==
  ASSUME NEW rev \in Nat, NEW carries \in SUBSET Commands
  PROVE  /\ NewDoc(rev, carries) \in Doc
         /\ NewDoc(rev, carries).rev = rev
         /\ NewDoc(rev, carries).carries = carries
         /\ NewDoc(rev, carries).kind = "doc"
  BY DEF NewDoc, Doc

\* A command as it starts, and the absence of one, are commands.
LEMMA RunIsCommand ==
  ASSUME NEW k \in {"none", "mutate", "init", "force-init", "repair"},
         NEW id \in 0 .. MaxCommands, NEW expected \in Doc \cup {Absent}
  PROVE  /\ Run(k, id, expected) \in Command
         /\ Run(k, id, expected).id = id
         /\ NoCommand \in Command
  <1>1. Absent \in File
    BY DEF File
  <1>2. 0 \in 0 .. MaxCommands
    BY ConstantsAssumption
  <1> QED  BY <1>1, <1>2 DEF Run, Command, NoCommand

\* The largest revision of a ledger is a number (store.js, repair).
LEMMA MaxRevisionIsNat ==
  ASSUME NEW revisions \in Seq(Nat)
  PROVE  MaxRevision(revisions) \in Nat
  <1> DEFINE largest == {i \in DOMAIN revisions :
                           \A j \in DOMAIN revisions :
                             revisions[j] <= revisions[i]}
  <1>1. CASE largest = {}
    BY <1>1 DEF MaxRevision
  <1>2. CASE largest # {}
    <2>1. (CHOOSE i \in largest : TRUE) \in DOMAIN revisions
      BY <1>2
    <2> QED  BY <1>2, <2>1 DEF MaxRevision
  <1> QED  BY <1>1, <1>2

Places == {"idle", "check", "scan", "create", "inspect", "steal", "fill",
           "raw", "read", "write", "append", "undo", "release"}

\* Where a process is and what it runs fit together: past its unlocked
\* checks a command that is no mutation has its document, and whoever writes
\* has one.
Placed(at, c) ==
  /\ at # "idle" => c.id \in Commands
  /\ at \in {"write", "append", "undo"} => c.next \in Doc
  /\ at \in {"create", "inspect", "steal", "fill"} /\ c.kind # "mutate" =>
       c.next \in Doc

ProcessesTyped ==
  /\ pc \in [Processes -> Places]
  /\ cmd \in [Processes -> Command]
  /\ \A p \in Processes : Placed(pc[p], cmd[p])

RestTyped ==
  /\ file \in File
  /\ ledger \in Seq(Nat)
  /\ lock \in [owner : Processes \cup {NoProcess}, written : BOOLEAN,
               stale : BOOLEAN]
  /\ started \in 0 .. MaxCommands
  /\ mishaps \in 0 .. MaxMishaps
  /\ acked \in SUBSET Commands
  /\ failed \in SUBSET Commands
  /\ breached \in BOOLEAN
  /\ clobbered \in BOOLEAN
  /\ rewound \in SUBSET {"force-init", "repair", "undo"}

\* The inductive type invariant: TypeOK needs to know, before a command gets
\* to its write, that it has something to write.
TypeInv == ProcessesTyped /\ RestTyped

\* It implies the type invariant the runs check.
LEMMA TypeInvIsTypeOK == TypeInv => TypeOK
  BY DEF TypeInv, ProcessesTyped, RestTyped, TypeOK, Places, Placed

\* A step that moves one process to a place its new command fits keeps the
\* types of both functions.
LEMMA MoveKeepsType ==
  ASSUME ProcessesTyped, NEW p \in Processes, NEW to \in Places,
         NEW c \in Command, Placed(to, c),
         pc' = [pc EXCEPT ![p] = to],
         cmd' = [cmd EXCEPT ![p] = c]
  PROVE  ProcessesTyped'
  <1>1. ASSUME NEW q \in Processes PROVE Placed(pc'[q], cmd'[q])
    <2>1. CASE q = p
      BY <2>1 DEF ProcessesTyped
    <2>2. CASE q # p
      BY <2>2 DEF ProcessesTyped
    <2> QED  BY <2>1, <2>2
  <1> QED  BY <1>1 DEF ProcessesTyped

\* The ways in which a step treats the command of the process it moves: it
\* leaves it, ends it, or assigns to one of its local variables.
LEMMA StayKeepsType ==
  ASSUME ProcessesTyped, NEW p \in Processes, NEW from, NEW to \in Places,
         Goto(p, from, to), Placed(to, cmd[p]), UNCHANGED cmd
  PROVE  ProcessesTyped'
  <1>1. cmd[p] \in Command /\ cmd' = [cmd EXCEPT ![p] = cmd[p]]
    BY DEF ProcessesTyped
  <1> QED  BY <1>1, MoveKeepsType DEF Goto

\* A call that returns leaves no command behind.
LEMMA ReturnKeepsType ==
  ASSUME ProcessesTyped, NEW p \in Processes, NEW from, Return(p, from)
  PROVE  ProcessesTyped'
  <1>1. NoCommand \in Command
    BY RunIsCommand, ConstantsAssumption
  <1>2. Placed("idle", NoCommand) /\ "idle" \in Places
    BY DEF Placed, Places
  <1> QED  BY <1>1, <1>2, MoveKeepsType DEF Return, Goto

\* A command that learns the document it will write may go on to write it.
LEMMA NextKeepsType ==
  ASSUME ProcessesTyped, NEW p \in Processes, NEW from, NEW to \in Places,
         Goto(p, from, to), NEW d \in Doc, cmd[p].id \in Commands,
         cmd' = [cmd EXCEPT ![p].next = d]
  PROVE  ProcessesTyped'
  <1> DEFINE c == [cmd[p] EXCEPT !.next = d]
  <1>1. cmd[p] \in Command
    BY DEF ProcessesTyped
  <1>2. c \in Command /\ c.next = d /\ c.id = cmd[p].id
    BY <1>1 DEF Command
  <1>3. cmd' = [cmd EXCEPT ![p] = c]
    BY DEF ProcessesTyped
  <1>4. Placed(to, c)
    BY <1>2 DEF Placed
  <1> HIDE DEF c
  <1> QED  BY <1>2, <1>3, <1>4, MoveKeepsType DEF Goto

\* So may one that had it, whatever else it notes down.
LEMMA AssignKeepsType ==
  ASSUME ProcessesTyped, NEW p \in Processes, NEW from, NEW to \in Places,
         Goto(p, from, to), Placed(to, cmd[p]),
         \/ \E raw \in File : cmd' = [cmd EXCEPT ![p].raw = raw]
         \/ \E attempt \in 0 .. 1 : cmd' = [cmd EXCEPT ![p].attempt = attempt]
         \/ \E ok \in BOOLEAN : cmd' = [cmd EXCEPT ![p].ok = ok]
  PROVE  ProcessesTyped'
  <1>1. cmd[p] \in Command
    BY DEF ProcessesTyped
  <1>2. PICK c \in Command :
          /\ cmd' = [cmd EXCEPT ![p] = c]
          /\ c.next = cmd[p].next /\ c.id = cmd[p].id /\ c.kind = cmd[p].kind
    <2>1. ASSUME NEW raw \in File, cmd' = [cmd EXCEPT ![p].raw = raw]
         PROVE  \E c \in Command :
                  /\ cmd' = [cmd EXCEPT ![p] = c]
                  /\ c.next = cmd[p].next /\ c.id = cmd[p].id
                  /\ c.kind = cmd[p].kind
      <3> DEFINE c == [cmd[p] EXCEPT !.raw = raw]
      <3>1. c \in Command /\ c.next = cmd[p].next /\ c.id = cmd[p].id
                         /\ c.kind = cmd[p].kind
        BY <1>1 DEF Command
      <3>2. cmd' = [cmd EXCEPT ![p] = c]
        BY <2>1 DEF ProcessesTyped
      <3> QED  BY <3>1, <3>2
    <2>2. ASSUME NEW attempt \in 0 .. 1,
                 cmd' = [cmd EXCEPT ![p].attempt = attempt]
         PROVE  \E c \in Command :
                  /\ cmd' = [cmd EXCEPT ![p] = c]
                  /\ c.next = cmd[p].next /\ c.id = cmd[p].id
                  /\ c.kind = cmd[p].kind
      <3> DEFINE c == [cmd[p] EXCEPT !.attempt = attempt]
      <3>1. c \in Command /\ c.next = cmd[p].next /\ c.id = cmd[p].id
                         /\ c.kind = cmd[p].kind
        BY <1>1 DEF Command
      <3>2. cmd' = [cmd EXCEPT ![p] = c]
        BY <2>2 DEF ProcessesTyped
      <3> QED  BY <3>1, <3>2
    <2>3. ASSUME NEW ok \in BOOLEAN, cmd' = [cmd EXCEPT ![p].ok = ok]
         PROVE  \E c \in Command :
                  /\ cmd' = [cmd EXCEPT ![p] = c]
                  /\ c.next = cmd[p].next /\ c.id = cmd[p].id
                  /\ c.kind = cmd[p].kind
      <3> DEFINE c == [cmd[p] EXCEPT !.ok = ok]
      <3>1. c \in Command /\ c.next = cmd[p].next /\ c.id = cmd[p].id
                         /\ c.kind = cmd[p].kind
        BY <1>1 DEF Command
      <3>2. cmd' = [cmd EXCEPT ![p] = c]
        BY <2>3 DEF ProcessesTyped
      <3> QED  BY <3>1, <3>2
    <2> QED  BY <2>1, <2>2, <2>3
  <1>3. Placed(to, c)
    BY <1>2 DEF Placed
  <1> QED  BY <1>2, <1>3, MoveKeepsType DEF Goto

\* A command starts with a number of its own and, if guarded, a document.
LEMMA StartKeepsType ==
  ASSUME TypeInv, NEW p \in Processes, NEW k \in Kinds,
         NEW expected \in Doc \cup {Absent}, Start(p, k, expected)
  PROVE  TypeInv'
  <1> DEFINE c == Run(k, started + 1, expected)
             to == IF k = "mutate" THEN "create" ELSE "check"
  <1>1. started + 1 \in Commands
    BY ConstantsAssumption DEF Start, Commands, TypeInv, RestTyped
  <1>2. c \in Command /\ c.id = started + 1 /\ c.kind = k
    BY <1>1, RunIsCommand, ConstantsAssumption DEF Commands, Run
  <1>3. Placed(to, c) /\ to \in Places
    BY <1>1, <1>2 DEF Placed, Places
  <1>4. pc' = [pc EXCEPT ![p] = to] /\ cmd' = [cmd EXCEPT ![p] = c]
    BY DEF Start, Goto
  <1> HIDE DEF c, to
  <1>5. ProcessesTyped'
    BY <1>2, <1>3, <1>4, MoveKeepsType DEF TypeInv
  <1> QED
    BY <1>1, <1>5 DEF Start, TypeInv, RestTyped, Commands, disk

\* The inductive invariant holds at first and is kept by every step; the
\* theorems below rest on it.
LEMMA TypeInvInit == Init => TypeInv
<1> SUFFICES ASSUME Init PROVE TypeInv
  OBVIOUS
<1>1. NoCommand \in Command
  BY RunIsCommand, ConstantsAssumption
<1>2. ProcessesTyped
  BY <1>1 DEF Init, ProcessesTyped, Places, Placed
<1>3. RestTyped
  <2>1. Init => file \in File /\ ledger \in Seq(Nat)
    BY DEF Init, File
  <2>2. Init => lock \in [owner : Processes \cup {NoProcess},
                          written : BOOLEAN, stale : BOOLEAN]
    BY DEF Init, NoLock
  <2>3. Init => started \in 0 .. MaxCommands /\ mishaps \in 0 .. MaxMishaps
    BY ConstantsAssumption DEF Init
  <2> QED
    BY <2>1, <2>2, <2>3, Zenon DEF Init, RestTyped
<1> QED  BY <1>2, <1>3 DEF TypeInv

\* Every step of the store keeps the type invariant.
LEMMA TypeInvStep == TypeInv /\ [Next]_vars => TypeInv'
<1> SUFFICES ASSUME TypeInv, [Next]_vars PROVE TypeInv'
  OBVIOUS
<1> USE DEF TypeInv
<1>1. ASSUME NEW p \in Processes, NEW k \in Kinds, Start(p, k, Absent)
      PROVE  TypeInv'
  BY <1>1, StartKeepsType
<1>2. ASSUME NEW p \in Processes, StartGuarded(p) PROVE TypeInv'
  <2>1. file \in Doc
    BY <1>2 DEF StartGuarded, RestTyped, File, Absent, Corrupt
  <2> QED  BY <1>2, <2>1, StartKeepsType DEF StartGuarded
<1> USE DEF disk, history
<1>3. ASSUME NEW p \in Processes, InitCheck(p) PROVE TypeInv'
  <2>1. ProcessesTyped'
    <3>1. CASE Return(p, "check")
      BY <3>1, ReturnKeepsType
    <3>2. CASE /\ Goto(p, "check", "create")
               /\ cmd' = [cmd EXCEPT ![p].next = NewDoc(1, {cmd[p].id})]
      <4>1. cmd[p].id \in Commands
        BY <3>2 DEF Goto, ProcessesTyped, Placed
      <4>2. NewDoc(1, {cmd[p].id}) \in Doc
        BY <4>1, NewDocIsDoc
      <4> QED  BY <3>2, <4>1, <4>2, NextKeepsType DEF Places
    <3> QED  BY <1>3, <3>1, <3>2 DEF InitCheck
  <2> QED  BY <1>3, <2>1 DEF InitCheck, RestTyped
<1>4. ASSUME NEW p \in Processes, RepairCheck(p) PROVE TypeInv'
  <2>1. ProcessesTyped'
    <3>1. CASE Return(p, "check")
      BY <3>1, ReturnKeepsType
    <3>2. CASE /\ Goto(p, "check", "scan")
               /\ cmd' = [cmd EXCEPT ![p].raw = file]
      <4>1. Placed("scan", cmd[p]) /\ file \in File
        BY <3>2 DEF Goto, ProcessesTyped, Placed, RestTyped
      <4> QED  BY <3>2, <4>1, AssignKeepsType DEF Places
    <3> QED  BY <1>4, <3>1, <3>2 DEF RepairCheck
  <2> QED  BY <1>4, <2>1 DEF RepairCheck, RestTyped
<1>5. ASSUME NEW p \in Processes, RepairScan(p) PROVE TypeInv'
  <2>1. ProcessesTyped'
    <3>1. cmd[p].id \in Commands
      BY <1>5 DEF RepairScan, Goto, ProcessesTyped, Placed
    <3>2. MaxRevision(ledger) + 1 \in Nat
      BY MaxRevisionIsNat DEF RestTyped
    <3>3. NewDoc(MaxRevision(ledger) + 1, {cmd[p].id}) \in Doc
      BY <3>1, <3>2, NewDocIsDoc
    <3> QED
      BY <1>5, <3>1, <3>3, NextKeepsType DEF RepairScan, Places
  <2> QED  BY <1>5, <2>1 DEF RepairScan, RestTyped
<1>6. ASSUME NEW p \in Processes, CreateLock(p) PROVE TypeInv'
  <2>1. PICK to \in {"fill", "inspect"} : Goto(p, "create", to)
    BY <1>6 DEF CreateLock
  <2>2. Placed(to, cmd[p]) /\ to \in Places
    BY <2>1 DEF Goto, ProcessesTyped, Placed, Places
  <2>3. ProcessesTyped'
    BY <1>6, <2>1, <2>2, StayKeepsType DEF CreateLock
  <2>4. lock' \in [owner : Processes \cup {NoProcess},
                   written : BOOLEAN, stale : BOOLEAN]
    <3>1. CASE lock' = [owner |-> p, written |-> FALSE, stale |-> FALSE]
      BY <3>1
    <3>2. CASE UNCHANGED lock
      BY <3>2 DEF RestTyped
    <3> QED  BY <1>6, <3>1, <3>2 DEF CreateLock
  <2> QED  BY <1>6, <2>3, <2>4 DEF CreateLock, RestTyped
<1>7. ASSUME NEW p \in Processes, FillLock(p) PROVE TypeInv'
  <2> DEFINE to == IF cmd[p].kind = "mutate" THEN "raw" ELSE "write"
  <2>1. Placed(to, cmd[p]) /\ to \in Places /\ Goto(p, "fill", to)
    BY <1>7 DEF FillLock, Goto, ProcessesTyped, Placed, Places
  <2> HIDE DEF to
  <2>2. \E attempt \in 0 .. 1 : cmd' = [cmd EXCEPT ![p].attempt = attempt]
    BY <1>7 DEF FillLock
  <2>3. ProcessesTyped'
    BY <2>1, <2>2, AssignKeepsType
  <2> QED  BY <1>7, <2>3 DEF FillLock, RestTyped
<1>8. ASSUME NEW p \in Processes, InspectLock(p) PROVE TypeInv'
  <2>1. ProcessesTyped'
    <3>1. CASE Return(p, "inspect")
      BY <3>1, ReturnKeepsType
    <3>2. CASE Goto(p, "inspect", "steal") /\ UNCHANGED cmd
      <4>1. Placed("steal", cmd[p])
        BY <3>2 DEF Goto, ProcessesTyped, Placed
      <4> QED  BY <3>2, <4>1, StayKeepsType DEF Places
    <3> QED  BY <1>8, <3>1, <3>2 DEF InspectLock
  <2> QED  BY <1>8, <2>1 DEF InspectLock, RestTyped
<1>9. ASSUME NEW p \in Processes, StealLock(p) PROVE TypeInv'
  <2>1. ProcessesTyped'
    <3>1. CASE Return(p, "steal")
      BY <3>1, ReturnKeepsType
    <3>2. CASE /\ Goto(p, "steal", "create")
               /\ cmd' = [cmd EXCEPT ![p].attempt = 1]
      <4>1. Placed("create", cmd[p])
        BY <3>2 DEF Goto, ProcessesTyped, Placed
      <4>2. \E attempt \in 0 .. 1 :
              cmd' = [cmd EXCEPT ![p].attempt = attempt]
        BY <3>2
      <4> QED  BY <3>2, <4>1, <4>2, AssignKeepsType DEF Places
    <3> QED  BY <1>9, <3>1, <3>2 DEF StealLock
  <2> QED  BY <1>9, <2>1 DEF StealLock, RestTyped, NoLock
<1>10. ASSUME NEW p \in Processes, ReleaseLock(p) PROVE TypeInv'
  <2>1. ProcessesTyped'
    BY <1>10, ReturnKeepsType DEF ReleaseLock
  <2>2. cmd[p].id \in Commands
    BY <1>10 DEF ReleaseLock, Return, Goto, ProcessesTyped, Placed
  <2> QED  BY <1>10, <2>1, <2>2 DEF ReleaseLock, RestTyped, NoLock
<1>11. ASSUME NEW p \in Processes, ReadRaw(p) PROVE TypeInv'
  <2>1. Placed("read", cmd[p]) /\ file \in File
    BY <1>11 DEF ReadRaw, Goto, ProcessesTyped, Placed, RestTyped
  <2>2. ProcessesTyped'
    BY <1>11, <2>1, AssignKeepsType DEF ReadRaw, Places
  <2> QED  BY <1>11, <2>2 DEF ReadRaw, RestTyped
<1>12. ASSUME NEW p \in Processes, ReadDoc(p) PROVE TypeInv'
  <2>1. ProcessesTyped'
    <3>1. CASE /\ Admits(p)
               /\ Goto(p, "read", "write")
               /\ cmd' = [cmd EXCEPT ![p].next = Successor(file, cmd[p].id)]
      <4>1. cmd[p].id \in Commands
        BY <3>1 DEF Goto, ProcessesTyped, Placed
      <4>2. file \in Doc
        BY <3>1 DEF Admits, RestTyped, File, Absent, Corrupt
      <4>3. Successor(file, cmd[p].id) \in Doc
        BY <4>1, <4>2, NewDocIsDoc DEF Successor, Doc
      <4> QED  BY <3>1, <4>1, <4>3, NextKeepsType DEF Places
    <3>2. CASE Goto(p, "read", "release") /\ UNCHANGED cmd
      <4>1. Placed("release", cmd[p])
        BY <3>2 DEF Goto, ProcessesTyped, Placed
      <4> QED  BY <3>2, <4>1, StayKeepsType DEF Places
    <3> QED  BY <1>12, <3>1, <3>2 DEF ReadDoc
  <2> QED  BY <1>12, <2>1 DEF ReadDoc, RestTyped
<1>13. ASSUME NEW p \in Processes, GiveUp(p) PROVE TypeInv'
  <2>1. Placed("release", cmd[p])
    BY <1>13 DEF GiveUp, Goto, ProcessesTyped, Placed
  <2>2. ProcessesTyped'
    BY <1>13, <2>1, StayKeepsType DEF GiveUp, Places
  <2> QED  BY <1>13, <2>2 DEF GiveUp, RestTyped
<1>14. ASSUME NEW p \in Processes, WriteSnapshot(p) PROVE TypeInv'
  <2>1. Placed("append", cmd[p]) /\ cmd[p].next \in Doc
    BY <1>14 DEF WriteSnapshot, Goto, ProcessesTyped, Placed
  <2>2. ProcessesTyped'
    BY <1>14, <2>1, StayKeepsType DEF WriteSnapshot, Places
  <2> QED  BY <1>14, <2>1, <2>2 DEF WriteSnapshot, RestTyped, File
<1>15. ASSUME NEW p \in Processes, AppendEvent(p) PROVE TypeInv'
  <2>1. Placed("release", cmd[p]) /\ cmd[p].next \in Doc
    BY <1>15 DEF AppendEvent, Goto, ProcessesTyped, Placed
  <2>2. ProcessesTyped'
    BY <1>15, <2>1, AssignKeepsType DEF AppendEvent, Places
  <2> QED  BY <1>15, <2>1, <2>2 DEF AppendEvent, RestTyped, Doc
<1>16. ASSUME NEW p \in Processes, NEW landed \in BOOLEAN,
              AppendFails(p, landed)
       PROVE  TypeInv'
  <2> DEFINE to == IF cmd[p].kind = "mutate" THEN "undo" ELSE "release"
  <2>1. /\ Placed(to, cmd[p]) /\ to \in Places /\ Goto(p, "append", to)
        /\ cmd[p].next \in Doc
    BY <1>16 DEF AppendFails, Goto, ProcessesTyped, Placed, Places
  <2> HIDE DEF to
  <2>2. ProcessesTyped'
    BY <1>16, <2>1, AssignKeepsType DEF AppendFails
  <2> QED
    BY <1>16, <2>1, <2>2, ConstantsAssumption
       DEF AppendFails, Mishap, RestTyped, Doc
<1>17. ASSUME NEW p \in Processes, UndoSnapshot(p) PROVE TypeInv'
  <2>1. /\ Placed("release", cmd[p]) /\ cmd[p].id \in Commands
        /\ cmd[p].raw \in File
    BY <1>17 DEF UndoSnapshot, Goto, ProcessesTyped, Placed, Command
  <2>2. ProcessesTyped'
    BY <1>17, <2>1, StayKeepsType DEF UndoSnapshot, Places
  <2> QED  BY <1>17, <2>1, <2>2 DEF UndoSnapshot, RestTyped
<1>18. ASSUME NEW p \in Processes, UndoFails(p) PROVE TypeInv'
  <2>1. Placed("release", cmd[p])
    BY <1>18 DEF UndoFails, Goto, ProcessesTyped, Placed
  <2>2. ProcessesTyped'
    BY <1>18, <2>1, StayKeepsType DEF UndoFails, Places
  <2> QED
    BY <1>18, <2>2, ConstantsAssumption DEF UndoFails, Mishap, RestTyped
<1>19. ASSUME NEW p \in Processes, Crash(p) PROVE TypeInv'
  <2>1. ProcessesTyped'
    BY <1>19, ReturnKeepsType DEF Crash
  <2> QED  BY <1>19, <2>1, ConstantsAssumption DEF Crash, Mishap, RestTyped
<1>20. CASE LockAges
  <2>1. ProcessesTyped'
    BY <1>20 DEF LockAges, ProcessesTyped
  <2>2. lock' \in [owner : Processes \cup {NoProcess},
                   written : BOOLEAN, stale : BOOLEAN]
    BY <1>20 DEF LockAges, RestTyped
  <2>3. mishaps' \in 0 .. MaxMishaps
    BY <1>20, ConstantsAssumption DEF LockAges, Mishap, RestTyped
  <2> QED  BY <1>20, <2>1, <2>2, <2>3 DEF LockAges, RestTyped
<1>21. CASE CorruptFile
  <2>1. ProcessesTyped'
    BY <1>21 DEF CorruptFile, ProcessesTyped
  <2>2. file' \in File
    BY <1>21 DEF CorruptFile, File, RestTyped
  <2> QED
    BY <1>21, <2>1, <2>2, ConstantsAssumption
       DEF CorruptFile, Mishap, RestTyped
<1>22. CASE UNCHANGED vars
  BY <1>22 DEF vars, ProcessesTyped, RestTyped
<1> QED
  BY <1>1, <1>2, <1>3, <1>4, <1>5, <1>6, <1>7, <1>8, <1>9, <1>10, <1>11,
     <1>12, <1>13, <1>14, <1>15, <1>16, <1>17, <1>18, <1>19, <1>20, <1>21,
     <1>22
     DEF Next, Lockstep, Store, Trouble

\* Every variable keeps its type, and a process that is about to write has a
\* document to write (store.js, mutate, init and repair).
THEOREM TypeCorrect == Spec => []TypeOK
  BY TypeInvInit, TypeInvStep, TypeInvIsTypeOK, PTL DEF Spec
-----------------------------------------------------------------------------
(* What the steps do to a command.                                         *)

\* An assignment to one local variable changes that variable alone.
LEMMA NextAssigned ==
  ASSUME ProcessesTyped, NEW p \in Processes, NEW d,
         cmd' = [cmd EXCEPT ![p].next = d]
  PROVE  /\ cmd'[p].next = d
         /\ cmd'[p].kind = cmd[p].kind
         /\ cmd'[p].id = cmd[p].id
         /\ cmd'[p].raw = cmd[p].raw
         /\ cmd'[p].ok = cmd[p].ok
         /\ \A q \in Processes \ {p} : cmd'[q] = cmd[q]
  BY DEF ProcessesTyped, Command

\* The same of the snapshot it remembers.
LEMMA RawAssigned ==
  ASSUME ProcessesTyped, NEW p \in Processes, NEW d,
         cmd' = [cmd EXCEPT ![p].raw = d]
  PROVE  /\ cmd'[p].raw = d
         /\ cmd'[p].kind = cmd[p].kind
         /\ cmd'[p].id = cmd[p].id
         /\ cmd'[p].next = cmd[p].next
         /\ cmd'[p].ok = cmd[p].ok
         /\ \A q \in Processes \ {p} : cmd'[q] = cmd[q]
  BY DEF ProcessesTyped, Command

\* The same of its outcome.
LEMMA OkAssigned ==
  ASSUME ProcessesTyped, NEW p \in Processes, NEW d,
         cmd' = [cmd EXCEPT ![p].ok = d]
  PROVE  /\ cmd'[p].ok = d
         /\ cmd'[p].kind = cmd[p].kind
         /\ cmd'[p].id = cmd[p].id
         /\ cmd'[p].raw = cmd[p].raw
         /\ cmd'[p].next = cmd[p].next
         /\ \A q \in Processes \ {p} : cmd'[q] = cmd[q]
  BY DEF ProcessesTyped, Command

\* The same of its attempt at the lock.
LEMMA AttemptAssigned ==
  ASSUME ProcessesTyped, NEW p \in Processes, NEW d,
         cmd' = [cmd EXCEPT ![p].attempt = d]
  PROVE  /\ cmd'[p].attempt = d
         /\ cmd'[p].kind = cmd[p].kind
         /\ cmd'[p].id = cmd[p].id
         /\ cmd'[p].raw = cmd[p].raw
         /\ cmd'[p].next = cmd[p].next
         /\ cmd'[p].ok = cmd[p].ok
         /\ \A q \in Processes \ {p} : cmd'[q] = cmd[q]
  BY DEF ProcessesTyped, Command

\* A return leaves no command, and no trace in the other processes.
LEMMA Returned ==
  ASSUME ProcessesTyped, NEW p \in Processes, NEW from, Return(p, from)
  PROVE  /\ pc[p] = from /\ pc'[p] = "idle" /\ cmd'[p] = NoCommand
         /\ \A q \in Processes \ {p} : pc'[q] = pc[q] /\ cmd'[q] = cmd[q]
  BY DEF ProcessesTyped, Return, Goto

\* A move changes the place of its process alone.
LEMMA Moved ==
  ASSUME ProcessesTyped, NEW p \in Processes, NEW from, NEW to,
         Goto(p, from, to)
  PROVE  /\ pc[p] = from /\ pc'[p] = to
         /\ \A q \in Processes \ {p} : pc'[q] = pc[q]
  BY DEF ProcessesTyped, Goto

-----------------------------------------------------------------------------
(* The lock excludes.                                                      *)

LockInv == ~breached => \A p \in Processes : InLock(p) => lock.owner = p

\* A step of one process that touches neither the lock nor breached, and that
\* does not bring the process into the locked part, keeps the invariant.
LEMMA LockUntouched ==
  ASSUME ProcessesTyped, LockInv, NEW p \in Processes, NEW from, NEW to,
         Goto(p, from, to), InLock(p)' => InLock(p),
         lock'.owner = lock.owner, breached' = breached
  PROVE  LockInv'
  BY DEF ProcessesTyped, LockInv, InLock, Goto

\* Every step keeps the lock exclusive or is a breach.
LEMMA LockInvStep == TypeInv /\ LockInv /\ [Next]_vars => LockInv'
<1> SUFFICES ASSUME TypeInv, LockInv, [Next]_vars PROVE LockInv'
  OBVIOUS
<1> USE DEF TypeInv, disk, history
<1>1. ASSUME NEW p \in Processes,
             \/ \E k \in Kinds : Start(p, k, Absent)
             \/ StartGuarded(p) \/ InitCheck(p) \/ RepairCheck(p)
             \/ RepairScan(p) \/ InspectLock(p) \/ ReadRaw(p) \/ ReadDoc(p)
             \/ GiveUp(p) \/ WriteSnapshot(p) \/ AppendEvent(p)
             \/ UndoSnapshot(p) \/ UndoFails(p) \/ Crash(p)
             \/ \E landed \in BOOLEAN : AppendFails(p, landed)
      PROVE  LockInv'
  <2>1. \E from, to : Goto(p, from, to) /\ (InLock(p)' => InLock(p))
    <3> USE DEF InLock, ProcessesTyped, Goto, Return
    <3>1. CASE \/ \E k \in Kinds : Start(p, k, Absent)
               \/ StartGuarded(p) \/ Crash(p) \/ InspectLock(p)
      BY <3>1, Zenon DEF Start, StartGuarded, Crash, InspectLock
    <3>2. CASE InitCheck(p) \/ RepairCheck(p) \/ RepairScan(p)
      BY <3>2 DEF InitCheck, RepairCheck, RepairScan
    <3>3. CASE ReadRaw(p) \/ ReadDoc(p) \/ GiveUp(p) \/ WriteSnapshot(p)
      BY <3>3 DEF ReadRaw, ReadDoc, GiveUp, WriteSnapshot
    <3>4. CASE \/ AppendEvent(p) \/ UndoSnapshot(p) \/ UndoFails(p)
               \/ \E landed \in BOOLEAN : AppendFails(p, landed)
      BY <3>4 DEF AppendEvent, UndoSnapshot, UndoFails, AppendFails
    <3> QED  BY <1>1, <3>1, <3>2, <3>3, <3>4
  <2>2. lock' = lock /\ breached' = breached
    BY <1>1 DEF Start, StartGuarded, InitCheck, RepairCheck, RepairScan,
                InspectLock, ReadRaw, ReadDoc, GiveUp, WriteSnapshot,
                AppendEvent, UndoSnapshot, UndoFails, Crash, AppendFails
  <2> QED  BY <2>1, <2>2, LockUntouched
<1>2. ASSUME NEW p \in Processes, CreateLock(p) PROVE LockInv'
  <2>1. CASE lock = NoLock
    <3>1. ~breached => \A q \in Processes : ~InLock(q)
      BY <2>1, ConstantsAssumption DEF LockInv, NoLock
    <3> QED
      BY <1>2, <2>1, <3>1
         DEF CreateLock, Goto, LockInv, InLock, ProcessesTyped
  <2>2. CASE lock # NoLock
    <3>1. ~InLock(p)'
      BY <1>2, <2>2 DEF CreateLock, Goto, InLock, ProcessesTyped
    <3> QED  BY <1>2, <2>2, <3>1, LockUntouched DEF CreateLock
  <2> QED  BY <2>1, <2>2
<1>3. ASSUME NEW p \in Processes, FillLock(p) PROVE LockInv'
  <2>1. InLock(p) /\ lock'.owner = lock.owner
    BY <1>3 DEF FillLock, Goto, InLock, RestTyped
  <2> QED  BY <1>3, <2>1, LockUntouched DEF FillLock
<1>4. ASSUME NEW p \in Processes, StealLock(p) PROVE LockInv'
  <2> SUFFICES ASSUME ~breached', NEW q \in Processes, InLock(q)'
               PROVE  FALSE
    BY DEF LockInv
  <2>1. InLock(q)
    BY <1>4 DEF StealLock, Return, Goto, InLock, ProcessesTyped
  <2> QED  BY <1>4, <2>1 DEF StealLock, LockInv
<1>5. ASSUME NEW p \in Processes, ReleaseLock(p) PROVE LockInv'
  <2> SUFFICES ASSUME ~breached', NEW q \in Processes, InLock(q)'
               PROVE  FALSE
    BY DEF LockInv
  <2>1. InLock(q) /\ q # p
    BY <1>5 DEF ReleaseLock, Return, Goto, InLock, ProcessesTyped
  <2> QED  BY <1>5, <2>1 DEF ReleaseLock, LockInv
<1>6. CASE LockAges \/ CorruptFile
  <2>1. /\ lock'.owner = lock.owner
        /\ pc' = pc /\ breached' = breached
    BY <1>6 DEF LockAges, CorruptFile, RestTyped
  <2> QED  BY <2>1 DEF LockInv, InLock
<1>7. CASE UNCHANGED vars
  BY <1>7 DEF vars, LockInv, InLock
<1> QED
  BY <1>1, <1>2, <1>3, <1>4, <1>5, <1>6, <1>7
     DEF Next, Lockstep, Store, Trouble

\* The lock file excludes, for any number of processes (store.js,
\* acquireLock and releaseLock), until a lock is unlinked under its maker.
THEOREM LockIsExclusive == Spec => []LockExcludes
<1>1. Init => LockInv
  BY DEF Init, LockInv, InLock
<1>2. LockInv => LockExcludes
  BY DEF LockInv, LockExcludes
<1> QED
  BY <1>1, <1>2, TypeInvInit, TypeInvStep, LockInvStep, PTL DEF Spec

-----------------------------------------------------------------------------
(* No update is lost.                                                      *)

\* What a command has in hand at each place: a document of its own that
\* carries it, the broken file it is to repair, no success before the event.
Prepared(at, c) ==
  /\ at # "idle" => c.kind \in {"mutate", "init", "force-init", "repair"}
  /\ at \notin {"idle", "release"} => ~c.ok
  /\ \/ at \in {"write", "append"}
     \/ at \in {"create", "inspect", "steal", "fill"} /\ c.kind # "mutate"
     => c.id \in c.next.carries
  /\ /\ at \in {"scan", "create", "inspect", "steal", "fill", "write"}
     /\ c.kind = "repair"
     => c.raw.kind = "corrupt"
  /\ at \in {"raw", "read", "undo"} => c.kind = "mutate"

PreparedInv == \A p \in Processes : Prepared(pc[p], cmd[p])

\* A step that leaves the other processes alone has to prepare its own.
LEMMA PreparedAlone ==
  ASSUME PreparedInv, NEW p \in Processes, Prepared(pc'[p], cmd'[p]),
         \A q \in Processes \ {p} : pc'[q] = pc[q] /\ cmd'[q] = cmd[q]
  PROVE  PreparedInv'
  BY DEF PreparedInv

\* A process that returned owes nothing.
LEMMA ReturnKeepsPrepared ==
  ASSUME ProcessesTyped, PreparedInv, NEW p \in Processes, NEW from,
         Return(p, from)
  PROVE  PreparedInv'
  <1>1. Prepared("idle", NoCommand)
    BY DEF Prepared
  <1> QED  BY <1>1, Returned, PreparedAlone

\* Every step leaves each command with the document its place calls for.
LEMMA PreparedInvStep == TypeInv /\ PreparedInv /\ [Next]_vars => PreparedInv'
<1> SUFFICES ASSUME TypeInv, PreparedInv, [Next]_vars PROVE PreparedInv'
  OBVIOUS
<1> USE DEF TypeInv
<1>1. ASSUME NEW p \in Processes, NEW k \in Kinds,
             NEW expected \in Doc \cup {Absent}, Start(p, k, expected)
      PROVE  PreparedInv'
  <2> DEFINE c == Run(k, started + 1, expected)
             to == IF k = "mutate" THEN "create" ELSE "check"
  <2>1. /\ cmd'[p] = c /\ pc'[p] = to
        /\ \A q \in Processes \ {p} : pc'[q] = pc[q] /\ cmd'[q] = cmd[q]
    BY <1>1 DEF Start, Goto, ProcessesTyped
  <2>2. c.kind = k /\ c.ok = FALSE
    BY DEF Run
  <2>3. Prepared(to, c)
    BY <2>2, ConstantsAssumption DEF Prepared
  <2> QED  BY <2>1, <2>3, PreparedAlone
<1>2. ASSUME NEW p \in Processes, NEW from, Return(p, from)
      PROVE  PreparedInv'
  BY <1>2, ReturnKeepsPrepared
<1>3. ASSUME NEW p \in Processes, NEW from, NEW to, NEW d,
             Goto(p, from, to), cmd' = [cmd EXCEPT ![p].next = d],
             \/ from = "check" /\ to = "create" /\ d = NewDoc(1, {cmd[p].id})
                /\ cmd[p].kind \in {"init", "force-init"}
             \/ from = "scan" /\ to = "create"
                /\ \E rev : d = NewDoc(rev, {cmd[p].id})
             \/ from = "read" /\ to = "write" /\ d = Successor(file, cmd[p].id)
      PROVE  PreparedInv'
  <2>1. cmd[p].id \in d.carries
    BY <1>3 DEF NewDoc, Successor
  <2>2. /\ cmd'[p].next = d /\ cmd'[p].kind = cmd[p].kind
        /\ cmd'[p].id = cmd[p].id /\ cmd'[p].raw = cmd[p].raw
        /\ cmd'[p].ok = cmd[p].ok
        /\ \A q \in Processes \ {p} : cmd'[q] = cmd[q]
    BY <1>3, NextAssigned
  <2>3. /\ pc'[p] = to /\ Prepared(from, cmd[p])
        /\ \A q \in Processes \ {p} : pc'[q] = pc[q]
    BY <1>3, Moved DEF PreparedInv
  <2>4. Prepared(to, cmd'[p])
    BY <1>3, <2>1, <2>2, <2>3 DEF Prepared
  <2> QED  BY <2>2, <2>3, <2>4, PreparedAlone
<1>4. ASSUME NEW p \in Processes, NEW from, NEW to, Goto(p, from, to),
             UNCHANGED cmd,
             <<from, to>> \in {<<"create", "fill">>, <<"create", "inspect">>,
               <<"inspect", "steal">>, <<"read", "release">>,
               <<"write", "release">>, <<"write", "append">>,
               <<"undo", "release">>}
      PROVE  PreparedInv'
  <2>1. Prepared(pc'[p], cmd'[p])
    BY <1>4, Moved DEF Prepared, PreparedInv
  <2> QED  BY <1>4, <2>1, Moved, PreparedAlone
<1>5. ASSUME NEW p \in Processes, RepairCheck(p) PROVE PreparedInv'
  <2>1. CASE /\ file.kind = "corrupt"
             /\ Goto(p, "check", "scan")
             /\ cmd' = [cmd EXCEPT ![p].raw = file]
    <3>1. /\ cmd'[p].raw = file /\ cmd'[p].kind = cmd[p].kind
          /\ cmd'[p].ok = cmd[p].ok
          /\ \A q \in Processes \ {p} : cmd'[q] = cmd[q]
      BY <2>1, RawAssigned
    <3>2. /\ pc'[p] = "scan" /\ Prepared("check", cmd[p])
          /\ \A q \in Processes \ {p} : pc'[q] = pc[q]
      BY <2>1, Moved DEF PreparedInv
    <3>3. Prepared("scan", cmd'[p])
      BY <2>1, <3>1, <3>2 DEF Prepared
    <3> QED  BY <3>1, <3>2, <3>3, PreparedAlone
  <2> QED  BY <1>2, <1>5, <2>1 DEF RepairCheck
<1>6. ASSUME NEW p \in Processes, ReadRaw(p) PROVE PreparedInv'
  <2>1. Prepared(pc'[p], cmd'[p])
    BY <1>6, Moved, RawAssigned DEF ReadRaw, Prepared, PreparedInv
  <2> QED  BY <1>6, <2>1, Moved, RawAssigned, PreparedAlone DEF ReadRaw
<1>7. ASSUME NEW p \in Processes, FillLock(p) PROVE PreparedInv'
  <2>1. Prepared(pc'[p], cmd'[p])
    BY <1>7, Moved, AttemptAssigned DEF FillLock, Prepared, PreparedInv
  <2> QED  BY <1>7, <2>1, Moved, AttemptAssigned, PreparedAlone DEF FillLock
<1>8. ASSUME NEW p \in Processes, StealLock(p) PROVE PreparedInv'
  <2>1. CASE /\ Goto(p, "steal", "create")
             /\ cmd' = [cmd EXCEPT ![p].attempt = 1]
    <3>1. Prepared(pc'[p], cmd'[p])
      BY <2>1, Moved, AttemptAssigned DEF Prepared, PreparedInv
    <3> QED  BY <2>1, <3>1, Moved, AttemptAssigned, PreparedAlone
  <2> QED  BY <1>2, <1>8, <2>1 DEF StealLock
<1>9. ASSUME NEW p \in Processes, AppendEvent(p) PROVE PreparedInv'
  <2>1. /\ cmd'[p].kind = cmd[p].kind
        /\ \A q \in Processes \ {p} : cmd'[q] = cmd[q]
    BY <1>9, OkAssigned DEF AppendEvent
  <2>2. /\ pc'[p] = "release" /\ Prepared("append", cmd[p])
        /\ \A q \in Processes \ {p} : pc'[q] = pc[q]
    BY <1>9, Moved DEF AppendEvent, PreparedInv
  <2>3. Prepared("release", cmd'[p])
    BY <2>1, <2>2 DEF Prepared
  <2> QED  BY <2>1, <2>2, <2>3, PreparedAlone
<1>10. ASSUME NEW p \in Processes, NEW landed \in BOOLEAN,
              AppendFails(p, landed)
       PROVE  PreparedInv'
  <2>1. /\ cmd'[p].kind = cmd[p].kind
        /\ cmd'[p].ok = (cmd[p].kind = "repair")
        /\ \A q \in Processes \ {p} : cmd'[q] = cmd[q]
    BY <1>10, OkAssigned DEF AppendFails
  <2> DEFINE to == IF cmd[p].kind = "mutate" THEN "undo" ELSE "release"
  <2>2. /\ pc'[p] = to /\ Prepared("append", cmd[p])
        /\ \A q \in Processes \ {p} : pc'[q] = pc[q]
    BY <1>10, Moved DEF AppendFails, PreparedInv
  <2>3. Prepared(to, cmd'[p])
    <3>1. CASE cmd[p].kind = "mutate"
      BY <2>1, <2>2, <3>1 DEF Prepared
    <3>2. CASE cmd[p].kind # "mutate"
      BY <2>1, <2>2, <3>2 DEF Prepared
    <3> QED  BY <3>1, <3>2
  <2> QED  BY <2>1, <2>2, <2>3, PreparedAlone
<1>11. CASE LockAges \/ CorruptFile \/ UNCHANGED vars
  BY <1>11 DEF LockAges, CorruptFile, vars, PreparedInv
<1>12. ASSUME NEW p \in Processes, StartGuarded(p) PROVE PreparedInv'
  <2>1. file \in Doc
    BY <1>12 DEF StartGuarded, RestTyped, File, Absent, Corrupt
  <2> QED  BY <1>1, <1>12, <2>1 DEF StartGuarded
<1>13. ASSUME NEW p \in Processes, InitCheck(p) \/ RepairScan(p)
       PROVE  PreparedInv'
  BY <1>13, <1>2, <1>3 DEF InitCheck, RepairScan
<1>14. ASSUME NEW p \in Processes, CreateLock(p) \/ InspectLock(p)
       PROVE  PreparedInv'
  BY <1>14, <1>2, <1>4 DEF CreateLock, InspectLock
<1>15. ASSUME NEW p \in Processes, ReadDoc(p) PROVE PreparedInv'
  BY <1>15, <1>3, <1>4 DEF ReadDoc
<1>16. ASSUME NEW p \in Processes,
              \/ GiveUp(p) \/ WriteSnapshot(p) \/ UndoSnapshot(p)
              \/ UndoFails(p)
       PROVE  PreparedInv'
  BY <1>16, <1>4 DEF GiveUp, WriteSnapshot, UndoSnapshot, UndoFails
<1>17. ASSUME NEW p \in Processes, ReleaseLock(p) \/ Crash(p)
       PROVE  PreparedInv'
  BY <1>17, <1>2 DEF ReleaseLock, Crash
<1> QED
  BY <1>1, <1>5, <1>6, <1>7, <1>8, <1>9, <1>10, <1>11, <1>12, <1>13, <1>14,
     <1>15, <1>16, <1>17
     DEF Next, Lockstep, Store, Trouble

\* How the disk stands to the command in the locked part.
Working(at, c) ==
  /\ at = "read" => c.raw = file
  /\ at = "write" /\ c.kind = "mutate" =>
       /\ file.kind = "doc"
       /\ c.raw = file
       /\ c.next = Successor(file, c.id)
  /\ at \in {"append", "undo"} =>
       /\ file = c.next
       /\ c.kind = "mutate" =>
            c.raw.kind = "doc" /\ acked \subseteq c.raw.carries
  /\ at = "release" /\ c.ok /\ c.kind # "repair" =>
       file.kind = "doc" /\ c.id \in file.carries

UpdateInv ==
  ~breached /\ ~clobbered =>
    /\ file.kind = "doc" => acked \subseteq file.carries
    /\ file.kind # "doc" => acked = {}
    /\ \A p \in Processes : Working(pc[p], cmd[p])

\* While the lock excludes, the disk stands still for everyone but one: a step
\* of a process in the lock meets no other process there.
LEMMA NobodyElse ==
  ASSUME LockInv, ~breached, NEW p \in Processes, InLock(p),
         NEW q \in Processes \ {p}
  PROVE  ~InLock(q)
  BY DEF LockInv

\* A step that leaves the snapshot and the reports alone has to keep its own
\* process in step with them.
LEMMA QuietStep ==
  ASSUME UpdateInv, breached => breached', clobbered => clobbered',
         UNCHANGED <<file, acked>>, NEW p \in Processes,
         ~breached /\ ~clobbered => Working(pc[p], cmd[p])',
         \A q \in Processes \ {p} : pc'[q] = pc[q] /\ cmd'[q] = cmd[q]
  PROVE  UpdateInv'
  <1> SUFFICES ASSUME ~breached', ~clobbered' PROVE UpdateInv'
    BY DEF UpdateInv
  <1>1. ASSUME NEW q \in Processes PROVE Working(pc[q], cmd[q])'
    <2>1. CASE q = p
      BY <2>1
    <2>2. CASE q # p
      BY <2>2 DEF UpdateInv, Working
    <2> QED  BY <2>1, <2>2
  <1> QED  BY <1>1 DEF UpdateInv

\* A step of the process in the lock that changes them has to leave them in
\* order; nobody else is there to be disturbed.
LEMMA LoudStep ==
  ASSUME LockInv, ~breached, NEW p \in Processes, InLock(p),
         \A q \in Processes \ {p} : pc'[q] = pc[q] /\ cmd'[q] = cmd[q],
         Working(pc[p], cmd[p])',
         file'.kind = "doc" => acked' \subseteq file'.carries,
         file'.kind # "doc" => acked' = {}
  PROVE  UpdateInv'
  <1>1. ASSUME NEW q \in Processes PROVE Working(pc[q], cmd[q])'
    <2>1. CASE q = p
      BY <2>1
    <2>2. CASE q # p
      <3>1. ~InLock(q)'
        BY <2>2, NobodyElse DEF InLock
      <3> QED  BY <3>1 DEF InLock, Working
    <2> QED  BY <2>1, <2>2
  <1> QED  BY <1>1 DEF UpdateInv

\* Every step keeps the working process in step with the snapshot.
LEMMA UpdateInvStep ==
  TypeInv /\ LockInv /\ PreparedInv /\ UpdateInv /\ [Next]_vars => UpdateInv'
<1> SUFFICES ASSUME TypeInv, LockInv, PreparedInv, UpdateInv, [Next]_vars
             PROVE  UpdateInv'
  OBVIOUS
<1> USE DEF TypeInv, disk, history
\* Returns that leave no report, and starts.
<1>1. ASSUME NEW p \in Processes, NEW from, Return(p, from),
             UNCHANGED <<file, acked, clobbered>>, breached => breached'
      PROVE  UpdateInv'
  <2>1. Working(pc[p], cmd[p])'
    BY <1>1, Returned DEF Working
  <2> QED  BY <1>1, <2>1, Returned, QuietStep
<1>2. ASSUME NEW p \in Processes, NEW k \in Kinds, NEW expected,
             Start(p, k, expected)
      PROVE  UpdateInv'
  <2>1. /\ pc'[p] \in {"create", "check"}
        /\ \A q \in Processes \ {p} : pc'[q] = pc[q] /\ cmd'[q] = cmd[q]
    BY <1>2 DEF Start, Goto, ProcessesTyped
  <2>2. Working(pc[p], cmd[p])'
    BY <2>1 DEF Working
  <2> QED  BY <1>2, <2>1, <2>2, QuietStep DEF Start
\* Moves to a place where nothing is known yet.
<1>3. ASSUME NEW p \in Processes, NEW from,
             NEW to \in {"create", "scan", "fill", "inspect", "steal", "raw"},
             Goto(p, from, to),
             UNCHANGED <<file, acked, clobbered>>, breached => breached',
             \A q \in Processes \ {p} : cmd'[q] = cmd[q]
      PROVE  UpdateInv'
  <2>1. Working(pc[p], cmd[p])'
    BY <1>3, Moved DEF Working
  <2> QED  BY <1>3, <2>1, Moved, QuietStep
\* Moves to the release without a success.
<1>4. ASSUME NEW p \in Processes, NEW from \in {"read", "write", "undo"},
             Goto(p, from, "release"), UNCHANGED cmd,
             UNCHANGED <<file, acked, clobbered, breached>>
      PROVE  UpdateInv'
  <2>1. ~cmd[p].ok
    BY <1>4, Moved DEF PreparedInv, Prepared
  <2>2. Working(pc[p], cmd[p])'
    BY <1>4, <2>1, Moved DEF Working
  <2> QED  BY <1>4, <2>2, Moved, QuietStep
<1>5. ASSUME NEW p \in Processes, FillLock(p) PROVE UpdateInv'
  <2>1. /\ pc'[p] \in {"raw", "write"}
        /\ pc'[p] = "write" => cmd'[p].kind # "mutate"
        /\ \A q \in Processes \ {p} : pc'[q] = pc[q] /\ cmd'[q] = cmd[q]
    BY <1>5, Moved, AttemptAssigned DEF FillLock
  <2>2. Working(pc[p], cmd[p])'
    BY <2>1 DEF Working
  <2> QED  BY <1>5, <2>1, <2>2, QuietStep DEF FillLock
<1>6. ASSUME NEW p \in Processes, ReadRaw(p) PROVE UpdateInv'
  <2>1. /\ cmd'[p].raw = file
        /\ \A q \in Processes \ {p} : cmd'[q] = cmd[q]
    BY <1>6, RawAssigned DEF ReadRaw
  <2>2. /\ pc'[p] = "read"
        /\ \A q \in Processes \ {p} : pc'[q] = pc[q]
    BY <1>6, Moved DEF ReadRaw
  <2>3. Working(pc[p], cmd[p])'
    BY <1>6, <2>1, <2>2 DEF Working, ReadRaw
  <2> QED  BY <1>6, <2>1, <2>2, <2>3, QuietStep DEF ReadRaw
<1>7. ASSUME NEW p \in Processes, Admits(p), Goto(p, "read", "write"),
             cmd' = [cmd EXCEPT ![p].next = Successor(file, cmd[p].id)],
             UNCHANGED <<file, acked, clobbered, breached>>
      PROVE  UpdateInv'
  <2>1. /\ pc[p] = "read" /\ pc'[p] = "write"
        /\ \A q \in Processes \ {p} : pc'[q] = pc[q]
    BY <1>7, Moved
  <2>2. /\ cmd'[p].next = Successor(file, cmd[p].id)
        /\ cmd'[p].raw = cmd[p].raw /\ cmd'[p].id = cmd[p].id
        /\ \A q \in Processes \ {p} : cmd'[q] = cmd[q]
    BY <1>7, NextAssigned
  <2>3. ~breached /\ ~clobbered => cmd[p].raw = file
    BY <2>1 DEF UpdateInv, Working
  <2>4. ~breached /\ ~clobbered => Working(pc[p], cmd[p])'
    BY <1>7, <2>1, <2>2, <2>3 DEF Working, Admits, Successor
  <2> QED  BY <1>7, <2>1, <2>2, <2>4, QuietStep
\* The rename: a mutation adds to what is there, the others start afresh.
<1>8. ASSUME NEW p \in Processes, WriteSnapshot(p) PROVE UpdateInv'
  <2> SUFFICES ASSUME ~breached', ~clobbered' PROVE UpdateInv'
    BY DEF UpdateInv
  <2>1. /\ pc[p] = "write" /\ pc'[p] = "append" /\ cmd'[p] = cmd[p]
        /\ \A q \in Processes \ {p} : pc'[q] = pc[q] /\ cmd'[q] = cmd[q]
    BY <1>8, Moved DEF WriteSnapshot
  <2>2. /\ ~breached /\ ~clobbered /\ InLock(p)
        /\ cmd[p].kind = "init" => file = Absent
        /\ cmd[p].kind = "repair" => file = cmd[p].raw
    BY <1>8, <2>1 DEF WriteSnapshot, InLock
  <2>3. /\ Prepared("write", cmd[p]) /\ Working("write", cmd[p])
        /\ cmd[p].next \in Doc
    BY <2>1, <2>2 DEF PreparedInv, UpdateInv, ProcessesTyped, Placed
  <2>4. CASE cmd[p].kind = "mutate"
    <3>1. /\ acked' = acked /\ acked \subseteq file.carries
          /\ file.kind = "doc" /\ cmd[p].raw = file
          /\ file' = Successor(file, cmd[p].id)
      BY <1>8, <2>2, <2>3, <2>4 DEF WriteSnapshot, Working, UpdateInv
    <3>2. file'.kind = "doc" /\ acked' \subseteq file'.carries
      BY <3>1 DEF Successor, NewDoc
    <3>3. Working(pc[p], cmd[p])'
      BY <1>8, <2>1, <3>1 DEF WriteSnapshot, Working
    <3> QED  BY <2>1, <2>2, <3>2, <3>3, LoudStep
  <2>5. CASE cmd[p].kind # "mutate"
    <3>1. file.kind # "doc" \/ cmd[p].kind = "force-init"
      BY <2>2, <2>3, <2>5 DEF Prepared, Absent
    <3>2. acked' = {}
      BY <1>8, <2>2, <3>1 DEF WriteSnapshot, UpdateInv
    <3>3. file'.kind = "doc"
      BY <1>8, <2>3 DEF WriteSnapshot, Doc
    <3>4. Working(pc[p], cmd[p])'
      BY <1>8, <2>1, <2>5 DEF WriteSnapshot, Working
    <3> QED  BY <2>1, <2>2, <3>2, <3>3, <3>4, LoudStep
  <2> QED  BY <2>4, <2>5
\* The event, or its failure.
<1>9. ASSUME NEW p \in Processes, AppendEvent(p) PROVE UpdateInv'
  <2>1. /\ cmd'[p].kind = cmd[p].kind /\ cmd'[p].id = cmd[p].id
        /\ \A q \in Processes \ {p} : cmd'[q] = cmd[q]
    BY <1>9, OkAssigned DEF AppendEvent
  <2>2. /\ pc[p] = "append" /\ pc'[p] = "release"
        /\ \A q \in Processes \ {p} : pc'[q] = pc[q]
    BY <1>9, Moved DEF AppendEvent
  <2>3. cmd[p].next \in Doc /\ cmd[p].id \in cmd[p].next.carries
    BY <2>2 DEF PreparedInv, Prepared, ProcessesTyped, Placed
  <2>4. ~breached /\ ~clobbered => file = cmd[p].next
    BY <2>2 DEF UpdateInv, Working
  <2>5. ~breached /\ ~clobbered => Working(pc[p], cmd[p])'
    BY <1>9, <2>1, <2>2, <2>3, <2>4 DEF AppendEvent, Working, Doc
  <2> QED  BY <1>9, <2>1, <2>2, <2>5, QuietStep DEF AppendEvent
<1>10. ASSUME NEW p \in Processes, NEW landed \in BOOLEAN,
              AppendFails(p, landed)
       PROVE  UpdateInv'
  <2> DEFINE to == IF cmd[p].kind = "mutate" THEN "undo" ELSE "release"
  <2>1. /\ cmd'[p].kind = cmd[p].kind /\ cmd'[p].next = cmd[p].next
        /\ cmd'[p].raw = cmd[p].raw
        /\ cmd'[p].ok = (cmd[p].kind = "repair")
        /\ \A q \in Processes \ {p} : cmd'[q] = cmd[q]
    BY <1>10, OkAssigned DEF AppendFails
  <2>2. /\ pc[p] = "append" /\ pc'[p] = to
        /\ \A q \in Processes \ {p} : pc'[q] = pc[q]
    BY <1>10, Moved DEF AppendFails
  <2>3. ~breached /\ ~clobbered => Working("append", cmd[p])
    BY <2>2 DEF UpdateInv
  <2>4. ~breached /\ ~clobbered => Working(pc[p], cmd[p])'
    <3>1. CASE cmd[p].kind = "mutate"
      BY <1>10, <2>1, <2>2, <2>3, <3>1 DEF AppendFails, Working
    <3>2. CASE cmd[p].kind # "mutate"
      BY <1>10, <2>1, <2>2, <3>2 DEF Working
    <3> QED  BY <3>1, <3>2
  <2> QED  BY <1>10, <2>1, <2>2, <2>4, QuietStep DEF AppendFails
\* The undo puts back a document that carries every report.
<1>11. ASSUME NEW p \in Processes, UndoSnapshot(p) PROVE UpdateInv'
  <2> SUFFICES ASSUME ~breached', ~clobbered' PROVE UpdateInv'
    BY DEF UpdateInv
  <2>1. /\ pc[p] = "undo" /\ pc'[p] = "release" /\ cmd'[p] = cmd[p]
        /\ \A q \in Processes \ {p} : pc'[q] = pc[q] /\ cmd'[q] = cmd[q]
    BY <1>11, Moved DEF UndoSnapshot
  <2>2. ~breached /\ ~clobbered /\ InLock(p) /\ acked' = acked
    BY <1>11, <2>1 DEF UndoSnapshot, InLock
  <2>3. /\ Working("undo", cmd[p])
        /\ cmd[p].kind = "mutate" /\ ~cmd[p].ok
    BY <2>1, <2>2 DEF UpdateInv, PreparedInv, Prepared
  <2>4. file' = cmd[p].raw
    BY <1>11, <2>3 DEF UndoSnapshot, Working, Absent
  <2>5. file'.kind = "doc" /\ acked' \subseteq file'.carries
    BY <2>2, <2>3, <2>4 DEF Working
  <2>6. Working(pc[p], cmd[p])'
    BY <2>1, <2>3 DEF Working
  <2> QED  BY <2>1, <2>2, <2>5, <2>6, LoudStep
\* The report: what is reported is in the snapshot.
<1>12. ASSUME NEW p \in Processes, ReleaseLock(p) PROVE UpdateInv'
  <2> SUFFICES ASSUME ~breached', ~clobbered' PROVE UpdateInv'
    BY DEF UpdateInv
  <2>1. /\ pc[p] = "release" /\ pc'[p] = "idle"
        /\ \A q \in Processes \ {p} : pc'[q] = pc[q] /\ cmd'[q] = cmd[q]
    BY <1>12, Returned DEF ReleaseLock
  <2>2. ~breached /\ ~clobbered /\ InLock(p) /\ file' = file
    BY <1>12, <2>1 DEF ReleaseLock, InLock
  <2>3. /\ file.kind = "doc" => acked \subseteq file.carries
        /\ file.kind # "doc" => acked = {}
        /\ Working("release", cmd[p])
    BY <2>1, <2>2 DEF UpdateInv
  <2>4. /\ file'.kind = "doc" => acked' \subseteq file'.carries
        /\ file'.kind # "doc" => acked' = {}
    BY <1>12, <2>2, <2>3 DEF ReleaseLock, Working
  <2>5. Working(pc[p], cmd[p])'
    BY <2>1 DEF Working
  <2> QED  BY <2>1, <2>2, <2>4, <2>5, LoudStep
<1>13. CASE CorruptFile
  <2>1. \A q \in Processes : Working(pc[q], cmd[q])'
    BY <1>13 DEF CorruptFile, InLock, Working
  <2> QED  BY <1>13, <2>1 DEF CorruptFile, UpdateInv, Corrupt
<1>14. CASE LockAges \/ UNCHANGED vars
  BY <1>14 DEF LockAges, vars, UpdateInv, Working
\* The actions that are one of the moves above.
<1>15. ASSUME NEW p \in Processes, StartGuarded(p) PROVE UpdateInv'
  BY <1>2, <1>15 DEF StartGuarded
<1>16. ASSUME NEW p \in Processes, InitCheck(p) PROVE UpdateInv'
  <2>1. CASE /\ Goto(p, "check", "create")
             /\ cmd' = [cmd EXCEPT ![p].next = NewDoc(1, {cmd[p].id})]
    <3>1. \A q \in Processes \ {p} : cmd'[q] = cmd[q]
      BY <2>1, NextAssigned
    <3> QED  BY <1>3, <1>16, <2>1, <3>1 DEF InitCheck
  <2> QED  BY <1>1, <1>16, <2>1 DEF InitCheck
<1>17. ASSUME NEW p \in Processes, RepairCheck(p) PROVE UpdateInv'
  <2>1. CASE /\ Goto(p, "check", "scan")
             /\ cmd' = [cmd EXCEPT ![p].raw = file]
    <3>1. \A q \in Processes \ {p} : cmd'[q] = cmd[q]
      BY <2>1, RawAssigned
    <3> QED  BY <1>3, <1>17, <2>1, <3>1 DEF RepairCheck
  <2> QED  BY <1>1, <1>17, <2>1 DEF RepairCheck
<1>18. ASSUME NEW p \in Processes, RepairScan(p) PROVE UpdateInv'
  <2>1. \A q \in Processes \ {p} : cmd'[q] = cmd[q]
    BY <1>18, NextAssigned DEF RepairScan
  <2> QED  BY <1>3, <1>18, <2>1 DEF RepairScan
<1>19. ASSUME NEW p \in Processes, CreateLock(p) PROVE UpdateInv'
  BY <1>3, <1>19 DEF CreateLock
<1>20. ASSUME NEW p \in Processes, InspectLock(p) PROVE UpdateInv'
  BY <1>1, <1>3, <1>20 DEF InspectLock
<1>21. ASSUME NEW p \in Processes, StealLock(p) PROVE UpdateInv'
  <2>1. CASE /\ Goto(p, "steal", "create")
             /\ cmd' = [cmd EXCEPT ![p].attempt = 1]
    <3>1. \A q \in Processes \ {p} : cmd'[q] = cmd[q]
      BY <2>1, AttemptAssigned
    <3> QED  BY <1>3, <1>21, <2>1, <3>1 DEF StealLock
  <2> QED  BY <1>1, <1>21, <2>1 DEF StealLock
<1>22. ASSUME NEW p \in Processes, ReadDoc(p) PROVE UpdateInv'
  BY <1>4, <1>7, <1>22 DEF ReadDoc
<1>23. ASSUME NEW p \in Processes, GiveUp(p) \/ UndoFails(p) PROVE UpdateInv'
  BY <1>4, <1>23 DEF GiveUp, UndoFails
<1>24. ASSUME NEW p \in Processes, Crash(p) PROVE UpdateInv'
  BY <1>1, <1>24 DEF Crash
<1> QED
  BY <1>2, <1>5, <1>6, <1>8, <1>9, <1>10, <1>11, <1>12, <1>13, <1>14, <1>15,
     <1>16, <1>17, <1>18, <1>19, <1>20, <1>21, <1>22, <1>23, <1>24
     DEF Next, Lockstep, Store, Trouble

\* No update is lost, for any number of processes, commands and mishaps
\* (store.js, mutate): as long as the lock excludes and no init or repair
\* acts on what it checked before the lock.
THEOREM NoUpdateIsLost == Spec => []NoLostUpdate
<1>1. Init => PreparedInv /\ LockInv /\ UpdateInv
  BY DEF Init, PreparedInv, Prepared, LockInv, InLock, UpdateInv, Working,
         NoCommand, Run, Absent
<1>2. PreparedInv /\ UpdateInv => NoLostUpdate
  BY DEF NoLostUpdate, UpdateInv, Working
<1> QED
  BY <1>1, <1>2, TypeInvInit, TypeInvStep, LockInvStep, PreparedInvStep,
     UpdateInvStep, PTL DEF Spec

-----------------------------------------------------------------------------
(* The shapes of a step, as far as the snapshot, the ledger and the        *)
(* documents in hand are concerned.                                        *)

\* What a step tells of the process that takes it: the variables of its
\* command it does not name are the same.
Keeps(p) ==
  /\ cmd'[p].id = cmd[p].id
  /\ cmd'[p].kind = cmd[p].kind
  /\ cmd'[p].expected = cmd[p].expected

Calm == UNCHANGED <<file, ledger, failed, rewound>>

\* A command begins: a new number, nothing in hand.
Begins(p) ==
  /\ Calm
  /\ pc[p] = "idle" /\ pc'[p] \in {"create", "check"}
  /\ started' = started + 1 /\ cmd'[p].id = started + 1
  /\ cmd'[p].raw = Absent /\ cmd'[p].next = Absent
  /\ pc'[p] = "create" => cmd'[p].kind = "mutate"
  /\ \/ cmd'[p].expected = Absent
     \/ /\ cmd'[p].kind = "mutate" /\ cmd'[p].expected = file
        /\ file.kind = "doc"

Ends(p) ==
  /\ Calm /\ UNCHANGED started
  /\ pc'[p] = "idle" /\ cmd'[p] = NoCommand

\* A move that changes no document in hand.
Goes(p) ==
  /\ Calm /\ UNCHANGED started /\ Keeps(p)
  /\ cmd'[p].raw = cmd[p].raw /\ cmd'[p].next = cmd[p].next
  /\ \/ pc[p] \in {"create", "inspect", "steal"}
        /\ pc'[p] \in {"create", "inspect", "steal", "fill"}
     \/ pc[p] = "fill" /\ pc'[p] = "raw" /\ cmd[p].kind = "mutate"
     \/ pc[p] = "fill" /\ pc'[p] = "write" /\ cmd[p].kind # "mutate"
     \/ pc[p] \in {"read", "write", "undo"} /\ pc'[p] = "release"

\* The command settles the document it is to write.
Plans(p) ==
  /\ Calm /\ UNCHANGED started /\ Keeps(p)
  /\ cmd'[p].raw = cmd[p].raw
  /\ \/ /\ pc[p] = "check" /\ pc'[p] = "create"
        /\ cmd[p].kind \in {"init", "force-init"}
        /\ cmd'[p].next = NewDoc(1, {cmd[p].id})
     \/ /\ pc[p] = "scan" /\ pc'[p] = "create"
        /\ cmd'[p].next = NewDoc(MaxRevision(ledger) + 1, {cmd[p].id})
     \/ /\ pc[p] = "read" /\ pc'[p] = "write"
        /\ Admits(p) /\ cmd'[p].next = Successor(file, cmd[p].id)

\* The command remembers the snapshot it finds.
Remembers(p) ==
  /\ Calm /\ UNCHANGED started /\ Keeps(p)
  /\ cmd'[p].raw = file /\ cmd'[p].next = cmd[p].next
  /\ <<pc[p], pc'[p]>> \in {<<"check", "scan">>, <<"raw", "read">>}

\* The document in hand becomes the snapshot, its event goes to the ledger
\* or not, and the old snapshot comes back.
Writes(p) ==
  /\ WriteSnapshot(p)
  /\ pc[p] = "write" /\ pc'[p] = "append" /\ cmd'[p] = cmd[p]

Logs(p) ==
  /\ UNCHANGED <<file, failed, rewound, started>> /\ Keeps(p)
  /\ cmd'[p].raw = cmd[p].raw /\ cmd'[p].next = cmd[p].next
  /\ pc[p] = "append"
  /\ pc'[p] = "release" \/ (pc'[p] = "undo" /\ cmd[p].kind = "mutate")
  /\ ledger' \in {ledger, Append(ledger, cmd[p].next.rev)}

Undoes(p) ==
  /\ UndoSnapshot(p)
  /\ pc[p] = "undo" /\ pc'[p] = "release" /\ cmd'[p] = cmd[p]

\* Nothing of it changes.
Rests == Calm /\ UNCHANGED <<pc, cmd, started>>

\* Only the process that takes the step moves.
Alone(p) == \A q \in Processes \ {p} : pc'[q] = pc[q] /\ cmd'[q] = cmd[q]

\* What has gone wrong stays so.
Remains ==
  /\ breached => breached'
  /\ clobbered => clobbered'
  /\ rewound \subseteq rewound'
  /\ mishaps' >= mishaps

\* An assignment to one variable of a command leaves what it expected.
LEMMA ExpectedKept ==
  ASSUME ProcessesTyped, NEW p \in Processes, NEW d,
         \/ cmd' = [cmd EXCEPT ![p].next = d]
         \/ cmd' = [cmd EXCEPT ![p].raw = d]
         \/ cmd' = [cmd EXCEPT ![p].ok = d]
         \/ cmd' = [cmd EXCEPT ![p].attempt = d]
  PROVE  cmd'[p].expected = cmd[p].expected
  BY DEF ProcessesTyped, Command

\* A move with a document for next, and one with the snapshot for raw.
NextAssigns(p, d, from, to) ==
  /\ Alone(p) /\ Keeps(p) /\ pc[p] = from /\ pc'[p] = to
  /\ cmd'[p].next = d /\ cmd'[p].raw = cmd[p].raw

RawAssigns(p, from, to) ==
  /\ Alone(p) /\ Keeps(p) /\ pc[p] = from /\ pc'[p] = to
  /\ cmd'[p].raw = file /\ cmd'[p].next = cmd[p].next

LEMMA NextMoves ==
  ASSUME ProcessesTyped, NEW p \in Processes, NEW d, NEW from, NEW to,
         Goto(p, from, to), cmd' = [cmd EXCEPT ![p].next = d]
  PROVE  NextAssigns(p, d, from, to)
  <1>1. cmd'[p].expected = cmd[p].expected
    BY ExpectedKept
  <1>2. /\ pc[p] = from /\ pc'[p] = to
        /\ \A q \in Processes \ {p} : pc'[q] = pc[q]
    BY Moved
  <1>3. /\ cmd'[p].next = d
        /\ cmd'[p].kind = cmd[p].kind
        /\ cmd'[p].id = cmd[p].id
        /\ cmd'[p].raw = cmd[p].raw
        /\ \A q \in Processes \ {p} : cmd'[q] = cmd[q]
    BY NextAssigned
  <1> QED  BY <1>1, <1>2, <1>3 DEF NextAssigns, Alone, Keeps

LEMMA RawMoves ==
  ASSUME ProcessesTyped, NEW p \in Processes, NEW from, NEW to,
         Goto(p, from, to), cmd' = [cmd EXCEPT ![p].raw = file]
  PROVE  RawAssigns(p, from, to)
  <1>1. cmd'[p].expected = cmd[p].expected
    BY ExpectedKept
  <1>2. /\ pc[p] = from /\ pc'[p] = to
        /\ \A q \in Processes \ {p} : pc'[q] = pc[q]
    BY Moved
  <1>3. /\ cmd'[p].raw = file
        /\ cmd'[p].kind = cmd[p].kind
        /\ cmd'[p].id = cmd[p].id
        /\ cmd'[p].next = cmd[p].next
        /\ \A q \in Processes \ {p} : cmd'[q] = cmd[q]
    BY RawAssigned
  <1> QED  BY <1>1, <1>2, <1>3 DEF RawAssigns, Alone, Keeps

\* Every step has one of the shapes.
LEMMA StepShapes ==
  ASSUME TypeInv, [Next]_vars
  PROVE  /\ Remains
         /\ \/ Rests
            \/ CorruptFile /\ UNCHANGED <<pc, cmd>>
            \/ \E p \in Processes :
                 /\ Alone(p)
                 /\ \/ Begins(p) \/ Ends(p) \/ Goes(p) \/ Plans(p)
                    \/ Remembers(p) \/ Writes(p) \/ Logs(p) \/ Undoes(p)
<1> USE DEF TypeInv, disk, history, Calm, Keeps
<1>1. ASSUME NEW p \in Processes, NEW k \in Kinds,
             NEW expected \in {Absent, file}, Start(p, k, expected),
             expected = Absent \/ (k = "mutate" /\ file.kind = "doc")
      PROVE  Remains /\ Alone(p) /\ Begins(p)
  <2>1. /\ cmd'[p] = Run(k, started + 1, expected)
        /\ pc[p] = "idle"
        /\ pc'[p] = IF k = "mutate" THEN "create" ELSE "check"
        /\ Alone(p)
    BY <1>1 DEF Start, Goto, ProcessesTyped, Alone
  <2>2. Remains
    BY <1>1 DEF Start, Remains, RestTyped
  <2> QED  BY <1>1, <2>1, <2>2 DEF Start, Begins, Run
<1>2. ASSUME NEW p \in Processes, NEW from, Return(p, from),
             Calm, UNCHANGED started, Remains
      PROVE  Alone(p) /\ Ends(p)
  BY <1>2, Returned DEF Alone, Ends
<1>3. ASSUME NEW p \in Processes, NEW k \in Kinds, Start(p, k, Absent)
      PROVE  Remains /\ Alone(p) /\ Begins(p)
  BY <1>1, <1>3
<1>4. ASSUME NEW p \in Processes, StartGuarded(p)
      PROVE  Remains /\ Alone(p) /\ Begins(p)
  BY <1>1, <1>4 DEF StartGuarded
<1>5. ASSUME NEW p \in Processes, InitCheck(p)
      PROVE  Remains /\ Alone(p) /\ (Plans(p) \/ Ends(p))
  <2>1. Remains /\ Calm /\ UNCHANGED started
    BY <1>5 DEF InitCheck, Remains, RestTyped
  <2>2. CASE /\ cmd[p].kind \in {"init", "force-init"}
             /\ Goto(p, "check", "create")
             /\ cmd' = [cmd EXCEPT ![p].next = NewDoc(1, {cmd[p].id})]
    <3>1. NextAssigns(p, NewDoc(1, {cmd[p].id}), "check", "create")
      BY <2>2, NextMoves
    <3> QED  BY <2>1, <2>2, <3>1 DEF NextAssigns, Plans
  <2>3. CASE Return(p, "check")
    BY <1>2, <2>1, <2>3
  <2> QED  BY <1>5, <2>2, <2>3 DEF InitCheck
<1>6. ASSUME NEW p \in Processes, RepairCheck(p)
      PROVE  Remains /\ Alone(p) /\ (Remembers(p) \/ Ends(p))
  <2>1. Remains /\ Calm /\ UNCHANGED started
    BY <1>6 DEF RepairCheck, Remains, RestTyped
  <2>2. CASE /\ Goto(p, "check", "scan")
             /\ cmd' = [cmd EXCEPT ![p].raw = file]
    <3>1. RawAssigns(p, "check", "scan")
      BY <2>2, RawMoves
    <3> QED  BY <2>1, <3>1 DEF RawAssigns, Remembers
  <2>3. CASE Return(p, "check")
    BY <1>2, <2>1, <2>3
  <2> QED  BY <1>6, <2>2, <2>3 DEF RepairCheck
<1>7. ASSUME NEW p \in Processes, RepairScan(p)
      PROVE  Remains /\ Alone(p) /\ Plans(p)
  <2>1. Remains /\ Calm /\ UNCHANGED started
    BY <1>7 DEF RepairScan, Remains, RestTyped
  <2>2. NextAssigns(p, NewDoc(MaxRevision(ledger) + 1, {cmd[p].id}),
                    "scan", "create")
    BY <1>7, NextMoves DEF RepairScan
  <2> QED  BY <2>1, <2>2 DEF NextAssigns, Plans
<1>8. ASSUME NEW p \in Processes, CreateLock(p)
      PROVE  Remains /\ Alone(p) /\ Goes(p)
  <2>1. Remains /\ Calm /\ UNCHANGED <<started, cmd>>
    BY <1>8 DEF CreateLock, Remains, RestTyped
  <2> QED  BY <1>8, <2>1, Moved DEF CreateLock, Goes, Alone
<1>9. ASSUME NEW p \in Processes, FillLock(p)
      PROVE  Remains /\ Alone(p) /\ Goes(p)
  <2>1. Remains /\ Calm /\ UNCHANGED started
    BY <1>9 DEF FillLock, Remains, RestTyped
  <2>2. /\ pc[p] = "fill" /\ Alone(p)
        /\ pc'[p] = IF cmd[p].kind = "mutate" THEN "raw" ELSE "write"
        /\ Keeps(p)
        /\ cmd'[p].raw = cmd[p].raw /\ cmd'[p].next = cmd[p].next
    BY <1>9, Moved, AttemptAssigned, ExpectedKept DEF FillLock, Alone
  <2> QED  BY <2>1, <2>2 DEF Goes
<1>10. ASSUME NEW p \in Processes, InspectLock(p)
       PROVE  Remains /\ Alone(p) /\ (Goes(p) \/ Ends(p))
  <2>1. Remains /\ Calm /\ UNCHANGED started
    BY <1>10 DEF InspectLock, Remains, RestTyped
  <2>2. CASE Goto(p, "inspect", "steal") /\ UNCHANGED cmd
    BY <2>1, <2>2, Moved DEF Goes, Alone
  <2>3. CASE Return(p, "inspect")
    BY <1>2, <2>1, <2>3
  <2> QED  BY <1>10, <2>2, <2>3 DEF InspectLock
<1>11. ASSUME NEW p \in Processes, StealLock(p)
       PROVE  Remains /\ Alone(p) /\ (Goes(p) \/ Ends(p))
  <2>1. Remains /\ Calm /\ UNCHANGED started
    BY <1>11 DEF StealLock, Remains, RestTyped
  <2>2. CASE /\ Goto(p, "steal", "create")
             /\ cmd' = [cmd EXCEPT ![p].attempt = 1]
    BY <2>1, <2>2, Moved, AttemptAssigned, ExpectedKept DEF Goes, Alone
  <2>3. CASE Return(p, "steal")
    BY <1>2, <2>1, <2>3
  <2> QED  BY <1>11, <2>2, <2>3 DEF StealLock
<1>12. ASSUME NEW p \in Processes, ReleaseLock(p)
       PROVE  Remains /\ Alone(p) /\ Ends(p)
  <2>1. Remains /\ Calm /\ UNCHANGED started
    BY <1>12 DEF ReleaseLock, Remains, RestTyped
  <2> QED  BY <1>2, <1>12, <2>1 DEF ReleaseLock
<1>13. ASSUME NEW p \in Processes, ReadRaw(p)
       PROVE  Remains /\ Alone(p) /\ Remembers(p)
  <2>1. Remains /\ Calm /\ UNCHANGED started
    BY <1>13 DEF ReadRaw, Remains, RestTyped
  <2>2. RawAssigns(p, "raw", "read")
    BY <1>13, RawMoves DEF ReadRaw
  <2> QED  BY <2>1, <2>2 DEF RawAssigns, Remembers
<1>14. ASSUME NEW p \in Processes, ReadDoc(p)
       PROVE  Remains /\ Alone(p) /\ (Plans(p) \/ Goes(p))
  <2>1. Remains /\ Calm /\ UNCHANGED started
    BY <1>14 DEF ReadDoc, Remains, RestTyped
  <2>2. CASE /\ Admits(p) /\ Goto(p, "read", "write")
             /\ cmd' = [cmd EXCEPT ![p].next = Successor(file, cmd[p].id)]
    <3>1. NextAssigns(p, Successor(file, cmd[p].id), "read", "write")
      BY <2>2, NextMoves
    <3> QED  BY <2>1, <2>2, <3>1 DEF NextAssigns, Plans
  <2>3. CASE Goto(p, "read", "release") /\ UNCHANGED cmd
    BY <2>1, <2>3, Moved DEF Goes, Alone
  <2> QED  BY <1>14, <2>2, <2>3 DEF ReadDoc
<1>15. ASSUME NEW p \in Processes, GiveUp(p) \/ UndoFails(p)
       PROVE  Remains /\ Alone(p) /\ Goes(p)
  <2>1. Remains /\ Calm /\ UNCHANGED <<started, cmd>>
    BY <1>15 DEF GiveUp, UndoFails, Mishap, Remains, RestTyped
  <2>2. Goto(p, "write", "release") \/ Goto(p, "undo", "release")
    BY <1>15 DEF GiveUp, UndoFails
  <2> QED  BY <2>1, <2>2, Moved DEF Goes, Alone
<1>16. ASSUME NEW p \in Processes, WriteSnapshot(p)
       PROVE  Remains /\ Alone(p) /\ Writes(p)
  <2>1. Remains
    BY <1>16 DEF WriteSnapshot, Remains, RestTyped
  <2> QED  BY <1>16, <2>1, Moved DEF WriteSnapshot, Writes, Alone
<1>17. ASSUME NEW p \in Processes, AppendEvent(p)
       PROVE  Remains /\ Alone(p) /\ Logs(p)
  <2>1. Remains /\ UNCHANGED <<file, failed, rewound, started>>
    BY <1>17 DEF AppendEvent, Remains, RestTyped
  <2> QED
    BY <1>17, <2>1, Moved, OkAssigned, ExpectedKept
       DEF AppendEvent, Logs, Alone
<1>18. ASSUME NEW p \in Processes, NEW landed \in BOOLEAN,
              AppendFails(p, landed)
       PROVE  Remains /\ Alone(p) /\ Logs(p)
  <2>1. Remains /\ UNCHANGED <<file, failed, rewound, started>>
    BY <1>18 DEF AppendFails, Mishap, Remains, RestTyped
  <2>2. /\ pc[p] = "append" /\ Alone(p)
        /\ pc'[p] = IF cmd[p].kind = "mutate" THEN "undo" ELSE "release"
        /\ Keeps(p)
        /\ cmd'[p].raw = cmd[p].raw /\ cmd'[p].next = cmd[p].next
    BY <1>18, Moved, OkAssigned, ExpectedKept DEF AppendFails, Alone
  <2>3. ledger' \in {ledger, Append(ledger, cmd[p].next.rev)}
    BY <1>18 DEF AppendFails
  <2> QED  BY <2>1, <2>2, <2>3 DEF Logs
<1>19. ASSUME NEW p \in Processes, UndoSnapshot(p)
       PROVE  Remains /\ Alone(p) /\ Undoes(p)
  <2>1. Remains
    BY <1>19 DEF UndoSnapshot, Remains, RestTyped
  <2> QED  BY <1>19, <2>1, Moved DEF UndoSnapshot, Undoes, Alone
<1>20. ASSUME NEW p \in Processes, Crash(p)
       PROVE  Remains /\ Alone(p) /\ Ends(p)
  <2>1. Remains /\ Calm /\ UNCHANGED started
    BY <1>20 DEF Crash, Mishap, Remains, RestTyped
  <2> QED  BY <1>2, <1>20, <2>1 DEF Crash
<1>21. CASE LockAges \/ UNCHANGED vars
  BY <1>21 DEF LockAges, Mishap, vars, Rests, Remains, RestTyped
<1>22. CASE CorruptFile
  BY <1>22 DEF CorruptFile, Mishap, Remains, RestTyped
<1> QED
  BY <1>3, <1>4, <1>5, <1>6, <1>7, <1>8, <1>9, <1>10, <1>11, <1>12, <1>13,
     <1>14, <1>15, <1>16, <1>17, <1>18, <1>19, <1>20, <1>21, <1>22
     DEF Next, Lockstep, Store, Trouble

-----------------------------------------------------------------------------
(* The numbers of the commands.                                            *)

\* A command that has not begun to use a document, or waits to write one.
Waiting == {"create", "inspect", "steal", "fill", "write"}
Unwritten == Waiting \cup {"check", "scan", "raw", "read"}

\* What the number of a running command may be in: not among the failed, nor
\* in the snapshot it would put back, nor, before its write, in the snapshot.
Fresh(p) ==
  /\ pc[p] # "idle" => cmd[p].id <= started
  /\ pc[p] \notin {"idle", "release"} => cmd[p].id \notin failed
  /\ pc[p] \in {"append", "undo"} => cmd[p].id \notin cmd[p].raw.carries
  /\ pc[p] \in Unwritten => cmd[p].id \notin file.carries
  /\ pc[p] \in Waiting /\ cmd[p].kind # "mutate" =>
       cmd[p].next.carries = {cmd[p].id}
  /\ \A n \in cmd[p].raw.carries \cup cmd[p].next.carries : n <= started

Apart(p, q) ==
  /\ p # q /\ pc[p] # "idle" /\ pc[q] # "idle" => cmd[p].id # cmd[q].id
  /\ pc[p] \in Unwritten => cmd[p].id \notin cmd[q].raw.carries
  /\ pc[p] \in Unwritten /\ p # q => cmd[p].id \notin cmd[q].next.carries

NumbersInv ==
  /\ \A p \in Processes : Fresh(p)
  /\ \A p, q \in Processes : Apart(p, q)
  /\ \A n \in file.carries \cup failed : n <= started

\* The numbers are integers.
LEMMA NumbersTyped ==
  ASSUME TypeInv
  PROVE  /\ started \in Int
         /\ \A n \in file.carries \cup failed : n \in Int
         /\ \A p \in Processes :
              /\ cmd[p].id \in Int
              /\ \A n \in cmd[p].raw.carries \cup cmd[p].next.carries :
                   n \in Int
  <1>1. \A d \in File : \A n \in d.carries : n \in Int
    BY ConstantsAssumption DEF File, Doc, Absent, Corrupt, Commands
  <1>2. \A p \in Processes : cmd[p] \in Command
    BY DEF TypeInv, ProcessesTyped
  <1>3. \A d \in Doc \cup {Absent} : d \in File
    BY DEF File
  <1>4. \A c \in Command : c.id \in Int /\ c.raw \in File /\ c.next \in File
    BY <1>3, ConstantsAssumption DEF Command
  <1>5. started \in Int /\ file \in File /\ \A n \in failed : n \in Int
    BY ConstantsAssumption DEF TypeInv, RestTyped, Commands
  <1> QED  BY <1>1, <1>2, <1>4, <1>5

\* A step of one process keeps the numbers apart if it keeps its own.
LEMMA NumbersAlone ==
  ASSUME TypeInv, NumbersInv, NEW p \in Processes, Alone(p),
         started' \in Int, started' >= started, Fresh(p)',
         \A n \in file'.carries \cup failed' : n <= started',
         \A q \in Processes \ {p} :
           /\ cmd[q].id \in failed' /\ pc[q] # "idle" => cmd[q].id \in failed
           /\ cmd[q].id \in file'.carries /\ pc[q] \in Unwritten =>
                cmd[q].id \in file.carries
           /\ Apart(p, q)' /\ Apart(q, p)',
         Apart(p, p)'
  PROVE  NumbersInv'
  <1>1. ASSUME NEW q \in Processes \ {p} PROVE Fresh(q)'
    BY <1>1, NumbersTyped DEF Alone, NumbersInv, Fresh
  <1>2. ASSUME NEW q \in Processes \ {p}, NEW r \in Processes \ {p}
        PROVE  Apart(q, r)'
    BY <1>2 DEF Alone, NumbersInv, Apart
  <1> QED  BY <1>1, <1>2 DEF NumbersInv

\* No command meets its own number, or another's, before it is written.
LEMMA NumbersInvStep ==
  TypeInv /\ PreparedInv /\ NumbersInv /\ [Next]_vars => NumbersInv'
<1> SUFFICES ASSUME TypeInv, PreparedInv, NumbersInv, [Next]_vars
             PROVE  NumbersInv'
  OBVIOUS
<1>1. CASE Rests
  BY <1>1 DEF Rests, Calm, NumbersInv, Fresh, Apart
<1>2. CASE CorruptFile /\ UNCHANGED <<pc, cmd>>
  BY <1>2 DEF CorruptFile, Corrupt, NumbersInv, Fresh, Apart
<1>3. ASSUME NEW p \in Processes, Alone(p), Begins(p)
      PROVE  NumbersInv'
  <2>1. Fresh(p)'
    BY <1>3, NumbersTyped
       DEF Begins, Calm, NumbersInv, Fresh, Absent, Waiting, Unwritten
  <2>2. ASSUME NEW q \in Processes \ {p} PROVE Apart(p, q)'
    BY <1>3, <2>2, NumbersTyped DEF Begins, Alone, NumbersInv, Fresh, Apart
  <2>3. ASSUME NEW q \in Processes \ {p} PROVE Apart(q, p)'
    BY <1>3, <2>3, NumbersTyped
       DEF Begins, Alone, NumbersInv, Fresh, Apart, Absent
  <2>4. Apart(p, p)'
    BY <1>3 DEF Begins, Apart, Absent
  <2> QED
    BY <1>3, <2>1, <2>2, <2>3, <2>4, NumbersTyped, NumbersAlone
       DEF Begins, Calm, NumbersInv
<1>4. ASSUME NEW p \in Processes, Alone(p), Ends(p)
      PROVE  NumbersInv'
  <2>1. /\ pc'[p] = "idle"
        /\ cmd'[p].raw.carries = {} /\ cmd'[p].next.carries = {}
    BY <1>4 DEF Ends, NoCommand, Run, Absent
  <2>2. Fresh(p)' /\ Apart(p, p)'
    BY <2>1 DEF Fresh, Apart, Waiting, Unwritten
  <2>3. ASSUME NEW q \in Processes \ {p} PROVE Apart(p, q)' /\ Apart(q, p)'
    BY <2>1, <2>3 DEF Apart, Waiting, Unwritten
  <2> QED
    BY <1>4, <2>2, <2>3, NumbersTyped, NumbersAlone
       DEF Ends, Calm, NumbersInv
<1>5. ASSUME NEW p \in Processes, Alone(p), Goes(p)
      PROVE  NumbersInv'
  <2>1. /\ pc[p] # "idle"
        /\ pc'[p] \in Unwritten => pc[p] \in Unwritten
        /\ pc'[p] \in Waiting /\ cmd[p].kind # "mutate" => pc[p] \in Waiting
        /\ pc'[p] \in Waiting \cup {"raw", "release"}
        /\ pc[p] = "release" => pc'[p] = "release"
    BY <1>5 DEF Goes, Waiting, Unwritten
  <2>2. /\ cmd'[p].id = cmd[p].id /\ cmd'[p].kind = cmd[p].kind
        /\ cmd'[p].raw = cmd[p].raw /\ cmd'[p].next = cmd[p].next
    BY <1>5 DEF Goes, Keeps
  <2>3. Fresh(p)'
    BY <1>5, <2>1, <2>2 DEF Goes, Calm, NumbersInv, Fresh, Waiting
  <2>4. Apart(p, p)'
    BY <2>1, <2>2 DEF NumbersInv, Apart
  <2>5. ASSUME NEW q \in Processes \ {p} PROVE Apart(p, q)' /\ Apart(q, p)'
    BY <1>5, <2>1, <2>2, <2>5 DEF Alone, NumbersInv, Apart
  <2> QED
    BY <1>5, <2>3, <2>4, <2>5, NumbersTyped, NumbersAlone
       DEF Goes, Calm, NumbersInv
<1>6. ASSUME NEW p \in Processes, Alone(p), Plans(p)
      PROVE  NumbersInv'
  <2>1. /\ pc[p] \in Unwritten /\ pc'[p] \in {"create", "write"}
        /\ pc'[p] = "write" => cmd[p].kind = "mutate"
        /\ cmd'[p].id = cmd[p].id /\ cmd'[p].kind = cmd[p].kind
        /\ cmd'[p].raw = cmd[p].raw
    BY <1>6 DEF Plans, Keeps, Unwritten, PreparedInv, Prepared
  <2>2. \/ cmd'[p].next.carries = {cmd[p].id}
        \/ /\ cmd'[p].next.carries = file.carries \cup {cmd[p].id}
           /\ pc'[p] = "write"
    BY <1>6 DEF Plans, NewDoc, Successor
  <2>3. pc[p] # "idle"
    BY <1>6 DEF Plans
  <2>4. Fresh(p)'
    BY <1>6, <2>1, <2>2, <2>3 DEF Plans, Calm, NumbersInv, Fresh, Unwritten,
                                  Waiting
  <2>5. Apart(p, p)'
    BY <2>1 DEF NumbersInv, Apart
  <2>6. ASSUME NEW q \in Processes \ {p} PROVE Apart(p, q)'
    BY <1>6, <2>1, <2>3, <2>6 DEF Alone, NumbersInv, Apart
  <2>7. ASSUME NEW q \in Processes \ {p} PROVE Apart(q, p)'
    BY <1>6, <2>1, <2>2, <2>3, <2>7
       DEF Alone, NumbersInv, Fresh, Apart, Unwritten, Waiting
  <2> QED
    BY <1>6, <2>4, <2>5, <2>6, <2>7, NumbersTyped, NumbersAlone
       DEF Plans, Calm, NumbersInv
<1>7. ASSUME NEW p \in Processes, Alone(p), Remembers(p)
      PROVE  NumbersInv'
  <2>1. /\ pc[p] \in Unwritten /\ pc'[p] \in {"scan", "read"}
        /\ pc[p] # "idle"
        /\ cmd'[p].id = cmd[p].id /\ cmd'[p].raw = file
        /\ cmd'[p].next = cmd[p].next
    BY <1>7 DEF Remembers, Keeps, Unwritten
  <2>2. Fresh(p)'
    BY <1>7, <2>1 DEF Remembers, Calm, NumbersInv, Fresh, Unwritten, Waiting
  <2>3. Apart(p, p)'
    BY <1>7, <2>1 DEF Remembers, NumbersInv, Fresh, Apart
  <2>4. ASSUME NEW q \in Processes \ {p} PROVE Apart(p, q)' /\ Apart(q, p)'
    BY <1>7, <2>1, <2>4 DEF Alone, NumbersInv, Fresh, Apart
  <2> QED
    BY <1>7, <2>2, <2>3, <2>4, NumbersTyped, NumbersAlone
       DEF Remembers, Calm, NumbersInv
<1>8. ASSUME NEW p \in Processes, Alone(p), Writes(p)
      PROVE  NumbersInv'
  <2>1. /\ pc[p] = "write" /\ pc'[p] = "append" /\ cmd'[p] = cmd[p]
        /\ file' = cmd[p].next /\ UNCHANGED <<failed, started>>
    BY <1>8 DEF Writes, WriteSnapshot
  <2>2. Fresh(p)' /\ Apart(p, p)'
    BY <2>1 DEF NumbersInv, Fresh, Apart, Waiting, Unwritten
  <2>3. ASSUME NEW q \in Processes \ {p}
        PROVE  /\ Apart(p, q)' /\ Apart(q, p)'
               /\ cmd[q].id \in file'.carries => pc[q] \notin Unwritten
    BY <1>8, <2>1, <2>3 DEF Alone, NumbersInv, Apart, Waiting, Unwritten
  <2> QED
    BY <1>8, <2>1, <2>2, <2>3, NumbersTyped, NumbersAlone
       DEF NumbersInv, Fresh
<1>9. ASSUME NEW p \in Processes, Alone(p), Logs(p)
      PROVE  NumbersInv'
  <2>1. /\ pc[p] = "append" /\ pc'[p] \in {"release", "undo"}
        /\ cmd'[p].id = cmd[p].id
        /\ cmd'[p].raw = cmd[p].raw /\ cmd'[p].next = cmd[p].next
        /\ UNCHANGED <<file, failed, started>>
    BY <1>9 DEF Logs, Keeps
  <2>2. Fresh(p)' /\ Apart(p, p)'
    BY <2>1 DEF NumbersInv, Fresh, Apart, Waiting, Unwritten
  <2>3. ASSUME NEW q \in Processes \ {p} PROVE Apart(p, q)' /\ Apart(q, p)'
    BY <1>9, <2>1, <2>3 DEF Alone, NumbersInv, Apart, Waiting, Unwritten
  <2> QED
    BY <1>9, <2>1, <2>2, <2>3, NumbersTyped, NumbersAlone DEF NumbersInv
<1>10. ASSUME NEW p \in Processes, Alone(p), Undoes(p)
       PROVE  NumbersInv'
  <2>1. /\ pc[p] = "undo" /\ pc'[p] = "release" /\ cmd'[p] = cmd[p]
        /\ file' \in {file, cmd[p].raw} /\ UNCHANGED started
        /\ failed' = failed \cup {cmd[p].id}
    BY <1>10 DEF Undoes, UndoSnapshot
  <2>2. Fresh(p)' /\ Apart(p, p)'
    BY <2>1 DEF NumbersInv, Fresh, Apart, Waiting, Unwritten
  <2>3. ASSUME NEW q \in Processes \ {p}
        PROVE  /\ Apart(p, q)' /\ Apart(q, p)'
               /\ pc[q] \in Unwritten => cmd[q].id \notin cmd[p].raw.carries
               /\ pc[q] # "idle" => cmd[q].id # cmd[p].id
    BY <1>10, <2>1, <2>3 DEF Alone, NumbersInv, Apart, Waiting, Unwritten
  <2> QED
    BY <1>10, <2>1, <2>2, <2>3, NumbersTyped, NumbersAlone
       DEF NumbersInv, Fresh
<1> QED
  BY StepShapes, <1>1, <1>2, <1>3, <1>4, <1>5, <1>6, <1>7, <1>8, <1>9, <1>10

-----------------------------------------------------------------------------
(* What failed leaves no trace.                                            *)

\* No failed command is in the snapshot, nor in the one a mutation keeps to
\* put back.
KeepsClean(p) ==
  pc[p] \in {"read", "write", "append", "undo"} /\ cmd[p].kind = "mutate" =>
    failed \cap cmd[p].raw.carries = {}

TraceInv ==
  ~breached /\ ~clobbered =>
    /\ failed \cap file.carries = {}
    /\ \A p \in Processes : KeepsClean(p)

\* A step that changes neither the snapshot nor the failed keeps the
\* invariant if its own process does.
LEMMA TraceQuiet ==
  ASSUME TraceInv, Remains, UNCHANGED <<file, failed>>,
         NEW p \in Processes, Alone(p),
         ~breached /\ ~clobbered => KeepsClean(p)'
  PROVE  TraceInv'
  <1> SUFFICES ASSUME ~breached', ~clobbered' PROVE TraceInv'
    BY DEF TraceInv
  <1>1. ~breached /\ ~clobbered
    BY DEF Remains
  <1>2. ASSUME NEW q \in Processes PROVE KeepsClean(q)'
    BY <1>1, <1>2 DEF Alone, TraceInv, KeepsClean
  <1> QED  BY <1>1, <1>2 DEF TraceInv

LEMMA TraceInvStep ==
  /\ TypeInv /\ LockInv /\ PreparedInv /\ UpdateInv /\ NumbersInv
  /\ TraceInv /\ [Next]_vars
  => TraceInv'
<1> SUFFICES ASSUME TypeInv, LockInv, PreparedInv, UpdateInv, NumbersInv,
                    TraceInv, [Next]_vars
             PROVE  TraceInv'
  OBVIOUS
<1>0. Remains
  BY StepShapes
<1>1. CASE Rests
  BY <1>0, <1>1 DEF Rests, Calm, Remains, TraceInv, KeepsClean
<1>2. CASE CorruptFile /\ UNCHANGED <<pc, cmd>>
  BY <1>0, <1>2 DEF CorruptFile, Corrupt, Remains, TraceInv, KeepsClean
<1>3. ASSUME NEW p \in Processes, Alone(p), Begins(p) \/ Ends(p) \/ Goes(p)
      PROVE  TraceInv'
  <2>1. UNCHANGED <<file, failed>>
    BY <1>3 DEF Begins, Ends, Goes, Calm
  <2>2. ~(pc'[p] \in {"read", "write", "append", "undo"}
          /\ cmd'[p].kind = "mutate")
    BY <1>3 DEF Begins, Ends, Goes, Keeps
  <2> QED  BY <1>0, <1>3, <2>1, <2>2, TraceQuiet DEF KeepsClean
<1>4. ASSUME NEW p \in Processes, Alone(p),
             Plans(p) \/ Remembers(p) \/ Logs(p)
      PROVE  TraceInv'
  <2>1. UNCHANGED <<file, failed>>
    BY <1>4 DEF Plans, Remembers, Logs, Calm
  <2>2. \/ pc'[p] \in {"create", "scan", "release"}
        \/ pc'[p] = "read" /\ cmd'[p].raw = file
        \/ /\ pc[p] \in {"read", "append"}
           /\ cmd'[p].raw = cmd[p].raw /\ cmd'[p].kind = cmd[p].kind
    BY <1>4 DEF Plans, Remembers, Logs, Keeps
  <2>3. ~breached /\ ~clobbered => KeepsClean(p)'
    BY <2>1, <2>2 DEF TraceInv, KeepsClean
  <2> QED  BY <1>0, <1>4, <2>1, <2>3, TraceQuiet
<1>5. ASSUME NEW p \in Processes, Alone(p), Writes(p) \/ Undoes(p)
      PROVE  TraceInv'
  <2> SUFFICES ASSUME ~breached', ~clobbered' PROVE TraceInv'
    BY DEF TraceInv
  <2>1. ~breached /\ ~clobbered
    BY <1>0 DEF Remains
  <2>2. failed' \cap file'.carries = {}
    <3>1. CASE Writes(p)
      <4>1. /\ pc[p] = "write" /\ file' = cmd[p].next /\ failed' = failed
        BY <3>1 DEF Writes, WriteSnapshot
      <4>2. cmd[p].id \notin failed
        BY <4>1 DEF NumbersInv, Fresh
      <4>3. \/ cmd[p].next.carries = {cmd[p].id}
            \/ cmd[p].next.carries = file.carries \cup {cmd[p].id}
        <5>1. CASE cmd[p].kind = "mutate"
          <6>1. cmd[p].next = Successor(file, cmd[p].id)
            BY <2>1, <4>1, <5>1 DEF UpdateInv, Working
          <6> QED  BY <6>1 DEF Successor, NewDoc
        <5>2. CASE cmd[p].kind # "mutate"
          BY <4>1, <5>2 DEF NumbersInv, Fresh, Waiting
        <5> QED  BY <5>1, <5>2
      <4> QED  BY <2>1, <4>1, <4>2, <4>3 DEF TraceInv
    <3>2. CASE Undoes(p)
      <4>1. /\ pc[p] = "undo" /\ cmd[p].kind = "mutate"
            /\ failed' = failed \cup {cmd[p].id}
        BY <3>2 DEF Undoes, UndoSnapshot, PreparedInv, Prepared
      <4>2. cmd[p].raw.kind = "doc"
        BY <2>1, <4>1 DEF UpdateInv, Working
      <4>3. file' = cmd[p].raw
        BY <3>2, <4>2 DEF Undoes, UndoSnapshot, Absent
      <4>4. cmd[p].id \notin cmd[p].raw.carries
        BY <4>1 DEF NumbersInv, Fresh
      <4>5. failed \cap cmd[p].raw.carries = {}
        BY <2>1, <4>1 DEF TraceInv, KeepsClean
      <4> QED  BY <4>1, <4>3, <4>4, <4>5
    <3> QED  BY <1>5, <3>1, <3>2
  <2>3. ASSUME NEW q \in Processes PROVE KeepsClean(q)'
    <3>1. CASE q = p
      <4>1. CASE Undoes(p)
        BY <3>1, <4>1 DEF Undoes, KeepsClean
      <4>2. CASE Writes(p)
        BY <2>1, <3>1, <4>2
           DEF Writes, WriteSnapshot, TraceInv, KeepsClean
      <4> QED  BY <1>5, <4>1, <4>2
    <3>2. CASE q # p
      <4>1. InLock(p)
        BY <1>5 DEF Writes, Undoes, InLock
      <4>2. ~InLock(q)
        BY <2>1, <3>2, <4>1, NobodyElse
      <4>3. pc'[q] = pc[q]
        BY <1>5, <3>2 DEF Alone
      <4> QED  BY <4>2, <4>3 DEF InLock, KeepsClean
    <3> QED  BY <3>1, <3>2
  <2> QED  BY <2>2, <2>3 DEF TraceInv
<1> QED
  BY StepShapes, <1>1, <1>2, <1>3, <1>4, <1>5

-----------------------------------------------------------------------------
(* The expected revision tells the expected document.                      *)

\* As long as nothing takes the revision back, the snapshot is the document
\* the caller of a guarded mutation saw, or a later one.
Watched(p) ==
  Guarded(p) =>
    /\ cmd[p].kind = "mutate" /\ file # Absent
    /\ file.kind = "doc" =>
         file.rev > cmd[p].expected.rev \/ file = cmd[p].expected
    /\ pc[p] = "write" => file = cmd[p].expected

ExactInv ==
  ~breached /\ ~clobbered /\ rewound = {} => \A p \in Processes : Watched(p)

\* A step that leaves the snapshot alone has to watch its own process.
LEMMA ExactQuiet ==
  ASSUME ExactInv, Remains, UNCHANGED file, NEW p \in Processes, Alone(p),
         Watched(p) => Watched(p)'
  PROVE  ExactInv'
  <1> SUFFICES ASSUME ~breached', ~clobbered', rewound' = {}
               PROVE  ExactInv'
    BY DEF ExactInv
  <1>1. ~breached /\ ~clobbered /\ rewound = {}
    BY DEF Remains
  <1>2. ASSUME NEW q \in Processes PROVE Watched(q)'
    BY <1>1, <1>2 DEF Alone, ExactInv, Watched, Guarded
  <1> QED  BY <1>2 DEF ExactInv

\* The revisions that are compared are integers.
LEMMA RevisionsTyped ==
  ASSUME TypeInv
  PROVE  /\ file.rev \in Int
         /\ \A p \in Processes : /\ cmd[p].expected.rev \in Int
                                 /\ cmd[p].raw.rev \in Int
                                 /\ cmd[p].next.rev \in Int
  <1>1. \A d \in File : d.rev \in Int
    BY ConstantsAssumption DEF File, Doc, Absent, Corrupt
  <1>2. \A p \in Processes : cmd[p] \in Command
    BY DEF TypeInv, ProcessesTyped
  <1>3. \A d \in Doc \cup {Absent} : d \in File
    BY DEF File
  <1>4. \A c \in Command :
          c.expected \in File /\ c.raw \in File /\ c.next \in File
    BY <1>3 DEF Command
  <1> QED  BY <1>1, <1>2, <1>4 DEF TypeInv, RestTyped

LEMMA ExactInvStep ==
  /\ TypeInv /\ LockInv /\ PreparedInv /\ UpdateInv
  /\ ExactInv /\ [Next]_vars
  => ExactInv'
<1> SUFFICES ASSUME TypeInv, LockInv, PreparedInv, UpdateInv, ExactInv,
                    [Next]_vars
             PROVE  ExactInv'
  OBVIOUS
<1>0. Remains
  BY StepShapes
<1>1. CASE Rests
  BY <1>0, <1>1 DEF Rests, Calm, Remains, ExactInv, Watched, Guarded
<1>2. CASE CorruptFile /\ UNCHANGED <<pc, cmd>>
  <2>1. \A p \in Processes : pc'[p] # "write"
    BY <1>2 DEF CorruptFile, InLock
  <2>2. file'.kind = "corrupt" /\ file' # Absent
    BY <1>2 DEF CorruptFile, Corrupt, Absent
  <2>3. \A p \in Processes : cmd'[p] = cmd[p]
    BY <1>2
  <2> QED
    BY <1>0, <2>1, <2>2, <2>3 DEF Remains, ExactInv, Watched, Guarded
<1>3. ASSUME NEW p \in Processes, Alone(p), Begins(p)
      PROVE  ExactInv'
  BY <1>0, <1>3, ExactQuiet
     DEF Begins, Calm, Watched, Guarded, Absent
<1>4. ASSUME NEW p \in Processes, Alone(p), Ends(p)
      PROVE  ExactInv'
  BY <1>0, <1>4, ExactQuiet
     DEF Ends, Calm, Watched, Guarded, NoCommand, Run
<1>5. ASSUME NEW p \in Processes, Alone(p),
             Goes(p) \/ Remembers(p) \/ Logs(p)
      PROVE  ExactInv'
  <2>1. UNCHANGED file
    BY <1>5 DEF Goes, Remembers, Logs, Calm
  <2>2. /\ cmd'[p].kind = cmd[p].kind
        /\ cmd'[p].expected = cmd[p].expected
        /\ pc'[p] = "write" => cmd[p].kind # "mutate"
    BY <1>5 DEF Goes, Remembers, Logs, Keeps
  <2> QED  BY <1>0, <1>5, <2>1, <2>2, ExactQuiet DEF Watched, Guarded
<1>6. ASSUME NEW p \in Processes, Alone(p), Plans(p)
      PROVE  ExactInv'
  <2>1. UNCHANGED file
    BY <1>6 DEF Plans, Calm
  <2>2. /\ cmd'[p].kind = cmd[p].kind
        /\ cmd'[p].expected = cmd[p].expected
        /\ pc'[p] = "write" => Admits(p)
    BY <1>6 DEF Plans, Keeps
  <2>3. Watched(p) => Watched(p)'
    BY <2>1, <2>2, RevisionsTyped DEF Watched, Guarded, Admits
  <2> QED  BY <1>0, <1>6, <2>1, <2>3, ExactQuiet
<1>7. ASSUME NEW p \in Processes, Alone(p), Writes(p)
      PROVE  ExactInv'
  <2> SUFFICES ASSUME ~breached', ~clobbered', rewound' = {},
                      NEW q \in Processes
               PROVE  Watched(q)'
    BY DEF ExactInv
  <2>1. ~breached /\ ~clobbered /\ rewound = {}
    BY <1>0 DEF Remains
  <2>2. /\ pc[p] = "write" /\ pc'[p] = "append" /\ cmd'[p] = cmd[p]
        /\ file' = cmd[p].next
    BY <1>7 DEF Writes, WriteSnapshot
  <2>3. cmd'[q] = cmd[q] /\ pc'[q] # "write"
    <3>1. CASE q = p
      BY <2>2, <3>1
    <3>2. CASE q # p
      <4>1. ~InLock(q)
        BY <2>1, <2>2, <3>2, NobodyElse DEF InLock
      <4> QED  BY <1>7, <3>2, <4>1 DEF Alone, InLock
    <3> QED  BY <3>1, <3>2
  <2>4. cmd[p].kind \in {"mutate", "init"}
    BY <1>7, <2>2 DEF Writes, WriteSnapshot, PreparedInv, Prepared
  <2>5. CASE cmd[p].kind = "mutate"
    <3>1. /\ file.kind = "doc" /\ file'.kind = "doc"
          /\ file'.rev = file.rev + 1
      <4>1. file.kind = "doc" /\ cmd[p].next = Successor(file, cmd[p].id)
        BY <2>1, <2>2, <2>5 DEF UpdateInv, Working
      <4> QED  BY <2>2, <4>1 DEF Successor, NewDoc
    <3> QED
      BY <2>1, <2>3, <3>1, RevisionsTyped
         DEF ExactInv, Watched, Guarded, Absent
  <2>6. CASE cmd[p].kind = "init"
    <3>1. file = Absent
      BY <1>7, <2>6 DEF Writes, WriteSnapshot
    <3> QED  BY <2>1, <2>3, <3>1 DEF ExactInv, Watched, Guarded
  <2> QED  BY <2>4, <2>5, <2>6
<1>8. ASSUME NEW p \in Processes, Alone(p), Undoes(p)
      PROVE  ExactInv'
  <2>1. rewound' # {}
    BY <1>8 DEF Undoes, UndoSnapshot
  <2> QED  BY <2>1 DEF ExactInv
<1> QED
  BY StepShapes, <1>1, <1>2, <1>3, <1>4, <1>5, <1>6, <1>7, <1>8

-----------------------------------------------------------------------------
(* The ledger follows the snapshot.                                        *)

\* No hand edit breaks the file the way an earlier one did.
BrokenInv ==
  /\ file.kind = "corrupt" => file.rev < mishaps
  /\ \A p \in Processes :
       cmd[p].raw.kind = "corrupt" => cmd[p].raw.rev < mishaps

LEMMA BrokenInvStep == TypeInv /\ BrokenInv /\ [Next]_vars => BrokenInv'
<1> SUFFICES ASSUME TypeInv, BrokenInv, [Next]_vars PROVE BrokenInv'
  OBVIOUS
<1>0. Remains /\ mishaps' >= mishaps /\ mishaps \in Int /\ mishaps' \in Int
  BY StepShapes, TypeInvStep, ConstantsAssumption
     DEF Remains, TypeInv, RestTyped
<1>1. CASE Rests
  BY <1>0, <1>1, RevisionsTyped DEF Rests, Calm, BrokenInv
<1>2. CASE CorruptFile /\ UNCHANGED <<pc, cmd>>
  <2>1. mishaps' = mishaps + 1 /\ file' = Corrupt(mishaps)
    BY <1>2 DEF CorruptFile, Mishap
  <2> QED  BY <1>0, <1>2, <2>1, RevisionsTyped DEF Corrupt, BrokenInv
<1>3. ASSUME NEW p \in Processes, Alone(p),
             \/ file' = file \/ file'.kind # "corrupt"
             \/ file' = cmd[p].raw,
             \/ cmd'[p].raw = cmd[p].raw \/ cmd'[p].raw = file
             \/ cmd'[p].raw = Absent
      PROVE  BrokenInv'
  <2>1. file'.kind = "corrupt" => file'.rev < mishaps'
    BY <1>0, <1>3, RevisionsTyped DEF BrokenInv
  <2>2. cmd'[p].raw.kind = "corrupt" => cmd'[p].raw.rev < mishaps'
    BY <1>0, <1>3, RevisionsTyped DEF BrokenInv, Absent
  <2>3. ASSUME NEW q \in Processes \ {p}, cmd'[q].raw.kind = "corrupt"
        PROVE  cmd'[q].raw.rev < mishaps'
    BY <1>0, <1>3, <2>3, RevisionsTyped DEF Alone, BrokenInv
  <2> QED  BY <2>1, <2>2, <2>3 DEF BrokenInv
<1>4. ASSUME NEW p \in Processes, Alone(p),
             \/ Begins(p) \/ Ends(p) \/ Goes(p) \/ Plans(p) \/ Remembers(p)
             \/ Logs(p)
      PROVE  BrokenInv'
  <2>1. file' = file
    BY <1>4 DEF Begins, Ends, Goes, Plans, Remembers, Logs, Calm
  <2>2. \/ cmd'[p].raw = cmd[p].raw \/ cmd'[p].raw = file
        \/ cmd'[p].raw = Absent
    BY <1>4 DEF Begins, Ends, Goes, Plans, Remembers, Logs, NoCommand, Run
  <2> QED  BY <1>3, <1>4, <2>1, <2>2
<1>5. ASSUME NEW p \in Processes, Alone(p), Writes(p)
      PROVE  BrokenInv'
  <2>1. /\ pc[p] = "write" /\ file' = cmd[p].next
        /\ cmd'[p] = cmd[p]
    BY <1>5 DEF Writes, WriteSnapshot
  <2>2. file' \in Doc
    BY <2>1 DEF TypeInv, ProcessesTyped, Placed
  <2> QED  BY <1>3, <1>5, <2>1, <2>2 DEF Doc
<1>6. ASSUME NEW p \in Processes, Alone(p), Undoes(p)
      PROVE  BrokenInv'
  BY <1>3, <1>6 DEF Undoes, UndoSnapshot
<1> QED
  BY StepShapes, <1>1, <1>2, <1>4, <1>5, <1>6

\* Every event is of an earlier revision.
Below(rev) == \A i \in DOMAIN ledger : ledger[i] < rev

Growing == \A i, j \in DOMAIN ledger : i < j => ledger[i] < ledger[j]

\* Whoever is about to append, or to write over the broken file it found,
\* brings a revision beyond the ledger.
Beyond(p) ==
  \/ pc[p] = "append"
  \/ pc[p] \in Waiting /\ cmd[p].kind = "repair" /\ cmd[p].raw = file
  => Below(cmd[p].next.rev)

LedgerInv ==
  ~breached /\ ~clobbered /\ rewound \subseteq {"repair"} =>
    /\ Growing
    /\ file.kind = "doc" => Below(file.rev + 1)
    /\ file = Absent => ledger = <<>>
    /\ \A p \in Processes : Beyond(p)

\* A ledger that grows ends with its largest revision.
LEMMA MaxRevisionIsLargest ==
  ASSUME ledger \in Seq(Nat), Growing
  PROVE  Below(MaxRevision(ledger) + 1)
  <1> DEFINE largest == {i \in DOMAIN ledger :
                           \A j \in DOMAIN ledger : ledger[j] <= ledger[i]}
  <1>1. CASE ledger = <<>>
    BY <1>1 DEF Below
  <1>2. CASE ledger # <<>>
    <2>1. Len(ledger) \in DOMAIN ledger
      BY <1>2
    <2>2. ASSUME NEW j \in DOMAIN ledger
          PROVE  ledger[j] <= ledger[Len(ledger)]
      <3>1. CASE j = Len(ledger)
        BY <2>1, <3>1
      <3>2. CASE j # Len(ledger)
        <4>1. j < Len(ledger)
          BY <3>2
        <4>2. ledger[j] < ledger[Len(ledger)]
          BY <2>1, <4>1 DEF Growing
        <4>3. ledger[j] \in Int /\ ledger[Len(ledger)] \in Int
          BY <2>1
        <4> QED  BY <4>2, <4>3
      <3> QED  BY <3>1, <3>2
    <2>3. Len(ledger) \in largest
      BY <2>1, <2>2
    <2>4. (CHOOSE i \in largest : TRUE) \in largest
      BY <2>3
    <2>5. largest # {}
      BY <2>3
    <2>6. MaxRevision(ledger) = ledger[CHOOSE i \in largest : TRUE]
      BY <2>5 DEF MaxRevision
    <2>7. ASSUME NEW j \in DOMAIN ledger
          PROVE  ledger[j] < MaxRevision(ledger) + 1
      <3>1. ledger[j] <= MaxRevision(ledger)
        BY <2>4, <2>6
      <3>2. ledger[j] \in Int /\ MaxRevision(ledger) \in Int
        BY MaxRevisionIsNat
      <3> QED  BY <3>1, <3>2
    <2> QED  BY <2>7 DEF Below
  <1> QED  BY <1>1, <1>2

\* An event beyond the ledger keeps it growing.
LEMMA GrowsByAppend ==
  ASSUME ledger \in Seq(Nat), Growing, NEW rev \in Nat, Below(rev),
         ledger' = Append(ledger, rev)
  PROVE  Growing' /\ Below(rev + 1)'
  <1>1. /\ DOMAIN ledger' = 1 .. Len(ledger) + 1
        /\ ledger'[Len(ledger) + 1] = rev
        /\ \A i \in 1 .. Len(ledger) : ledger'[i] = ledger[i]
        /\ DOMAIN ledger = 1 .. Len(ledger)
    OBVIOUS
  <1>2. \A i \in 1 .. Len(ledger) : ledger[i] \in Nat /\ ledger[i] < rev
    BY DEF Below
  <1>3. Below(rev + 1)'
    BY <1>1, <1>2 DEF Below
  <1>4. Growing'
    BY <1>1, <1>2 DEF Growing
  <1> QED  BY <1>3, <1>4

\* A step that leaves snapshot and ledger alone has to keep its own process
\* beyond the ledger.
LEMMA LedgerQuiet ==
  ASSUME LedgerInv, Remains, UNCHANGED <<file, ledger>>,
         NEW p \in Processes, Alone(p), Growing /\ Beyond(p) => Beyond(p)'
  PROVE  LedgerInv'
  <1> SUFFICES ASSUME ~breached', ~clobbered', rewound' \subseteq {"repair"}
               PROVE  LedgerInv'
    BY DEF LedgerInv
  <1>1. ~breached /\ ~clobbered /\ rewound \subseteq {"repair"}
    BY DEF Remains
  <1>2. ASSUME NEW q \in Processes PROVE Beyond(q)'
    BY <1>1, <1>2 DEF Alone, LedgerInv, Beyond, Below
  <1> QED  BY <1>1, <1>2 DEF LedgerInv, Growing, Below

LEMMA LedgerInvStep ==
  /\ TypeInv /\ LockInv /\ PreparedInv /\ UpdateInv /\ BrokenInv
  /\ LedgerInv /\ [Next]_vars
  => LedgerInv'
<1> SUFFICES ASSUME TypeInv, LockInv, PreparedInv, UpdateInv, BrokenInv,
                    LedgerInv, [Next]_vars
             PROVE  LedgerInv'
  OBVIOUS
<1>0. Remains
  BY StepShapes
<1>1. CASE Rests
  BY <1>0, <1>1
     DEF Rests, Calm, Remains, LedgerInv, Growing, Below, Beyond
<1>2. CASE CorruptFile /\ UNCHANGED <<pc, cmd>>
  <2> SUFFICES ASSUME ~breached', ~clobbered', rewound' \subseteq {"repair"}
               PROVE  LedgerInv'
    BY DEF LedgerInv
  <2>1. ~breached /\ ~clobbered /\ rewound \subseteq {"repair"}
    BY <1>0 DEF Remains
  <2>2. /\ file'.kind = "corrupt" /\ file'.rev = mishaps
        /\ ledger' = ledger /\ file' # Absent
    BY <1>2 DEF CorruptFile, Corrupt, Absent
  <2>3. ASSUME NEW p \in Processes PROVE Beyond(p)'
    <3>1. pc'[p] # "append" /\ pc'[p] = pc[p] /\ cmd'[p] = cmd[p]
      BY <1>2 DEF CorruptFile, InLock
    <3>2. ASSUME pc[p] \in Waiting, cmd[p].kind = "repair"
          PROVE  cmd[p].raw # file'
      <4>1. cmd[p].raw.kind = "corrupt"
        BY <3>2 DEF PreparedInv, Prepared, Waiting
      <4>2. cmd[p].raw.rev < mishaps
        BY <4>1 DEF BrokenInv
      <4> QED
        BY <2>2, <4>2, ConstantsAssumption DEF TypeInv, RestTyped
    <3> QED  BY <3>1, <3>2 DEF Beyond
  <2> QED  BY <2>1, <2>2, <2>3 DEF LedgerInv, Growing
<1>3. ASSUME NEW p \in Processes, Alone(p),
             Begins(p) \/ Ends(p) \/ Remembers(p)
      PROVE  LedgerInv'
  <2>1. UNCHANGED <<file, ledger>>
    BY <1>3 DEF Begins, Ends, Remembers, Calm
  <2>2. /\ pc'[p] # "append"
        /\ pc'[p] \in Waiting => cmd'[p].kind = "mutate"
    BY <1>3 DEF Begins, Ends, Remembers, Waiting
  <2> QED  BY <1>0, <1>3, <2>1, <2>2, LedgerQuiet DEF Beyond
<1>4. ASSUME NEW p \in Processes, Alone(p), Goes(p)
      PROVE  LedgerInv'
  <2>1. UNCHANGED <<file, ledger>>
    BY <1>4 DEF Goes, Calm
  <2>2. /\ pc'[p] # "append"
        /\ pc'[p] \in Waiting => pc[p] \in Waiting
        /\ cmd'[p].kind = cmd[p].kind
        /\ cmd'[p].raw = cmd[p].raw /\ cmd'[p].next = cmd[p].next
    BY <1>4 DEF Goes, Keeps, Waiting
  <2> QED  BY <1>0, <1>4, <2>1, <2>2, LedgerQuiet DEF Beyond, Below
<1>5. ASSUME NEW p \in Processes, Alone(p), Plans(p)
      PROVE  LedgerInv'
  <2>1. UNCHANGED <<file, ledger>>
    BY <1>5 DEF Plans, Calm
  <2>2. /\ pc'[p] # "append" /\ cmd'[p].kind = cmd[p].kind
        /\ \/ cmd[p].kind # "repair"
           \/ cmd'[p].next = NewDoc(MaxRevision(ledger) + 1, {cmd[p].id})
    BY <1>5 DEF Plans, Keeps, PreparedInv, Prepared
  <2>3. Growing => Below(MaxRevision(ledger) + 1)
    BY MaxRevisionIsLargest DEF TypeInv, RestTyped
  <2>4. Growing /\ Beyond(p) => Beyond(p)'
    BY <2>1, <2>2, <2>3 DEF Beyond, Below, NewDoc
  <2> QED  BY <1>0, <1>5, <2>1, <2>4, LedgerQuiet
<1>6. ASSUME NEW p \in Processes, Alone(p), Writes(p)
      PROVE  LedgerInv'
  <2> SUFFICES ASSUME ~breached', ~clobbered', rewound' \subseteq {"repair"}
               PROVE  LedgerInv'
    BY DEF LedgerInv
  <2>1. ~breached /\ ~clobbered /\ rewound \subseteq {"repair"}
    BY <1>0 DEF Remains
  <2>2. /\ pc[p] = "write" /\ cmd'[p] = cmd[p]
        /\ file' = cmd[p].next /\ ledger' = ledger
    BY <1>6 DEF Writes, WriteSnapshot
  <2>3. file' \in Doc
    BY <2>2 DEF TypeInv, ProcessesTyped, Placed
  <2>4. Below(cmd[p].next.rev)
    <3>1. cmd[p].kind \in {"mutate", "init", "repair"}
      BY <1>6, <2>2 DEF Writes, WriteSnapshot, PreparedInv, Prepared
    <3>2. CASE cmd[p].kind = "mutate"
      <4>1. file.kind = "doc" /\ cmd[p].next = Successor(file, cmd[p].id)
        BY <2>1, <2>2, <3>2 DEF UpdateInv, Working
      <4>2. cmd[p].next.rev = file.rev + 1
        BY <4>1 DEF Successor, NewDoc
      <4> QED  BY <2>1, <4>1, <4>2 DEF LedgerInv
    <3>3. CASE cmd[p].kind = "init"
      <4>1. file = Absent
        BY <1>6, <3>3 DEF Writes, WriteSnapshot
      <4> QED  BY <2>1, <4>1 DEF LedgerInv, Below
    <3>4. CASE cmd[p].kind = "repair"
      <4>1. file = cmd[p].raw
        BY <1>6, <3>4 DEF Writes, WriteSnapshot
      <4> QED  BY <2>1, <2>2, <3>4, <4>1 DEF LedgerInv, Beyond, Waiting
    <3> QED  BY <3>1, <3>2, <3>3, <3>4
  <2>5. Below(file.rev + 1)'
    <3>1. ledger' = ledger /\ file'.rev = cmd[p].next.rev
      BY <2>2
    <3>2. \A i \in DOMAIN ledger :
            ledger[i] \in Int /\ ledger[i] < cmd[p].next.rev
      BY <2>4 DEF Below, TypeInv, RestTyped
    <3>3. cmd[p].next.rev \in Int
      BY RevisionsTyped
    <3> QED  BY <3>1, <3>2, <3>3 DEF Below
  <2>6. ASSUME NEW q \in Processes PROVE Beyond(q)'
    <3>1. CASE q = p
      <4>1. pc'[p] = "append"
        BY <1>6 DEF Writes
      <4> QED  BY <2>2, <2>4, <3>1, <4>1 DEF Beyond, Below, Waiting
    <3>2. CASE q # p
      <4>1. pc'[q] = pc[q] /\ cmd'[q] = cmd[q]
        BY <1>6, <3>2 DEF Alone
      <4>2. pc[q] # "append"
        BY <2>1, <2>2, <3>2, NobodyElse DEF InLock
      <4>3. pc[q] \in Waiting /\ cmd[q].kind = "repair" =>
              cmd[q].raw # file'
        BY <2>3 DEF PreparedInv, Prepared, Waiting, Doc
      <4> QED  BY <4>1, <4>2, <4>3 DEF Beyond
    <3> QED  BY <3>1, <3>2
  <2>7. Growing' /\ file' # Absent
    BY <2>1, <2>2, <2>3 DEF LedgerInv, Growing, Doc, Absent
  <2> QED  BY <2>5, <2>6, <2>7 DEF LedgerInv
<1>7. ASSUME NEW p \in Processes, Alone(p), Logs(p)
      PROVE  LedgerInv'
  <2> SUFFICES ASSUME ~breached', ~clobbered', rewound' \subseteq {"repair"}
               PROVE  LedgerInv'
    BY DEF LedgerInv
  <2>1. ~breached /\ ~clobbered /\ rewound \subseteq {"repair"}
    BY <1>0 DEF Remains
  <2>2. /\ pc[p] = "append" /\ pc'[p] \in {"release", "undo"}
        /\ file' = file
        /\ ledger' \in {ledger, Append(ledger, cmd[p].next.rev)}
    BY <1>7 DEF Logs
  <2>3. file = cmd[p].next /\ file \in Doc
    BY <2>1, <2>2 DEF UpdateInv, Working, TypeInv, ProcessesTyped, Placed
  <2>4. file.rev \in Nat /\ file.kind = "doc" /\ file # Absent
    BY <2>3 DEF Doc, Absent
  <2>5. Growing /\ Below(file.rev)
    BY <2>1, <2>2, <2>3 DEF LedgerInv, Beyond
  <2>6. Growing' /\ Below(file.rev + 1)'
    <3>1. ledger \in Seq(Nat)
      BY DEF TypeInv, RestTyped
    <3>2. CASE ledger' = ledger
      BY <2>1, <2>2, <2>4, <2>5, <3>2 DEF LedgerInv, Growing, Below
    <3>3. CASE ledger' = Append(ledger, file.rev)
      BY <2>2, <2>4, <2>5, <3>1, <3>3, GrowsByAppend
    <3> QED  BY <2>2, <2>3, <3>2, <3>3
  <2>7. ASSUME NEW q \in Processes PROVE Beyond(q)'
    <3>1. CASE q = p
      BY <2>2, <3>1 DEF Beyond, Waiting
    <3>2. CASE q # p
      <4>1. pc'[q] = pc[q] /\ cmd'[q] = cmd[q]
        BY <1>7, <3>2 DEF Alone
      <4>2. pc[q] # "append"
        BY <2>1, <2>2, <3>2, NobodyElse DEF InLock
      <4>3. pc[q] \in Waiting /\ cmd[q].kind = "repair" =>
              cmd[q].raw # file'
        BY <2>2, <2>4 DEF PreparedInv, Prepared, Waiting
      <4> QED  BY <4>1, <4>2, <4>3 DEF Beyond
    <3> QED  BY <3>1, <3>2
  <2> QED  BY <2>2, <2>4, <2>6, <2>7 DEF LedgerInv
<1>8. ASSUME NEW p \in Processes, Alone(p), Undoes(p)
      PROVE  LedgerInv'
  <2>1. "undo" \in rewound'
    BY <1>8 DEF Undoes, UndoSnapshot
  <2> QED  BY <2>1 DEF LedgerInv
<1> QED
  BY StepShapes, <1>1, <1>2, <1>3, <1>4, <1>5, <1>6, <1>7, <1>8

-----------------------------------------------------------------------------
(* The theorems.                                                           *)

\* The parts of the invariant, together.
StoreInv ==
  /\ TypeInv /\ LockInv /\ PreparedInv /\ UpdateInv
  /\ NumbersInv /\ TraceInv /\ ExactInv /\ BrokenInv /\ LedgerInv

LEMMA StoreInvInit == Init => StoreInv
<1> SUFFICES ASSUME Init PROVE StoreInv
  OBVIOUS
<1>1. /\ \A p \in Processes : pc[p] = "idle" /\ cmd[p] = NoCommand
      /\ file = Absent /\ ledger = <<>> /\ failed = {} /\ started = 0
  BY DEF Init
<1>2. PreparedInv /\ LockInv /\ UpdateInv
  BY DEF Init, PreparedInv, Prepared, LockInv, InLock, UpdateInv, Working,
         NoCommand, Run, Absent
<1>3. NumbersInv /\ TraceInv
  BY <1>1
     DEF NumbersInv, Fresh, Apart, Waiting, Unwritten, TraceInv, KeepsClean,
         NoCommand, Run, Absent
<1>4. ExactInv
  BY <1>1 DEF ExactInv, Watched, Guarded, NoCommand, Run
<1>5. BrokenInv
  BY <1>1 DEF BrokenInv, NoCommand, Run, Absent
<1>6. LedgerInv
  BY <1>1
     DEF LedgerInv, Growing, Below, Beyond, Waiting, NoCommand, Run, Absent
<1> QED
  BY TypeInvInit, <1>2, <1>3, <1>4, <1>5, <1>6 DEF StoreInv

LEMMA StoreInvStep == StoreInv /\ [Next]_vars => StoreInv'
  BY TypeInvStep, LockInvStep, PreparedInvStep, UpdateInvStep,
     NumbersInvStep, TraceInvStep, ExactInvStep, BrokenInvStep, LedgerInvStep
     DEF StoreInv

\* "The mutation must fail as a whole" (store.js, the undo in mutate): while
\* the lock excludes and no command acts on what it checked before the lock,
\* an undone mutation is in no snapshot, present or later.
THEOREM NoTraceOfFailures == Spec => []FailedLeavesNoTrace
<1>1. StoreInv => FailedLeavesNoTrace
  BY DEF StoreInv, TraceInv, FailedLeavesNoTrace
<1> QED  BY <1>1, StoreInvInit, StoreInvStep, PTL DEF Spec

\* --expected-revision (store.js, the check in mutate) compares revisions;
\* while none is taken back, it accepts the very document the caller saw.
THEOREM GuardedWritesAreExact == Spec => []ExpectedRevisionIsExact
<1>1. StoreInv => ExpectedRevisionIsExact
  BY DEF StoreInv, ExactInv, Watched, ExpectedRevisionIsExact
<1> QED  BY <1>1, StoreInvInit, StoreInvStep, PTL DEF Spec

\* The ledger grows strictly and never runs ahead of the snapshot (ledger.js,
\* repair), over crashes between the two and over repairs.
THEOREM LedgerFollows == Spec => []LedgerFollowsSnapshot
<1>1. StoreInv => LedgerFollowsSnapshot
  <2> SUFFICES ASSUME StoreInv, ~breached, ~clobbered,
                      rewound \subseteq {"repair"}
               PROVE  /\ Growing
                      /\ file.kind = "doc" =>
                           \A i \in DOMAIN ledger : ledger[i] <= file.rev
    BY DEF LedgerFollowsSnapshot, Growing
  <2>1. /\ Growing
        /\ file.kind = "doc" => Below(file.rev + 1)
    BY DEF StoreInv, LedgerInv
  <2>2. file.rev \in Int /\ ledger \in Seq(Nat)
    BY RevisionsTyped DEF StoreInv, TypeInv, RestTyped
  <2>3. ASSUME file.kind = "doc", NEW i \in DOMAIN ledger
        PROVE  ledger[i] <= file.rev
    BY <2>1, <2>2, <2>3 DEF Below
  <2> QED  BY <2>1, <2>3
<1> QED  BY <1>1, StoreInvInit, StoreInvStep, PTL DEF Spec
=============================================================================
