-------------------------- MODULE MultiplayerProofs --------------------------
(***************************************************************************)
(* The two halves of src/multiplayer, for any number of sessions, files    *)
(* and tasks and every duration.                                           *)
(*                                                                         *)
(* Session ownership: a write gives a file a second active owner, and a    *)
(* session that is alive is recorded as stale, only for the reasons the    *)
(* properties name.  The invariant says, file by file and time by time,    *)
(* how the document of a call under way differs from the ledger, as long   *)
(* as no other call has changed that file's owners or written at all.      *)
(*                                                                         *)
(* Task leases: two sessions never both have unexpired leave to work on    *)
(* one task, and a lease that ended never holds again.                     *)
(***************************************************************************)
EXTENDS SessionOwnership, TaskLeases, TLAPS

-----------------------------------------------------------------------------
(* Types.                                                                  *)

\* The constants of the ledger are of their types.
LEMMA Shapes ==
  /\ NoEntry \in Entries \union {NoEntry}
  /\ NoEntry.status = "none" /\ NoEntry.files = {}
  /\ \A e \in Entries : /\ e.status \in {"active", "stale"}
                        /\ e.heard \in 0..MaxTime
                        /\ e.files \in SUBSET Files
  /\ Empty \in Docs
  /\ Idle \in Calls /\ Idle.step = "idle"
  /\ 0 \in 0..MaxTime
<1>1. 0 \in 0..MaxTime
  BY OwnershipAssumption
<1>2. Empty \in Docs
  BY DEF Empty, Docs
<1>3. -1 \in -1..MaxTime
  BY OwnershipAssumption
<1>4. Idle \in Calls /\ Idle.step = "idle"
  BY <1>2, <1>3 DEF Idle, Calls
<1> QED
  BY <1>1, <1>2, <1>4 DEF NoEntry, Entries

\* What the calls make of a document is a document.
LEMMA DocsTyped ==
  ASSUME now \in 0..MaxTime, NEW doc \in Docs, NEW s \in Sessions
  PROVE  /\ \A fs \in SUBSET Files : Registered(doc, s, fs) \in Docs
         /\ Known(doc, s) => Beaten(doc, s) \in Docs
         /\ Released(doc, s) \in Docs
         /\ Expired(doc) \in Docs
         /\ Purged(doc) \in Docs
         /\ doc[s].files \in SUBSET Files
<1>1. \A t \in Sessions : doc[t] \in Entries \union {NoEntry}
  BY DEF Docs
<1>2. doc[s].files \in SUBSET Files
  BY <1>1, Shapes
<1>3. \A fs \in SUBSET Files : Registered(doc, s, fs) \in Docs
  <2> SUFFICES ASSUME NEW fs \in SUBSET Files
               PROVE  Registered(doc, s, fs) \in Docs
    OBVIOUS
  <2>1. [status |-> "active", heard |-> now, files |-> fs] \in Entries
    BY DEF Entries
  <2> QED
    BY <2>1 DEF Registered, Docs
<1>4. Known(doc, s) => Beaten(doc, s) \in Docs
  <2> SUFFICES ASSUME Known(doc, s) PROVE Beaten(doc, s) \in Docs
    OBVIOUS
  <2>1. doc[s] \in Entries
    BY <1>1, Shapes DEF Known
  <2>2. [[doc[s] EXCEPT !.status = "active"] EXCEPT !.heard = now]
          \in Entries
    BY <2>1 DEF Entries
  <2>3. Beaten(doc, s) =
          [doc EXCEPT ![s] =
             [[doc[s] EXCEPT !.status = "active"] EXCEPT !.heard = now]]
    BY DEF Beaten, Docs
  <2> QED
    BY <2>2, <2>3 DEF Docs
<1>5. Released(doc, s) \in Docs
  BY DEF Released, Docs
<1>6. Expired(doc) \in Docs
  <2>1. ASSUME NEW t \in Sessions, Active(doc, t)
        PROVE  [doc[t] EXCEPT !.status = "stale"] \in Entries
    <3>1. doc[t] \in Entries
      BY <1>1, <2>1, Shapes DEF Active
    <3> QED
      BY <3>1 DEF Entries
  <2> QED
    BY <1>1, <2>1 DEF Expired, Docs
<1>7. Purged(doc) \in Docs
  BY <1>1 DEF Purged, Docs
<1> QED
  BY <1>2, <1>3, <1>4, <1>5, <1>6, <1>7

\* A call in the middle of writing is of its type.
LEMMA WritingTyped ==
  ASSUME NEW doc \in Docs, NEW then \in {"done", "purge", "get"},
         NEW add \in SUBSET Files
  PROVE  LET c == Writing(doc, then, add)
         IN  /\ c \in Calls
             /\ c.step = "write" /\ c.doc = doc /\ c.then = then
             /\ c.sign = -1 /\ c.add = add
BY Shapes DEF Writing, Calls, Idle

\* So is one that says that its session is alive.
LEMMA SigningTyped ==
  ASSUME now \in 0..MaxTime, NEW doc \in Docs
  PROVE  LET c == Signing(doc)
         IN  /\ c \in Calls
             /\ c.step = "write" /\ c.doc = doc /\ c.then = "done"
             /\ c.sign = now
<1>1. now \in -1..MaxTime
  BY OwnershipAssumption
<1> DEFINE w == Writing(doc, "done", {})
<1>2. /\ w \in Calls
      /\ w.step = "write" /\ w.doc = doc /\ w.then = "done"
  BY WritingTyped
<1>3. Signing(doc) = [w EXCEPT !.sign = now]
  BY DEF Signing
<1> HIDE DEF w
<1> QED
  BY <1>1, <1>2, <1>3 DEF Calls

-----------------------------------------------------------------------------
(* The invariant.                                                          *)

\* Another session is active with the file.
Taken(doc, f, t) ==
  \E u \in Sessions \ {t} : Standing(doc, u, f) = "active"

\* What a session may call its own: what it has, and what nobody else has.
Claimable(f, t) == Standing(ledger, t, f) # "none" \/ ~Taken(ledger, f, t)

\* What holds of a call and a file as long as no other call has changed who
\* has the file.
FileOK(c, t, f) ==
  /\ c.step = "write" =>
       /\ \A u \in Sessions \ {t} :
            Standing(c.doc, u, f) = "active"
              => Standing(ledger, u, f) = "active"
       /\ Standing(c.doc, t, f) = "active" => Claimable(f, t)
       /\ c.then = "get" /\ f \in c.add => ~Taken(c.doc, f, t)
  /\ c.step = "get" /\ f \in c.add => ~Taken(ledger, f, t)
  /\ c.step = "put" /\ f \in c.add => Claimable(f, t)

\* An entry made of one in the ledger without a sign of life of its session.
Aged(d, e) ==
  d.status # "none" => e.status # "none" /\ d.heard = e.heard

\* Who is stale in the document has not been heard of for too long.
Overdue(doc) ==
  \A u \in Sessions : doc[u].status = "stale" => now - doc[u].heard > Ttl

\* What holds of a call's times: of those of other sessions, as long as no
\* other call has written.
TimeOK(c, t) ==
  /\ Overdue(c.doc)
  /\ c.step = "write" /\ c.sign # -1 =>
       c.then = "done" /\ c.doc[t].heard = c.sign
  /\ c.step = "write" /\ ~c.dirty =>
       \A u \in Sessions :
         (u = t /\ c.sign # -1) \/ Aged(c.doc[u], ledger[u])

CallOK(c, t) ==
  /\ \A f \in Files \ c.moved : FileOK(c, t, f)
  /\ TimeOK(c, t)

Heard ==
  /\ Overdue(ledger)
  /\ \A s \in Sessions \ lost :
       Known(ledger, s) => ledger[s].heard = beat[s]

CallsOK == \A t \in Sessions : CallOK(call[t], t)

OwnInv == TypeOK /\ Heard /\ CallsOK

\* A file is of a standing with a session, and active where it is owned.
LEMMA Standings ==
  ASSUME NEW doc \in Docs, NEW u \in Sessions, NEW f
  PROVE  /\ Standing(doc, u, f) \in {"none", "active", "stale"}
         /\ Standing(doc, u, f) = "active"
              <=> Active(doc, u) /\ f \in doc[u].files
         /\ Standing(doc, u, f) = "none" <=> f \notin doc[u].files
<1>1. doc[u] \in Entries \union {NoEntry}
  BY DEF Docs
<1> QED
  BY <1>1, Shapes DEF Standing, Active

\* OwnedByOthers are the files that are taken.
LEMMA TakenIsOwned ==
  ASSUME NEW doc \in Docs, NEW t \in Sessions, NEW f
  PROVE  f \in OwnedByOthers(doc, t) <=> Taken(doc, f, t)
BY Standings DEF OwnedByOthers, Taken

\* A document made of another one without a sign of life: nobody is younger
\* or the owner of more.
Lessens(new, old) ==
  /\ Overdue(new)
  /\ \A u \in Sessions :
       /\ Aged(new[u], old[u])
       /\ \A f \in Files : Standing(new, u, f) = "active"
                             => Standing(old, u, f) = "active"

\* So are all that keep entries, drop them or let them become stale.
LEMMA Following ==
  ASSUME NEW doc \in Docs, now \in 0..MaxTime, Overdue(doc),
         NEW s \in Sessions
  PROVE  /\ Lessens(doc, doc)
         /\ Lessens(Released(doc, s), doc)
         /\ Lessens(Expired(doc), doc)
         /\ Lessens(Purged(doc), doc)
         /\ Lessens(Purged(Expired(doc)), doc)
<1>1. Lessens(doc, doc)
  BY DEF Lessens, Aged
<1>2. ASSUME NEW old \in Docs, NEW new \in Docs, Overdue(old),
             \A u \in Sessions : new[u] = old[u] \/ new[u] = NoEntry
      PROVE  Lessens(new, old)
  <2>1. Overdue(new)
    BY <1>2, Shapes DEF Overdue
  <2>2. ASSUME NEW u \in Sessions, new[u] = old[u]
        PROVE  /\ Aged(new[u], old[u])
               /\ \A f \in Files : Standing(new, u, f) = "active"
                                     => Standing(old, u, f) = "active"
    BY <2>2 DEF Aged, Standing
  <2>3. ASSUME NEW u \in Sessions, new[u] = NoEntry
        PROVE  /\ Aged(new[u], old[u])
               /\ \A f \in Files : Standing(new, u, f) # "active"
    BY <2>3, Shapes DEF Aged, Standing
  <2> QED
    BY <1>2, <2>1, <2>2, <2>3 DEF Lessens
<1>3. Lessens(Released(doc, s), doc)
  <2>1. Released(doc, s) \in Docs
    BY DocsTyped
  <2>2. \A u \in Sessions : \/ Released(doc, s)[u] = doc[u]
                            \/ Released(doc, s)[u] = NoEntry
    BY DEF Released, Docs
  <2> QED
    BY <1>2, <2>1, <2>2
<1>4. ASSUME NEW old \in Docs, Overdue(old)
      PROVE  Lessens(Purged(old), old)
  <2>1. Purged(old) \in Docs
    BY DocsTyped
  <2>2. \A u \in Sessions : Purged(old)[u] = old[u]
                            \/ Purged(old)[u] = NoEntry
    BY DEF Purged
  <2> QED
    BY <1>2, <1>4, <2>1, <2>2
<1>5. Lessens(Expired(doc), doc)
  <2>1. ASSUME NEW u \in Sessions
        PROVE  /\ Expired(doc)[u].status = "stale"
                    => now - Expired(doc)[u].heard > Ttl
               /\ Aged(Expired(doc)[u], doc[u])
               /\ \A f \in Files : Standing(Expired(doc), u, f) = "active"
                                     => Standing(doc, u, f) = "active"
    <3>1. CASE Active(doc, u) /\ now - doc[u].heard > Ttl
      <4>1. doc[u] \in Entries
        BY <3>1, Shapes DEF Docs, Active
      <4>2. Expired(doc)[u] = [doc[u] EXCEPT !.status = "stale"]
        BY <3>1 DEF Expired
      <4>3. /\ Expired(doc)[u].status = "stale"
            /\ Expired(doc)[u].heard = doc[u].heard
        BY <4>1, <4>2 DEF Entries
      <4> QED
        BY <3>1, <4>3 DEF Aged, Standing, Active
    <3>2. CASE ~(Active(doc, u) /\ now - doc[u].heard > Ttl)
      <4>1. Expired(doc)[u] = doc[u]
        BY <3>2 DEF Expired
      <4> QED
        BY <4>1 DEF Overdue, Aged, Standing
    <3> QED
      BY <3>1, <3>2
  <2> QED
    BY <2>1 DEF Lessens, Overdue
<1>6. Lessens(Purged(Expired(doc)), doc)
  <2>1. Expired(doc) \in Docs /\ Overdue(Expired(doc))
    BY <1>5, DocsTyped DEF Lessens
  <2>2. Lessens(Purged(Expired(doc)), Expired(doc))
    BY <1>4, <2>1
  <2> QED
    BY <1>5, <2>2 DEF Lessens, Aged
<1> QED
  BY <1>1, <1>3, <1>4, <1>5, <1>6

\* Nothing is asked of a process that is not in a call.
LEMMA IdleOK == now \in 0..MaxTime => \A t : CallOK(Idle, t)
<1>1. Overdue(Empty)
  BY Shapes DEF Overdue, Empty
<1>2. Idle.doc = Empty /\ Idle.step = "idle"
  BY DEF Idle
<1> QED
  BY <1>1, <1>2 DEF CallOK, FileOK, TimeOK

\* The invariant holds initially.
LEMMA OwnInit == Init => OwnInv
<1> SUFFICES ASSUME Init PROVE OwnInv
  OBVIOUS
<1>1. TypeOK
  BY Shapes DEF Init, TypeOK
<1>2. Heard
  BY Shapes DEF Init, Heard, Overdue, Known, Empty
<1>3. CallsOK
  BY <1>1, IdleOK DEF Init, CallsOK, TypeOK
<1> QED
  BY <1>1, <1>2, <1>3 DEF OwnInv

\* A step of a call that is not a write keeps the invariant, when what it
\* makes of the call is sound.
LEMMA StepKeeps ==
  ASSUME OwnInv, NEW s \in Sessions, NEW c \in Calls, CallOK(c, s),
         call' = [call EXCEPT ![s] = c],
         UNCHANGED <<now, ledger, beat, lost>>
  PROVE  OwnInv'
<1>1. TypeOK'
  BY DEF OwnInv, TypeOK
<1>2. Heard'
  BY DEF OwnInv, Heard, Overdue, Known
<1>3. \A d, t : CallOK(d, t) <=> CallOK(d, t)'
  BY DEF CallOK, FileOK, TimeOK, Overdue, Aged, Claimable, Taken, Standing
<1>4. \A t \in Sessions : call'[t] = IF t = s THEN c ELSE call[t]
  BY DEF OwnInv, TypeOK
<1>5. CallsOK'
  BY <1>3, <1>4 DEF OwnInv, CallsOK
<1> QED
  BY <1>1, <1>2, <1>5 DEF OwnInv

\* Every call begins with a document that follows from the ledger.
LEMMA OpeningKeeps ==
  ASSUME OwnInv, NEW s \in Sessions,
         \/ Register(s) \/ Heartbeat(s) \/ Release(s)
         \/ ActiveSessions(s) \/ PurgeStale(s)
         \/ \E fs \in SUBSET Files \ {{}} :
              ClaimFiles(s, fs) \/ ReleaseFiles(s, fs)
  PROVE  OwnInv'
<1>0. /\ now \in 0..MaxTime /\ ledger \in Docs /\ Overdue(ledger)
      /\ ledger[s].files \in SUBSET Files
      /\ \A u \in Sessions : ledger[u] \in Entries \union {NoEntry}
  BY DocsTyped DEF OwnInv, TypeOK, Heard, Docs
<1>1. ASSUME NEW doc \in Docs, NEW then \in {"done", "purge", "get"},
             NEW add \in SUBSET Files,
             Begin(s, Writing(doc, then, add)),
             Lessens(doc, ledger),
             then = "get" => \A f \in add : ~Taken(doc, f, s)
      PROVE  OwnInv'
  <2> DEFINE c == Writing(doc, then, add)
  <2>1. /\ c \in Calls
        /\ c.step = "write" /\ c.doc = doc /\ c.then = then
        /\ c.sign = -1 /\ c.add = add
    BY WritingTyped
  <2>2. /\ call' = [call EXCEPT ![s] = c]
        /\ UNCHANGED <<now, ledger, beat, lost>>
    BY <1>1 DEF Begin
  <2> HIDE DEF c
  <2>3. TimeOK(c, s)
    BY <1>1, <2>1 DEF TimeOK, Lessens
  <2>4. ASSUME NEW f \in Files PROVE FileOK(c, s, f)
    <3>1. \A u \in Sessions : Standing(doc, u, f) = "active"
                                => Standing(ledger, u, f) = "active"
      BY <1>1 DEF Lessens
    <3>2. then = "get" /\ f \in add => ~Taken(doc, f, s)
      BY <1>1
    <3> QED
      BY <2>1, <3>1, <3>2 DEF FileOK, Claimable
  <2> QED
    BY <2>1, <2>2, <2>3, <2>4, StepKeeps DEF CallOK
<1>2. ASSUME NEW doc \in Docs, Begin(s, Signing(doc)),
             \A u \in Sessions \ {s} : doc[u] = ledger[u],
             doc[s].status = "active", doc[s].heard = now,
             doc[s].files = ledger[s].files
      PROVE  OwnInv'
  <2> DEFINE c == Signing(doc)
  <2>1. /\ c \in Calls
        /\ c.step = "write" /\ c.doc = doc /\ c.then = "done"
        /\ c.sign = now
    BY <1>0, SigningTyped
  <2>2. /\ call' = [call EXCEPT ![s] = c]
        /\ UNCHANGED <<now, ledger, beat, lost>>
    BY <1>2 DEF Begin
  <2> HIDE DEF c
  <2>3. now # -1
    BY <1>0, OwnershipAssumption
  <2>4. TimeOK(c, s)
    BY <1>0, <1>2, <2>1, <2>3 DEF TimeOK, Overdue, Aged
  <2>5. ASSUME NEW f \in Files PROVE FileOK(c, s, f)
    <3>1. \A u \in Sessions \ {s} :
            Standing(doc, u, f) = Standing(ledger, u, f)
      BY <1>2 DEF Standing
    <3>2. Standing(doc, s, f) = "active" => Standing(ledger, s, f) # "none"
      BY <1>0, <1>2, Standings
    <3> QED
      BY <2>1, <3>1, <3>2 DEF FileOK, Claimable
  <2> QED
    BY <2>1, <2>2, <2>4, <2>5, StepKeeps DEF CallOK
<1>3. ASSUME NEW c \in Calls, Begin(s, c), c.step = "get",
             c.doc = Idle.doc, \A f \in c.add : ~Taken(ledger, f, s)
      PROVE  OwnInv'
  <2>1. /\ call' = [call EXCEPT ![s] = c]
        /\ UNCHANGED <<now, ledger, beat, lost>>
    BY <1>3 DEF Begin
  <2>2. TimeOK(c, s)
    BY <1>0, <1>3, IdleOK DEF CallOK, TimeOK
  <2>3. \A f \in Files : FileOK(c, s, f)
    BY <1>3 DEF FileOK
  <2> QED
    BY <2>1, <2>2, <2>3, StepKeeps DEF CallOK
<1>4. CASE Register(s)
  <2> DEFINE doc == Registered(ledger, s, ledger[s].files)
  <2>1. doc \in Docs
    BY <1>0, DocsTyped
  <2>2. /\ \A u \in Sessions \ {s} : doc[u] = ledger[u]
        /\ doc[s].status = "active" /\ doc[s].heard = now
        /\ doc[s].files = ledger[s].files
    BY <1>0 DEF Registered, Docs
  <2>3. Begin(s, Signing(doc))
    BY <1>4 DEF Register
  <2> HIDE DEF doc
  <2> QED
    BY <1>2, <2>1, <2>2, <2>3
<1>5. CASE Heartbeat(s)
  <2> DEFINE doc == Beaten(ledger, s)
  <2>1. doc \in Docs
    BY <1>0, <1>5, DocsTyped DEF Heartbeat
  <2>2. ledger[s] \in Entries
    BY <1>0, <1>5, Shapes DEF Heartbeat, Known
  <2>3. /\ \A u \in Sessions \ {s} : doc[u] = ledger[u]
        /\ doc[s].status = "active" /\ doc[s].heard = now
        /\ doc[s].files = ledger[s].files
    BY <1>0, <2>2 DEF Beaten, Docs, Entries
  <2>4. Begin(s, Signing(doc))
    BY <1>5 DEF Heartbeat
  <2> HIDE DEF doc
  <2> QED
    BY <1>2, <2>1, <2>3, <2>4
<1>6. CASE Release(s)
  <2>1. Released(ledger, s) \in Docs
    BY <1>0, DocsTyped
  <2>2. Begin(s, Writing(Released(ledger, s), "done", {}))
    BY <1>6 DEF Release
  <2> QED
    BY <1>0, <1>1, <2>1, <2>2, Following
<1>7. CASE ActiveSessions(s)
  <2>1. Expired(ledger) \in Docs
    BY <1>0, DocsTyped
  <2>2. Begin(s, Writing(Expired(ledger), "done", {}))
    BY <1>7 DEF ActiveSessions
  <2> QED
    BY <1>0, <1>1, <2>1, <2>2, Following
<1>8. CASE PurgeStale(s)
  <2>1. Expired(ledger) \in Docs
    BY <1>0, DocsTyped
  <2>2. Purged(Expired(ledger)) \in Docs
    BY <1>0, <2>1, DocsTyped
  <2>3. \/ Begin(s, Writing(Expired(ledger), "purge", {}))
        \/ Begin(s, Writing(Purged(Expired(ledger)), "done", {}))
    BY <1>8 DEF PurgeStale
  <2> QED
    BY <1>0, <1>1, <2>1, <2>2, <2>3, Following
<1>9. ASSUME NEW fs \in SUBSET Files, ClaimFiles(s, fs)
      PROVE  OwnInv'
  <2> DEFINE doc == Expired(ledger)
             add == Granted(doc, s, fs)
  <2>1. doc \in Docs /\ Lessens(doc, ledger)
    BY <1>0, DocsTyped, Following
  <2>2. add \in SUBSET Files /\ \A f \in add : ~Taken(doc, f, s)
    <3>1. add \subseteq fs \ OwnedByOthers(doc, s)
      BY DEF Granted
    <3> QED
      BY <2>1, <3>1, TakenIsOwned
  <2>3. CASE doc # ledger
    <3>1. \E then \in {"done", "get"} : Begin(s, Writing(doc, then, add))
      BY <1>9, <2>3 DEF ClaimFiles
    <3> HIDE DEF doc, add
    <3> QED
      BY <1>1, <2>1, <2>2, <3>1
  <2>4. CASE doc = ledger
    <3> DEFINE c == [Idle EXCEPT !.step = "get", !.add = add]
    <3>1. Begin(s, c)
      BY <1>9, <2>4 DEF ClaimFiles
    <3> HIDE DEF doc, add
    <3>2. /\ c \in Calls /\ c.step = "get" /\ c.add = add
          /\ c.doc = Idle.doc
      BY <2>2, Shapes DEF Calls
    <3> HIDE DEF c
    <3> QED
      BY <1>3, <2>2, <2>4, <3>1, <3>2
  <2> QED
    BY <2>3, <2>4
<1>10. ASSUME NEW fs \in SUBSET Files, ReleaseFiles(s, fs)
       PROVE  OwnInv'
  <2> DEFINE c == [Idle EXCEPT !.step = "get", !.drop = fs]
  <2>1. Begin(s, c)
    BY <1>10 DEF ReleaseFiles
  <2>2. /\ c \in Calls /\ c.step = "get" /\ c.add = {}
        /\ c.doc = Idle.doc
    <3>1. Idle.add = {}
      BY DEF Idle
    <3> QED
      BY <3>1, Shapes DEF Calls
  <2> HIDE DEF c
  <2> QED
    BY <1>3, <2>1, <2>2
<1> QED
  BY <1>4, <1>5, <1>6, <1>7, <1>8, <1>9, <1>10

\* Reading the own entry keeps the invariant: what is claimed is added to
\* what the session has.
LEMMA GetKeeps ==
  ASSUME OwnInv, NEW s \in Sessions, GetSession(s)
  PROVE  OwnInv'
<1>0. /\ call[s] \in Calls /\ ledger \in Docs /\ now \in 0..MaxTime
      /\ ledger[s].files \in SUBSET Files
      /\ CallOK(call[s], s)
  BY DocsTyped DEF OwnInv, TypeOK, CallsOK
<1> DEFINE own == (ledger[s].files \union call[s].add) \ call[s].drop
           c == [call[s] EXCEPT !.step = "put", !.add = own]
<1>1. /\ c \in Calls /\ c.step = "put" /\ c.add = own
      /\ c.doc = call[s].doc /\ c.moved = call[s].moved
  BY <1>0 DEF Calls
<1>2. /\ Known(ledger, s) => call' = [call EXCEPT ![s] = c]
      /\ ~Known(ledger, s) => call' = [call EXCEPT ![s] = Idle]
      /\ UNCHANGED <<now, ledger, beat, lost>>
  BY DEF GetSession
<1>3. CallOK(c, s)
  <2>1. TimeOK(c, s)
    BY <1>0, <1>1 DEF CallOK, TimeOK
  <2>2. ASSUME NEW f \in Files \ call[s].moved PROVE FileOK(c, s, f)
    <3>1. f \in call[s].add => ~Taken(ledger, f, s)
      BY <1>0 DEF CallOK, FileOK, GetSession
    <3>2. f \in ledger[s].files => Standing(ledger, s, f) # "none"
      BY <1>0, Standings
    <3> QED
      BY <1>1, <3>1, <3>2 DEF FileOK, Claimable
  <2> QED
    BY <1>1, <2>1, <2>2 DEF CallOK
<1> HIDE DEF c
<1>4. CASE Known(ledger, s)
  <2>1. call' = [call EXCEPT ![s] = c]
    BY <1>2, <1>4
  <2> QED
    BY <1>1, <1>2, <1>3, <2>1, StepKeeps
<1>5. CASE ~Known(ledger, s)
  <2>1. call' = [call EXCEPT ![s] = Idle]
    BY <1>2, <1>5
  <2>2. Idle \in Calls /\ CallOK(Idle, s)
    BY <1>0, Shapes, IdleOK
  <2> QED
    BY <1>2, <2>1, <2>2, StepKeeps
<1> QED
  BY <1>4, <1>5

\* Registering with the longer list keeps the invariant.
LEMMA ReregisterKeeps ==
  ASSUME OwnInv, NEW s \in Sessions, Reregister(s)
  PROVE  OwnInv'
<1>0. /\ call[s] \in Calls /\ ledger \in Docs /\ now \in 0..MaxTime
      /\ call[s].add \in SUBSET Files
      /\ Overdue(ledger) /\ CallOK(call[s], s)
  BY DEF OwnInv, TypeOK, Calls, Heard, CallsOK
<1> DEFINE doc == Registered(ledger, s, call[s].add)
           c == [call[s] EXCEPT !.step = "write", !.then = "done",
                                !.add = {}, !.drop = {}, !.sign = now,
                                !.doc = doc]
<1>1. doc \in Docs
  BY <1>0, DocsTyped
<1>2. /\ \A u \in Sessions \ {s} : doc[u] = ledger[u]
      /\ doc[s].status = "active" /\ doc[s].heard = now
      /\ doc[s].files = call[s].add
  BY <1>0 DEF Registered, Docs
<1>3. /\ call' = [call EXCEPT ![s] = c]
      /\ UNCHANGED <<now, ledger, beat, lost>>
  BY DEF Reregister
<1> HIDE DEF doc
<1>4. now \in -1..MaxTime /\ now # -1
  BY <1>0, OwnershipAssumption
<1>5. /\ c \in Calls /\ c.moved = call[s].moved
      /\ c.step = "write" /\ c.doc = doc /\ c.then = "done"
      /\ c.sign = now /\ c.add = {}
  BY <1>0, <1>1, <1>4 DEF Calls
<1> HIDE DEF c
<1>6. CallOK(c, s)
  <2>1. TimeOK(c, s)
    BY <1>0, <1>2, <1>4, <1>5 DEF TimeOK, Overdue, Aged
  <2>2. ASSUME NEW f \in Files \ call[s].moved PROVE FileOK(c, s, f)
    <3>1. f \in call[s].add => Claimable(f, s)
      BY <1>0 DEF Reregister, CallOK, FileOK
    <3>2. \A u \in Sessions \ {s} :
            Standing(doc, u, f) = Standing(ledger, u, f)
      BY <1>2 DEF Standing
    <3>3. Standing(doc, s, f) = "active" => f \in call[s].add
      BY <1>1, <1>2, Standings
    <3> QED
      BY <1>5, <3>1, <3>2, <3>3 DEF FileOK
  <2> QED
    BY <1>5, <2>1, <2>2 DEF CallOK
<1> QED
  BY <1>3, <1>5, <1>6, StepKeeps

\* What a write does to the ledger and to the histories.
LEMMA WriteEffect ==
  ASSUME OwnInv, NEW s \in Sessions, Write(s)
  PROVE  /\ call[s] \in Calls /\ call[s].doc \in Docs
         /\ call[s].step = "write" /\ call[s].sign \in -1..MaxTime
         /\ call[s].then \in {"done", "purge", "get"}
         /\ CallOK(call[s], s)
         /\ ledger' = call[s].doc /\ now' = now
         /\ \A t \in Sessions :
              /\ beat'[t] = IF t = s /\ call[s].sign # -1
                            THEN call[s].sign ELSE beat[t]
              /\ t \notin lost' => \/ call[s].doc[t].heard = beat'[t]
                                   \/ t \notin lost /\ ~call[s].dirty
BY DEF OwnInv, TypeOK, Calls, CallsOK, Write

\* After a write, a time in the ledger that is not the last sign of life of
\* its session has come from a call that overlapped.
LEMMA WrittenIsHeard ==
  ASSUME OwnInv, NEW s \in Sessions, Write(s)
  PROVE  Heard'
<1> DEFINE c == call[s]
<1>0. /\ c.step = "write" /\ CallOK(c, s)
      /\ ledger' = c.doc /\ now' = now
      /\ \A t \in Sessions :
           /\ beat'[t] = IF t = s /\ c.sign # -1 THEN c.sign ELSE beat[t]
           /\ t \notin lost' => \/ c.doc[t].heard = beat'[t]
                                \/ t \notin lost /\ ~c.dirty
  BY WriteEffect
<1> HIDE DEF c
<1>1. Overdue(ledger)'
  BY <1>0 DEF CallOK, TimeOK, Overdue
<1>2. ASSUME NEW t \in Sessions, t \notin lost', Known(ledger', t)
      PROVE  ledger'[t].heard = beat'[t]
  <2>1. CASE c.doc[t].heard = beat'[t]
    BY <1>0, <2>1
  <2>2. CASE t \notin lost /\ ~c.dirty
    <3>1. CASE t = s /\ c.sign # -1
      BY <1>0, <3>1 DEF CallOK, TimeOK
    <3>2. CASE ~(t = s /\ c.sign # -1)
      <4>1. Aged(c.doc[t], ledger[t]) /\ beat'[t] = beat[t]
        BY <1>0, <2>2, <3>2 DEF CallOK, TimeOK
      <4>2. Known(ledger, t) => ledger[t].heard = beat[t]
        BY <2>2 DEF OwnInv, Heard
      <4> QED
        BY <1>0, <1>2, <4>1, <4>2 DEF Aged, Known
    <3> QED
      BY <3>1, <3>2
  <2> QED
    BY <1>0, <1>2, <2>1, <2>2
<1> QED
  BY <1>1, <1>2 DEF Heard, Known

\* A write keeps the types.
LEMMA WriteTyped ==
  ASSUME TypeOK, NEW s \in Sessions, Write(s)
  PROVE  TypeOK'
<1> DEFINE c == call[s]
<1>0. c \in Calls /\ c.doc \in Docs /\ c.sign \in -1..MaxTime
      /\ c.then \in {"done", "purge", "get"} /\ c.dirty \in BOOLEAN
  BY DEF TypeOK, Calls
<1>1. ledger' \in Docs /\ now' \in 0..MaxTime
  BY <1>0 DEF TypeOK, Write
<1>2. PICK next \in Calls :
        call' = [t \in Sessions |->
          IF t = s THEN next
          ELSE IF t \in Open /\ c.doc # ledger
               THEN [call[t] EXCEPT !.dirty = TRUE,
                                    !.moved = @ \union Moving(c.doc)]
               ELSE call[t]]
  <2>1. Idle \in Calls
    BY Shapes
  <2>2. [c EXCEPT !.doc = Purged(c.doc), !.then = "done"] \in Calls
    <3>1. Purged(c.doc) \in Docs
      BY <1>0, DocsTyped DEF TypeOK
    <3> QED
      BY <1>0, <3>1 DEF Calls
  <2>3. [c EXCEPT !.step = "get", !.doc = Empty, !.then = "done"] \in Calls
    BY <1>0, Shapes DEF Calls
  <2>4. CASE c.then = "done"
    BY <2>1, <2>4 DEF Write
  <2>5. CASE c.then = "purge"
    BY <2>2, <2>5 DEF Write
  <2>6. CASE c.then = "get"
    BY <2>3, <2>6 DEF Write
  <2> QED
    BY <1>0, <2>4, <2>5, <2>6
<1>3. call' \in [Sessions -> Calls]
  <2>1. Moving(c.doc) \in SUBSET Files
    BY DEF Moving
  <2>2. \A t \in Sessions :
          [call[t] EXCEPT !.dirty = TRUE,
                          !.moved = @ \union Moving(c.doc)] \in Calls
    BY <2>1 DEF TypeOK, Calls
  <2> QED
    BY <1>2, <2>2 DEF TypeOK
<1>4. lost' \in SUBSET Sessions
  BY DEF Write
<1>5. beat' \in [Sessions -> 0..MaxTime]
  <2>1. c.sign # -1 => c.sign \in 0..MaxTime
    BY <1>0, OwnershipAssumption
  <2>2. beat' = [beat EXCEPT ![s] = IF c.sign # -1 THEN c.sign ELSE @]
    BY DEF Write
  <2> HIDE DEF c
  <2> QED
    BY <2>1, <2>2 DEF TypeOK
<1> QED
  BY <1>1, <1>3, <1>4, <1>5 DEF TypeOK

\* What remains of the call, and what the other calls hold of the files that
\* the write has not moved, agrees with the ledger that was written.
LEMMA RemainingAreSound ==
  ASSUME OwnInv, NEW s \in Sessions, Write(s)
  PROVE  CallsOK'
<1> DEFINE c == call[s]
<1>0. /\ c \in Calls /\ c.doc \in Docs /\ ledger \in Docs
      /\ now \in 0..MaxTime
      /\ c.step = "write" /\ c.then \in {"done", "purge", "get"}
      /\ CallOK(c, s) /\ Overdue(c.doc)
      /\ ledger' = c.doc /\ now' = now
      /\ call \in [Sessions -> Calls]
  BY WriteEffect DEF OwnInv, TypeOK, CallOK, TimeOK
<1>1. CallOK(call[s], s)'
  <2>1. CASE c.then = "done"
    <3>1. call'[s] = Idle
      BY <1>0, <2>1 DEF Write
    <3>2. CallOK(Idle, s)'
      BY <1>0, IdleOK
      DEF CallOK, FileOK, TimeOK, Overdue, Idle
    <3> QED
      BY <3>1, <3>2
  <2>2. CASE c.then = "purge"
    <3> DEFINE d == [c EXCEPT !.doc = Purged(c.doc), !.then = "done"]
    <3>1. call'[s] = d
      BY <1>0, <2>2 DEF Write
    <3>2. /\ d.step = "write" /\ d.doc = Purged(c.doc) /\ d.sign = -1
          /\ d.then = "done"
      BY <1>0, <2>2 DEF Calls, CallOK, TimeOK
    <3> HIDE DEF d
    <3>3. Lessens(d.doc, ledger')
      BY <1>0, <3>2, Following
    <3>4. TimeOK(call[s], s)'
      BY <1>0, <3>1, <3>2, <3>3 DEF TimeOK, Lessens, Overdue, Aged
    <3>5. ASSUME NEW f \in Files PROVE FileOK(call[s], s, f)'
      <4>1. \A u \in Sessions : Standing(d.doc, u, f) = "active"
                                  => Standing(ledger', u, f) = "active"
        BY <3>3 DEF Lessens
      <4> QED
        BY <3>1, <3>2, <4>1 DEF FileOK, Claimable, Standing
    <3> QED
      BY <3>4, <3>5 DEF CallOK
  <2>3. CASE c.then = "get"
    <3> DEFINE d == [c EXCEPT !.step = "get", !.doc = Empty, !.then = "done"]
    <3>1. call'[s] = d
      BY <1>0, <2>3 DEF Write
    <3>2. /\ d.step = "get" /\ d.add = c.add /\ d.moved = c.moved
          /\ d.doc = Empty
      BY <1>0 DEF Calls
    <3> HIDE DEF d
    <3>3. \A f \in Files \ c.moved :
            f \in c.add => ~Taken(c.doc, f, s)
      BY <1>0, <2>3 DEF CallOK, FileOK
    <3>4. \A f \in Files \ d.moved : FileOK(call[s], s, f)'
      BY <1>0, <3>1, <3>2, <3>3 DEF FileOK, Taken, Standing
    <3>5. TimeOK(call[s], s)'
      BY <3>1, <3>2, Shapes DEF TimeOK, Overdue, Empty
    <3> QED
      BY <3>1, <3>4, <3>5 DEF CallOK
  <2> QED
    BY <1>0, <2>1, <2>2, <2>3
<1>2. ASSUME NEW t \in Sessions \ {s}, t \in Open, c.doc # ledger
      PROVE  CallOK(call[t], t)'
  <2>1. call'[t] = [call[t] EXCEPT !.dirty = TRUE,
                                   !.moved = @ \union Moving(c.doc)]
    BY <1>0, <1>2 DEF Write
  <2>2. call[t] \in Calls /\ CallOK(call[t], t)
    BY <1>0 DEF OwnInv, CallsOK
  <2> DEFINE d == call[t]
             e == call'[t]
  <2>3. /\ e.dirty /\ e.moved = d.moved \union Moving(c.doc)
        /\ e.step = d.step /\ e.doc = d.doc /\ e.then = d.then
        /\ e.sign = d.sign /\ e.add = d.add
    BY <2>1, <2>2 DEF Calls
  <2>4. TimeOK(call[t], t)'
    BY <1>0, <2>2, <2>3 DEF CallOK, TimeOK, Overdue
  <2>5. ASSUME NEW f \in Files \ e.moved PROVE FileOK(call[t], t, f)'
    <3>1. FileOK(call[t], t, f)
      BY <2>2, <2>3 DEF CallOK
    <3>2. \A u \in Sessions :
            Standing(ledger, u, f)' = Standing(ledger, u, f)
      BY <1>0, <2>3 DEF Moving, Standing
    <3> QED
      BY <2>3, <3>1, <3>2 DEF FileOK, Claimable, Taken, Standing
  <2> QED
    BY <2>4, <2>5 DEF CallOK
<1>3. ASSUME NEW t \in Sessions \ {s}, t \notin Open
      PROVE  CallOK(call[t], t)'
  <2>1. call'[t] = call[t] /\ call[t].step = "idle"
    BY <1>0, <1>3 DEF Write, Open
  <2>2. TimeOK(call[t], t)
    BY DEF OwnInv, CallsOK, CallOK
  <2> QED
    BY <1>0, <2>1, <2>2 DEF CallOK, FileOK, TimeOK, Overdue
<1>4. ASSUME NEW t \in Sessions \ {s}, c.doc = ledger
      PROVE  CallOK(call[t], t)'
  <2>1. call'[t] = call[t] /\ ledger' = ledger
    BY <1>0, <1>4 DEF Write
  <2>2. CallOK(call[t], t)
    BY DEF OwnInv, CallsOK
  <2> QED
    BY <1>0, <2>1, <2>2
    DEF CallOK, FileOK, TimeOK, Overdue, Aged, Claimable, Taken, Standing
<1> QED
  BY <1>1, <1>2, <1>3, <1>4 DEF CallsOK

\* The invariant holds in every state.
LEMMA OwnInvariant == Spec => []OwnInv
<1>1. OwnInv /\ [Next]_vars => OwnInv'
  <2> SUFFICES ASSUME OwnInv, [Next]_vars PROVE OwnInv'
    OBVIOUS
  <2>1. ASSUME NEW s \in Sessions,
               \/ Register(s) \/ Heartbeat(s) \/ Release(s)
               \/ ActiveSessions(s) \/ PurgeStale(s)
               \/ \E fs \in SUBSET Files \ {{}} :
                    ClaimFiles(s, fs) \/ ReleaseFiles(s, fs)
        PROVE  OwnInv'
    BY <2>1, OpeningKeeps
  <2>2. ASSUME NEW s \in Sessions, GetSession(s) PROVE OwnInv'
    BY <2>2, GetKeeps
  <2>3. ASSUME NEW s \in Sessions, Reregister(s) PROVE OwnInv'
    BY <2>3, ReregisterKeeps
  <2>4. ASSUME NEW s \in Sessions, Write(s) PROVE OwnInv'
    <3>1. TypeOK'
      BY <2>4, WriteTyped DEF OwnInv
    <3> QED
      BY <2>4, <3>1, WrittenIsHeard, RemainingAreSound DEF OwnInv
  <2>5. ASSUME NEW s \in Sessions, Crash(s) PROVE OwnInv'
    <3>1. CallOK(Idle, s)
      BY IdleOK DEF OwnInv, TypeOK
    <3> QED
      BY <2>5, <3>1, Shapes, StepKeeps DEF Crash
  <2>6. CASE Tick
    <3>1. /\ now \in 0..MaxTime /\ now' = now + 1 /\ now' \in 0..MaxTime
          /\ UNCHANGED <<ledger, call, beat, lost>>
      BY <2>6, OwnershipAssumption DEF Tick, OwnInv, TypeOK
    <3>2. TypeOK'
      BY <3>1 DEF OwnInv, TypeOK
    <3>3. ASSUME NEW doc \in Docs, Overdue(doc)
          PROVE  Overdue(doc)'
      <4> SUFFICES ASSUME NEW u \in Sessions, doc[u].status = "stale"
                   PROVE  now' - doc[u].heard > Ttl
        BY DEF Overdue
      <4>1. doc[u] \in Entries
        BY Shapes DEF Docs
      <4>2. doc[u].heard \in 0..MaxTime /\ now - doc[u].heard > Ttl
        BY <3>3, <4>1, Shapes DEF Overdue
      <4> QED
        BY <3>1, <4>2, OwnershipAssumption
    <3>4. Heard'
      <4>1. Overdue(ledger)'
        BY <3>1, <3>3 DEF OwnInv, TypeOK, Heard, Overdue
      <4> QED
        BY <3>1, <4>1 DEF OwnInv, Heard, Known
    <3>5. ASSUME NEW t \in Sessions PROVE CallOK(call[t], t)'
      <4>1. call[t].doc \in Docs /\ CallOK(call[t], t)
        BY DEF OwnInv, TypeOK, Calls, CallsOK
      <4>2. Overdue(call[t].doc)'
        BY <3>1, <3>3, <4>1 DEF CallOK, TimeOK, Overdue
      <4>3. TimeOK(call[t], t)'
        BY <3>1, <4>1, <4>2 DEF CallOK, TimeOK, Aged
      <4> QED
        BY <3>1, <4>1, <4>3 DEF CallOK, FileOK, Claimable, Taken, Standing
    <3> QED
      BY <3>2, <3>4, <3>5 DEF OwnInv, CallsOK
  <2>7. CASE UNCHANGED vars
    BY <2>7
    DEF vars, OwnInv, TypeOK, Heard, CallsOK, CallOK, FileOK, TimeOK,
        Overdue, Aged, Claimable, Taken, Standing, Known
  <2> QED
    BY <2>1, <2>2, <2>3, <2>4, <2>5, <2>6, <2>7 DEF Next
<1> QED
  BY <1>1, OwnInit, PTL DEF Spec

\* The type of every variable is kept.
THEOREM TypeCorrect == Spec => []TypeOK
BY OwnInvariant, PTL DEF OwnInv

\* A write of a call gives a file a second active owner only if somebody
\* else changed who has that file since the call read the ledger, or if one
\* of the two takes it along out of staleness.
LEMMA WriteShares ==
  ASSUME OwnInv, NEW w \in Sessions, Write(w), NEW f \in Files,
         f \notin call[w].moved,
         NEW s \in Sessions, NEW t \in Sessions, NewlyShared(f, s, t)
  PROVE  w \in {s, t} /\ Standing(ledger, w, f) = "stale"
<1> DEFINE c == call[w]
<1>0. /\ ledger \in Docs /\ c.doc \in Docs /\ ledger' = c.doc
      /\ c.step = "write" /\ FileOK(c, w, f)
  BY WriteEffect DEF OwnInv, TypeOK, CallOK
<1> HIDE DEF c
<1>1. /\ \A u \in Sessions \ {w} :
           Standing(c.doc, u, f) = "active"
             => Standing(ledger, u, f) = "active"
      /\ Standing(c.doc, w, f) = "active" => Claimable(f, w)
  BY <1>0 DEF FileOK
<1>2. \A u \in Sessions :
        /\ u \in Owners(f) <=> Standing(ledger, u, f) = "active"
        /\ u \in Owners(f)' <=> Standing(c.doc, u, f) = "active"
  BY <1>0, Standings DEF Owners, Active
<1>3. ASSUME NEW u \in Sessions, u # w,
             Standing(c.doc, w, f) = "active",
             Standing(c.doc, u, f) = "active",
             ~(w \in Owners(f) /\ u \in Owners(f))
      PROVE  Standing(ledger, w, f) = "stale"
  <2>1. u \in Owners(f) /\ Standing(ledger, u, f) = "active"
    BY <1>1, <1>2, <1>3
  <2>2. Standing(ledger, w, f) # "none"
    BY <1>1, <1>3, <2>1 DEF Claimable, Taken
  <2>3. Standing(ledger, w, f) # "active"
    BY <1>2, <1>3, <2>1
  <2> QED
    BY <1>0, <2>2, <2>3, Standings
<1>4. /\ s # t
      /\ Standing(c.doc, s, f) = "active"
      /\ Standing(c.doc, t, f) = "active"
      /\ ~(s \in Owners(f) /\ t \in Owners(f))
  BY <1>2 DEF NewlyShared
<1>5. w \in {s, t}
  BY <1>1, <1>2, <1>4
<1> QED
  BY <1>3, <1>4, <1>5

\* A file gets a second active owner only in a write of one of two kinds:
\* of a call that has not seen who has it now, or of an owner that comes
\* back out of staleness.
THEOREM SharedWithCause == Spec => SharingHasACause
<1> DEFINE A == \A f \in Files : \A s, t \in Sessions :
                  NewlyShared(f, s, t) =>
                    \E u \in Sessions :
                      /\ Write(u)
                      /\ \/ f \in call[u].moved
                         \/ /\ u \in {s, t}
                            /\ Standing(ledger, u, f) = "stale"
<1>1. OwnInv /\ [Next]_vars => [A]_vars
  <2> SUFFICES ASSUME OwnInv, [Next]_vars, NEW f \in Files,
                      NEW s \in Sessions, NEW t \in Sessions,
                      NewlyShared(f, s, t)
               PROVE  \E u \in Sessions :
                        /\ Write(u)
                        /\ \/ f \in call[u].moved
                           \/ /\ u \in {s, t}
                              /\ Standing(ledger, u, f) = "stale"
    OBVIOUS
  <2>1. CASE UNCHANGED ledger
    BY <2>1 DEF NewlyShared, Owners, Active
  <2>2. ASSUME NEW u \in Sessions, Write(u)
        PROVE  \/ f \in call[u].moved
               \/ u \in {s, t} /\ Standing(ledger, u, f) = "stale"
    BY <2>2, WriteShares
  <2>3. UNCHANGED ledger \/ \E u \in Sessions : Write(u)
    BY DEF Next, Tick, Register, Heartbeat, Release, ActiveSessions,
           PurgeStale, ClaimFiles, ReleaseFiles, Begin, GetSession,
           Reregister, Crash, vars
  <2> QED
    BY <2>1, <2>2, <2>3
<1>2. Spec => [][A]_vars
  BY <1>1, OwnInvariant, PTL DEF Spec
<1> QED
  BY <1>2 DEF SharingHasACause

\* A session recorded as stale has been silent for longer than its time to
\* live, unless its last sign of life was overwritten.
THEOREM StaleWereSilent == Spec => []StaleIsSilent
<1>1. OwnInv => StaleIsSilent
  BY DEF OwnInv, Heard, Overdue, Known, StaleIsSilent
<1> QED
  BY <1>1, OwnInvariant, PTL

-----------------------------------------------------------------------------
(* Task leases.                                                            *)

Words == [token : Nat, until : Nat]

\* What the manager tells a session is kept for that session and task alone.
LEMMA TellOne ==
  ASSUME LeaseTypeOK, NEW s \in Holders, NEW t \in Tasks,
         NEW k \in Nat, NEW n \in Nat, Tell(s, t, k, n)
  PROVE  /\ told' \in [Holders -> [Tasks -> Words]]
         /\ told'[s][t] = [token |-> k, until |-> n]
<1>1. told \in [Holders -> [Tasks -> Words]]
  BY DEF LeaseTypeOK, Words
<1>2. [token |-> k, until |-> n] \in Words
  BY DEF Words
<1> QED
  BY <1>1, <1>2 DEF Tell

\* What other sessions were told, and of other tasks, stays.
LEMMA TellNoOther ==
  ASSUME LeaseTypeOK, NEW s \in Holders, NEW t \in Tasks,
         NEW k, NEW n, Tell(s, t, k, n),
         NEW u \in Holders, NEW v \in Tasks, u # s \/ v # t
  PROVE  told'[u][v] = told[u][v]
<1>1. CASE u # s
  BY <1>1 DEF Tell, LeaseTypeOK
<1>2. CASE u = s /\ v # t
  BY <1>2 DEF Tell, LeaseTypeOK
<1> QED
  BY <1>1, <1>2

\* The type of every variable is kept by each call and by time.
THEOREM LeaseTypesHold == LeaseSpec => []LeaseTypeOK
<1>1. LeaseInit => LeaseTypeOK
  BY DEF LeaseInit, LeaseTypeOK, NoLease, NoWord, Leases
<1>2. LeaseTypeOK /\ [LeaseNext]_leaseVars => LeaseTypeOK'
  <2> SUFFICES ASSUME LeaseTypeOK, [LeaseNext]_leaseVars
               PROVE  LeaseTypeOK'
    OBVIOUS
  <2> USE DEF LeaseTypeOK
  <2>1. CASE LeaseTick
    BY <2>1 DEF LeaseTick
  <2>2. CASE ExpireStale
    <3>1. NoLease \in Leases
      BY DEF NoLease, Leases
    <3> QED
      BY <2>2, <3>1 DEF ExpireStale
  <2>3. ASSUME NEW t \in Tasks, MarkExpired(t) PROVE LeaseTypeOK'
    <3>1. Marked(leases[t]) \in Leases
      BY DEF Marked, Leases
    <3> QED
      BY <2>3, <3>1 DEF MarkExpired
  <2>4. ASSUME NEW t \in Tasks, NEW s \in Holders, ClaimAgain(s, t)
        PROVE  LeaseTypeOK'
    <3>1. clock + Default \in Nat /\ leases[t].token \in Nat
      BY LeaseAssumption DEF Leases
    <3>2. told' \in [Holders -> [Tasks -> Words]]
      BY <2>4, <3>1, TellOne DEF ClaimAgain
    <3>3. [leases[t] EXCEPT !.until = clock + Default] \in Leases
      BY <3>1 DEF Leases
    <3> QED
      BY <2>4, <3>2, <3>3 DEF ClaimAgain, Words
  <2>5. ASSUME NEW t \in Tasks, NEW s \in Holders, ReleaseLease(s, t)
        PROVE  LeaseTypeOK'
    <3>1. NoLease \in Leases /\ NoWord \in Words
      BY DEF NoLease, Leases, NoWord, Words
    <3> QED
      BY <2>5, <3>1 DEF ReleaseLease, Words
  <2>6. ASSUME NEW t \in Tasks, NEW s \in Holders, NEW d \in Durations,
               ClaimFree(s, t, d)
        PROVE  LeaseTypeOK'
    <3>1. clock + d \in Nat /\ last' \in Nat
      BY <2>6, LeaseAssumption DEF ClaimFree
    <3>2. told' \in [Holders -> [Tasks -> Words]]
      BY <2>6, <3>1, TellOne DEF ClaimFree
    <3>3. [holder |-> s, token |-> last', until |-> clock + d,
           status |-> "active"] \in Leases
      BY <3>1 DEF Leases
    <3> QED
      BY <2>6, <3>1, <3>2, <3>3 DEF ClaimFree, Words
  <2>7. ASSUME NEW t \in Tasks, NEW s \in Holders, NEW d \in Durations,
               Renew(s, t, d)
        PROVE  LeaseTypeOK'
    <3>1. clock + d \in Nat /\ leases[t].token \in Nat
      BY LeaseAssumption DEF Leases
    <3>2. told' \in [Holders -> [Tasks -> Words]]
      BY <2>7, <3>1, TellOne DEF Renew
    <3>3. [leases[t] EXCEPT !.until = clock + d] \in Leases
      BY <3>1 DEF Leases
    <3> QED
      BY <2>7, <3>2, <3>3 DEF Renew, Words
  <2>8. CASE UNCHANGED leaseVars
    BY <2>8 DEF leaseVars
  <2> QED
    BY <2>1, <2>2, <2>3, <2>4, <2>5, <2>6, <2>7, <2>8 DEF LeaseNext
<1> QED
  BY <1>1, <1>2, PTL DEF LeaseSpec

-----------------------------------------------------------------------------
(* LeaseExcludes is not inductive: it needs that a session's belief is     *)
(* what the manager has on record, and that to hold the token of a lease   *)
(* is to be its holder.                                                    *)

OnRecord(s, t) ==
  /\ leases[t].token <= last
  /\ told[s][t].token <= last
  /\ HasToken(s, t) => leases[t].holder = s
  /\ Believes(s, t) => /\ leases[t].holder = s
                       /\ leases[t].token = told[s][t].token
                       /\ leases[t].until = told[s][t].until
                       /\ leases[t].status = "active"

LeaseInv == \A s \in Holders, t \in Tasks : OnRecord(s, t)

\* Only the caller may have believed to hold a lease it has the token of,
\* or one that is recorded as its own.
LEMMA OnlyTheHolder ==
  ASSUME LeaseInv, NEW s \in Holders, NEW t \in Tasks,
         leases[t].holder = s
  PROVE  \A u \in Holders \ {s} : ~Believes(u, t)
BY DEF LeaseInv, OnRecord

\* Nobody believes to hold what the manager does not count as held.
LEMMA NobodyHolds ==
  ASSUME LeaseTypeOK, LeaseInv, NEW t \in Tasks, ~Held(t)
  PROVE  \A u \in Holders : ~Believes(u, t)
<1> SUFFICES ASSUME NEW u \in Holders, Believes(u, t) PROVE FALSE
  OBVIOUS
<1>1. /\ leases[t].status = "active"
      /\ leases[t].until = told[u][t].until
      /\ told[u][t].until >= clock
  BY DEF LeaseInv, OnRecord, Believes
<1>2. leases[t].until \in Nat /\ clock \in Nat
  BY DEF LeaseTypeOK, Leases
<1> QED
  BY <1>1, <1>2 DEF Held, IsExpired

\* Each call, and time, keep belief and record together.
LEMMA LeaseInvariant ==
  LeaseTypeOK /\ LeaseInv /\ [LeaseNext]_leaseVars => LeaseInv'
<1> SUFFICES ASSUME LeaseTypeOK, LeaseInv, [LeaseNext]_leaseVars,
                    NEW u \in Holders, NEW v \in Tasks
             PROVE  OnRecord(u, v)'
  BY DEF LeaseInv
<1>0. /\ clock \in Nat /\ last \in Nat
      /\ leases[v].token \in Nat /\ leases[v].until \in Nat
      /\ told[u][v].token \in Nat /\ told[u][v].until \in Nat
      /\ leases[v].token <= last /\ told[u][v].token <= last
      /\ HasToken(u, v) => leases[v].holder = u
      /\ Believes(u, v) =>
           /\ leases[v].holder = u
           /\ leases[v].token = told[u][v].token
           /\ leases[v].until = told[u][v].until
           /\ leases[v].status = "active"
  BY DEF LeaseTypeOK, Leases, LeaseInv, OnRecord
<1>1. CASE LeaseTick
  BY <1>0, <1>1 DEF LeaseTick, OnRecord, HasToken, Believes
<1>2. ASSUME ~Held(v), UNCHANGED <<clock, last, told>>,
             leases'[v] = NoLease \/ leases'[v] = Marked(leases[v])
      PROVE  OnRecord(u, v)'
  <2>1. ~Believes(u, v)
    BY <1>2, NobodyHolds
  <2>2. HasToken(u, v)' => leases'[v].holder = u
    BY <1>0, <1>2 DEF HasToken, NoLease, Marked, LeaseTypeOK, Leases
  <2>3. leases'[v].token <= last'
    <3>1. leases'[v].token = 0 \/ leases'[v].token = leases[v].token
      BY <1>2 DEF NoLease, Marked, LeaseTypeOK, Leases
    <3> QED
      BY <1>0, <1>2, <3>1
  <2>4. told'[u][v].token <= last' /\ ~Believes(u, v)'
    BY <1>0, <1>2, <2>1 DEF Believes
  <2> QED
    BY <2>2, <2>3, <2>4 DEF OnRecord
<1>3. ASSUME leases'[v] = leases[v], told'[u][v] = told[u][v],
             last' \in Nat, last' >= last, clock' = clock
      PROVE  OnRecord(u, v)'
  BY <1>0, <1>3 DEF OnRecord, HasToken, Believes
<1>4. CASE ExpireStale
  <2>1. CASE leases[v].status = "active" /\ IsExpired(leases[v])
    BY <1>2, <1>4, <2>1 DEF ExpireStale, Held, LeaseTypeOK
  <2>2. CASE ~(leases[v].status = "active" /\ IsExpired(leases[v]))
    BY <1>0, <1>3, <1>4, <2>2 DEF ExpireStale, LeaseTypeOK
  <2> QED
    BY <2>1, <2>2
<1>5. ASSUME NEW t \in Tasks, MarkExpired(t) PROVE OnRecord(u, v)'
  <2>1. CASE t = v
    BY <1>2, <1>5, <2>1 DEF MarkExpired, Held, LeaseTypeOK
  <2>2. CASE t # v
    BY <1>0, <1>3, <1>5, <2>2 DEF MarkExpired, LeaseTypeOK
  <2> QED
    BY <2>1, <2>2
<1>6. ASSUME NEW t \in Tasks, NEW s \in Holders, NEW n \in Nat,
             HasToken(s, t) \/ leases[t].holder = s, Held(t),
             leases' = [leases EXCEPT ![t].until = n],
             Tell(s, t, leases[t].token, n), UNCHANGED <<clock, last>>
      PROVE  OnRecord(u, v)'
  <2>0. leases[t].token \in Nat
    BY DEF LeaseTypeOK, Leases
  <2>1. leases[t].holder = s
    BY <1>6 DEF LeaseInv, OnRecord
  <2>2. CASE t # v
    <3>1. leases'[v] = leases[v]
      BY <1>6, <2>2 DEF LeaseTypeOK
    <3>2. told'[u][v] = told[u][v]
      BY <1>6, <2>2, TellNoOther
    <3> QED
      BY <1>0, <1>3, <1>6, <3>1, <3>2
  <2>3. CASE t = v
    <3>1. /\ leases'[v].holder = s /\ leases'[v].token = leases[v].token
          /\ leases'[v].until = n /\ leases'[v].status = "active"
      BY <1>6, <2>1, <2>3 DEF Held, LeaseTypeOK, Leases
    <3>2. CASE u = s
      <4>1. told'[u][v] = [token |-> leases[v].token, until |-> n]
        BY <1>6, <2>0, <2>3, <3>2, TellOne
      <4>2. leases[v].token <= last
        BY <1>0, <1>6, <2>3
      <4> QED
        BY <1>6, <3>1, <3>2, <4>1, <4>2 DEF OnRecord
    <3>3. CASE u # s
      <4>1. told'[u][v] = told[u][v]
        BY <1>6, <3>3, TellNoOther
      <4>2. ~HasToken(u, v) /\ ~Believes(u, v)
        BY <1>0, <2>1, <2>3, <3>3
      <4> QED
        BY <1>0, <1>6, <3>1, <4>1, <4>2 DEF OnRecord, HasToken, Believes
    <3> QED
      BY <3>2, <3>3
  <2> QED
    BY <2>2, <2>3
<1>7. ASSUME NEW t \in Tasks, NEW s \in Holders, NEW d \in Durations,
             ClaimFree(s, t, d)
      PROVE  OnRecord(u, v)'
  <2>0. last' = last + 1 /\ clock' = clock /\ clock + d \in Nat
    BY <1>0, <1>7, LeaseAssumption DEF ClaimFree
  <2>1. CASE t # v
    <3>1. leases'[v] = leases[v]
      BY <1>7, <2>1 DEF ClaimFree, LeaseTypeOK
    <3>2. told'[u][v] = told[u][v]
      BY <1>7, <2>1, TellNoOther DEF ClaimFree
    <3> QED
      BY <1>0, <1>3, <2>0, <3>1, <3>2
  <2>2. CASE t = v
    <3>1. leases'[v] = [holder |-> s, token |-> last', until |-> clock + d,
                        status |-> "active"]
      BY <1>7, <2>2 DEF ClaimFree, LeaseTypeOK
    <3>2. CASE u = s
      <4>1. told'[u][v] = [token |-> last', until |-> clock + d]
        BY <1>0, <1>7, <2>0, <2>2, <3>2, TellOne DEF ClaimFree
      <4> QED
        BY <1>0, <2>0, <3>1, <3>2, <4>1 DEF OnRecord
    <3>3. CASE u # s
      <4>1. told'[u][v] = told[u][v]
        BY <1>7, <3>3, TellNoOther DEF ClaimFree
      <4>2. ~Believes(u, v)
        BY <1>7, <2>2, NobodyHolds DEF ClaimFree
      <4> QED
        BY <1>0, <2>0, <3>1, <4>1, <4>2 DEF OnRecord, HasToken, Believes
    <3> QED
      BY <3>2, <3>3
  <2> QED
    BY <2>1, <2>2
<1>8. ASSUME NEW t \in Tasks, NEW s \in Holders, ReleaseLease(s, t)
      PROVE  OnRecord(u, v)'
  <2>1. CASE t # v
    BY <1>0, <1>3, <1>8, <2>1 DEF ReleaseLease, LeaseTypeOK
  <2>2. CASE t = v
    <3>1. leases'[v] = NoLease /\ leases[v].holder = s
      BY <1>8, <2>2 DEF ReleaseLease, LeaseTypeOK, LeaseInv, OnRecord
    <3>2. CASE u = s
      <4>1. told'[u][v] = NoWord
        BY <1>8, <2>2, <3>2 DEF ReleaseLease, LeaseTypeOK
      <4> QED
        BY <1>0, <1>8, <3>1, <4>1
        DEF ReleaseLease, NoLease, NoWord, OnRecord, HasToken, Believes
    <3>3. CASE u # s
      <4>1. told'[u][v] = told[u][v] /\ ~Believes(u, v)
        BY <1>0, <1>8, <3>1, <3>3 DEF ReleaseLease, LeaseTypeOK
      <4> QED
        BY <1>0, <1>8, <3>1, <4>1
        DEF ReleaseLease, NoLease, OnRecord, HasToken, Believes
    <3> QED
      BY <3>2, <3>3
  <2> QED
    BY <2>1, <2>2
<1>9. ASSUME NEW t \in Tasks, NEW s \in Holders, ClaimAgain(s, t)
      PROVE  OnRecord(u, v)'
  <2>1. clock + Default \in Nat
    BY <1>0, LeaseAssumption
  <2> QED
    BY <1>6, <1>9, <2>1 DEF ClaimAgain
<1>10. ASSUME NEW t \in Tasks, NEW s \in Holders, NEW d \in Durations,
              Renew(s, t, d)
       PROVE  OnRecord(u, v)'
  <2>1. clock + d \in Nat
    BY <1>0, LeaseAssumption
  <2> QED
    BY <1>6, <1>10, <2>1 DEF Renew
<1>11. CASE UNCHANGED leaseVars
  BY <1>0, <1>3, <1>11 DEF leaseVars
<1> QED
  BY <1>1, <1>4, <1>5, <1>7, <1>8, <1>9, <1>10, <1>11 DEF LeaseNext

\* Two sessions never both have a time that has not passed for one task.
THEOREM LeasesExclude == LeaseSpec => []LeaseExcludes
<1>1. LeaseInit => LeaseInv
  <2> SUFFICES ASSUME LeaseInit, NEW s \in Holders, NEW t \in Tasks
               PROVE  OnRecord(s, t)
    BY DEF LeaseInv
  <2>1. leases[t].token = 0 /\ told[s][t].token = 0 /\ last = 0
    BY DEF LeaseInit, NoLease, NoWord
  <2> QED
    BY <2>1 DEF OnRecord, Believes, HasToken
<1>2. LeaseInv => LeaseExcludes
  BY OnlyTheHolder DEF LeaseInv, OnRecord, LeaseExcludes
<1> QED
  BY <1>1, <1>2, LeaseInvariant, LeaseTypesHold, PTL DEF LeaseSpec

\* A lease that has ended holds again only under a new token.
THEOREM DeadTokensNeverHold == LeaseSpec => DeadTokensStayDead
<1>1. LeaseTypeOK /\ [LeaseNext]_leaseVars =>
        [\A t \in Tasks :
           /\ leases'[t].status = "active"
           /\ leases'[t] # leases[t]
           /\ leases'[t].token <= last
           => Held(t) /\ leases[t].token = leases'[t].token]_leaseVars
  <2> SUFFICES ASSUME LeaseTypeOK, LeaseNext, NEW t \in Tasks,
                      leases'[t].status = "active", leases'[t] # leases[t],
                      leases'[t].token <= last
               PROVE  Held(t) /\ leases[t].token = leases'[t].token
    BY DEF leaseVars
  <2>1. ASSUME NEW s \in Holders, NEW v \in Tasks,
               ClaimAgain(s, v) \/ \E d \in Durations : Renew(s, v, d)
        PROVE  Held(t) /\ leases[t].token = leases'[t].token
    <3>1. /\ Held(v)
          /\ \E n : leases' = [leases EXCEPT ![v].until = n]
      BY <2>1 DEF ClaimAgain, Renew
    <3> QED
      BY <3>1 DEF LeaseTypeOK, Leases
  <2>2. ASSUME NEW s \in Holders, NEW v \in Tasks, NEW d \in Durations,
               ClaimFree(s, v, d)
        PROVE  FALSE
    <3>1. last \in Nat
      BY DEF LeaseTypeOK
    <3>2. t = v /\ leases'[t].token = last + 1
      BY <2>2 DEF ClaimFree, LeaseTypeOK
    <3> QED
      BY <3>1, <3>2
  <2>3. ASSUME NEW v \in Tasks, MarkExpired(v) PROVE FALSE
    BY <2>3 DEF MarkExpired, Marked, LeaseTypeOK, Leases
  <2>4. ASSUME NEW s \in Holders, NEW v \in Tasks, ReleaseLease(s, v)
        PROVE  FALSE
    BY <2>4 DEF ReleaseLease, NoLease, LeaseTypeOK
  <2>5. ~ExpireStale /\ ~LeaseTick
    BY DEF ExpireStale, LeaseTick, NoLease, LeaseTypeOK
  <2> QED
    BY <2>1, <2>2, <2>3, <2>4, <2>5 DEF LeaseNext
<1> QED
  BY <1>1, LeaseTypesHold, PTL DEF LeaseSpec, DeadTokensStayDead
=============================================================================
