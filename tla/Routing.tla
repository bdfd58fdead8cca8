------------------------------- MODULE Routing -------------------------------
(***************************************************************************)
(* What decides where work goes: the capability registry with a            *)
(* repository's overrides (Capabilities), the runtime registry and its     *)
(* availability probes (src/runtimes/registry.js and selection.js), and    *)
(* .octowiz/config.json, the file that `octowiz enforce` (state/enforce.js)*)
(* and `octowiz runtime select` (runtimes/cli.js, selection.js) write and  *)
(* `octowiz state next` (state/cli.js) reads.                              *)
(*                                                                         *)
(* Each command is a process of its own: between two of its file accesses  *)
(* any other may run, or it may die.  The runtime adapters are part of the *)
(* environment: they come up, go down, or accept a probe and never answer. *)
(***************************************************************************)
EXTENDS Capabilities, FiniteSets, SequencesExt

CONSTANTS
  Base,           \* the registry of skills/registry.json
  OverrideFiles,  \* what .octowiz/capabilities.json may hold
  Repositories,   \* what the repository may hold
  Runtimes,       \* identifiers of runtimes, in order of registration
  DefaultRuntime, \* 'claude-code'
  NoRuntime,
  MaxMoves        \* bound on the moves of the users and of the environment

ASSUME BaseAssumption == RegistryOK(Base)
\* In every registry and override the resolvers are a sequence, and their
\* priorities are numbers.
ASSUME ResolversAssumption ==
  \A doc \in {Base} \cup {f.doc : f \in OverrideFiles} :
    \A n \in DOMAIN doc.capabilities :
      LET rs == doc.capabilities[n].resolvers
      IN  rs \in Seq(Range(rs)) /\ \A i \in DOMAIN rs : rs[i].priority \in Nat
ASSUME RuntimesAssumption ==
  /\ Runtimes \in Seq(Range(Runtimes)) /\ IsInjective(Runtimes)
  /\ DefaultRuntime \in Range(Runtimes)
  /\ NoRuntime \notin Range(Runtimes)
  /\ MaxMoves \in Nat

VARIABLES
  overrides,  \* .octowiz/capabilities.json
  repo,       \* the files and package.json of the repository
  config,     \* .octowiz/config.json
  toggler,    \* a process of `octowiz enforce on|off`
  selector,   \* a process of `octowiz runtime select`
  next,       \* a process of `octowiz state next`
  adapters,   \* the runtimes registered, in order
  status,     \* of each runtime: up, down or silent
  probe,      \* a call of selectFromRegistry
  moves,
  wanted,     \* history: the settings the commands that ended have made
  disturbed   \* history: two writers overlapped, or one died writing

files == <<overrides, repo>>
settings == <<config, toggler, selector, wanted, disturbed>>
runtimes == <<adapters, status, probe>>
vars == <<files, settings, next, runtimes, moves>>

Ids == Range(Runtimes)

\* The conditions that hold in the repository.
Satisfied == EvaluateAll(BuildContext(repo))

Move == moves < MaxMoves /\ moves' = moves + 1

-----------------------------------------------------------------------------
(* .octowiz/config.json: absent, torn (a writer is in the middle of it, or *)
(* died there) or a document.  Every reader takes the first two for an     *)
(* empty document.                                                         *)

Empty == [enforce |-> Unset, preferred |-> Unset, execution |-> Unset]
Documents == [enforce : {Unset, "on", "off"}, preferred : {Unset} \cup Ids,
              execution : {Unset, "set"}]
File(kind, doc) == [kind |-> kind, doc |-> doc]

ReadConfig == IF config.kind = "document" THEN config.doc ELSE Empty

Idle == [pc |-> "idle", doc |-> Empty, value |-> Unset]
Writing == toggler.pc # "idle" \/ selector.pc # "idle"

\* Mutant: the toggle is written without the other keys of the file.
EnforceReadsMutant ==
  \E value \in {"on", "off"} :
    /\ toggler.pc = "idle"
    /\ Move
    /\ toggler' = [pc |-> "read", value |-> value,
                   doc |-> [Empty EXCEPT !.enforce = value]]
    /\ disturbed' = (disturbed \/ Writing)
    /\ UNCHANGED <<config, selector, wanted, files, next, runtimes>>

\* setEnforced: the whole document is read, changed, written to a temporary
\* file and renamed.
EnforceReads ==
  \E value \in {"on", "off"} :
    /\ toggler.pc = "idle"
    /\ Move
    /\ toggler' = [pc |-> "read", value |-> value,
                   doc |-> [ReadConfig EXCEPT !.enforce = value]]
    /\ disturbed' = (disturbed \/ Writing)
    /\ UNCHANGED <<config, selector, wanted, files, next, runtimes>>

EnforceRenames ==
  /\ toggler.pc = "read"
  /\ config' = File("document", toggler.doc)
  /\ wanted' = [wanted EXCEPT !.enforce = toggler.value]
  /\ toggler' = Idle
  /\ UNCHANGED <<selector, disturbed, files, next, runtimes, moves>>

\* `runtime select`: the runtime part is read and given the preference ...
SelectReads ==
  \E id \in Ids :
    /\ selector.pc = "idle"
    /\ Move
    /\ selector' = [pc |-> "part", value |-> id,
                    doc |-> [ReadConfig EXCEPT !.preferred = id]]
    /\ disturbed' = (disturbed \/ Writing)
    /\ UNCHANGED <<config, toggler, wanted, files, next, runtimes>>

\* ... then writeRuntimeConfig reads the document again for the other keys ...
SelectReadsAgain ==
  /\ selector.pc = "part"
  /\ selector' = [selector EXCEPT !.pc = "document",
                                  !.doc.enforce = ReadConfig.enforce]
  /\ UNCHANGED <<config, toggler, wanted, disturbed, files, next, runtimes,
                 moves>>

\* ... and writes it in place, which truncates the file first ...
SelectTruncates ==
  /\ selector.pc = "document"
  /\ selector' = [selector EXCEPT !.pc = "writing"]
  /\ config' = File("torn", Empty)
  /\ UNCHANGED <<toggler, wanted, disturbed, files, next, runtimes, moves>>

\* ... and fills the file it opened, which a rename may have replaced.
SelectWrites ==
  /\ selector.pc = "writing"
  /\ config' = IF config.kind = "torn" THEN File("document", selector.doc)
               ELSE config
  /\ wanted' = [wanted EXCEPT !.preferred = selector.value]
  /\ selector' = Idle
  /\ UNCHANGED <<toggler, disturbed, files, next, runtimes, moves>>

\* A command dies.  Only the middle of an in-place write leaves a trace.
WriterDies ==
  /\ Writing
  /\ \/ toggler' = Idle /\ UNCHANGED selector /\ toggler.pc # "idle"
     \/ selector' = Idle /\ UNCHANGED toggler /\ selector.pc # "idle"
  /\ disturbed' = (disturbed \/ config.kind = "torn")
  /\ UNCHANGED <<config, wanted, files, next, runtimes, moves>>

\* The user adds the execution defaults of runtime.options by hand.
EditConfig ==
  /\ Move
  /\ ~Writing /\ config.kind # "torn"
  /\ config' = File("document", [ReadConfig EXCEPT !.execution = "set"])
  /\ wanted' = [wanted EXCEPT !.execution = "set"]
  /\ UNCHANGED <<toggler, selector, disturbed, files, next, runtimes>>

-----------------------------------------------------------------------------
(* `octowiz state next` for a capability the state recommends (which one   *)
(* is the matter of EngineeringState): the registry is loaded, then the    *)
(* execution defaults are read, then the conditions are evaluated.         *)

EditOverrides ==
  /\ Move
  /\ overrides' \in OverrideFiles \ {overrides}
  /\ UNCHANGED <<repo, settings, next, runtimes>>

EditRepository ==
  /\ Move
  /\ repo' \in Repositories \ {repo}
  /\ UNCHANGED <<overrides, settings, next, runtimes>>

NotAsked == [pc |-> "idle", capability |-> Unset, source |-> Unset,
             execution |-> Unset, expected |-> Unset, read |-> Unset,
             resolved |-> NoResolver]

\* A registry that cannot be loaded ends the command with E_REGISTRY.
NextLoads ==
  \E name \in DOMAIN Base.capabilities :
    /\ next.pc \in {"idle", "answered", "failed"}
    /\ Move
    /\ next' = [NotAsked EXCEPT !.capability = name,
                                !.pc = IF Usable(Base, overrides)
                                       THEN "loaded" ELSE "failed",
                                !.source = overrides]
    /\ UNCHANGED <<files, settings, runtimes>>

NextReadsDefaults ==
  /\ next.pc = "loaded"
  /\ next' = [next EXCEPT !.pc = "defaults",
                          !.execution = ReadConfig.execution,
                          !.expected = wanted.execution,
                          !.read = config.kind]
  /\ UNCHANGED <<files, settings, runtimes, moves>>

NextResolves ==
  /\ next.pc = "defaults"
  /\ next' = [next EXCEPT !.pc = "answered",
                          !.resolved =
                            ResolveCapability(Load(Base, next.source),
                                              next.capability,
                                              Satisfied)]
  /\ UNCHANGED <<files, settings, runtimes, moves>>

-----------------------------------------------------------------------------
(* The runtime registry and a selection.  A probe that is pending settles  *)
(* when the adapter answers, or by its timer, which may also overtake an   *)
(* answer that is on its way.                                              *)

NoProbe == [pc |-> "idle", preferred |-> NoRuntime, entries |-> <<>>,
            pending |-> {}, yes |-> {}, result |-> NoRuntime,
            steady |-> {}, late |-> {}]
Probing == probe.pc \in {"preferred", "all"}

\* A runtime that is set anew keeps its place, a new one goes last.
Register(r) ==
  /\ Move
  /\ r \in Ids \ Range(adapters)
  /\ adapters' = Append(adapters, r)
  /\ UNCHANGED <<status, probe, files, settings, next>>

Deregister(r) ==
  /\ Move
  /\ \E i \in DOMAIN adapters : adapters[i] = r
                                /\ adapters' = RemoveAt(adapters, i)
  /\ probe' = [probe EXCEPT !.steady = @ \ {r}]
  /\ UNCHANGED <<status, files, settings, next>>

RuntimeChanges(r) ==
  /\ Move
  /\ \E s \in {"up", "down", "silent"} \ {status[r]} :
       status' = [status EXCEPT ![r] = s]
  /\ probe' = [probe EXCEPT !.steady = @ \ {r}]
  /\ UNCHANGED <<adapters, files, settings, next>>

\* getPreferredRuntime: an explicit preference, else the one configured,
\* else the default.
PreferredRuntime(explicit) ==
  IF explicit # NoRuntime THEN explicit
  ELSE IF ReadConfig.preferred # Unset THEN ReadConfig.preferred
  ELSE DefaultRuntime

\* What getAvailableRuntimes probes: all that are registered at that time.
ProbeAll(p) == [p EXCEPT !.pc = "all", !.entries = adapters,
                         !.pending = Range(adapters)]

SelectRuntime ==
  \E explicit \in {NoRuntime} \cup Ids :
    /\ probe.pc \in {"idle", "done"}
    /\ Move
    /\ LET id == PreferredRuntime(explicit)
           p == [NoProbe EXCEPT !.preferred = id,
                                !.steady = {r \in Range(adapters) :
                                              status[r] = "up"}]
       IN probe' = IF id \in Range(adapters)
                   THEN [p EXCEPT !.pc = "preferred", !.pending = {id}]
                   ELSE ProbeAll(p)
    /\ UNCHANGED <<adapters, status, files, settings, next>>

\* The probe of the preferred runtime: it wins when it is available, and
\* otherwise everything is probed.
PreferredSettles(answer) ==
  /\ probe.pc = "preferred"
  /\ probe' = IF answer = "yes"
              THEN [probe EXCEPT !.pc = "done", !.pending = {},
                                 !.result = probe.preferred]
              ELSE ProbeAll([probe EXCEPT
                     !.late = IF answer = "timeout" THEN {probe.preferred}
                              ELSE {}])

\* One of the concurrent probes settles.
OneSettles(r, answer) ==
  /\ probe.pc = "all" /\ r \in probe.pending
  /\ probe' = [probe EXCEPT
                 !.pending = @ \ {r},
                 !.yes = IF answer = "yes" THEN @ \cup {r} ELSE @,
                 !.late = IF answer = "timeout" THEN @ \cup {r} ELSE @]

ProbeAnswers(r) ==
  /\ status[r] # "silent"
  /\ LET answer == IF status[r] = "up" THEN "yes" ELSE "no" IN
       \/ r = probe.preferred /\ PreferredSettles(answer)
       \/ OneSettles(r, answer)
  /\ UNCHANGED <<adapters, status, files, settings, next, moves>>

\* Mutant: only the probe of the preferred runtime has a timer.
ProbeTimesOutMutant(r) ==
  /\ r = probe.preferred /\ PreferredSettles("timeout")
  /\ UNCHANGED <<adapters, status, files, settings, next, moves>>

ProbeTimesOut(r) ==
  /\ \/ r = probe.preferred /\ PreferredSettles("timeout")
     \/ OneSettles(r, "timeout")
  /\ UNCHANGED <<adapters, status, files, settings, next, moves>>

Available(p) == {i \in DOMAIN p.entries : p.entries[i] \in p.yes}

\* Mutant: the last one registered.
FirstAvailableMutant(p) ==
  IF Available(p) = {} THEN NoRuntime
  ELSE p.entries[CHOOSE i \in Available(p) :
                   \A j \in Available(p) : j <= i]

\* The first that is available, in order of registration.
FirstAvailable(p) ==
  IF Available(p) = {} THEN NoRuntime
  ELSE p.entries[CHOOSE i \in Available(p) :
                   \A j \in Available(p) : i <= j]

\* The timers are unref'd: when nothing else is left to do, as when all that
\* is awaited are adapters that do not answer, the process ends without an
\* answer.  The next one starts with the runtimes that are built in.
ProcessExits ==
  /\ Probing /\ probe.pending # {}
  /\ \A r \in probe.pending : status[r] = "silent"
  /\ probe' = NoProbe
  /\ adapters' = Runtimes
  /\ UNCHANGED <<status, files, settings, next, moves>>

SelectionEndsNow ==
  /\ probe.pc = "all" /\ probe.pending = {}
  /\ probe' = [probe EXCEPT !.pc = "done", !.result = FirstAvailable(probe)]
  /\ UNCHANGED <<adapters, status, files, settings, next, moves>>

-----------------------------------------------------------------------------
Init ==
  /\ overrides \in {f \in OverrideFiles : f.kind = "absent"}
  /\ repo \in Repositories
  /\ config = File("absent", Empty)
  /\ toggler = Idle /\ selector = Idle
  /\ next = NotAsked
  /\ adapters = Runtimes
  /\ status = [r \in Ids |-> "up"]
  /\ probe = NoProbe
  /\ moves = 0
  /\ wanted = Empty /\ disturbed = FALSE

Commands ==
  \/ EnforceReads \/ EnforceRenames
  \/ SelectReads \/ SelectReadsAgain \/ SelectTruncates \/ SelectWrites
  \/ WriterDies \/ EditConfig
  \/ EditOverrides \/ EditRepository
  \/ NextLoads \/ NextReadsDefaults \/ NextResolves

Next ==
  \/ Commands
  \/ SelectRuntime \/ SelectionEndsNow \/ ProcessExits
  \/ \E r \in Ids : \/ Register(r) \/ Deregister(r) \/ RuntimeChanges(r)
                    \/ ProbeAnswers(r) \/ ProbeTimesOut(r)

\* A selection goes on: the timers of its probes fire, and its code runs,
\* unless the process ends first (ProcessExits is a step of its own and has
\* no fairness).  Nothing is assumed of the adapters.
Fairness == /\ WF_vars(SelectionEndsNow)
            /\ \A r \in Ids : WF_vars(ProbeTimesOut(r))

Spec == Init /\ [][Next]_vars /\ Fairness

-----------------------------------------------------------------------------
\* An override can take a resolution away in two ways only, both of which
\* the repository asks for by name: by replacing the resolvers of the
\* capability, or by redefining a provider.  Adding resolvers, capabilities
\* or providers never does, whatever conditions hold (mergeLocalOverrides).
LossIsDeclared ==
  Usable(Base, overrides) =>
    \A n \in DOMAIN Base.capabilities :
      LET doc == overrides.doc
          before == {Base.capabilities[n].resolvers[i].provider :
                       i \in Eligible(Base, n, Satisfied)}
      IN \/ before = {}
         \/ Eligible(Load(Base, overrides), n, Satisfied) # {}
         \/ n \in DOMAIN doc.capabilities
            /\ doc.capabilities[n].mode = "replace"
         \/ before \subseteq DOMAIN doc.providers

\* The registry with these resolvers alone for the capability.
Only(reg, n, resolvers) ==
  [reg EXCEPT !.capabilities[n].resolvers = resolvers]

\* Of the resolvers of n that qualify in the one registry, some is of no
\* worse priority than any that qualifies in the other.
Outranks(reg, other, n, satisfied) ==
  \E i \in Eligible(reg, n, satisfied) :
    \A j \in Eligible(other, n, satisfied) :
      Resolvers(reg, n)[i].priority <= Resolvers(other, n)[j].priority

\* Resolvers that a repository adds to a capability answer for it as they
\* would alone when one that qualifies is of no worse priority than any of
\* the base's; otherwise the base's answer stands as without them.  So the
\* merge decides nothing but ties, whatever conditions hold and however the
\* providers are redefined (mergeLocalOverrides, resolveCapability).
PrependedAnswersFirst ==
  overrides.kind = "document" /\ Usable(Base, overrides) =>
    \A n \in DOMAIN Base.capabilities \cap DOMAIN overrides.doc.capabilities :
      LET local == overrides.doc.capabilities[n]
          reg == Load(Base, overrides)
          own == Only(reg, n, local.resolvers)
          base == Only(reg, n, Base.capabilities[n].resolvers)
      IN local.mode # "replace" =>
           ResolveCapability(reg, n, Satisfied) =
             ResolveCapability(IF Outranks(own, base, n, Satisfied)
                               THEN own ELSE base, n, Satisfied)

\* The two writers of config.json preserve each other's keys and the
\* user's, unless they overlap or one dies in the middle of its write; and
\* `state next` applies the execution defaults unless it reads right then.
SettingsAddUp ==
  ~disturbed =>
    /\ ~Writing => ReadConfig = wanted
    /\ next.pc \in {"defaults", "answered"} /\ next.read # "torn" =>
         next.execution = next.expected

\* A runtime that was registered and up all through a selection, and whose
\* timer did not overtake its answer, is passed over only for the preferred
\* runtime or for one registered before it; and when it is the preferred
\* one, it is selected.
SelectionIsJustified ==
  probe.pc = "done" =>
    LET sound == probe.steady \ probe.late IN
    /\ probe.preferred \in sound => probe.result = probe.preferred
    /\ probe.result # probe.preferred =>
         \A i \in DOMAIN probe.entries :
           probe.entries[i] \in sound =>
             \E j \in 1..i : probe.entries[j] = probe.result

\* A selection ends, or the process it runs in, though an adapter may accept
\* its probe and never answer (the timers of selectRuntime and
\* getAvailableRuntimes).
SelectionEnds == Probing ~> ~Probing
=============================================================================
