---------------------------- MODULE RoutingProofs ----------------------------
(***************************************************************************)
(* For every registry, every set of override files and any number of       *)
(* runtimes: overrides take no resolution away that they do not name, what *)
(* they prepend decides nothing but ties, the writers of config.json       *)
(* preserve each other's keys, and a selection passes over no runtime that *)
(* was there.  That a selection ends is left to TLC.                       *)
(***************************************************************************)
EXTENDS Routing, WellFoundedInduction, TLAPS

-----------------------------------------------------------------------------
(* The registry.                                                           *)

\* Every set of natural numbers that is not empty has a least element.
LEMMA Least ==
  ASSUME NEW S \in SUBSET Nat, S # {}
  PROVE  \E x \in S : \A y \in S : x <= y
<1> DEFINE Below == OpToRel(<, Nat)
<1>1. IsWellFoundedOn(Below, Nat)
  BY NatLessThanWellFounded
<1>2. \A x, y \in Nat : y < x => <<y, x>> \in Below
  BY DEF OpToRel
<1> HIDE DEF Below
<1>3. PICK x \in S : \A y \in S : ~(<<y, x>> \in Below)
  BY <1>1, WFMin
<1>4. \A y \in S : ~(y < x)
  BY <1>2, <1>3
<1> QED
  BY <1>4

\* A resolver of the base that qualifies still does after a merge that
\* neither replaces the capability's resolvers nor redefines its provider.
LEMMA MergeKeeps ==
  ASSUME NEW doc, NEW n \in DOMAIN Base.capabilities, NEW sat,
         NEW i \in Eligible(Base, n, sat),
         Base.capabilities[n].resolvers[i].provider
           \notin DOMAIN doc.providers,
         n \in DOMAIN doc.capabilities
           => /\ doc.capabilities[n].mode # "replace"
              /\ doc.capabilities[n].resolvers
                   \in Seq(Range(doc.capabilities[n].resolvers))
  PROVE  Eligible(Merge(Base, doc), n, sat) # {}
<1> DEFINE base == Base.capabilities[n].resolvers
           reg == Merge(Base, doc)
           p == base[i].provider
<1>1. /\ base \in Seq(Range(base))
      /\ i \in DOMAIN base
      /\ p \in DOMAIN Base.providers
      /\ IsProviderAvailable(Base.providers[p], sat)
      /\ IsResolverEligible(base[i], sat)
  BY ResolversAssumption DEF Eligible, Resolvers
<1>2. /\ p \in DOMAIN reg.providers
      /\ reg.providers[p] = Base.providers[p]
  BY <1>1 DEF Merge, MergedProviders
<1>3. /\ n \in DOMAIN reg.capabilities
      /\ n \notin DOMAIN doc.capabilities
           => reg.capabilities[n].resolvers = base
      /\ n \in DOMAIN doc.capabilities
           => reg.capabilities[n].resolvers
                = doc.capabilities[n].resolvers \o base
  BY DEF Merge, Overridden
<1>4. PICK j \in DOMAIN reg.capabilities[n].resolvers :
        reg.capabilities[n].resolvers[j] = base[i]
  <2>1. CASE n \notin DOMAIN doc.capabilities
    BY <1>1, <1>3, <2>1
  <2>2. CASE n \in DOMAIN doc.capabilities
    <3> DEFINE own == doc.capabilities[n].resolvers
    <3>1. /\ own \in Seq(Range(own))
          /\ reg.capabilities[n].resolvers = own \o base
      BY <1>3, <2>2
    <3> HIDE DEF own, base
    <3>2. \E j \in DOMAIN (own \o base) : (own \o base)[j] = base[i]
      <4>1. /\ Len(own) \in Nat /\ Len(base) \in Nat
            /\ i \in 1 .. Len(base)
            /\ own \in Seq(Range(own) \cup Range(base))
            /\ base \in Seq(Range(own) \cup Range(base))
        BY <1>1, <3>1
      <4>2. /\ Len(own) + i \in DOMAIN (own \o base)
            /\ (own \o base)[Len(own) + i] = base[i]
        BY <4>1
      <4> QED
        BY <4>2
    <3> QED
      BY <3>1, <3>2
  <2> QED
    BY <2>1, <2>2
<1>5. j \in Eligible(reg, n, sat)
  BY <1>1, <1>2, <1>3, <1>4 DEF Eligible, Resolvers
<1> QED
  BY <1>5

\* The override in force is one of the files there may be.
LEMMA OverridesKnown == Spec => [](overrides \in OverrideFiles)
<1>1. Init => overrides \in OverrideFiles
  BY DEF Init
<1>2. overrides \in OverrideFiles /\ [Next]_vars
        => (overrides \in OverrideFiles)'
  BY DEF Next, Commands, vars, files, settings, runtimes,
        EnforceReads, EnforceRenames, SelectReads, SelectReadsAgain,
        SelectTruncates, SelectWrites, WriterDies, EditConfig,
        EditOverrides, EditRepository, NextLoads, NextReadsDefaults,
        NextResolves, SelectRuntime, SelectionEndsNow,
        ProcessExits,
        Register, Deregister, RuntimeChanges, ProbeAnswers, ProbeTimesOut
<1> QED
  BY <1>1, <1>2, PTL DEF Spec

\* An override takes a resolution away only by replacing the resolvers of
\* the capability or by redefining a provider of it.
THEOREM LossesAreDeclared == Spec => []LossIsDeclared
<1>1. overrides \in OverrideFiles => LossIsDeclared
  <2> SUFFICES ASSUME overrides \in OverrideFiles,
                      NEW n \in DOMAIN Base.capabilities,
                      ~(n \in DOMAIN overrides.doc.capabilities
                        /\ overrides.doc.capabilities[n].mode = "replace"),
                      NEW i \in Eligible(Base, n, Satisfied),
                      Base.capabilities[n].resolvers[i].provider
                        \notin DOMAIN overrides.doc.providers
               PROVE  Eligible(Load(Base, overrides), n, Satisfied) # {}
    BY DEF LossIsDeclared
  <2>1. CASE overrides.kind = "absent"
    BY <2>1 DEF Load
  <2>2. CASE overrides.kind # "absent"
    BY <2>2, MergeKeeps, ResolversAssumption DEF Load
  <2> QED
    BY <2>1, <2>2
<1> QED
  BY <1>1, OverridesKnown, PTL

\* Resolvers with priorities that are numbers.
Ranked(rs) ==
  rs \in Seq(Range(rs)) /\ \A i \in DOMAIN rs : rs[i].priority \in Nat

Best(rs, able, i) == i \in able /\ \A j \in able : Preferred(rs, i, j)

AnswerOf(r) ==
  [provider |-> r.provider, command |-> r.command,
   role |-> IF r.role = Unset THEN "worker" ELSE r.role]

\* Of some resolvers that qualify one is preferred to all.
LEMMA SomeIsBest ==
  ASSUME NEW rs, Ranked(rs), NEW able \in SUBSET DOMAIN rs, able # {}
  PROVE  \E i \in able : \A j \in able : Preferred(rs, i, j)
<1> DEFINE ranks == {rs[i].priority : i \in able}
<1>1. ranks \in SUBSET Nat /\ ranks # {}
  BY DEF Ranked
<1>2. PICK p \in ranks : \A q \in ranks : p <= q
  <2> HIDE DEF ranks
  <2> QED
    BY <1>1, Least
<1> DEFINE first == {i \in able : rs[i].priority = p}
<1>3. first \in SUBSET Nat /\ first # {}
  BY <1>2 DEF Ranked
<1>4. PICK i \in first : \A j \in first : i <= j
  <2> HIDE DEF first
  <2> QED
    BY <1>3, Least
<1>5. ASSUME NEW j \in able PROVE Preferred(rs, i, j)
  <2>1. p <= rs[j].priority /\ rs[i].priority = p
    BY <1>2, <1>4
  <2>2. rs[j].priority \in Nat /\ p \in Nat
    BY <1>1, <1>2 DEF Ranked
  <2>3. rs[j].priority = p => i <= j
    BY <1>4
  <2> QED
    BY <2>1, <2>2, <2>3 DEF Preferred
<1> QED
  BY <1>4, <1>5

\* The one that is preferred to all that qualify is the answer.
LEMMA BestAnswers ==
  ASSUME NEW reg, NEW n, NEW sat, NEW rs, NEW able,
         Resolvers(reg, n) = rs, Ranked(rs),
         Eligible(reg, n, sat) = able, able \in SUBSET DOMAIN rs,
         NEW i, Best(rs, able, i)
  PROVE  ResolveCapability(reg, n, sat) = AnswerOf(rs[i])
<1> DEFINE best == CHOOSE b \in able : \A j \in able : Preferred(rs, b, j)
<1>1. /\ i \in able /\ \A j \in able : Preferred(rs, i, j)
      /\ best \in able /\ \A j \in able : Preferred(rs, best, j)
  BY DEF Best
<1>2. best = i
  <2> HIDE DEF best
  <2>1. /\ rs[i].priority \in Nat /\ rs[best].priority \in Nat
        /\ i \in Nat /\ best \in Nat
    BY <1>1 DEF Ranked
  <2>2. Preferred(rs, best, i) /\ Preferred(rs, i, best)
    BY <1>1
  <2> QED
    BY <2>1, <2>2 DEF Preferred
<1>3. ResolveCapability(reg, n, sat) = AnswerOf(rs[best])
  BY <1>1 DEF ResolveCapability, AnswerOf
<1> QED
  BY <1>2, <1>3

\* What comes before the resolvers of the base decides nothing but ties.
LEMMA MergeDecidesTies ==
  ASSUME NEW reg, NEW n \in DOMAIN reg.capabilities, NEW sat,
         NEW mine, NEW theirs, Ranked(mine), Ranked(theirs),
         reg.capabilities[n] =
           [shaped |-> TRUE,
            description |-> reg.capabilities[n].description,
            resolvers |-> mine \o theirs],
         reg = [shaped |-> reg.shaped, providers |-> reg.providers,
                capabilities |-> reg.capabilities],
         reg.capabilities = [c \in DOMAIN reg.capabilities |->
                               reg.capabilities[c]]
  PROVE  LET own == Only(reg, n, mine)
             base == Only(reg, n, theirs)
         IN ResolveCapability(reg, n, sat) =
              ResolveCapability(IF Outranks(own, base, n, sat)
                                THEN own ELSE base, n, sat)
<1> DEFINE own == Only(reg, n, mine)
           base == Only(reg, n, theirs)
           rs == mine \o theirs
           Qualifies(r) == /\ r.provider \in DOMAIN reg.providers
                           /\ IsProviderAvailable(reg.providers[r.provider],
                                                  sat)
                           /\ IsResolverEligible(r, sat)
<1>1. /\ reg.capabilities[n].resolvers = rs
      /\ n \in DOMAIN own.capabilities /\ n \in DOMAIN base.capabilities
      /\ own.capabilities[n].resolvers = mine
      /\ base.capabilities[n].resolvers = theirs
      /\ own.providers = reg.providers /\ base.providers = reg.providers
  BY DEF Only
<1> DEFINE l == Len(mine)
<1>2. /\ l \in Nat /\ Len(theirs) \in Nat
      /\ DOMAIN mine = 1..l /\ DOMAIN theirs = 1..Len(theirs)
      /\ DOMAIN rs = 1..(l + Len(theirs))
      /\ \A i \in DOMAIN mine : rs[i] = mine[i]
      /\ \A j \in DOMAIN theirs : rs[l + j] = theirs[j]
  <2>1. /\ mine \in Seq(Range(mine) \cup Range(theirs))
        /\ theirs \in Seq(Range(mine) \cup Range(theirs))
    BY DEF Ranked
  <2> QED
    BY <2>1
<1>3. rs \in Seq(Range(rs))
  <2>1. rs \in Seq(Range(mine) \cup Range(theirs))
    <3>1. /\ mine \in Seq(Range(mine) \cup Range(theirs))
          /\ theirs \in Seq(Range(mine) \cup Range(theirs))
      BY DEF Ranked
    <3> QED
      BY <3>1
  <2> HIDE DEF rs
  <2>2. Len(rs) \in Nat /\ DOMAIN rs = 1..Len(rs)
        /\ rs = [i \in 1..Len(rs) |-> rs[i]]
    BY <2>1
  <2>3. \A i \in DOMAIN rs : rs[i] \in Range(rs)
    BY DEF Range
  <2> QED
    BY <2>2, <2>3
<1> HIDE DEF rs, l
<1>4. /\ \A i \in DOMAIN mine : i \in DOMAIN rs
      /\ \A j \in DOMAIN theirs : l + j \in DOMAIN rs
      /\ \A k \in DOMAIN rs :
           k \in DOMAIN mine \/ \E j \in DOMAIN theirs : k = l + j
  <2>1. ASSUME NEW k \in DOMAIN rs, k \notin DOMAIN mine
        PROVE  \E j \in DOMAIN theirs : k = l + j
    <3>1. k - l \in DOMAIN theirs /\ k = l + (k - l)
      BY <1>2, <2>1
    <3> QED
      BY <3>1
  <2> QED
    BY <1>2, <2>1
<1>5. Ranked(rs)
  <2>1. ASSUME NEW k \in DOMAIN rs PROVE rs[k].priority \in Nat
    <3>1. CASE k \in DOMAIN mine
      BY <1>2, <3>1 DEF Ranked
    <3>2. ASSUME NEW j \in DOMAIN theirs, k = l + j
          PROVE  rs[k].priority \in Nat
      BY <1>2, <3>2 DEF Ranked
    <3> QED
      BY <1>4, <3>1, <3>2
  <2> QED
    BY <1>3, <2>1 DEF Ranked
<1>6. /\ Eligible(reg, n, sat) = {k \in DOMAIN rs : Qualifies(rs[k])}
      /\ Eligible(own, n, sat) = {i \in DOMAIN mine : Qualifies(mine[i])}
      /\ Eligible(base, n, sat) =
           {j \in DOMAIN theirs : Qualifies(theirs[j])}
      /\ Resolvers(reg, n) = rs
      /\ Resolvers(own, n) = mine /\ Resolvers(base, n) = theirs
  BY <1>1 DEF Eligible, Resolvers
<1> DEFINE E == Eligible(reg, n, sat)
           EO == Eligible(own, n, sat)
           EB == Eligible(base, n, sat)
<1> HIDE DEF own, base, Qualifies
<1>7. /\ E \in SUBSET DOMAIN rs
      /\ EO \in SUBSET DOMAIN mine /\ EB \in SUBSET DOMAIN theirs
      /\ \A i \in EO : i \in E
      /\ \A j \in EB : l + j \in E
      /\ \A k \in E : k \in EO \/ \E j \in EB : k = l + j
  <2>1. \A i \in EO : i \in E
    BY <1>2, <1>4, <1>6
  <2>2. \A j \in EB : l + j \in E
    BY <1>2, <1>4, <1>6
  <2>3. ASSUME NEW k \in E PROVE k \in EO \/ \E j \in EB : k = l + j
    <3>1. k \in DOMAIN rs /\ Qualifies(rs[k])
      BY <1>6
    <3>2. CASE k \in DOMAIN mine
      BY <1>2, <1>6, <3>1, <3>2
    <3>3. ASSUME NEW j \in DOMAIN theirs, k = l + j PROVE j \in EB
      BY <1>2, <1>6, <3>1, <3>3
    <3> QED
      BY <1>4, <3>1, <3>2, <3>3
  <2> QED
    BY <1>6, <2>1, <2>2, <2>3
<1>8. Outranks(own, base, n, sat) <=>
        \E i \in EO : \A j \in EB : mine[i].priority <= theirs[j].priority
  BY <1>6 DEF Outranks
<1>a. /\ Eligible(reg, n, sat) = E /\ Eligible(own, n, sat) = EO
      /\ Eligible(base, n, sat) = EB
      /\ Resolvers(reg, n) = rs
      /\ Resolvers(own, n) = mine /\ Resolvers(base, n) = theirs
      /\ Ranked(mine) /\ Ranked(theirs)
  BY <1>6
<1> HIDE DEF E, EO, EB
<1>b. /\ E \in SUBSET DOMAIN rs /\ EO \in SUBSET DOMAIN mine
      /\ EB \in SUBSET DOMAIN theirs
  BY <1>7
<1>9. /\ \A i \in EO : /\ i \in Nat /\ i <= l /\ rs[i] = mine[i]
                       /\ mine[i].priority \in Nat
      /\ \A j \in EB : /\ j \in Nat /\ j >= 1 /\ rs[l + j] = theirs[j]
                       /\ theirs[j].priority \in Nat
  BY <1>2, <1>7 DEF Ranked
<1>10. CASE Outranks(own, base, n, sat)
  <2>1. PICK i \in EO :
          \A j \in EB : mine[i].priority <= theirs[j].priority
    BY <1>8, <1>10
  <2>2. PICK b \in EO : \A k \in EO : Preferred(mine, b, k)
    BY <1>7, <2>1, SomeIsBest
  <2>3. ASSUME NEW k \in E PROVE Preferred(rs, b, k)
    <3>1. CASE k \in EO
      BY <1>9, <2>2, <3>1 DEF Preferred
    <3>2. ASSUME NEW j \in EB, k = l + j PROVE Preferred(rs, b, k)
      <4>1. mine[b].priority <= mine[i].priority
        BY <1>9, <2>2 DEF Preferred
      <4>2. mine[b].priority <= theirs[j].priority
        BY <1>9, <2>1, <4>1
      <4>3. /\ b \in Nat /\ b <= l /\ j \in Nat /\ j >= 1 /\ l \in Nat
            /\ rs[b] = mine[b] /\ rs[k] = theirs[j]
            /\ mine[b].priority \in Nat /\ theirs[j].priority \in Nat
        BY <1>2, <1>9, <3>2
      <4> QED
        BY <3>2, <4>2, <4>3 DEF Preferred
    <3> QED
      BY <1>7, <3>1, <3>2
  <2>4. ResolveCapability(reg, n, sat) = AnswerOf(rs[b])
    <3>1. Best(rs, E, b)
      BY <1>7, <2>3 DEF Best
    <3> QED
      BY <1>a, <1>b, <1>5, <3>1, BestAnswers
  <2>5. ResolveCapability(own, n, sat) = AnswerOf(mine[b])
    <3>1. Best(mine, EO, b)
      BY <2>2 DEF Best
    <3> QED
      BY <1>a, <1>b, <3>1, BestAnswers
  <2> QED
    BY <1>9, <1>10, <2>4, <2>5 DEF own, base
<1>11. CASE ~Outranks(own, base, n, sat) /\ EB # {}
  <2>1. PICK b \in EB : \A k \in EB : Preferred(theirs, b, k)
    BY <1>7, <1>11, SomeIsBest
  <2>2. ASSUME NEW k \in E PROVE Preferred(rs, l + b, k)
    <3>1. CASE k \in EO
      <4>1. PICK j \in EB : ~(mine[k].priority <= theirs[j].priority)
        BY <1>8, <1>11, <3>1
      <4>2. theirs[b].priority <= theirs[j].priority
        BY <1>9, <2>1 DEF Preferred
      <4>3. theirs[b].priority < mine[k].priority
        BY <1>9, <3>1, <4>1, <4>2
      <4> QED
        BY <1>9, <3>1, <4>3 DEF Preferred
    <3>2. ASSUME NEW j \in EB, k = l + j PROVE Preferred(rs, l + b, k)
      <4>1. Preferred(theirs, b, j)
        BY <2>1
      <4>2. /\ b \in Nat /\ j \in Nat /\ l \in Nat
            /\ rs[l + b] = theirs[b] /\ rs[k] = theirs[j]
            /\ theirs[b].priority \in Nat /\ theirs[j].priority \in Nat
        BY <1>2, <1>9, <3>2
      <4> QED
        BY <3>2, <4>1, <4>2 DEF Preferred
    <3> QED
      BY <1>7, <3>1, <3>2
  <2>3. ResolveCapability(reg, n, sat) = AnswerOf(rs[l + b])
    <3>1. Best(rs, E, l + b)
      BY <1>7, <2>2 DEF Best
    <3> QED
      BY <1>a, <1>b, <1>5, <3>1, BestAnswers
  <2>4. ResolveCapability(base, n, sat) = AnswerOf(theirs[b])
    <3>1. Best(theirs, EB, b)
      BY <2>1 DEF Best
    <3> QED
      BY <1>a, <1>b, <3>1, BestAnswers
  <2> QED
    BY <1>9, <1>11, <2>3, <2>4 DEF own, base
<1>12. CASE ~Outranks(own, base, n, sat) /\ EB = {}
  <2>1. EO = {} /\ E = {}
    BY <1>7, <1>8, <1>12
  <2>2. /\ ResolveCapability(reg, n, sat) = NoResolver
        /\ ResolveCapability(base, n, sat) = NoResolver
    BY <1>12, <2>1 DEF ResolveCapability, E, EB
  <2> QED
    BY <1>12, <2>2 DEF own, base
<1> QED
  BY <1>10, <1>11, <1>12

\* What a repository prepends answers first when it is of no worse priority,
\* and changes nothing otherwise.
THEOREM PrependingDecidesTies == Spec => []PrependedAnswersFirst
<1>1. overrides \in OverrideFiles => PrependedAnswersFirst
  <2> DEFINE doc == overrides.doc
  <2> SUFFICES ASSUME overrides \in OverrideFiles,
                      overrides.kind = "document",
                      NEW n \in DOMAIN Base.capabilities
                                  \cap DOMAIN doc.capabilities,
                      doc.capabilities[n].mode # "replace"
               PROVE  LET reg == Load(Base, overrides)
                          own == Only(reg, n, doc.capabilities[n].resolvers)
                          base == Only(reg, n,
                                       Base.capabilities[n].resolvers)
                      IN ResolveCapability(reg, n, Satisfied) =
                           ResolveCapability(
                             IF Outranks(own, base, n, Satisfied)
                             THEN own ELSE base, n, Satisfied)
    BY DEF PrependedAnswersFirst
  <2> DEFINE mine == doc.capabilities[n].resolvers
             theirs == Base.capabilities[n].resolvers
             reg == Load(Base, overrides)
  <2>1. Ranked(mine) /\ Ranked(theirs)
    BY ResolversAssumption DEF Ranked
  <2>2. reg = Merge(Base, doc)
    BY DEF Load
  <2>3. /\ n \in DOMAIN reg.capabilities
        /\ reg.capabilities[n] =
             [shaped |-> TRUE,
              description |-> reg.capabilities[n].description,
              resolvers |-> mine \o theirs]
        /\ reg = [shaped |-> reg.shaped, providers |-> reg.providers,
                  capabilities |-> reg.capabilities]
        /\ reg.capabilities = [c \in DOMAIN reg.capabilities |->
                                 reg.capabilities[c]]
    <3>1. n \in DOMAIN reg.capabilities
      BY <2>2 DEF Merge
    <3>2. reg.capabilities[n] =
            Overridden(Base.capabilities[n], doc.capabilities[n])
      BY <2>2 DEF Merge
    <3>3. reg.capabilities[n] =
            [shaped |-> TRUE,
             description |-> reg.capabilities[n].description,
             resolvers |-> mine \o theirs]
      <4> HIDE DEF reg, doc
      <4> QED
        BY <3>2 DEF Overridden
    <3>4. /\ reg = [shaped |-> reg.shaped, providers |-> reg.providers,
                    capabilities |-> reg.capabilities]
          /\ reg.capabilities = [c \in DOMAIN reg.capabilities |->
                                   reg.capabilities[c]]
      BY <2>2 DEF Merge
    <3> QED
      BY <3>1, <3>3, <3>4
  <2> HIDE DEF reg, mine, theirs
  <2>4. LET own == Only(reg, n, mine)
            base == Only(reg, n, theirs)
        IN ResolveCapability(reg, n, Satisfied) =
             ResolveCapability(IF Outranks(own, base, n, Satisfied)
                               THEN own ELSE base, n, Satisfied)
    BY <2>1, <2>3, MergeDecidesTies
  <2> QED
    BY <2>4 DEF reg, mine, theirs
<1> QED
  BY <1>1, OverridesKnown, PTL

-----------------------------------------------------------------------------
(* The writers of config.json.                                             *)

Kinds == {"absent", "torn", "document"}

SettingsTyped ==
  /\ config \in [kind : Kinds, doc : Documents]
  /\ toggler \in [pc : {"idle", "read"}, doc : Documents,
                  value : {Unset, "on", "off"}]
  /\ selector \in [pc : {"idle", "part", "document", "writing"},
                   doc : Documents, value : {Unset} \cup Ids]
  /\ wanted \in Documents
  /\ disturbed \in BOOLEAN

\* The inductive invariant: of two writers that do not overlap, the one
\* under way holds what is wanted, changed by its own setting.
OneWriter ==
  /\ toggler.pc = "idle" \/ selector.pc = "idle"
  /\ IF selector.pc = "writing" THEN config.kind = "torn"
     ELSE ReadConfig = wanted
  /\ toggler.pc = "read" =>
       toggler.doc = [wanted EXCEPT !.enforce = toggler.value]
  /\ selector.pc # "idle" =>
       selector.doc = [wanted EXCEPT !.preferred = selector.value]

DefaultsApplied ==
  next.pc \in {"defaults", "answered"} /\ next.read # "torn" =>
    next.execution = next.expected

SettingsInv ==
  /\ SettingsTyped
  /\ DOMAIN next = DOMAIN NotAsked
  /\ ~disturbed => OneWriter /\ DefaultsApplied

\* The document that is read is one, and changing one key of it gives one.
LEMMA ReadIsDocument ==
  ASSUME SettingsTyped
  PROVE  /\ ReadConfig \in Documents
         /\ \A v \in {"on", "off"} :
              [ReadConfig EXCEPT !.enforce = v] \in Documents
         /\ \A id \in Ids :
              [ReadConfig EXCEPT !.preferred = id] \in Documents
         /\ [ReadConfig EXCEPT !.execution = "set"] \in Documents
<1>1. ReadConfig \in Documents
  BY DEF SettingsTyped, ReadConfig, Empty, Documents
<1> HIDE DEF ReadConfig
<1> QED
  BY <1>1 DEF Documents

\* The writers, their death and the user keep the invariant.
LEMMA WritersKeep ==
  ASSUME SettingsInv,
         \/ EnforceReads \/ EnforceRenames
         \/ SelectReads \/ SelectReadsAgain
         \/ SelectTruncates \/ SelectWrites
         \/ WriterDies \/ EditConfig
  PROVE  SettingsInv'
<1> USE DEF SettingsInv
<1>a. /\ Idle \in [pc : {"idle", "read"}, doc : Documents,
                   value : {Unset, "on", "off"}]
      /\ Idle \in [pc : {"idle", "part", "document", "writing"},
                   doc : Documents, value : {Unset} \cup Ids]
      /\ Idle.pc = "idle"
  BY DEF Idle, Empty, Documents
<1>n. next' = next
  BY DEF EnforceReads, EnforceRenames, SelectReads, SelectReadsAgain,
         SelectTruncates, SelectWrites, WriterDies, EditConfig
<1>d. DefaultsApplied' <=> DefaultsApplied
  BY <1>n DEF DefaultsApplied
<1>e. ASSUME NEW d \in Documents, NEW k \in Kinds
      PROVE  File(k, d) \in [kind : Kinds, doc : Documents]
             /\ File(k, d).kind = k /\ File(k, d).doc = d
  BY DEF File
<1>1. CASE EnforceReads
  <2>1. PICK v \in {"on", "off"} :
          /\ toggler.pc = "idle"
          /\ toggler' = [pc |-> "read", value |-> v,
                         doc |-> [ReadConfig EXCEPT !.enforce = v]]
          /\ disturbed' = (disturbed \/ Writing)
          /\ UNCHANGED <<config, selector, wanted>>
    BY <1>1 DEF EnforceReads
  <2>2. SettingsTyped'
    BY <2>1, ReadIsDocument DEF SettingsTyped
  <2>3. ASSUME ~disturbed' PROVE OneWriter'
    <3>1. ~disturbed /\ ~Writing
      BY <2>1, <2>3
    <3>2. ReadConfig = wanted /\ ReadConfig' = ReadConfig
      BY <2>1, <3>1 DEF OneWriter, Writing, ReadConfig
    <3> QED
      BY <2>1, <3>1, <3>2 DEF OneWriter, Writing
  <2> QED
    BY <1>d, <1>n, <2>1, <2>2, <2>3
<1>2. CASE EnforceRenames
  <2>1. SettingsTyped'
    BY <1>2, <1>a, <1>e DEF EnforceRenames, SettingsTyped, Documents, Kinds
  <2>2. ASSUME ~disturbed' PROVE OneWriter'
    BY <1>2, <1>a, <1>e, <2>2
    DEF EnforceRenames, OneWriter, SettingsTyped, ReadConfig, Kinds
  <2> QED
    BY <1>2, <1>d, <1>n, <2>1, <2>2 DEF EnforceRenames
<1>3. CASE SelectReads
  <2>1. PICK id \in Ids :
          /\ selector.pc = "idle"
          /\ selector' = [pc |-> "part", value |-> id,
                          doc |-> [ReadConfig EXCEPT !.preferred = id]]
          /\ disturbed' = (disturbed \/ Writing)
          /\ UNCHANGED <<config, toggler, wanted>>
    BY <1>3 DEF SelectReads
  <2>2. SettingsTyped'
    BY <2>1, ReadIsDocument DEF SettingsTyped
  <2>3. ASSUME ~disturbed' PROVE OneWriter'
    <3>1. ~disturbed /\ ~Writing
      BY <2>1, <2>3
    <3>2. ReadConfig = wanted /\ ReadConfig' = ReadConfig
      BY <2>1, <3>1 DEF OneWriter, Writing, ReadConfig
    <3> QED
      BY <2>1, <3>1, <3>2 DEF OneWriter, Writing
  <2> QED
    BY <1>d, <1>n, <2>1, <2>2, <2>3
<1>4. CASE SelectReadsAgain
  <2>0. PICK e : e = ReadConfig.enforce
    OBVIOUS
  <2>1. /\ selector.pc = "part"
        /\ selector' = [selector EXCEPT !.pc = "document",
                                        !.doc.enforce = e]
        /\ UNCHANGED <<config, toggler, wanted, disturbed>>
    BY <1>4, <2>0 DEF SelectReadsAgain
  <2>2. e \in {Unset, "on", "off"}
    BY <2>0, ReadIsDocument DEF Documents
  <2>3. SettingsTyped'
    <3>1. [selector.doc EXCEPT !.enforce = e] \in Documents
      BY <2>2 DEF SettingsTyped, Documents
    <3>2. selector' = [pc |-> "document", value |-> selector.value,
                       doc |-> [selector.doc EXCEPT !.enforce = e]]
      BY <2>1 DEF SettingsTyped
    <3> HIDE DEF SettingsInv
    <3> QED
      BY <2>1, <3>1, <3>2 DEF SettingsTyped, SettingsInv
  <2>4. ASSUME ~disturbed' PROVE OneWriter'
    <3>1. ~disturbed /\ OneWriter
      BY <2>1, <2>4
    <3>2. e = wanted.enforce /\ ReadConfig' = ReadConfig
      BY <2>0, <2>1, <3>1 DEF OneWriter, ReadConfig
    <3>3. selector'.doc = [wanted EXCEPT !.preferred = selector.value]
      BY <2>1, <3>1, <3>2 DEF OneWriter, SettingsTyped, Documents
    <3> QED
      BY <2>1, <3>1, <3>2, <3>3 DEF OneWriter, SettingsTyped
  <2> QED
    BY <1>d, <1>n, <2>1, <2>3, <2>4
<1>5. CASE SelectTruncates
  <2>1. Empty \in Documents
    BY DEF Empty, Documents
  <2>2. SettingsTyped'
    BY <1>5, <1>e, <2>1 DEF SelectTruncates, SettingsTyped, Kinds
  <2>3. ASSUME ~disturbed' PROVE OneWriter'
    BY <1>5, <1>e, <2>1, <2>3
    DEF SelectTruncates, SettingsTyped, OneWriter, Kinds
  <2> QED
    BY <1>5, <1>d, <1>n, <2>2, <2>3 DEF SelectTruncates
<1>6. CASE SelectWrites
  <2>1. SettingsTyped'
    BY <1>6, <1>a, <1>e DEF SelectWrites, SettingsTyped, Documents, Kinds
  <2>2. ASSUME ~disturbed' PROVE OneWriter'
    BY <1>6, <1>a, <1>e, <2>2
    DEF SelectWrites, OneWriter, SettingsTyped, ReadConfig, Kinds
  <2> QED
    BY <1>6, <1>d, <1>n, <2>1, <2>2 DEF SelectWrites
<1>7. CASE WriterDies
  <2>1. /\ \/ toggler' = Idle /\ UNCHANGED selector
           \/ selector' = Idle /\ UNCHANGED toggler
        /\ disturbed' = (disturbed \/ config.kind = "torn")
        /\ UNCHANGED <<config, wanted>>
    BY <1>7 DEF WriterDies
  <2>2. SettingsTyped'
    BY <2>1, <1>a DEF SettingsTyped
  <2>3. ASSUME ~disturbed' PROVE OneWriter'
    <3>1. ~disturbed /\ config.kind # "torn" /\ ReadConfig' = ReadConfig
      BY <2>1, <2>3 DEF ReadConfig
    <3> QED
      BY <1>a, <2>1, <3>1 DEF OneWriter, SettingsTyped
  <2> QED
    BY <1>d, <1>n, <2>1, <2>2, <2>3
<1>8. CASE EditConfig
  <2>0. PICK d : d = ReadConfig
    OBVIOUS
  <2>1. /\ ~Writing
        /\ config' = File("document", [d EXCEPT !.execution = "set"])
        /\ wanted' = [wanted EXCEPT !.execution = "set"]
        /\ UNCHANGED <<toggler, selector, disturbed>>
    BY <1>8, <2>0 DEF EditConfig
  <2>2. SettingsTyped'
    BY <2>0, <2>1, <1>e, ReadIsDocument
    DEF SettingsTyped, Documents, Kinds
  <2>3. ASSUME ~disturbed' PROVE OneWriter'
    <3>1. ~Writing /\ d = wanted
      BY <2>0, <2>1, <2>3 DEF OneWriter, Writing
    <3> QED
      BY <2>1, <3>1, <1>e, <2>0, ReadIsDocument
      DEF OneWriter, Writing, ReadConfig, Kinds, File
  <2> QED
    BY <1>d, <1>n, <2>1, <2>2, <2>3
<1> QED
  BY <1>1, <1>2, <1>3, <1>4, <1>5, <1>6, <1>7, <1>8

\* The inductive invariant holds in every state.
LEMMA SettingsInvariant == Spec => []SettingsInv
<1>1. Init => SettingsInv
  <2> SUFFICES ASSUME Init PROVE SettingsInv
    OBVIOUS
  <2>1. Empty \in Documents
    BY DEF Empty, Documents
  <2>2. SettingsTyped
    BY <2>1 DEF Init, SettingsTyped, Idle, File, Kinds
  <2>3. OneWriter
    BY <2>1 DEF Init, OneWriter, Idle, File, ReadConfig
  <2>4. DOMAIN next = DOMAIN NotAsked /\ DefaultsApplied
    BY DEF Init, DefaultsApplied, NotAsked
  <2> QED
    BY <2>2, <2>3, <2>4 DEF SettingsInv
<1>2. SettingsInv /\ [Next]_vars => SettingsInv'
  <2> SUFFICES ASSUME SettingsInv, [Next]_vars PROVE SettingsInv'
    OBVIOUS
  <2>1. CASE UNCHANGED settings
    <3>0. /\ UNCHANGED <<config, toggler, selector, wanted, disturbed>>
          /\ ReadConfig' = ReadConfig
      BY <2>1 DEF settings, ReadConfig
    <3>1. SettingsTyped' /\ (OneWriter' <=> OneWriter)
      BY <3>0 DEF SettingsInv, SettingsTyped, OneWriter
    <3>2. CASE UNCHANGED next
      BY <3>0, <3>1, <3>2 DEF SettingsInv, DefaultsApplied
    <3>3. CASE NextLoads
      <4>1. /\ DOMAIN next' = DOMAIN NotAsked
            /\ next'.pc \in {"loaded", "failed"}
        BY <3>3 DEF NextLoads, NotAsked
      <4> QED
        BY <4>1, <3>0, <3>1 DEF SettingsInv, DefaultsApplied
    <3>4. CASE NextReadsDefaults
      <4>1. /\ DOMAIN next' = DOMAIN NotAsked
            /\ next'.execution = ReadConfig.execution
            /\ next'.expected = wanted.execution
            /\ next'.read = config.kind
        BY <3>4 DEF NextReadsDefaults, SettingsInv, NotAsked
      <4>2. ~disturbed /\ config.kind # "torn" => ReadConfig = wanted
        BY DEF SettingsInv, OneWriter
      <4> QED
        BY <4>1, <4>2, <3>0, <3>1 DEF SettingsInv, DefaultsApplied
    <3>5. CASE NextResolves
      <4>1. /\ DOMAIN next' = DOMAIN NotAsked
            /\ next.pc = "defaults"
            /\ next'.execution = next.execution
            /\ next'.expected = next.expected
            /\ next'.read = next.read
        BY <3>5 DEF NextResolves, SettingsInv, NotAsked
      <4> QED
        BY <4>1, <3>0, <3>1 DEF SettingsInv, DefaultsApplied
    <3> QED
      BY <3>2, <3>3, <3>4, <3>5
      DEF Next, Commands, vars, runtimes,
          EnforceReads, EnforceRenames, SelectReads, SelectReadsAgain,
          SelectTruncates, SelectWrites, WriterDies, EditConfig,
          EditOverrides, EditRepository, SelectRuntime, SelectionEndsNow,
        ProcessExits,
          Register, Deregister, RuntimeChanges, ProbeAnswers, ProbeTimesOut
  <2> QED
    BY <2>1, WritersKeep
    DEF Next, Commands, vars, EditOverrides, EditRepository, NextLoads,
        NextReadsDefaults, NextResolves, SelectRuntime, SelectionEndsNow,
        ProcessExits,
        Register, Deregister, RuntimeChanges, ProbeAnswers, ProbeTimesOut
<1> QED
  BY <1>1, <1>2, PTL DEF Spec

\* Unless two writers overlap or one dies in the middle of its write, the
\* settings add up, and `state next` applies the execution defaults.
THEOREM SettingsKept == Spec => []SettingsAddUp
<1>1. SettingsInv => SettingsAddUp
  BY DEF SettingsInv, SettingsAddUp, OneWriter, DefaultsApplied, Writing,
         SettingsTyped
<1> QED
  BY <1>1, SettingsInvariant, PTL

-----------------------------------------------------------------------------
(* A selection.                                                            *)

\* The first available runtime is not registered after any available one.
LEMMA FirstIsFirst ==
  ASSUME NEW p, p.entries \in Seq(Ids),
         NEW i \in DOMAIN p.entries, p.entries[i] \in p.yes
  PROVE  \E j \in 1..i : p.entries[j] = FirstAvailable(p)
<1>1. i \in Available(p) /\ Available(p) \in SUBSET Nat
  BY DEF Available
<1> DEFINE k == CHOOSE k \in Available(p) : \A j \in Available(p) : k <= j
<1>2. k \in Available(p) /\ k <= i
  BY <1>1, Least
<1>3. k \in DOMAIN p.entries
  BY <1>2 DEF Available
<1>4. k \in 1..i /\ p.entries[k] = FirstAvailable(p)
  BY <1>1, <1>2, <1>3 DEF FirstAvailable
<1> QED
  BY <1>4

Probes == [pc : {"idle", "preferred", "all", "done"},
           preferred : Ids \cup {NoRuntime}, entries : Seq(Ids),
           pending : SUBSET Ids, yes : SUBSET Ids,
           result : Ids \cup {NoRuntime},
           steady : SUBSET Ids, late : SUBSET Ids]

\* The inductive invariant: every runtime that is steady is up, and when
\* all are probed it is still pending, has answered yes or was too late;
\* the preferred runtime is then none that answered in time.
AllProbed ==
  /\ probe.preferred \notin probe.steady \ probe.late
  /\ \A i \in DOMAIN probe.entries :
       probe.entries[i] \in probe.steady =>
         probe.entries[i] \in probe.pending \cup probe.yes \cup probe.late

SelectionInv ==
  /\ probe \in Probes
  /\ adapters \in Seq(Ids)
  /\ status \in [Ids -> {"up", "down", "silent"}]
  /\ \A r \in probe.steady : status[r] = "up"
  /\ probe.pc = "all" => AllProbed
  /\ SelectionIsJustified

\* What depends on the probe alone is kept while the probe is, and while
\* only its steady runtimes become fewer.
LEMMA FewerSteady ==
  ASSUME SelectionInv, NEW R \in SUBSET Ids,
         probe' = [probe EXCEPT !.steady = @ \ R]
  PROVE  /\ probe' \in Probes
         /\ (probe.pc = "all" => AllProbed)'
         /\ SelectionIsJustified'
<1>1. probe' \in Probes /\ probe'.steady = probe.steady \ R
      /\ probe'.pc = probe.pc /\ probe'.preferred = probe.preferred
      /\ probe'.entries = probe.entries /\ probe'.pending = probe.pending
      /\ probe'.yes = probe.yes /\ probe'.late = probe.late
      /\ probe'.result = probe.result
  BY DEF SelectionInv, Probes
<1>2. (probe.pc = "all" => AllProbed)'
  BY <1>1 DEF SelectionInv, AllProbed
<1>3. SelectionIsJustified'
  BY <1>1 DEF SelectionInv, SelectionIsJustified
<1> QED
  BY <1>1, <1>2, <1>3

\* Probing all that are registered is justified when the preferred runtime
\* is not steady or was too late.
LEMMA ProbingAll ==
  ASSUME SelectionInv, NEW p \in Probes, probe' = ProbeAll(p),
         p.preferred \notin p.steady \ p.late
  PROVE  /\ probe' \in Probes
         /\ (probe.pc = "all" => AllProbed)'
         /\ SelectionIsJustified'
         /\ probe'.steady = p.steady
<1>1. \A i \in DOMAIN adapters : adapters[i] \in Range(adapters)
  BY DEF Range
<1>2. Range(adapters) \in SUBSET Ids
  BY DEF SelectionInv, Range
<1>3. /\ probe' \in Probes
      /\ probe'.pc = "all"
      /\ probe'.preferred = p.preferred /\ probe'.steady = p.steady
      /\ probe'.late = p.late /\ probe'.entries = adapters
      /\ probe'.pending = Range(adapters)
  BY <1>2 DEF ProbeAll, Probes, SelectionInv
<1> QED
  BY <1>1, <1>3 DEF AllProbed, SelectionIsJustified

\* The probe of the preferred runtime settles: with a yes it is selected,
\* and it says no or is timed out only when it is not steady or too late.
LEMMA PreferredKeeps ==
  ASSUME SelectionInv, NEW answer \in {"yes", "no", "timeout"},
         PreferredSettles(answer), probe.preferred \in Ids,
         answer = "no" => probe.preferred \notin probe.steady,
         UNCHANGED <<adapters, status>>
  PROVE  SelectionInv'
<1>1. CASE answer = "yes"
  <2>1. /\ probe' \in Probes
        /\ probe'.pc = "done" /\ probe'.result = probe'.preferred
        /\ probe'.steady = probe.steady
    BY <1>1 DEF PreferredSettles, SelectionInv, Probes
  <2> QED
    BY <2>1 DEF SelectionInv, SelectionIsJustified
<1>2. CASE answer # "yes"
  <2> DEFINE p == [probe EXCEPT !.late = IF answer = "timeout"
                                         THEN {probe.preferred} ELSE {}]
  <2>1. /\ p \in Probes
        /\ p.preferred \notin p.steady \ p.late
        /\ p.steady = probe.steady
    BY <1>2 DEF SelectionInv, Probes
  <2>2. probe' = ProbeAll(p)
    BY <1>2 DEF PreferredSettles
  <2> HIDE DEF p
  <2> QED
    BY <2>1, <2>2, ProbingAll DEF SelectionInv
<1> QED
  BY <1>1, <1>2

\* One of the concurrent probes settles; no steady runtime says no.
LEMMA OneKeeps ==
  ASSUME SelectionInv, NEW r \in Ids,
         NEW answer \in {"yes", "no", "timeout"},
         OneSettles(r, answer),
         answer = "no" => r \notin probe.steady,
         UNCHANGED <<adapters, status>>
  PROVE  SelectionInv'
<1>1. /\ probe' \in Probes /\ probe'.pc = "all"
      /\ probe'.steady = probe.steady /\ probe'.entries = probe.entries
      /\ probe'.preferred = probe.preferred
      /\ probe'.pending = probe.pending \ {r}
      /\ probe'.yes = IF answer = "yes" THEN probe.yes \cup {r}
                      ELSE probe.yes
      /\ probe'.late = IF answer = "timeout" THEN probe.late \cup {r}
                       ELSE probe.late
  BY ZenonT(30) DEF OneSettles, SelectionInv, Probes
<1>2. AllProbed
  BY DEF OneSettles, SelectionInv
<1>3. AllProbed'
  BY <1>1, <1>2 DEF AllProbed
<1> QED
  BY <1>1, <1>3 DEF SelectionInv, SelectionIsJustified

\* Removing one adapter leaves a sequence of the others.
LEMMA RemovedIsSequence ==
  ASSUME adapters \in Seq(Ids), NEW i \in DOMAIN adapters
  PROVE  RemoveAt(adapters, i) \in Seq(Ids)
BY DEF RemoveAt

\* A selection starts with the runtimes that are registered and up.
LEMMA SelectKeeps ==
  ASSUME SelectionInv, SettingsInv, SelectRuntime
  PROVE  SelectionInv'
<1>1. PICK explicit \in {NoRuntime} \cup Ids :
        LET id == PreferredRuntime(explicit)
            p == [NoProbe EXCEPT !.preferred = id,
                                 !.steady = {r \in Range(adapters) :
                                               status[r] = "up"}]
        IN probe' = IF id \in Range(adapters)
                    THEN [p EXCEPT !.pc = "preferred", !.pending = {id}]
                    ELSE ProbeAll(p)
  BY DEF SelectRuntime
<1> DEFINE id == PreferredRuntime(explicit)
           up == {r \in Range(adapters) : status[r] = "up"}
           p == [NoProbe EXCEPT !.preferred = id, !.steady = up]
<1>2. id \in Ids
  <2>1. ReadConfig.preferred \in {Unset} \cup Ids
    BY ReadIsDocument DEF SettingsInv, Documents
  <2> QED
    BY <2>1, RuntimesAssumption DEF PreferredRuntime, Ids
<1>3. up \in SUBSET Ids /\ \A r \in up : status[r] = "up"
  BY DEF SelectionInv, Range
<1>4. UNCHANGED <<adapters, status>>
  BY DEF SelectRuntime
<1>5. probe' = IF id \in Range(adapters)
               THEN [p EXCEPT !.pc = "preferred", !.pending = {id}]
               ELSE ProbeAll(p)
  BY <1>1
<1>6. id \notin Range(adapters) => id \notin up
  OBVIOUS
<1> HIDE DEF id, up
<1>7. p \in Probes /\ p.preferred = id /\ p.steady = up
  <2>1. NoProbe \in Probes
    BY DEF NoProbe, Probes
  <2> QED
    BY <1>2, <1>3, <2>1 DEF Probes
<1>8. CASE id \in Range(adapters)
  <2>1. /\ probe' \in Probes
        /\ probe'.pc = "preferred" /\ probe'.steady = up
    BY <1>2, <1>5, <1>7, <1>8 DEF Probes
  <2> QED
    BY <2>1, <1>3, <1>4 DEF SelectionInv, SelectionIsJustified
<1>9. CASE id \notin Range(adapters)
  <2> HIDE DEF p
  <2>1. /\ probe' \in Probes
        /\ (probe.pc = "all" => AllProbed)'
        /\ SelectionIsJustified'
        /\ probe'.steady = up
    BY <1>5, <1>6, <1>7, <1>9, ProbingAll
  <2> QED
    BY <2>1, <1>3, <1>4 DEF SelectionInv
<1> QED
  BY <1>8, <1>9

\* A selection that ends takes the first of those that said yes, and every
\* steady runtime that was not too late is one of them.
LEMMA EndKeeps ==
  ASSUME SelectionInv, SelectionEndsNow
  PROVE  SelectionInv'
<1>1. FirstAvailable(probe) \in Ids \cup {NoRuntime}
  <2>1. CASE Available(probe) = {}
    BY <2>1 DEF FirstAvailable
  <2>2. CASE Available(probe) # {}
    <3>1. Available(probe) \in SUBSET Nat
      BY DEF Available, SelectionInv, Probes
    <3>2. \E k \in Available(probe) : \A j \in Available(probe) : k <= j
      BY <2>2, <3>1, Least
    <3> QED
      BY <2>2, <3>2 DEF FirstAvailable, Available, SelectionInv, Probes
  <2> QED
    BY <2>1, <2>2
<1>2. /\ probe' \in Probes /\ probe'.pc = "done"
      /\ probe'.steady = probe.steady /\ probe'.entries = probe.entries
      /\ probe'.preferred = probe.preferred /\ probe'.late = probe.late
      /\ probe'.result = FirstAvailable(probe)
  BY <1>1 DEF SelectionEndsNow, SelectionInv, Probes
<1>3. AllProbed /\ probe.pending = {} /\ UNCHANGED <<adapters, status>>
  BY DEF SelectionEndsNow, SelectionInv
<1>4. ASSUME NEW i \in DOMAIN probe.entries,
             probe.entries[i] \in probe.steady \ probe.late
      PROVE  \E j \in 1..i : probe.entries[j] = FirstAvailable(probe)
  <2>1. probe.entries[i] \in probe.yes
    BY <1>3, <1>4 DEF AllProbed
  <2>2. probe.entries \in Seq(Ids)
    BY DEF SelectionInv, Probes
  <2> QED
    BY <2>1, <2>2, FirstIsFirst
<1>5. SelectionIsJustified'
  BY <1>2, <1>3, <1>4 DEF SelectionIsJustified, AllProbed
<1> QED
  BY <1>2, <1>3, <1>5 DEF SelectionInv

\* The inductive invariant holds in every state.
LEMMA SelectionInvariant == Spec => []SelectionInv
<1>1. Init => SelectionInv
  <2> SUFFICES ASSUME Init PROVE SelectionInv
    OBVIOUS
  <2>1. adapters \in Seq(Ids) /\ status \in [Ids -> {"up", "down", "silent"}]
    BY RuntimesAssumption DEF Init, Ids
  <2>2. probe \in Probes /\ probe.steady = {} /\ probe.pc = "idle"
    BY DEF Init, NoProbe, Probes
  <2> QED
    BY <2>1, <2>2 DEF SelectionInv, SelectionIsJustified
<1>2. SelectionInv /\ SettingsInv /\ [Next]_vars => SelectionInv'
  <2> SUFFICES ASSUME SelectionInv, SettingsInv, [Next]_vars
               PROVE  SelectionInv'
    OBVIOUS
  <2>0. probe \in Probes /\ adapters \in Seq(Ids)
        /\ status \in [Ids -> {"up", "down", "silent"}]
        /\ \A r \in probe.steady : status[r] = "up"
    BY DEF SelectionInv
  <2>a. ASSUME NEW R \in SUBSET Ids,
               probe' = [probe EXCEPT !.steady = @ \ R]
        PROVE  probe'.steady = probe.steady \ R
    BY <2>a, <2>0 DEF Probes
  <2>1. CASE UNCHANGED runtimes
    BY <2>1 DEF runtimes, SelectionInv, AllProbed, SelectionIsJustified
  <2>2. CASE SelectRuntime
    BY <2>2, SelectKeeps
  <2>3. CASE SelectionEndsNow
    BY <2>3, EndKeeps
  <2>4. ASSUME NEW r \in Ids, Register(r) PROVE SelectionInv'
    <3>1. adapters' \in Seq(Ids) /\ UNCHANGED <<probe, status>>
      BY <2>0, <2>4 DEF Register
    <3> QED
      BY <3>1 DEF SelectionInv, AllProbed, SelectionIsJustified
  <2>5. ASSUME NEW r \in Ids, Deregister(r) PROVE SelectionInv'
    <3>1. adapters' \in Seq(Ids) /\ status' = status
      BY <2>0, <2>5, RemovedIsSequence DEF Deregister
    <3>2. probe' = [probe EXCEPT !.steady = @ \ {r}]
      BY <2>5 DEF Deregister
    <3>4. /\ probe' \in Probes
          /\ (probe.pc = "all" => AllProbed)'
          /\ SelectionIsJustified'
          /\ probe'.steady = probe.steady \ {r}
      BY <2>a, <3>2, FewerSteady
    <3> QED
      BY <2>0, <3>1, <3>4 DEF SelectionInv
  <2>6. ASSUME NEW r \in Ids, RuntimeChanges(r) PROVE SelectionInv'
    <3>1. /\ adapters' = adapters
          /\ status' \in [Ids -> {"up", "down", "silent"}]
          /\ \A q \in Ids \ {r} : status'[q] = status[q]
      BY <2>0, <2>6 DEF RuntimeChanges
    <3>2. probe' = [probe EXCEPT !.steady = @ \ {r}]
      BY <2>6 DEF RuntimeChanges
    <3>3. probe.steady \in SUBSET Ids
      BY <2>0 DEF Probes
    <3>4. /\ probe' \in Probes
          /\ (probe.pc = "all" => AllProbed)'
          /\ SelectionIsJustified'
          /\ probe'.steady = probe.steady \ {r}
      BY <2>a, <3>2, FewerSteady
    <3> QED
      BY <2>0, <3>1, <3>3, <3>4 DEF SelectionInv
  <2>7. ASSUME NEW r \in Ids, ProbeAnswers(r) PROVE SelectionInv'
    <3> DEFINE answer == IF status[r] = "up" THEN "yes" ELSE "no"
    <3>1. /\ UNCHANGED <<adapters, status>>
          /\ answer \in {"yes", "no", "timeout"}
          /\ answer = "no" => r \notin probe.steady
          /\ \/ r = probe.preferred /\ PreferredSettles(answer)
             \/ OneSettles(r, answer)
      BY <2>0, <2>7 DEF ProbeAnswers
    <3> HIDE DEF answer
    <3> QED
      BY <3>1, PreferredKeeps, OneKeeps
  <2>8. ASSUME NEW r \in Ids, ProbeTimesOut(r) PROVE SelectionInv'
    <3>1. /\ UNCHANGED <<adapters, status>>
          /\ \/ r = probe.preferred /\ PreferredSettles("timeout")
             \/ OneSettles(r, "timeout")
      BY <2>8 DEF ProbeTimesOut
    <3> QED
      BY <3>1, PreferredKeeps, OneKeeps
  <2>9. CASE ProcessExits
    <3>1. /\ NoProbe \in Probes /\ NoProbe.steady = {}
          /\ NoProbe.pc = "idle"
      BY DEF NoProbe, Probes
    <3>2. probe' = NoProbe /\ status' = status /\ adapters' \in Seq(Ids)
      BY <2>9, RuntimesAssumption DEF ProcessExits, Ids
    <3> QED
      BY <2>0, <3>1, <3>2 DEF SelectionInv, SelectionIsJustified
  <2> QED
    BY <2>1, <2>2, <2>3, <2>4, <2>5, <2>6, <2>7, <2>8, <2>9
    DEF Next, Commands, vars,
        EnforceReads, EnforceRenames, SelectReads, SelectReadsAgain,
        SelectTruncates, SelectWrites, WriterDies, EditConfig,
        EditOverrides, EditRepository, NextLoads, NextReadsDefaults,
        NextResolves
<1> QED
  BY <1>1, <1>2, SettingsInvariant, PTL DEF Spec

\* A selection passes over no runtime that was there and answered in time,
\* except for one it prefers.
THEOREM SelectionsAreJustified == Spec => []SelectionIsJustified
BY SelectionInvariant, PTL DEF SelectionInv
=============================================================================
