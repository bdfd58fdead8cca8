---------------------------- MODULE Capabilities ----------------------------
(***************************************************************************)
(* The capability registry: the checks of src/capabilities/schema.js, the  *)
(* conditions of src/capabilities/conditions.js, and the loading, merging  *)
(* and resolving of src/capabilities/registry.js.  Pure operators; the     *)
(* files they are applied to are the state of Routing.                     *)
(*                                                                         *)
(* A field that is not given is Unset, one of a wrong type or blank is     *)
(* Bad.  `shaped` says that a node is an object with allowed fields only.  *)
(* A priority is a number: 0 stands for what is no positive integer, and   *)
(* Infinity for a priority that is not given, as the sort treats it.  An   *)
(* absent `roles` reads as every role; only the check looks at it.         *)
(***************************************************************************)
EXTENDS Naturals, Sequences

Unset == "unset"
Bad == "bad"
Infinity == 99
Roles == {"coordinator", "worker"}

Text(x) == x \notin {Unset, Bad}

-----------------------------------------------------------------------------
(* schema.js *)

ResolverOK(r) ==
  /\ r.shaped
  /\ Text(r.provider) /\ Text(r.command)
  /\ r.priority >= 1
  /\ r.when # Bad
  /\ r.role \in Roles \cup {Unset}

ProviderOK(p) ==
  /\ p.shaped
  /\ p.type \in {"skill-pack", "builtin"}
  /\ p.required \in {"true", "false"}
  /\ p.install # Bad /\ p.when # Bad
  /\ p.roles # {} /\ p.roles \subseteq Roles

CapabilityOK(c, ids) ==
  /\ c.shaped
  /\ Text(c.description)
  /\ \A i \in DOMAIN c.resolvers : /\ ResolverOK(c.resolvers[i])
                                   /\ c.resolvers[i].provider \in ids

LocalCapabilityOK(c) ==
  /\ c.shaped
  /\ c.description # Bad
  /\ c.mode \in {Unset, "prepend", "replace"}
  /\ \A i \in DOMAIN c.resolvers : ResolverOK(c.resolvers[i])

RegistryOK(doc) ==
  /\ doc.shaped
  /\ \A id \in DOMAIN doc.providers : ProviderOK(doc.providers[id])
  /\ \A n \in DOMAIN doc.capabilities :
       CapabilityOK(doc.capabilities[n], DOMAIN doc.providers)

\* The providers of a local file may be those of the base registry: who
\* they are is checked after the merge.
OverridesOK(doc) ==
  /\ doc.shaped
  /\ \A id \in DOMAIN doc.providers : ProviderOK(doc.providers[id])
  /\ \A n \in DOMAIN doc.capabilities : LocalCapabilityOK(doc.capabilities[n])

-----------------------------------------------------------------------------
(* registry.js: merging and loading *)

MergedProviders(base, over) ==
  [id \in DOMAIN base.providers \cup DOMAIN over.providers |->
     IF id \in DOMAIN over.providers THEN over.providers[id]
     ELSE base.providers[id]]

Described(local, otherwise) ==
  IF local.description = Unset THEN otherwise ELSE local.description

\* Mutant: prepending forgets the resolvers of the base.
OverriddenMutant(base, local) ==
  [shaped |-> TRUE,
   description |-> Described(local, base.description),
   resolvers |-> local.resolvers]

\* Mutant: what is to come before the resolvers of the base comes after.
OverriddenAppendsMutant(base, local) ==
  [shaped |-> TRUE,
   description |-> Described(local, base.description),
   resolvers |-> IF local.mode = "replace" THEN local.resolvers
                 ELSE base.resolvers \o local.resolvers]

\* An override of a capability the base has: its resolvers come before the
\* base's, or instead of them.
Overridden(base, local) ==
  [shaped |-> TRUE,
   description |-> Described(local, base.description),
   resolvers |-> IF local.mode = "replace" THEN local.resolvers
                 ELSE local.resolvers \o base.resolvers]

\* One the base does not have.
Added(local) ==
  [shaped |-> TRUE,
   description |-> Described(local, "local override"),
   resolvers |-> local.resolvers]

Merge(base, over) ==
  [shaped |-> base.shaped,
   providers |-> MergedProviders(base, over),
   capabilities |->
     [n \in DOMAIN base.capabilities \cup DOMAIN over.capabilities |->
        IF n \notin DOMAIN over.capabilities THEN base.capabilities[n]
        ELSE IF n \notin DOMAIN base.capabilities
             THEN Added(over.capabilities[n])
             ELSE Overridden(base.capabilities[n], over.capabilities[n])]]

\* What is merged has to pass the checks of a full registry: only now are
\* the providers of both sides known.
MergesWell(base, over) == RegistryOK(Merge(base, over))

\* What loading answers to a local file: the base when there is no file, an
\* error ("the file is broken, or does not merge") or the merged registry.
Usable(base, file) ==
  \/ file.kind = "absent"
  \/ /\ file.kind = "document"
     /\ OverridesOK(file.doc)
     /\ MergesWell(base, file.doc)

Load(base, file) ==
  IF file.kind = "absent" THEN base ELSE Merge(base, file.doc)

-----------------------------------------------------------------------------
(* registry.js: resolving, in the presence of a set of satisfied conditions *)

IsProviderAvailable(p, satisfied) ==
  \/ p.required = "true"
  \/ p.when \in satisfied

IsResolverEligible(r, satisfied) == r.when = Unset \/ r.when \in satisfied

Resolvers(reg, name) ==
  IF name \in DOMAIN reg.capabilities THEN reg.capabilities[name].resolvers
  ELSE <<>>

\* The positions of the resolvers that qualify.
Eligible(reg, name, satisfied) ==
  LET rs == Resolvers(reg, name) IN
  {i \in DOMAIN rs :
     /\ rs[i].provider \in DOMAIN reg.providers
     /\ IsProviderAvailable(reg.providers[rs[i].provider], satisfied)
     /\ IsResolverEligible(rs[i], satisfied)}

\* The sort by priority is stable: among equals the first declared wins.
Preferred(rs, i, j) ==
  \/ rs[i].priority < rs[j].priority
  \/ rs[i].priority = rs[j].priority /\ i <= j

NoResolver == [provider |-> Unset, command |-> Unset, role |-> Unset]

ResolveCapability(reg, name, satisfied) ==
  LET rs == Resolvers(reg, name)
      able == Eligible(reg, name, satisfied)
      best == CHOOSE i \in able : \A j \in able : Preferred(rs, i, j)
  IN IF able = {} THEN NoResolver
     ELSE [provider |-> rs[best].provider, command |-> rs[best].command,
           role |-> IF rs[best].role = Unset THEN "worker"
                    ELSE rs[best].role]

-----------------------------------------------------------------------------
(* conditions.js.  A repository is its files, and the dependencies and     *)
(* scripts of its package.json, which may not parse.  A dependency is      *)
(* "marked" when its name begins with one of the markers.                  *)

\* A package.json that cannot be parsed counts as one that says nothing.
BuildContext(repo) ==
  IF repo.parses THEN repo
  ELSE [repo EXCEPT !.dependencies = {}, !.scripts = {}]

DocsExist(repo) ==
  \/ {"CONTEXT.md", "docs/adr"} \cap repo.files # {}
  \/ {"docs", "docs/*.md"} \subseteq repo.files

VueNuxtViteEcosystem(repo) == "marked" \in repo.dependencies

HasTests(repo) ==
  \/ {"tests", "test", "__tests__"} \cap repo.files # {}
  \/ {"test", "spec"} \cap repo.scripts # {}

HasTypescript(repo) ==
  {"tsconfig.json", "tsconfig.base.json"} \cap repo.files # {}

HasPython(repo) ==
  {"pyproject.toml", "requirements.txt", "setup.py"} \cap repo.files # {}

PnpmWorkspace(repo) ==
  {"pnpm-workspace.yaml", "pnpm-workspace.yml"} \cap repo.files # {}

EvaluateAll(repo) ==
  {c \in {"docs-exist", "vue-nuxt-vite-ecosystem", "has-tests",
          "has-typescript", "has-python", "pnpm-workspace"} :
     CASE c = "docs-exist" -> DocsExist(repo)
       [] c = "vue-nuxt-vite-ecosystem" -> VueNuxtViteEcosystem(repo)
       [] c = "has-tests" -> HasTests(repo)
       [] c = "has-typescript" -> HasTypescript(repo)
       [] c = "has-python" -> HasPython(repo)
       [] c = "pnpm-workspace" -> PnpmWorkspace(repo)}
=============================================================================
