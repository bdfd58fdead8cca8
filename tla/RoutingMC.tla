------------------------------ MODULE RoutingMC ------------------------------
(* Instances of Routing: the shape of the shipped registry, and the kinds  *)
(* of override files that the checks and the merge tell apart.             *)
EXTENDS Routing

Provider(required, when) ==
  [shaped |-> TRUE, type |-> "skill-pack", required |-> required,
   install |-> Unset, when |-> when, roles |-> Roles]
Resolver(provider, command, priority, when) ==
  [shaped |-> TRUE, provider |-> provider, command |-> command,
   priority |-> priority, when |-> when, role |-> Unset]
Capability(resolvers) ==
  [shaped |-> TRUE, description |-> "text", resolvers |-> resolvers]
Local(mode, resolvers) ==
  [shaped |-> TRUE, description |-> Unset, mode |-> mode,
   resolvers |-> resolvers]

MCBase ==
  [shaped |-> TRUE,
   providers |-> [mp |-> Provider("true", Unset),
                  antfu |-> Provider("false", "vue-nuxt-vite-ecosystem")],
   capabilities |->
     [implementation |->
        Capability(<<Resolver("mp", "implement", 1, Unset)>>),
      scaffold |-> Capability(<<Resolver("antfu", "vite", 1, Unset)>>)]]

NoProviders == [id \in {} |-> Unset]
Document(providers, capabilities) ==
  [kind |-> "document",
   doc |-> [shaped |-> TRUE, providers |-> providers,
            capabilities |-> capabilities]]

Plain(kind) ==
  [kind |-> kind, doc |-> Document(NoProviders, NoProviders).doc]

MCOverrideFiles ==
  { Plain("absent"), Plain("broken"),
    \* a resolver before the base's, for repositories with Python
    Document(NoProviders,
             [implementation |->
                Local(Unset,
                      <<Resolver("mp", "py", Infinity, "has-python")>>)]),
    \* the same with the priority of the base's resolver
    Document(NoProviders,
             [implementation |->
                Local("prepend",
                      <<Resolver("mp", "py", 1, "has-python")>>)]),
    \* the same capability taken over by the optional provider
    Document(NoProviders,
             [implementation |->
                Local("replace", <<Resolver("antfu", "vue", 1, Unset)>>)]),
    \* a provider redefined as an optional one
    Document([mp |-> Provider("false", "has-tests")],
             [deploy |-> Local(Unset, <<Resolver("mp", "ship", 2, Unset)>>)]),
    \* a provider nobody defines
    Document(NoProviders,
             [implementation |->
                Local(Unset, <<Resolver("ghost", "x", 1, Unset)>>)]),
    \* a priority that is no positive integer
    Document(NoProviders,
             [implementation |->
                Local(Unset, <<Resolver("mp", "x", 0, Unset)>>)]) }

\* The first one's package.json does not parse.
Repository(paths, parses) ==
  [files |-> paths, dependencies |-> {"marked"}, scripts |-> {"test"},
   parses |-> parses]
MCRepositories ==
  { Repository({"docs", "setup.py"}, FALSE), Repository({"tests"}, TRUE) }

MCRuntimes == <<"claude-code", "opencode", "daytona">>
=============================================================================
