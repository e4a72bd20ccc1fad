------------------------------ MODULE Registry ------------------------------
(* The provider registry of dontlie/registry.py: an ordered list of         *)
(* providers, the first of which whose glob matches a model attests it.     *)
(* A glob is the set of models it matches.                                  *)
EXTENDS Sequences, Naturals

Provider(name, glob, attestable) == [name |-> name, glob |-> glob, attestable |-> attestable]

\* default_registry(): providers of one model family each, then the ones that
\* host any model, then local servers, which attest nothing.
DefaultRegistry(family, all) ==
  <<Provider("openai", family, TRUE), Provider("groq", all, TRUE),
    Provider("local", all, FALSE)>>

NamesIn(registry) == {registry[j].name : j \in DOMAIN registry}

\* Which provider is asked before which: the first that matches attests.
OrderIn(registry) ==
  {<<registry[p[1]].name, registry[p[2]].name>> :
     p \in {q \in (DOMAIN registry) \X (DOMAIN registry) : q[1] <= q[2]}}

\* load(): a file that is missing or cannot be parsed is an empty registry.
LoadRegistry(file, unreadable) == IF file \in unreadable THEN <<>> ELSE file

\* add: a known name keeps its place, a new one goes to the end.
AddProvider(registry, p) ==
  IF p.name \in NamesIn(registry)
  THEN [j \in DOMAIN registry |-> IF registry[j].name = p.name THEN p ELSE registry[j]]
  ELSE Append(registry, p)
=============================================================================
