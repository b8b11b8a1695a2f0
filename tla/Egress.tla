------------------------------- MODULE Egress --------------------------------
(***************************************************************************)
(* The policy of the egress proxy, the only way from the Brain to the      *)
(* providers: the hosts of the packaged model catalog, if it is valid, and *)
(* the decision host (egress/src/policy.rs, egress/src/lib.rs).            *)
(*                                                                         *)
(* A host's name, an identifier, a title or a price is either valid or     *)
(* not.  How a tunnel is resolved, audited and spliced is external.        *)
(***************************************************************************)
EXTENDS Integers, FiniteSets, Sequences, SequencesExt

CONSTANT Setups  \* what the proxy may find as it starts

VARIABLE proxy   \* the hosts it admits; none while it does not listen

DECISION_HOSTS == {"jev"}

Named(items) == [i \in 1..Len(items) |-> items[i].id]
Distinct(items) == IsInjective(Named(items))

model_ids(models) ==
  IF /\ Len(models) \in 1..128 /\ Distinct(models)
     /\ \A i \in 1..Len(models) : models[i].valid
  THEN ToSet(Named(models)) ELSE {}

\* A provider of a catalog: closed, and its default is one of its models.
provider(p) == p.valid /\ p.default_model \in model_ids(p.models)

\* The catalog's hosts, or none when any part of it breaks a rule.
load_provider_hosts(catalog) ==
  IF /\ catalog.whole /\ catalog.schema = 1
     /\ Len(catalog.providers) \in 1..16 /\ Distinct(catalog.providers)
     /\ \A i \in 1..Len(catalog.providers) : provider(catalog.providers[i])
     /\ catalog.default_provider \in ToSet(Named(catalog.providers))
  THEN {catalog.providers[i].host : i \in 1..Len(catalog.providers)} ELSE {}

\* Policy, custody of the audit, listener: nothing listens unless all three hold.
start(setup) ==
  LET hosts == load_provider_hosts(setup.catalog)
  IN IF hosts # {} /\ setup.custody /\ setup.bound THEN hosts \cup DECISION_HOSTS ELSE {}

permitted(host) == host \in proxy

EgressInit == proxy \in {start(setup) : setup \in Setups}
=============================================================================
