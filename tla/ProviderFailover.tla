-------------------------- MODULE ProviderFailover --------------------------
(***************************************************************************)
(* One request of the Service class to its service providers:              *)
(* Service._provider_execute() (services/services.py).  Providers are      *)
(* tried one after another until enough have answered, or too many have    *)
(* failed.                                                                 *)
(***************************************************************************)
EXTENDS Naturals, Sequences, FiniteSets

CONSTANTS
  Provider,        \* entries of providers.json selected for the network
  Priority,        \* [Provider -> Nat]
  Unusable,        \* no url, no such method, or an api key is missing
  IgnorePriority,  \* is the order random?
  MinProviders, MaxProviders, MaxErrors

NProviders == Cardinality(Provider)

ASSUME FailoverAssumption ==
  /\ IsFiniteSet(Provider)
  /\ Provider # {}
  /\ Priority \in [Provider -> Nat]
  /\ Unusable \subseteq Provider
  /\ IgnorePriority \in BOOLEAN
  /\ MinProviders \in Nat \ {0} /\ MaxProviders \in Nat /\ MaxErrors \in Nat \ {0}
  /\ MinProviders <= MaxProviders

VARIABLES
  order,      \* provider_lst
  next,       \* position in it of the provider that is tried next
  results,    \* providers in Service.results, in order of insertion
  errors,     \* providers in Service.errors
  performed,  \* providers that have carried out the request at their side
  outcome     \* "running", "result", "false" (returned), "raised" (ServiceError)

vars == <<order, next, results, errors, performed, outcome>>

-----------------------------------------------------------------------------
Permutations == {q \in [1..NProviders -> Provider] : \A p \in Provider : \E i \in DOMAIN q : q[i] = p}

(* Slip: the sort is not reversed. *)
LowestFirst ==
  {q \in Permutations : \A i, j \in DOMAIN q : i <= j => Priority[q[i]] <= Priority[q[j]]}

(* By descending priority, equal priorities in random order. *)
Orders ==
  {q \in Permutations : IgnorePriority \/
     \A i, j \in DOMAIN q : i <= j => Priority[q[i]] >= Priority[q[j]]}

(* The loop goes on. *)
InLoop ==
  /\ outcome = "running"
  /\ next <= NProviders
  /\ Len(results) < MaxProviders

Current == order[next]

(* Slip: an error ends the request. *)
GiveUp(E) == TRUE

(* Checked after an exception, not after an empty answer. *)
TooManyErrors(E) == Cardinality(E) >= MaxErrors

-----------------------------------------------------------------------------
Init ==
  /\ order \in Orders
  /\ next = 1
  /\ results = <<>>
  /\ errors = {}
  /\ performed = {}
  /\ outcome = "running"

Skip ==
  /\ InLoop
  /\ Current \in Unusable
  /\ next' = next + 1
  /\ UNCHANGED <<order, results, errors, performed, outcome>>

Answer ==
  /\ InLoop
  /\ Current \notin Unusable
  /\ performed' = performed \cup {Current}
  /\ results' = Append(results, Current)
  /\ next' = next + 1
  /\ UNCHANGED <<order, errors, outcome>>

(* The client returns False: recorded, and the next provider is tried.      *)
EmptyAnswer ==
  /\ InLoop
  /\ Current \notin Unusable
  /\ errors' = errors \cup {Current}
  /\ next' = next + 1
  /\ UNCHANGED <<order, results, performed, outcome>>

(* The client raises, before or after the provider has done what was asked  *)
(* (a timeout); an AttributeError is not recorded.                          *)
Exception ==
  /\ InLoop
  /\ Current \notin Unusable
  /\ performed' \in {performed, performed \cup {Current}}
  /\ errors' \in {errors, errors \cup {Current}}
  /\ IF TooManyErrors(errors')
     THEN /\ outcome' = IF results # <<>> THEN "result" ELSE "false"
          /\ UNCHANGED next
     ELSE /\ next' = next + 1
          /\ UNCHANGED outcome
  /\ UNCHANGED <<order, results>>

(* The loop is done. *)
Return ==
  /\ outcome = "running"
  /\ ~InLoop
  /\ outcome' = IF results = <<>> THEN "raised" ELSE "result"
  /\ UNCHANGED <<order, next, results, errors, performed>>

Next == Skip \/ Answer \/ EmptyAnswer \/ Exception \/ Return

Spec == Init /\ [][Next]_vars

-----------------------------------------------------------------------------
TypeOK ==
  /\ order \in Orders
  /\ next \in 1..NProviders + 1
  /\ results \in Seq(Provider)
  /\ errors \subseteq Provider
  /\ performed \subseteq Provider
  /\ outcome \in {"running", "result", "false", "raised"}

(* Those that were tried, the unusable ones included. *)
Tried == {order[i] : i \in 1..(next - 1)}

Answered == {results[i] : i \in 1..Len(results)}

(* The answer that is returned comes from a provider that carried out the   *)
(* request, and whoever has a higher priority was tried before and failed.  *)
BestAnswer ==
  outcome = "result" =>
    /\ results # <<>>
    /\ results[1] \in performed
    /\ ~IgnorePriority =>
         \A p \in Provider : Priority[p] > Priority[results[1]] => p \in Tried \ Answered

(* A request is given up only if nobody answered: because everybody was     *)
(* tried, or because of max_errors errors.                                  *)
GivenUpLate ==
  /\ outcome = "raised" => results = <<>> /\ Tried = Provider
  /\ outcome = "false" => results = <<>> /\ Cardinality(errors) >= MaxErrors

(* min_providers is the minimum number of providers that answered.          *)
EnoughProviders == outcome = "result" => Len(results) >= MinProviders

(* What a provider carried out is not reported as a failure: send() updates *)
(* the outputs in the database when sending was successful.                 *)
PerformedIsReported == outcome \in {"raised", "false"} => performed = {}

(* With more than max_errors errors a request fails.                        *)
FailsAboveMax == Cardinality(errors) > MaxErrors => outcome # "result"

=============================================================================
