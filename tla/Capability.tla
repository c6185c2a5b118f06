----------------------------- MODULE Capability -----------------------------
(***************************************************************************)
(* capability/planner.rs, graph.rs and run.rs: run_with plans the order of *)
(* its providers, builds them, runs the application and calls the shutdown *)
(* hooks.  Provider i is the i-th argument.  It provides capability i,     *)
(* except where the graph says that two provide the same.  Capability 0 is *)
(* provided by nobody.                                                     *)
(***************************************************************************)
EXTENDS Naturals, Sequences, FiniteSets, SequencesExt

CONSTANTS CpCount,    \* the number of providers
          CpGraphs,   \* the graphs tried
          CpNeeds     \* what the application's environment is verified for

CpNodes == 1..CpCount

\* requires and optional are ProviderSpec::requires and optional_requires, provides
\* is the capability, and id is the provider id.
ASSUME CapabilityAssumption ==
  /\ CpCount \in Nat
  /\ CpGraphs \subseteq [requires : [CpNodes -> SUBSET (0..CpCount)],
                         optional : [CpNodes -> SUBSET (0..CpCount)],
                         provides : [CpNodes -> CpNodes], id : [CpNodes -> CpNodes]]
  /\ CpNeeds \subseteq SUBSET (0..CpCount)

VARIABLES cpgraph,
          cpneeds,
          cpat,       \* "plan", "sort", "build", "verify", "run", "stop", or a result
          cpdegree,   \* plan_topological: indegree
          cpqueue,    \* plan_topological: queue
          cporder,    \* plan_topological: order
          cpbuilt,    \* the providers built, in order
          cphooks,    \* the hooks still to be called, in order
          cpstopped   \* history: the providers shut down, in order

cpvars == <<cpgraph, cpneeds, cpat, cpdegree, cpqueue, cporder, cpbuilt, cphooks, cpstopped>>

CpResults == {"Ok", "EffectError", "Conflict", "Duplicate", "Missing", "Cycle", "BuildError",
              "CapabilityError"}

CapabilityTypeOK ==
  /\ cpgraph \in CpGraphs /\ cpneeds \in CpNeeds
  /\ cpat \in {"plan", "sort", "build", "verify", "run", "stop"} \cup CpResults
  /\ cpdegree \in [CpNodes -> Nat]
  /\ \A s \in {cpqueue, cporder, cpbuilt, cphooks, cpstopped} : s \in Seq(CpNodes)

CapabilityInit ==
  /\ cpgraph \in CpGraphs /\ cpneeds \in CpNeeds
  /\ cpat = "plan" /\ cpdegree = [n \in CpNodes |-> 0]
  /\ cpqueue = <<>> /\ cporder = <<>> /\ cpbuilt = <<>> /\ cphooks = <<>> /\ cpstopped = <<>>

CpProvided == {cpgraph.provides[n] : n \in CpNodes}

\* graph.rs, plan: an optional requirement that nobody provides is left out.
CpRequires(n) == {c \in cpgraph.requires[n] : c \in CpProvided \/ c \notin cpgraph.optional[n]}

\* The providers that n waits for; one that requires itself does not wait.
CpDeps(n) == {p \in CpNodes \ {n} : cpgraph.provides[p] \in CpRequires(n)}

CpTwice(f) == \E m, n \in CpNodes : m # n /\ f[m] = f[n]

\* check_provider_conflicts, then the checks of plan_topological in order.
CpReject(why) == /\ cpat = "plan"
                 /\ why = CASE CpTwice(cpgraph.provides) -> "Conflict"
                            [] CpTwice(cpgraph.id) -> "Duplicate"
                            [] \E n \in CpNodes : ~(CpRequires(n) \subseteq CpProvided) -> "Missing"
                            [] OTHER -> "none"
                 /\ cpat' = why
                 /\ UNCHANGED <<cpgraph, cpneeds, cpdegree, cpqueue, cporder, cpbuilt, cphooks, cpstopped>>

\* The edges and indegrees; the queue begins in the order of a hash map, which may be any.
CpStart == /\ cpat = "plan" /\ ~CpTwice(cpgraph.provides) /\ ~CpTwice(cpgraph.id)
           /\ \A n \in CpNodes : CpRequires(n) \subseteq CpProvided
           /\ cpdegree' = [n \in CpNodes |-> Cardinality(CpDeps(n))]
           /\ cpqueue' \in SetToSeqs({n \in CpNodes : CpDeps(n) = {}})
           /\ cpat' = "sort"
           /\ UNCHANGED <<cpgraph, cpneeds, cporder, cpbuilt, cphooks, cpstopped>>

\* The one sequence of the members of S in the order of the arguments.
CpByArgument(S) == {q \in SetToSeqs(S) : \A i, j \in DOMAIN q : i < j => q[i] < q[j]}

\* Faulty variant: a dependent is queued when it is met, ready or not.
CpShiftEarly ==
  LET n == Head(cpqueue)
      later == {m \in CpNodes : n \in CpDeps(m)}
  IN  /\ cpat = "sort" /\ cpqueue # <<>>
      /\ cporder' = Append(cporder, n)
      /\ cpdegree' = [m \in CpNodes |-> IF m \in later THEN 0 ELSE cpdegree[m]]
      /\ \E next \in CpByArgument({m \in later : cpdegree[m] > 0}) : cpqueue' = Tail(cpqueue) \o next
      /\ UNCHANGED <<cpgraph, cpneeds, cpat, cpbuilt, cphooks, cpstopped>>

\* One turn of the loop: the dependents of n are in the order of the arguments.
CpShift ==
  LET n == Head(cpqueue)
      later == {m \in CpNodes : n \in CpDeps(m)}
  IN  /\ cpat = "sort" /\ cpqueue # <<>>
      /\ cporder' = Append(cporder, n)
      /\ cpdegree' = [m \in CpNodes |-> IF m \in later THEN cpdegree[m] - 1 ELSE cpdegree[m]]
      /\ \E next \in CpByArgument({m \in later : cpdegree[m] = 1}) : cpqueue' = Tail(cpqueue) \o next
      /\ UNCHANGED <<cpgraph, cpneeds, cpat, cpbuilt, cphooks, cpstopped>>

CpSorted == /\ cpat = "sort" /\ cpqueue = <<>>
            /\ cpat' = IF Len(cporder) = CpCount THEN "build" ELSE "Cycle"
            /\ UNCHANGED <<cpgraph, cpneeds, cpdegree, cpqueue, cporder, cpbuilt, cphooks, cpstopped>>

\* build_from: the next provider in the order, which may fail.  The hooks were collected
\* before, in the order of the arguments; an error returns without calling any.
CpBuild(ok) ==
  /\ cpat = "build" /\ Len(cpbuilt) < CpCount
  /\ IF ok THEN cpbuilt' = Append(cpbuilt, cporder[Len(cpbuilt) + 1]) /\ UNCHANGED cpat
           ELSE cpat' = "BuildError" /\ UNCHANGED cpbuilt
  /\ UNCHANGED <<cpgraph, cpneeds, cpdegree, cpqueue, cporder, cphooks, cpstopped>>

CpBuilt == /\ cpat = "build" /\ Len(cpbuilt) = CpCount
           /\ cpat' = "verify"
           /\ UNCHANGED <<cpgraph, cpneeds, cpdegree, cpqueue, cporder, cpbuilt, cphooks, cpstopped>>

\* R::verify.
CpVerify == /\ cpat = "verify"
            /\ cpat' = IF cpneeds \subseteq CpProvided THEN "run" ELSE "CapabilityError"
            /\ UNCHANGED <<cpgraph, cpneeds, cpdegree, cpqueue, cporder, cpbuilt, cphooks, cpstopped>>

\* The application ends, with a value or an error; hooks.into_iter().rev().
CpRun == /\ cpat = "run"
         /\ cpat' = "stop"
         /\ cphooks' = Reverse([n \in CpNodes |-> n])
         /\ UNCHANGED <<cpgraph, cpneeds, cpdegree, cpqueue, cporder, cpbuilt, cpstopped>>

CpStop == /\ cpat = "stop" /\ cphooks # <<>>
          /\ cpstopped' = Append(cpstopped, Head(cphooks))
          /\ cphooks' = Tail(cphooks)
          /\ UNCHANGED <<cpgraph, cpneeds, cpat, cpdegree, cpqueue, cporder, cpbuilt>>

CpReturn(result) == /\ cpat = "stop" /\ cphooks = <<>>
                    /\ cpat' = result
                    /\ UNCHANGED <<cpgraph, cpneeds, cpdegree, cpqueue, cporder, cpbuilt, cphooks, cpstopped>>

CapabilityNext ==
  \/ \E why \in {"Conflict", "Duplicate", "Missing"} : CpReject(why)
  \/ CpStart \/ CpShift \/ CpSorted
  \/ \E ok \in BOOLEAN : CpBuild(ok)
  \/ CpBuilt \/ CpVerify \/ CpRun \/ CpStop
  \/ \E result \in {"Ok", "EffectError"} : CpReturn(result)

CapabilitySpec == CapabilityInit /\ [][CapabilityNext]_cpvars

(***************************************************************************)
(* Properties.                                                             *)
(***************************************************************************)

\* Reference: some providers all wait for one another.
CpCyclic == \E S \in SUBSET CpNodes : S # {} /\ \A n \in S : CpDeps(n) \cap S # {}

\* Whatever the order of the hash map, a provider is built once and after all it
\* requires; the plan is refused exactly for a cycle of two or more, a missing
\* capability, a conflict or a repeated id; every provider is shut down once if the
\* application ran, and none if it did not, so that those built before an error stay up
\* (planner.rs, plan_topological; run.rs, run_with).
CapabilityInv ==
  /\ CapabilityTypeOK
  /\ IsInjective(cpbuilt)
  /\ \A i \in 1..Len(cpbuilt) : CpDeps(cpbuilt[i]) \subseteq {cpbuilt[j] : j \in 1..i - 1}
  /\ cpat = "Cycle" => CpCyclic
  /\ cpbuilt # <<>> => ~CpCyclic
  /\ IsInjective(cpstopped)
  /\ cpat \in {"Ok", "EffectError"} => Range(cpstopped) = CpNodes
  /\ cpat \in CpResults \ {"Ok", "EffectError"} => cpstopped = <<>>

\* What the comment of ShutdownHook says, reverse build order: no provider is shut down
\* while one that requires it is still up.  run_with calls the hooks in reverse order
\* of the arguments.
DependentsStopFirst ==
  \A i, j \in DOMAIN cpstopped : i < j => cpstopped[i] \notin CpDeps(cpstopped[j])
==============================================================================
