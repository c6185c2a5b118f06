------------------------------ MODULE MCRuntime ------------------------------
(***************************************************************************)
(* What programs run on, side by side: every behaviour is one of a single  *)
(* part, named by focus, beside idle ones.                                 *)
(***************************************************************************)
EXTENDS Cancel, Schedule, Fibers, FiberRef, Capability, SqlTransaction, Tower, TLC

CONSTANTS k1, k2, k3, w1, w2, fi1, fi2, fi3, fi4, fi5, f1

VARIABLE focus

vars == <<focus, cavars, scvars, fbvars, frvars, cpvars, sqvars, twvars>>

\* A chain of three tokens and two tasks that wait for the middle one.
MCTokens == {k1, k2, k3}
MCBirths == {<<k1, k2>>, <<k2, k3>>}
MCWaitsFor == w1 :> k2 @@ w2 :> k2

\* Schedules up to two operators deep over the leaves.
MCLeaves == {[op |-> "Recurs", n |-> i] : i \in {0, 2}}
              \cup {[op |-> "RecursWhile", n |-> i] : i \in 1..2}
              \cup {[op |-> "RecursUntil", n |-> 1], [op |-> "Spaced", d |-> 3],
                    [op |-> "Exponential", d |-> 3, n |-> 0]}
MCOver(T) == {[op |-> "Jittered", a |-> s] : s \in T}
               \cup {[op |-> o, a |-> s, n |-> 1] : o \in {"MapDelay", "ContramapInput"}, s \in T}
MCPairs == {[op |-> "Compose", a |-> s, b |-> r] : s, r \in MCLeaves}
MCTrees == MCLeaves \cup MCPairs \cup MCOver(MCLeaves) \cup MCOver(MCPairs)

MCShape == fi3 :> [op |-> "zip", a |-> fi1, b |-> fi2]
             @@ fi4 :> [op |-> "map", a |-> fi3, b |-> fi3]
             @@ fi5 :> [op |-> "or_else", a |-> fi4, b |-> fi2]
MCJoined == <<fi1, fi4>>

MCOn == [t \in FrTasks |-> f1]

\* Three providers: every way they may require one another, and the first also itself
\* or what nobody provides; then two of one capability and two of one id.
MCSelf == [n \in 1..3 |-> n]
MCNone == [n \in 1..3 |-> {}]
MCGraph(r1, r2, r3, optional, provides, id) ==
  [requires |-> <<r1, r2, r3>>, optional |-> optional, provides |-> provides, id |-> id]
MCGraphs ==
  {MCGraph(r1, r2, r3, o, MCSelf, MCSelf) :
     r1 \in {{}, {0}, {1}, {2}, {3}, {2, 3}}, r2 \in SUBSET {1, 3}, r3 \in SUBSET {1, 2},
     o \in {MCNone, [MCNone EXCEPT ![1] = {0}], [MCNone EXCEPT ![2] = {0}]}}
  \cup {MCGraph({}, {1}, {}, MCNone, <<1, 2, 2>>, MCSelf),
        MCGraph({}, {1}, {}, MCNone, MCSelf, <<1, 1, 3>>)}

Parts == {"cancel", "schedule", "fibers", "fiberref", "capability", "sql", "tower"}

\* A part that is not in focus has one state.
Pick(part, idle) == focus = part \/ idle

MCInit ==
  /\ focus \in Parts
  /\ CancelInit /\ FibersInit /\ FiberRefInit /\ SqlInit /\ TowerInit
  /\ ScheduleInit /\ Pick("schedule", sckind = "retry" /\ sctree = [op |-> "Recurs", n |-> 0])
  /\ CapabilityInit
  /\ Pick("capability", cpneeds = {} /\ cpgraph = MCGraph({}, {}, {}, MCNone, MCSelf, MCSelf))

MCNext ==
  /\ UNCHANGED focus
  /\ IF focus = "cancel"     THEN CancelNext     ELSE UNCHANGED cavars
  /\ IF focus = "schedule"   THEN ScheduleNext   ELSE UNCHANGED scvars
  /\ IF focus = "fibers"     THEN FibersNext     ELSE UNCHANGED fbvars
  /\ IF focus = "fiberref"   THEN FiberRefNext   ELSE UNCHANGED frvars
  /\ IF focus = "capability" THEN CapabilityNext ELSE UNCHANGED cpvars
  /\ IF focus = "sql"        THEN SqlNext        ELSE UNCHANGED sqvars
  /\ IF focus = "tower"      THEN TowerNext      ELSE UNCHANGED twvars

\* The fairness of the part that runs; the idle ones do nothing.
MCFairness ==
  /\ \A t \in CaThreads : WF_cavars(focus = "cancel" /\ CaContinue(t))
  /\ \A w \in CaTasks : WF_cavars(focus = "cancel" /\ CaWait(w))
  /\ \A h \in FbDerived : WF_fbvars(focus = "fibers" /\ FbTask(h))
  /\ \A h \in FbScoped : WF_fbvars(focus = "fibers" /\ FbScopedStep(h))
  /\ WF_fbvars(focus = "fibers" /\ FbJoin)

MCSpec == MCInit /\ [][MCNext]_vars /\ MCFairness

\* The behaviours of the capability runner alone (run.rs).
CapabilityOnly == MCInit /\ focus = "capability" /\ [][MCNext]_vars
==============================================================================
