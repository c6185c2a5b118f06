------------------------------ MODULE FiberRef ------------------------------
(***************************************************************************)
(* concurrency/fiber_ref.rs: one FiberRef, its slots per fiber, and tasks  *)
(* that use it.  The current fiber is a thread local, so that tasks of one *)
(* thread share a fiber, and inner of locally is a future: operations of   *)
(* other tasks come between its entry and its end, and it may be dropped.  *)
(***************************************************************************)
EXTENDS Naturals, Sequences, SequencesExt, FiniteSets

CONSTANTS FrTasks,
          FrFibers,
          FrOn,       \* FrOn[t]: the fiber that is current when task t runs
          FrValues,
          FrInitial,  \* what initial() returns
          FrEmpty,    \* no value in the slot
          FrOps       \* bound: the number of operations

ASSUME FiberRefAssumption == /\ FrOn \in [FrTasks -> FrFibers]
                             /\ FrInitial \in FrValues /\ FrEmpty \notin FrValues
                             /\ FrOps \in Nat

VARIABLES frslot,    \* frslot[f]: the entry of fiber f in the store
          frsaved,   \* frsaved[t]: previous in each locally that t is inside of
          frnest,    \* observer: frnest[f]: the tasks inside a locally on f, latest last
          frbase,    \* observer: frbase[f]: what the operations outside locally have left
          frcrossed, \* observer: fibers with a locally dropped or ended out of turn
          frcount

frvars == <<frslot, frsaved, frnest, frbase, frcrossed, frcount>>

FrSlots == FrValues \cup {FrEmpty}

FiberRefTypeOK ==
  /\ frslot \in [FrFibers -> FrSlots] /\ frbase \in [FrFibers -> FrSlots]
  /\ frsaved \in [FrTasks -> Seq(FrSlots)] /\ frnest \in [FrFibers -> Seq(FrTasks)]
  /\ frcrossed \subseteq FrFibers /\ frcount \in 0..FrOps

FiberRefInit == /\ frslot = [f \in FrFibers |-> FrEmpty] /\ frbase = frslot
                /\ frsaved = [t \in FrTasks |-> <<>>] /\ frnest = [f \in FrFibers |-> <<>>]
                /\ frcrossed = {} /\ frcount = 0

FrCount == frcount < FrOps /\ frcount' = frcount + 1

\* New slots; those of fibers outside every locally count as their base.
FrStore(slots) ==
  /\ frslot' = slots
  /\ frbase' = [f \in FrFibers |-> IF frnest[f] = <<>> THEN slots[f] ELSE frbase[f]]

FrValue(f) == IF frslot[f] = FrEmpty THEN FrInitial ELSE frslot[f]

\* get, which fills an empty slot; set, update and modify; reset.
FrGet(t) == /\ FrCount /\ FrStore([frslot EXCEPT ![FrOn[t]] = FrValue(FrOn[t])])
            /\ UNCHANGED <<frsaved, frnest, frcrossed>>

FrSet(t, v) == /\ FrCount /\ FrStore([frslot EXCEPT ![FrOn[t]] = v])
               /\ UNCHANGED <<frsaved, frnest, frcrossed>>

FrReset(t) == /\ FrCount /\ FrStore([frslot EXCEPT ![FrOn[t]] = FrEmpty])
              /\ UNCHANGED <<frsaved, frnest, frcrossed>>

\* on_fork with the fork of make, a copy: the parent's slot is filled first.
FrFork(p, c) == /\ FrCount /\ p # c
                /\ FrStore([frslot EXCEPT ![p] = FrValue(p), ![c] = FrValue(p)])
                /\ UNCHANGED <<frsaved, frnest, frcrossed>>

\* on_join with the join of make, the child's value: the child's slot is emptied.
FrJoin(p, c) == /\ FrCount /\ p # c
                /\ FrStore([frslot EXCEPT ![c] = FrEmpty,
                                          ![p] = IF frslot[c] = FrEmpty THEN @ ELSE frslot[c]])
                /\ UNCHANGED <<frsaved, frnest, frcrossed>>

\* locally and locally_with: the slot is taken and filled, and inner begins.
FrLocally(t, v) ==
  LET f == FrOn[t]
  IN  /\ FrCount
      /\ frsaved' = [frsaved EXCEPT ![t] = Append(@, frslot[f])]
      /\ frslot' = [frslot EXCEPT ![f] = v]
      /\ frnest' = [frnest EXCEPT ![f] = Append(@, t)]
      /\ UNCHANGED <<frbase, frcrossed>>

\* Where t is among the calls of locally on its fiber, and its latest, which is the one
\* that ends.
FrPlaces(t) == {i \in DOMAIN frnest[FrOn[t]] : frnest[FrOn[t]][i] = t}
FrLatest(t) == Max(FrPlaces(t))

FrLeave(t) == /\ frsaved[t] # <<>>
              /\ frsaved' = [frsaved EXCEPT ![t] = Front(@)]
              /\ frnest' = [frnest EXCEPT ![FrOn[t]] = RemoveAt(@, FrLatest(t))]

\* Faulty variant: a slot that was empty before is left as it is.
FrLocallyEndsKeeping(t) ==
  LET f == FrOn[t]
  IN  /\ FrLeave(t)
      /\ frslot' = [frslot EXCEPT ![f] = IF Last(frsaved[t]) = FrEmpty THEN @ ELSE Last(frsaved[t])]
      /\ frcrossed' = IF FrLatest(t) = Len(frnest[f]) THEN frcrossed ELSE frcrossed \cup {f}
      /\ UNCHANGED <<frbase, frcount>>

\* inner is done: the slot gets what it had before, which may be nothing.
FrLocallyEnds(t) ==
  LET f == FrOn[t]
  IN  /\ FrLeave(t)
      /\ frslot' = [frslot EXCEPT ![f] = Last(frsaved[t])]
      /\ frcrossed' = IF FrLatest(t) = Len(frnest[f]) THEN frcrossed ELSE frcrossed \cup {f}
      /\ UNCHANGED <<frbase, frcount>>

\* The future of locally is dropped: nothing is restored.
FrLocallyDropped(t) == /\ FrLeave(t)
                       /\ frcrossed' = frcrossed \cup {FrOn[t]}
                       /\ UNCHANGED <<frslot, frbase, frcount>>

FiberRefNext ==
  \/ \E t \in FrTasks : \/ FrGet(t) \/ FrReset(t) \/ FrLocallyEnds(t) \/ FrLocallyDropped(t)
                        \/ \E v \in FrValues : FrSet(t, v) \/ FrLocally(t, v)
  \/ \E p, c \in FrFibers : FrFork(p, c) \/ FrJoin(p, c)

FiberRefSpec == FiberRefInit /\ [][FiberRefNext]_frvars

(***************************************************************************)
(* Properties.                                                             *)
(***************************************************************************)

\* When no task is inside a locally on a fiber, the slot is what the operations
\* outside of locally have made it, an empty slot included.  The exceptions are
\* exactly the two that the code has: a locally whose future was dropped, and two
\* tasks of one fiber whose calls of locally did not nest; the override of one of
\* them then stays for good (fiber_ref.rs, locally).
FiberRefInv ==
  /\ FiberRefTypeOK
  /\ \A f \in FrFibers \ frcrossed : frnest[f] = <<>> => frslot[f] = frbase[f]
  /\ \A t \in FrTasks : Len(frsaved[t]) = Cardinality(FrPlaces(t))
==============================================================================
