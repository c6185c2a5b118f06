---------------------------- MODULE ResourceProofs ----------------------------
(***************************************************************************)
(* Proofs about the resource pools of module Pool and the cache of module  *)
(* Cache, for every capacity, finite sets of scopes and keys, any fibers.  *)
(***************************************************************************)
EXTENDS Pool, Cache, ProofLemmas

(***************************************************************************)
(* Resource pools.                                                         *)
(***************************************************************************)

\* What the get and the close of a scope say of its finalizers and of its value.  The
\* permit of an open scope is in its TRef once the get has it; the finalizer of a value
\* is stored beside the permit, or while a drain holds the permit, which then conflicts.
PlShaped(s) ==
  /\ plfins[s] \cap pltaken[s] = {}
  /\ plpc[s] \in {"idle", "waiting", "granted", "held"} => plfins[s] = {} /\ pltaken[s] = {}
  /\ "item" \in PlKept(s) \/ s \in pldisturbed => plpc[s] = "done"
  /\ plpc[s] \in {"register", "back", "done"} <=> plitem[s] # PlNoItem
  /\ plscope[s] \in {"open", "closed"} => pltaken[s] = {}
  /\ plscope[s] = "open" /\ plpc[s] \in {"take", "make", "register", "back", "done", "failed"} =>
       "permit" \in plfins[s]
  /\ plpc[s] = "back" /\ plscope[s] = "closed" => "permit" \in plfins[s]
  /\ plpc[s] = "back" /\ plscope[s] = "taken" => "permit" \in pltaken[s] /\ plfins[s] = {}
  /\ plscope[s] \in {"open", "closed"} /\ "item" \in plfins[s] =>
       "permit" \in plfins[s] \/ s \in pldisturbed
  /\ plscope[s] = "taken" /\ "item" \in plfins[s] => "permit" \in pltaken[s]
  /\ "item" \in pltaken[s] => "permit" \in pltaken[s] \/ s \in pldisturbed
PlShape == \A s \in PlScopes : PlShaped(s)

\* The queue of the semaphore holds the waiting gets, once.
PlQueued == IsInjective(plqueue) /\ Range(plqueue) = {s \in PlScopes : plpc[s] = "waiting"}

\* The scopes that use a place: those of PlBounded, and those that return a value after
\* their permit was dropped.
PlUsing(s) ==
  \/ "permit" \in PlKept(s) /\ (plpc[s] \in {"make", "register", "back"} \/ "item" \in PlKept(s))
  \/ s \in pldisturbed /\ "item" \in PlKept(s)
PlUse(k) == {s \in PlScopes : plkey[s] = k /\ PlUsing(s)}
PlExtra(k) == {s \in pldisturbed : plkey[s] = k}
PlFits == \A k \in PlKeys : Len(plidle[k]) + Cardinality(PlUse(k)) <= PlCapacity + Cardinality(PlExtra(k))

\* The scopes that are about to register their value or may return it.
PlOut(s) == plpc[s] \in {"register", "back"} \/ "item" \in PlKept(s)

\* The gets that have not made or taken a value yet.
PlBefore(s) == plpc[s] \in {"idle", "waiting", "granted", "held", "take", "make"}

\* A value is idle once or with one scope, and neither before it is made.
PlPlaces ==
  /\ \A k \in PlKeys : IsInjective(plidle[k])
  /\ \A k, l \in PlKeys : k # l => Range(plidle[k]) \cap Range(plidle[l]) = {}
  /\ \A s, t \in PlScopes : PlOut(s) /\ PlOut(t) /\ plitem[s] = plitem[t] => s = t
  /\ \A s \in PlScopes : PlOut(s) => \A k \in PlKeys : plitem[s] \notin Range(plidle[k])
  /\ \A s \in PlScopes :
       PlBefore(s) => /\ \A k \in PlKeys : s \notin Range(plidle[k])
                      /\ \A t \in PlScopes : plitem[t] # s

\* PlDiscardedNotReused.
PlClean == \A k \in PlKeys : Range(plidle[k]) \cap pldiscard = {}

\* The inductive invariant.
PoolIInv == /\ PoolTypeOK /\ PlShape /\ PlQueued /\ PlPermitsConserved /\ PlFits /\ PlPlaces
            /\ PlClean

\* A scope on which a step of another one has no effect but to give it a permit.
PlSame(u) ==
  /\ plscope'[u] = plscope[u] /\ plfins'[u] = plfins[u] /\ pltaken'[u] = pltaken[u]
  /\ u \in pldisturbed' <=> u \in pldisturbed
  /\ plpc'[u] = plpc[u] \/ (plpc[u] = "waiting" /\ plpc'[u] = "granted")

\* What is counted is finite.
LEMMA PlFinite ==
  /\ \A A \in SUBSET PlScopes : IsFiniteSet(A) /\ Cardinality(A) \in Nat
  /\ \A A, B \in SUBSET PlScopes : A \subseteq B => Cardinality(A) <= Cardinality(B)
BY FS_Subset, FS_CardinalityType, PoolAssumption

\* A step of one scope that moves no value keeps the invariant if it keeps the shape of
\* the scope and the count of the permits, and takes no place.
LEMMA PlLocalOk ==
  ASSUME PoolIInv, NEW s \in PlScopes, PoolTypeOK', PlQueued', PlPermitsConserved',
         plidle' = plidle, pldiscard' = pldiscard, plkey' = plkey, plitem' = plitem,
         PlShaped(s)', PlOut(s)' => PlOut(s), PlBefore(s)' => PlBefore(s),
         PlUsing(s)' => PlUsing(s), pldisturbed \subseteq pldisturbed',
         \A u \in PlScopes : u # s => PlSame(u)
  PROVE  PoolIInv'
<1>1. /\ PoolTypeOK /\ PlShape /\ PlFits /\ PlPlaces /\ PlClean
      /\ plidle \in [PlKeys -> Seq(PlItems)] /\ pldisturbed' \subseteq PlScopes
  BY DEF PoolIInv, PoolTypeOK
<1>2. ASSUME NEW u \in PlScopes
      PROVE  /\ PlOut(u)' => PlOut(u)
             /\ PlBefore(u)' => PlBefore(u)
             /\ PlUsing(u)' => PlUsing(u)
  BY DEF PlSame, PlOut, PlBefore, PlUsing, PlKept
<1>3. ASSUME NEW u \in PlScopes, u # s PROVE PlShaped(u)'
  <2>1. PlSame(u) /\ PlShaped(u) /\ plitem'[u] = plitem[u] BY <1>1, <1>3 DEF PlShape
  <2>2. CASE plpc'[u] = plpc[u] BY <2>1, <2>2 DEF PlSame, PlShaped, PlKept
  <2>3. CASE plpc[u] = "waiting" /\ plpc'[u] = "granted"
    BY <2>1, <2>3 DEF PlSame, PlShaped, PlKept
  <2>4. QED BY <2>1, <2>2, <2>3 DEF PlSame
<1>4. PlShape' BY <1>3 DEF PlShape
<1>5. PlClean' BY <1>1 DEF PlClean
<1>6. PlPlaces' BY <1>1, <1>2 DEF PlPlaces
<1>7. PlFits'
  <2> SUFFICES ASSUME NEW k \in PlKeys
               PROVE  Len(plidle[k]) + Cardinality(PlUse(k)') <= PlCapacity + Cardinality(PlExtra(k)')
    BY DEF PlFits
  <2>1. PlUse(k)' \subseteq PlUse(k) /\ PlUse(k) \in SUBSET PlScopes /\ PlUse(k)' \in SUBSET PlScopes
    BY <1>2 DEF PlUse
  <2>2. /\ PlExtra(k) \subseteq PlExtra(k)' /\ PlExtra(k)' \in SUBSET PlScopes
        /\ PlExtra(k) \in SUBSET PlScopes
    BY <1>1 DEF PlExtra
  <2>3. /\ Cardinality(PlUse(k)') <= Cardinality(PlUse(k)) /\ Cardinality(PlUse(k)) \in Nat
        /\ Cardinality(PlUse(k)') \in Nat
    BY <2>1, PlFinite
  <2>4. /\ Cardinality(PlExtra(k)) <= Cardinality(PlExtra(k)') /\ Cardinality(PlExtra(k)) \in Nat
        /\ Cardinality(PlExtra(k)') \in Nat
    BY <2>2, PlFinite
  <2>5. Len(plidle[k]) \in Nat BY <1>1
  <2>6. Len(plidle[k]) + Cardinality(PlUse(k)) <= PlCapacity + Cardinality(PlExtra(k)) BY <1>1 DEF PlFits
  <2>7. QED BY <2>3, <2>4, <2>5, <2>6, PoolAssumption
<1>8. QED BY <1>4, <1>5, <1>6, <1>7 DEF PoolIInv

\* Where a get can be.
PlPlacesOfGet == {"idle", "waiting", "granted", "held", "take", "make", "register", "back",
                  "done", "failed"}

\* The permits are counted as before when the holders and the waiting gets are the same.
LEMMA PlPermitsStay ==
  ASSUME PoolIInv, plpermits' = plpermits, plqueue' = plqueue,
         \A u \in PlScopes : /\ plpc'[u] = "waiting" <=> plpc[u] = "waiting"
                             /\ u \in PlHolders' <=> u \in PlHolders
  PROVE  PlQueued' /\ PlPermitsConserved'
<1>1. PlQueued /\ PlPermitsConserved BY DEF PoolIInv
<1>2. PlHolders' = PlHolders
  <2>1. PlHolders \subseteq PlScopes /\ PlHolders' \subseteq PlScopes BY DEF PlHolders
  <2>2. QED BY <2>1
<1>3. {u \in PlScopes : plpc'[u] = "waiting"} = {u \in PlScopes : plpc[u] = "waiting"} OBVIOUS
<1>4. QED BY <1>1, <1>2, <1>3 DEF PlQueued, PlPermitsConserved

\* A permit is given back: it goes to the first get that waits, or is free.
LEMMA PlReleaseOk ==
  ASSUME PoolIInv, NEW s \in PlScopes, NEW to \in [PlScopes -> PlPlacesOfGet], PlRelease(to),
         \A u \in PlScopes : u # s => /\ to[u] = plpc[u]
                                      /\ plfins'[u] = plfins[u] /\ pltaken'[u] = pltaken[u],
         plpc[s] # "waiting", to[s] \notin {"waiting", "granted", "held"},
         "permit" \notin PlKept(s)', s \in PlHolders
  PROVE  /\ plpermits' \in Nat /\ plqueue' \in Seq(PlScopes) /\ plpc' \in [PlScopes -> PlPlacesOfGet]
         /\ PlQueued' /\ PlPermitsConserved' /\ plpc'[s] = to[s]
         /\ \A u \in PlScopes : u # s => \/ plpc'[u] = plpc[u]
                                         \/ plpc[u] = "waiting" /\ plpc'[u] = "granted"
<1>1. /\ PlShape /\ PlQueued /\ PlPermitsConserved /\ plpermits \in Nat /\ plqueue \in Seq(PlScopes)
      /\ plpc \in [PlScopes -> PlPlacesOfGet]
  BY DEF PoolIInv, PoolTypeOK, PlPlacesOfGet
<1>2. PICK H \in SUBSET PlScopes : H = PlHolders BY DEF PlHolders
<1>3. IsFiniteSet(H) /\ Cardinality(H) \in Nat /\ plpermits + Cardinality(H) = PlCapacity
  BY <1>1, <1>2, PlFinite DEF PlPermitsConserved
<1>4. Cardinality(H \ {s}) = Cardinality(H) - 1 /\ IsFiniteSet(H \ {s}) BY <1>2, <1>3, FS_RemoveElement
<1>5. CASE plqueue = <<>>
  <2>1. plpermits' = plpermits + 1 /\ plpc' = to /\ plqueue' = plqueue BY <1>5 DEF PlRelease
  <2>2. PlHolders' = H \ {s} BY <2>1, <1>2 DEF PlHolders, PlKept
  <2>3. Cardinality(PlHolders') = Cardinality(H) - 1 BY <2>2, <1>4, Zenon
  <2>4. PlPermitsConserved' BY <2>1, <2>3, <1>1, <1>3, <1>5, PoolAssumption DEF PlPermitsConserved
  <2>5. {u \in PlScopes : to[u] = "waiting"} = {u \in PlScopes : plpc[u] = "waiting"} OBVIOUS
  <2>6. PlQueued' BY <2>1, <2>5, <1>1 DEF PlQueued
  <2>7. QED BY <2>1, <2>4, <2>6, <1>1
<1>6. CASE plqueue # <<>>
  <2>1. PICK h \in PlScopes : h = Head(plqueue) BY <1>1, <1>6
  <2>2. /\ plpc' = [to EXCEPT ![h] = "granted"] /\ plqueue' = Tail(plqueue) /\ plpermits' = plpermits
    BY <2>1, <1>6 DEF PlRelease
  <2>3. /\ Tail(plqueue) \in Seq(PlScopes) /\ h \in Range(plqueue)
        /\ IsInjective(Tail(plqueue)) /\ Range(Tail(plqueue)) = Range(plqueue) \ {h}
    BY <2>1, <1>1, <1>6, TailOnce DEF PlQueued
  <2>4. plpc[h] = "waiting" /\ h # s BY <2>3, <1>1 DEF PlQueued
  <2>5. plfins[h] = {} /\ pltaken[h] = {} BY <2>4, <1>1 DEF PlShape, PlShaped
  <2>6. \A u \in PlScopes : plpc'[u] = IF u = h THEN "granted" ELSE to[u] BY <2>2
  <2>7. PlHolders' = (H \ {s}) \cup {h} BY <2>4, <2>5, <2>6, <1>2 DEF PlHolders, PlKept
  <2>8. h \notin H \ {s} BY <2>4, <2>5, <1>2 DEF PlHolders, PlKept
  <2>9. Cardinality((H \ {s}) \cup {h}) = Cardinality(H \ {s}) + 1 BY <2>8, <1>4, FS_AddElement
  <2>10. Cardinality(PlHolders') = Cardinality(H) BY <2>7, <2>9, <1>3, <1>4
  <2>11. PlPermitsConserved' BY <2>2, <2>10, <1>1, <1>3, <1>6 DEF PlPermitsConserved
  <2>12. Range(plqueue) \ {h} = {u \in PlScopes : plpc'[u] = "waiting"}
    BY <2>4, <2>6, <1>1 DEF PlQueued
  <2>13. PlQueued' BY <2>2, <2>3, <2>12 DEF PlQueued
  <2>14. plpc' \in [PlScopes -> PlPlacesOfGet] BY <2>2 DEF PlPlacesOfGet
  <2>15. QED BY <2>2, <2>3, <2>4, <2>6, <2>11, <2>13, <2>14, <1>1
<1>7. QED BY <1>5, <1>6

\* The types, and what the set of the finalizers of a scope can be.
LEMMA PlTypes ==
  ASSUME PoolTypeOK
  PROVE  /\ plpermits \in Nat /\ plqueue \in Seq(PlScopes)
         /\ plidle \in [PlKeys -> Seq(PlItems)] /\ plexpired \subseteq PlItems /\ pldiscard \subseteq PlItems
         /\ plscope \in [PlScopes -> {"open", "closed", "taken", "drained", "gone"}]
         /\ plfins \in [PlScopes -> SUBSET PlFinalizers] /\ pltaken \in [PlScopes -> SUBSET PlFinalizers]
         /\ plpc \in [PlScopes -> PlPlacesOfGet] /\ plkey \in [PlScopes -> PlKeys]
         /\ plitem \in [PlScopes -> PlItems \cup {PlNoItem}] /\ pldisturbed \subseteq PlScopes
         /\ \A s \in PlScopes : /\ plfins[s] \subseteq PlFinalizers /\ pltaken[s] \subseteq PlFinalizers
                                /\ plpc[s] \in PlPlacesOfGet
BY PoolAssumption DEF PoolTypeOK, PlPlacesOfGet

\* The steps of a scope that move neither a value nor a permit.
LEMMA PlQuietOk ==
  ASSUME PoolIInv, NEW s \in PlScopes,
         \/ PlKeepPermit(s) \/ PlMakeFails(s) \/ PlCheckItem(s) \/ PlKeepItem(s) \/ PlClose(s)
         \/ PlDrainBody(s) \/ PlDrainCommit(s) \/ (PlCheckPermit(s) /\ plscope[s] = "open")
  PROVE  PoolIInv'
<1>1. PoolTypeOK /\ PlShaped(s) BY DEF PoolIInv, PlShape
<1>2. /\ plidle' = plidle /\ pldiscard' = pldiscard /\ plexpired' = plexpired /\ plkey' = plkey
      /\ plitem' = plitem /\ pldisturbed' = pldisturbed /\ plpermits' = plpermits /\ plqueue' = plqueue
  BY DEF PlKeepPermit, PlMakeFails, PlCheckItem, PlKeepItem, PlClose, PlDrainBody, PlDrainCommit,
         PlCheckPermit, PlStore, plcounts, plvalues, plclosing
<1>3. /\ plscope \in [PlScopes -> {"open", "closed", "taken", "drained", "gone"}]
      /\ plfins \in [PlScopes -> SUBSET PlFinalizers] /\ pltaken \in [PlScopes -> SUBSET PlFinalizers]
      /\ plpc \in [PlScopes -> PlPlacesOfGet]
  BY <1>1, PlTypes
<1>4. \A u \in PlScopes : u # s => /\ plscope'[u] = plscope[u] /\ plfins'[u] = plfins[u]
                                   /\ pltaken'[u] = pltaken[u] /\ plpc'[u] = plpc[u]
  BY <1>3 DEF PlKeepPermit, PlMakeFails, PlCheckItem, PlKeepItem, PlClose, PlDrainBody, PlDrainCommit,
              PlCheckPermit, PlStore, PlGoes, plclosing
<1>5. \/ /\ plpc[s] = "held" /\ plpc'[s] = "take" /\ plfins'[s] = plfins[s] \cup {"permit"}
         /\ pltaken'[s] = pltaken[s] /\ plscope'[s] = plscope[s]
      \/ /\ plpc[s] = "make" /\ plpc'[s] = "failed" /\ plfins'[s] = plfins[s]
         /\ pltaken'[s] = pltaken[s] /\ plscope'[s] = plscope[s]
      \/ /\ plpc[s] = "register" /\ plpc'[s] = IF plscope[s] = "open" THEN "back" ELSE "done"
         /\ plfins'[s] = plfins[s] /\ pltaken'[s] = pltaken[s] /\ plscope'[s] = plscope[s]
      \/ /\ plpc[s] = "back" /\ plpc'[s] = "done" /\ plfins'[s] = plfins[s] \cup {"item"}
         /\ pltaken'[s] = pltaken[s] /\ plscope'[s] = plscope[s]
      \/ /\ plpc[s] = "granted" /\ plpc'[s] = "held" /\ plfins'[s] = plfins[s]
         /\ pltaken'[s] = pltaken[s] /\ plscope'[s] = plscope[s]
      \/ /\ plpc'[s] = plpc[s] /\ plfins'[s] = plfins[s] /\ pltaken'[s] = pltaken[s]
         /\ plscope[s] = "open" /\ plscope'[s] = "closed"
      \/ /\ plpc'[s] = plpc[s] /\ plfins'[s] = {} /\ pltaken'[s] = plfins[s]
         /\ plscope[s] = "closed" /\ plscope'[s] = "taken"
      \/ /\ plpc'[s] = plpc[s] /\ plfins'[s] = plfins[s] /\ pltaken'[s] = pltaken[s]
         /\ plscope[s] = "taken" /\ plscope'[s] = "drained" /\ plfins[s] = {}
  BY <1>3 DEF PlKeepPermit, PlMakeFails, PlCheckItem, PlKeepItem, PlClose, PlDrainBody, PlDrainCommit,
              PlCheckPermit, PlStore, PlGoes, plclosing
<1>6. /\ plfins[s] \subseteq PlFinalizers /\ pltaken[s] \subseteq PlFinalizers
      /\ plfins'[s] \subseteq PlFinalizers /\ pltaken'[s] \subseteq PlFinalizers
  BY <1>3, <1>5 DEF PlFinalizers
<1>7. PlShaped(s)' BY <1>1, <1>2, <1>5, <1>6 DEF PlShaped, PlKept, PlFinalizers
<1>8. /\ PlOut(s)' => PlOut(s)
      /\ PlBefore(s)' => PlBefore(s)
      /\ PlUsing(s)' => PlUsing(s)
  BY <1>1, <1>2, <1>5, <1>6 DEF PlShaped, PlKept, PlOut, PlBefore, PlUsing, PlFinalizers
<1>9. /\ plpc'[s] = "waiting" <=> plpc[s] = "waiting"
      /\ s \in PlHolders' <=> s \in PlHolders
  BY <1>1, <1>5, <1>6 DEF PlShaped, PlHolders, PlKept, PlFinalizers
<1>10. \A u \in PlScopes : /\ plpc'[u] = "waiting" <=> plpc[u] = "waiting"
                           /\ u \in PlHolders' <=> u \in PlHolders
  BY <1>4, <1>9 DEF PlHolders, PlKept
<1>11. PlQueued' /\ PlPermitsConserved' BY <1>2, <1>10, PlPermitsStay
<1>12. PoolTypeOK'
  <2>1. plpc' \in [PlScopes -> PlPlacesOfGet]
    BY <1>3 DEF PlKeepPermit, PlMakeFails, PlCheckItem, PlKeepItem, PlClose, PlDrainBody, PlDrainCommit,
                PlCheckPermit, PlPlacesOfGet
  <2>2. plfins' \in [PlScopes -> SUBSET PlFinalizers]
    BY <1>3 DEF PlKeepPermit, PlMakeFails, PlCheckItem, PlKeepItem, PlClose, PlDrainBody, PlDrainCommit,
                PlCheckPermit, PlStore, plclosing, PlFinalizers
  <2>3. pltaken' \in [PlScopes -> SUBSET PlFinalizers]
    BY <1>3 DEF PlKeepPermit, PlMakeFails, PlCheckItem, PlKeepItem, PlClose, PlDrainBody, PlDrainCommit,
                PlCheckPermit, PlStore, plclosing
  <2>4. plscope' \in [PlScopes -> {"open", "closed", "taken", "drained", "gone"}]
    BY <1>3 DEF PlKeepPermit, PlMakeFails, PlCheckItem, PlKeepItem, PlClose, PlDrainBody, PlDrainCommit,
                PlCheckPermit, PlStore, PlGoes, plclosing
  <2>5. QED BY <1>1, <1>2, <2>1, <2>2, <2>3, <2>4 DEF PoolTypeOK, PlPlacesOfGet
<1>13. \A u \in PlScopes : u # s => PlSame(u) BY <1>2, <1>4 DEF PlSame
<1>14. QED BY <1>2, <1>7, <1>8, <1>11, <1>12, <1>13, PlLocalOk

\* A get asks for a permit.
LEMMA PlGetOk == ASSUME PoolIInv, NEW s \in PlScopes, PlGet(s) PROVE PoolIInv'
<1>1. PoolTypeOK /\ PlShaped(s) /\ PlQueued /\ PlPermitsConserved BY DEF PoolIInv, PlShape
<1>2. /\ plidle' = plidle /\ pldiscard' = pldiscard /\ plexpired' = plexpired /\ plkey' = plkey
      /\ plitem' = plitem /\ pldisturbed' = pldisturbed /\ plscope' = plscope /\ plfins' = plfins
      /\ pltaken' = pltaken
  BY DEF PlGet, plvalues, plclosing
<1>3. plpc \in [PlScopes -> PlPlacesOfGet] /\ plpermits \in Nat /\ plqueue \in Seq(PlScopes)
  BY <1>1, PlTypes
<1>4. \A u \in PlScopes : u # s => plpc'[u] = plpc[u] BY <1>3 DEF PlGet
<1>5. plpc[s] = "idle" /\ plpc'[s] \in {"waiting", "granted"} BY <1>3 DEF PlGet
<1>6. plfins[s] = {} /\ pltaken[s] = {} BY <1>1, <1>5 DEF PlShaped
<1>7. PlShaped(s)' BY <1>1, <1>2, <1>5, <1>6 DEF PlShaped, PlKept
<1>8. /\ PlOut(s)' => PlOut(s)
      /\ PlBefore(s)' => PlBefore(s)
      /\ PlUsing(s)' => PlUsing(s)
  BY <1>2, <1>5, <1>6 DEF PlKept, PlOut, PlBefore, PlUsing
<1>9. /\ plpermits' \in Nat /\ plqueue' \in Seq(PlScopes) /\ PlQueued' /\ PlPermitsConserved'
  <2>1. PICK H \in SUBSET PlScopes : H = PlHolders BY DEF PlHolders
  <2>2. IsFiniteSet(H) /\ Cardinality(H) \in Nat /\ plpermits + Cardinality(H) = PlCapacity
    BY <1>1, <2>1, PlFinite DEF PlPermitsConserved
  <2>3. s \notin H BY <2>1, <1>5, <1>6 DEF PlHolders, PlKept
  <2>4. CASE plpermits > 0
    <3>1. plpermits' = plpermits - 1 /\ plqueue' = plqueue /\ plpc'[s] = "granted"
      BY <2>4, <1>3 DEF PlGet
    <3>2. PlHolders' = H \cup {s} BY <3>1, <2>1, <1>2, <1>4 DEF PlHolders, PlKept
    <3>3. Cardinality(H \cup {s}) = Cardinality(H) + 1 BY <2>2, <2>3, FS_AddElement
    <3>4. Cardinality(PlHolders') = Cardinality(H) + 1 BY <3>2, <3>3, Zenon
    <3>5. plqueue = <<>> BY <2>4, <1>1, <1>3 DEF PlPermitsConserved
    <3>6. PlPermitsConserved' BY <3>1, <3>4, <3>5, <2>2, <1>3 DEF PlPermitsConserved
    <3>7. {u \in PlScopes : plpc'[u] = "waiting"} = {u \in PlScopes : plpc[u] = "waiting"}
      BY <3>1, <1>4, <1>5
    <3>8. PlQueued' BY <3>1, <3>7, <1>1 DEF PlQueued
    <3>9. QED BY <3>1, <3>6, <3>8, <2>4, <1>3
  <2>5. CASE ~(plpermits > 0)
    <3>1. plpermits' = plpermits /\ plqueue' = Append(plqueue, s) /\ plpc'[s] = "waiting"
      BY <2>5, <1>3 DEF PlGet
    <3>2. PlHolders' = H BY <3>1, <2>1, <2>3, <1>2, <1>4 DEF PlHolders, PlKept
    <3>3. PlPermitsConserved' BY <3>1, <3>2, <2>2, <2>5, <1>3 DEF PlPermitsConserved
    <3>4. s \in PlScopes \ Range(plqueue) BY <1>1, <1>5 DEF PlQueued
    <3>5. /\ Append(plqueue, s) \in Seq(PlScopes) /\ IsInjective(Append(plqueue, s))
          /\ Range(Append(plqueue, s)) = Range(plqueue) \cup {s}
      BY <3>4, <1>1, <1>3, AppendOnce DEF PlQueued
    <3>6. Range(plqueue) \cup {s} = {u \in PlScopes : plpc'[u] = "waiting"}
      BY <3>1, <1>1, <1>4 DEF PlQueued
    <3>7. PlQueued' BY <3>1, <3>5, <3>6 DEF PlQueued
    <3>8. QED BY <3>1, <3>3, <3>5, <3>7, <1>3
  <2>6. QED BY <2>4, <2>5
<1>10. PoolTypeOK'
  <2>1. plpc' \in [PlScopes -> PlPlacesOfGet] BY <1>3 DEF PlGet, PlPlacesOfGet
  <2>2. QED BY <1>1, <1>2, <1>9, <2>1 DEF PoolTypeOK, PlPlacesOfGet
<1>11. \A u \in PlScopes : u # s => PlSame(u) BY <1>2, <1>4 DEF PlSame
<1>12. QED BY <1>2, <1>7, <1>8, <1>9, <1>10, <1>11, PlLocalOk

\* A drain that does not commit, or the last handle of a scope, drops finalizers, none of
\* which holds a permit.
LEMMA PlLoseOk ==
  ASSUME PoolIInv, NEW s \in PlScopes,
         \/ PlDrainConflict(s) /\ "permit" \notin pltaken[s]
         \/ PlForget(s) /\ "permit" \notin plfins[s]
  PROVE  PoolIInv'
<1>1. PoolTypeOK /\ PlShaped(s) BY DEF PoolIInv, PlShape
<1>2. /\ plidle' = plidle /\ pldiscard' = pldiscard /\ plexpired' = plexpired /\ plkey' = plkey
      /\ plitem' = plitem /\ pldisturbed' = pldisturbed /\ plpermits' = plpermits /\ plqueue' = plqueue
      /\ plpc' = plpc
  BY DEF PlDrainConflict, PlForget, PlDropped, plcounts, plvalues
<1>3. /\ plscope \in [PlScopes -> {"open", "closed", "taken", "drained", "gone"}]
      /\ plfins \in [PlScopes -> SUBSET PlFinalizers] /\ pltaken \in [PlScopes -> SUBSET PlFinalizers]
  BY <1>1, PlTypes
<1>4. \A u \in PlScopes : u # s => /\ plscope'[u] = plscope[u] /\ plfins'[u] = plfins[u]
                                   /\ pltaken'[u] = pltaken[u]
  BY <1>3 DEF PlDrainConflict, PlForget, PlGoes
<1>5. \/ /\ plscope[s] = "taken" /\ plscope'[s] = "closed" /\ plfins[s] # {} /\ plfins'[s] = plfins[s]
         /\ "permit" \notin pltaken[s] /\ pltaken'[s] = {}
      \/ /\ plscope'[s] = "gone" /\ plfins'[s] = {} /\ pltaken'[s] = pltaken[s]
         /\ plpc[s] \in {"done", "failed"} /\ "permit" \notin plfins[s]
  BY <1>3 DEF PlDrainConflict, PlForget, PlGoes
<1>6. plfins[s] \subseteq {"permit", "item"} /\ pltaken[s] \subseteq {"permit", "item"}
  BY <1>3 DEF PlFinalizers
<1>7. PlShaped(s)' BY <1>1, <1>2, <1>5, <1>6 DEF PlShaped, PlKept
<1>8. /\ PlOut(s)' => PlOut(s)
      /\ PlBefore(s)' => PlBefore(s)
      /\ PlUsing(s)' => PlUsing(s)
  BY <1>1, <1>2, <1>5, <1>6 DEF PlKept, PlOut, PlBefore, PlUsing
<1>9. s \in PlHolders' <=> s \in PlHolders BY <1>2, <1>5, <1>6 DEF PlHolders, PlKept
<1>10. \A u \in PlScopes : /\ plpc'[u] = "waiting" <=> plpc[u] = "waiting"
                           /\ u \in PlHolders' <=> u \in PlHolders
  BY <1>2, <1>4, <1>9 DEF PlHolders, PlKept
<1>11. PlQueued' /\ PlPermitsConserved' BY <1>2, <1>10, PlPermitsStay
<1>12. PoolTypeOK'
  <2>1. plfins' \in [PlScopes -> SUBSET PlFinalizers] BY <1>3 DEF PlDrainConflict, PlForget
  <2>2. pltaken' \in [PlScopes -> SUBSET PlFinalizers] BY <1>3 DEF PlDrainConflict, PlForget
  <2>3. plscope' \in [PlScopes -> {"open", "closed", "taken", "drained", "gone"}]
    BY <1>3 DEF PlDrainConflict, PlForget, PlGoes
  <2>4. QED BY <1>1, <1>2, <2>1, <2>2, <2>3 DEF PoolTypeOK
<1>13. \A u \in PlScopes : u # s => PlSame(u) BY <1>2, <1>4 DEF PlSame
<1>14. QED BY <1>2, <1>7, <1>8, <1>11, <1>12, <1>13, PlLocalOk

\* A scope gives its permit up: it is refused, run, or dropped.
LEMMA PlGiveUpOk ==
  ASSUME PoolIInv, NEW s \in PlScopes,
         \/ PlCheckPermit(s) /\ plscope[s] # "open"
         \/ PlRun(s, "permit") /\ "item" \notin pltaken[s]
         \/ PlDrainConflict(s) /\ "permit" \in pltaken[s]
         \/ PlForget(s) /\ "permit" \in plfins[s]
  PROVE  PoolIInv'
<1>1. PoolTypeOK /\ PlShaped(s) BY DEF PoolIInv, PlShape
<1>2. /\ plidle' = plidle /\ pldiscard' = pldiscard /\ plexpired' = plexpired /\ plkey' = plkey
      /\ plitem' = plitem
  BY DEF PlCheckPermit, PlRun, PlDrainConflict, PlForget, plvalues
<1>3. /\ plscope \in [PlScopes -> {"open", "closed", "taken", "drained", "gone"}]
      /\ plfins \in [PlScopes -> SUBSET PlFinalizers] /\ pltaken \in [PlScopes -> SUBSET PlFinalizers]
      /\ plpc \in [PlScopes -> PlPlacesOfGet] /\ pldisturbed \subseteq PlScopes
  BY <1>1, PlTypes
<1>4. \A u \in PlScopes : u # s => /\ plscope'[u] = plscope[u] /\ plfins'[u] = plfins[u]
                                   /\ pltaken'[u] = pltaken[u] /\ (u \in pldisturbed' <=> u \in pldisturbed)
  BY <1>3 DEF PlCheckPermit, PlRun, PlDrainConflict, PlForget, PlGoes, plclosing
<1>5. PICK to \in [PlScopes -> PlPlacesOfGet] :
        /\ PlRelease(to) /\ \A u \in PlScopes : u # s => to[u] = plpc[u]
        /\ \/ /\ plpc[s] = "granted" /\ to[s] = "take" /\ plscope[s] # "open" /\ plscope'[s] = plscope[s]
              /\ plfins'[s] = plfins[s] /\ pltaken'[s] = pltaken[s] /\ pldisturbed' = pldisturbed
           \/ /\ to[s] = plpc[s] /\ plscope[s] = "drained" /\ plscope'[s] = plscope[s]
              /\ "permit" \in pltaken[s] /\ pltaken'[s] = pltaken[s] \ {"permit"} /\ "item" \notin pltaken[s]
              /\ plfins'[s] = plfins[s] /\ pldisturbed' = pldisturbed
           \/ /\ to[s] = plpc[s] /\ plscope[s] = "taken" /\ plscope'[s] = "closed" /\ plfins[s] # {}
              /\ "permit" \in pltaken[s] /\ pltaken'[s] = {}
              /\ plfins'[s] = plfins[s] /\ pldisturbed' = pldisturbed \cup {s}
           \/ /\ to[s] = plpc[s] /\ plscope'[s] = "gone" /\ plpc[s] \in {"done", "failed"}
              /\ "permit" \in plfins[s] /\ plfins'[s] = {} /\ pltaken'[s] = pltaken[s] /\ pltaken[s] = {}
              /\ pldisturbed' = pldisturbed
  <2>1. CASE PlCheckPermit(s) /\ plscope[s] # "open"
    <3>1. PICK to \in [PlScopes -> PlPlacesOfGet] : to = [plpc EXCEPT ![s] = "take"]
      BY <1>3 DEF PlPlacesOfGet
    <3>2. /\ PlRelease(to) /\ plpc[s] = "granted" /\ plfins' = plfins /\ pltaken' = pltaken
          /\ pldisturbed' = pldisturbed /\ plscope' = plscope
      BY <2>1, <3>1 DEF PlCheckPermit, plclosing
    <3>3. to[s] = "take" /\ \A u \in PlScopes : u # s => to[u] = plpc[u] BY <3>1, <1>3
    <3>4. QED BY <2>1, <3>2, <3>3
  <2>2. CASE PlRun(s, "permit") /\ "item" \notin pltaken[s]
    <3>1. /\ PlRelease(plpc) /\ plfins' = plfins /\ pltaken' = [pltaken EXCEPT ![s] = @ \ {"permit"}]
          /\ pldisturbed' = pldisturbed /\ plscope' = plscope /\ plscope[s] = "drained"
          /\ "permit" \in pltaken[s]
      BY <2>2 DEF PlRun
    <3>2. QED BY <2>2, <3>1, <1>3
  <2>3. CASE PlDrainConflict(s) /\ "permit" \in pltaken[s]
    <3>1. /\ PlRelease(plpc) /\ plfins' = plfins /\ pltaken' = [pltaken EXCEPT ![s] = {}]
          /\ pldisturbed' = pldisturbed \cup {s} /\ plscope' = [plscope EXCEPT ![s] = "closed"]
          /\ plscope[s] = "taken" /\ "permit" \in pltaken[s] /\ plfins[s] # {}
      BY <2>3 DEF PlDrainConflict, PlDropped, PlGoes
    <3>2. QED BY <3>1, <1>3
  <2>4. CASE PlForget(s) /\ "permit" \in plfins[s]
    <3>1. /\ PlRelease(plpc) /\ plfins' = [plfins EXCEPT ![s] = {}] /\ pltaken' = pltaken
          /\ pldisturbed' = pldisturbed /\ plscope' = [plscope EXCEPT ![s] = "gone"]
          /\ plpc[s] \in {"done", "failed"} /\ "permit" \in plfins[s]
          /\ plscope[s] = "open" \/ pltaken[s] = {}
      BY <2>4 DEF PlForget, PlDropped
    <3>2. pltaken[s] = {} BY <3>1, <1>1 DEF PlShaped
    <3>3. QED BY <3>1, <3>2, <1>3
  <2>5. QED BY <2>1, <2>2, <2>3, <2>4
<1>6. plfins[s] \subseteq {"permit", "item"} /\ pltaken[s] \subseteq {"permit", "item"}
  BY <1>3 DEF PlFinalizers
<1>7. s \in PlHolders /\ plpc[s] # "waiting" /\ "permit" \notin PlKept(s)'
      /\ to[s] \notin {"waiting", "granted", "held"}
  BY <1>1, <1>5, <1>6 DEF PlShaped, PlHolders, PlKept
<1>8. /\ plpermits' \in Nat /\ plqueue' \in Seq(PlScopes) /\ plpc' \in [PlScopes -> PlPlacesOfGet]
      /\ PlQueued' /\ PlPermitsConserved' /\ plpc'[s] = to[s]
      /\ \A u \in PlScopes : u # s => \/ plpc'[u] = plpc[u]
                                      \/ plpc[u] = "waiting" /\ plpc'[u] = "granted"
  BY <1>4, <1>5, <1>7, PlReleaseOk
<1>9. PlShaped(s)' BY <1>1, <1>2, <1>5, <1>6, <1>8 DEF PlShaped, PlKept
<1>10. /\ PlOut(s)' => PlOut(s)
       /\ PlBefore(s)' => PlBefore(s)
       /\ PlUsing(s)' => PlUsing(s)
  BY <1>1, <1>2, <1>5, <1>6, <1>8 DEF PlShaped, PlKept, PlOut, PlBefore, PlUsing
<1>11. PoolTypeOK'
  <2>1. plfins' \in [PlScopes -> SUBSET PlFinalizers]
    BY <1>3 DEF PlCheckPermit, PlRun, PlDrainConflict, PlForget, plclosing
  <2>2. pltaken' \in [PlScopes -> SUBSET PlFinalizers]
    BY <1>3 DEF PlCheckPermit, PlRun, PlDrainConflict, PlForget, plclosing
  <2>3. plscope' \in [PlScopes -> {"open", "closed", "taken", "drained", "gone"}]
    BY <1>3 DEF PlCheckPermit, PlRun, PlDrainConflict, PlForget, PlGoes, plclosing
  <2>4. pldisturbed' \subseteq PlScopes BY <1>3, <1>5
  <2>5. QED BY <1>1, <1>2, <1>8, <2>1, <2>2, <2>3, <2>4 DEF PoolTypeOK, PlPlacesOfGet
<1>12. \A u \in PlScopes : u # s => PlSame(u) BY <1>4, <1>8 DEF PlSame
<1>13. pldisturbed \subseteq pldisturbed' BY <1>5
<1>14. QED BY <1>2, <1>8, <1>9, <1>10, <1>11, <1>12, <1>13, PlLocalOk

\* What is left of the idle values behind the one that is taken.
LEMMA PlRest ==
  ASSUME NEW S, NEW slots \in Seq(S), IsInjective(slots), NEW i \in DOMAIN slots
  PROVE  LET rest == SubSeq(slots, i + 1, Len(slots))
         IN  /\ rest \in Seq(S) /\ IsInjective(rest) /\ Range(rest) \subseteq Range(slots) \ {slots[i]}
             /\ Len(rest) + 1 <= Len(slots) /\ Len(rest) \in Nat
<1>1. Len(slots) \in Nat /\ i \in 1..Len(slots) /\ DOMAIN slots = 1..Len(slots) OBVIOUS
<1>2. \A j \in i + 1..Len(slots) : slots[j] \in S BY <1>1
<1>3. PICK rest \in Seq(S) : rest = SubSeq(slots, i + 1, Len(slots))
  <2>1. SubSeq(slots, i + 1, Len(slots)) \in Seq(S) BY <1>1, <1>2, SubSeqProperties
  <2>2. QED BY <2>1, Zenon
<1>4. /\ Len(rest) = Len(slots) - i
      /\ \A j \in 1..Len(slots) - i : rest[j] = slots[i + j]
  <2>1. /\ Len(rest) = IF i + 1 <= Len(slots) THEN Len(slots) - (i + 1) + 1 ELSE 0
        /\ \A j \in 1..Len(slots) - (i + 1) + 1 : rest[j] = slots[(i + 1) + j - 1]
    BY <1>1, <1>2, <1>3, SubSeqProperties
  <2>2. Len(slots) - (i + 1) + 1 = Len(slots) - i BY <1>1
  <2>3. \A j \in 1..Len(slots) - i : (i + 1) + j - 1 = i + j BY <1>1
  <2>4. QED BY <1>1, <2>1, <2>2, <2>3
<1>5. DOMAIN rest = 1..Len(slots) - i BY <1>4
<1>6. \A j \in DOMAIN rest : i + j \in DOMAIN slots /\ i + j # i /\ rest[j] = slots[i + j]
  BY <1>1, <1>4, <1>5
<1>7. IsInjective(rest)
  <2> SUFFICES ASSUME NEW a \in DOMAIN rest, NEW b \in DOMAIN rest, rest[a] = rest[b] PROVE a = b
    BY DEF IsInjective
  <2>1. slots[i + a] = slots[i + b] BY <1>6
  <2>2. i + a = i + b BY <2>1, <1>6 DEF IsInjective
  <2>3. QED BY <2>2, <1>1, <1>5
<1>8. Range(rest) \subseteq Range(slots) \ {slots[i]}
  <2> SUFFICES ASSUME NEW j \in DOMAIN rest PROVE rest[j] \in Range(slots) \ {slots[i]} BY DEF Range
  <2>1. rest[j] \in Range(slots) BY <1>6 DEF Range
  <2>2. rest[j] # slots[i] BY <1>6 DEF IsInjective
  <2>3. QED BY <2>1, <2>2
<1>9. Len(rest) + 1 <= Len(slots) /\ Len(rest) \in Nat BY <1>1, <1>4
<1>10. QED BY <1>3, <1>7, <1>8, <1>9

\* An idle value is reused.
LEMMA PlTakeIdleOk == ASSUME PoolIInv, NEW s \in PlScopes, PlTakeIdle(s) PROVE PoolIInv'
<1>1. PoolTypeOK /\ PlShape /\ PlQueued /\ PlPermitsConserved /\ PlFits /\ PlPlaces /\ PlClean BY DEF PoolIInv
<1>2. /\ plpc \in [PlScopes -> PlPlacesOfGet] /\ plidle \in [PlKeys -> Seq(PlItems)]
      /\ plitem \in [PlScopes -> PlItems \cup {PlNoItem}] /\ plexpired \subseteq PlItems
      /\ plkey \in [PlScopes -> PlKeys]
  BY <1>1, PlTypes
<1>3. PICK mine \in PlKeys : mine = plkey[s] BY <1>2
<1>4. PICK slots \in Seq(PlItems) : slots = plidle[mine] BY <1>2
<1>5. PICK good : good = {i \in DOMAIN slots : slots[i] \notin plexpired \cup pldiscard} OBVIOUS
<1>6. IsInjective(slots) /\ Len(slots) \in Nat BY <1>1, <1>4 DEF PlPlaces
<1>7. good # {} => Min(good) \in DOMAIN slots
  <2> SUFFICES ASSUME good # {} PROVE Min(good) \in DOMAIN slots OBVIOUS
  <2>1. good \in SUBSET Nat BY <1>5
  <2>2. PICK x \in good : \A y \in good : x <= y BY <2>1, LeastOf
  <2>3. Min(good) \in good BY <2>2 DEF Min
  <2>4. QED BY <2>3, <1>5
<1>8. PICK rest : rest = IF good = {} THEN <<>> ELSE SubSeq(slots, Min(good) + 1, Len(slots)) OBVIOUS
<1>9. /\ plpc[s] = "take" /\ plidle' = [plidle EXCEPT ![mine] = rest]
      /\ plexpired' = plexpired \ (ToSet(slots) \ ToSet(rest))
      /\ \/ good = {} /\ plpc' = [plpc EXCEPT ![s] = "make"] /\ plitem' = plitem
         \/ /\ good # {} /\ plpc' = [plpc EXCEPT ![s] = "register"]
            /\ plitem' = [plitem EXCEPT ![s] = slots[Min(good)]]
      /\ plpermits' = plpermits /\ plqueue' = plqueue /\ pldiscard' = pldiscard
      /\ plscope' = plscope /\ plfins' = plfins /\ pltaken' = pltaken /\ pldisturbed' = pldisturbed
      /\ plkey' = plkey
  BY <1>3, <1>4, <1>5, <1>8 DEF PlTakeIdle, plcounts, plclosing
<1>10. /\ rest \in Seq(PlItems) /\ IsInjective(rest) /\ Range(rest) \subseteq Range(slots)
       /\ Len(rest) \in Nat
       /\ good # {} => Range(rest) \subseteq Range(slots) \ {slots[Min(good)]}
  <2>1. CASE good = {}
    <3>1. rest = <<>> /\ <<>> \in Seq(PlItems) /\ Len(<<>>) = 0 BY <2>1, <1>8
    <3>2. QED BY <2>1, <3>1, EmptyLine
  <2>2. CASE good # {}
    <3>1. PICK i \in DOMAIN slots : i = Min(good) BY <2>2, <1>7
    <3>2. rest = SubSeq(slots, i + 1, Len(slots)) BY <2>2, <3>1, <1>8
    <3>3. QED BY <3>1, <3>2, <1>6, PlRest
  <2>3. QED BY <2>1, <2>2
<1>11. /\ good = {} => Len(rest) = 0
       /\ good # {} => Len(rest) + 1 <= Len(slots)
  <2>1. good = {} => Len(rest) = 0 BY <1>8
  <2>2. ASSUME good # {} PROVE Len(rest) + 1 <= Len(slots)
    <3>1. PICK i \in DOMAIN slots : i = Min(good) BY <2>2, <1>7
    <3>2. rest = SubSeq(slots, i + 1, Len(slots)) BY <2>2, <3>1, <1>8
    <3>3. QED BY <3>2, <1>6, PlRest
  <2>3. QED BY <2>1, <2>2
<1>12. PICK x : x = slots[Min(good)] OBVIOUS
<1>13. ASSUME good # {} PROVE x \in PlItems /\ x \in Range(slots) /\ x \notin Range(rest)
  <2>1. PICK i \in DOMAIN slots : i = Min(good) BY <1>7, <1>13
  <2>2. x = slots[i] BY <2>1, <1>12
  <2>3. x \in Range(slots) BY <2>2 DEF Range
  <2>4. Range(slots) \subseteq PlItems BY RangeOf
  <2>5. x \notin Range(rest) BY <1>10, <1>12, <1>13
  <2>6. QED BY <2>3, <2>4, <2>5
<1>14. /\ \A u \in PlScopes : u # s => plpc'[u] = plpc[u] /\ plitem'[u] = plitem[u]
       /\ good = {} => plpc'[s] = "make" /\ plitem'[s] = plitem[s]
       /\ good # {} => plpc'[s] = "register" /\ plitem'[s] = x
       /\ plpc'[s] \in {"make", "register"}
  BY <1>2, <1>9, <1>12
<1>15. \A k \in PlKeys : plidle'[k] = IF k = mine THEN rest ELSE plidle[k] BY <1>2, <1>9
<1>16. \A k \in PlKeys : Range(plidle'[k]) \subseteq Range(plidle[k]) BY <1>4, <1>10, <1>15
<1>17. PoolTypeOK'
  <2>1. plpc' \in [PlScopes -> PlPlacesOfGet] BY <1>2, <1>9 DEF PlPlacesOfGet
  <2>2. plitem' \in [PlScopes -> PlItems \cup {PlNoItem}] BY <1>2, <1>9, <1>12, <1>13
  <2>3. plidle' \in [PlKeys -> Seq(PlItems)] BY <1>2, <1>9, <1>10
  <2>4. plexpired' \subseteq PlItems BY <1>2, <1>9
  <2>5. QED BY <1>1, <1>9, <2>1, <2>2, <2>3, <2>4 DEF PoolTypeOK, PlPlacesOfGet
<1>18. PlQueued' /\ PlPermitsConserved'
  <2>1. \A u \in PlScopes : /\ plpc'[u] = "waiting" <=> plpc[u] = "waiting"
                            /\ u \in PlHolders' <=> u \in PlHolders
    BY <1>9, <1>14 DEF PlHolders, PlKept
  <2>2. QED BY <1>9, <2>1, PlPermitsStay
<1>19. PlShaped(s) /\ "item" \notin PlKept(s) /\ s \notin pldisturbed /\ plitem[s] = PlNoItem
  BY <1>1, <1>9 DEF PlShape, PlShaped
<1>20. PlShape'
  <2> SUFFICES ASSUME NEW u \in PlScopes PROVE PlShaped(u)' BY DEF PlShape
  <2>1. CASE u = s
    <3>1. good # {} => x # PlNoItem BY <1>13, PoolAssumption DEF PlItems
    <3>2. QED BY <2>1, <3>1, <1>9, <1>14, <1>19 DEF PlShaped, PlKept
  <2>2. CASE u # s
    <3>1. plpc'[u] = plpc[u] /\ plitem'[u] = plitem[u] /\ PlShaped(u) BY <2>2, <1>1, <1>14 DEF PlShape
    <3>2. QED BY <3>1, <1>9 DEF PlShaped, PlKept
  <2>3. QED BY <2>1, <2>2
<1>21. \A u \in PlScopes : /\ u # s => (PlOut(u)' <=> PlOut(u)) /\ (PlBefore(u)' <=> PlBefore(u))
                           /\ u = s => PlBefore(u) /\ (PlOut(u)' => good # {})
                           /\ u = s => (PlBefore(u)' => good = {})
  BY <1>9, <1>14, <1>19 DEF PlOut, PlBefore, PlKept
<1>22. PlPlaces'
  <2>1. \A k \in PlKeys : IsInjective(plidle'[k]) BY <1>1, <1>10, <1>15 DEF PlPlaces
  <2>2. \A k, l \in PlKeys : k # l => Range(plidle'[k]) \cap Range(plidle'[l]) = {}
    <3>1. \A k, l \in PlKeys : k # l => Range(plidle[k]) \cap Range(plidle[l]) = {} BY <1>1 DEF PlPlaces
    <3>2. QED BY <3>1, <1>16
  <2>3. good # {} => \A u \in PlScopes : PlOut(u) => plitem[u] # x
    BY <1>1, <1>4, <1>13 DEF PlPlaces
  <2>4. ASSUME NEW u \in PlScopes, NEW t \in PlScopes, PlOut(u)', PlOut(t)', plitem'[u] = plitem'[t]
        PROVE  u = t
    <3>1. CASE u = s /\ t # s BY <2>3, <2>4, <3>1, <1>14, <1>21
    <3>2. CASE t = s /\ u # s BY <2>3, <2>4, <3>2, <1>14, <1>21
    <3>3. CASE u # s /\ t # s BY <2>4, <3>3, <1>1, <1>14, <1>21 DEF PlPlaces
    <3>4. QED BY <3>1, <3>2, <3>3
  <2>5. ASSUME NEW u \in PlScopes, PlOut(u)', NEW k \in PlKeys PROVE plitem'[u] \notin Range(plidle'[k])
    <3>1. CASE u = s
      <4>1. good # {} /\ plitem'[u] = x BY <2>5, <3>1, <1>14, <1>21
      <4>2. k # mine => x \notin Range(plidle[k]) BY <4>1, <1>1, <1>4, <1>13 DEF PlPlaces
      <4>3. QED BY <4>1, <4>2, <1>13, <1>15
    <3>2. CASE u # s
      <4>1. PlOut(u) /\ plitem'[u] = plitem[u] BY <2>5, <3>2, <1>14, <1>21
      <4>2. plitem[u] \notin Range(plidle[k]) BY <4>1, <1>1 DEF PlPlaces
      <4>3. QED BY <4>1, <4>2, <1>16
    <3>3. QED BY <3>1, <3>2
  <2>6. ASSUME NEW u \in PlScopes, PlBefore(u)'
        PROVE  /\ \A k \in PlKeys : u \notin Range(plidle'[k])
               /\ \A t \in PlScopes : plitem'[t] # u
    <3>1. PlBefore(u) BY <2>6, <1>21
    <3>2. /\ \A k \in PlKeys : u \notin Range(plidle[k])
          /\ \A t \in PlScopes : plitem[t] # u
      BY <3>1, <1>1 DEF PlPlaces, PlBefore
    <3>3. good # {} => x # u BY <3>2, <1>4, <1>13
    <3>4. QED BY <3>2, <3>3, <1>14, <1>16
  <2>7. QED BY <2>1, <2>2, <2>4, <2>5, <2>6 DEF PlPlaces, PlBefore
<1>23. PlClean' BY <1>1, <1>9, <1>16 DEF PlClean
<1>24. PlFits'
  <2> SUFFICES ASSUME NEW k \in PlKeys
               PROVE  Len(plidle'[k]) + Cardinality(PlUse(k)') <= PlCapacity + Cardinality(PlExtra(k)')
    BY DEF PlFits
  <2>1. PICK U \in SUBSET PlScopes : U = PlUse(k) BY DEF PlUse
  <2>2. PICK H \in SUBSET PlScopes : H = PlHolders BY DEF PlHolders
  <2>3. PICK X \in SUBSET PlScopes : X = PlExtra(k) /\ X = PlExtra(k)'
    <3>1. PlExtra(k) \in SUBSET PlScopes BY <1>1 DEF PlExtra, PoolTypeOK
    <3>2. PlExtra(k)' = PlExtra(k) BY <1>9 DEF PlExtra
    <3>3. QED BY <3>1, <3>2
  <2>4. /\ IsFiniteSet(U) /\ Cardinality(U) \in Nat /\ IsFiniteSet(H) /\ Cardinality(H) \in Nat
        /\ IsFiniteSet(X) /\ Cardinality(X) \in Nat
    BY PlFinite
  <2>5. /\ Len(plidle[k]) + Cardinality(U) <= PlCapacity + Cardinality(X) /\ Cardinality(H) <= PlCapacity
        /\ Len(plidle[k]) \in Nat
    <3>1. Len(plidle[k]) + Cardinality(PlUse(k)) <= PlCapacity + Cardinality(PlExtra(k)) BY <1>1 DEF PlFits
    <3>2. plpermits + Cardinality(PlHolders) = PlCapacity /\ plpermits \in Nat
      BY <1>1 DEF PlPermitsConserved, PoolTypeOK
    <3>3. QED BY <3>1, <3>2, <2>1, <2>2, <2>3, <2>4, <1>2, PoolAssumption
  <2>6. \A u \in PlScopes : u # s => (u \in PlUse(k)' <=> u \in U)
    BY <1>9, <1>14, <2>1 DEF PlUse, PlUsing, PlKept
  <2>7. s \notin U BY <1>9, <1>19, <2>1 DEF PlUse, PlUsing
  <2>8. PICK U1 \in SUBSET PlScopes : U1 = PlUse(k)' BY DEF PlUse
  <2>9. \A u \in PlScopes : u # s => (u \in U1 <=> u \in U) BY <2>6, <2>8
  <2>10. CASE s \notin U1
    <3>1. U1 = U
      <4>1. \A u \in PlScopes : u \in U1 <=> u \in U BY <2>7, <2>9, <2>10
      <4>2. QED BY <4>1
    <3>2. Len(plidle'[k]) <= Len(plidle[k]) /\ Len(plidle'[k]) \in Nat
      BY <1>4, <1>6, <1>10, <1>11, <1>15, <2>5
    <3>3. Len(plidle'[k]) + Cardinality(U1) <= PlCapacity + Cardinality(X)
      BY <3>1, <3>2, <2>4, <2>5, PoolAssumption
    <3>4. QED BY <3>3, <2>3, <2>8, Zenon
  <2>11. CASE s \in U1
    <3>1. U1 = U \cup {s} BY <2>9, <2>11
    <3>2. k = mine /\ plidle'[k] = rest
      <4>1. plkey'[s] = k BY <2>8, <2>11 DEF PlUse
      <4>2. k = mine BY <4>1, <1>3, <1>9
      <4>3. QED BY <4>2, <1>15
    <3>3. "permit" \in PlKept(s)
      <4>1. PlUsing(s)' BY <2>8, <2>11 DEF PlUse
      <4>2. QED BY <4>1, <1>9, <1>19 DEF PlUsing, PlKept
    <3>4. Cardinality(U1) = Cardinality(U) + 1
      <4>1. Cardinality(U \cup {s}) = Cardinality(U) + 1 BY <2>4, <2>7, FS_AddElement
      <4>2. QED BY <3>1, <4>1, Zenon
    <3>5. CASE good # {}
      <4>1. Len(rest) + 1 <= Len(plidle[k]) BY <3>2, <3>5, <1>4, <1>11
      <4>2. Len(plidle'[k]) + Cardinality(U1) <= PlCapacity + Cardinality(X)
        BY <3>2, <3>4, <4>1, <1>10, <2>4, <2>5, PoolAssumption
      <4>3. QED BY <4>2, <2>3, <2>8, Zenon
    <3>6. CASE good = {}
      <4>1. U1 \subseteq H \cup X
        <5>1. s \in H BY <3>3, <2>2 DEF PlHolders
        <5>2. U \subseteq H \cup X BY <2>1, <2>2, <2>3 DEF PlUse, PlUsing, PlHolders, PlExtra
        <5>3. QED BY <3>1, <5>1, <5>2
      <4>2. /\ IsFiniteSet(H \cup X) /\ IsFiniteSet(H \cap X)
            /\ Cardinality(H \cup X) = Cardinality(H) + Cardinality(X) - Cardinality(H \cap X)
        BY <2>4, FS_Union, PlFinite
      <4>3. Cardinality(H \cap X) \in Nat /\ Cardinality(H \cup X) \in Nat BY <4>2, FS_CardinalityType
      <4>4. Cardinality(U1) <= Cardinality(H \cup X) BY <4>1, PlFinite
      <4>5. Len(plidle'[k]) = 0 BY <3>2, <3>6, <1>11
      <4>6. Len(plidle'[k]) + Cardinality(U1) <= PlCapacity + Cardinality(X)
        BY <4>2, <4>3, <4>4, <4>5, <3>4, <2>4, <2>5, PoolAssumption
      <4>7. QED BY <4>6, <2>3, <2>8, Zenon
    <3>7. QED BY <3>5, <3>6
  <2>12. QED BY <2>10, <2>11
<1>25. QED BY <1>17, <1>18, <1>20, <1>22, <1>23, <1>24 DEF PoolIInv

\* The factory makes a value, which nobody has had.
LEMMA PlMadeOk == ASSUME PoolIInv, NEW s \in PlScopes, PlMade(s) PROVE PoolIInv'
<1>1. PoolTypeOK /\ PlShape /\ PlQueued /\ PlPermitsConserved /\ PlFits /\ PlPlaces /\ PlClean BY DEF PoolIInv
<1>2. /\ plpc \in [PlScopes -> PlPlacesOfGet] /\ plitem \in [PlScopes -> PlItems \cup {PlNoItem}]
      /\ plidle \in [PlKeys -> Seq(PlItems)]
  BY <1>1, PlTypes
<1>3. /\ plpc[s] = "make" /\ plpc' = [plpc EXCEPT ![s] = "register"]
      /\ plitem' = [plitem EXCEPT ![s] = s]
      /\ plpermits' = plpermits /\ plqueue' = plqueue /\ plidle' = plidle /\ plexpired' = plexpired
      /\ pldiscard' = pldiscard /\ plkey' = plkey /\ plscope' = plscope /\ plfins' = plfins
      /\ pltaken' = pltaken /\ pldisturbed' = pldisturbed
  BY DEF PlMade, plcounts, plvalues, plclosing
<1>4. /\ plpc'[s] = "register" /\ plitem'[s] = s
      /\ \A u \in PlScopes : u # s => plpc'[u] = plpc[u] /\ plitem'[u] = plitem[u]
  BY <1>2, <1>3
<1>5. PoolTypeOK'
  <2>1. plpc' \in [PlScopes -> PlPlacesOfGet] BY <1>2, <1>3 DEF PlPlacesOfGet
  <2>2. plitem' \in [PlScopes -> PlItems \cup {PlNoItem}] BY <1>2, <1>3 DEF PlItems
  <2>3. QED BY <1>1, <1>3, <2>1, <2>2 DEF PoolTypeOK, PlPlacesOfGet
<1>6. PlQueued' /\ PlPermitsConserved'
  <2>1. \A u \in PlScopes : /\ plpc'[u] = "waiting" <=> plpc[u] = "waiting"
                            /\ u \in PlHolders' <=> u \in PlHolders
    BY <1>3, <1>4 DEF PlHolders, PlKept
  <2>2. QED BY <1>3, <2>1, PlPermitsStay
<1>7. PlShaped(s) /\ "item" \notin PlKept(s) /\ s \notin pldisturbed BY <1>1, <1>3 DEF PlShape, PlShaped
<1>8. PlShape'
  <2> SUFFICES ASSUME NEW u \in PlScopes PROVE PlShaped(u)' BY DEF PlShape
  <2>1. CASE u = s BY <2>1, <1>3, <1>4, <1>7, PoolAssumption DEF PlShaped, PlKept
  <2>2. CASE u # s
    <3>1. plpc'[u] = plpc[u] /\ plitem'[u] = plitem[u] /\ PlShaped(u) BY <2>2, <1>1, <1>4 DEF PlShape
    <3>2. QED BY <3>1, <1>3 DEF PlShaped, PlKept
  <2>3. QED BY <2>1, <2>2
<1>9. /\ \A k \in PlKeys : s \notin Range(plidle[k])
      /\ \A t \in PlScopes : plitem[t] # s
  BY <1>1, <1>3 DEF PlPlaces, PlBefore
<1>10. \A u \in PlScopes : /\ u # s => (PlOut(u)' <=> PlOut(u))
                           /\ PlBefore(u)' => PlBefore(u) /\ u # s
  BY <1>3, <1>4 DEF PlOut, PlBefore, PlKept
<1>11. PlPlaces'
  <2>1. /\ \A k \in PlKeys : IsInjective(plidle'[k])
        /\ \A k, l \in PlKeys : k # l => Range(plidle'[k]) \cap Range(plidle'[l]) = {}
    BY <1>1, <1>3 DEF PlPlaces
  <2>2. ASSUME NEW u \in PlScopes, NEW t \in PlScopes, PlOut(u)', PlOut(t)', plitem'[u] = plitem'[t]
        PROVE  u = t
    <3>1. CASE u = s \/ t = s BY <2>2, <3>1, <1>4, <1>9
    <3>2. CASE u # s /\ t # s BY <2>2, <3>2, <1>1, <1>4, <1>10 DEF PlPlaces
    <3>3. QED BY <3>1, <3>2
  <2>3. ASSUME NEW u \in PlScopes, PlOut(u)', NEW k \in PlKeys PROVE plitem'[u] \notin Range(plidle'[k])
    <3>1. CASE u = s BY <3>1, <1>3, <1>4, <1>9
    <3>2. CASE u # s BY <2>3, <3>2, <1>1, <1>3, <1>4, <1>10 DEF PlPlaces
    <3>3. QED BY <3>1, <3>2
  <2>4. ASSUME NEW u \in PlScopes, PlBefore(u)'
        PROVE  /\ \A k \in PlKeys : u \notin Range(plidle'[k])
               /\ \A t \in PlScopes : plitem'[t] # u
    <3>1. PlBefore(u) /\ u # s BY <2>4, <1>10
    <3>2. /\ \A k \in PlKeys : u \notin Range(plidle[k])
          /\ \A t \in PlScopes : plitem[t] # u
      BY <3>1, <1>1 DEF PlPlaces, PlBefore
    <3>3. QED BY <3>1, <3>2, <1>3, <1>4
  <2>5. QED BY <2>1, <2>2, <2>3, <2>4 DEF PlPlaces, PlBefore
<1>12. PlClean' BY <1>1, <1>3 DEF PlClean
<1>13. PlFits'
  <2> SUFFICES ASSUME NEW k \in PlKeys
               PROVE  Len(plidle'[k]) + Cardinality(PlUse(k)') <= PlCapacity + Cardinality(PlExtra(k)')
    BY DEF PlFits
  <2>1. PlUse(k)' = PlUse(k)
    <3>1. \A u \in PlScopes : u \in PlUse(k)' <=> u \in PlUse(k) BY <1>3, <1>4 DEF PlUse, PlUsing, PlKept
    <3>2. PlUse(k)' \subseteq PlScopes /\ PlUse(k) \subseteq PlScopes BY DEF PlUse
    <3>3. QED BY <3>1, <3>2
  <2>2. PlExtra(k)' = PlExtra(k) BY <1>3 DEF PlExtra
  <2>3. Len(plidle[k]) + Cardinality(PlUse(k)) <= PlCapacity + Cardinality(PlExtra(k)) BY <1>1 DEF PlFits
  <2>4. QED BY <2>1, <2>2, <2>3, <1>3
<1>14. QED BY <1>5, <1>6, <1>8, <1>11, <1>12, <1>13 DEF PoolIInv

\* The check-in finalizer returns a value.
LEMMA PlCheckInOk == ASSUME PoolIInv, NEW s \in PlScopes, PlRun(s, "item") PROVE PoolIInv'
<1>1. PoolTypeOK /\ PlShape /\ PlQueued /\ PlPermitsConserved /\ PlFits /\ PlPlaces /\ PlClean BY DEF PoolIInv
<1>2. /\ plpc \in [PlScopes -> PlPlacesOfGet] /\ plitem \in [PlScopes -> PlItems \cup {PlNoItem}]
      /\ plidle \in [PlKeys -> Seq(PlItems)] /\ plkey \in [PlScopes -> PlKeys]
      /\ pltaken \in [PlScopes -> SUBSET PlFinalizers]
  BY <1>1, PlTypes
<1>3. PICK mine \in PlKeys : mine = plkey[s] BY <1>2
<1>4. /\ plscope[s] = "drained" /\ "item" \in pltaken[s] /\ pltaken' = [pltaken EXCEPT ![s] = @ \ {"item"}]
      /\ plpermits' = plpermits /\ plqueue' = plqueue /\ plpc' = plpc /\ plexpired' = plexpired
      /\ pldiscard' = pldiscard /\ plscope' = plscope /\ plkey' = plkey /\ plitem' = plitem
      /\ plfins' = plfins /\ pldisturbed' = pldisturbed
      /\ plidle' = IF plitem[s] \in pldiscard THEN plidle
                   ELSE [plidle EXCEPT ![mine] = Append(plidle[mine], plitem[s])]
  BY <1>2, <1>3 DEF PlRun, PlCheckIn, plcounts
<1>5. PlShaped(s) /\ plpc[s] = "done" /\ "item" \notin plfins[s]
  BY <1>1, <1>4 DEF PlShape, PlShaped, PlKept
<1>6. PICK x \in PlItems : x = plitem[s]
  <2>1. plitem[s] # PlNoItem BY <1>5 DEF PlShaped
  <2>2. QED BY <1>2, <2>1
<1>7. "item" \in PlKept(s) /\ PlOut(s) BY <1>4 DEF PlKept, PlOut
<1>8. /\ pltaken' \in [PlScopes -> SUBSET PlFinalizers] /\ pltaken'[s] = pltaken[s] \ {"item"}
      /\ \A u \in PlScopes : u # s => pltaken'[u] = pltaken[u]
  BY <1>2, <1>4
<1>9. PICK slots \in Seq(PlItems) : slots = plidle[mine] BY <1>2
<1>10. IsInjective(slots) /\ x \notin Range(slots) /\ \A k \in PlKeys : x \notin Range(plidle[k])
  BY <1>1, <1>6, <1>7, <1>9 DEF PlPlaces
<1>11. PICK more \in Seq(PlItems) : more = IF x \in pldiscard THEN slots ELSE Append(slots, x)
  <2>1. Append(slots, x) \in Seq(PlItems) OBVIOUS
  <2>2. CASE x \in pldiscard BY <2>2
  <2>3. CASE x \notin pldiscard BY <2>1, <2>3
  <2>4. QED BY <2>2, <2>3
<1>12. \A k \in PlKeys : plidle'[k] = IF k = mine THEN more ELSE plidle[k]
  <2>1. CASE x \in pldiscard BY <2>1, <1>4, <1>6, <1>9, <1>11
  <2>2. CASE x \notin pldiscard BY <2>2, <1>2, <1>4, <1>6, <1>9, <1>11
  <2>3. QED BY <2>1, <2>2
<1>13. plidle' \in [PlKeys -> Seq(PlItems)]
  <2>1. CASE x \in pldiscard BY <2>1, <1>2, <1>4, <1>6
  <2>2. CASE x \notin pldiscard
    <3>1. plidle' = [plidle EXCEPT ![mine] = more] BY <2>2, <1>4, <1>6, <1>9, <1>11
    <3>2. QED BY <3>1, <1>2
  <2>3. QED BY <2>1, <2>2
<1>14. /\ IsInjective(more) /\ Range(slots) \subseteq Range(more) /\ Range(more) \subseteq Range(slots) \cup {x}
       /\ x \in Range(more) => x \notin pldiscard
       /\ Len(more) \in Nat /\ Len(more) <= Len(slots) + 1
  <2>0. Len(slots) \in Nat OBVIOUS
  <2>1. CASE x \in pldiscard
    <3>1. more = slots BY <2>1, <1>11
    <3>2. QED BY <3>1, <2>0, <1>10
  <2>2. CASE x \notin pldiscard
    <3>1. /\ IsInjective(Append(slots, x)) /\ Range(Append(slots, x)) = Range(slots) \cup {x}
      BY <1>10, AppendOnce
    <3>2. Len(Append(slots, x)) = Len(slots) + 1 OBVIOUS
    <3>3. more = Append(slots, x) BY <2>2, <1>11
    <3>4. QED BY <2>0, <2>2, <3>1, <3>2, <3>3
  <2>3. QED BY <2>1, <2>2
<1>15. PoolTypeOK' BY <1>1, <1>4, <1>8, <1>13 DEF PoolTypeOK
<1>16. PlQueued' /\ PlPermitsConserved'
  <2>1. \A u \in PlScopes : u \in PlHolders' <=> u \in PlHolders BY <1>4, <1>8 DEF PlHolders, PlKept
  <2>2. QED BY <2>1, <1>4, PlPermitsStay
<1>17. PlShape'
  <2> SUFFICES ASSUME NEW u \in PlScopes PROVE PlShaped(u)' BY DEF PlShape
  <2>1. CASE u = s
    <3>1. plitem'[s] # PlNoItem /\ plpc'[s] = "done" BY <1>4, <1>5, <1>6, PoolAssumption DEF PlItems
    <3>2. QED BY <2>1, <3>1, <1>4, <1>5, <1>8 DEF PlShaped, PlKept
  <2>2. CASE u # s
    <3>1. pltaken'[u] = pltaken[u] /\ PlShaped(u) BY <2>2, <1>1, <1>8 DEF PlShape
    <3>2. QED BY <3>1, <1>4 DEF PlShaped, PlKept
  <2>3. QED BY <2>1, <2>2
<1>18. \A u \in PlScopes : /\ PlOut(u)' => PlOut(u) /\ u # s
                           /\ PlBefore(u)' => PlBefore(u) /\ u # s
  BY <1>4, <1>5, <1>8 DEF PlOut, PlBefore, PlKept
<1>19. \A k \in PlKeys : /\ Range(plidle'[k]) \subseteq Range(plidle[k]) \cup {x}
                         /\ k # mine => plidle'[k] = plidle[k]
                         /\ x \in Range(plidle'[k]) => k = mine /\ x \notin pldiscard
  BY <1>9, <1>10, <1>12, <1>14
<1>20. PlPlaces'
  <2>1. \A k \in PlKeys : IsInjective(plidle'[k]) BY <1>1, <1>12, <1>14 DEF PlPlaces
  <2>2. ASSUME NEW k \in PlKeys, NEW l \in PlKeys, k # l
        PROVE  Range(plidle'[k]) \cap Range(plidle'[l]) = {}
    <3>1. Range(plidle[k]) \cap Range(plidle[l]) = {} BY <2>2, <1>1 DEF PlPlaces
    <3>2. QED BY <2>2, <3>1, <1>19
  <2>3. ASSUME NEW u \in PlScopes, NEW t \in PlScopes, PlOut(u)', PlOut(t)', plitem'[u] = plitem'[t]
        PROVE  u = t
    BY <2>3, <1>1, <1>4, <1>18 DEF PlPlaces
  <2>4. ASSUME NEW u \in PlScopes, PlOut(u)', NEW k \in PlKeys PROVE plitem'[u] \notin Range(plidle'[k])
    <3>1. PlOut(u) /\ u # s /\ PlOut(s) BY <2>4, <1>7, <1>18
    <3>2. plitem[u] # x /\ plitem[u] \notin Range(plidle[k]) BY <3>1, <1>1, <1>6 DEF PlPlaces
    <3>3. QED BY <3>2, <1>4, <1>19
  <2>5. ASSUME NEW u \in PlScopes, PlBefore(u)'
        PROVE  /\ \A k \in PlKeys : u \notin Range(plidle'[k])
               /\ \A t \in PlScopes : plitem'[t] # u
    <3>1. PlBefore(u) /\ u # s BY <2>5, <1>18
    <3>2. /\ \A k \in PlKeys : u \notin Range(plidle[k])
          /\ \A t \in PlScopes : plitem[t] # u
      BY <3>1, <1>1 DEF PlPlaces, PlBefore
    <3>3. u # x BY <3>2, <1>6
    <3>4. QED BY <3>2, <3>3, <1>4, <1>19
  <2>6. QED BY <2>1, <2>2, <2>3, <2>4, <2>5 DEF PlPlaces, PlBefore
<1>21. PlClean'
  <2> SUFFICES ASSUME NEW k \in PlKeys PROVE Range(plidle'[k]) \cap pldiscard' = {} BY DEF PlClean
  <2>1. Range(plidle[k]) \cap pldiscard = {} BY <1>1 DEF PlClean
  <2>2. QED BY <2>1, <1>4, <1>19
<1>22. PlFits'
  <2> SUFFICES ASSUME NEW k \in PlKeys
               PROVE  Len(plidle'[k]) + Cardinality(PlUse(k)') <= PlCapacity + Cardinality(PlExtra(k)')
    BY DEF PlFits
  <2>1. PICK U \in SUBSET PlScopes : U = PlUse(k) BY DEF PlUse
  <2>2. PICK U1 \in SUBSET PlScopes : U1 = PlUse(k)' BY DEF PlUse
  <2>3. PICK X \in SUBSET PlScopes : X = PlExtra(k) /\ X = PlExtra(k)'
    <3>1. PlExtra(k) \in SUBSET PlScopes BY <1>1 DEF PlExtra, PoolTypeOK
    <3>2. PlExtra(k)' = PlExtra(k) BY <1>4 DEF PlExtra
    <3>3. QED BY <3>1, <3>2
  <2>4. IsFiniteSet(U) /\ Cardinality(U) \in Nat /\ Cardinality(X) \in Nat BY PlFinite
  <2>5. Len(plidle[k]) + Cardinality(U) <= PlCapacity + Cardinality(X) /\ Len(plidle[k]) \in Nat
    <3>1. Len(plidle[k]) + Cardinality(PlUse(k)) <= PlCapacity + Cardinality(PlExtra(k)) BY <1>1 DEF PlFits
    <3>2. QED BY <3>1, <2>1, <2>3, <1>2
  <2>6. \A u \in PlScopes : u \in PlUse(k)' <=> u \in PlUse(k) /\ u # s
    BY <1>4, <1>5, <1>8 DEF PlUse, PlUsing, PlKept
  <2>7. U1 = U \ {s}
    <3>1. \A u \in PlScopes : u \in U1 <=> u \in U /\ u # s BY <2>1, <2>2, <2>6
    <3>2. QED BY <3>1
  <2>8. CASE k = mine
    <3>1. s \in U
      <4>1. PlUsing(s) BY <1>4, <1>5, <1>7 DEF PlUsing, PlShaped, PlKept
      <4>2. QED BY <4>1, <2>1, <2>8, <1>3 DEF PlUse
    <3>2. Cardinality(U \ {s}) = Cardinality(U) - 1 BY <3>1, <2>4, FS_RemoveElement
    <3>3. Cardinality(U1) = Cardinality(U) - 1 BY <3>2, <2>7, Zenon
    <3>4. Len(plidle'[k]) <= Len(plidle[k]) + 1 /\ Len(plidle'[k]) \in Nat BY <2>8, <1>9, <1>12, <1>14
    <3>5. Len(plidle'[k]) + Cardinality(U1) <= PlCapacity + Cardinality(X)
      BY <3>3, <3>4, <2>4, <2>5, PoolAssumption
    <3>6. QED BY <3>5, <2>2, <2>3, Zenon
  <2>9. CASE k # mine
    <3>1. s \notin U BY <2>1, <2>9, <1>3 DEF PlUse
    <3>2. U1 = U BY <3>1, <2>7
    <3>3. plidle'[k] = plidle[k] BY <2>9, <1>19
    <3>4. Len(plidle'[k]) + Cardinality(U1) <= PlCapacity + Cardinality(X) BY <3>2, <3>3, <2>5
    <3>5. QED BY <3>4, <2>2, <2>3, Zenon
  <2>10. QED BY <2>8, <2>9
<1>23. QED BY <1>15, <1>16, <1>17, <1>20, <1>21, <1>22 DEF PoolIInv

\* What retain leaves of the idle values.
LEMMA PlRetained ==
  ASSUME NEW S, NEW slots \in Seq(S), IsInjective(slots), NEW x
  PROVE  /\ PlRetain(slots, x) \in Seq(S) /\ IsInjective(PlRetain(slots, x))
         /\ Range(PlRetain(slots, x)) = Range(slots) \ {x}
         /\ Len(PlRetain(slots, x)) <= Len(slots) /\ Len(PlRetain(slots, x)) \in Nat
<1>0. Len(slots) \in Nat OBVIOUS
<1>1. CASE x \in Range(slots)
  <2>1. \E i \in DOMAIN slots : slots[i] = x BY <1>1 DEF Range
  <2>2. PICK i \in DOMAIN slots : i = CHOOSE j \in DOMAIN slots : slots[j] = x BY <2>1
  <2>3. slots[i] = x BY <2>1, <2>2
  <2>4. /\ RemoveAt(slots, i) \in Seq(S) /\ IsInjective(RemoveAt(slots, i))
        /\ Range(RemoveAt(slots, i)) = Range(slots) \ {slots[i]}
        /\ Len(RemoveAt(slots, i)) = Len(slots) - 1
    BY RemoveOnce
  <2>5. PlRetain(slots, x) = RemoveAt(slots, i) BY <1>1, <2>2 DEF PlRetain
  <2>6. PICK t \in Seq(S) : t = RemoveAt(slots, i) BY <2>4, Zenon
  <2>7. IsInjective(t) /\ Range(t) = Range(slots) \ {x} /\ Len(t) = Len(slots) - 1
    BY <2>3, <2>4, <2>6, Zenon
  <2>8. Len(t) <= Len(slots) /\ Len(t) \in Nat BY <2>7, <1>0
  <2>9. QED BY <2>5, <2>6, <2>7, <2>8, Zenon
<1>2. CASE x \notin Range(slots)
  <2>1. PlRetain(slots, x) = slots BY <1>2 DEF PlRetain
  <2>2. QED BY <1>0, <1>2, <2>1
<1>3. QED BY <1>1, <1>2

\* A value is invalidated, or outlives its TTL.
LEMMA PlDropOk ==
  ASSUME PoolIInv, NEW x \in PlItems, PlInvalidate(x) \/ PlExpire(x)
  PROVE  PoolIInv'
<1>1. PoolTypeOK /\ PlShape /\ PlQueued /\ PlPermitsConserved /\ PlFits /\ PlPlaces /\ PlClean BY DEF PoolIInv
<1>2. plidle \in [PlKeys -> Seq(PlItems)] BY <1>1 DEF PoolTypeOK
<1>3. /\ plpermits' = plpermits /\ plqueue' = plqueue /\ plscope' = plscope /\ plfins' = plfins
      /\ pltaken' = pltaken /\ pldisturbed' = pldisturbed /\ plpc' = plpc /\ plkey' = plkey
      /\ plitem' = plitem
      /\ pldiscard' \subseteq pldiscard \cup {x} /\ plexpired' \subseteq plexpired \cup {x}
  BY DEF PlInvalidate, PlExpire, plcounts, plclosing
<1>4. PlHolders' = PlHolders /\ \A k \in PlKeys : PlUse(k)' = PlUse(k) /\ PlExtra(k)' = PlExtra(k)
  BY <1>3 DEF PlHolders, PlKept, PlUse, PlUsing, PlExtra
<1>5. PlShape' /\ PlQueued' /\ PlPermitsConserved'
  <2>1. PlShape' BY <1>1, <1>3 DEF PlShape, PlShaped, PlKept
  <2>2. QED BY <2>1, <1>1, <1>3, <1>4 DEF PlQueued, PlPermitsConserved
<1>6. ASSUME NEW k \in PlKeys
      PROVE  /\ plidle'[k] \in Seq(PlItems) /\ IsInjective(plidle'[k])
             /\ Range(plidle'[k]) \subseteq Range(plidle[k]) /\ Range(plidle'[k]) \cap pldiscard' = {}
             /\ Len(plidle'[k]) <= Len(plidle[k]) /\ Len(plidle'[k]) \in Nat /\ Len(plidle[k]) \in Nat
  <2>1. PICK slots \in Seq(PlItems) : slots = plidle[k] BY <1>2
  <2>2. IsInjective(slots) /\ Len(slots) \in Nat /\ Range(slots) \cap pldiscard = {}
    BY <2>1, <1>1 DEF PlPlaces, PlClean
  <2>3. CASE PlInvalidate(x)
    <3>1. plidle'[k] = PlRetain(slots, x) BY <2>1, <2>3 DEF PlInvalidate
    <3>2. /\ PlRetain(slots, x) \in Seq(PlItems) /\ IsInjective(PlRetain(slots, x))
          /\ Range(PlRetain(slots, x)) = Range(slots) \ {x}
          /\ Len(PlRetain(slots, x)) <= Len(slots) /\ Len(PlRetain(slots, x)) \in Nat
      BY <2>2, PlRetained
    <3>3. Range(slots) \ {x} \subseteq Range(slots) /\ (Range(slots) \ {x}) \cap pldiscard' = {}
      BY <2>2, <1>3
    <3>4. QED BY <2>1, <2>2, <3>1, <3>2, <3>3, Zenon
  <2>4. CASE PlExpire(x)
    <3>1. plidle' = plidle /\ pldiscard' = pldiscard BY <2>4 DEF PlExpire
    <3>2. QED BY <2>1, <2>2, <3>1
  <2>5. QED BY <2>3, <2>4
<1>7. PoolTypeOK'
  <2>1. \E f : plidle' = [k \in PlKeys |-> f[k]]
    <3>1. CASE PlInvalidate(x)
      <4>1. plidle' = [k \in PlKeys |-> PlRetain(plidle[k], x)] BY <3>1 DEF PlInvalidate
      <4>2. plidle' = [k \in PlKeys |-> plidle'[k]] BY <4>1
      <4>3. QED BY <4>2
    <3>2. CASE PlExpire(x)
      <4>1. plidle' = plidle BY <3>2 DEF PlExpire
      <4>2. plidle' = [k \in PlKeys |-> plidle[k]] BY <4>1, <1>2
      <4>3. QED BY <4>2
    <3>3. QED BY <3>1, <3>2
  <2>2. plidle' \in [PlKeys -> Seq(PlItems)] BY <1>6, <2>1
  <2>3. pldiscard' \subseteq PlItems /\ plexpired' \subseteq PlItems BY <1>1, <1>3 DEF PoolTypeOK
  <2>4. QED BY <1>1, <1>3, <2>2, <2>3 DEF PoolTypeOK
<1>8. \A u \in PlScopes : PlOut(u)' <=> PlOut(u) BY <1>3 DEF PlOut, PlKept
<1>9. PlPlaces'
  <2>1. \A k \in PlKeys : IsInjective(plidle'[k]) BY <1>6
  <2>2. ASSUME NEW k \in PlKeys, NEW l \in PlKeys, k # l
        PROVE  Range(plidle'[k]) \cap Range(plidle'[l]) = {}
    <3>1. Range(plidle[k]) \cap Range(plidle[l]) = {} BY <2>2, <1>1 DEF PlPlaces
    <3>2. QED BY <3>1, <1>6
  <2>3. ASSUME NEW u \in PlScopes, NEW t \in PlScopes, PlOut(u)', PlOut(t)', plitem'[u] = plitem'[t]
        PROVE  u = t
    BY <2>3, <1>1, <1>3, <1>8 DEF PlPlaces
  <2>4. ASSUME NEW u \in PlScopes, PlOut(u)', NEW k \in PlKeys PROVE plitem'[u] \notin Range(plidle'[k])
    <3>1. plitem[u] \notin Range(plidle[k]) BY <2>4, <1>1, <1>8 DEF PlPlaces
    <3>2. QED BY <3>1, <1>3, <1>6
  <2>5. ASSUME NEW u \in PlScopes, PlBefore(u)'
        PROVE  /\ \A k \in PlKeys : u \notin Range(plidle'[k])
               /\ \A t \in PlScopes : plitem'[t] # u
    <3>1. PlBefore(u) BY <2>5, <1>3 DEF PlBefore
    <3>2. /\ \A k \in PlKeys : u \notin Range(plidle[k])
          /\ \A t \in PlScopes : plitem[t] # u
      BY <3>1, <1>1 DEF PlPlaces, PlBefore
    <3>3. QED BY <3>2, <1>3, <1>6
  <2>6. QED BY <2>1, <2>2, <2>3, <2>4, <2>5 DEF PlPlaces, PlBefore
<1>10. PlClean' BY <1>6 DEF PlClean
<1>11. PlFits'
  <2> SUFFICES ASSUME NEW k \in PlKeys
               PROVE  Len(plidle'[k]) + Cardinality(PlUse(k)') <= PlCapacity + Cardinality(PlExtra(k)')
    BY DEF PlFits
  <2>1. PlUse(k) \in SUBSET PlScopes /\ PlExtra(k) \in SUBSET PlScopes
    BY <1>1 DEF PlUse, PlExtra, PoolTypeOK
  <2>2. Cardinality(PlUse(k)) \in Nat /\ Cardinality(PlExtra(k)) \in Nat BY <2>1, PlFinite
  <2>3. Len(plidle[k]) + Cardinality(PlUse(k)) <= PlCapacity + Cardinality(PlExtra(k)) BY <1>1 DEF PlFits
  <2>4. PlUse(k)' = PlUse(k) /\ PlExtra(k)' = PlExtra(k) BY <1>4
  <2>5. Len(plidle'[k]) + Cardinality(PlUse(k)) <= PlCapacity + Cardinality(PlExtra(k))
    BY <2>2, <2>3, <1>6, PoolAssumption
  <2>6. QED BY <2>4, <2>5
<1>12. QED BY <1>5, <1>7, <1>9, <1>10, <1>11 DEF PoolIInv

\* The inductive invariant says what a user of the pool relies on.
LEMMA PoolConsequences == PoolIInv => PoolInv
<1> SUFFICES ASSUME PoolIInv PROVE PoolInv OBVIOUS
<1>1. PoolTypeOK /\ PlShape /\ PlPermitsConserved /\ PlFits /\ PlPlaces /\ PlClean BY DEF PoolIInv
<1>2. plidle \in [PlKeys -> Seq(PlItems)] BY <1>1 DEF PoolTypeOK
<1>6. PlDiscardedNotReused
  <2>1. \A k \in PlKeys : ToSet(plidle[k]) = Range(plidle[k]) BY <1>2, RangeOf
  <2>2. QED BY <1>1, <2>1 DEF PlClean, PlDiscardedNotReused
<1>7. PlBounded
  <2> SUFFICES ASSUME NEW k \in PlKeys
               PROVE  Len(plidle[k]) + Cardinality({s \in PlHolders : /\ plkey[s] = k
                                                    /\ \/ plpc[s] \in {"make", "register", "back"}
                                                       \/ "item" \in PlKept(s)})
                        <= PlCapacity + Cardinality({s \in pldisturbed : plkey[s] = k})
    BY DEF PlBounded
  <2>1. PICK using : using = {s \in PlHolders : /\ plkey[s] = k
                                                /\ \/ plpc[s] \in {"make", "register", "back"}
                                                   \/ "item" \in PlKept(s)}
    OBVIOUS
  <2>2. using \subseteq PlUse(k)
    <3> SUFFICES ASSUME NEW s \in using PROVE s \in PlUse(k) OBVIOUS
    <3>1. /\ s \in PlScopes /\ plkey[s] = k
          /\ plpc[s] \in {"granted", "held"} \/ "permit" \in PlKept(s)
          /\ plpc[s] \in {"make", "register", "back"} \/ "item" \in PlKept(s)
      BY <2>1 DEF PlHolders
    <3>2. PlShaped(s) BY <3>1, <1>1 DEF PlShape
    <3>3. PlUsing(s) BY <3>1, <3>2 DEF PlUsing, PlShaped, PlKept
    <3>4. QED BY <3>1, <3>3 DEF PlUse
  <2>3. PlUse(k) \in SUBSET PlScopes /\ PlExtra(k) \in SUBSET PlScopes /\ using \in SUBSET PlScopes
    BY <1>1, <2>1 DEF PlUse, PlExtra, PoolTypeOK, PlHolders
  <2>4. /\ Cardinality(using) <= Cardinality(PlUse(k)) /\ Cardinality(PlUse(k)) \in Nat
        /\ Cardinality(using) \in Nat /\ Cardinality(PlExtra(k)) \in Nat
    BY <2>2, <2>3, PlFinite
  <2>5. Len(plidle[k]) + Cardinality(PlUse(k)) <= PlCapacity + Cardinality(PlExtra(k)) /\ Len(plidle[k]) \in Nat
    BY <1>1, <1>2 DEF PlFits
  <2>6. Len(plidle[k]) + Cardinality(using) <= PlCapacity + Cardinality(PlExtra(k))
    BY <2>4, <2>5, PoolAssumption
  <2>7. PlExtra(k) = {s \in pldisturbed : plkey[s] = k} BY DEF PlExtra
  <2>8. QED BY <2>1, <2>6, <2>7, Zenon
<1>8. PlOnePlace
  <2> DEFINE in(x, k) == {i \in DOMAIN plidle[k] : plidle[k][i] = x}
             out(x) == {s \in PlScopes : plitem[s] = x /\ "item" \in PlKept(s)}
  <2> SUFFICES ASSUME NEW x \in PlItems
               PROVE  Cardinality(UNION {in(x, k) \X {k} : k \in PlKeys}) + Cardinality(out(x)) <= 1
    BY DEF PlOnePlace
  <2>1. PICK I : I = UNION {in(x, k) \X {k} : k \in PlKeys} OBVIOUS
  <2>2. PICK O : O = out(x) OBVIOUS
  <2>3. \A p \in I : \E k \in PlKeys : \E i \in DOMAIN plidle[k] : p = <<i, k>> /\ plidle[k][i] = x
    BY <2>1
  <2>4. \A s \in O : s \in PlScopes /\ PlOut(s) /\ plitem[s] = x BY <2>2 DEF PlOut
  <2>5. \A p, q \in I : p = q
    <3> SUFFICES ASSUME NEW p \in I, NEW q \in I PROVE p = q OBVIOUS
    <3>1. PICK k \in PlKeys : \E i \in DOMAIN plidle[k] : p = <<i, k>> /\ plidle[k][i] = x BY <2>3
    <3>2. PICK i \in DOMAIN plidle[k] : p = <<i, k>> /\ plidle[k][i] = x BY <3>1
    <3>3. PICK l \in PlKeys : \E j \in DOMAIN plidle[l] : q = <<j, l>> /\ plidle[l][j] = x BY <2>3
    <3>4. PICK j \in DOMAIN plidle[l] : q = <<j, l>> /\ plidle[l][j] = x BY <3>3
    <3>5. x \in Range(plidle[k]) /\ x \in Range(plidle[l]) BY <3>2, <3>4 DEF Range
    <3>6. k = l BY <3>5, <1>1 DEF PlPlaces
    <3>7. IsInjective(plidle[k]) BY <1>1 DEF PlPlaces
    <3>8. i = j BY <3>2, <3>4, <3>6, <3>7 DEF IsInjective
    <3>9. QED BY <3>2, <3>4, <3>6, <3>8
  <2>6. \A s, t \in O : s = t BY <2>4, <1>1 DEF PlPlaces
  <2>7. I = {} \/ O = {}
    <3> SUFFICES ASSUME NEW p \in I, NEW s \in O PROVE FALSE OBVIOUS
    <3>1. PICK k \in PlKeys : \E i \in DOMAIN plidle[k] : p = <<i, k>> /\ plidle[k][i] = x BY <2>3
    <3>2. x \in Range(plidle[k]) BY <3>1 DEF Range
    <3>3. QED BY <3>2, <2>4, <1>1 DEF PlPlaces
  <2>8. Cardinality(I) <= 1 /\ Cardinality(O) <= 1 BY <2>5, <2>6, AtMostOne
  <2>9. /\ I = {} => Cardinality(I) = 0
        /\ O = {} => Cardinality(O) = 0
    BY FS_EmptySet
  <2>a. Cardinality(I) \in Nat /\ Cardinality(O) \in Nat
    <3>1. \A S : (\A a, b \in S : a = b) => IsFiniteSet(S)
      <4> SUFFICES ASSUME NEW S, \A a, b \in S : a = b PROVE IsFiniteSet(S) OBVIOUS
      <4>1. CASE S = {} BY <4>1, FS_EmptySet
      <4>2. CASE S # {}
        <5>1. PICK a \in S : S = {a} BY <4>2
        <5>2. QED BY <5>1, FS_Singleton
      <4>3. QED BY <4>1, <4>2
    <3>2. IsFiniteSet(I) /\ IsFiniteSet(O) BY <3>1, <2>5, <2>6
    <3>3. QED BY <3>2, FS_CardinalityType
  <2>b. Cardinality(I) + Cardinality(O) <= 1 BY <2>7, <2>8, <2>9, <2>a
  <2>c. QED BY <2>1, <2>2, <2>b, Zenon
<1>9. QED BY <1>1, <1>6, <1>7, <1>8 DEF PoolInv

\* A new pool is consistent.
LEMMA PoolInitOk == PoolInit => PoolIInv
<1> SUFFICES ASSUME PoolInit PROVE PoolIInv OBVIOUS
<1>1. /\ plpermits = PlCapacity /\ plqueue = <<>> /\ plexpired = {} /\ pldiscard = {} /\ pldisturbed = {}
      /\ plkey \in PlRequests
      /\ \A s \in PlScopes : /\ plscope[s] = "open" /\ plfins[s] = {} /\ pltaken[s] = {}
                             /\ plpc[s] = "idle" /\ plitem[s] = PlNoItem
      /\ \A k \in PlKeys : plidle[k] = <<>>
  BY DEF PoolInit
<1>2. PoolTypeOK
  <2>1. <<>> \in Seq(PlScopes) /\ <<>> \in Seq(PlItems) OBVIOUS
  <2>2. /\ plidle \in [PlKeys -> Seq(PlItems)] /\ plfins \in [PlScopes -> SUBSET PlFinalizers]
        /\ pltaken \in [PlScopes -> SUBSET PlFinalizers]
        /\ plscope \in [PlScopes -> {"open", "closed", "taken", "drained", "gone"}]
        /\ plpc \in [PlScopes -> PlPlacesOfGet] /\ plitem \in [PlScopes -> PlItems \cup {PlNoItem}]
    BY <2>1 DEF PoolInit, PlPlacesOfGet
  <2>3. QED BY <1>1, <2>1, <2>2, PoolAssumption DEF PoolTypeOK, PlPlacesOfGet
<1>3. PlShape BY <1>1 DEF PlShape, PlShaped, PlKept
<1>4. {s \in PlScopes : plpc[s] = "waiting"} = {} /\ PlHolders = {} BY <1>1 DEF PlHolders, PlKept
<1>5. PlQueued BY <1>1, <1>4, EmptyLine DEF PlQueued
<1>6. Cardinality(PlHolders) = 0 BY <1>4, FS_EmptySet
<1>7. PlPermitsConserved BY <1>1, <1>6, PoolAssumption DEF PlPermitsConserved
<1>8. PlFits
  <2> SUFFICES ASSUME NEW k \in PlKeys
               PROVE  Len(plidle[k]) + Cardinality(PlUse(k)) <= PlCapacity + Cardinality(PlExtra(k))
    BY DEF PlFits
  <2>1. PlUse(k) = {} /\ PlExtra(k) = {} BY <1>1 DEF PlUse, PlUsing, PlKept, PlExtra
  <2>2. Cardinality(PlUse(k)) = 0 /\ Cardinality(PlExtra(k)) = 0 BY <2>1, FS_EmptySet
  <2>3. Len(plidle[k]) = 0 BY <1>1
  <2>4. QED BY <2>2, <2>3, PoolAssumption
<1>9. \A k \in PlKeys : Range(plidle[k]) = {} /\ IsInjective(plidle[k]) BY <1>1, EmptyLine
<1>10. \A s \in PlScopes : ~PlOut(s) BY <1>1 DEF PlOut, PlKept
<1>11. PlPlaces BY <1>1, <1>9, <1>10, PoolAssumption DEF PlPlaces
<1>12. PlClean BY <1>9 DEF PlClean
<1>13. QED BY <1>2, <1>3, <1>5, <1>7, <1>8, <1>11, <1>12 DEF PoolIInv

\* However gets fail, scopes close, also in the middle of a get, finalizers are refused,
\* stored too late or dropped, and values are invalidated or expire: every permit is
\* available or held, a value is in one place, a key has no more values than the capacity
\* and one for each drain that dropped a permit, and a value that was invalidated does not
\* come back (KeyedPool::get, its two finalizers and invalidate), for every capacity, every
\* set of keys and every number of scopes.
THEOREM PoolInvariant == PoolSpec => []PoolInv
<1>1. PoolInit => PoolIInv BY PoolInitOk
<1>2. PoolIInv /\ [PoolNext]_plvars => PoolIInv'
  <2> SUFFICES ASSUME PoolIInv, [PoolNext]_plvars PROVE PoolIInv' OBVIOUS
  <2>1. CASE \E s \in PlScopes : PlGet(s) \/ PlStep(s) \/ PlClose(s) \/ PlForget(s)
    <3>1. PICK s \in PlScopes : PlGet(s) \/ PlStep(s) \/ PlClose(s) \/ PlForget(s) BY <2>1
    <3>2. CASE PlGet(s) BY <3>2, PlGetOk
    <3>3. CASE \/ PlKeepPermit(s) \/ PlMakeFails(s) \/ PlCheckItem(s) \/ PlKeepItem(s)
               \/ PlClose(s) \/ PlDrainBody(s) \/ PlDrainCommit(s)
      BY <3>3, PlQuietOk
    <3>4. CASE PlCheckPermit(s) BY <3>4, PlQuietOk, PlGiveUpOk
    <3>5. CASE PlTakeIdle(s) BY <3>5, PlTakeIdleOk
    <3>6. CASE PlMade(s) BY <3>6, PlMadeOk
    <3>7. CASE PlRunFinalizer(s)
      <4>1. PlRun(s, "item") \/ (PlRun(s, "permit") /\ "item" \notin pltaken[s])
        BY <3>7 DEF PlRunFinalizer, PlFinalizers
      <4>2. QED BY <4>1, PlCheckInOk, PlGiveUpOk
    <3>8. CASE PlDrainConflict(s) \/ PlForget(s) BY <3>8, PlLoseOk, PlGiveUpOk
    <3>9. QED BY <3>1, <3>2, <3>3, <3>4, <3>5, <3>6, <3>7, <3>8 DEF PlStep
  <2>2. CASE \E x \in PlItems : PlInvalidate(x) \/ PlExpire(x) BY <2>2, PlDropOk
  <2>3. CASE UNCHANGED plvars
    <3>1. /\ plpermits' = plpermits /\ plqueue' = plqueue /\ plidle' = plidle /\ plexpired' = plexpired
          /\ pldiscard' = pldiscard /\ plscope' = plscope /\ plfins' = plfins /\ pltaken' = pltaken
          /\ pldisturbed' = pldisturbed /\ plpc' = plpc /\ plkey' = plkey /\ plitem' = plitem
      BY <2>3 DEF plvars, plcounts, plvalues, plclosing
    <3>2. PoolTypeOK' /\ PlShape' BY <3>1 DEF PoolIInv, PoolTypeOK, PlShape, PlShaped, PlKept
    <3>3. PlHolders' = PlHolders BY <3>1 DEF PlHolders, PlKept
    <3>4. PlQueued' /\ PlPermitsConserved' BY <3>1, <3>3 DEF PoolIInv, PlQueued, PlPermitsConserved
    <3>5. \A k \in PlKeys : PlUse(k)' = PlUse(k) /\ PlExtra(k)' = PlExtra(k)
      BY <3>1 DEF PlUse, PlUsing, PlKept, PlExtra
    <3>6. PlFits' BY <3>1, <3>5 DEF PoolIInv, PlFits
    <3>7. \A u \in PlScopes : (PlOut(u)' <=> PlOut(u)) /\ (PlBefore(u)' <=> PlBefore(u))
      BY <3>1 DEF PlOut, PlKept, PlBefore
    <3>8. PlPlaces' /\ PlClean' BY <3>1, <3>7 DEF PoolIInv, PlPlaces, PlClean
    <3>9. QED BY <3>2, <3>4, <3>6, <3>8 DEF PoolIInv
  <2>4. QED BY <2>1, <2>2, <2>3 DEF PoolNext
<1>3. QED BY <1>1, <1>2, PoolConsequences, PTL DEF PoolSpec

(***************************************************************************)
(* The cache.                                                              *)
(***************************************************************************)

\* LruInSync, as what the list holds; and only entries are fresh.
CaListed == IsInjective(lru) /\ Range(lru) = Cached /\ fresh \subseteq Cached

\* A load that won its Deferred completed it well.
CaWinners == \A f \in Fibers : won[f] => deferred[f] = "success"

\* The inductive invariant.
CacheIInv == TypeOK /\ CaListed /\ WithinCapacity /\ InterruptedNotCached /\ CaWinners

\* Where a call can be, and how it can have ended.
CaAt == {"idle", "phase1", "phase2", "load", "loaded", "failed", "store", "cleanup", "wait",
         "invalidate", "interrupt", "done", "dropped"}
CaHow == {"pending", "success", "failure", "interrupt"}
CaStats == [hits : Nat, misses : Nat, evictions : Nat, loads : Nat]

\* The types, one by one.
LEMMA CaTypes ==
  ASSUME CacheIInv
  PROVE  /\ entry \in [Keys -> Fibers \cup {NoFiber}] /\ fresh \subseteq Keys
         /\ inFlight \in [Keys -> Fibers \cup {NoFiber}] /\ lru \in Seq(Keys) /\ stats \in CaStats
         /\ deferred \in [Fibers -> CaHow] /\ pc \in [Fibers -> CaAt] /\ key \in [Fibers -> Keys]
         /\ waitsFor \in [Fibers -> Fibers \cup {NoFiber}] /\ won \in [Fibers -> BOOLEAN]
         /\ \A f \in Fibers : pc[f] \in {"wait", "interrupt"} => waitsFor[f] \in Fibers
         /\ Cached \subseteq Keys /\ IsFiniteSet(Cached) /\ Cardinality(Cached) \in Nat
<1>1. TypeOK BY DEF CacheIInv
<1>2. Cached \subseteq Keys BY DEF Cached
<1>3. IsFiniteSet(Cached) /\ Cardinality(Cached) \in Nat
  BY <1>2, FS_Subset, FS_CardinalityType, CacheAssumption
<1>4. QED BY <1>1, <1>2, <1>3, CacheAssumption DEF TypeOK, CaAt, CaHow, CaStats

\* A call moves on; what it waits for is a Deferred.
LEMMA CaGo ==
  ASSUME CacheIInv, NEW f \in Fibers, NEW from \in CaAt, NEW to \in CaAt, Go(f, from, to),
         waitsFor' \in [Fibers -> Fibers \cup {NoFiber}],
         \A g \in Fibers : g # f => waitsFor'[g] = waitsFor[g],
         to \in {"wait", "interrupt"} => waitsFor'[f] \in Fibers
  PROVE  /\ pc' \in [Fibers -> CaAt] /\ key' = key
         /\ \A g \in Fibers : pc'[g] \in {"wait", "interrupt"} => waitsFor'[g] \in Fibers
<1>1. /\ pc \in [Fibers -> CaAt]
      /\ \A g \in Fibers : pc[g] \in {"wait", "interrupt"} => waitsFor[g] \in Fibers
  BY CaTypes
<1>2. pc' = [pc EXCEPT ![f] = to] /\ key' = key BY DEF Go
<1>3. pc' \in [Fibers -> CaAt] BY <1>1, <1>2
<1>4. ASSUME NEW g \in Fibers, pc'[g] \in {"wait", "interrupt"} PROVE waitsFor'[g] \in Fibers
  <2>1. CASE g = f BY <2>1, <1>1, <1>2, <1>4
  <2>2. CASE g # f
    <3>1. pc'[g] = pc[g] /\ waitsFor'[g] = waitsFor[g] BY <2>2, <1>1, <1>2
    <3>2. QED BY <3>1, <1>1, <1>4
  <2>3. QED BY <2>1, <2>2
<1>5. QED BY <1>2, <1>3, <1>4

\* A step that leaves the entries, the list and the Deferreds alone.
LEMMA CaQuiet ==
  ASSUME CacheIInv, NEW f \in Fibers,
         \/ CallGet(f) \/ CallInvalidate(f) \/ Miss(f) \/ LoadEnds(f) \/ Cleanup(f) \/ WaitEnds(f)
         \/ Drop(f) \/ Join(f) \/ Lead(f)
  PROVE  CacheIInv'
<1>1. /\ inFlight \in [Keys -> Fibers \cup {NoFiber}] /\ stats \in CaStats /\ key[f] \in Keys
      /\ waitsFor \in [Fibers -> Fibers \cup {NoFiber}]
  BY CaTypes
<1>2. /\ entry' = entry /\ fresh' = fresh /\ lru' = lru /\ deferred' = deferred /\ won' = won
  BY DEF CallGet, CallInvalidate, Miss, LoadEnds, Cleanup, WaitEnds, Drop, Join, Lead
<1>3. Cached' = Cached BY <1>2 DEF Cached
<1>4. CaListed' /\ WithinCapacity' /\ InterruptedNotCached' /\ CaWinners'
  BY <1>2, <1>3 DEF CacheIInv, CaListed, WithinCapacity, InterruptedNotCached, CaWinners
<1>5. stats' \in CaStats
  <2>1. [stats EXCEPT !.misses = @ + 1] \in CaStats BY <1>1 DEF CaStats
  <2>2. QED BY <2>1, <1>1
    DEF CallGet, CallInvalidate, Miss, LoadEnds, Cleanup, WaitEnds, Drop, Join, Lead
<1>6. inFlight' \in [Keys -> Fibers \cup {NoFiber}]
  BY <1>1 DEF CallGet, CallInvalidate, Miss, LoadEnds, Cleanup, WaitEnds, Drop, Join, Lead
<1>7. /\ pc' \in [Fibers -> CaAt] /\ key' = key /\ waitsFor' \in [Fibers -> Fibers \cup {NoFiber}]
      /\ \A g \in Fibers : pc'[g] \in {"wait", "interrupt"} => waitsFor'[g] \in Fibers
  <2>1. CASE Join(f)
    <3>1. PICK g \in Fibers : g = inFlight[key[f]] BY <2>1, <1>1 DEF Join
    <3>2. /\ waitsFor' = [waitsFor EXCEPT ![f] = g]
          /\ Go(f, "phase1", "wait") \/ Go(f, "phase2", "wait")
      BY <2>1, <3>1 DEF Join
    <3>3. /\ waitsFor' \in [Fibers -> Fibers \cup {NoFiber}] /\ waitsFor'[f] = g
          /\ \A h \in Fibers : h # f => waitsFor'[h] = waitsFor[h]
      BY <3>2, <1>1
    <3>4. {"phase1", "phase2", "wait"} \subseteq CaAt BY DEF CaAt
    <3>5. QED BY <3>2, <3>3, <3>4, CaGo
  <2>2. CASE ~Join(f)
    <3>1. waitsFor' = waitsFor
      BY <2>2 DEF CallGet, CallInvalidate, Miss, LoadEnds, Cleanup, WaitEnds, Drop, Lead
    <3>2. \E from \in CaAt, to \in CaAt \ {"wait", "interrupt"} : Go(f, from, to)
      <4>1. \/ Go(f, "idle", "phase1") \/ Go(f, "idle", "invalidate") \/ Go(f, "phase1", "phase2")
            \/ Go(f, "load", "loaded") \/ Go(f, "load", "failed") \/ Go(f, "cleanup", "done")
            \/ Go(f, "wait", "done") \/ Go(f, "load", "dropped") \/ Go(f, "wait", "dropped")
            \/ Go(f, "store", "dropped") \/ Go(f, "cleanup", "dropped") \/ Go(f, "phase2", "load")
        BY <2>2 DEF CallGet, CallInvalidate, Miss, LoadEnds, Cleanup, WaitEnds, Drop, Lead
      <4>2. /\ {"idle", "phase1", "load", "cleanup", "store", "wait", "phase2"} \subseteq CaAt
            /\ {"phase1", "invalidate", "phase2", "loaded", "failed", "done", "dropped", "load"} \subseteq
                  CaAt \ {"wait", "interrupt"}
        BY DEF CaAt
      <4>3. QED BY <4>1, <4>2
    <3>3. PICK from \in CaAt, to \in CaAt \ {"wait", "interrupt"} : Go(f, from, to) BY <3>2
    <3>4. QED BY <3>1, <3>3, <1>1, CaGo
  <2>3. QED BY <2>1, <2>2
<1>8. TypeOK'
  BY <1>2, <1>5, <1>6, <1>7 DEF CacheIInv, TypeOK, CaAt, CaStats
<1>9. QED BY <1>4, <1>8 DEF CacheIInv

\* What becomes of the list when a key is removed and when it is used.
LEMMA CaTouched ==
  ASSUME NEW q \in Seq(Keys), IsInjective(q), NEW k \in Keys
  PROVE  /\ RemoveLru(q, k) \in Seq(Keys) /\ IsInjective(RemoveLru(q, k))
         /\ Range(RemoveLru(q, k)) = Range(q) \ {k}
         /\ TouchLru(q, k) \in Seq(Keys) /\ IsInjective(TouchLru(q, k))
         /\ Range(TouchLru(q, k)) = Range(q) \cup {k}
<1>1. RemoveLru(q, k) = PlRetain(q, k) BY DEF RemoveLru, PlRetain
<1>2. /\ RemoveLru(q, k) \in Seq(Keys) /\ IsInjective(RemoveLru(q, k))
      /\ Range(RemoveLru(q, k)) = Range(q) \ {k}
  BY <1>1, PlRetained
<1>3. PICK r \in Seq(Keys) : r = RemoveLru(q, k) BY <1>2, Zenon
<1>4. IsInjective(r) /\ Range(r) = Range(q) \ {k} BY <1>2, <1>3, Zenon
<1>5. Append(r, k) \in Seq(Keys) /\ IsInjective(Append(r, k)) /\ Range(Append(r, k)) = Range(r) \cup {k}
  BY <1>4, AppendOnce
<1>6. Range(r) \cup {k} = Range(q) \cup {k} BY <1>4
<1>7. TouchLru(q, k) = Append(r, k) BY <1>3 DEF TouchLru
<1>8. QED BY <1>2, <1>5, <1>6, <1>7, Zenon

\* A fresh entry is found.
LEMMA CaHitOk == ASSUME CacheIInv, NEW f \in Fibers, Hit(f) PROVE CacheIInv'
<1>1. /\ stats \in CaStats /\ key[f] \in Keys /\ waitsFor \in [Fibers -> Fibers \cup {NoFiber}]
      /\ lru \in Seq(Keys)
  BY CaTypes
<1>2. /\ Go(f, "phase1", "done") \/ Go(f, "phase2", "done")
      /\ key[f] \in fresh /\ lru' = TouchLru(lru, key[f]) /\ stats' = [stats EXCEPT !.hits = @ + 1]
      /\ entry' = entry /\ fresh' = fresh /\ inFlight' = inFlight /\ deferred' = deferred
      /\ waitsFor' = waitsFor /\ won' = won
  BY DEF Hit
<1>3. Cached' = Cached BY <1>2 DEF Cached
<1>4. IsInjective(lru) /\ Range(lru) = Cached /\ fresh \subseteq Cached BY DEF CacheIInv, CaListed
<1>5. /\ lru' \in Seq(Keys) /\ IsInjective(lru') /\ Range(lru') = Range(lru) \cup {key[f]}
  BY <1>1, <1>2, <1>4, CaTouched
<1>6. CaListed' BY <1>2, <1>3, <1>4, <1>5 DEF CaListed
<1>7. WithinCapacity' /\ InterruptedNotCached' /\ CaWinners'
  BY <1>2, <1>3 DEF CacheIInv, WithinCapacity, InterruptedNotCached, CaWinners
<1>8. stats' \in CaStats BY <1>1, <1>2 DEF CaStats
<1>9. /\ pc' \in [Fibers -> CaAt] /\ key' = key
      /\ \A g \in Fibers : pc'[g] \in {"wait", "interrupt"} => waitsFor'[g] \in Fibers
  <2>1. {"phase1", "phase2", "done"} \subseteq CaAt BY DEF CaAt
  <2>2. QED BY <1>1, <1>2, <2>1, CaGo
<1>10. TypeOK' BY <1>2, <1>5, <1>8, <1>9 DEF CacheIInv, TypeOK, CaAt, CaStats
<1>11. QED BY <1>6, <1>7, <1>10 DEF CacheIInv

\* A Deferred is completed, and the first completion stays.
LEMMA CaCompleteOk ==
  ASSUME CacheIInv, NEW f \in Fibers, Succeed(f) \/ Fail(f) \/ Interrupt(f)
  PROVE  CacheIInv'
<1>1. /\ deferred \in [Fibers -> CaHow] /\ won \in [Fibers -> BOOLEAN]
      /\ waitsFor \in [Fibers -> Fibers \cup {NoFiber}] /\ entry \in [Keys -> Fibers \cup {NoFiber}]
      /\ \A g \in Fibers : pc[g] \in {"wait", "interrupt"} => waitsFor[g] \in Fibers
  BY CaTypes
<1>2. /\ entry' = entry /\ fresh' = fresh /\ lru' = lru /\ inFlight' = inFlight /\ stats' = stats
      /\ waitsFor' = waitsFor
  BY DEF Succeed, Fail, Interrupt
<1>3. Cached' = Cached BY <1>2 DEF Cached
<1>4. CaListed' /\ WithinCapacity' BY <1>2, <1>3 DEF CacheIInv, CaListed, WithinCapacity
<1>5. \E d \in Fibers, how \in CaHow : Complete(d, how)
  <2>1. {"success", "failure", "interrupt"} \subseteq CaHow BY DEF CaHow
  <2>2. CASE Succeed(f) BY <2>1, <2>2 DEF Succeed
  <2>3. CASE Fail(f) BY <2>1, <2>3 DEF Fail
  <2>4. CASE Interrupt(f)
    <3>1. pc[f] = "interrupt" /\ Complete(waitsFor[f], "interrupt") BY <2>4 DEF Interrupt, Go
    <3>2. waitsFor[f] \in Fibers BY <3>1, <1>1
    <3>3. QED BY <2>1, <3>1, <3>2
  <2>5. QED BY <2>2, <2>3, <2>4
<1>6. PICK d \in Fibers, how \in CaHow : Complete(d, how) BY <1>5
<1>7. /\ deferred' \in [Fibers -> CaHow]
      /\ \A g \in Fibers : deferred[g] = "success" => deferred'[g] = "success"
  <2>1. deferred' = [deferred EXCEPT ![d] = IF deferred[d] = "pending" THEN how ELSE deferred[d]]
    BY <1>1, <1>6 DEF Complete
  <2>2. QED BY <1>1, <2>1
<1>8. InterruptedNotCached'
  <2> SUFFICES ASSUME NEW k \in Cached PROVE deferred'[entry[k]] = "success"
    BY <1>2, <1>3 DEF InterruptedNotCached
  <2>1. deferred[entry[k]] = "success" BY DEF CacheIInv, InterruptedNotCached
  <2>2. entry[k] \in Fibers BY <1>1 DEF Cached
  <2>3. QED BY <1>7, <2>1, <2>2
<1>9. won' \in [Fibers -> BOOLEAN] /\ CaWinners'
  <2>0. CaWinners BY DEF CacheIInv
  <2>1. CASE Succeed(f)
    <3>1. won' = [won EXCEPT ![f] = (deferred[f] = "pending")] BY <2>1 DEF Succeed
    <3>2. won' \in [Fibers -> BOOLEAN] BY <3>1, <1>1
    <3>3. deferred[f] = "pending" => deferred'[f] = "success"
      BY <2>1, <1>1 DEF Succeed, Complete
    <3>4. ASSUME NEW g \in Fibers, won'[g] PROVE deferred'[g] = "success"
      <4>1. CASE g = f
        <5>1. won'[f] = (deferred[f] = "pending") BY <3>1, <1>1
        <5>2. QED BY <4>1, <5>1, <3>3, <3>4
      <4>2. CASE g # f
        <5>1. won'[g] = won[g] BY <4>2, <3>1, <1>1
        <5>2. QED BY <5>1, <2>0, <1>7, <3>4 DEF CaWinners
      <4>3. QED BY <4>1, <4>2
    <3>5. QED BY <3>2, <3>4 DEF CaWinners
  <2>2. CASE Fail(f) \/ Interrupt(f)
    <3>1. won' = won BY <2>2 DEF Fail, Interrupt
    <3>2. QED BY <3>1, <2>0, <1>1, <1>7 DEF CaWinners
  <2>3. QED BY <2>1, <2>2
<1>10. /\ pc' \in [Fibers -> CaAt] /\ key' = key
       /\ \A g \in Fibers : pc'[g] \in {"wait", "interrupt"} => waitsFor'[g] \in Fibers
  <2>1. {"loaded", "store", "failed", "cleanup", "interrupt", "done"} \subseteq CaAt BY DEF CaAt
  <2>2. Go(f, "loaded", "store") \/ Go(f, "failed", "cleanup") \/ Go(f, "interrupt", "done")
    BY DEF Succeed, Fail, Interrupt
  <2>3. QED BY <1>1, <1>2, <2>1, <2>2, CaGo
<1>11. TypeOK' BY <1>2, <1>7, <1>9, <1>10 DEF CacheIInv, TypeOK, CaAt, CaHow
<1>12. QED BY <1>4, <1>8, <1>9, <1>11 DEF CacheIInv

\* The list, cut in two.
LEMMA CaCut ==
  ASSUME NEW S, NEW q \in Seq(S), NEW j \in 0..Len(q)
  PROVE  /\ SubSeq(q, 1, j) \in Seq(S) /\ SubSeq(q, j + 1, Len(q)) \in Seq(S)
         /\ SubSeq(q, 1, j) \o SubSeq(q, j + 1, Len(q)) = q
<1>1. Len(q) \in Nat OBVIOUS
<1>2. 1 \in 1..Len(q) + 1 /\ j \in 1 - 1..Len(q) /\ Len(q) \in j..Len(q) BY <1>1
<1>3. SubSeq(q, 1, j) \o SubSeq(q, j + 1, Len(q)) = SubSeq(q, 1, Len(q))
  BY <1>2, ConcatAdjacentSubSeq
<1>4. SubSeq(q, 1, j) \in Seq(S) /\ SubSeq(q, j + 1, Len(q)) \in Seq(S) BY <1>1
<1>5. QED BY <1>3, <1>4, SubSeqFull

\* evict_lru makes room by the list alone: the branch for a list out of step is dead.
LEMMA CaEvicts ==
  ASSUME CacheIInv, Capacity > 0, Cardinality(Cached) >= Capacity
  PROVE  /\ Evicted \subseteq Cached /\ Cardinality(Cached \ Evicted) < Capacity
         /\ SubSeq(lru, Victims + 1, Len(lru)) \in Seq(Keys)
         /\ IsInjective(SubSeq(lru, Victims + 1, Len(lru)))
         /\ Range(SubSeq(lru, Victims + 1, Len(lru))) = Cached \ Evicted
<1>1. /\ lru \in Seq(Keys) /\ IsFiniteSet(Cached) /\ Cardinality(Cached) \in Nat BY CaTypes
<1>2. IsInjective(lru) /\ Range(lru) = Cached BY DEF CacheIInv, CaListed
<1>3. Len(lru) \in Nat /\ Capacity \in Nat BY <1>1, CacheAssumption
<1>4. PICK enough : enough = {n \in 0..Len(lru) :
                               Cardinality(Cached \ ToSet(SubSeq(lru, 1, n))) < Capacity}
  OBVIOUS
<1>5. Victims = IF enough = {} THEN Len(lru) ELSE Min(enough) BY <1>4 DEF Victims
<1>6. enough # {}
  <2>1. SubSeq(lru, 1, Len(lru)) = lru BY <1>1, SubSeqFull
  <2>2. ToSet(lru) = Cached BY <1>1, <1>2, RangeOf
  <2>3. Cached \ ToSet(SubSeq(lru, 1, Len(lru))) = {} BY <2>1, <2>2
  <2>4. Cardinality({}) = 0 BY FS_EmptySet
  <2>5. Cardinality(Cached \ ToSet(SubSeq(lru, 1, Len(lru)))) = 0 BY <2>3, <2>4, Zenon
  <2>6. Len(lru) \in enough BY <1>3, <1>4, <2>5
  <2>7. QED BY <2>6
<1>7. Victims \in enough
  <2>1. enough \in SUBSET Nat BY <1>3, <1>4
  <2>2. PICK x \in enough : \A y \in enough : x <= y BY <1>6, <2>1, LeastOf
  <2>3. Min(enough) \in enough BY <2>2 DEF Min
  <2>4. QED BY <1>5, <1>6, <2>3
<1>8. PICK v \in 0..Len(lru) : v = Victims /\ Cardinality(Cached \ ToSet(SubSeq(lru, 1, v))) < Capacity
  BY <1>4, <1>7
<1>10. /\ SubSeq(lru, 1, v) \in Seq(Keys) /\ SubSeq(lru, v + 1, Len(lru)) \in Seq(Keys)
       /\ SubSeq(lru, 1, v) \o SubSeq(lru, v + 1, Len(lru)) = lru
  <2>1. v \in 0..Len(lru) BY <1>8
  <2>2. QED BY <1>1, <2>1, CaCut
<1>11. PICK a \in Seq(Keys) : a = SubSeq(lru, 1, v) BY <1>10, Zenon
<1>12. PICK b \in Seq(Keys) : b = SubSeq(lru, v + 1, Len(lru)) BY <1>10, Zenon
<1>13. a \o b = lru BY <1>10, <1>11, <1>12, Zenon
<1>14. /\ Range(a \o b) = Range(a) \cup Range(b)
       /\ IsInjective(a \o b) => Range(a) \cap Range(b) = {}
  BY PartsApart
<1>15. Range(a) \cup Range(b) = Cached /\ Range(a) \cap Range(b) = {} BY <1>2, <1>13, <1>14, Zenon
<1>16. v # 0
  <2> SUFFICES ASSUME v = 0 PROVE FALSE OBVIOUS
  <2>1. a = <<>> BY <1>1, <1>11, SubSeqEmpty
  <2>2. Range(a) = {} BY <2>1, EmptyLine
  <2>3. ToSet(a) = {} BY <2>2, RangeOf
  <2>4. Cached \ ToSet(a) = Cached BY <2>3
  <2>5. Cardinality(Cached \ ToSet(a)) = Cardinality(Cached) BY <2>4, Zenon
  <2>6. Cardinality(Cached \ ToSet(a)) < Capacity BY <1>8, <1>11, Zenon
  <2>7. QED BY <2>5, <2>6, <1>1, <1>3
<1>17. IsInjective(b)
  <2>1. v \in DOMAIN lru BY <1>1, <1>3, <1>16
  <2>2. IsInjective(SubSeq(lru, v + 1, Len(lru))) BY <2>1, <1>1, <1>2, PlRest
  <2>3. QED BY <2>2, <1>12, Zenon
<1>18. Evicted = Range(a)
  <2>1. ToSet(SubSeq(lru, 1, Victims)) = Range(a)
    <3>1. ToSet(a) = Range(a) BY RangeOf
    <3>2. QED BY <3>1, <1>8, <1>11, Zenon
  <2>2. PICK listed : listed = ToSet(SubSeq(lru, 1, Victims)) \cap Cached OBVIOUS
  <2>3. listed = Range(a) BY <2>1, <2>2, <1>15
  <2>4. Cached \ listed = Cached \ ToSet(SubSeq(lru, 1, v)) BY <2>1, <2>3, <1>8
  <2>5. Cardinality(Cached \ listed) < Capacity BY <2>4, <1>8, Zenon
  <2>6. Evicted = listed BY <2>2, <2>5 DEF Evicted
  <2>7. QED BY <2>3, <2>6
<1>19. Cardinality(Cached \ Evicted) < Capacity
  <2>1. ToSet(a) = Range(a) BY RangeOf
  <2>2. Cached \ Evicted = Cached \ ToSet(SubSeq(lru, 1, v)) BY <2>1, <1>11, <1>18
  <2>3. QED BY <2>2, <1>8, Zenon
<1>20. Evicted \subseteq Cached /\ Range(b) = Cached \ Evicted BY <1>15, <1>18
<1>21. QED BY <1>8, <1>10, <1>12, <1>17, <1>19, <1>20, Zenon

\* A load stores its value, unless it was interrupted.
LEMMA CaStoreOk == ASSUME CacheIInv, NEW f \in Fibers, Store(f) PROVE CacheIInv'
<1>1. /\ entry \in [Keys -> Fibers \cup {NoFiber}] /\ fresh \subseteq Keys /\ lru \in Seq(Keys)
      /\ inFlight \in [Keys -> Fibers \cup {NoFiber}] /\ stats \in CaStats /\ key[f] \in Keys
      /\ waitsFor \in [Fibers -> Fibers \cup {NoFiber}] /\ won \in [Fibers -> BOOLEAN]
      /\ Cached \subseteq Keys /\ IsFiniteSet(Cached) /\ Cardinality(Cached) \in Nat
  BY CaTypes
<1>2. CaListed /\ WithinCapacity /\ InterruptedNotCached /\ CaWinners /\ TypeOK BY DEF CacheIInv
<1>3. /\ Go(f, "store", "done") /\ inFlight' = [inFlight EXCEPT ![key[f]] = NoFiber]
      /\ IF won[f] THEN PutEntry(f) ELSE UNCHANGED <<entry, fresh, lru, stats>>
      /\ deferred' = deferred /\ waitsFor' = waitsFor /\ won' = won
  BY DEF Store
<1>4. /\ pc' \in [Fibers -> CaAt] /\ key' = key
      /\ \A g \in Fibers : pc'[g] \in {"wait", "interrupt"} => waitsFor'[g] \in Fibers
  <2>1. {"store", "done"} \subseteq CaAt BY DEF CaAt
  <2>2. QED BY <1>1, <1>3, <2>1, CaGo
<1>5. inFlight' \in [Keys -> Fibers \cup {NoFiber}] BY <1>1, <1>3
<1>6. CaWinners' BY <1>2, <1>3 DEF CaWinners
<1>7. CASE ~won[f]
  <2>1. entry' = entry /\ fresh' = fresh /\ lru' = lru /\ stats' = stats BY <1>3, <1>7
  <2>2. Cached' = Cached BY <2>1 DEF Cached
  <2>3. CaListed' /\ WithinCapacity' /\ InterruptedNotCached'
    BY <2>1, <2>2, <1>2, <1>3 DEF CaListed, WithinCapacity, InterruptedNotCached
  <2>4. TypeOK' BY <2>1, <1>2, <1>3, <1>4, <1>5 DEF TypeOK, CaAt
  <2>5. QED BY <2>3, <2>4, <1>6 DEF CacheIInv
<1>8. CASE won[f]
  <2> DEFINE k == key[f]
             full == k \notin Cached /\ Capacity > 0 /\ Cardinality(Cached) >= Capacity
             out == IF full THEN Evicted ELSE {}
             rest == IF full THEN SubSeq(lru, Victims + 1, Len(lru)) ELSE lru
  <2>5. /\ entry' = [x \in Keys |-> CASE x = k -> f [] x \in out -> NoFiber [] OTHER -> entry[x]]
        /\ fresh' = (fresh \ out) \cup {k} /\ lru' = TouchLru(rest, k)
        /\ stats' = [stats EXCEPT !.loads = @ + 1, !.evictions = @ + Cardinality(out)]
    <3>1. PutEntry(f) BY <1>3, <1>8
    <3>2. QED BY <3>1 DEF PutEntry
  <2>1. k \in Keys BY <1>1
  <2>2. full <=> (k \notin Cached /\ Capacity > 0 /\ Cardinality(Cached) >= Capacity) OBVIOUS
  <2>3. (full => out = Evicted) /\ (~full => out = {}) OBVIOUS
  <2>4. (full => rest = SubSeq(lru, Victims + 1, Len(lru))) /\ (~full => rest = lru) OBVIOUS
  <2> HIDE DEF k, full, out, rest
  <2>6. /\ out \subseteq Cached /\ k \notin out /\ rest \in Seq(Keys) /\ IsInjective(rest)
        /\ Range(rest) = Cached \ out
        /\ full => Cardinality(Cached \ out) < Capacity
    <3>1. CASE full
      <4>1. Capacity > 0 /\ Cardinality(Cached) >= Capacity /\ k \notin Cached BY <2>2, <3>1
      <4>2. /\ Evicted \subseteq Cached /\ Cardinality(Cached \ Evicted) < Capacity
            /\ SubSeq(lru, Victims + 1, Len(lru)) \in Seq(Keys)
            /\ IsInjective(SubSeq(lru, Victims + 1, Len(lru)))
            /\ Range(SubSeq(lru, Victims + 1, Len(lru))) = Cached \ Evicted
        BY <4>1, CaEvicts
      <4>3. out = Evicted /\ rest = SubSeq(lru, Victims + 1, Len(lru)) BY <2>3, <2>4, <3>1
      <4>4. QED BY <4>1, <4>2, <4>3, Zenon
    <3>2. CASE ~full
      <4>1. out = {} /\ rest = lru BY <2>3, <2>4, <3>2
      <4>2. QED BY <4>1, <3>2, <1>1, <1>2 DEF CaListed
    <3>3. QED BY <3>1, <3>2
  <2>7. /\ entry' \in [Keys -> Fibers \cup {NoFiber}] /\ entry'[k] = f
        /\ \A x \in Keys : x # k => entry'[x] = IF x \in out THEN NoFiber ELSE entry[x]
    <3>1. \A x \in Keys : entry'[x] = IF x = k THEN f ELSE IF x \in out THEN NoFiber ELSE entry[x]
      BY <2>5, <2>6
    <3>2. entry' = [x \in Keys |-> entry'[x]] BY <2>5
    <3>3. \A x \in Keys : entry'[x] \in Fibers \cup {NoFiber} BY <3>1, <1>1
    <3>4. entry' \in [Keys -> Fibers \cup {NoFiber}] BY <3>2, <3>3
    <3>5. QED BY <2>1, <3>1, <3>4
  <2>8. Cached' = (Cached \ out) \cup {k}
    <3>1. f # NoFiber BY CacheAssumption
    <3>2. QED BY <2>1, <2>7, <3>1 DEF Cached
  <2>9. /\ lru' \in Seq(Keys) /\ IsInjective(lru') /\ Range(lru') = Range(rest) \cup {k}
    BY <2>1, <2>5, <2>6, CaTouched
  <2>10. CaListed'
    <3>1. Range(lru') = Cached' BY <2>6, <2>8, <2>9
    <3>2. fresh' \subseteq Cached' BY <2>5, <2>8, <1>2 DEF CaListed
    <3>3. QED BY <2>9, <3>1, <3>2 DEF CaListed
  <2>11. PICK left \in SUBSET Keys : left = Cached \ out BY <1>1
  <2>12. IsFiniteSet(left) /\ Cardinality(left) \in Nat
    BY <2>11, FS_Subset, FS_CardinalityType, CacheAssumption
  <2>13. WithinCapacity'
    <3> SUFFICES ASSUME Capacity > 0 PROVE Cardinality(Cached') <= Capacity BY DEF WithinCapacity
    <3>0. Capacity \in Nat BY CacheAssumption
    <3>1. CASE k \in Cached
      <4>1. ~full BY <2>2, <3>1
      <4>2. Cached' = Cached BY <4>1, <2>3, <2>8, <3>1
      <4>3. QED BY <4>2, <1>2 DEF WithinCapacity
    <3>2. CASE k \notin Cached
      <4>1. Cardinality(left) < Capacity
        <5>1. CASE full BY <5>1, <2>6, <2>11
        <5>2. CASE ~full
          <6>1. left = Cached BY <5>2, <2>3, <2>11
          <6>2. ~(Cardinality(Cached) >= Capacity) BY <5>2, <2>2, <3>2
          <6>3. QED BY <6>1, <6>2, <3>0, <1>1
        <5>3. QED BY <5>1, <5>2
      <4>2. k \notin left BY <3>2, <2>11
      <4>3. Cardinality(left \cup {k}) = Cardinality(left) + 1 BY <4>2, <2>12, FS_AddElement
      <4>4. Cached' = left \cup {k} BY <2>8, <2>11
      <4>5. Cardinality(Cached') = Cardinality(left) + 1 BY <4>3, <4>4, Zenon
      <4>6. QED BY <4>1, <4>5, <2>12, <3>0
    <3>3. QED BY <3>1, <3>2
  <2>14. InterruptedNotCached'
    <3> SUFFICES ASSUME NEW x \in Cached' PROVE deferred'[entry'[x]] = "success"
      BY DEF InterruptedNotCached
    <3>1. CASE x = k BY <3>1, <2>7, <1>2, <1>3, <1>8 DEF CaWinners
    <3>2. CASE x # k
      <4>1. x \in Cached /\ x \notin out /\ x \in Keys BY <3>2, <2>8, <1>1
      <4>2. entry'[x] = entry[x] BY <3>2, <4>1, <2>7
      <4>3. QED BY <4>1, <4>2, <1>2, <1>3 DEF InterruptedNotCached
    <3>3. QED BY <3>1, <3>2
  <2>15. stats' \in CaStats
    <3>1. out \in SUBSET Keys BY <2>6, <1>1
    <3>2. Cardinality(out) \in Nat BY <3>1, FS_Subset, FS_CardinalityType, CacheAssumption
    <3>3. PICK n \in Nat : n = Cardinality(out) BY <3>2
    <3>4. stats' = [stats EXCEPT !.loads = stats.loads + 1, !.evictions = stats.evictions + n]
      BY <3>3, <2>5, <1>1 DEF CaStats
    <3>5. /\ stats.hits \in Nat /\ stats.misses \in Nat /\ stats.evictions + n \in Nat
          /\ stats.loads + 1 \in Nat
      BY <1>1 DEF CaStats
    <3>6. stats' = [hits |-> stats.hits, misses |-> stats.misses, evictions |-> stats.evictions + n,
                    loads |-> stats.loads + 1]
      BY <3>4, <1>1 DEF CaStats
    <3>7. QED BY <3>5, <3>6 DEF CaStats
  <2>16. fresh' \subseteq Keys BY <2>1, <2>5, <1>1
  <2>17. TypeOK'
    BY <2>7, <2>9, <2>15, <2>16, <1>2, <1>3, <1>4, <1>5 DEF TypeOK, CaAt, CaStats
  <2>18. QED BY <2>10, <2>13, <2>14, <2>17, <1>6 DEF CacheIInv
<1>9. QED BY <1>7, <1>8

\* The entry of a key is removed, or outlives its TTL.
LEMMA CaRemoveOk == ASSUME CacheIInv, NEW f \in Fibers, Invalidate(f) PROVE CacheIInv'
<1>1. /\ entry \in [Keys -> Fibers \cup {NoFiber}] /\ fresh \subseteq Keys /\ lru \in Seq(Keys)
      /\ inFlight \in [Keys -> Fibers \cup {NoFiber}] /\ key[f] \in Keys
      /\ waitsFor \in [Fibers -> Fibers \cup {NoFiber}]
      /\ Cached \subseteq Keys /\ IsFiniteSet(Cached) /\ Cardinality(Cached) \in Nat
  BY CaTypes
<1>2. CaListed /\ WithinCapacity /\ InterruptedNotCached /\ CaWinners /\ TypeOK BY DEF CacheIInv
<1>3. PICK k \in Keys : k = key[f] BY <1>1
<1>4. /\ Go(f, "invalidate", IF inFlight[k] = NoFiber THEN "done" ELSE "interrupt")
      /\ waitsFor' = [waitsFor EXCEPT ![f] = inFlight[k]]
      /\ inFlight' = [inFlight EXCEPT ![k] = NoFiber] /\ entry' = [entry EXCEPT ![k] = NoFiber]
      /\ fresh' = fresh \ {k} /\ lru' = RemoveLru(lru, k)
      /\ stats' = stats /\ deferred' = deferred /\ won' = won
  BY <1>3 DEF Invalidate
<1>5. /\ entry' \in [Keys -> Fibers \cup {NoFiber}] /\ entry'[k] = NoFiber
      /\ \A x \in Keys : x # k => entry'[x] = entry[x]
  BY <1>1, <1>4
<1>6. Cached' = Cached \ {k} BY <1>5 DEF Cached
<1>7. lru' \in Seq(Keys) /\ IsInjective(lru') /\ Range(lru') = Range(lru) \ {k}
  BY <1>1, <1>2, <1>4, CaTouched DEF CaListed
<1>8. CaListed' BY <1>2, <1>4, <1>6, <1>7 DEF CaListed
<1>9. WithinCapacity'
  <2>1. PICK less \in SUBSET Cached : less = Cached \ {k} OBVIOUS
  <2>2. Cardinality(less) <= Cardinality(Cached) /\ Cardinality(less) \in Nat
    BY <1>1, FS_Subset, FS_CardinalityType
  <2>3. Cardinality(Cached') = Cardinality(less) BY <2>1, <1>6, Zenon
  <2>4. QED BY <2>2, <2>3, <1>1, <1>2, CacheAssumption DEF WithinCapacity
<1>10. InterruptedNotCached' BY <1>1, <1>2, <1>4, <1>5, <1>6 DEF InterruptedNotCached
<1>11. CaWinners' BY <1>2, <1>4 DEF CaWinners
<1>12. /\ pc' \in [Fibers -> CaAt] /\ key' = key /\ waitsFor' \in [Fibers -> Fibers \cup {NoFiber}]
       /\ \A g \in Fibers : pc'[g] \in {"wait", "interrupt"} => waitsFor'[g] \in Fibers
  <2>1. {"invalidate", "interrupt", "done"} \subseteq CaAt BY DEF CaAt
  <2>2. /\ waitsFor' \in [Fibers -> Fibers \cup {NoFiber}] /\ waitsFor'[f] = inFlight[k]
        /\ \A g \in Fibers : g # f => waitsFor'[g] = waitsFor[g]
    BY <1>1, <1>4
  <2>3. CASE inFlight[k] = NoFiber
    <3>1. Go(f, "invalidate", "done") BY <2>3, <1>4
    <3>2. QED BY <2>1, <2>2, <3>1, CaGo
  <2>4. CASE inFlight[k] # NoFiber
    <3>1. Go(f, "invalidate", "interrupt") BY <2>4, <1>4
    <3>2. waitsFor'[f] \in Fibers BY <2>2, <2>4, <1>1
    <3>3. QED BY <2>1, <2>2, <3>1, <3>2, CaGo
  <2>5. QED BY <2>3, <2>4
<1>13. inFlight' \in [Keys -> Fibers \cup {NoFiber}] BY <1>1, <1>4
<1>14. TypeOK' BY <1>1, <1>2, <1>4, <1>5, <1>7, <1>12, <1>13 DEF TypeOK, CaAt
<1>15. QED BY <1>8, <1>9, <1>10, <1>11, <1>14 DEF CacheIInv

\* Time passes, or nothing happens.
LEMMA CaRestOk ==
  ASSUME CacheIInv, UNCHANGED vars \/ \E k \in Keys : Expire(k)
  PROVE  CacheIInv'
<1>1. /\ entry' = entry /\ fresh' \subseteq fresh /\ inFlight' = inFlight /\ lru' = lru /\ stats' = stats
      /\ deferred' = deferred /\ pc' = pc /\ key' = key /\ waitsFor' = waitsFor /\ won' = won
  BY DEF vars, Expire
<1>2. Cached' = Cached BY <1>1 DEF Cached
<1>3. TypeOK' BY <1>1 DEF CacheIInv, TypeOK
<1>4. CaListed' /\ WithinCapacity' BY <1>1, <1>2 DEF CacheIInv, CaListed, WithinCapacity
<1>5. InterruptedNotCached' /\ CaWinners' BY <1>1, <1>2 DEF CacheIInv, InterruptedNotCached, CaWinners
<1>6. QED BY <1>3, <1>4, <1>5 DEF CacheIInv

\* A new cache is consistent.
LEMMA CacheInitOk == Init => CacheIInv
<1> SUFFICES ASSUME Init PROVE CacheIInv OBVIOUS
<1>1. TypeOK
  <2>1. <<>> \in Seq(Keys) OBVIOUS
  <2>2. /\ entry \in [Keys -> Fibers \cup {NoFiber}] /\ inFlight \in [Keys -> Fibers \cup {NoFiber}]
        /\ deferred \in [Fibers -> CaHow] /\ pc \in [Fibers -> CaAt]
        /\ waitsFor \in [Fibers -> Fibers \cup {NoFiber}]
        /\ \A f \in Fibers : pc[f] = "idle"
    BY DEF Init, CaHow, CaAt
  <2>3. won \in [Fibers -> BOOLEAN] BY DEF Init
  <2>4. stats \in CaStats BY DEF Init, CaStats
  <2>5. fresh = {} /\ lru = <<>> /\ key \in Requests BY DEF Init
  <2>6. QED BY <2>1, <2>2, <2>3, <2>4, <2>5 DEF TypeOK, CaHow, CaAt, CaStats
<1>2. Cached = {} BY DEF Cached, Init
<1>3. CaListed BY <1>2, EmptyLine DEF CaListed, Init
<1>4. WithinCapacity
  <2>1. Cardinality(Cached) = 0 BY <1>2, FS_EmptySet
  <2>2. QED BY <2>1, CacheAssumption DEF WithinCapacity
<1>5. InterruptedNotCached BY <1>2 DEF InterruptedNotCached
<1>6. CaWinners BY DEF CaWinners, Init
<1>7. QED BY <1>1, <1>3, <1>4, <1>5, <1>6 DEF CacheIInv

\* However calls interleave, are interrupted and are dropped: the LRU list lists exactly
\* the cached keys, each once, so that the branch of evict_lru for a list out of step is
\* never taken; there are never more entries than the capacity; and no load that was
\* interrupted is cached: for any calls, keys and capacity (cache.rs, get, invalidate,
\* put_entry and evict_lru).
THEOREM CacheInvariant == Spec => []CacheInv
<1>1. Init => CacheIInv BY CacheInitOk
<1>2. CacheIInv /\ [Next]_vars => CacheIInv'
  <2> SUFFICES ASSUME CacheIInv, [Next]_vars PROVE CacheIInv' OBVIOUS
  <2>1. CASE \E f \in Fibers : Call(f) \/ Step(f) \/ Drop(f)
    <3>1. PICK f \in Fibers : Call(f) \/ Step(f) \/ Drop(f) BY <2>1
    <3>2. CASE Hit(f) BY <3>2, CaHitOk
    <3>3. CASE Succeed(f) \/ Fail(f) \/ Interrupt(f) BY <3>3, CaCompleteOk
    <3>4. CASE Store(f) BY <3>4, CaStoreOk
    <3>5. CASE Invalidate(f) BY <3>5, CaRemoveOk
    <3>6. CASE \/ CallGet(f) \/ CallInvalidate(f) \/ Miss(f) \/ LoadEnds(f) \/ Cleanup(f)
               \/ WaitEnds(f) \/ Drop(f) \/ Join(f) \/ Lead(f)
      BY <3>6, CaQuiet
    <3>7. QED BY <3>1, <3>2, <3>3, <3>4, <3>5, <3>6 DEF Call, Step
  <2>2. CASE (\E k \in Keys : Expire(k)) \/ Terminated \/ UNCHANGED vars
    BY <2>2, CaRestOk DEF Terminated
  <2>3. QED BY <2>1, <2>2 DEF Next
<1>3. CacheIInv => CacheInv
  <2> SUFFICES ASSUME CacheIInv PROVE CacheInv OBVIOUS
  <2>1. IsInjective(lru) /\ Range(lru) = Cached BY DEF CacheIInv, CaListed
  <2>2. lru \in Seq(Keys) /\ IsFiniteSet(Cached) BY CaTypes
  <2>3. lru \in Seq(Cached)
    <3>1. Len(lru) \in Nat /\ lru \in [1..Len(lru) -> Keys] BY <2>2, LenProperties
    <3>2. \A i \in 1..Len(lru) : lru[i] \in Cached BY <2>1, <3>1 DEF Range
    <3>3. lru \in [1..Len(lru) -> Cached] BY <3>1, <3>2
    <3>4. QED BY <3>1, <3>3
  <2>4. Len(lru) = Cardinality(Cached) BY <2>1, <2>2, <2>3, LenOnce
  <2>5. ToSet(lru) = Cached BY <2>1, <2>2, RangeOf
  <2>6. QED BY <2>4, <2>5 DEF CacheIInv, CacheInv, LruInSync
<1>4. QED BY <1>1, <1>2, <1>3, PTL DEF Spec

===============================================================================
