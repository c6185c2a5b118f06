--------------------------------- MODULE Pool ---------------------------------
(***************************************************************************)
(* The resource pools of resource/pool.rs: a semaphore bounds the          *)
(* checkouts, an idle list per key keeps values for reuse, and finalizers  *)
(* of the caller's Scope return the value and the permit.                  *)
(*                                                                         *)
(* Every scope is used for one get.  It may be closed at any time, by      *)
(* another thread, and the steps of add_finalizer and of close_with_exit   *)
(* are those of module Scope: a finalizer is refused, stored in time,      *)
(* stored too late, or taken by a drain that does not commit.  A finalizer *)
(* that is dropped drops the permit it holds, which releases it, and loses *)
(* the value.  Pool is KeyedPool with one key.  The value that the factory *)
(* makes for a scope is named after it.                                    *)
(***************************************************************************)
EXTENDS Naturals, Sequences, SequencesExt, FiniteSets, FiniteSetsExt

CONSTANTS PlScopes,
          PlKeys,
          PlRequests,   \* the key that each scope asks for, in some ways
          PlRacing,     \* bound: the scopes that are closed also before their get has ended
          PlCapacity,
          PlNoItem

ASSUME PoolAssumption ==
  /\ PlCapacity \in Nat \ {0}
  /\ PlRequests \subseteq [PlScopes -> PlKeys] /\ PlRacing \subseteq PlScopes
  /\ IsFiniteSet(PlScopes) /\ PlNoItem \notin PlScopes

VARIABLES plpermits,    \* Semaphore: the permits available
          plqueue,      \* Semaphore: the gets that wait for a permit, in order
          plidle,       \* KeyedPoolState::per_key
          plexpired,    \* the idle values that have outlived the TTL
          pldiscard,    \* KeyedPoolState::discard
          plscope,      \* plscope[s]: how far the close of s is
          plfins,       \* plfins[s]: the finalizers in the TRef of s
          pltaken,      \* pltaken[s]: those that its close has taken out of their cells
          plpc,         \* plpc[s]: where the get of s is
          plkey,        \* plkey[s]: the key that it asks for
          plitem,       \* plitem[s]: the value it was given
          pldisturbed   \* history: the scopes whose drain dropped a permit

plcounts == <<plpermits, plqueue>>
plvalues == <<plidle, plexpired, pldiscard>>
plclosing == <<plscope, plfins, pltaken, pldisturbed>>
plvars == <<plcounts, plvalues, plclosing, plpc, plkey, plitem>>

PlItems == PlScopes

\* A get registers its permit first and its value second.
PlFinalizers == {"permit", "item"}

PoolTypeOK ==
  /\ plpermits \in Nat
  /\ plqueue \in Seq(PlScopes)
  /\ plidle \in [PlKeys -> Seq(PlItems)]
  /\ plexpired \subseteq PlItems
  /\ pldiscard \subseteq PlItems
  /\ plscope \in [PlScopes -> {"open", "closed", "taken", "drained", "gone"}]
  /\ plfins \in [PlScopes -> SUBSET PlFinalizers]
  /\ pltaken \in [PlScopes -> SUBSET PlFinalizers]
  /\ plpc \in [PlScopes -> {"idle", "waiting", "granted", "held", "take", "make", "register",
                        "back", "done", "failed"}]
  /\ plkey \in PlRequests
  /\ plitem \in [PlScopes -> PlItems \cup {PlNoItem}]
  /\ pldisturbed \subseteq PlScopes

PoolInit ==
  /\ plpermits = PlCapacity
  /\ plqueue = <<>>
  /\ plidle = [k \in PlKeys |-> <<>>]
  /\ plexpired = {}
  /\ pldiscard = {}
  /\ plscope = [s \in PlScopes |-> "open"]
  /\ plfins = [s \in PlScopes |-> {}] /\ pltaken = [s \in PlScopes |-> {}]
  /\ pldisturbed = {}
  /\ plpc = [s \in PlScopes |-> "idle"]
  /\ plkey \in PlRequests
  /\ plitem = [s \in PlScopes |-> PlNoItem]

(***************************************************************************)
(* The semaphore of tokio: permits go to the waiters in order of arrival.  *)
(***************************************************************************)

\* A permit is dropped; to is where each get would be without that.
PlRelease(to) ==
  IF plqueue = <<>> THEN plpermits' = plpermits + 1 /\ plpc' = to /\ UNCHANGED plqueue
  ELSE /\ plpc' = [to EXCEPT ![Head(plqueue)] = "granted"]
       /\ plqueue' = Tail(plqueue)
       /\ UNCHANGED plpermits

(***************************************************************************)
(* get.                                                                    *)
(***************************************************************************)

\* Semaphore::acquire asks for a permit.
PlGet(s) ==
  /\ plpc[s] = "idle"
  /\ IF plpermits > 0
     THEN /\ plpermits' = plpermits - 1
          /\ plpc' = [plpc EXCEPT ![s] = "granted"]
          /\ UNCHANGED plqueue
     ELSE /\ plqueue' = Append(plqueue, s)
          /\ plpc' = [plpc EXCEPT ![s] = "waiting"]
          /\ UNCHANGED plpermits
  /\ UNCHANGED <<plvalues, plclosing, plkey, plitem>>

\* Faulty variant: the permit is forgotten if the scope is closed.
PlCheckPermitForgets(s) ==
  /\ plpc[s] = "granted"
  /\ plpc' = [plpc EXCEPT ![s] = IF plscope[s] = "open" THEN "held" ELSE "take"]
  /\ UNCHANGED <<plcounts, plvalues, plclosing, plkey, plitem>>

\* add_finalizer looks at the scope: if it is closed the finalizer is dropped, and the
\* permit with it ...
PlCheckPermit(s) ==
  /\ plpc[s] = "granted"
  /\ IF plscope[s] = "open"
     THEN plpc' = [plpc EXCEPT ![s] = "held"] /\ UNCHANGED plcounts
     ELSE PlRelease([plpc EXCEPT ![s] = "take"])
  /\ UNCHANGED <<plvalues, plclosing, plkey, plitem>>

\* The transaction of add_finalizer stores f, whatever has become of the scope.
PlStore(s, f) ==
  /\ plfins' = [plfins EXCEPT ![s] = @ \cup {f}]
  /\ UNCHANGED <<plcounts, plvalues, plscope, pltaken, pldisturbed, plkey, plitem>>

\* ... otherwise the permit goes into the finalizer, and that is stored.
PlKeepPermit(s) ==
  /\ plpc[s] = "held"
  /\ plpc' = [plpc EXCEPT ![s] = "take"]
  /\ PlStore(s, "permit")

\* take_idle: slots that are expired or discarded are dropped from the front
\* until there is one to reuse.
PlTakeIdle(s) ==
  LET slots == plidle[plkey[s]]
      good == {i \in DOMAIN slots : slots[i] \notin plexpired \cup pldiscard}
      rest == IF good = {} THEN <<>> ELSE SubSeq(slots, Min(good) + 1, Len(slots)) IN
  /\ plpc[s] = "take"
  /\ plidle' = [plidle EXCEPT ![plkey[s]] = rest]
  /\ plexpired' = plexpired \ (ToSet(slots) \ ToSet(rest))
  /\ IF good = {}
     THEN plpc' = [plpc EXCEPT ![s] = "make"] /\ UNCHANGED plitem
     ELSE /\ plitem' = [plitem EXCEPT ![s] = slots[Min(good)]]
          /\ plpc' = [plpc EXCEPT ![s] = "register"]
  /\ UNCHANGED <<plcounts, pldiscard, plclosing, plkey>>

\* The factory makes a value ...
PlMade(s) ==
  /\ plpc[s] = "make"
  /\ plpc' = [plpc EXCEPT ![s] = "register"]
  /\ plitem' = [plitem EXCEPT ![s] = s]
  /\ UNCHANGED <<plcounts, plvalues, plclosing, plkey>>

\* ... or fails, and get with it; the permit stays with the scope.
PlMakeFails(s) ==
  /\ plpc[s] = "make"
  /\ plpc' = [plpc EXCEPT ![s] = "failed"]
  /\ UNCHANGED <<plcounts, plvalues, plclosing, plkey, plitem>>

\* add_finalizer for the check-in of the value: it is refused, or stored.
PlCheckItem(s) ==
  /\ plpc[s] = "register"
  /\ plpc' = [plpc EXCEPT ![s] = IF plscope[s] = "open" THEN "back" ELSE "done"]
  /\ UNCHANGED <<plcounts, plvalues, plclosing, plkey, plitem>>

PlKeepItem(s) ==
  /\ plpc[s] = "back"
  /\ plpc' = [plpc EXCEPT ![s] = "done"]
  /\ PlStore(s, "item")

(***************************************************************************)
(* close of the scope, invalidate, and the passing of time.                *)
(***************************************************************************)
PlGoes(s, from, to) == plscope[s] = from /\ plscope' = [plscope EXCEPT ![s] = to]

\* The flag is set.
PlClose(s) ==
  /\ s \in PlRacing \/ plpc[s] \in {"done", "failed"}
  /\ PlGoes(s, "open", "closed")
  /\ UNCHANGED <<plcounts, plvalues, plfins, pltaken, pldisturbed, plpc, plkey, plitem>>

\* The body of the drain transaction empties the cells.
PlDrainBody(s) ==
  /\ PlGoes(s, "closed", "taken")
  /\ pltaken' = [pltaken EXCEPT ![s] = plfins[s]]
  /\ plfins' = [plfins EXCEPT ![s] = {}]
  /\ UNCHANGED <<plcounts, plvalues, pldisturbed, plpc, plkey, plitem>>

\* Its commit succeeds ...
PlDrainCommit(s) ==
  /\ PlGoes(s, "taken", "drained") /\ plfins[s] = {}
  /\ UNCHANGED <<plcounts, plvalues, plfins, pltaken, pldisturbed, plpc, plkey, plitem>>

\* A permit of s is dropped if it is in the finalizers fins.
PlDropped(fins) == IF "permit" \in fins THEN PlRelease(plpc) ELSE UNCHANGED <<plcounts, plpc>>

\* ... or finds that a finalizer was stored meanwhile: the body runs again, and what it
\* had taken is dropped.
PlDrainConflict(s) ==
  /\ PlGoes(s, "taken", "closed") /\ plfins[s] # {}
  /\ pltaken' = [pltaken EXCEPT ![s] = {}]
  /\ PlDropped(pltaken[s])
  /\ pldisturbed' = IF "permit" \in pltaken[s] THEN pldisturbed \cup {s} ELSE pldisturbed
  /\ UNCHANGED <<plvalues, plfins, plkey, plitem>>

\* The finalizer of a value: back to the idle list, unless it is discarded.
PlCheckIn(s) ==
  /\ plidle' = IF plitem[s] \in pldiscard THEN plidle
               ELSE [plidle EXCEPT ![plkey[s]] = Append(@, plitem[s])]
  /\ UNCHANGED <<plcounts, plpc>>

\* The finalizer f runs: the value is returned, or the permit.
PlRun(s, f) ==
  /\ plscope[s] = "drained" /\ f \in pltaken[s]
  /\ pltaken' = [pltaken EXCEPT ![s] = @ \ {f}]
  /\ \/ f = "item" /\ PlCheckIn(s)
     \/ f = "permit" /\ PlRelease(plpc) /\ UNCHANGED plidle
  /\ UNCHANGED <<plexpired, pldiscard, plscope, plfins, pldisturbed, plkey, plitem>>

\* Faulty variant: the finalizers run in order of registration.
PlRunFinalizerFifo(s) ==
  \E f \in PlFinalizers : (f = "item" => "permit" \notin pltaken[s]) /\ PlRun(s, f)

\* close runs the finalizers, the one registered last first.
PlRunFinalizer(s) ==
  \E f \in PlFinalizers : (f = "permit" => "item" \notin pltaken[s]) /\ PlRun(s, f)

\* The last handle of a scope is dropped, which was never closed or whose close has
\* returned: the finalizers that are still in its TRef are dropped.
PlForget(s) ==
  /\ plpc[s] \in {"done", "failed"} /\ plfins[s] # {}
  /\ plscope[s] = "open" \/ (plscope[s] = "drained" /\ pltaken[s] = {})
  /\ plscope' = [plscope EXCEPT ![s] = "gone"]
  /\ plfins' = [plfins EXCEPT ![s] = {}]
  /\ PlDropped(plfins[s])
  /\ UNCHANGED <<plvalues, pltaken, pldisturbed, plkey, plitem>>

\* retain(|s| s.value != x), where a value is in one slot at most (PlOnePlace).
PlRetain(slots, x) ==
  IF x \in Range(slots) THEN RemoveAt(slots, CHOOSE i \in DOMAIN slots : slots[i] = x) ELSE slots

\* Somebody who was given the value x reports it as broken.
PlInvalidate(x) ==
  /\ x \notin pldiscard
  /\ \E s \in PlScopes : plpc[s] = "done" /\ plitem[s] = x
  /\ pldiscard' = pldiscard \cup {x}
  /\ plidle' = [k \in PlKeys |-> PlRetain(plidle[k], x)]
  /\ plexpired' = plexpired \ {x}
  /\ UNCHANGED <<plcounts, plclosing, plpc, plkey, plitem>>

\* An idle value outlives its TTL.
PlExpire(x) ==
  /\ x \notin plexpired
  /\ \E k \in PlKeys : x \in ToSet(plidle[k])
  /\ plexpired' = plexpired \cup {x}
  /\ UNCHANGED <<plcounts, plidle, pldiscard, plclosing, plpc, plkey, plitem>>

(***************************************************************************)
(* The specification.                                                      *)
(***************************************************************************)

PlStep(s) ==
  \/ PlCheckPermit(s) \/ PlKeepPermit(s) \/ PlTakeIdle(s) \/ PlMade(s) \/ PlMakeFails(s)
  \/ PlCheckItem(s) \/ PlKeepItem(s)
  \/ PlDrainBody(s) \/ PlDrainCommit(s) \/ PlDrainConflict(s) \/ PlRunFinalizer(s)

PoolNext ==
  \/ \E s \in PlScopes : PlGet(s) \/ PlStep(s) \/ PlClose(s) \/ PlForget(s)
  \/ \E x \in PlItems : PlInvalidate(x) \/ PlExpire(x)

\* The executor polls what can go on, the factory returns, and scopes do not
\* stay open for ever.  Nobody has to drop a handle.
PoolSpec == /\ PoolInit /\ [][PoolNext]_plvars
            /\ \A s \in PlScopes : WF_plvars(PlStep(s)) /\ WF_plvars(PlClose(s))

(***************************************************************************)
(* Properties.                                                             *)
(***************************************************************************)

\* The finalizers of s, wherever they are.
PlKept(s) == plfins[s] \cup pltaken[s]

\* The gets and the scopes that hold a permit.
PlHolders == {s \in PlScopes : plpc[s] \in {"granted", "held"} \/ "permit" \in PlKept(s)}

\* Every permit is either available or held, whether gets end in a value, in
\* an error of the factory or in a closed scope, and whatever a close drops;
\* and nobody waits for a permit that is available.
PlPermitsConserved ==
  /\ plpermits + Cardinality(PlHolders) = PlCapacity
  /\ plqueue # <<>> => plpermits = 0

\* A value has at most one place: idle, or with one scope that may return it.
PlOnePlace ==
  LET in(x, k) == {i \in DOMAIN plidle[k] : plidle[k][i] = x}
      out(x) == {s \in PlScopes : plitem[s] = x /\ "item" \in PlKept(s)}
  IN  \A x \in PlItems : Cardinality(UNION {in(x, k) \X {k} : k \in PlKeys})
                         + Cardinality(out(x)) =< 1

\* The pool makes no more values than it has places: for every key, the idle
\* values that can be reused and those that permit holders have or are making
\* are at most Capacity, and one more for every drain that dropped a permit
\* before the value was returned.  It depends on the value being returned
\* before the permit.
PlBounded ==
  \A k \in PlKeys :
     LET using == {s \in PlHolders : /\ plkey[s] = k
                                     /\ \/ plpc[s] \in {"make", "register", "back"}
                                        \/ "item" \in PlKept(s)}
     IN  Len(plidle[k]) + Cardinality(using) =<
           PlCapacity + Cardinality({s \in pldisturbed : plkey[s] = k})

\* A value that was invalidated is not handed out again, although it may come
\* back from a scope that closes later.
PlDiscardedNotReused == \A k \in PlKeys : ToSet(plidle[k]) \cap pldiscard = {}

\* What the pool keeps consistent, whatever fails, closes or is invalidated when.
PoolInv == PoolTypeOK /\ PlPermitsConserved /\ PlOnePlace /\ PlBounded /\ PlDiscardedNotReused

\* Every get is served in the end, if scopes are closed in the end, unless the close of
\* some scope has missed a permit that was being registered.
EveryGetReturns ==
  \A s \in PlScopes :
     plpc[s] # "idle" ~> \/ plpc[s] \in {"done", "failed"}
                        \/ \E r \in PlScopes : plscope[r] = "drained" /\ "permit" \in plfins[r]
==============================================================================
