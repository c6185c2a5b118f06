-------------------------------- MODULE Cache --------------------------------
(***************************************************************************)
(* The memoizing cache of resource/cache.rs: entries with expiry and LRU   *)
(* capacity, and misses coalesced on one Deferred per key.                 *)
(*                                                                         *)
(* Every fiber makes one call, get or invalidate.  A call is a sequence of *)
(* critical sections on the cache state (SynchronizedRef::modify), with    *)
(* the load and the completion of the Deferred between them; other fibers  *)
(* run in between.  The Deferred that a fiber makes is named after the     *)
(* fiber, and so is the value it loads.                                    *)
(***************************************************************************)
EXTENDS Naturals, Sequences, SequencesExt, FiniteSets, FiniteSetsExt

CONSTANTS Fibers,
          Keys,
          Requests,   \* the key that each fiber asks for, in some ways
          Invalidators, \* bound: the fibers that may call invalidate instead of get
          Capacity,   \* 0: unbounded
          NoFiber

ASSUME CacheAssumption == /\ Capacity \in Nat
                          /\ Requests \subseteq [Fibers -> Keys]
                          /\ NoFiber \notin Fibers /\ Invalidators \subseteq Fibers
                          /\ IsFiniteSet(Keys)

VARIABLES entry,      \* entry[k]: whose value is cached for k (CacheState::entries)
          fresh,      \* the keys whose entry has not outlived its TTL
          inFlight,   \* inFlight[k]: whose Deferred waits for k
          lru,        \* CacheState::lru
          stats,      \* CacheState::stats
          deferred,   \* deferred[f]: the Deferred of f
          pc,         \* where each fiber is in its call
          key,        \* key[f]: the key that f asks for
          waitsFor,   \* waitsFor[f]: whose Deferred f joined
          won         \* won[f]: the Deferred of f was completed by f

vars == <<entry, fresh, inFlight, lru, stats, deferred, pc, key, waitsFor, won>>

Cached == {k \in Keys : entry[k] # NoFiber}

TypeOK == /\ entry \in [Keys -> Fibers \cup {NoFiber}]
          /\ fresh \subseteq Keys
          /\ inFlight \in [Keys -> Fibers \cup {NoFiber}]
          /\ lru \in Seq(Keys)
          /\ stats \in [hits : Nat, misses : Nat, evictions : Nat, loads : Nat]
          /\ deferred \in [Fibers -> {"pending", "success", "failure", "interrupt"}]
          /\ pc \in [Fibers -> {"idle", "phase1", "phase2", "load", "loaded",
                                "failed", "store", "cleanup", "wait", "invalidate",
                                "interrupt", "done", "dropped"}]
          /\ key \in Requests
          /\ waitsFor \in [Fibers -> Fibers \cup {NoFiber}]
          /\ won \in [Fibers -> BOOLEAN]
          /\ \A f \in Fibers : pc[f] \in {"wait", "interrupt"} => waitsFor[f] \in Fibers

Init == /\ entry = [k \in Keys |-> NoFiber]
        /\ fresh = {}
        /\ inFlight = [k \in Keys |-> NoFiber]
        /\ lru = <<>>
        /\ stats = [hits |-> 0, misses |-> 0, evictions |-> 0, loads |-> 0]
        /\ deferred = [f \in Fibers |-> "pending"]
        /\ pc = [f \in Fibers |-> "idle"]
        /\ key \in Requests
        /\ waitsFor = [f \in Fibers |-> NoFiber]
        /\ won = [f \in Fibers |-> FALSE]

\* One step of the call of f.
Go(f, from, to) == /\ pc[f] = from
                   /\ pc' = [pc EXCEPT ![f] = to]
                   /\ UNCHANGED key

\* retain(|x| x != k), where the list has a key once at most (LruInSync).
RemoveLru(q, k) ==
  IF k \in Range(q) THEN RemoveAt(q, CHOOSE i \in DOMAIN q : q[i] = k) ELSE q

\* push_back after that.
TouchLru(q, k) == Append(RemoveLru(q, k), k)

(***************************************************************************)
(* evict_lru and put_entry.                                                *)
(***************************************************************************)

\* How many keys evict_lru takes from the front of the LRU list until there
\* is room, or all of them if that does not make room.
Victims ==
  LET Left(n) == Cached \ ToSet(SubSeq(lru, 1, n))
      enough == {n \in 0..Len(lru) : Cardinality(Left(n)) < Capacity}
  IN  IF enough = {} THEN Len(lru) ELSE Min(enough)

\* The keys it drops: those and, when the list is empty, arbitrary others.
Evicted ==
  LET listed == ToSet(SubSeq(lru, 1, Victims)) \cap Cached
      left == Cached \ listed
  IN  IF Cardinality(left) < Capacity THEN listed
      ELSE listed \cup CHOOSE m \in SUBSET left :
                          Cardinality(left \ m) = Capacity - 1

\* put_entry of the value of f for its key: make room unless the key has an
\* entry already, store, and make the key the most recently used.
PutEntry(f) ==
  LET k == key[f]
      full == k \notin Cached /\ Capacity > 0 /\ Cardinality(Cached) >= Capacity
      out == IF full THEN Evicted ELSE {}
      rest == IF full THEN SubSeq(lru, Victims + 1, Len(lru)) ELSE lru
  IN  /\ entry' = [x \in Keys |-> CASE x = k -> f
                                    [] x \in out -> NoFiber
                                    [] OTHER -> entry[x]]
      /\ fresh' = (fresh \ out) \cup {k}
      /\ lru' = TouchLru(rest, k)
      /\ stats' = [stats EXCEPT !.loads = @ + 1, !.evictions = @ + Cardinality(out)]

(***************************************************************************)
(* get.                                                                    *)
(***************************************************************************)

CallGet(f) == /\ Go(f, "idle", "phase1")
              /\ UNCHANGED <<entry, fresh, inFlight, lru, stats, deferred, waitsFor, won>>

\* A fresh entry: the value is returned.
Hit(f) == /\ \/ Go(f, "phase1", "done")
             \/ Go(f, "phase2", "done")
          /\ key[f] \in fresh
          /\ stats' = [stats EXCEPT !.hits = @ + 1]
          /\ lru' = TouchLru(lru, key[f])
          /\ UNCHANGED <<entry, fresh, inFlight, deferred, waitsFor, won>>

\* Somebody is loading the key: wait for that load.
Join(f) == /\ \/ Go(f, "phase1", "wait")
              \/ Go(f, "phase2", "wait")
           /\ key[f] \notin fresh
           /\ inFlight[key[f]] # NoFiber
           /\ waitsFor' = [waitsFor EXCEPT ![f] = inFlight[key[f]]]
           /\ stats' = [stats EXCEPT !.misses = @ + 1]
           /\ UNCHANGED <<entry, fresh, inFlight, lru, deferred, won>>

\* The first critical section found nothing; a Deferred is made without it.
Miss(f) == /\ Go(f, "phase1", "phase2")
           /\ key[f] \notin fresh
           /\ inFlight[key[f]] = NoFiber
           /\ UNCHANGED <<entry, fresh, inFlight, lru, stats, deferred, waitsFor, won>>

\* The second one found nothing either: f loads the key.
Lead(f) == /\ Go(f, "phase2", "load")
           /\ key[f] \notin fresh
           /\ inFlight[key[f]] = NoFiber
           /\ inFlight' = [inFlight EXCEPT ![key[f]] = f]
           /\ stats' = [stats EXCEPT !.misses = @ + 1]
           /\ UNCHANGED <<entry, fresh, lru, deferred, waitsFor, won>>

\* The load effect ends, well or badly.
LoadEnds(f) == /\ Go(f, "load", "loaded") \/ Go(f, "load", "failed")
               /\ UNCHANGED <<entry, fresh, inFlight, lru, stats, deferred, waitsFor, won>>

\* Deferred: the first completion wins.
Complete(d, how) == deferred' = [deferred EXCEPT ![d] = IF @ = "pending" THEN how ELSE @]

Succeed(f) == /\ Go(f, "loaded", "store")
              /\ Complete(f, "success")
              /\ won' = [won EXCEPT ![f] = (deferred[f] = "pending")]
              /\ UNCHANGED <<entry, fresh, inFlight, lru, stats, waitsFor>>

\* A load that fails without completing its Deferred.
FailSilently(f) == /\ Go(f, "failed", "cleanup")
                   /\ UNCHANGED <<entry, fresh, inFlight, lru, stats, deferred, waitsFor, won>>

Fail(f) == /\ Go(f, "failed", "cleanup")
           /\ Complete(f, "failure")
           /\ UNCHANGED <<entry, fresh, inFlight, lru, stats, waitsFor, won>>

\* Storing a value whose Deferred was interrupted.
StoreAlways(f) == /\ Go(f, "store", "done")
                  /\ inFlight' = [inFlight EXCEPT ![key[f]] = NoFiber]
                  /\ PutEntry(f)
                  /\ UNCHANGED <<deferred, waitsFor, won>>

\* Whatever Deferred is in flight for the key is removed; the value becomes an
\* entry if the Deferred of f was not interrupted.
Store(f) == /\ Go(f, "store", "done")
            /\ inFlight' = [inFlight EXCEPT ![key[f]] = NoFiber]
            /\ IF won[f] THEN PutEntry(f) ELSE UNCHANGED <<entry, fresh, lru, stats>>
            /\ UNCHANGED <<deferred, waitsFor, won>>

Cleanup(f) == /\ Go(f, "cleanup", "done")
              /\ inFlight' = [inFlight EXCEPT ![key[f]] = NoFiber]
              /\ UNCHANGED <<entry, fresh, lru, stats, deferred, waitsFor, won>>

\* Deferred::wait returns once the Deferred is complete.
WaitEnds(f) == /\ Go(f, "wait", "done")
               /\ deferred[waitsFor[f]] # "pending"
               /\ UNCHANGED <<entry, fresh, inFlight, lru, stats, deferred, waitsFor, won>>

\* The future of a get is dropped where it can be pending: at the load, at the wait,
\* or at the mutex of the cache state before the last critical section.  The Deferred
\* of a leader that ends like this stays registered, and one dropped at the load is
\* never completed by it.  (A call dropped at the mutex before its first sections has
\* done nothing, like one that was not made.)
Drop(f) == /\ \E at \in {"load", "wait", "store", "cleanup"} : Go(f, at, "dropped")
           /\ UNCHANGED <<entry, fresh, inFlight, lru, stats, deferred, waitsFor, won>>

(***************************************************************************)
(* invalidate, and the passing of time.                                    *)
(***************************************************************************)

CallInvalidate(f) == /\ Go(f, "idle", "invalidate") /\ f \in Invalidators
                     /\ UNCHANGED <<entry, fresh, inFlight, lru, stats, deferred, waitsFor, won>>

\* The entry and the Deferred in flight are removed...
Invalidate(f) ==
  LET k == key[f] IN
  /\ Go(f, "invalidate", IF inFlight[k] = NoFiber THEN "done" ELSE "interrupt")
  /\ waitsFor' = [waitsFor EXCEPT ![f] = inFlight[k]]
  /\ inFlight' = [inFlight EXCEPT ![k] = NoFiber]
  /\ entry' = [entry EXCEPT ![k] = NoFiber]
  /\ fresh' = fresh \ {k}
  /\ lru' = RemoveLru(lru, k)
  /\ UNCHANGED <<stats, deferred, won>>

\* ... and then the Deferred is interrupted, outside the critical section.
Interrupt(f) == /\ Go(f, "interrupt", "done")
                /\ Complete(waitsFor[f], "interrupt")
                /\ UNCHANGED <<entry, fresh, inFlight, lru, stats, waitsFor, won>>

\* An entry outlives its TTL.
Expire(k) == /\ k \in fresh
             /\ fresh' = fresh \ {k}
             /\ UNCHANGED <<entry, inFlight, lru, stats, deferred, pc, key, waitsFor, won>>

(***************************************************************************)
(* The specification.                                                      *)
(***************************************************************************)

Call(f) == CallGet(f) \/ CallInvalidate(f)

Step(f) == \/ Hit(f) \/ Join(f) \/ Miss(f) \/ Lead(f) \/ LoadEnds(f)
           \/ Succeed(f) \/ Fail(f) \/ Store(f) \/ Cleanup(f) \/ WaitEnds(f)
           \/ Invalidate(f) \/ Interrupt(f)

\* f waits for a load that was dropped, whose Deferred nobody has completed.
Stranded(f) == /\ pc[f] = "wait" /\ pc[waitsFor[f]] = "dropped"
               /\ deferred[waitsFor[f]] = "pending"

\* Every call has been made and has returned, but for the stranded ones.
Terminated == /\ \A f \in Fibers : pc[f] \in {"done", "dropped"} \/ Stranded(f)
              /\ UNCHANGED vars

Next == \/ \E f \in Fibers : Call(f) \/ Step(f) \/ Drop(f)
        \/ \E k \in Keys : Expire(k)
        \/ Terminated

\* The executor polls every fiber that can go on, and loads end.
Spec == Init /\ [][Next]_vars /\ \A f \in Fibers : WF_vars(Step(f))

(***************************************************************************)
(* Properties.                                                             *)
(***************************************************************************)

\* The LRU list lists exactly the cached keys, each once, whatever hits,
\* stores, evictions, expiries and invalidations interleave: the "LRU
\* desynced" branch of evict_lru is dead code.
LruInSync == ToSet(lru) = Cached /\ Len(lru) = Cardinality(Cached)

\* The cache never holds more entries than its capacity, although several
\* loads that missed at the same time store their values one after the other.
WithinCapacity == Capacity > 0 => Cardinality(Cached) =< Capacity

\* A load that was interrupted by invalidate is never cached: what invalidate
\* tells the waiters is what happened.
InterruptedNotCached ==
  \A k \in Cached : deferred[entry[k]] = "success"

\* What the critical sections keep.
CacheInv == TypeOK /\ LruInSync /\ WithinCapacity /\ InterruptedNotCached

\* Nobody waits for ever, but for those who joined a load whose future was dropped
\* and that nobody invalidates: a fiber is released when the load that it joined
\* ends or is interrupted, even if its Deferred is no longer registered.
EveryCallReturns ==
  \A f \in Fibers : pc[f] # "idle" ~> pc[f] \in {"done", "dropped"} \/ Stranded(f)

\* "one shared load per key in flight": two fibers load the same key at the
\* same time only if one of the loads was interrupted or is being interrupted.
SingleFlight ==
  \A f, g \in Fibers :
     /\ f # g /\ key[f] = key[g] /\ pc[f] = "load" /\ pc[g] = "load"
     /\ deferred[f] = "pending" /\ deferred[g] = "pending"
     => \E h \in Fibers : pc[h] = "interrupt" /\ waitsFor[h] \in {f, g}
==============================================================================
