-------------------------------- MODULE Scope --------------------------------
(***************************************************************************)
(* The scope tree of resource/scope.rs: scopes that are forked, reparented *)
(* and closed by several threads while finalizers are being registered.    *)
(*                                                                         *)
(* close_with_exit is recursive, so every thread has a stack of frames,    *)
(* one per scope it is closing.  The finalizers of a scope are one TRef:   *)
(* registering and draining are transactions, which are atomic (module     *)
(* Stm), but their bodies run before the commit and the body of the drain  *)
(* has a side effect: it empties the cells it finds.                       *)
(*                                                                         *)
(* is_closed walks up the parents one flag at a time; it is one step here. *)
(* That is the same, since a flag that is set stays set, unless an extend  *)
(* moves a scope just while a walk is passing it.  A handle to every scope *)
(* is kept by the program, so the Weak pointers can always be upgraded.    *)
(***************************************************************************)
EXTENDS Integers, Sequences, SequencesExt, FiniteSets

CONSTANTS Callers,
          Scopes,
          Roots,     \* the scopes that Scope::make made
          Fins,      \* the finalizers that the program registers
          Homes,     \* bound: Homes[f]: the scopes f may be registered with
          Forks,     \* bound: pairs <<s, c>>, the program forks c from s
          Extends,   \* bound: pairs <<s, c>>, the program moves c under s
          NoScope

ASSUME ScopeAssumption == /\ Roots \subseteq Scopes
                          /\ Forks \subseteq Scopes \X (Scopes \ Roots)
                          /\ Extends \subseteq Scopes \X Scopes
                          /\ Homes \in [Fins -> SUBSET Scopes]
                          /\ NoScope \notin Scopes

VARIABLES made,      \* the scopes whose handle has been returned
          closed,    \* ScopeInner::closed
          parent,    \* ScopeInner::parent
          children,  \* ScopeInner::children
          bucket,    \* ScopeInner::finalizers, the contents of the TRef
          bver,      \* and its version
          emptied,   \* finalizers whose cell a drain has emptied
          latch,     \* ScopeInner::close_latch is open
          stack,     \* stack[t]: the close_with_exit calls of t, top first
          call,      \* call[t]: the other operation t is in the middle of
          owned,     \* observer: pairs <<c, s>>, c was given to s to close
          fate,      \* observer: what became of the registration of f
          late,      \* observer: finalizers stored after the scope was marked
          stored,    \* observer: stored[s]: finalizers in the order stored
          ran        \* observer: the finalizers that ran, in order

scopevars == <<made, closed, parent, children, bucket, bver, emptied, latch, stack,
               call, owned, fate, late, stored, ran>>

NoCall == [op |-> "none"]
Frame(s) == [scope |-> s, phase |-> "snapshot", todo |-> <<>>, ver |-> 0,
             fins |-> <<>>]

Phases == {"snapshot", "children", "drain", "commit", "run"}
Frames == [scope : Scopes, phase : Phases, todo : Seq(Scopes), ver : Nat,
           fins : Seq(Fins)]
Calls == {NoCall} \cup [op : {"fork"}, scope : Scopes, child : Scopes]
                \cup [op : {"extend"}, scope : Scopes, child : Scopes,
                      linked : BOOLEAN]
                \cup [op : {"add"}, scope : Scopes, fin : Fins, read : BOOLEAN,
                      ver : Nat]

ScopeTypeOK == /\ made \subseteq Scopes
               /\ closed \in [Scopes -> BOOLEAN]
               /\ parent \in [Scopes -> Scopes \cup {NoScope}]
               /\ children \in [Scopes -> Seq(Scopes)]
               /\ bucket \in [Scopes -> Seq(Fins)]
               /\ bver \in [Scopes -> Nat]
               /\ emptied \subseteq Fins
               /\ latch \in [Scopes -> BOOLEAN]
               /\ stack \in [Callers -> Seq(Frames)]
               /\ call \in [Callers -> Calls]
               /\ owned \subseteq Scopes \X Scopes
               /\ fate \in [Fins -> {"new", "adding", "added", "refused"}]
               /\ late \subseteq Fins
               /\ stored \in [Scopes -> Seq(Fins)]
               /\ ran \in Seq(Fins)

ScopeInit == /\ made = Roots
             /\ closed = [s \in Scopes |-> FALSE]
             /\ parent = [s \in Scopes |-> NoScope]
             /\ children = [s \in Scopes |-> <<>>]
             /\ bucket = [s \in Scopes |-> <<>>]
             /\ bver = [s \in Scopes |-> 0]
             /\ emptied = {}
             /\ latch = [s \in Scopes |-> FALSE]
             /\ stack = [t \in Callers |-> <<>>]
             /\ call = [t \in Callers |-> NoCall]
             /\ owned = {}
             /\ fate = [f \in Fins |-> "new"]
             /\ late = {}
             /\ stored = [s \in Scopes |-> <<>>]
             /\ ran = <<>>

\* s and the scopes above it, the least set that follows the links, which are pairs
\* <<child, parent>>.
Lineage(s, links) ==
  {a \in Scopes : \A up \in SUBSET Scopes :
     s \in up /\ (\A c \in up, b \in Scopes : <<c, b>> \in links => b \in up) => a \in up}

Parents == {<<c, parent[c]>> : c \in Scopes}

IsClosed(s) == \E a \in Lineage(s, Parents) : closed[a]

Free(t) == stack[t] = <<>> /\ call[t] = NoCall

\* The scopes some call is about to make.
Forking == {call[t].child : t \in {u \in Callers : call[u].op = "fork"}}

(***************************************************************************)
(* close_with_exit.                                                        *)
(***************************************************************************)

\* The swap at the start of close_with_exit(c): if the flag was clear, the
\* call goes on in a frame of its own above the frames st; otherwise it returns.
EnterClose(t, c, st) ==
  /\ closed' = [closed EXCEPT ![c] = TRUE]
  /\ stack' = [stack EXCEPT ![t] = IF closed[c] THEN st ELSE <<Frame(c)>> \o st]

\* close() is called on a scope.
Close(t, s) == /\ Free(t)
               /\ s \in made
               /\ EnterClose(t, s, <<>>)
               /\ UNCHANGED <<made, parent, children, bucket, bver, emptied,
                              latch, call, fate, owned, late, stored, ran>>

\* The frame t executes, and what replaces it.
Top(t) == Head(stack[t])
At(t, phase) == stack[t] # <<>> /\ Top(t).phase = phase
Become(t, f) == stack' = [stack EXCEPT ![t] = <<f>> \o Tail(@)]

\* The list of children is copied under its mutex.
Snapshot(t) ==
  /\ At(t, "snapshot")
  /\ Become(t, [Top(t) EXCEPT !.phase = "children", !.todo = children[Top(t).scope]])
  /\ UNCHANGED <<made, closed, parent, children, bucket, bver, emptied, latch,
                 call, fate, owned, late, stored, ran>>

\* The next child of the copy is closed, by this thread.
CloseChild(t) ==
  /\ At(t, "children")
  /\ Top(t).todo # <<>>
  /\ EnterClose(t, Head(Top(t).todo),
                <<[Top(t) EXCEPT !.todo = Tail(@)]>> \o Tail(stack[t]))
  /\ UNCHANGED <<made, parent, children, bucket, bver, emptied, latch, call,
                 fate, owned, late, stored, ran>>

\* Faulty variant: the scope goes on to its own finalizers before all children
\* are closed.
ChildrenSkipped(t) ==
  /\ At(t, "children")
  /\ Become(t, [Top(t) EXCEPT !.phase = "drain"])
  /\ UNCHANGED <<made, closed, parent, children, bucket, bver, emptied, latch,
                 call, fate, owned, late, stored, ran>>

ChildrenClosed(t) ==
  /\ At(t, "children")
  /\ Top(t).todo = <<>>
  /\ Become(t, [Top(t) EXCEPT !.phase = "drain"])
  /\ UNCHANGED <<made, closed, parent, children, bucket, bver, emptied, latch,
                 call, fate, owned, late, stored, ran>>

\* What the cells of a bucket still hold: the one sequence of it in the bucket's order.
Held(cells) ==
  {q \in SetToSeqs(ToSet(cells) \ emptied) :
     \A i, j \in DOMAIN q : i < j =>
        \E a, b \in DOMAIN cells : a < b /\ cells[a] = q[i] /\ cells[b] = q[j]}

\* The body of the drain transaction: read the bucket, take what its cells
\* still hold.  Taking is not undone if the transaction does not commit.
DrainBody(t) ==
  LET s == Top(t).scope IN
  /\ At(t, "drain")
  /\ emptied' = emptied \cup ToSet(bucket[s])
  /\ \E held \in Held(bucket[s]) :
       Become(t, [Top(t) EXCEPT !.phase = "commit", !.ver = bver[s], !.fins = held])
  /\ UNCHANGED <<made, closed, parent, children, bucket, bver, latch, call,
                 fate, owned, late, stored, ran>>

\* Its commit: the bucket is emptied if nothing was stored since it was read;
\* otherwise the body runs again and what it took before is dropped.
DrainCommit(t) ==
  LET s == Top(t).scope IN
  /\ At(t, "commit")
  /\ IF bver[s] = Top(t).ver
     THEN /\ bucket' = [bucket EXCEPT ![s] = <<>>]
          /\ bver' = [bver EXCEPT ![s] = @ + 1]
          /\ Become(t, [Top(t) EXCEPT !.phase = "run", !.ver = 0])
     ELSE /\ Become(t, [Top(t) EXCEPT !.phase = "drain", !.fins = <<>>, !.ver = 0])
          /\ UNCHANGED <<bucket, bver>>
  /\ UNCHANGED <<made, closed, parent, children, emptied, latch, call, fate,
                 owned, late, stored, ran>>

\* The drained finalizers run in reverse order of registration.
RunFinalizer(t) ==
  /\ At(t, "run")
  /\ Top(t).fins # <<>>
  /\ ran' = Append(ran, Last(Top(t).fins))
  /\ Become(t, [Top(t) EXCEPT !.fins = Front(@)])
  /\ UNCHANGED <<made, closed, parent, children, bucket, bver, emptied, latch,
                 call, fate, owned, late, stored>>

\* The close latch is opened and close_with_exit returns.
OpenLatch(t) ==
  /\ At(t, "run")
  /\ Top(t).fins = <<>>
  /\ latch' = [latch EXCEPT ![Top(t).scope] = TRUE]
  /\ stack' = [stack EXCEPT ![t] = Tail(@)]
  /\ UNCHANGED <<made, closed, parent, children, bucket, bver, emptied, call,
                 fate, owned, late, stored, ran>>

(***************************************************************************)
(* fork.                                                                   *)
(***************************************************************************)

\* The child is made and stored in the list of its parent.
Fork(t, s, c) ==
  /\ Free(t)
  /\ s \in made
  /\ <<s, c>> \in Forks
  /\ c \notin made \cup Forking
  /\ parent' = [parent EXCEPT ![c] = s]
  /\ children' = [children EXCEPT ![s] = Append(@, c)]
  /\ owned' = owned \cup {<<c, s>>}
  /\ call' = [call EXCEPT ![t] = [op |-> "fork", scope |-> s, child |-> c]]
  /\ UNCHANGED <<made, closed, bucket, bver, emptied, latch, stack, fate,
                 late, stored, ran>>

\* Faulty variant: fork does not look at its parent again.
ForkUnchecked(t) ==
  /\ stack[t] = <<>>
  /\ call[t].op = "fork"
  /\ made' = made \cup {call[t].child}
  /\ call' = [call EXCEPT ![t] = NoCall]
  /\ UNCHANGED <<closed, stack, parent, children, bucket, bver, emptied, latch, fate,
                 owned, late, stored, ran>>

\* If the parent was closed meanwhile, the child is closed before it is
\* returned.
ForkCheck(t) ==
  LET c == call[t].child IN
  /\ stack[t] = <<>>
  /\ call[t].op = "fork"
  /\ IF IsClosed(call[t].scope) /\ ~closed[c]
     THEN /\ EnterClose(t, c, <<>>)
          /\ UNCHANGED <<made, call>>
     ELSE /\ made' = made \cup {c}
          /\ call' = [call EXCEPT ![t] = NoCall]
          /\ UNCHANGED <<closed, stack>>
  /\ UNCHANGED <<parent, children, bucket, bver, emptied, latch, fate, owned,
                 late, stored, ran>>

(***************************************************************************)
(* extend.                                                                 *)
(***************************************************************************)

\* Both scopes were found open.
Extend(t, s, c) ==
  /\ Free(t)
  /\ s \in made /\ c \in made
  /\ <<s, c>> \in Extends
  /\ parent[c] # s
  /\ ~IsClosed(s) /\ ~IsClosed(c)
  /\ call' = [call EXCEPT ![t] = [op |-> "extend", scope |-> s, child |-> c,
                                  linked |-> FALSE]]
  /\ UNCHANGED <<made, closed, parent, children, bucket, bver, emptied, latch,
                 stack, fate, owned, late, stored, ran>>

\* The parent of c is replaced (the old parent keeps c in its list).
ExtendLink(t) ==
  /\ call[t].op = "extend" /\ ~call[t].linked
  /\ parent' = [parent EXCEPT ![call[t].child] = call[t].scope]
  /\ call' = [call EXCEPT ![t].linked = TRUE]
  /\ UNCHANGED <<made, closed, children, bucket, bver, emptied, latch, stack,
                 fate, owned, late, stored, ran>>

ExtendStore(t) ==
  LET s == call[t].scope IN
  /\ call[t].op = "extend" /\ call[t].linked
  /\ children' = [children EXCEPT ![s] = Append(@, call[t].child)]
  /\ call' = [call EXCEPT ![t] = NoCall]
  /\ owned' = IF closed[s] THEN owned ELSE owned \cup {<<call[t].child, s>>}
  /\ UNCHANGED <<made, closed, parent, bucket, bver, emptied, latch, stack, fate,
                 late, stored, ran>>

(***************************************************************************)
(* add_finalizer.                                                          *)
(***************************************************************************)

\* The check at the start; FALSE is returned at once if the scope is closed.
AddFinalizer(t, s, f) ==
  /\ Free(t)
  /\ s \in made
  /\ s \in Homes[f]
  /\ fate[f] = "new"
  /\ IF IsClosed(s)
     THEN /\ fate' = [fate EXCEPT ![f] = "refused"]
          /\ UNCHANGED call
     ELSE /\ fate' = [fate EXCEPT ![f] = "adding"]
          /\ call' = [call EXCEPT ![t] = [op |-> "add", scope |-> s, fin |-> f,
                                          read |-> FALSE, ver |-> 0]]
  /\ UNCHANGED <<made, closed, parent, children, bucket, bver, emptied, latch,
                 stack, owned, late, stored, ran>>

\* The body of the transaction reads the bucket.
AddBody(t) ==
  /\ call[t].op = "add" /\ ~call[t].read
  /\ call' = [call EXCEPT ![t].read = TRUE, ![t].ver = bver[call[t].scope]]
  /\ UNCHANGED <<made, closed, parent, children, bucket, bver, emptied, latch,
                 stack, fate, owned, late, stored, ran>>

\* Its commit stores the bucket with the finalizer, or the body runs again.
AddCommit(t) ==
  LET s == call[t].scope
      f == call[t].fin IN
  /\ call[t].op = "add" /\ call[t].read
  /\ IF bver[s] = call[t].ver
     THEN /\ bucket' = [bucket EXCEPT ![s] = Append(@, f)]
          /\ bver' = [bver EXCEPT ![s] = @ + 1]
          /\ fate' = [fate EXCEPT ![f] = "added"]
          /\ late' = IF closed[s] THEN late \cup {f} ELSE late
          /\ stored' = [stored EXCEPT ![s] = Append(@, f)]
          /\ call' = [call EXCEPT ![t] = NoCall]
     ELSE /\ call' = [call EXCEPT ![t].read = FALSE, ![t].ver = 0]
          /\ UNCHANGED <<bucket, bver, fate, late, stored>>
  /\ UNCHANGED <<made, closed, parent, children, emptied, latch, stack, ran,
                 owned>>

(***************************************************************************)
(* The specification.                                                      *)
(***************************************************************************)

\* The rest of a call that has begun.
Continue(t) == \/ Snapshot(t) \/ CloseChild(t) \/ ChildrenClosed(t)
               \/ DrainBody(t) \/ DrainCommit(t)
               \/ RunFinalizer(t) \/ OpenLatch(t)
               \/ ForkCheck(t)
               \/ ExtendLink(t) \/ ExtendStore(t)
               \/ AddBody(t) \/ AddCommit(t)

Invoke(t) == \/ \E s \in Scopes : Close(t, s)
             \/ \E s, c \in Scopes : Fork(t, s, c) \/ Extend(t, s, c)
             \/ \E s \in Scopes, f \in Fins : AddFinalizer(t, s, f)

ScopeNext == \E t \in Callers : Invoke(t) \/ Continue(t)

\* A thread that is inside a call goes on; finalizers return.  Nothing obliges
\* a program to make another call.
ScopeSpec == ScopeInit /\ [][ScopeNext]_scopevars /\ \A t \in Callers : WF_scopevars(Continue(t))

(***************************************************************************)
(* Properties.                                                             *)
(***************************************************************************)

Position(f, seq) == CHOOSE i \in DOMAIN seq : seq[i] = f

\* close_with_exit runs the finalizers of a scope in reverse order of
\* registration and none of them twice, although registrations and closes by
\* other threads interleave with the drain.
FinalizersLifo ==
  \A i, j \in DOMAIN ran : i < j =>
     /\ ran[i] # ran[j]
     /\ \A s \in Scopes :
          {ran[i], ran[j]} \subseteq ToSet(stored[s]) =>
             Position(ran[i], stored[s]) > Position(ran[j], stored[s])

\* wait_closed means it: once the close latch of a scope is open, no finalizer
\* of that scope is running or will run.
NoFinalizerAfterLatch ==
  \A t \in Callers : \A i \in DOMAIN stack[t] : ~latch[stack[t][i].scope]

\* A finalizer is only lost to a registration that overtook the close: if none
\* was stored after the scope was marked closed, then all of them have run
\* when the latch opens.
UndisturbedCloseRunsAll ==
  \A s \in Scopes :
     latch[s] /\ ToSet(stored[s]) \cap late = {} =>
        ToSet(stored[s]) \subseteq ToSet(ran)

\* When a scope runs its own finalizers, each child that has finalizers is
\* marked closed: the copy of the list of children missed none the program
\* could have used.  (It may still be running them, in another thread.)
ChildrenClosedFirst ==
  \A t \in Callers : At(t, "run") =>
     \A c \in made : <<c, Top(t).scope>> \in owned /\ stored[c] # <<>> => closed[c]

\* What closing keeps, of whatever calls.
ScopeInv == /\ ScopeTypeOK /\ FinalizersLifo /\ NoFinalizerAfterLatch
            /\ UndisturbedCloseRunsAll /\ ChildrenClosedFirst

\* The cascade is complete: a scope below a scope that was closed is closed
\* too, and its latch opens, even if it was forked during the close.  (A scope
\* that extend stores in the list of a closed scope is not reached.)
CloseReachesDescendants ==
  \A c \in Scopes :
     c \in made /\ (\E s \in Lineage(c, owned) : closed[s]) ~> latch[c]

\* "Finalizers always run": a finalizer whose registration was complete before
\* its scope was marked closed has run when the latch of the scope opens.
FinalizersAlwaysRun ==
  \A s \in Scopes :
     latch[s] => ToSet(stored[s]) \ late \subseteq ToSet(ran)
==============================================================================
