-------------------------------- MODULE Cancel --------------------------------
(***************************************************************************)
(* The cancellation tokens of concurrency/cancel.rs on the waker lists of  *)
(* concurrency/async_notify.rs: threads cancel tokens and make child       *)
(* tokens while tasks wait for a token in wait_cancelled.                  *)
(*                                                                         *)
(* cancel calls itself for the children, so every thread has a stack of    *)
(* frames.  wait_cancelled looks at the flag and registers its waker in    *)
(* two steps, and so does cancel set the flag and wake.                    *)
(*                                                                         *)
(* The list of children holds Weak pointers.  A token is there as long as  *)
(* the program holds a handle of it, a task waits for it, or a call uses   *)
(* it; the program may drop its handles at any time.                       *)
(***************************************************************************)
EXTENDS Naturals, Sequences, FiniteSets, Functions

CONSTANTS CaThreads,
          CaTokens,
          CaRoot,      \* the token that CancellationToken::new made
          CaBirths,    \* bound: pairs <<p, c>>, the program makes c a child of p
          CaDropped,   \* bound: the tokens whose handles the program may drop
          CaTasks,
          CaWaitsFor   \* bound: CaWaitsFor[w]: the token that task w waits for

ASSUME CancelAssumption ==
  /\ CaRoot \in CaTokens
  /\ CaBirths \subseteq CaTokens \X (CaTokens \ {CaRoot})
  /\ CaWaitsFor \in [CaTasks -> CaTokens] /\ CaDropped \subseteq CaTokens
  /\ IsFiniteSet(CaTokens)

VARIABLES camade,      \* the tokens of which the program holds a handle
          caborn,      \* pairs <<p, c>>: child_token was called on p and made c
          cacancelled, \* CancellationInner::cancelled
          cachildren,  \* CancellationInner::children
          cawaiters,   \* AsyncNotify: the tasks whose waker is registered
          castack,     \* castack[t]: the cancel calls of t, top first
          camaking,    \* camaking[t]: the child_token call of t, or <<>>
          capc,        \* where each task is in wait_cancelled
          calate       \* observer: tasks that registered after the flag was set

cavars == <<camade, caborn, cacancelled, cachildren, cawaiters, castack, camaking, capc,
            calate>>

\* A cancel call: the children it has to look at, and those it could upgrade.
CaFrame(k) == [token |-> k, phase |-> "notify", todo |-> <<>>, upgraded |-> {}]
CaFrames == [token : CaTokens, phase : {"notify", "snapshot", "children"},
             todo : Seq(CaTokens), upgraded : SUBSET CaTokens]

CancelTypeOK ==
  /\ camade \subseteq CaTokens
  /\ caborn \subseteq CaBirths
  /\ cacancelled \in [CaTokens -> BOOLEAN]
  /\ cachildren \in [CaTokens -> Seq(CaTokens)]
  /\ cawaiters \in [CaTokens -> SUBSET CaTasks]
  /\ castack \in [CaThreads -> Seq(CaFrames)]
  /\ camaking \in [CaThreads -> CaBirths \cup {<<>>}]
  /\ capc \in [CaTasks -> {"idle", "check", "register", "asleep", "done"}]
  /\ calate \subseteq CaTasks

CancelInit ==
  /\ camade = {CaRoot}
  /\ caborn = {}
  /\ cacancelled = [k \in CaTokens |-> FALSE]
  /\ cachildren = [k \in CaTokens |-> <<>>]
  /\ cawaiters = [k \in CaTokens |-> {}]
  /\ castack = [t \in CaThreads |-> <<>>]
  /\ camaking = [t \in CaThreads |-> <<>>]
  /\ capc = [w \in CaTasks |-> "idle"]
  /\ calate = {}

(***************************************************************************)
(* cancel.                                                                 *)
(***************************************************************************)

\* The swap at the start of cancel: the call goes on if the flag was clear.
CaEnter(t, k, st) ==
  /\ cacancelled' = [cacancelled EXCEPT ![k] = TRUE]
  /\ castack' = [castack EXCEPT ![t] = IF cacancelled[k] THEN st ELSE <<CaFrame(k)>> \o st]

CaCancel(t, k) ==
  /\ castack[t] = <<>> /\ camaking[t] = <<>>
  /\ k \in camade
  /\ CaEnter(t, k, <<>>)
  /\ UNCHANGED <<camade, caborn, cachildren, cawaiters, camaking, capc, calate>>

CaTop(t) == Head(castack[t])
CaAt(t, phase) == castack[t] # <<>> /\ CaTop(t).phase = phase
CaBecome(t, f) == castack' = [castack EXCEPT ![t] = <<f>> \o Tail(@)]

\* Faulty variant: one of the registered tasks is woken.
CaNotifyOne(t) ==
  LET k == CaTop(t).token IN
  /\ CaAt(t, "notify")
  /\ IF cawaiters[k] = {} THEN UNCHANGED cawaiters
     ELSE \E w \in cawaiters[k] : cawaiters' = [cawaiters EXCEPT ![k] = @ \ {w}]
  /\ CaBecome(t, [CaTop(t) EXCEPT !.phase = "snapshot"])
  /\ UNCHANGED <<camade, caborn, cacancelled, cachildren, camaking, capc, calate>>

\* notify_waiters: the list of wakers is drained and each is woken.
CaNotify(t) ==
  /\ CaAt(t, "notify")
  /\ cawaiters' = [cawaiters EXCEPT ![CaTop(t).token] = {}]
  /\ CaBecome(t, [CaTop(t) EXCEPT !.phase = "snapshot"])
  /\ UNCHANGED <<camade, caborn, cacancelled, cachildren, camaking, capc, calate>>

\* Something has a strong pointer to k.
CaAlive(k) ==
  \/ k \in camade
  \/ \E w \in CaTasks : CaWaitsFor[w] = k /\ capc[w] \notin {"idle", "done"}
  \/ \E t \in CaThreads : camaking[t] # <<>> /\ k \in {camaking[t][1], camaking[t][2]}
  \/ \E t \in CaThreads : \E f \in Range(castack[t]) :
        k = f.token \/ k \in f.upgraded \cap Range(f.todo)

\* The list of children is copied under its mutex; those that are still there are upgraded.
CaSnapshot(t) ==
  LET listed == cachildren[CaTop(t).token] IN
  /\ CaAt(t, "snapshot")
  /\ CaBecome(t, [CaTop(t) EXCEPT !.phase = "children", !.todo = listed,
                              !.upgraded = {k \in Range(listed) : CaAlive(k)}])
  /\ UNCHANGED <<camade, caborn, cacancelled, cachildren, cawaiters, camaking, capc,
                 calate>>

\* The next child that was upgraded is cancelled; the others are not in the copy.
CaChild(t) ==
  LET k == Head(CaTop(t).todo)
      st == <<[CaTop(t) EXCEPT !.todo = Tail(@)]>> \o Tail(castack[t]) IN
  /\ CaAt(t, "children")
  /\ CaTop(t).todo # <<>>
  /\ IF k \in CaTop(t).upgraded THEN CaEnter(t, k, st)
     ELSE castack' = [castack EXCEPT ![t] = st] /\ UNCHANGED cacancelled
  /\ UNCHANGED <<camade, caborn, cachildren, cawaiters, camaking, capc, calate>>

CaReturns(t) ==
  /\ CaAt(t, "children")
  /\ CaTop(t).todo = <<>>
  /\ castack' = [castack EXCEPT ![t] = Tail(@)]
  /\ UNCHANGED <<camade, caborn, cacancelled, cachildren, cawaiters, camaking, capc,
                 calate>>

(***************************************************************************)
(* child_token.                                                            *)
(***************************************************************************)

\* A child is made and stored in the list of its parent.
CaChildToken(t, p, c) ==
  /\ castack[t] = <<>> /\ camaking[t] = <<>>
  /\ p \in camade
  /\ <<p, c>> \in CaBirths
  /\ \A q \in CaTokens : <<q, c>> \notin caborn
  /\ caborn' = caborn \cup {<<p, c>>}
  /\ cachildren' = [cachildren EXCEPT ![p] = Append(@, c)]
  /\ camaking' = [camaking EXCEPT ![t] = <<p, c>>]
  /\ UNCHANGED <<camade, cacancelled, cawaiters, castack, capc, calate>>

\* Faulty variant: the parent is not looked at again.
CaChildUnchecked(t) ==
  /\ castack[t] = <<>> /\ camaking[t] # <<>>
  /\ camade' = camade \cup {camaking[t][2]}
  /\ camaking' = [camaking EXCEPT ![t] = <<>>]
  /\ UNCHANGED <<cacancelled, castack, caborn, cachildren, cawaiters, capc, calate>>

\* If the parent is cancelled by now, the child is cancelled; then it is
\* returned.
CaChildCheck(t) ==
  LET p == camaking[t][1]
      c == camaking[t][2] IN
  /\ castack[t] = <<>> /\ camaking[t] # <<>>
  /\ IF cacancelled[p] /\ ~cacancelled[c]
     THEN /\ CaEnter(t, c, <<>>)
          /\ UNCHANGED <<camade, camaking>>
     ELSE /\ camade' = camade \cup {c}
          /\ camaking' = [camaking EXCEPT ![t] = <<>>]
          /\ UNCHANGED <<cacancelled, castack>>
  /\ UNCHANGED <<caborn, cachildren, cawaiters, capc, calate>>

\* The program drops its last handle of k.
CaDrop(k) ==
  /\ k \in camade \cap CaDropped
  /\ camade' = camade \ {k}
  /\ UNCHANGED <<caborn, cacancelled, cachildren, cawaiters, castack, camaking, capc, calate>>

(***************************************************************************)
(* wait_cancelled.                                                         *)
(***************************************************************************)

CaMove(w, from, to) ==
  /\ capc[w] = from
  /\ capc' = [capc EXCEPT ![w] = to]
  /\ UNCHANGED <<camade, caborn, cacancelled, cachildren, castack, camaking>>

CaWaitCancelled(w) ==
  /\ CaMove(w, "idle", "check")
  /\ CaWaitsFor[w] \in camade
  /\ UNCHANGED <<cawaiters, calate>>

\* The loop condition.
CaCheckFlag(w) ==
  /\ CaMove(w, "check", IF cacancelled[CaWaitsFor[w]] THEN "done" ELSE "register")
  /\ UNCHANGED <<cawaiters, calate>>

\* The first poll of Notified registers the waker; the flag is not looked at.
CaRegister(w) ==
  /\ CaMove(w, "register", "asleep")
  /\ cawaiters' = [cawaiters EXCEPT ![CaWaitsFor[w]] = @ \cup {w}]
  /\ calate' = IF cacancelled[CaWaitsFor[w]] THEN calate \cup {w} ELSE calate

\* The task is polled because its waker was called ...
CaWoken(w) ==
  /\ CaMove(w, "asleep", "check")
  /\ w \notin cawaiters[CaWaitsFor[w]]
  /\ UNCHANGED <<cawaiters, calate>>

\* ... or for another reason, a second branch of a select: armed Notified
\* futures are ready at their second poll, and the waker stays in the list.
CaPolledAnyway(w) ==
  /\ CaMove(w, "asleep", "check")
  /\ w \in cawaiters[CaWaitsFor[w]]
  /\ UNCHANGED <<cawaiters, calate>>

(***************************************************************************)
(* The specification.                                                      *)
(***************************************************************************)

CaContinue(t) ==
  \/ CaNotify(t) \/ CaSnapshot(t) \/ CaChild(t) \/ CaReturns(t)
  \/ CaChildCheck(t)

CaInvoke(t) ==
  \/ \E k \in CaTokens : CaCancel(t, k)
  \/ \E p, c \in CaTokens : CaChildToken(t, p, c)

CaWait(w) == CaCheckFlag(w) \/ CaRegister(w) \/ CaWoken(w)

CancelNext ==
  \/ \E t \in CaThreads : CaInvoke(t) \/ CaContinue(t)
  \/ \E w \in CaTasks : CaWaitCancelled(w) \/ CaWait(w) \/ CaPolledAnyway(w)
  \/ \E k \in CaTokens : CaDrop(k)

\* Threads inside a call go on, and the executor polls a task whose waker was
\* called.  Nothing else obliges it to poll.
CancelSpec ==
  /\ CancelInit /\ [][CancelNext]_cavars
  /\ \A t \in CaThreads : WF_cavars(CaContinue(t))
  /\ \A w \in CaTasks : WF_cavars(CaWait(w))

(***************************************************************************)
(* Properties.                                                             *)
(***************************************************************************)

CaDescends(c) ==
  LET up[n \in 0..Cardinality(CaTokens)] ==
        IF n = 0 THEN {c}
        ELSE up[n-1] \cup {p \in CaTokens : \E d \in up[n-1] : <<p, d>> \in caborn}
  IN  up[Cardinality(CaTokens)]

\* The only task that can sleep on a cancelled token is one that the
\* cancellation overtook between its look at the flag and its registration.
SleepersWereOvertaken ==
  \A w \in CaTasks :
     capc[w] = "asleep" /\ cacancelled[CaWaitsFor[w]] /\ w \in cawaiters[CaWaitsFor[w]] =>
        \/ w \in calate
        \/ \E t \in CaThreads : CaAt(t, "notify") /\ CaTop(t).token = CaWaitsFor[w]

\* A token is cancelled by one call only, whoever races for it.
OneCanceller ==
  \A t, u \in CaThreads : \A i \in DOMAIN castack[t], j \in DOMAIN castack[u] :
     castack[t][i].token = castack[u][j].token => t = u /\ i = j

\* What every interleaving of cancel, child_token and wait_cancelled keeps.
CancelInv == CancelTypeOK /\ OneCanceller /\ SleepersWereOvertaken

\* A cancellation reaches every child that is still there, also one made while the
\* cancellation was on its way down the tree; from child to child it reaches every
\* descendant, as far as the tokens in between are still there.  And a task that waits
\* for any of them returns, unless the cancellation overtook its registration.
CancellationArrives ==
  /\ \A c \in CaTokens :
       (\E p \in CaTokens : <<p, c>> \in caborn /\ cacancelled[p]) ~> cacancelled[c] \/ ~CaAlive(c)
  /\ \A w \in CaTasks :
       capc[w] # "idle" /\ cacancelled[CaWaitsFor[w]] ~> capc[w] = "done" \/ w \in calate

\* When no call is under way, a cancelled token has cancelled all its descendants, as the
\* documentation of CancellationToken has it.
CancelPropagates ==
  (\A t \in CaThreads : castack[t] = <<>> /\ camaking[t] = <<>>) =>
     \A c \in camade : (\E k \in CaDescends(c) : cacancelled[k]) => cacancelled[c]
==============================================================================
