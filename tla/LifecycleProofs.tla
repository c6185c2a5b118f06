--------------------------- MODULE LifecycleProofs ---------------------------
(***************************************************************************)
(* What ties work to a lifetime: supervisors, cancellation tokens, fiber   *)
(* handles, fiber references and scopes; and the planner that orders the   *)
(* providers.                                                              *)
(***************************************************************************)
EXTENDS Supervisor, Cancel, Fibers, FiberRef, Capability, Scope, ProofLemmas

(***************************************************************************)
(* Supervisors.                                                            *)
(***************************************************************************)

\* The finalizer is not registered before the end of attach, a detached
\* supervisor has no parent, and its scope is open until somebody closes it.  A
\* closed child is being drained by the thread that closed it; a close that has
\* returned has closed the child, or fork is still to look at the parent.
SvAttaching ==
  /\ svat \in {"fork", "linked", "closing", "check", "store"} => svfin = "none"
  /\ svat \in {"fork", "linked", "closing"} => svkind = "attach"
  /\ svcloser \in {"copy", "child"} => svkind = "attach"
  /\ svcloser = "idle" /\ svkind # "attach" => svchild = "open"
  /\ svkind = "attach" => (svparent <=> svcloser # "idle")
  /\ svat = "fork" <=> svkind = "attach" /\ ~svlinked
  /\ svchild = "closed" => svcloser = "drain" \/ svat = "closing"
  /\ svcloser = "done" /\ ~svgone => svchild # "open" \/ svat \in {"fork", "linked"}

\* A result is there at the end only, and the counters of the loop agree.
SvCounting ==
  /\ svat # "done" => svout.tag = "none"
  /\ svat \in {"fork", "linked", "closing", "check", "store"} =>
       svrestarts = 0 /\ svagg = 0 /\ svfailed = 0
  /\ svpolicy = "RestartWithLimit" =>
       /\ svat \in {"top", "start", "run"} => svagg = svfailed /\ svrestarts = svfailed
       /\ svat = "sleep" => svagg = svfailed /\ svrestarts = svfailed - 1 /\ svfailed > 0
                            /\ svrestarts < SvLimit

\* A run after the cancellation leads to the check and not to another run.
SvCancelled ==
  /\ svafter > 0 => svtoken
  /\ svat \notin {"run", "sleep", "top", "done"} => svafter = 0

\* The inductive invariant.
SupervisorIInv == SupervisorInv /\ SvAttaching /\ SvCounting /\ SvCancelled

\* It holds at the start.
LEMMA SupervisorInitOk == SupervisorInit => SupervisorIInv
<1> SUFFICES ASSUME SupervisorInit PROVE SupervisorIInv
  OBVIOUS
<1> USE SupervisorAssumption DEF SupervisorInit
<1>1. SupervisorTypeOK
  <2>1. {svparent, svlinked, svgone, svheld, svtoken} \subseteq BOOLEAN BY Zenon
  <2>2. svout \in SvResults BY DEF SvResults, SvResult
  <2>3. QED BY <2>1, <2>2 DEF SupervisorTypeOK
<1>2. LimitKept /\ TokenFollowsScope /\ OneRunAfterCancel
  BY DEF LimitKept, TokenFollowsScope, OneRunAfterCancel, SvResult
<1>3. SvAttaching /\ SvCounting /\ SvCancelled
  BY DEF SvAttaching, SvCounting, SvCancelled, SvResult
<1>4. QED BY <1>1, <1>2, <1>3 DEF SupervisorIInv, SupervisorInv

\* The steps of attach and of the threads that close, cancel and drop.
LEMMA SupervisorScopeOk ==
  ASSUME SupervisorIInv, SvAttach \/ SvClose \/ SvClosers \/ SvCancel \/ SvDrop
  PROVE  SupervisorIInv'
<1> USE SupervisorAssumption
<1> USE DEF SupervisorIInv, SupervisorInv, SupervisorTypeOK, LimitKept, TokenFollowsScope,
            OneRunAfterCancel, SvAttaching, SvCounting, SvCancelled, SvGo, SvStep, svloop, svscope
<1>1. CASE SvFork BY <1>1 DEF SvFork
<1>2. CASE SvLinked BY <1>2 DEF SvLinked
<1>3. CASE SvClosing BY <1>3 DEF SvClosing, SvDrain
<1>4. CASE SvCheck BY <1>4 DEF SvCheck
<1>5. CASE SvStore BY <1>5 DEF SvStore
<1>6. CASE SvClose
  <2>1. ({svparent, svlinked, svgone, svheld, svtoken} \subseteq BOOLEAN)' BY <1>6, Zenon DEF SvClose
  <2>2. /\ UNCHANGED <<svkind, svpolicy, svat, svlinked, svgone, svfin, svtoken>>
        /\ UNCHANGED svloop
        /\ \/ svkind = "attach" /\ SvStep("idle", "copy") /\ svparent' /\ UNCHANGED svchild
           \/ svkind # "attach" /\ SvStep("idle", "drain") /\ svchild' = "closed"
    BY <1>6, Zenon DEF SvClose
  <2>3. QED BY <2>1, <2>2
<1>7. CASE SvCopy BY <1>7 DEF SvCopy
<1>8. CASE SvCloseChild BY <1>8 DEF SvCloseChild
<1>9. CASE SvCloserDrain BY <1>9 DEF SvCloserDrain, SvDrain
<1>10. CASE SvCancel BY <1>10 DEF SvCancel
<1>11. CASE SvDrop
  <2>1. ({svparent, svlinked, svgone, svheld, svtoken} \subseteq BOOLEAN)' BY <1>11, Zenon DEF SvDrop
  <2>2. /\ UNCHANGED <<svkind, svpolicy, svat, svcloser, svparent, svlinked, svgone>>
        /\ UNCHANGED <<svchild, svfin, svtoken>> /\ UNCHANGED svloop
    BY <1>11, Zenon DEF SvDrop
  <2>3. QED BY <2>1, <2>2
<1>12. QED BY <1>1, <1>2, <1>3, <1>4, <1>5, <1>6, <1>7, <1>8, <1>9, <1>10, <1>11
           DEF SvAttach, SvClosers

\* The steps of the supervised loop.
LEMMA SupervisorLoopOk ==
  ASSUME SupervisorIInv, SvLoop
  PROVE  SupervisorIInv'
<1> USE SupervisorAssumption
<1> USE DEF SupervisorIInv, SupervisorInv, SupervisorTypeOK, LimitKept, TokenFollowsScope,
            OneRunAfterCancel, SvAttaching, SvCounting, SvCancelled, SvGo, svloop, svscope,
            SvReturn, SvResult, SvResults, SvThen
<1>1. CASE SvTop BY <1>1 DEF SvTop
<1>2. CASE SvStart BY <1>2 DEF SvStart
<1>3. CASE SvSucceeds BY <1>3 DEF SvSucceeds
<1>4. CASE SvFails BY <1>4 DEF SvFails
<1>5. CASE SvSleep BY <1>5 DEF SvSleep
<1>6. QED BY <1>1, <1>2, <1>3, <1>4, <1>5 DEF SvLoop

\* A supervised child runs at most as often as its policy says and once after a
\* cancellation.  A close that returns has cancelled the token if the finalizer was
\* registered when the close began and the close found a handle of the child; a
\* finalizer that is refused or stored later cancels nothing (supervisor.rs, attach,
\* detached and supervised, on the steps of scope.rs).
THEOREM SupervisorInvariant == SupervisorSpec => []SupervisorInv
<1>1. SupervisorIInv /\ [SupervisorNext]_svvars => SupervisorIInv'
  <2>1. CASE UNCHANGED svvars
    BY <2>1 DEF svvars, svscope, svloop, SupervisorIInv, SupervisorInv, SupervisorTypeOK,
       LimitKept, TokenFollowsScope, OneRunAfterCancel, SvAttaching, SvCounting, SvCancelled
  <2>2. QED BY <2>1, SupervisorScopeOk, SupervisorLoopOk DEF SupervisorNext
<1>2. SupervisorIInv => SupervisorInv BY DEF SupervisorIInv
<1>3. QED BY <1>1, <1>2, SupervisorInitOk, PTL DEF SupervisorSpec

(***************************************************************************)
(* Cancellation tokens.                                                    *)
(***************************************************************************)

\* A frame before and after it is put on top of a stack.
LEMMA PushedSeq ==
  ASSUME NEW S, NEW s \in Seq(S), NEW f \in S
  PROVE  /\ <<f>> \o s \in Seq(S) /\ <<f>> \o s # <<>>
         /\ Head(<<f>> \o s) = f /\ (<<f>> \o s)[1] = f
         /\ DOMAIN (<<f>> \o s) = 1..Len(s) + 1
         /\ \A i \in 1..Len(s) : (<<f>> \o s)[i + 1] = s[i]
OBVIOUS

\* A stack without its top.
LEMMA PoppedSeq ==
  ASSUME NEW S, NEW s \in Seq(S), s # <<>>
  PROVE  /\ Tail(s) \in Seq(S)
         /\ Head(s) = s[1] /\ Head(s) \in S
         /\ Len(s) \in Nat \ {0} /\ Len(Tail(s)) = Len(s) - 1
         /\ DOMAIN s = 1..Len(s) /\ DOMAIN Tail(s) = 1..Len(s) - 1
         /\ \A i \in 1..Len(s) - 1 : Tail(s)[i] = s[i + 1]
OBVIOUS

\* What OneCanceller needs: whoever is about to cancel a token has set its flag.
FramesCancelled ==
  \A t \in CaThreads : \A i \in DOMAIN castack[t] : cacancelled[castack[t][i].token]

\* The inductive invariant.
CancelIInv == CancelInv /\ FramesCancelled

\* It holds at the start.
LEMMA CancelInitOk == CancelInit => CancelIInv
  BY CancelAssumption DEF CancelInit, CancelIInv, CancelInv, CancelTypeOK, OneCanceller,
     SleepersWereOvertaken, FramesCancelled, CaAt

\* The stack of t after its top frame has moved on, on the same token.
LEMMA BecomeEffect ==
  ASSUME CancelTypeOK, NEW t \in CaThreads, castack[t] # <<>>,
         NEW f \in CaFrames, f.token = CaTop(t).token, CaBecome(t, f)
  PROVE  /\ castack' \in [CaThreads -> Seq(CaFrames)]
         /\ \A u \in CaThreads \ {t} : castack'[u] = castack[u]
         /\ castack'[t] # <<>> /\ Head(castack'[t]) = f
         /\ DOMAIN castack'[t] = DOMAIN castack[t]
         /\ \A i \in DOMAIN castack[t] : castack'[t][i].token = castack[t][i].token
<1> DEFINE rest == Tail(castack[t])
<1>1. castack[t] \in Seq(CaFrames) BY DEF CancelTypeOK
<1>2. /\ rest \in Seq(CaFrames) /\ Len(rest) = Len(castack[t]) - 1 /\ Len(castack[t]) \in Nat \ {0}
      /\ CaTop(t) = castack[t][1] /\ DOMAIN castack[t] = 1..Len(castack[t])
      /\ \A i \in 1..Len(castack[t]) - 1 : rest[i] = castack[t][i + 1]
  BY <1>1, PoppedSeq DEF CaTop
<1>3. castack'[t] = <<f>> \o rest /\ \A u \in CaThreads \ {t} : castack'[u] = castack[u]
  BY DEF CaBecome, CancelTypeOK
<1> HIDE DEF rest
<1>4. /\ castack'[t] \in Seq(CaFrames) /\ castack'[t] # <<>>
      /\ Head(castack'[t]) = f /\ castack'[t][1] = f
      /\ DOMAIN castack'[t] = 1..Len(castack[t])
      /\ \A i \in 1..Len(castack[t]) - 1 : castack'[t][i + 1] = castack[t][i + 1]
  BY <1>2, <1>3, PushedSeq
<1>5. castack' \in [CaThreads -> Seq(CaFrames)]
  BY <1>4 DEF CaBecome, CancelTypeOK
<1>6. ASSUME NEW i \in DOMAIN castack[t] PROVE castack'[t][i].token = castack[t][i].token
  <2>1. CASE i = 1 BY <2>1, <1>2, <1>4
  <2>2. CASE i # 1
    <3>1. i - 1 \in 1..Len(castack[t]) - 1 /\ (i - 1) + 1 = i BY <2>2, <1>2
    <3>2. QED BY <3>1, <1>4
  <2>3. QED BY <2>1, <2>2
<1>7. QED BY <1>2, <1>3, <1>4, <1>5, <1>6

\* The token of a frame.
LEMMA FrameToken ==
  ASSUME CancelTypeOK, NEW t \in CaThreads, NEW i \in DOMAIN castack[t]
  PROVE  castack[t][i] \in CaFrames /\ castack[t][i].token \in CaTokens
<1>1. castack[t] \in Seq(CaFrames) BY DEF CancelTypeOK
<1>2. castack[t][i] \in CaFrames BY <1>1
<1>3. QED BY <1>2 DEF CaFrames

\* A step that changes no stack but the one of t, and there no token, and that
\* clears no flag, keeps what is said of tokens.
LEMMA SameTokens ==
  ASSUME CancelIInv, NEW t \in CaThreads,
         \A u \in CaThreads \ {t} : castack'[u] = castack[u],
         DOMAIN castack'[t] = DOMAIN castack[t],
         \A i \in DOMAIN castack[t] : castack'[t][i].token = castack[t][i].token,
         \A k \in CaTokens : cacancelled[k] => cacancelled'[k]
  PROVE  OneCanceller' /\ FramesCancelled'
<1>1. \A u \in CaThreads : /\ DOMAIN castack'[u] = DOMAIN castack[u]
                           /\ \A i \in DOMAIN castack[u] :
                                castack'[u][i].token = castack[u][i].token
  OBVIOUS
<1>2. OneCanceller' BY <1>1 DEF CancelIInv, CancelInv, OneCanceller
<1>3. \A u \in CaThreads : \A i \in DOMAIN castack[u] : castack[u][i].token \in CaTokens
  BY FrameToken DEF CancelIInv, CancelInv
<1>4. FramesCancelled' BY <1>1, <1>3 DEF CancelIInv, FramesCancelled
<1>5. QED BY <1>2, <1>4

\* The beginning of cancel(k) by t, whose frames st are those it had before or the
\* same tokens further on: either somebody else has set the flag, or a frame for k
\* is on top.
LEMMA EnterOk ==
  ASSUME CancelIInv, NEW t \in CaThreads, NEW k \in CaTokens, NEW st \in Seq(CaFrames),
         DOMAIN st = DOMAIN castack[t],
         \A i \in DOMAIN st : st[i].token = castack[t][i].token,
         ~CaAt(t, "notify"), CaEnter(t, k, st), UNCHANGED <<cawaiters, capc, calate>>
  PROVE  /\ castack' \in [CaThreads -> Seq(CaFrames)]
         /\ cacancelled' \in [CaTokens -> BOOLEAN]
         /\ OneCanceller' /\ FramesCancelled' /\ SleepersWereOvertaken'
<1>1. /\ castack \in [CaThreads -> Seq(CaFrames)] /\ cacancelled \in [CaTokens -> BOOLEAN]
      /\ CaWaitsFor \in [CaTasks -> CaTokens]
  BY CancelAssumption DEF CancelIInv, CancelInv, CancelTypeOK
<1>2. /\ cacancelled' \in [CaTokens -> BOOLEAN]
      /\ cacancelled'[k]
      /\ \A j \in CaTokens : cacancelled[j] => cacancelled'[j]
      /\ \A j \in CaTokens : cacancelled'[j] => cacancelled[j] \/ j = k
  BY <1>1 DEF CaEnter
<1>3. \A u \in CaThreads \ {t} : castack'[u] = castack[u] BY <1>1 DEF CaEnter
<1>4. CaFrame(k) \in CaFrames /\ CaFrame(k).token = k /\ CaFrame(k).phase = "notify"
  BY DEF CaFrame, CaFrames
<1>5. CASE cacancelled[k]
  <2>1. castack'[t] = st BY <1>1, <1>5 DEF CaEnter
  <2>2. castack' \in [CaThreads -> Seq(CaFrames)] BY <1>1, <1>5 DEF CaEnter
  <2>3. OneCanceller' /\ FramesCancelled' BY <1>2, <1>3, <2>1, SameTokens
  <2>4. SleepersWereOvertaken'
    <3> SUFFICES ASSUME NEW w \in CaTasks, capc[w] = "asleep", cacancelled'[CaWaitsFor[w]],
                        w \in cawaiters[CaWaitsFor[w]], w \notin calate
                 PROVE  \E u \in CaThreads : CaAt(u, "notify")' /\ CaTop(u)'.token = CaWaitsFor[w]
      BY DEF SleepersWereOvertaken
    <3>1. cacancelled[CaWaitsFor[w]] BY <1>1, <1>2, <1>5
    <3>2. PICK u \in CaThreads : CaAt(u, "notify") /\ CaTop(u).token = CaWaitsFor[w]
      BY <3>1 DEF CancelIInv, CancelInv, SleepersWereOvertaken
    <3>3. QED BY <3>2, <1>3 DEF CaAt, CaTop
  <2>5. QED BY <1>2, <2>2, <2>3, <2>4
<1>6. CASE ~cacancelled[k]
  <2>1. castack'[t] = <<CaFrame(k)>> \o st BY <1>1, <1>6 DEF CaEnter
  <2>2. /\ castack'[t] \in Seq(CaFrames) /\ castack'[t] # <<>>
        /\ Head(castack'[t]) = CaFrame(k) /\ castack'[t][1] = CaFrame(k)
        /\ DOMAIN castack'[t] = 1..Len(st) + 1 /\ DOMAIN castack[t] = 1..Len(st) /\ Len(st) \in Nat
        /\ \A i \in 1..Len(st) : castack'[t][i + 1] = st[i]
    BY <1>4, <2>1, PushedSeq
  <2>3. castack' \in [CaThreads -> Seq(CaFrames)] BY <1>1, <2>2, <2>1, <1>6 DEF CaEnter
  <2>4. \A i \in DOMAIN castack'[t] :
           \/ i = 1 /\ castack'[t][i].token = k
           \/ i - 1 \in DOMAIN castack[t] /\ castack'[t][i].token = castack[t][i - 1].token
    <3> TAKE i \in DOMAIN castack'[t]
    <3>1. CASE i = 1 BY <3>1, <2>2, <1>4
    <3>2. CASE i # 1
      <4>1. i - 1 \in 1..Len(st) /\ (i - 1) + 1 = i BY <3>2, <2>2
      <4>2. castack'[t][i] = st[i - 1] BY <4>1, <2>2
      <4>3. QED BY <4>1, <4>2, <2>2
    <3>3. QED BY <3>1, <3>2
  <2>5. \A u \in CaThreads : \A i \in DOMAIN castack[u] :
           castack[u][i].token # k /\ castack[u][i].token \in CaTokens /\ cacancelled[castack[u][i].token]
    BY <1>6, FrameToken DEF CancelIInv, CancelInv, FramesCancelled
  <2>6. FramesCancelled'
    <3> SUFFICES ASSUME NEW u \in CaThreads, NEW i \in DOMAIN castack'[u]
                 PROVE  cacancelled'[castack'[u][i].token]
      BY DEF FramesCancelled
    <3>1. CASE u = t
      <4>1. CASE castack'[t][i].token = k BY <3>1, <4>1, <1>2
      <4>2. CASE castack'[t][i].token # k
        <5>1. i - 1 \in DOMAIN castack[t] /\ castack'[t][i].token = castack[t][i - 1].token
          BY <3>1, <4>2, <2>4
        <5>2. QED BY <3>1, <5>1, <2>5, <1>2
      <4>3. QED BY <4>1, <4>2
    <3>2. CASE u # t BY <3>2, <1>3, <2>5, <1>2
    <3>3. QED BY <3>1, <3>2
  <2>7. OneCanceller'
    <3> SUFFICES ASSUME NEW u \in CaThreads, NEW v \in CaThreads,
                        NEW i \in DOMAIN castack'[u], NEW j \in DOMAIN castack'[v],
                        castack'[u][i].token = castack'[v][j].token
                 PROVE  u = v /\ i = j
      BY DEF OneCanceller
    <3>1. \A x, y \in CaThreads : \A a \in DOMAIN castack[x], b \in DOMAIN castack[y] :
             castack[x][a].token = castack[y][b].token => x = y /\ a = b
      BY DEF CancelIInv, CancelInv, OneCanceller
    <3>2. i \in Nat /\ j \in Nat
      <4>1. castack'[u] \in Seq(CaFrames) /\ castack'[v] \in Seq(CaFrames) BY <2>3
      <4>2. QED BY <4>1
    <3>3. CASE u = t /\ v = t BY <3>1, <3>2, <3>3, <2>4, <2>5
    <3>4. CASE u = t /\ v # t BY <3>1, <3>4, <2>4, <2>5, <1>3
    <3>5. CASE u # t /\ v = t BY <3>1, <3>5, <2>4, <2>5, <1>3
    <3>6. CASE u # t /\ v # t BY <3>1, <3>6, <1>3
    <3>7. QED BY <3>3, <3>4, <3>5, <3>6
  <2>8. SleepersWereOvertaken'
    <3> SUFFICES ASSUME NEW w \in CaTasks, capc[w] = "asleep", cacancelled'[CaWaitsFor[w]],
                        w \in cawaiters[CaWaitsFor[w]], w \notin calate
                 PROVE  \E u \in CaThreads : CaAt(u, "notify")' /\ CaTop(u)'.token = CaWaitsFor[w]
      BY DEF SleepersWereOvertaken
    <3>1. CASE CaWaitsFor[w] = k BY <3>1, <1>4, <2>2 DEF CaAt, CaTop
    <3>2. CASE CaWaitsFor[w] # k
      <4>1. PICK u \in CaThreads : CaAt(u, "notify") /\ CaTop(u).token = CaWaitsFor[w]
        BY <3>2, <1>1, <1>2 DEF CancelIInv, CancelInv, SleepersWereOvertaken
      <4>2. QED BY <4>1, <1>3 DEF CaAt, CaTop
    <3>3. QED BY <3>1, <3>2
  <2>9. QED BY <1>2, <2>3, <2>6, <2>7, <2>8
<1>7. QED BY <1>5, <1>6

\* The steps of cancel and of child_token.
LEMMA CancelThreadOk ==
  ASSUME CancelIInv, NEW t \in CaThreads, CaInvoke(t) \/ CaContinue(t)
  PROVE  CancelIInv'
<1>1. /\ CancelTypeOK /\ castack[t] \in Seq(CaFrames) /\ camaking[t] \in CaBirths \cup {<<>>}
      /\ CaBirths \subseteq CaTokens \X CaTokens
  BY CancelAssumption DEF CancelIInv, CancelInv, CancelTypeOK
<1>2. ASSUME castack[t] # <<>>
      PROVE  /\ CaTop(t) \in CaFrames /\ CaTop(t).token \in CaTokens /\ CaTop(t).todo \in Seq(CaTokens)
             /\ CaTop(t) = castack[t][1] /\ 1 \in DOMAIN castack[t]
  <2>1. CaTop(t) \in CaFrames /\ CaTop(t) = castack[t][1] /\ 1 \in DOMAIN castack[t]
    BY <1>1, <1>2, PoppedSeq DEF CaTop
  <2>2. QED BY <2>1 DEF CaFrames
<1>3. ASSUME NEW k \in CaTokens, CaCancel(t, k) PROVE CancelIInv'
  <2>1. <<>> \in Seq(CaFrames) /\ castack[t] = <<>> BY <1>3 DEF CaCancel
  <2>2. ~CaAt(t, "notify") BY <2>1 DEF CaAt
  <2>3. /\ castack' \in [CaThreads -> Seq(CaFrames)] /\ cacancelled' \in [CaTokens -> BOOLEAN]
        /\ OneCanceller' /\ FramesCancelled' /\ SleepersWereOvertaken'
    BY <1>3, <2>1, <2>2, EnterOk DEF CaCancel
  <2>4. QED BY <1>1, <1>3, <2>3 DEF CaCancel, CancelIInv, CancelInv, CancelTypeOK
<1>4. CASE CaChild(t)
  <2> DEFINE k == Head(CaTop(t).todo)
             top == [CaTop(t) EXCEPT !.todo = Tail(@)]
             st == <<top>> \o Tail(castack[t])
  <2>1. /\ castack[t] # <<>> /\ CaTop(t).todo # <<>> /\ ~CaAt(t, "notify")
        /\ CaEnter(t, k, st) \/ (castack' = [castack EXCEPT ![t] = st] /\ cacancelled' = cacancelled)
    BY <1>4 DEF CaChild, CaAt
  <2>2. k \in CaTokens BY <1>2, <2>1
  <2>3. top \in CaFrames /\ top.token = CaTop(t).token 
    <3>1. Tail(CaTop(t).todo) \in Seq(CaTokens) BY <1>2, <2>1, PoppedSeq
    <3>2. QED BY <1>2, <2>1, <3>1 DEF CaFrames
  <2>4. /\ st \in Seq(CaFrames) /\ DOMAIN st = DOMAIN castack[t]
        /\ \A i \in DOMAIN st : st[i].token = castack[t][i].token
    <3>1. /\ Tail(castack[t]) \in Seq(CaFrames) /\ Len(Tail(castack[t])) = Len(castack[t]) - 1
          /\ Len(castack[t]) \in Nat \ {0} /\ DOMAIN castack[t] = 1..Len(castack[t])
          /\ \A i \in 1..Len(castack[t]) - 1 : Tail(castack[t])[i] = castack[t][i + 1]
      BY <1>1, <2>1, PoppedSeq
    <3> HIDE DEF top
    <3>2. /\ st \in Seq(CaFrames) /\ st[1] = top /\ DOMAIN st = 1..Len(castack[t])
          /\ \A i \in 1..Len(castack[t]) - 1 : st[i + 1] = castack[t][i + 1]
      BY <3>1, <2>3, PushedSeq
    <3> HIDE DEF st
    <3>3. ASSUME NEW i \in DOMAIN st PROVE st[i].token = castack[t][i].token
      <4>1. CASE i = 1 BY <4>1, <3>2, <2>3, <1>2, <2>1
      <4>2. CASE i # 1
        <5>1. i - 1 \in 1..Len(castack[t]) - 1 /\ (i - 1) + 1 = i BY <4>2, <3>1, <3>2
        <5>2. QED BY <5>1, <3>2
      <4>3. QED BY <4>1, <4>2
    <3>4. QED BY <3>1, <3>2, <3>3
  <2> HIDE DEF k, st
  <2>5. /\ castack' \in [CaThreads -> Seq(CaFrames)] /\ cacancelled' \in [CaTokens -> BOOLEAN]
        /\ OneCanceller' /\ FramesCancelled' /\ SleepersWereOvertaken'
    <3>1. UNCHANGED <<cawaiters, capc, calate>> BY <1>4 DEF CaChild
    <3>2. CASE CaEnter(t, k, st) BY <2>1, <2>2, <2>4, <3>1, <3>2, EnterOk
    <3>3. CASE castack' = [castack EXCEPT ![t] = st] /\ cacancelled' = cacancelled
      <4>1. /\ castack' \in [CaThreads -> Seq(CaFrames)] /\ castack'[t] = st
            /\ \A u \in CaThreads \ {t} : castack'[u] = castack[u]
        BY <1>1, <2>4, <3>3 DEF CancelTypeOK
      <4>2. OneCanceller' /\ FramesCancelled' BY <2>4, <3>3, <4>1, SameTokens
      <4>3. SleepersWereOvertaken'
        <5> SUFFICES ASSUME NEW w \in CaTasks, capc[w] = "asleep", cacancelled[CaWaitsFor[w]],
                            w \in cawaiters[CaWaitsFor[w]], w \notin calate
                     PROVE  \E u \in CaThreads : CaAt(u, "notify")' /\ CaTop(u)'.token = CaWaitsFor[w]
          BY <3>1, <3>3 DEF SleepersWereOvertaken
        <5>1. PICK u \in CaThreads : CaAt(u, "notify") /\ CaTop(u).token = CaWaitsFor[w]
          BY DEF CancelIInv, CancelInv, SleepersWereOvertaken
        <5>2. u # t /\ castack'[u] = castack[u] BY <2>1, <4>1, <5>1
        <5>3. QED BY <5>1, <5>2 DEF CaAt, CaTop
      <4>4. QED BY <1>1, <3>3, <4>1, <4>2, <4>3 DEF CancelTypeOK
    <3>4. QED BY <2>1, <3>2, <3>3
  <2>6. QED BY <1>1, <1>4, <2>5 DEF CaChild, CancelIInv, CancelInv, CancelTypeOK
<1>5. CASE CaNotify(t)
  <2> DEFINE f == [CaTop(t) EXCEPT !.phase = "snapshot"]
  <2>1. castack[t] # <<>> /\ f \in CaFrames /\ f.token = CaTop(t).token /\ f.phase = "snapshot"
    BY <1>2, <1>5 DEF CaNotify, CaAt, CaFrames
  <2> HIDE DEF f
  <2>2. CaBecome(t, f) BY <1>5 DEF CaNotify, f
  <2>3. /\ castack' \in [CaThreads -> Seq(CaFrames)]
        /\ \A u \in CaThreads \ {t} : castack'[u] = castack[u]
        /\ DOMAIN castack'[t] = DOMAIN castack[t]
        /\ \A i \in DOMAIN castack[t] : castack'[t][i].token = castack[t][i].token
    BY <1>1, <2>1, <2>2, BecomeEffect
  <2>4. OneCanceller' /\ FramesCancelled' BY <1>5, <2>3, SameTokens DEF CaNotify
  <2>5. SleepersWereOvertaken'
    <3> SUFFICES ASSUME NEW w \in CaTasks, capc[w] = "asleep", cacancelled[CaWaitsFor[w]],
                        w \in cawaiters'[CaWaitsFor[w]], w \notin calate
                 PROVE  \E u \in CaThreads : CaAt(u, "notify")' /\ CaTop(u)'.token = CaWaitsFor[w]
      BY <1>5 DEF CaNotify, SleepersWereOvertaken
    <3>1. w \in cawaiters[CaWaitsFor[w]] /\ CaWaitsFor[w] # CaTop(t).token
      BY <1>2, <1>5, <2>1, CancelAssumption DEF CaNotify, CancelIInv, CancelInv, CancelTypeOK
    <3>2. PICK u \in CaThreads : CaAt(u, "notify") /\ CaTop(u).token = CaWaitsFor[w]
      BY <3>1 DEF CancelIInv, CancelInv, SleepersWereOvertaken
    <3>3. QED BY <2>3, <3>1, <3>2 DEF CaAt, CaTop
  <2>6. cawaiters' \in [CaTokens -> SUBSET CaTasks] BY <1>1, <1>5 DEF CaNotify, CancelTypeOK
  <2>7. QED BY <1>1, <1>5, <2>3, <2>4, <2>5, <2>6 DEF CaNotify, CancelIInv, CancelInv, CancelTypeOK
<1>6. CASE CaSnapshot(t)
  <2> DEFINE listed == cachildren[CaTop(t).token]
             strong == {k \in Range(listed) : CaAlive(k)}
             f == [CaTop(t) EXCEPT !.phase = "children", !.todo = listed, !.upgraded = strong]
  <2>0. castack[t] # <<>> /\ listed \in Seq(CaTokens) BY <1>1, <1>2, <1>6 DEF CaSnapshot, CaAt, CancelTypeOK
  <2>a. strong \subseteq CaTokens BY <2>0 DEF Range
  <2> HIDE DEF strong
  <2>1. castack[t] # <<>> /\ f \in CaFrames /\ f.token = CaTop(t).token
    BY <1>2, <2>0, <2>a DEF CaFrames
  <2> HIDE DEF f
  <2>2. CaBecome(t, f) BY <1>6 DEF CaSnapshot, f, strong
  <2>3. /\ castack' \in [CaThreads -> Seq(CaFrames)]
        /\ \A u \in CaThreads \ {t} : castack'[u] = castack[u]
        /\ DOMAIN castack'[t] = DOMAIN castack[t]
        /\ \A i \in DOMAIN castack[t] : castack'[t][i].token = castack[t][i].token
    BY <1>1, <2>1, <2>2, BecomeEffect
  <2>4. OneCanceller' /\ FramesCancelled' BY <1>6, <2>3, SameTokens DEF CaSnapshot
  <2>5. SleepersWereOvertaken'
    BY <1>6, <2>3 DEF CaSnapshot, CancelIInv, CancelInv, SleepersWereOvertaken, CaAt, CaTop
  <2>6. QED BY <1>1, <1>6, <2>3, <2>4, <2>5 DEF CaSnapshot, CancelIInv, CancelInv, CancelTypeOK
<1>7. CASE CaReturns(t)
  <2>1. /\ castack'[t] = Tail(castack[t]) /\ castack[t] # <<>>
        /\ \A u \in CaThreads \ {t} : castack'[u] = castack[u]
    BY <1>1, <1>7 DEF CaReturns, CaAt, CancelTypeOK
  <2>2. /\ castack'[t] \in Seq(CaFrames) /\ Len(castack[t]) \in Nat
        /\ DOMAIN castack[t] = 1..Len(castack[t]) /\ DOMAIN castack'[t] = 1..Len(castack[t]) - 1
        /\ \A i \in 1..Len(castack[t]) - 1 : castack'[t][i] = castack[t][i + 1]
    BY <1>1, <2>1, PoppedSeq
  <2>3. castack' \in [CaThreads -> Seq(CaFrames)] BY <1>1, <1>7, <2>2 DEF CaReturns, CancelTypeOK
  <2>4. \A i \in DOMAIN castack'[t] :
           i \in Nat /\ i + 1 \in DOMAIN castack[t] /\ castack'[t][i] = castack[t][i + 1]
    BY <2>2
  <2>5. OneCanceller'
    <3> SUFFICES ASSUME NEW u \in CaThreads, NEW v \in CaThreads,
                        NEW i \in DOMAIN castack'[u], NEW j \in DOMAIN castack'[v],
                        castack'[u][i].token = castack'[v][j].token
                 PROVE  u = v /\ i = j
      BY DEF OneCanceller
    <3>1. \A x, y \in CaThreads : \A a \in DOMAIN castack[x], b \in DOMAIN castack[y] :
             castack[x][a].token = castack[y][b].token => x = y /\ a = b
      BY DEF CancelIInv, CancelInv, OneCanceller
    <3>2. CASE u = t /\ v = t BY <3>1, <3>2, <2>4
    <3>3. CASE u = t /\ v # t BY <3>1, <3>3, <2>4, <2>1
    <3>4. CASE u # t /\ v = t BY <3>1, <3>4, <2>4, <2>1
    <3>5. CASE u # t /\ v # t BY <3>1, <3>5, <2>1
    <3>6. QED BY <3>2, <3>3, <3>4, <3>5
  <2>6. FramesCancelled' BY <1>7, <2>1, <2>4 DEF CaReturns, CancelIInv, FramesCancelled
  <2>7. SleepersWereOvertaken'
    BY <1>7, <2>1 DEF CaReturns, CancelIInv, CancelInv, SleepersWereOvertaken, CaAt, CaTop
  <2>8. QED BY <1>1, <1>7, <2>3, <2>5, <2>6, <2>7 DEF CaReturns, CancelIInv, CancelInv, CancelTypeOK
<1>8. ASSUME NEW p \in CaTokens, NEW c \in CaTokens, CaChildToken(t, p, c) PROVE CancelIInv'
  <2>1. caborn' \subseteq CaBirths /\ camaking' \in [CaThreads -> CaBirths \cup {<<>>}]
    BY <1>1, <1>8 DEF CaChildToken, CancelTypeOK
  <2>2. cachildren' \in [CaTokens -> Seq(CaTokens)]
    <3>1. cachildren[p] \in Seq(CaTokens) BY <1>1 DEF CancelTypeOK
    <3>2. Append(cachildren[p], c) \in Seq(CaTokens) BY <3>1
    <3>3. QED BY <1>1, <1>8, <3>2 DEF CaChildToken, CancelTypeOK
  <2>3. CancelTypeOK' BY <1>1, <1>8, <2>1, <2>2 DEF CaChildToken, CancelTypeOK
  <2>4. OneCanceller' /\ FramesCancelled' /\ SleepersWereOvertaken'
    BY <1>8 DEF CaChildToken, CancelIInv, CancelInv, OneCanceller, FramesCancelled,
       SleepersWereOvertaken, CaAt, CaTop
  <2>5. QED BY <2>3, <2>4 DEF CancelIInv, CancelInv
<1>9. CASE CaChildCheck(t)
  <2> DEFINE c == camaking[t][2]
  <2>1. c \in CaTokens BY <1>1, <1>9 DEF CaChildCheck
  <2>2. CASE CaEnter(t, c, <<>>) /\ UNCHANGED <<camade, camaking>>
    <3>1. <<>> \in Seq(CaFrames) /\ castack[t] = <<>> BY <1>9 DEF CaChildCheck
    <3>2. ~CaAt(t, "notify") BY <3>1 DEF CaAt
    <3>3. /\ castack' \in [CaThreads -> Seq(CaFrames)] /\ cacancelled' \in [CaTokens -> BOOLEAN]
          /\ OneCanceller' /\ FramesCancelled' /\ SleepersWereOvertaken'
      BY <1>9, <2>1, <2>2, <3>1, <3>2, EnterOk DEF CaChildCheck
    <3>4. QED BY <1>1, <1>9, <2>2, <3>3 DEF CaChildCheck, CancelIInv, CancelInv, CancelTypeOK
  <2>3. CASE /\ camade' = camade \cup {c}
             /\ camaking' = [camaking EXCEPT ![t] = <<>>]
             /\ UNCHANGED <<cacancelled, castack>>
    <3>1. CancelTypeOK' BY <1>1, <1>9, <2>1, <2>3 DEF CaChildCheck, CancelTypeOK
    <3>2. OneCanceller' /\ FramesCancelled' /\ SleepersWereOvertaken'
      BY <1>9, <2>3 DEF CaChildCheck, CancelIInv, CancelInv, OneCanceller, FramesCancelled,
         SleepersWereOvertaken, CaAt, CaTop
    <3>3. QED BY <3>1, <3>2 DEF CancelIInv, CancelInv
  <2>4. QED BY <1>9, <2>2, <2>3 DEF CaChildCheck
<1>10. QED BY <1>3, <1>4, <1>5, <1>6, <1>7, <1>8, <1>9 DEF CaInvoke, CaContinue

\* The steps of a task in wait_cancelled: one that registers late is noted as such.
LEMMA CancelTaskOk ==
  ASSUME CancelIInv, NEW w \in CaTasks, CaWaitCancelled(w) \/ CaWait(w) \/ CaPolledAnyway(w)
  PROVE  CancelIInv'
<1> USE CancelAssumption
<1>1. UNCHANGED <<camade, caborn, cacancelled, cachildren, castack, camaking>>
  BY DEF CaWaitCancelled, CaWait, CaPolledAnyway, CaCheckFlag, CaRegister, CaWoken, CaMove
<1>2. OneCanceller' /\ FramesCancelled'
  BY <1>1 DEF CancelIInv, CancelInv, OneCanceller, FramesCancelled
<1>3. CancelTypeOK'
  <2>1. CancelTypeOK BY DEF CancelIInv, CancelInv
  <2>2. capc' \in [CaTasks -> {"idle", "check", "register", "asleep", "done"}]
    BY <2>1 DEF CancelTypeOK, CaWaitCancelled, CaWait, CaPolledAnyway, CaCheckFlag, CaRegister,
       CaWoken, CaMove
  <2>3. cawaiters' \in [CaTokens -> SUBSET CaTasks] /\ calate' \subseteq CaTasks
    <3>1. CASE CaRegister(w)
      <4>1. CaWaitsFor[w] \in CaTokens OBVIOUS
      <4>2. cawaiters' \in [CaTokens -> SUBSET CaTasks]
        BY <2>1, <3>1, <4>1 DEF CancelTypeOK, CaRegister
      <4>3. calate' \subseteq calate \cup {w} BY <3>1 DEF CaRegister
      <4>4. QED BY <2>1, <4>2, <4>3 DEF CancelTypeOK
    <3>2. CASE ~CaRegister(w)
      <4>1. UNCHANGED <<cawaiters, calate>>
        BY <3>2 DEF CaWaitCancelled, CaWait, CaPolledAnyway, CaCheckFlag, CaWoken
      <4>2. QED BY <2>1, <4>1 DEF CancelTypeOK
    <3>3. QED BY <3>1, <3>2
  <2>4. QED BY <1>1, <2>1, <2>2, <2>3 DEF CancelTypeOK
<1>4. SleepersWereOvertaken'
  <2>1. CASE CaRegister(w)
    BY <1>1, <2>1 DEF CancelIInv, CancelInv, CancelTypeOK, SleepersWereOvertaken, CaRegister, CaMove, CaAt, CaTop
  <2>2. CASE ~CaRegister(w)
    BY <1>1, <2>2 DEF CancelIInv, CancelInv, CancelTypeOK, SleepersWereOvertaken, CaWaitCancelled,
       CaWait, CaPolledAnyway, CaCheckFlag, CaWoken, CaMove, CaAt, CaTop
  <2>3. QED BY <2>1, <2>2
<1>5. QED BY <1>2, <1>3, <1>4 DEF CancelIInv, CancelInv

\* A token is cancelled by one call, and only a task that the cancellation overtook
\* between its look at the flag and its registration sleeps on, whatever handles are
\* dropped, for any number of threads, tasks and tokens (cancel.rs, cancel, child_token and wait_cancelled).
THEOREM CancelInvariant == CancelSpec => []CancelInv
<1>1. CancelIInv /\ [CancelNext]_cavars => CancelIInv'
  <2>1. CASE UNCHANGED cavars
    BY <2>1 DEF cavars, CancelIInv, CancelInv, CancelTypeOK, OneCanceller, SleepersWereOvertaken,
       FramesCancelled, CaAt, CaTop
  <2>2. ASSUME CancelIInv, NEW k \in CaTokens, CaDrop(k) PROVE CancelIInv'
    BY <2>2 DEF CaDrop, CancelIInv, CancelInv, CancelTypeOK, OneCanceller, SleepersWereOvertaken,
       FramesCancelled, CaAt, CaTop
  <2>3. QED BY <2>1, <2>2, CancelThreadOk, CancelTaskOk DEF CancelNext
<1>2. CancelIInv => CancelInv BY DEF CancelIInv
<1>3. QED BY <1>1, <1>2, CancelInitOk, PTL DEF CancelSpec

(***************************************************************************)
(* Fiber handles.                                                          *)
(***************************************************************************)

\* What a handle was completed with stays, and all its inputs were complete.
FbSettled ==
  /\ \A h \in fbdriven : (FbDone(h) /\ FbDone(FbShape[h].a)) \/ FbShape[h].op = "or_else"
  /\ \A h \in fbdriven : FbShape[h].op = "zip" => FbDone(FbShape[h].b)
  /\ \A h \in FbHandles : fbexit[h].tag = "none" => fbexit[h] = FbNone
  /\ fball.tag \in {"fail", "interrupt"} => fbidx < Len(FbJoined)

\* The inductive invariant.
FibersIInv == FibersInv /\ FbSettled

\* It holds at the start.
LEMMA FibersInitOk == FibersInit => FibersIInv
<1> SUFFICES ASSUME FibersInit PROVE FibersIInv OBVIOUS
<1> USE FibersAssumption DEF FibersInit
<1>1. FbNone \in FbExits /\ FbNone.tag = "none" BY DEF FbNone, FbExits
<1>2. fbopen \in BOOLEAN OBVIOUS
<1>3. FibersTypeOK
  <2>1. fbexit \in [FbHandles -> FbExits] /\ fball \in FbExits BY <1>1
  <2>2. 0 \in 0..Len(FbJoined) OBVIOUS
  <2>3. QED BY <1>2, <2>1, <2>2 DEF FibersTypeOK
<1>4. \A h \in FbHandles : fbexit[h] = FbNone OBVIOUS
<1>5. QED BY <1>1, <1>3, <1>4 DEF FibersIInv, FibersInv, FbSettled

\* A completion, of any handle at any time, keeps what is said of all others.
LEMMA CompleteOk ==
  ASSUME FibersIInv, NEW g \in FbHandles, NEW exit \in FbExits, exit.tag # "none",
         exit.tag = "ok" => \A i \in 1..Len(exit.from) : exit.from[i] = g \/ fbexit[exit.from[i]].tag = "ok",
         FbComplete(g, exit)
  PROVE  /\ fbexit' \in [FbHandles -> FbExits]
         /\ \A h \in FbHandles : FbDone(h) => fbexit'[h] = fbexit[h]
         /\ \A h \in FbHandles : h # g => fbexit'[h] = fbexit[h]
         /\ ~FbDone(g) => fbexit'[g] = exit
         /\ fbexit'[g] # FbNone
         /\ \A h \in FbHandles : fbexit[h].tag = "ok" => fbexit'[h].tag = "ok"
         /\ \A h \in FbHandles : fbexit'[h].tag = "ok" =>
              \A i \in 1..Len(fbexit'[h].from) : fbexit'[fbexit'[h].from[i]].tag = "ok"
         /\ \A h \in FbHandles : fbexit'[h].tag = "none" => fbexit'[h] = FbNone
<1>1. fbexit \in [FbHandles -> FbExits] BY DEF FibersIInv, FibersInv, FibersTypeOK
<1>2. exit # FbNone BY DEF FbNone
<1>3. /\ fbexit' \in [FbHandles -> FbExits]
      /\ \A h \in FbHandles : FbDone(h) => fbexit'[h] = fbexit[h]
      /\ \A h \in FbHandles : h # g => fbexit'[h] = fbexit[h]
      /\ ~FbDone(g) => fbexit'[g] = exit
  BY <1>1 DEF FbComplete, FbDone
<1>4. fbexit'[g] # FbNone BY <1>2, <1>3 DEF FbDone
<1>5. \A h \in FbHandles : fbexit[h].tag = "ok" => fbexit'[h].tag = "ok" /\ fbexit'[h] = fbexit[h]
  BY <1>3 DEF FbDone, FbNone
<1>6. \A x \in FbExits : \A i \in 1..Len(x.from) : x.from[i] \in FbHandles BY DEF FbExits
<1>7. ASSUME NEW h \in FbHandles, fbexit'[h].tag = "ok", NEW i \in 1..Len(fbexit'[h].from)
      PROVE  fbexit'[fbexit'[h].from[i]].tag = "ok"
  <2>0. fbexit'[h] \in FbExits /\ fbexit'[h].from[i] \in FbHandles BY <1>3, <1>6
  <2>1. CASE fbexit'[h] = fbexit[h]
    <3>1. fbexit[fbexit[h].from[i]].tag = "ok" BY <1>7, <2>1 DEF FibersIInv, FibersInv
    <3>2. QED BY <1>5, <2>0, <2>1, <3>1
  <2>2. CASE h = g /\ ~FbDone(g)
    <3>1. fbexit'[h] = exit BY <1>3, <2>2
    <3>2. exit.from[i] = g \/ fbexit[exit.from[i]].tag = "ok" BY <1>7, <3>1
    <3>3. QED BY <1>5, <1>7, <2>0, <2>2, <3>1, <3>2
  <2>3. QED BY <1>3, <2>1, <2>2
<1>8. \A h \in FbHandles : fbexit'[h].tag = "none" => fbexit'[h] = FbNone
  BY <1>3 DEF FibersIInv, FbSettled, FbDone
<1>9. QED BY <1>3, <1>4, <1>5, <1>7, <1>8

\* The inputs of a combinator.
LEMMA ShapeOk ==
  ASSUME NEW h \in FbDerived
  PROVE  /\ FbShape[h].op \in {"map", "zip", "or_else"}
         /\ FbShape[h].a \in FbHandles /\ FbShape[h].b \in FbHandles /\ h \in FbHandles
BY FibersAssumption DEF FbHandles

\* A handle that its task completed agrees with inputs that can no longer change.
LEMMA DrivenStays ==
  ASSUME FibersIInv, NEW h \in fbdriven,
         \A g \in FbHandles : FbDone(g) => fbexit'[g] = fbexit[g]
  PROVE  /\ fbexit'[h] \in FbExpected(h)' \ {FbNone}
         /\ (FbDone(h)' /\ FbDone(FbShape[h].a)') \/ FbShape[h].op = "or_else"
         /\ FbShape[h].op = "zip" => FbDone(FbShape[h].b)'
<1>1. h \in FbDerived BY DEF FibersIInv, FibersInv, FibersTypeOK
<1>2. /\ FbShape[h].op \in {"map", "zip", "or_else"}
      /\ FbShape[h].a \in FbHandles /\ FbShape[h].b \in FbHandles /\ h \in FbHandles
  BY <1>1, ShapeOk
<1>3. fbexit[h] \in FbExpected(h) /\ fbexit[h] # FbNone BY DEF FibersIInv, FibersInv
<1>4. fbexit'[h] = fbexit[h] BY <1>2, <1>3 DEF FbDone
<1>5. CASE FbShape[h].op = "map"
  BY <1>2, <1>3, <1>4, <1>5 DEF FbExpected, FbDone
<1>6. CASE FbShape[h].op = "zip"
  <2>1. FbDone(FbShape[h].a) /\ FbDone(FbShape[h].b) BY <1>6 DEF FibersIInv, FbSettled
  <2>2. fbexit'[FbShape[h].a] = fbexit[FbShape[h].a] /\ fbexit'[FbShape[h].b] = fbexit[FbShape[h].b]
    BY <1>2, <2>1
  <2>3. QED BY <1>3, <1>4, <1>6, <2>1, <2>2 DEF FbExpected, FbDone
<1>7. CASE FbShape[h].op = "or_else"
  <2>1. fbexit[h] \in {fbexit[FbShape[h].a], fbexit[FbShape[h].b]} BY <1>3, <1>7 DEF FbExpected
  <2>2. fbexit'[h] \in {fbexit'[FbShape[h].a], fbexit'[FbShape[h].b]}
    BY <1>2, <1>3, <1>4, <2>1 DEF FbDone
  <2>3. QED BY <1>3, <1>4, <1>7, <2>2 DEF FbExpected
<1>8. QED BY <1>2, <1>5, <1>6, <1>7

\* fiber_all keeps what it has seen.
LEMMA JoinedStays ==
  ASSUME FibersIInv, UNCHANGED <<fbidx, fball>>,
         \A g \in FbHandles : FbDone(g) => fbexit'[g] = fbexit[g]
  PROVE  /\ \A i \in 1..fbidx : fbexit'[FbJoined[i]].tag = "ok"
         /\ fball.tag \in {"fail", "interrupt"} => fball = fbexit'[FbJoined[fbidx + 1]]
<1>1. /\ fbidx \in 0..Len(FbJoined) /\ Len(FbJoined) \in Nat
      /\ \A i \in 1..Len(FbJoined) : FbJoined[i] \in FbHandles
  BY FibersAssumption DEF FibersIInv, FibersInv, FibersTypeOK, FbHandles
<1>2. \A i \in 1..fbidx : FbJoined[i] \in FbHandles /\ fbexit[FbJoined[i]].tag = "ok"
  BY <1>1 DEF FibersIInv, FibersInv
<1>3. \A i \in 1..fbidx : fbexit'[FbJoined[i]].tag = "ok" BY <1>2 DEF FbDone, FbNone
<1>4. ASSUME fball.tag \in {"fail", "interrupt"} PROVE fball = fbexit'[FbJoined[fbidx + 1]]
  <2>1. fbidx + 1 \in 1..Len(FbJoined) BY <1>1, <1>4 DEF FibersIInv, FbSettled
  <2>2. FbJoined[fbidx + 1] \in FbHandles /\ fball = fbexit[FbJoined[fbidx + 1]]
    BY <1>1, <1>4, <2>1 DEF FibersIInv, FibersInv
  <2>3. QED BY <1>4, <2>2 DEF FbDone, FbNone
<1>5. QED BY <1>3, <1>4

\* The steps that complete a handle and run no task.
LEMMA FibersCompletesOk ==
  ASSUME FibersIInv, NEW g \in FbHandles, NEW exit \in FbExits, exit.tag # "none",
         exit.tag = "ok" => \A i \in 1..Len(exit.from) : exit.from[i] = g \/ fbexit[exit.from[i]].tag = "ok",
         FbComplete(g, exit), UNCHANGED <<fbidx, fball>>,
         \/ UNCHANGED <<fbended, fbdriven>>
         \/ /\ g \in FbDerived /\ g \notin fbended /\ fbended' = fbended \cup {g}
            /\ fbdriven' = IF FbDone(g) THEN fbdriven ELSE fbdriven \cup {g}
            /\ FbDone(FbShape[g].a) \/ FbShape[g].op = "or_else"
            /\ FbShape[g].op = "zip" => FbDone(FbShape[g].b)
            /\ exit \in FbExpected(g)
            /\ FbShape[g].op = "or_else" => \E i \in {FbShape[g].a, FbShape[g].b} : FbDone(i) /\ exit = fbexit[i],
         fbopen' \in BOOLEAN /\ fbfins' \subseteq FbScoped /\ fbmissed' \subseteq FbScoped,
         fbat' \in [FbScoped -> {"idle", "add", "wait", "done"}]
  PROVE  FibersIInv'
<1>1. /\ fbexit' \in [FbHandles -> FbExits]
      /\ \A h \in FbHandles : FbDone(h) => fbexit'[h] = fbexit[h]
      /\ \A h \in FbHandles : h # g => fbexit'[h] = fbexit[h]
      /\ ~FbDone(g) => fbexit'[g] = exit
      /\ fbexit'[g] # FbNone
      /\ \A h \in FbHandles : fbexit'[h].tag = "ok" =>
           \A i \in 1..Len(fbexit'[h].from) : fbexit'[fbexit'[h].from[i]].tag = "ok"
      /\ \A h \in FbHandles : fbexit'[h].tag = "none" => fbexit'[h] = FbNone
  BY CompleteOk
<1>2. /\ \A i \in 1..fbidx : fbexit'[FbJoined[i]].tag = "ok"
      /\ fball.tag \in {"fail", "interrupt"} => fball = fbexit'[FbJoined[fbidx + 1]]
  BY <1>1, JoinedStays
<1>3. FibersTypeOK'
  <2>1. fbended' \subseteq FbDerived /\ fbdriven' \subseteq fbended'
    BY DEF FibersIInv, FibersInv, FibersTypeOK
  <2>2. fbidx' \in 0..Len(FbJoined) /\ fball' \in FbExits BY DEF FibersIInv, FibersInv, FibersTypeOK
  <2>3. QED BY <1>1, <2>1, <2>2 DEF FibersTypeOK
<1>4. ASSUME NEW h \in fbdriven'
      PROVE  /\ fbexit'[h] \in FbExpected(h)' \ {FbNone}
             /\ (FbDone(h)' /\ FbDone(FbShape[h].a)') \/ FbShape[h].op = "or_else"
             /\ FbShape[h].op = "zip" => FbDone(FbShape[h].b)'
  <2>1. CASE h \in fbdriven BY <1>1, <2>1, DrivenStays
  <2>2. CASE h \notin fbdriven
    <3>1. /\ h = g /\ g \in FbDerived /\ ~FbDone(g) /\ exit \in FbExpected(g)
          /\ FbDone(FbShape[g].a) \/ FbShape[g].op = "or_else"
          /\ FbShape[g].op = "zip" => FbDone(FbShape[g].b)
          /\ FbShape[g].op = "or_else" => \E i \in {FbShape[g].a, FbShape[g].b} : FbDone(i) /\ exit = fbexit[i]
      BY <1>4, <2>2
    <3>2. /\ FbShape[g].op \in {"map", "zip", "or_else"}
          /\ FbShape[g].a \in FbHandles /\ FbShape[g].b \in FbHandles
      BY <3>1, ShapeOk
    <3>3. fbexit'[g] = exit BY <1>1, <3>1
    <3>4. CASE FbShape[g].op = "map"
      <4>1. FbDone(FbShape[g].a) /\ fbexit'[FbShape[g].a] = fbexit[FbShape[g].a] BY <1>1, <3>1, <3>2, <3>4
      <4>2. QED BY <1>1, <3>1, <3>3, <3>4, <4>1 DEF FbExpected, FbDone
    <3>5. CASE FbShape[g].op = "zip"
      <4>1. /\ FbDone(FbShape[g].a) /\ fbexit'[FbShape[g].a] = fbexit[FbShape[g].a]
            /\ FbDone(FbShape[g].b) /\ fbexit'[FbShape[g].b] = fbexit[FbShape[g].b]
        BY <1>1, <3>1, <3>2, <3>5
      <4>2. QED BY <1>1, <3>1, <3>3, <3>5, <4>1 DEF FbExpected, FbDone
    <3>6. CASE FbShape[g].op = "or_else"
      <4>1. PICK i \in {FbShape[g].a, FbShape[g].b} : FbDone(i) /\ exit = fbexit[i] BY <3>1, <3>6
      <4>2. fbexit'[i] = exit BY <1>1, <3>2, <4>1
      <4>3. fbexit'[g] \in {fbexit'[FbShape[g].a], fbexit'[FbShape[g].b]} BY <3>3, <4>1, <4>2
      <4>4. QED BY <1>1, <3>1, <3>6, <4>3 DEF FbExpected
    <3>7. QED BY <3>2, <3>4, <3>5, <3>6
  <2>3. QED BY <2>1, <2>2
<1>5. FibersInv' BY <1>1, <1>2, <1>3, <1>4 DEF FibersInv
<1>6. FbSettled' BY <1>1, <1>4 DEF FibersIInv, FbSettled
<1>7. QED BY <1>5, <1>6 DEF FibersIInv

\* The exits that drivers, interruptions and tasks complete a handle with.
LEMMA ExitsOk ==
  ASSUME FibersIInv, NEW h \in FbHandles
  PROVE  /\ FbOk(<<h>>) \in FbExits /\ FbOk(<<h>>).tag = "ok"
         /\ \A i \in 1..Len(FbOk(<<h>>).from) : FbOk(<<h>>).from[i] = h
         /\ FbFail(h) \in FbExits /\ FbFail(h).tag = "fail"
         /\ FbInterrupt(h) \in FbExits /\ FbInterrupt(h).tag = "interrupt"
<1>1. <<h>> \in Seq(FbHandles) /\ Len(<<h>>) = 1 /\ <<h>>[1] = h OBVIOUS
<1>2. QED BY <1>1 DEF FbOk, FbFail, FbInterrupt, FbExits

\* Where the elements of a concatenation come from.
LEMMA ConcatSeq ==
  ASSUME NEW S, NEW s \in Seq(S), NEW t \in Seq(S)
  PROVE  /\ s \o t \in Seq(S)
         /\ \A i \in 1..Len(s \o t) :
              \/ i \in 1..Len(s) /\ (s \o t)[i] = s[i]
              \/ i - Len(s) \in 1..Len(t) /\ (s \o t)[i] = t[i - Len(s)]
OBVIOUS

\* The task of a derived handle.
LEMMA FibersTaskOk ==
  ASSUME FibersIInv, NEW g \in FbDerived, FbTask(g)
  PROVE  FibersIInv'
<1>0. /\ FbShape[g].op \in {"map", "zip", "or_else"}
      /\ FbShape[g].a \in FbHandles /\ FbShape[g].b \in FbHandles /\ g \in FbHandles
  BY ShapeOk
<1>1. /\ fbexit \in [FbHandles -> FbExits] /\ fbopen \in BOOLEAN /\ fbfins \subseteq FbScoped
      /\ fbmissed \subseteq FbScoped /\ fbat \in [FbScoped -> {"idle", "add", "wait", "done"}]
      /\ \A h \in FbHandles : fbexit[h].tag = "none" => fbexit[h] = FbNone
      /\ \A h \in FbHandles : fbexit[h].tag = "ok" =>
           \A i \in 1..Len(fbexit[h].from) : fbexit[fbexit[h].from[i]].tag = "ok"
  BY DEF FibersIInv, FibersInv, FibersTypeOK, FbSettled
<1>2. ASSUME NEW exit \in FbExits, FbTaskEnds(g, exit), exit.tag # "none",
             exit.tag = "ok" => \A i \in 1..Len(exit.from) : fbexit[exit.from[i]].tag = "ok",
             FbDone(FbShape[g].a) \/ FbShape[g].op = "or_else",
             FbShape[g].op = "zip" => FbDone(FbShape[g].b),
             exit \in FbExpected(g),
             FbShape[g].op = "or_else" => \E i \in {FbShape[g].a, FbShape[g].b} : FbDone(i) /\ exit = fbexit[i]
      PROVE  FibersIInv'
  <2>1. fbopen' \in BOOLEAN BY <1>1, <1>2 DEF FbTaskEnds
  <2>2. /\ fbfins' \subseteq FbScoped /\ fbmissed' \subseteq FbScoped /\ UNCHANGED <<fbidx, fball>>
        /\ fbat' \in [FbScoped -> {"idle", "add", "wait", "done"}] /\ FbComplete(g, exit)
        /\ g \notin fbended /\ fbended' = fbended \cup {g}
        /\ fbdriven' = IF FbDone(g) THEN fbdriven ELSE fbdriven \cup {g}
    BY <1>1, <1>2 DEF FbTaskEnds
  <2>3. QED BY <1>0, <1>2, <2>1, <2>2, FibersCompletesOk
<1>3. CASE FbMap(g)
  <2> DEFINE x == fbexit[FbShape[g].a]
  <2>1. FbShape[g].op = "map" /\ FbDone(FbShape[g].a) /\ FbTaskEnds(g, x) BY <1>3 DEF FbMap
  <2>2. x \in FbExits /\ x.tag # "none" BY <1>0, <1>1, <2>1 DEF FbDone
  <2>3. x \in FbExpected(g) BY <2>1 DEF FbExpected
  <2>4. x.tag = "ok" => \A i \in 1..Len(x.from) : fbexit[x.from[i]].tag = "ok" BY <1>0, <1>1
  <2>5. QED BY <1>2, <2>1, <2>2, <2>3, <2>4
<1>4. CASE FbZip(g)
  <2> DEFINE x == fbexit[FbShape[g].a]
             y == fbexit[FbShape[g].b]
             z == FbBoth(x, y)
  <2>1. FbShape[g].op = "zip" /\ FbDone(FbShape[g].a) /\ FbDone(FbShape[g].b) /\ FbTaskEnds(g, z)
    BY <1>4 DEF FbZip
  <2>2. x \in FbExits /\ y \in FbExits /\ x.tag # "none" /\ y.tag # "none" BY <1>0, <1>1, <2>1 DEF FbDone
  <2>3. z \in FbExpected(g) BY <2>1 DEF FbExpected
  <2>4. /\ x.tag = "ok" => \A i \in 1..Len(x.from) : fbexit[x.from[i]].tag = "ok"
        /\ y.tag = "ok" => \A i \in 1..Len(y.from) : fbexit[y.from[i]].tag = "ok"
    BY <1>0, <1>1
  <2> HIDE DEF x, y
  <2>5. CASE x.tag = "ok" /\ y.tag = "ok"
    <3>1. z = [tag |-> "ok", from |-> x.from \o y.from] BY <2>5 DEF FbBoth, FbOk
    <3>2. x.from \in Seq(FbHandles) /\ y.from \in Seq(FbHandles) BY <2>2 DEF FbExits
    <3>3. /\ x.from \o y.from \in Seq(FbHandles)
          /\ \A i \in 1..Len(x.from \o y.from) :
               \/ i \in 1..Len(x.from) /\ (x.from \o y.from)[i] = x.from[i]
               \/ /\ i - Len(x.from) \in 1..Len(y.from)
                  /\ (x.from \o y.from)[i] = y.from[i - Len(x.from)]
      BY <3>2, ConcatSeq
    <3> HIDE DEF z
    <3>4. z \in FbExits /\ z.tag = "ok" /\ z.from = x.from \o y.from BY <3>1, <3>3 DEF FbExits
    <3>5. \A i \in 1..Len(x.from \o y.from) : fbexit[(x.from \o y.from)[i]].tag = "ok"
      BY <2>4, <2>5, <3>3
    <3>6. QED BY <1>2, <2>1, <2>3, <3>4, <3>5
  <2>6. CASE ~(x.tag = "ok" /\ y.tag = "ok")
    <3>1. z \in FbExits /\ z.tag # "ok" /\ z.tag # "none" BY <2>2, <2>6 DEF FbBoth
    <3>2. QED BY <1>2, <2>1, <2>3, <3>1
  <2>7. QED BY <2>5, <2>6
<1>5. CASE FbOrElse(g)
  <2>1. PICK j \in {FbShape[g].a, FbShape[g].b} : FbDone(j) /\ FbTaskEnds(g, fbexit[j])
    BY <1>5 DEF FbOrElse
  <2>2. FbShape[g].op = "or_else" /\ j \in FbHandles BY <1>0, <1>5 DEF FbOrElse
  <2>3. fbexit[j] \in FbExits /\ fbexit[j].tag # "none" BY <1>1, <2>1, <2>2 DEF FbDone
  <2>4. fbexit[j] \in FbExpected(g) BY <2>1, <2>2 DEF FbExpected
  <2>5. fbexit[j].tag = "ok" => \A i \in 1..Len(fbexit[j].from) : fbexit[fbexit[j].from[i]].tag = "ok"
    BY <1>1, <2>2
  <2>6. QED BY <1>2, <2>1, <2>2, <2>3, <2>4, <2>5
<1>6. QED BY <1>3, <1>4, <1>5 DEF FbTask

\* The steps of drivers, interruptions and scoped calls.
LEMMA FibersScopedOk ==
  ASSUME FibersIInv,
         \/ \E h \in FbBase : FbMark(h, FbOk(<<h>>)) \/ FbMark(h, FbFail(h))
         \/ \E h \in FbHandles : FbInterrupted(h)
         \/ \E h \in FbScoped : FbScopedCall(h) \/ FbScopedStep(h)
         \/ FbClose
  PROVE  FibersIInv'
<1>0. /\ FbBase \subseteq FbHandles /\ FbScoped \subseteq FbHandles
  BY FibersAssumption DEF FbHandles
<1>1. /\ fbexit \in [FbHandles -> FbExits] /\ fbopen \in BOOLEAN /\ fbfins \subseteq FbScoped
      /\ fbmissed \subseteq FbScoped /\ fbat \in [FbScoped -> {"idle", "add", "wait", "done"}]
  BY DEF FibersIInv, FibersInv, FibersTypeOK
<1>2. ASSUME NEW h \in FbHandles, NEW exit \in {FbOk(<<h>>), FbFail(h), FbInterrupt(h)},
             FbComplete(h, exit), UNCHANGED <<fbended, fbdriven, fbopen, fbmissed, fbidx, fball>>,
             fbfins' \subseteq FbScoped, fbat' \in [FbScoped -> {"idle", "add", "wait", "done"}]
      PROVE  FibersIInv'
  <2>1. /\ exit \in FbExits /\ exit.tag # "none"
        /\ exit.tag = "ok" => \A i \in 1..Len(exit.from) : exit.from[i] = h
    BY <1>2, ExitsOk
  <2>2. fbopen' \in BOOLEAN BY <1>1, <1>2
  <2>3. QED BY <1>1, <1>2, <2>1, <2>2, FibersCompletesOk
<1>3. ASSUME UNCHANGED <<fbexit, fbended, fbdriven, fbidx, fball>>, fbopen' \in BOOLEAN,
             fbfins' \subseteq FbScoped, fbmissed' \subseteq FbScoped,
             fbat' \in [FbScoped -> {"idle", "add", "wait", "done"}]
      PROVE  FibersIInv'
  <2>1. FibersTypeOK' BY <1>3 DEF FibersIInv, FibersInv, FibersTypeOK
  <2>2. \A h : FbExpected(h)' = FbExpected(h) /\ (FbDone(h)' <=> FbDone(h))
    BY <1>3 DEF FbExpected, FbDone
  <2>3. QED BY <1>3, <2>1, <2>2 DEF FibersIInv, FibersInv, FbSettled
<1>4. ASSUME NEW h \in FbBase, FbMark(h, FbOk(<<h>>)) \/ FbMark(h, FbFail(h)) PROVE FibersIInv'
  BY <1>0, <1>1, <1>2, <1>4 DEF FbMark
<1>5. ASSUME NEW h \in FbHandles, FbInterrupted(h) PROVE FibersIInv'
  BY <1>1, <1>2, <1>5 DEF FbInterrupted
<1>6. ASSUME NEW h \in FbScoped, FbScopedCall(h) PROVE FibersIInv'
  <2>1. fbat' \in [FbScoped -> {"idle", "add", "wait", "done"}] BY <1>1, <1>6 DEF FbScopedCall
  <2>2. fbopen' \in BOOLEAN BY <1>1, <1>6 DEF FbScopedCall
  <2>3. QED BY <1>0, <1>1, <1>2, <1>3, <1>6, <2>1, <2>2 DEF FbScopedCall
<1>7. ASSUME NEW h \in FbScoped, FbRegister(h) PROVE FibersIInv'
  <2>1. fbat' \in [FbScoped -> {"idle", "add", "wait", "done"}] BY <1>1, <1>7 DEF FbRegister
  <2>2. fbopen' \in BOOLEAN BY <1>1, <1>7 DEF FbRegister
  <2>3. fbfins' \subseteq FbScoped /\ fbmissed' \subseteq FbScoped BY <1>1, <1>7 DEF FbRegister
  <2>4. QED BY <1>3, <1>7, <2>1, <2>2, <2>3 DEF FbRegister
<1>8. ASSUME NEW h \in FbScoped, FbScopedReturns(h) PROVE FibersIInv'
  <2>1. fbat' \in [FbScoped -> {"idle", "add", "wait", "done"}] BY <1>1, <1>8 DEF FbScopedReturns
  <2>2. fbopen' \in BOOLEAN BY <1>1, <1>8 DEF FbScopedReturns
  <2>3. QED BY <1>1, <1>3, <1>8, <2>1, <2>2 DEF FbScopedReturns
<1>9. ASSUME NEW h \in FbScoped, FbFinalize(h) PROVE FibersIInv'
  BY <1>0, <1>1, <1>2, <1>9 DEF FbFinalize
<1>10. CASE FbClose
  <2>1. fbopen' \in BOOLEAN BY <1>10 DEF FbClose
  <2>2. QED BY <1>1, <1>3, <1>10, <2>1 DEF FbClose
<1>11. QED BY <1>4, <1>5, <1>6, <1>7, <1>8, <1>9, <1>10 DEF FbScopedStep

\* A step of fiber_all.
LEMMA FibersJoinOk ==
  ASSUME FibersIInv, FbJoin
  PROVE  FibersIInv'
<1>0. /\ fbidx \in 0..Len(FbJoined) /\ Len(FbJoined) \in Nat /\ fbidx < Len(FbJoined)
      /\ \A i \in 1..Len(FbJoined) : FbJoined[i] \in FbHandles
      /\ UNCHANGED <<fbexit, fbended, fbdriven, fbopen, fbfins, fbat, fbmissed>>
  BY FibersAssumption DEF FibersIInv, FibersInv, FibersTypeOK, FbHandles, FbJoin
<1> DEFINE exit == fbexit[FbJoined[fbidx + 1]]
<1>1. FbJoined[fbidx + 1] \in FbHandles BY <1>0
<1>2. exit \in FbExits /\ (exit.tag = "none" => exit = FbNone) /\ exit # FbNone
  BY <1>1 DEF FibersIInv, FibersInv, FibersTypeOK, FbSettled, FbJoin, FbDone
<1>3. FbNone \in FbExits /\ FbOk(FbJoined) \in FbExits /\ FbNone.tag = "none" /\ FbOk(FbJoined).tag = "ok"
  BY FibersAssumption DEF FbNone, FbOk, FbExits, FbHandles
<1>4. \A h : FbExpected(h)' = FbExpected(h) /\ (FbDone(h)' <=> FbDone(h))
  BY <1>0 DEF FbExpected, FbDone
<1>a. fbopen' \in BOOLEAN BY <1>0 DEF FibersIInv, FibersInv, FibersTypeOK
<1>5. CASE exit.tag = "ok"
  <2>1. fbidx' = fbidx + 1 /\ fball' \in {FbOk(FbJoined), FbNone} BY <1>5 DEF FbJoin
  <2>2. FibersTypeOK' BY <1>a, <1>0, <1>3, <2>1 DEF FibersIInv, FibersInv, FibersTypeOK
  <2>3. \A i \in 1..fbidx' : fbexit'[FbJoined[i]].tag = "ok"
    <3> TAKE i \in 1..fbidx'
    <3>1. CASE i = fbidx + 1 BY <1>0, <1>5, <3>1
    <3>2. CASE i # fbidx + 1
      <4>1. i \in 1..fbidx BY <1>0, <2>1, <3>2
      <4>2. QED BY <1>0, <4>1 DEF FibersIInv, FibersInv
    <3>3. QED BY <3>1, <3>2
  <2>4. fball'.tag \notin {"fail", "interrupt"} BY <1>3, <2>1
  <2>5. QED BY <1>0, <1>4, <2>2, <2>3, <2>4 DEF FibersIInv, FibersInv, FbSettled
<1>6. CASE exit.tag # "ok"
  <2>1. fbidx' = fbidx /\ fball' = exit BY <1>6 DEF FbJoin
  <2>2. FibersTypeOK' BY <1>a, <1>0, <1>2, <2>1 DEF FibersIInv, FibersInv, FibersTypeOK
  <2>3. \A i \in 1..fbidx' : fbexit'[FbJoined[i]].tag = "ok" BY <1>0, <2>1 DEF FibersIInv, FibersInv
  <2>4. QED BY <1>0, <1>4, <2>1, <2>2, <2>3 DEF FibersIInv, FibersInv, FbSettled
<1>7. QED BY <1>5, <1>6

\* A handle that its task completed agrees with the inputs for ever after, a success
\* names inputs that succeeded, and fiber_all reports the first failure of its list:
\* for any handles and any way to combine them (fiber_handle.rs, map, zip, or_else,
\* scoped and fiber_all).
THEOREM FibersInvariant == FibersSpec => []FibersInv
<1>1. FibersIInv /\ [FibersNext]_fbvars => FibersIInv'
  <2> SUFFICES ASSUME FibersIInv, [FibersNext]_fbvars PROVE FibersIInv' OBVIOUS
  <2>1. CASE UNCHANGED fbvars
    <3>1. \A h : FbExpected(h)' = FbExpected(h) /\ (FbDone(h)' <=> FbDone(h))
      BY <2>1 DEF fbvars, FbExpected, FbDone
    <3>2. QED BY <2>1, <3>1 DEF fbvars, FibersIInv, FibersInv, FibersTypeOK, FbSettled
  <2>2. QED BY <2>1, FibersTaskOk, FibersScopedOk, FibersJoinOk DEF FibersNext
<1>2. FibersIInv => FibersInv BY DEF FibersIInv
<1>3. QED BY <1>1, <1>2, FibersInitOk, PTL DEF FibersSpec

(***************************************************************************)
(* The planner and the life of the providers.                              *)
(***************************************************************************)

\* Before the sort, and when it was refused, there is no order.
CpUnsorted == cpat \in {"plan", "Conflict", "Duplicate", "Missing"}

\* From the end of the sort on, an order was found.
CpOrdered == cpat \in {"build", "verify", "run", "stop", "BuildError", "CapabilityError", "Ok",
                       "EffectError"}

\* The loop of the sort: what is ordered is ordered once and after all it waits for,
\* the indegree counts what is still to come, and whatever has none is in the queue.
CpKahn ==
  /\ CpUnsorted => cporder = <<>> /\ cpqueue = <<>>
  /\ IsInjective(cporder) /\ IsInjective(cpqueue) /\ Range(cporder) \cap Range(cpqueue) = {}
  /\ \A i \in 1..Len(cporder) : CpDeps(cporder[i]) \subseteq {cporder[j] : j \in 1..i - 1}
  /\ ~CpUnsorted => \A n \in CpNodes :
       /\ cpdegree[n] = Cardinality(CpDeps(n) \ Range(cporder))
       /\ n \in Range(cporder) \cup Range(cpqueue) <=> cpdegree[n] = 0

\* The providers are built along a full order, and none without one.
CpAlong ==
  /\ CpOrdered => Len(cporder) = CpCount
  /\ ~CpOrdered => cpbuilt = <<>>
  /\ cpat = "Cycle" => cpqueue = <<>> /\ Len(cporder) # CpCount
  /\ Len(cpbuilt) <= Len(cporder)
  /\ \A i \in 1..Len(cpbuilt) : cpbuilt[i] = cporder[i]

\* The hooks called and the hooks to be called.
CpHooks ==
  /\ cpat = "stop" => cpstopped \o cphooks = Reverse([n \in CpNodes |-> n])
  /\ cpat \in {"Ok", "EffectError"} => cpstopped = Reverse([n \in CpNodes |-> n])
  /\ cpat \notin {"stop", "Ok", "EffectError"} => cpstopped = <<>>

\* The inductive invariant.
CapabilityIInv == CapabilityTypeOK /\ CpKahn /\ CpAlong /\ CpHooks

\* The providers are finitely many, and a graph that stays keeps who waits for whom.
LEMMA CpFacts ==
  /\ CpCount \in Nat /\ IsFiniteSet(CpNodes) /\ Cardinality(CpNodes) = CpCount
  /\ \A n \in CpNodes : CpDeps(n) \in SUBSET CpNodes /\ n \notin CpDeps(n) /\ IsFiniteSet(CpDeps(n))
  /\ cpgraph' = cpgraph => \A n \in CpNodes : CpDeps(n)' = CpDeps(n)
<1>1. CpCount \in Nat BY CapabilityAssumption
<1>2. IsFiniteSet(CpNodes) /\ Cardinality(CpNodes) = CpCount BY <1>1, FS_Interval DEF CpNodes
<1>3. \A n \in CpNodes : CpDeps(n) \in SUBSET CpNodes /\ n \notin CpDeps(n) BY DEF CpDeps
<1>4. \A n \in CpNodes : IsFiniteSet(CpDeps(n)) BY <1>2, <1>3, FS_Subset
<1>5. cpgraph' = cpgraph => \A n \in CpNodes : CpDeps(n)' = CpDeps(n)
  BY DEF CpDeps, CpRequires, CpProvided
<1>6. QED BY <1>1, <1>2, <1>3, <1>4, <1>5

\* The arguments, last first: each of them once.
LEMMA CpArguments ==
  /\ Reverse([n \in CpNodes |-> n]) \in Seq(CpNodes) /\ IsInjective(Reverse([n \in CpNodes |-> n]))
  /\ Range(Reverse([n \in CpNodes |-> n])) = CpNodes
<1>1. CpCount \in Nat /\ CpNodes = 1..CpCount BY CapabilityAssumption DEF CpNodes
<1>2. PICK a \in Seq(CpNodes) : /\ a = [n \in CpNodes |-> n] /\ Len(a) = CpCount
                               /\ \A i \in 1..CpCount : a[i] = i
  <2>1. PICK a : a = [n \in CpNodes |-> n] OBVIOUS
  <2>2. a \in [1..CpCount -> CpNodes] BY <1>1, <2>1
  <2>3. a \in Seq(CpNodes) /\ Len(a) = CpCount BY <1>1, <2>2
  <2>4. \A i \in 1..CpCount : a[i] = i BY <1>1, <2>1
  <2>5. QED BY <2>1, <2>3, <2>4
<1>3. \A i \in 1..CpCount : (CpCount - i) + 1 \in 1..CpCount /\ a[(CpCount - i) + 1] = (CpCount - i) + 1
  BY <1>1, <1>2
<1>4. PICK r : r = [i \in 1..CpCount |-> a[(CpCount - i) + 1]] OBVIOUS
<1>5. DOMAIN r = 1..CpCount /\ \A i \in 1..CpCount : r[i] = (CpCount - i) + 1 BY <1>3, <1>4
<1>6. r \in Seq(CpNodes) BY <1>1, <1>3, <1>4
<1>7. IsInjective(r)
  <2>1. \A i, j \in 1..CpCount : r[i] = r[j] => i = j BY <1>1, <1>5
  <2>2. QED BY <1>5, <2>1 DEF IsInjective
<1>8. Range(r) = CpNodes
  <2>1. ASSUME NEW n \in CpNodes PROVE \E i \in 1..CpCount : r[i] = n
    <3>1. (CpCount - n) + 1 \in 1..CpCount /\ (CpCount - ((CpCount - n) + 1)) + 1 = n BY <1>1
    <3>2. QED BY <1>5, <3>1
  <2>2. \A i \in 1..CpCount : r[i] \in CpNodes BY <1>1, <1>3, <1>5
  <2>3. QED BY <1>5, <2>1, <2>2 DEF Range
<1>9. r = Reverse([n \in CpNodes |-> n]) BY <1>2, <1>4 DEF Reverse
<1>10. QED BY <1>6, <1>7, <1>8, <1>9

\* It holds at the start.
LEMMA CapabilityInitOk == CapabilityInit => CapabilityIInv
<1> SUFFICES ASSUME CapabilityInit PROVE CapabilityIInv OBVIOUS
<1>1. /\ cpgraph \in CpGraphs /\ cpneeds \in CpNeeds /\ cpat = "plan"
      /\ cpdegree = [n \in CpNodes |-> 0]
      /\ cpqueue = <<>> /\ cporder = <<>> /\ cpbuilt = <<>> /\ cphooks = <<>> /\ cpstopped = <<>>
  BY DEF CapabilityInit
<1>2. CapabilityTypeOK BY <1>1 DEF CapabilityTypeOK
<1>3. CpUnsorted /\ ~CpOrdered BY <1>1 DEF CpUnsorted, CpOrdered
<1>4. Len(<<>>) = 0 OBVIOUS
<1>5. Range(cporder) = {} /\ IsInjective(cporder) /\ IsInjective(cpqueue) BY <1>1, EmptyLine, Zenon
<1>6. CpKahn BY <1>1, <1>3, <1>4, <1>5 DEF CpKahn
<1>7. CpAlong BY <1>1, <1>3, <1>4 DEF CpAlong
<1>8. CpHooks BY <1>1 DEF CpHooks
<1>9. QED BY <1>2, <1>6, <1>7, <1>8 DEF CapabilityIInv

\* Steps outside the loop leave it alone.
LEMMA CpKahnStays ==
  ASSUME CapabilityIInv, cpgraph' = cpgraph, cpdegree' = cpdegree, cpqueue' = cpqueue,
         cporder' = cporder, CpUnsorted' <=> CpUnsorted
  PROVE  CpKahn'
<1>1. CpKahn /\ cporder \in Seq(CpNodes) BY DEF CapabilityIInv, CapabilityTypeOK
<1>2. \A n \in CpNodes : CpDeps(n)' = CpDeps(n) BY CpFacts
<1>3. \A i \in 1..Len(cporder) : cporder[i] \in CpNodes BY <1>1
<1>4. \A i \in 1..Len(cporder) : CpDeps(cporder[i])' \subseteq {cporder[j] : j \in 1..i - 1}
  <2> SUFFICES ASSUME NEW i \in 1..Len(cporder)
               PROVE  CpDeps(cporder[i])' \subseteq {cporder[j] : j \in 1..i - 1}
    OBVIOUS
  <2>1. PICK n \in CpNodes : n = cporder[i] BY <1>3
  <2>2. CpDeps(n) \subseteq {cporder[j] : j \in 1..i - 1} BY <1>1, <2>1 DEF CpKahn
  <2>3. CpDeps(n)' \subseteq {cporder[j] : j \in 1..i - 1} BY <1>2, <2>2
  <2>4. QED BY <2>1, <2>3
<1>5. (~CpUnsorted)' => \A n \in CpNodes :
         /\ cpdegree'[n] = Cardinality(CpDeps(n)' \ Range(cporder'))
         /\ n \in Range(cporder') \cup Range(cpqueue') <=> cpdegree'[n] = 0
  <2> SUFFICES ASSUME ~CpUnsorted, NEW n \in CpNodes
               PROVE  /\ cpdegree[n] = Cardinality(CpDeps(n)' \ Range(cporder))
                      /\ n \in Range(cporder) \cup Range(cpqueue) <=> cpdegree[n] = 0
    OBVIOUS
  <2>1. /\ cpdegree[n] = Cardinality(CpDeps(n) \ Range(cporder))
        /\ n \in Range(cporder) \cup Range(cpqueue) <=> cpdegree[n] = 0
    BY <1>1 DEF CpKahn
  <2>2. CpDeps(n)' = CpDeps(n) BY <1>2
  <2>3. QED BY <2>1, <2>2, Zenon
<1>6. CpUnsorted' => cporder' = <<>> /\ cpqueue' = <<>> BY <1>1 DEF CpKahn
<1>7. IsInjective(cporder') /\ IsInjective(cpqueue') /\ Range(cporder') \cap Range(cpqueue') = {}
  BY <1>1 DEF CpKahn
<1>8. QED BY <1>4, <1>5, <1>6, <1>7 DEF CpKahn

\* Who waits for nobody is queued, in any order.
LEMMA CpStartOk == ASSUME CapabilityIInv, CpStart PROVE CapabilityIInv'
<1>1. CapabilityTypeOK /\ CpKahn /\ CpAlong /\ CpHooks BY DEF CapabilityIInv
<1>2. /\ cpat = "plan" /\ cpat' = "sort" /\ cpdegree' = [n \in CpNodes |-> Cardinality(CpDeps(n))]
      /\ cpqueue' \in SetToSeqs({n \in CpNodes : CpDeps(n) = {}})
      /\ cpgraph' = cpgraph /\ cpneeds' = cpneeds /\ cporder' = cporder /\ cpbuilt' = cpbuilt
      /\ cphooks' = cphooks /\ cpstopped' = cpstopped
  BY DEF CpStart
<1>3. cporder = <<>> /\ cpbuilt = <<>> /\ cpstopped = <<>>
  BY <1>1, <1>2 DEF CpKahn, CpAlong, CpHooks, CpUnsorted, CpOrdered
<1>4. PICK T \in SUBSET CpNodes : T = {n \in CpNodes : CpDeps(n) = {}} OBVIOUS
<1>5. IsFiniteSet(T) BY CpFacts, FS_Subset
<1>6. cpqueue' \in SetToSeqs(T) BY <1>2, <1>4, Zenon
<1>7. cpqueue' \in Seq(CpNodes) /\ IsInjective(cpqueue') /\ Range(cpqueue') = T
  BY <1>5, <1>6, SeqsOnce
<1>8. \A n \in CpNodes : Cardinality(CpDeps(n)) \in Nat /\ (Cardinality(CpDeps(n)) = 0 <=> CpDeps(n) = {})
  BY CpFacts, FS_CardinalityType, FS_EmptySet
<1>9. CapabilityTypeOK' BY <1>1, <1>2, <1>7, <1>8 DEF CapabilityTypeOK
<1>10. CpKahn'
  <2>1. ~CpUnsorted' BY <1>2 DEF CpUnsorted
  <2>2. Range(cporder') = {} /\ IsInjective(cporder') BY <1>2, <1>3, EmptyLine, Zenon
  <2>3. Len(cporder') = 0 BY <1>2, <1>3
  <2>4. ASSUME NEW n \in CpNodes
        PROVE  /\ cpdegree'[n] = Cardinality(CpDeps(n)' \ Range(cporder'))
               /\ n \in Range(cporder') \cup Range(cpqueue') <=> cpdegree'[n] = 0
    <3>1. CpDeps(n)' = CpDeps(n) /\ cpdegree'[n] = Cardinality(CpDeps(n)) BY <1>2, CpFacts
    <3>2. CpDeps(n) \ Range(cporder') = CpDeps(n) BY <2>2
    <3>3. cpdegree'[n] = Cardinality(CpDeps(n)' \ Range(cporder')) BY <3>1, <3>2, Zenon
    <3>4. n \in T <=> CpDeps(n) = {} BY <1>4
    <3>5. QED BY <1>7, <1>8, <2>2, <3>1, <3>3, <3>4
  <2>5. QED BY <1>7, <2>1, <2>2, <2>3, <2>4 DEF CpKahn
<1>11. CpAlong' /\ CpHooks'
  BY <1>1, <1>2, <1>3 DEF CpAlong, CpHooks, CpOrdered
<1>12. QED BY <1>9, <1>10, <1>11 DEF CapabilityIInv

\* One turn of the loop.
LEMMA CpShiftOk == ASSUME CapabilityIInv, CpShift PROVE CapabilityIInv'
<1>1. CapabilityTypeOK /\ CpKahn /\ CpAlong /\ CpHooks BY DEF CapabilityIInv
<1>2. PICK n : n = Head(cpqueue) OBVIOUS
<1>3. PICK T : T = {m \in CpNodes : n \in CpDeps(m) /\ cpdegree[m] = 1} OBVIOUS
<1>4. /\ cpat = "sort" /\ cpqueue # <<>> /\ cporder' = Append(cporder, n)
      /\ cpdegree' = [m \in CpNodes |-> IF n \in CpDeps(m) THEN cpdegree[m] - 1 ELSE cpdegree[m]]
      /\ \E next \in SetToSeqs(T) : cpqueue' = Tail(cpqueue) \o next
      /\ cpgraph' = cpgraph /\ cpneeds' = cpneeds /\ cpat' = cpat /\ cpbuilt' = cpbuilt
      /\ cphooks' = cphooks /\ cpstopped' = cpstopped
  <2>1. /\ cpat = "sort" /\ cpqueue # <<>> /\ cporder' = Append(cporder, n)
        /\ cpgraph' = cpgraph /\ cpneeds' = cpneeds /\ cpat' = cpat /\ cpbuilt' = cpbuilt
        /\ cphooks' = cphooks /\ cpstopped' = cpstopped
    BY <1>2 DEF CpShift
  <2>2. cpdegree' = [m \in CpNodes |-> IF n \in CpDeps(m) THEN cpdegree[m] - 1 ELSE cpdegree[m]]
    <3>1. cpdegree' = [m \in CpNodes |-> IF m \in {k \in CpNodes : n \in CpDeps(k)}
                                         THEN cpdegree[m] - 1 ELSE cpdegree[m]]
      BY <1>2 DEF CpShift
    <3>2. QED BY <3>1
  <2>3. \E next \in SetToSeqs(T) : cpqueue' = Tail(cpqueue) \o next
    <3>1. T = {m \in {k \in CpNodes : n \in CpDeps(k)} : cpdegree[m] = 1} BY <1>3
    <3>2. \E next \in CpByArgument({m \in {k \in CpNodes : n \in CpDeps(k)} : cpdegree[m] = 1}) :
             cpqueue' = Tail(cpqueue) \o next
      BY <1>2 DEF CpShift
    <3>3. PICK next \in CpByArgument(T) : cpqueue' = Tail(cpqueue) \o next BY <3>1, <3>2, Zenon
    <3>4. next \in SetToSeqs(T) BY DEF CpByArgument
    <3>5. QED BY <3>3, <3>4
  <2>4. QED BY <2>1, <2>2, <2>3
<1>5. /\ cporder \in Seq(CpNodes) /\ cpqueue \in Seq(CpNodes) /\ cpdegree \in [CpNodes -> Nat]
      /\ IsInjective(cporder) /\ IsInjective(cpqueue) /\ Range(cporder) \cap Range(cpqueue) = {}
  BY <1>1 DEF CapabilityTypeOK, CpKahn
<1>6. /\ Tail(cpqueue) \in Seq(CpNodes) /\ n \in CpNodes /\ n \in Range(cpqueue)
      /\ IsInjective(Tail(cpqueue)) /\ Range(Tail(cpqueue)) = Range(cpqueue) \ {n}
  BY <1>2, <1>4, <1>5, TailOnce
<1>7. /\ cporder' \in Seq(CpNodes) /\ IsInjective(cporder') /\ Range(cporder') = Range(cporder) \cup {n}
  <2>1. n \in CpNodes \ Range(cporder) BY <1>5, <1>6
  <2>2. QED BY <1>4, <1>5, <2>1, AppendOnce
<1>8. \A m \in CpNodes : /\ cpdegree[m] = Cardinality(CpDeps(m) \ Range(cporder))
                         /\ m \in Range(cporder) \cup Range(cpqueue) <=> cpdegree[m] = 0
  BY <1>1, <1>4 DEF CpKahn, CpUnsorted
<1>9. T \in SUBSET CpNodes /\ IsFiniteSet(T) /\ \A m \in T : m \notin Range(cporder) \cup Range(cpqueue)
  <2>1. T \in SUBSET CpNodes BY <1>3
  <2>2. IsFiniteSet(T) BY <2>1, CpFacts, FS_Subset
  <2>3. ASSUME NEW m \in T PROVE m \notin Range(cporder) \cup Range(cpqueue)
    <3>1. m \in CpNodes /\ cpdegree[m] = 1 BY <1>3
    <3>2. cpdegree[m] # 0 BY <3>1
    <3>3. QED BY <1>8, <3>1, <3>2
  <2>4. QED BY <2>1, <2>2, <2>3
<1>10. PICK next \in SetToSeqs(T) : cpqueue' = Tail(cpqueue) \o next BY <1>4
<1>11. next \in Seq(CpNodes) /\ IsInjective(next) /\ Range(next) = T BY <1>9, SeqsOnce
<1>12. /\ cpqueue' \in Seq(CpNodes) /\ IsInjective(cpqueue')
       /\ Range(cpqueue') = (Range(cpqueue) \ {n}) \cup T
  <2>1. Range(Tail(cpqueue)) \cap Range(next) = {} BY <1>6, <1>9, <1>11
  <2>2. /\ Tail(cpqueue) \o next \in Seq(CpNodes) /\ IsInjective(Tail(cpqueue) \o next)
        /\ Range(Tail(cpqueue) \o next) = Range(Tail(cpqueue)) \cup Range(next)
    <3>1. PICK t \in Seq(CpNodes) : t = Tail(cpqueue) BY <1>6
    <3>2. IsInjective(t) /\ Range(t) \cap Range(next) = {} BY <1>6, <2>1, <3>1, Zenon
    <3>3. t \o next \in Seq(CpNodes) /\ IsInjective(t \o next) /\ Range(t \o next) = Range(t) \cup Range(next)
      BY <1>11, <3>2, ConcatOnce
    <3>4. QED BY <3>1, <3>3, Zenon
  <2>3. QED BY <1>6, <1>10, <1>11, <2>2, Zenon
<1>13. ASSUME NEW m \in CpNodes
       PROVE  /\ cpdegree'[m] = Cardinality(CpDeps(m) \ Range(cporder'))
              /\ cpdegree'[m] \in Nat
              /\ m \in Range(cporder') \cup Range(cpqueue') <=> cpdegree'[m] = 0
  <2>1. PICK A \in SUBSET CpNodes : A = CpDeps(m) \ Range(cporder) BY CpFacts
  <2>2. cpdegree[m] = Cardinality(A) BY <1>8, <2>1, Zenon
  <2>3. Cardinality(A) \in Nat /\ (n \in A => Cardinality(A \ {n}) = Cardinality(A) - 1 /\ Cardinality(A) > 0)
    BY <1>6, CpFacts, CountChange
  <2>4. CpDeps(m) \ Range(cporder') = A \ {n} BY <1>7, <2>1
  <2>5. n \in A <=> n \in CpDeps(m) BY <1>5, <1>6, <2>1
  <2>6. CASE n \in A
    <3>1. cpdegree'[m] = cpdegree[m] - 1 BY <1>4, <2>5, <2>6
    <3>2. cpdegree'[m] = Cardinality(A \ {n}) /\ cpdegree'[m] \in Nat BY <2>2, <2>3, <2>6, <3>1
    <3>3. cpdegree'[m] = Cardinality(CpDeps(m) \ Range(cporder')) BY <2>4, <3>2, Zenon
    <3>a. cpdegree[m] # 0 BY <2>2, <2>3, <2>6
    <3>4. m \notin Range(cporder) \cup Range(cpqueue) /\ m # n BY <1>6, <1>8, <3>a
    <3>5. m \in Range(cporder') \cup Range(cpqueue') <=> m \in T BY <1>7, <1>12, <3>4
    <3>6. m \in T <=> cpdegree[m] = 1 BY <1>3, <2>5, <2>6
    <3>7. cpdegree[m] = 1 <=> cpdegree'[m] = 0 BY <2>2, <2>3, <3>1
    <3>8. QED BY <3>2, <3>3, <3>5, <3>6, <3>7
  <2>7. CASE n \notin A
    <3>1. cpdegree'[m] = cpdegree[m] BY <1>4, <2>5, <2>7
    <3>2. A \ {n} = A BY <2>7
    <3>3. cpdegree'[m] = Cardinality(CpDeps(m) \ Range(cporder')) BY <2>2, <2>4, <3>1, <3>2, Zenon
    <3>4. m \notin T BY <1>3, <2>5, <2>7
    <3>5. m \in Range(cporder') \cup Range(cpqueue') <=> m \in Range(cporder) \cup Range(cpqueue)
      BY <1>6, <1>7, <1>12, <3>4
    <3>6. QED BY <1>8, <2>2, <2>3, <3>1, <3>3, <3>5
  <2>8. QED BY <2>6, <2>7
<1>14. CapabilityTypeOK'
  <2>1. cpdegree' \in [CpNodes -> Nat] BY <1>4, <1>13
  <2>2. QED BY <1>1, <1>4, <1>7, <1>12, <2>1 DEF CapabilityTypeOK
<1>15. CpKahn'
  <2>1. \A m \in CpNodes : CpDeps(m)' = CpDeps(m) BY <1>4, CpFacts
  <2>2. Range(cporder') \cap Range(cpqueue') = {} BY <1>5, <1>6, <1>7, <1>9, <1>12
  <2>3. ASSUME NEW i \in 1..Len(cporder')
        PROVE  CpDeps(cporder[i])' \subseteq {cporder'[j] : j \in 1..i - 1}
    <3>1. /\ Len(cporder) \in Nat /\ Len(cporder') = Len(cporder) + 1 /\ cporder'[Len(cporder) + 1] = n
          /\ \A j \in 1..Len(cporder) : cporder'[j] = cporder[j] /\ cporder[j] \in CpNodes
      BY <1>4, <1>5, <1>6
    <3>2. PICK m \in CpNodes : m = cporder'[i]
      <4>1. cporder'[i] \in CpNodes BY <1>7
      <4>2. QED BY <4>1
    <3>3. CASE i \in 1..Len(cporder)
      <4>1. m = cporder[i] BY <3>1, <3>2, <3>3
      <4>2. CpDeps(m) \subseteq {cporder[j] : j \in 1..i - 1} BY <1>1, <3>3, <4>1 DEF CpKahn
      <4>3. \A j \in 1..i - 1 : cporder'[j] = cporder[j] BY <3>1, <3>3
      <4>4. CpDeps(m) \subseteq {cporder'[j] : j \in 1..i - 1} BY <4>2, <4>3
      <4>5. QED BY <2>1, <3>2, <4>4
    <3>4. CASE i = Len(cporder) + 1
      <4>1. m = n BY <3>1, <3>2, <3>4
      <4>2. CpDeps(n) \subseteq Range(cporder)
        <5>1. PICK A \in SUBSET CpNodes : A = CpDeps(n) \ Range(cporder)
          <6>1. CpDeps(n) \in SUBSET CpNodes BY <1>6, CpFacts
          <6>2. QED BY <6>1
        <5>2. Cardinality(A) = 0
          <6>1. cpdegree[n] = 0 BY <1>6, <1>8
          <6>2. cpdegree[n] = Cardinality(A) BY <1>6, <1>8, <5>1, Zenon
          <6>3. QED BY <6>1, <6>2
        <5>3. IsFiniteSet(A) BY CpFacts, FS_Subset
        <5>4. A = {} BY <5>2, <5>3, FS_EmptySet
        <5>5. QED BY <5>1, <5>4
      <4>3. Range(cporder) = {cporder[j] : j \in 1..Len(cporder)} BY <1>5 DEF Range
      <4>4. i - 1 = Len(cporder) BY <3>1, <3>4
      <4>5. {cporder'[j] : j \in 1..i - 1} = {cporder[j] : j \in 1..Len(cporder)} BY <3>1, <4>4
      <4>6. CpDeps(m) \subseteq {cporder'[j] : j \in 1..i - 1} BY <4>1, <4>2, <4>3, <4>5
      <4>7. QED BY <2>1, <3>2, <4>6
    <3>5. QED BY <3>1, <3>3, <3>4
  <2>4. \A m \in CpNodes : /\ cpdegree'[m] = Cardinality(CpDeps(m)' \ Range(cporder'))
                           /\ m \in Range(cporder') \cup Range(cpqueue') <=> cpdegree'[m] = 0
    BY <1>13, <2>1, Zenon
  <2>5. ~CpUnsorted' BY <1>4 DEF CpUnsorted
  <2>6. QED BY <1>7, <1>12, <2>2, <2>3, <2>4, <2>5 DEF CpKahn
<1>16. CpAlong'
  <2>1. cpbuilt = <<>> /\ cpbuilt' = <<>> BY <1>1, <1>4 DEF CpAlong, CpOrdered
  <2>2. Len(cpbuilt') = 0 /\ Len(cporder') \in Nat BY <1>7, <2>1
  <2>3. QED BY <1>4, <2>1, <2>2 DEF CpAlong, CpOrdered
<1>17. CpHooks' BY <1>1, <1>4 DEF CpHooks
<1>18. QED BY <1>14, <1>15, <1>16, <1>17 DEF CapabilityIInv

\* The other steps of the planner, and those that build.
LEMMA CpPlanOk ==
  ASSUME CapabilityIInv,
         \/ CpSorted \/ CpBuilt \/ CpVerify
         \/ \E ok \in BOOLEAN : CpBuild(ok)
         \/ \E why \in {"Conflict", "Duplicate", "Missing"} : CpReject(why)
  PROVE  CapabilityIInv'
<1>1. CapabilityTypeOK /\ CpKahn /\ CpAlong /\ CpHooks BY DEF CapabilityIInv
<1>2. /\ cpgraph' = cpgraph /\ cpneeds' = cpneeds /\ cpdegree' = cpdegree /\ cpqueue' = cpqueue
      /\ cporder' = cporder /\ cphooks' = cphooks /\ cpstopped' = cpstopped
      /\ cpat \in {"plan", "sort", "build", "verify"}
  BY DEF CpSorted, CpBuilt, CpVerify, CpBuild, CpReject
<1>3. /\ cpat' \in {"plan", "sort", "build", "verify", "run"} \cup CpResults
      /\ cpat' \notin {"stop", "Ok", "EffectError"}
      /\ CpUnsorted' <=> CpUnsorted
  BY <1>2 DEF CpSorted, CpBuilt, CpVerify, CpBuild, CpReject, CpUnsorted, CpResults
<1>4. CpKahn' BY <1>2, <1>3, CpKahnStays
<1>5. CpHooks' BY <1>1, <1>2, <1>3 DEF CpHooks
<1>6. cpbuilt \in Seq(CpNodes) /\ cporder \in Seq(CpNodes) /\ CpCount \in Nat
  BY <1>1, CpFacts DEF CapabilityTypeOK
<1>7. CASE cpbuilt' = cpbuilt
  <2>1. CapabilityTypeOK' BY <1>1, <1>2, <1>3, <1>7 DEF CapabilityTypeOK
  <2>2. /\ CpOrdered' => CpOrdered \/ Len(cporder) = CpCount
        /\ ~CpOrdered' => ~CpOrdered
        /\ cpat' = "Cycle" => cpqueue = <<>> /\ Len(cporder) # CpCount
    BY <1>2 DEF CpSorted, CpBuilt, CpVerify, CpBuild, CpReject, CpOrdered
  <2>3. CpAlong' BY <1>1, <1>2, <1>7, <2>2 DEF CpAlong
  <2>4. QED BY <1>4, <1>5, <2>1, <2>3 DEF CapabilityIInv
<1>8. CASE cpbuilt' # cpbuilt
  <2>1. /\ cpat = "build" /\ cpat' = "build" /\ Len(cpbuilt) < CpCount
        /\ cpbuilt' = Append(cpbuilt, cporder[Len(cpbuilt) + 1])
    BY <1>8 DEF CpSorted, CpBuilt, CpVerify, CpBuild, CpReject
  <2>2. CpOrdered /\ CpOrdered' BY <2>1 DEF CpOrdered
  <2>3. Len(cporder) = CpCount /\ \A i \in 1..Len(cpbuilt) : cpbuilt[i] = cporder[i]
    BY <1>1, <2>2 DEF CpAlong
  <2>4. Len(cpbuilt) + 1 \in 1..Len(cporder) /\ cporder[Len(cpbuilt) + 1] \in CpNodes
    BY <1>6, <2>1, <2>3
  <2>5. /\ cpbuilt' \in Seq(CpNodes) /\ Len(cpbuilt') = Len(cpbuilt) + 1
        /\ cpbuilt'[Len(cpbuilt) + 1] = cporder[Len(cpbuilt) + 1]
        /\ \A i \in 1..Len(cpbuilt) : cpbuilt'[i] = cpbuilt[i]
    BY <1>6, <2>1, <2>4, AppendProperties
  <2>6. \A i \in 1..Len(cpbuilt') : cpbuilt'[i] = cporder[i]
    <3> SUFFICES ASSUME NEW i \in 1..Len(cpbuilt') PROVE cpbuilt'[i] = cporder[i] OBVIOUS
    <3>1. i \in 1..Len(cpbuilt) \/ i = Len(cpbuilt) + 1 BY <1>6, <2>5
    <3>2. QED BY <2>3, <2>5, <3>1
  <2>7. CapabilityTypeOK' BY <1>1, <1>2, <1>3, <2>5 DEF CapabilityTypeOK
  <2>8. CpAlong' BY <1>2, <1>6, <2>1, <2>2, <2>3, <2>4, <2>5, <2>6 DEF CpAlong
  <2>9. QED BY <1>4, <1>5, <2>7, <2>8 DEF CapabilityIInv
<1>9. QED BY <1>7, <1>8

\* The application, the hooks and the result.
LEMMA CpStopOk ==
  ASSUME CapabilityIInv,
         CpRun \/ CpStop \/ \E result \in {"Ok", "EffectError"} : CpReturn(result)
  PROVE  CapabilityIInv'
<1>1. CapabilityTypeOK /\ CpKahn /\ CpAlong /\ CpHooks BY DEF CapabilityIInv
<1>2. /\ cpgraph' = cpgraph /\ cpneeds' = cpneeds /\ cpdegree' = cpdegree /\ cpqueue' = cpqueue
      /\ cporder' = cporder /\ cpbuilt' = cpbuilt
      /\ cpat \in {"run", "stop"} /\ cpat' \in {"stop", "Ok", "EffectError"}
  BY DEF CpRun, CpStop, CpReturn
<1>3. (CpUnsorted' <=> CpUnsorted) /\ CpOrdered /\ CpOrdered' BY <1>2 DEF CpUnsorted, CpOrdered
<1>4. CpKahn' BY <1>2, <1>3, CpKahnStays
<1>5. CpAlong' BY <1>1, <1>2, <1>3 DEF CpAlong
<1>6. cphooks \in Seq(CpNodes) /\ cpstopped \in Seq(CpNodes) BY <1>1 DEF CapabilityTypeOK
<1>7. CASE CpRun
  <2>1. /\ cpat = "run" /\ cpat' = "stop" /\ cphooks' = Reverse([n \in CpNodes |-> n])
        /\ cpstopped' = cpstopped
    BY <1>7 DEF CpRun
  <2>2. cpstopped = <<>> BY <1>1, <2>1 DEF CpHooks
  <2>3. cphooks' \in Seq(CpNodes) BY <2>1, CpArguments
  <2>4. <<>> \o cphooks' = cphooks' BY <2>3, ConcatEmptySeq
  <2>5. cpstopped' \o cphooks' = Reverse([n \in CpNodes |-> n]) BY <2>1, <2>2, <2>4, Zenon
  <2>6. CpHooks' BY <2>1, <2>5 DEF CpHooks
  <2>7. CapabilityTypeOK' BY <1>1, <1>2, <2>1, <2>3 DEF CapabilityTypeOK
  <2>8. QED BY <1>4, <1>5, <2>6, <2>7 DEF CapabilityIInv
<1>8. CASE CpStop
  <2>1. /\ cpat = "stop" /\ cphooks # <<>> /\ cpat' = "stop"
        /\ cpstopped' = Append(cpstopped, Head(cphooks)) /\ cphooks' = Tail(cphooks)
    BY <1>8 DEF CpStop
  <2>2. Append(cpstopped, Head(cphooks)) \o Tail(cphooks) = cpstopped \o cphooks
    BY <1>6, <2>1, PartsMove
  <2>3. cpstopped' \o cphooks' = Reverse([n \in CpNodes |-> n]) BY <1>1, <2>1, <2>2, Zenon DEF CpHooks
  <2>4. CpHooks' BY <2>1, <2>3 DEF CpHooks
  <2>5. Head(cphooks) \in CpNodes /\ cphooks' \in Seq(CpNodes) BY <1>6, <2>1, HeadTailProperties
  <2>6. cpstopped' \in Seq(CpNodes) BY <1>6, <2>1, <2>5, AppendProperties
  <2>7. CapabilityTypeOK' BY <1>1, <1>2, <2>1, <2>5, <2>6 DEF CapabilityTypeOK
  <2>8. QED BY <1>4, <1>5, <2>4, <2>7 DEF CapabilityIInv
<1>9. CASE \E result \in {"Ok", "EffectError"} : CpReturn(result)
  <2>1. /\ cpat = "stop" /\ cphooks = <<>> /\ cpat' \in {"Ok", "EffectError"}
        /\ cpstopped' = cpstopped /\ cphooks' = cphooks
    BY <1>9 DEF CpReturn
  <2>2. cpstopped \o <<>> = cpstopped BY <1>6, ConcatEmptySeq
  <2>3. cpstopped' = Reverse([n \in CpNodes |-> n]) BY <1>1, <2>1, <2>2, Zenon DEF CpHooks
  <2>4. CpHooks' BY <2>1, <2>3 DEF CpHooks
  <2>5. CapabilityTypeOK' BY <1>1, <1>2, <2>1 DEF CapabilityTypeOK, CpResults
  <2>6. QED BY <1>4, <1>5, <2>4, <2>5 DEF CapabilityIInv
<1>10. QED BY <1>7, <1>8, <1>9

\* If the order holds every provider, no providers wait for one another: of those, the
\* first in the order would come after another of them.
LEMMA CpNoCycle == ASSUME CapabilityIInv, CpOrdered PROVE ~CpCyclic
<1>1. /\ cporder \in Seq(CpNodes) /\ IsInjective(cporder) /\ Len(cporder) = CpCount
      /\ \A i \in 1..Len(cporder) : CpDeps(cporder[i]) \subseteq {cporder[j] : j \in 1..i - 1}
  BY DEF CapabilityIInv, CapabilityTypeOK, CpKahn, CpAlong
<1>2. Range(cporder) = CpNodes BY <1>1, CpFacts, LenOnce
<1>3. SUFFICES ASSUME NEW S \in SUBSET CpNodes, S # {}, \A n \in S : CpDeps(n) \cap S # {}
               PROVE  FALSE
  BY DEF CpCyclic
<1>4. Len(cporder) \in Nat /\ DOMAIN cporder = 1..Len(cporder) BY <1>1
<1>5. PICK T \in SUBSET Nat : T = {i \in 1..Len(cporder) : cporder[i] \in S}
  <2>1. 1..Len(cporder) \subseteq Nat BY <1>4
  <2>2. QED BY <2>1, Zenon
<1>6. T # {} BY <1>2, <1>3, <1>4, <1>5 DEF Range
<1>7. PICK i \in T : \A k \in T : i <= k BY <1>6, LeastOf
<1>8. i \in 1..Len(cporder) /\ cporder[i] \in S BY <1>5
<1>9. PICK d : d \in CpDeps(cporder[i]) /\ d \in S BY <1>3, <1>8
<1>10. PICK j \in 1..i - 1 : d = cporder[j] BY <1>1, <1>8, <1>9
<1>11. j \in 1..Len(cporder) /\ j < i BY <1>4, <1>8
<1>12. j \in T BY <1>5, <1>9, <1>10, <1>11
<1>13. QED BY <1>4, <1>7, <1>8, <1>11, <1>12

\* If the queue runs dry, the providers that are left wait for one another.
LEMMA CpIsCycle == ASSUME CapabilityIInv, cpat = "Cycle" PROVE CpCyclic
<1>1. /\ cporder \in Seq(CpNodes) /\ IsInjective(cporder) /\ cpqueue = <<>> /\ Len(cporder) # CpCount
      /\ \A n \in CpNodes : /\ cpdegree[n] = Cardinality(CpDeps(n) \ Range(cporder))
                            /\ n \in Range(cporder) \cup Range(cpqueue) <=> cpdegree[n] = 0
  BY DEF CapabilityIInv, CapabilityTypeOK, CpKahn, CpAlong, CpUnsorted
<1>2. Range(cpqueue) = {} BY <1>1, EmptyLine, Zenon
<1>3. Range(cporder) # CpNodes /\ Range(cporder) \subseteq CpNodes
  <2>1. Len(cporder) # Cardinality(CpNodes) BY <1>1, CpFacts
  <2>2. QED BY <1>1, <2>1, CpFacts, LenOnce, RangeOf
<1>4. PICK S \in SUBSET CpNodes : S = CpNodes \ Range(cporder) OBVIOUS
<1>5. S # {} BY <1>3, <1>4
<1>6. ASSUME NEW n \in S PROVE CpDeps(n) \cap S # {}
  <2>1. cpdegree[n] # 0 BY <1>1, <1>2, <1>4
  <2>2. PICK A : A = CpDeps(n) \ Range(cporder) OBVIOUS
  <2>3. cpdegree[n] = Cardinality(A) BY <1>1, <2>2, Zenon
  <2>4. A # {} BY <2>1, <2>3, FS_EmptySet
  <2>5. CpDeps(n) \subseteq CpNodes BY CpFacts
  <2>6. QED BY <1>4, <2>2, <2>4, <2>5
<1>7. QED BY <1>5, <1>6 DEF CpCyclic

\* Whatever the graph and the order of the hash map, providers are built once and after
\* all they require, a plan is refused for a cycle exactly if there is one, and every
\* hook is called once if the application ran and none otherwise (planner.rs, plan_topological; run.rs, run_with).
THEOREM CapabilityInvariant == CapabilitySpec => []CapabilityInv
<1>1. CapabilityIInv /\ [CapabilityNext]_cpvars => CapabilityIInv'
  <2> SUFFICES ASSUME CapabilityIInv, [CapabilityNext]_cpvars PROVE CapabilityIInv' OBVIOUS
  <2>1. CASE UNCHANGED cpvars
    <3>1. /\ cpgraph' = cpgraph /\ cpneeds' = cpneeds /\ cpdegree' = cpdegree /\ cpqueue' = cpqueue
          /\ cporder' = cporder /\ cpbuilt' = cpbuilt /\ cpat' = cpat /\ cphooks' = cphooks
          /\ cpstopped' = cpstopped
      BY <2>1 DEF cpvars
    <3>2. (CpUnsorted' <=> CpUnsorted) /\ (CpOrdered' <=> CpOrdered) BY <3>1 DEF CpUnsorted, CpOrdered
    <3>3. CpKahn' BY <3>1, <3>2, CpKahnStays
    <3>4. QED BY <3>1, <3>2, <3>3 DEF CapabilityIInv, CapabilityTypeOK, CpAlong, CpHooks
  <2>2. QED BY <2>1, CpStartOk, CpShiftOk, CpPlanOk, CpStopOk DEF CapabilityNext
<1>2. CapabilityIInv => CapabilityInv
  <2> SUFFICES ASSUME CapabilityIInv PROVE CapabilityInv OBVIOUS
  <2>1. CapabilityTypeOK /\ CpKahn /\ CpAlong /\ CpHooks BY DEF CapabilityIInv
  <2>2. /\ cporder \in Seq(CpNodes) /\ cpbuilt \in Seq(CpNodes) /\ IsInjective(cporder)
        /\ Len(cpbuilt) <= Len(cporder) /\ \A i \in 1..Len(cpbuilt) : cpbuilt[i] = cporder[i]
        /\ \A i \in 1..Len(cporder) : CpDeps(cporder[i]) \subseteq {cporder[j] : j \in 1..i - 1}
    BY <2>1 DEF CapabilityTypeOK, CpKahn, CpAlong
  <2>3. /\ Len(cporder) \in Nat /\ Len(cpbuilt) \in Nat /\ DOMAIN cpbuilt = 1..Len(cpbuilt)
        /\ DOMAIN cporder = 1..Len(cporder) /\ \A i \in 1..Len(cpbuilt) : i \in 1..Len(cporder)
    BY <2>2
  <2>4. IsInjective(cpbuilt) BY <2>2, <2>3 DEF IsInjective
  <2>5. ASSUME NEW i \in 1..Len(cpbuilt)
        PROVE  CpDeps(cpbuilt[i]) \subseteq {cpbuilt[j] : j \in 1..i - 1}
    <3>1. CpDeps(cporder[i]) \subseteq {cporder[j] : j \in 1..i - 1} BY <2>2, <2>3
    <3>2. \A j \in 1..i - 1 : cpbuilt[j] = cporder[j]
      <4>1. \A j \in 1..i - 1 : j \in 1..Len(cpbuilt) BY <2>3
      <4>2. QED BY <2>2, <4>1
    <3>3. {cporder[j] : j \in 1..i - 1} = {cpbuilt[j] : j \in 1..i - 1} BY <3>2
    <3>4. cpbuilt[i] = cporder[i] BY <2>2
    <3>5. QED BY <3>1, <3>3, <3>4, Zenon
  <2>6. cpat = "Cycle" => CpCyclic BY CpIsCycle
  <2>7. cpbuilt # <<>> => ~CpCyclic BY <2>1, CpNoCycle DEF CpAlong
  <2>8. cpat \in CpResults \ {"Ok", "EffectError"} => cpstopped = <<>>
    BY <2>1 DEF CpHooks, CpResults
  <2>9. IsInjective(cpstopped) /\ (cpat \in {"Ok", "EffectError"} => Range(cpstopped) = CpNodes)
    <3>1. cpstopped \in Seq(CpNodes) /\ cphooks \in Seq(CpNodes) BY <2>1 DEF CapabilityTypeOK
    <3>2. CASE cpat = "stop"
      <4>1. IsInjective(cpstopped \o cphooks) BY <2>1, <3>2, CpArguments DEF CpHooks
      <4>2. PICK s \in Seq(CpNodes) : s = cpstopped \o cphooks BY <3>1, TwoParts
      <4>3. /\ Len(cpstopped) \in Nat /\ DOMAIN cpstopped = 1..Len(cpstopped) /\ DOMAIN s = 1..Len(s)
            /\ Len(s) \in Nat /\ Len(s) >= Len(cpstopped)
            /\ \A i \in 1..Len(cpstopped) : s[i] = cpstopped[i]
        BY <3>1, <4>2, TwoParts
      <4>4. \A i \in DOMAIN cpstopped : i \in DOMAIN s /\ s[i] = cpstopped[i] BY <4>3
      <4>5. QED BY <3>2, <4>1, <4>2, <4>4 DEF IsInjective
    <3>3. CASE cpat \in {"Ok", "EffectError"} BY <2>1, <3>3, CpArguments DEF CpHooks
    <3>4. CASE cpat \notin {"stop", "Ok", "EffectError"} BY <2>1, <3>4, EmptyLine, Zenon DEF CpHooks
    <3>5. QED BY <3>2, <3>3, <3>4
  <2>10. QED BY <2>1, <2>4, <2>5, <2>6, <2>7, <2>8, <2>9 DEF CapabilityInv
<1>3. QED BY <1>1, <1>2, CapabilityInitOk, PTL DEF CapabilitySpec

(***************************************************************************)
(* Scopes.                                                                 *)
(***************************************************************************)

\* The finalizers q are some of those stored in s, in the order in which they were
\* stored.
ScInOrder(q, s) ==
  /\ Range(q) \subseteq Range(stored[s])
  /\ \A i, j \in DOMAIN q, a, b \in DOMAIN stored[s] :
       i < j /\ stored[s][a] = q[i] /\ stored[s][b] = q[j] => a < b

\* No finalizer was stored in s after s was marked closed.
ScUndisturbed(s) == Range(stored[s]) \cap late = {}

\* What is known of a call of close_with_exit that is under way.
ScFrameOk(fr) ==
  LET s == fr.scope IN
  /\ closed[s] /\ ~latch[s]
  /\ fr.phase \notin {"snapshot", "children"} => fr.todo = <<>>
  /\ fr.phase # "snapshot" =>
       \A c \in Scopes : <<c, s>> \in owned => c \in Range(fr.todo) \/ closed[c] \/ c \notin made
  /\ fr.phase # "run" => Range(stored[s]) \cap Range(ran) = {} /\ bucket[s] = stored[s]
  /\ fr.phase \in {"snapshot", "children", "drain"} /\ ScUndisturbed(s) =>
       Range(stored[s]) \cap emptied = {}
  /\ fr.phase \in {"commit", "run"} => ScInOrder(fr.fins, s)
  /\ fr.phase = "commit" /\ ScUndisturbed(s) =>
       Range(stored[s]) \subseteq Range(fr.fins) /\ fr.ver = bver[s]
  /\ fr.phase = "run" =>
       \A i \in DOMAIN fr.fins, j \in DOMAIN ran, a, b \in DOMAIN stored[s] :
          stored[s][a] = fr.fins[i] /\ stored[s][b] = ran[j] => a < b
  /\ fr.phase = "run" /\ ScUndisturbed(s) =>
       Range(stored[s]) \subseteq Range(fr.fins) \cup Range(ran)

ScSound == {fr \in Frames : ScFrameOk(fr)}

\* A scope is closed by one call, of which the above is known.
ScFrames ==
  /\ \A t, u \in Callers : \A i \in DOMAIN stack[t], j \in DOMAIN stack[u] :
       stack[t][i].scope = stack[u][j].scope => t = u /\ i = j
  /\ \A t \in Callers : \A i \in DOMAIN stack[t] : stack[t][i] \in ScSound

\* A finalizer is added by one call to one scope; what was taken or has run was added.
ScAdded ==
  /\ \A s \in Scopes : IsInjective(stored[s])
  /\ \A s, r \in Scopes : s # r => Range(stored[s]) \cap Range(stored[r]) = {}
  /\ \A s \in Scopes : \A f \in Range(stored[s]) : fate[f] = "added"
  /\ \A f \in emptied \cup late \cup Range(ran) : fate[f] = "added"
  /\ \A t \in Callers : call[t].op = "add" => fate[call[t].fin] = "adding"
  /\ \A t, u \in Callers :
       call[t].op = "add" /\ call[u].op = "add" /\ call[t].fin = call[u].fin => t = u

\* FinalizersLifo by positions.
ScLifo ==
  /\ IsInjective(ran)
  /\ \A i, j \in DOMAIN ran, s \in Scopes : \A a, b \in DOMAIN stored[s] :
       i < j /\ stored[s][a] = ran[i] /\ stored[s][b] = ran[j] => a > b

\* An open scope has all its finalizers, and the latch of a closed one says that the
\* close is over.
ScOpen ==
  \A s \in Scopes :
     /\ ~closed[s] => /\ bucket[s] = stored[s]
                      /\ Range(stored[s]) \cap (emptied \cup late \cup Range(ran)) = {}
     /\ latch[s] => closed[s] /\ (ScUndisturbed(s) => Range(stored[s]) \subseteq Range(ran))

\* A child is in the list of its owner, and made or about to be made.
ScOwned ==
  /\ \A c, s \in Scopes : <<c, s>> \in owned =>
       /\ c \in Range(children[s])
       /\ c \in made \/ \E t \in Callers : call[t].op = "fork" /\ call[t].child = c
  /\ \A t \in Callers : call[t].op = "fork" =>
       /\ call[t].child \notin made
       /\ \A s \in Scopes : <<call[t].child, s>> \in owned => s = call[t].scope
  /\ \A t, u \in Callers :
       call[t].op = "fork" /\ call[u].op = "fork" /\ call[t].child = call[u].child => t = u
  /\ \A t \in Callers : call[t].op = "extend" => call[t].child \in made

\* The inductive invariant.
ScopeIInv == ScopeTypeOK /\ ScFrames /\ ScAdded /\ ScLifo /\ ScOpen /\ ScOwned

\* The frame on top, and the types of what is in a frame.
LEMMA ScTop ==
  ASSUME ScopeTypeOK, NEW t \in Callers, stack[t] # <<>>
  PROVE  /\ stack[t] \in Seq(Frames) /\ 1 \in DOMAIN stack[t] /\ Top(t) = stack[t][1]
         /\ Top(t) \in Frames /\ Top(t).scope \in Scopes /\ Top(t).todo \in Seq(Scopes)
         /\ Top(t).fins \in Seq(Fins) /\ Top(t).phase \in Phases
<1>1. stack[t] \in Seq(Frames) BY DEF ScopeTypeOK
<1>2. /\ 1 \in DOMAIN stack[t] /\ Top(t) = stack[t][1] /\ Top(t) \in Frames
  BY <1>1, PoppedSeq DEF Top
<1>3. QED BY <1>1, <1>2 DEF Frames

\* The stack of t after its top frame has moved on, in the same scope.
LEMMA ScBecome ==
  ASSUME ScopeTypeOK, NEW t \in Callers, stack[t] # <<>>, NEW f \in Frames, Become(t, f)
  PROVE  /\ stack' \in [Callers -> Seq(Frames)]
         /\ \A u \in Callers \ {t} : stack'[u] = stack[u]
         /\ DOMAIN stack'[t] = DOMAIN stack[t] /\ stack'[t][1] = f
         /\ \A i \in DOMAIN stack[t] \ {1} : stack'[t][i] = stack[t][i]
<1>1. stack \in [Callers -> Seq(Frames)] BY DEF ScopeTypeOK
<1>2. PICK rest \in Seq(Frames) : rest = Tail(stack[t]) BY <1>1, PoppedSeq
<1>3. /\ Len(rest) = Len(stack[t]) - 1 /\ Len(stack[t]) \in Nat \ {0}
      /\ DOMAIN stack[t] = 1..Len(stack[t])
      /\ \A i \in 1..Len(stack[t]) - 1 : rest[i] = stack[t][i + 1]
  BY <1>1, <1>2, PoppedSeq
<1>4. stack' = [stack EXCEPT ![t] = <<f>> \o rest] BY <1>2 DEF Become
<1>5. /\ <<f>> \o rest \in Seq(Frames) /\ (<<f>> \o rest)[1] = f
      /\ DOMAIN (<<f>> \o rest) = 1..Len(rest) + 1
      /\ \A i \in 1..Len(rest) : (<<f>> \o rest)[i + 1] = rest[i]
  BY PushedSeq
<1>6. /\ stack' \in [Callers -> Seq(Frames)] /\ stack'[t] = <<f>> \o rest
      /\ \A u \in Callers \ {t} : stack'[u] = stack[u]
  BY <1>1, <1>4, <1>5
<1>7. DOMAIN stack'[t] = DOMAIN stack[t] /\ stack'[t][1] = f BY <1>3, <1>5, <1>6
<1>8. ASSUME NEW i \in DOMAIN stack[t] \ {1} PROVE stack'[t][i] = stack[t][i]
  <2>1. i - 1 \in 1..Len(stack[t]) - 1 /\ (i - 1) + 1 = i BY <1>3
  <2>2. QED BY <1>3, <1>5, <1>6, <2>1
<1>9. QED BY <1>6, <1>7, <1>8

\* Frames of other scopes stay sound, and so does the top one: the frames are.
LEMMA ScMove ==
  ASSUME ScopeIInv, NEW t \in Callers, stack[t] # <<>>, NEW f \in Frames, Become(t, f),
         f.scope = Top(t).scope, f \in ScSound',
         \A fr \in ScSound : fr.scope # f.scope => fr \in ScSound'
  PROVE  stack' \in [Callers -> Seq(Frames)] /\ ScFrames'
<1>1. ScopeTypeOK /\ ScFrames BY DEF ScopeIInv
<1>2. /\ stack' \in [Callers -> Seq(Frames)]
      /\ \A u \in Callers \ {t} : stack'[u] = stack[u]
      /\ DOMAIN stack'[t] = DOMAIN stack[t] /\ stack'[t][1] = f
      /\ \A i \in DOMAIN stack[t] \ {1} : stack'[t][i] = stack[t][i]
  BY <1>1, ScBecome
<1>3. 1 \in DOMAIN stack[t] /\ stack[t][1].scope = f.scope BY <1>1, ScTop
<1>4. \A u \in Callers : DOMAIN stack'[u] = DOMAIN stack[u] BY <1>2
<1>5. \A u \in Callers : \A i \in DOMAIN stack[u] : stack'[u][i].scope = stack[u][i].scope
  BY <1>2, <1>3
<1>6. \A u, v \in Callers : \A i \in DOMAIN stack[u], j \in DOMAIN stack[v] :
        stack[u][i].scope = stack[v][j].scope => u = v /\ i = j
  BY <1>1 DEF ScFrames
<1>7. \A u, v \in Callers : \A i \in DOMAIN stack'[u], j \in DOMAIN stack'[v] :
        stack'[u][i].scope = stack'[v][j].scope => u = v /\ i = j
  BY <1>4, <1>5, <1>6
<1>8. ASSUME NEW u \in Callers, NEW i \in DOMAIN stack'[u] PROVE stack'[u][i] \in ScSound'
  <2>1. CASE u = t /\ i = 1 BY <1>2, <2>1
  <2>2. CASE ~(u = t /\ i = 1)
    <3>1. i \in DOMAIN stack[u] /\ stack'[u][i] = stack[u][i] BY <1>2, <1>4, <2>2
    <3>2. stack[u][i] \in ScSound BY <1>1, <3>1 DEF ScFrames
    <3>3. stack[u][i].scope # f.scope BY <1>3, <1>6, <2>2, <3>1
    <3>4. QED BY <3>1, <3>2, <3>3
  <2>3. QED BY <2>1, <2>2
<1>9. ScFrames' BY <1>7, <1>8 DEF ScFrames
<1>10. QED BY <1>2, <1>9

\* A step that leaves the stacks alone.
LEMMA ScRests ==
  ASSUME ScopeIInv, UNCHANGED stack, \A fr \in ScSound : fr \in ScSound'
  PROVE  ScFrames'
BY DEF ScopeIInv, ScFrames

\* A step that leaves flags and finalizers alone keeps what is said of them, and the
\* frames are sound if the children of closed scopes are.
LEMMA ScQuiet ==
  ASSUME ScopeIInv, UNCHANGED <<closed, bucket, bver, emptied, latch, late, stored, ran>>,
         \A c, s \in Scopes : closed[s] /\ <<c, s>> \in owned' =>
            (<<c, s>> \in owned /\ (c \in made' => c \in made)) \/ closed[c] \/ c \notin made'
  PROVE  ScLifo' /\ ScOpen' /\ \A fr \in ScSound : fr \in ScSound'
<1>1. ScLifo' /\ ScOpen' BY DEF ScopeIInv, ScLifo, ScOpen, ScUndisturbed
<1>2. ASSUME NEW fr \in ScSound PROVE fr \in ScSound'
  <2>1. fr \in Frames /\ fr.scope \in Scopes BY DEF ScSound, Frames
  <2>2. \A c \in Scopes : fr.phase # "snapshot" /\ <<c, fr.scope>> \in owned' =>
          c \in Range(fr.todo) \/ closed[c] \/ c \notin made'
    <3>1. closed[fr.scope] /\ (fr.phase # "snapshot" =>
             \A c \in Scopes : <<c, fr.scope>> \in owned =>
                c \in Range(fr.todo) \/ closed[c] \/ c \notin made)
      BY DEF ScSound, ScFrameOk
    <3>2. QED BY <2>1, <3>1
  <2>3. QED BY <2>1, <2>2 DEF ScSound, ScFrameOk, ScInOrder, ScUndisturbed
<1>3. QED BY <1>1, <1>2

\* The beginning of close_with_exit(c) by t, whose frames st are those it had before or
\* the same scopes further on: either the flag was set, or a frame for c is on top.
LEMMA ScEnter ==
  ASSUME ScopeIInv, NEW t \in Callers, NEW c \in Scopes, NEW st \in Seq(Frames),
         DOMAIN st = DOMAIN stack[t],
         \A i \in DOMAIN st : st[i].scope = stack[t][i].scope,
         \A i \in DOMAIN st : st[i] \in ScSound',
         EnterClose(t, c, st),
         UNCHANGED <<made, parent, children, bucket, bver, emptied, latch, call, fate, owned,
                     late, stored, ran>>
  PROVE  ScopeIInv'
<1>1. /\ ScopeTypeOK /\ ScFrames /\ ScAdded /\ ScLifo /\ ScOpen /\ ScOwned
      /\ closed \in [Scopes -> BOOLEAN] /\ stack \in [Callers -> Seq(Frames)]
  BY DEF ScopeIInv, ScopeTypeOK
<1>2. /\ closed' \in [Scopes -> BOOLEAN] /\ closed'[c]
      /\ \A s \in Scopes : closed[s] => closed'[s]
      /\ \A s \in Scopes : closed'[s] => closed[s] \/ s = c
  BY <1>1 DEF EnterClose
<1>3. \A u \in Callers \ {t} : stack'[u] = stack[u] BY <1>1 DEF EnterClose
<1>4. ASSUME NEW fr \in ScSound PROVE fr \in ScSound'
  <2>1. fr \in Frames /\ fr.scope \in Scopes BY DEF ScSound, Frames
  <2>2. QED BY <1>2, <2>1 DEF ScSound, ScFrameOk, ScInOrder, ScUndisturbed
<1>5. ScAdded' /\ ScLifo' /\ ScOwned'
  <2>1. ScAdded' BY <1>1 DEF ScAdded
  <2>2. ScLifo' BY <1>1 DEF ScLifo
  <2>3. ScOwned' BY <1>1 DEF ScOwned
  <2>4. QED BY <2>1, <2>2, <2>3
<1>6. ScOpen' BY <1>1, <1>2 DEF ScOpen, ScUndisturbed
<1>7. \A u \in Callers : \A i \in DOMAIN stack[u] : stack[u][i] \in ScSound
  BY <1>1 DEF ScFrames
<1>8. \A u, v \in Callers : \A i \in DOMAIN stack[u], j \in DOMAIN stack[v] :
        stack[u][i].scope = stack[v][j].scope => u = v /\ i = j
  BY <1>1 DEF ScFrames
<1>9. CASE closed[c]
  <2>1. stack'[t] = st /\ stack' \in [Callers -> Seq(Frames)] BY <1>1, <1>9 DEF EnterClose
  <2>2. ASSUME NEW u \in Callers, NEW i \in DOMAIN stack'[u]
        PROVE  /\ i \in DOMAIN stack[u] /\ stack'[u][i].scope = stack[u][i].scope
               /\ stack'[u][i] \in ScSound'
    <3>1. CASE u = t BY <2>1, <3>1
    <3>2. CASE u # t BY <1>3, <1>4, <1>7, <3>2
    <3>3. QED BY <3>1, <3>2
  <2>3. ScFrames' BY <1>8, <2>2 DEF ScFrames
  <2>4. ScopeTypeOK' BY <1>1, <1>2, <2>1 DEF ScopeTypeOK
  <2>5. QED BY <1>5, <1>6, <2>3, <2>4 DEF ScopeIInv
<1>10. CASE ~closed[c]
  <2>1. Frame(c) \in Frames /\ Frame(c).scope = c /\ Frame(c).phase = "snapshot"
    BY DEF Frame, Frames, Phases
  <2>2. stack'[t] = <<Frame(c)>> \o st BY <1>1, <1>10 DEF EnterClose
  <2>3. /\ stack'[t] \in Seq(Frames) /\ stack'[t][1] = Frame(c)
        /\ DOMAIN stack'[t] = 1..Len(st) + 1 /\ DOMAIN stack[t] = 1..Len(st) /\ Len(st) \in Nat
        /\ \A i \in 1..Len(st) : stack'[t][i + 1] = st[i]
    BY <2>1, <2>2, PushedSeq
  <2>4. stack' \in [Callers -> Seq(Frames)] BY <1>1, <1>10, <2>2, <2>3 DEF EnterClose
  <2>5. Frame(c) \in ScSound'
    <3>1. PICK fr \in Frames : fr = Frame(c) BY <2>1
    <3>2. /\ ~latch[c] /\ bucket[c] = stored[c]
          /\ Range(stored[c]) \cap (emptied \cup late \cup Range(ran)) = {}
      BY <1>1, <1>10 DEF ScOpen
    <3>3. fr.scope = c /\ fr.phase = "snapshot" BY <2>1, <3>1
    <3>4. fr \in ScSound' BY <1>2, <3>2, <3>3 DEF ScSound, ScFrameOk, ScUndisturbed
    <3>5. QED BY <3>1, <3>4 DEF Frame
  <2>6. \A u \in Callers : \A i \in DOMAIN stack[u] : stack[u][i].scope # c
    <3>1. \A fr \in ScSound : closed[fr.scope] BY DEF ScSound, ScFrameOk
    <3>2. QED BY <1>7, <1>10, <3>1
  <2>7. ASSUME NEW i \in DOMAIN stack'[t]
        PROVE  \/ i = 1 /\ stack'[t][i] = Frame(c)
               \/ /\ i - 1 \in DOMAIN stack[t] /\ stack'[t][i].scope = stack[t][i - 1].scope
                  /\ stack'[t][i] \in ScSound'
    <3>1. CASE i = 1 BY <2>3, <3>1
    <3>2. CASE i # 1
      <4>1. i - 1 \in 1..Len(st) /\ (i - 1) + 1 = i BY <2>3, <3>2
      <4>2. stack'[t][i] = st[i - 1] /\ i - 1 \in DOMAIN st BY <2>3, <4>1
      <4>3. QED BY <4>1, <4>2, <2>3
    <3>3. QED BY <3>1, <3>2
  <2>8. ASSUME NEW u \in Callers, NEW i \in DOMAIN stack'[u] PROVE stack'[u][i] \in ScSound'
    <3>1. CASE u = t BY <2>5, <2>7, <3>1
    <3>2. CASE u # t BY <1>3, <1>4, <1>7, <3>2
    <3>3. QED BY <3>1, <3>2
  <2>9. ASSUME NEW u \in Callers, NEW v \in Callers, NEW i \in DOMAIN stack'[u],
               NEW j \in DOMAIN stack'[v], stack'[u][i].scope = stack'[v][j].scope
        PROVE  u = v /\ i = j
    <3>1. i \in Nat /\ j \in Nat
      <4>1. stack'[u] \in Seq(Frames) /\ stack'[v] \in Seq(Frames) BY <2>4
      <4>2. QED BY <4>1
    <3>2. CASE u = t /\ v = t
      <4>1. \/ i = 1 /\ stack'[t][i].scope = c
           \/ (i - 1 \in DOMAIN stack[t] /\ stack'[t][i].scope = stack[t][i - 1].scope)
        BY <2>1, <2>7, <3>2
      <4>2. \/ j = 1 /\ stack'[t][j].scope = c
           \/ (j - 1 \in DOMAIN stack[t] /\ stack'[t][j].scope = stack[t][j - 1].scope)
        BY <2>1, <2>7, <3>2
      <4>3. stack'[t][i].scope = stack'[t][j].scope BY <2>9, <3>2
      <4>4. (i = 1 /\ j = 1) \/ i - 1 = j - 1 BY <1>8, <2>6, <4>1, <4>2, <4>3
      <4>5. QED BY <3>1, <3>2, <4>4
    <3>3. CASE u = t /\ v # t BY <1>3, <1>8, <2>1, <2>6, <2>7, <2>9, <3>3
    <3>4. CASE u # t /\ v = t BY <1>3, <1>8, <2>1, <2>6, <2>7, <2>9, <3>4
    <3>5. CASE u # t /\ v # t BY <1>3, <1>8, <2>9, <3>5
    <3>6. QED BY <3>2, <3>3, <3>4, <3>5
  <2>10. ScFrames' BY <2>8, <2>9 DEF ScFrames
  <2>11. ScopeTypeOK' BY <1>1, <1>2, <2>4 DEF ScopeTypeOK
  <2>12. QED BY <1>5, <1>6, <2>10, <2>11 DEF ScopeIInv
<1>11. QED BY <1>9, <1>10

\* close is called, and the next child is closed.
LEMMA ScCloseOk ==
  ASSUME ScopeIInv, NEW t \in Callers,
         (\E s \in Scopes : Close(t, s)) \/ CloseChild(t)
  PROVE  ScopeIInv'
<1>1. ScopeTypeOK /\ ScFrames /\ closed \in [Scopes -> BOOLEAN] BY DEF ScopeIInv, ScopeTypeOK
<1>2. ASSUME NEW s \in Scopes, Close(t, s) PROVE ScopeIInv'
  <2>a. <<>> \in Seq(Frames) OBVIOUS
  <2>1. PICK st \in Seq(Frames) : st = <<>> BY <2>a, Zenon
  <2>2. stack[t] = st /\ DOMAIN st = {} BY <1>2, <2>1 DEF Close, Free
  <2>3. EnterClose(t, s, st) BY <1>2, <2>1 DEF Close
  <2>4. QED BY <1>2, <2>2, <2>3, ScEnter DEF Close
<1>3. CASE CloseChild(t)
  <2>1. stack[t] # <<>> /\ Top(t).phase = "children" /\ Top(t).todo # <<>>
    BY <1>3 DEF CloseChild, At
  <2>2. /\ stack[t] \in Seq(Frames) /\ 1 \in DOMAIN stack[t] /\ Top(t) = stack[t][1]
        /\ Top(t) \in Frames /\ Top(t).todo \in Seq(Scopes) /\ Top(t).scope \in Scopes
    BY <1>1, <2>1, ScTop
  <2>3. PICK todo \in Seq(Scopes) : todo = Top(t).todo BY <2>2
  <2>4. PICK c \in Scopes : c = Head(todo) BY <2>1, <2>3
  <2>a. Tail(todo) \in Seq(Scopes) BY <2>1, <2>3, PoppedSeq
  <2>5. PICK more \in Seq(Scopes) : more = Tail(todo) BY <2>a, Zenon
  <2>6. Range(todo) \subseteq Range(more) \cup {c}
    <3>1. /\ DOMAIN todo = 1..Len(todo) /\ Len(todo) \in Nat /\ DOMAIN more = 1..Len(todo) - 1
          /\ c = todo[1] /\ \A i \in 1..Len(todo) - 1 : more[i] = todo[i + 1]
      BY <2>1, <2>3, <2>4, <2>5, PoppedSeq
    <3>2. \A i \in DOMAIN todo : i = 1 \/ (i - 1 \in DOMAIN more /\ more[i - 1] = todo[i])
      <4> SUFFICES ASSUME NEW i \in DOMAIN todo, i # 1
                   PROVE  i - 1 \in DOMAIN more /\ more[i - 1] = todo[i]
        OBVIOUS
      <4>1. i - 1 \in 1..Len(todo) - 1 /\ (i - 1) + 1 = i BY <3>1
      <4>2. QED BY <3>1, <4>1
    <3>3. QED BY <3>1, <3>2 DEF Range
  <2>7. PICK f \in Frames : f = [Top(t) EXCEPT !.todo = Tail(@)]
    <3>1. [Top(t) EXCEPT !.todo = more] \in Frames BY <2>2 DEF Frames
    <3>2. QED BY <2>3, <2>5, <3>1
  <2>8. /\ f.scope = Top(t).scope /\ f.phase = "children" /\ f.todo = more
    BY <2>1, <2>2, <2>3, <2>5, <2>7 DEF Frames
  <2>9. PICK rest \in Seq(Frames) : rest = Tail(stack[t]) BY <2>1, <2>2, PoppedSeq
  <2>10. PICK st \in Seq(Frames) : st = <<f>> \o rest BY <2>9, PushedSeq
  <2>11. /\ DOMAIN st = DOMAIN stack[t] /\ st[1] = f
         /\ \A i \in DOMAIN stack[t] \ {1} : st[i] = stack[t][i]
    <3>1. /\ Len(rest) = Len(stack[t]) - 1 /\ Len(stack[t]) \in Nat \ {0}
          /\ DOMAIN stack[t] = 1..Len(stack[t])
          /\ \A i \in 1..Len(stack[t]) - 1 : rest[i] = stack[t][i + 1]
      BY <2>1, <2>2, <2>9, PoppedSeq
    <3>2. /\ st[1] = f /\ DOMAIN st = 1..Len(rest) + 1
          /\ \A i \in 1..Len(rest) : st[i + 1] = rest[i]
      BY <2>10, PushedSeq
    <3>3. ASSUME NEW i \in DOMAIN stack[t] \ {1} PROVE st[i] = stack[t][i]
      <4>1. i - 1 \in 1..Len(stack[t]) - 1 /\ (i - 1) + 1 = i BY <3>1
      <4>2. QED BY <3>1, <3>2, <4>1
    <3>4. QED BY <3>1, <3>2, <3>3
  <2>12. EnterClose(t, c, st) BY <1>3, <2>3, <2>4, <2>7, <2>9, <2>10 DEF CloseChild
  <2>13. /\ closed'[c] /\ \A s \in Scopes : closed[s] => closed'[s]
    BY <1>1, <2>12 DEF EnterClose
  <2>14. UNCHANGED <<made, parent, children, bucket, bver, emptied, latch, call, fate, owned,
                     late, stored, ran>>
    BY <1>3 DEF CloseChild
  <2>15. ASSUME NEW fr \in ScSound PROVE fr \in ScSound'
    <3>1. fr \in Frames /\ fr.scope \in Scopes BY DEF ScSound, Frames
    <3>2. QED BY <2>13, <2>14, <3>1 DEF ScSound, ScFrameOk, ScInOrder, ScUndisturbed
  <2>16. f \in ScSound'
    <3>1. PICK fr \in ScSound : fr = Top(t) BY <1>1, <2>2 DEF ScFrames
    <3>2. fr.scope = f.scope /\ fr.phase = "children" /\ fr.todo = todo /\ fr.scope \in Scopes
      BY <2>1, <2>2, <2>3, <2>8, <3>1
    <3>3. ScFrameOk(fr) BY DEF ScSound
    <3>4. \A k \in Scopes : <<k, f.scope>> \in owned => k \in Range(f.todo) \/ closed'[k] \/ k \notin made
      BY <2>6, <2>8, <2>13, <3>2, <3>3 DEF ScFrameOk
    <3>5. QED BY <2>8, <2>13, <2>14, <3>2, <3>3, <3>4 DEF ScSound, ScFrameOk, ScInOrder, ScUndisturbed
  <2>17. \A i \in DOMAIN st : st[i].scope = stack[t][i].scope /\ st[i] \in ScSound'
    <3>1. \A i \in DOMAIN stack[t] : stack[t][i] \in ScSound BY <1>1 DEF ScFrames
    <3>2. QED BY <2>2, <2>8, <2>11, <2>15, <2>16, <3>1
  <2>18. QED BY <2>11, <2>12, <2>14, <2>17, ScEnter
<1>4. QED BY <1>2, <1>3

\* The call a thread is executing is sound.
LEMMA ScTopSound ==
  ASSUME ScopeIInv, NEW t \in Callers, stack[t] # <<>>
  PROVE  /\ ScopeTypeOK /\ Top(t) \in ScSound /\ Top(t) \in Frames /\ Top(t).scope \in Scopes
         /\ Top(t).fins \in Seq(Fins) /\ Top(t).todo \in Seq(Scopes) /\ closed[Top(t).scope]
<1>1. ScopeTypeOK /\ ScFrames BY DEF ScopeIInv
<1>2. /\ 1 \in DOMAIN stack[t] /\ Top(t) = stack[t][1] /\ Top(t) \in Frames
      /\ Top(t).scope \in Scopes /\ Top(t).fins \in Seq(Fins) /\ Top(t).todo \in Seq(Scopes)
  BY <1>1, ScTop
<1>3. Top(t) \in ScSound BY <1>1, <1>2 DEF ScFrames
<1>4. closed[Top(t).scope] BY <1>3 DEF ScSound, ScFrameOk
<1>5. QED BY <1>1, <1>2, <1>3, <1>4

\* A step of the close that changes no more than the top frame.
LEMMA ScWalk ==
  ASSUME ScopeIInv, NEW t \in Callers, stack[t] # <<>>, NEW f \in ScSound, Become(t, f),
         f.scope = Top(t).scope,
         UNCHANGED <<made, closed, parent, children, bucket, bver, emptied, latch, call, fate,
                     owned, late, stored, ran>>
  PROVE  ScopeIInv'
<1>1. ScopeTypeOK /\ ScAdded /\ ScLifo /\ ScOpen /\ ScOwned BY DEF ScopeIInv
<1>2. \A fr \in ScSound : fr \in ScSound'
  BY DEF ScSound, ScFrameOk, ScInOrder, ScUndisturbed
<1>3. f \in Frames BY DEF ScSound
<1>4. stack' \in [Callers -> Seq(Frames)] /\ ScFrames' BY <1>2, <1>3, ScMove
<1>5. ScopeTypeOK' BY <1>1, <1>4 DEF ScopeTypeOK
<1>6. ScAdded' BY <1>1 DEF ScAdded
<1>7. ScLifo' BY <1>1 DEF ScLifo
<1>8. ScOwned' BY <1>1 DEF ScOwned
<1>9. ScOpen' BY <1>1 DEF ScOpen, ScUndisturbed
<1>10. QED BY <1>4, <1>5, <1>6, <1>7, <1>8, <1>9 DEF ScopeIInv

\* The children are copied, and all of the copy are closed.
LEMMA ScWalkOk ==
  ASSUME ScopeIInv, NEW t \in Callers, Snapshot(t) \/ ChildrenClosed(t)
  PROVE  ScopeIInv'
<1>1. stack[t] # <<>> BY DEF Snapshot, ChildrenClosed, At
<1>2. PICK top \in ScSound : top = Top(t) BY <1>1, ScTopSound
<1>3. /\ ScopeTypeOK /\ top \in Frames /\ top.scope \in Scopes /\ ScOwned /\ ScFrameOk(top)
  BY <1>1, <1>2, ScTopSound DEF ScopeIInv, ScSound
<1>4. CASE Snapshot(t)
  <2>1. PICK kids \in Seq(Scopes) : kids = children[top.scope] BY <1>3 DEF ScopeTypeOK
  <2>2. PICK f : f = [top EXCEPT !.phase = "children", !.todo = kids] OBVIOUS
  <2>3. f \in Frames /\ f.scope = top.scope /\ f.phase = "children" /\ f.todo = kids
    BY <1>3, <2>1, <2>2 DEF Frames, Phases
  <2>4. top.phase = "snapshot" BY <1>2, <1>4 DEF Snapshot, At
  <2>5. \A c \in Scopes : <<c, f.scope>> \in owned => c \in Range(f.todo)
    BY <1>3, <2>1, <2>3 DEF ScOwned
  <2>6. f \in ScSound BY <1>3, <2>3, <2>4, <2>5 DEF ScSound, ScFrameOk
  <2>7. Become(t, f) BY <1>2, <1>4, <2>1, <2>2 DEF Snapshot
  <2>8. QED BY <1>1, <1>2, <1>4, <2>3, <2>6, <2>7, ScWalk DEF Snapshot
<1>5. CASE ChildrenClosed(t)
  <2>1. PICK f : f = [top EXCEPT !.phase = "drain"] OBVIOUS
  <2>2. f \in Frames /\ f.scope = top.scope /\ f.phase = "drain" /\ f.todo = top.todo
    BY <1>3, <2>1 DEF Frames, Phases
  <2>3. top.phase = "children" /\ top.todo = <<>> BY <1>2, <1>5 DEF ChildrenClosed, At
  <2>4. f \in ScSound BY <1>3, <2>2, <2>3 DEF ScSound, ScFrameOk
  <2>5. Become(t, f) BY <1>2, <1>5, <2>1 DEF ChildrenClosed
  <2>6. QED BY <1>1, <1>2, <1>5, <2>2, <2>4, <2>5, ScWalk DEF ChildrenClosed
<1>6. QED BY <1>4, <1>5

\* What the cells of the bucket of s still hold.
LEMMA ScHeld ==
  ASSUME ScopeIInv, NEW s \in Scopes, NEW q \in Held(stored[s])
  PROVE  q \in Seq(Fins) /\ Range(q) = Range(stored[s]) \ emptied /\ ScInOrder(q, s)
<1>1. stored[s] \in Seq(Fins) /\ IsInjective(stored[s]) BY DEF ScopeIInv, ScopeTypeOK, ScAdded
<1>2. /\ Range(stored[s]) \subseteq Fins /\ ToSet(stored[s]) = Range(stored[s])
      /\ DOMAIN stored[s] = 1..Len(stored[s]) /\ Len(stored[s]) \in Nat
  BY <1>1, RangeOf
<1>3. IsFiniteSet(Range(stored[s]))
  <2>a. PICK n \in Int : n = Len(stored[s]) BY <1>2
  <2>b. IsFiniteSet(1..n) BY FS_Interval
  <2>1. IsFiniteSet(1..Len(stored[s])) BY <2>a, <2>b
  <2>2. stored[s] \in Surjection(1..Len(stored[s]), Range(stored[s]))
    BY <1>1, <1>2 DEF Surjection, Range
  <2>3. QED BY <2>1, <2>2, FS_Surjection
<1>4. PICK T : T = Range(stored[s]) \ emptied OBVIOUS
<1>5. T \in SUBSET Fins /\ IsFiniteSet(T) BY <1>2, <1>3, <1>4, FS_Subset
<1>6. q \in SetToSeqs(T) BY <1>2, <1>4 DEF Held
<1>7. q \in Seq(Fins) /\ Range(q) = T BY <1>5, <1>6, SeqsOnce
<1>8. \A i, j \in DOMAIN q : i < j =>
         \E a, b \in DOMAIN stored[s] : a < b /\ stored[s][a] = q[i] /\ stored[s][b] = q[j]
  BY DEF Held
<1>9. \A a, b \in DOMAIN stored[s] : stored[s][a] = stored[s][b] => a = b
  BY <1>1 DEF IsInjective
<1>10. ScInOrder(q, s)
  <2>1. ASSUME NEW i \in DOMAIN q, NEW j \in DOMAIN q, NEW a \in DOMAIN stored[s],
               NEW b \in DOMAIN stored[s], i < j, stored[s][a] = q[i], stored[s][b] = q[j]
        PROVE  a < b
    <3>1. PICK k \in DOMAIN stored[s], l \in DOMAIN stored[s] :
             k < l /\ stored[s][k] = q[i] /\ stored[s][l] = q[j]
      BY <1>8, <2>1
    <3>2. k = a /\ l = b BY <1>9, <2>1, <3>1
    <3>3. QED BY <3>1, <3>2
  <2>2. QED BY <1>4, <1>7, <2>1 DEF ScInOrder
<1>11. QED BY <1>4, <1>7, <1>10

\* The body of the drain.
LEMMA ScDrainBodyOk ==
  ASSUME ScopeIInv, NEW t \in Callers, DrainBody(t)
  PROVE  ScopeIInv'
<1>1. stack[t] # <<>> BY DEF DrainBody, At
<1>2. PICK top \in ScSound : top = Top(t) BY <1>1, ScTopSound
<1>3. PICK s \in Scopes : s = top.scope BY <1>1, <1>2, ScTopSound
<1>4. /\ ScopeTypeOK /\ ScAdded /\ ScLifo /\ ScOpen /\ ScOwned /\ ScFrameOk(top) /\ top \in Frames
      /\ top.phase = "drain"
  BY <1>2 DEF ScopeIInv, ScSound, DrainBody, At
<1>5. /\ closed[s] /\ ~latch[s] /\ top.todo = <<>> /\ bucket[s] = stored[s]
      /\ Range(stored[s]) \cap Range(ran) = {}
      /\ ScUndisturbed(s) => Range(stored[s]) \cap emptied = {}
      /\ \A c \in Scopes : <<c, s>> \in owned => c \in Range(top.todo) \/ closed[c] \/ c \notin made
  BY <1>3, <1>4 DEF ScFrameOk
<1>6. stored[s] \in Seq(Fins) /\ bver[s] \in Nat BY <1>4 DEF ScopeTypeOK
<1>7. Range(stored[s]) \subseteq Fins /\ ToSet(stored[s]) = Range(stored[s]) BY <1>6, RangeOf
<1>8. emptied' = emptied \cup Range(stored[s]) BY <1>2, <1>3, <1>5, <1>7 DEF DrainBody
<1>9. PICK held \in Held(bucket[s]) :
        Become(t, [top EXCEPT !.phase = "commit", !.ver = bver[s], !.fins = held])
  BY <1>2, <1>3 DEF DrainBody
<1>10. held \in Seq(Fins) /\ Range(held) = Range(stored[s]) \ emptied /\ ScInOrder(held, s)
  BY <1>5, ScHeld
<1>11. PICK f : f = [top EXCEPT !.phase = "commit", !.ver = bver[s], !.fins = held] OBVIOUS
<1>12. /\ f \in Frames /\ f.scope = s /\ f.phase = "commit" /\ f.ver = bver[s]
       /\ f.fins = held /\ f.todo = <<>>
  BY <1>3, <1>4, <1>5, <1>6, <1>10, <1>11 DEF Frames, Phases
<1>13. UNCHANGED <<made, closed, parent, children, bucket, bver, latch, call, fate, owned, late,
                   stored, ran>>
  BY DEF DrainBody
<1>14. f \in ScSound'
  <2>1. ScUndisturbed(s) => Range(stored[s]) \subseteq Range(held) BY <1>5, <1>10
  <2>2. \A c \in Scopes : <<c, s>> \in owned => c \in Range(f.todo) \/ closed[c] \/ c \notin made
    BY <1>5, <1>12
  <2>3. QED BY <1>5, <1>10, <1>12, <1>13, <2>1, <2>2 DEF ScSound, ScFrameOk, ScInOrder, ScUndisturbed
<1>15. \A r \in Scopes : r # s => Range(stored[r]) \cap Range(stored[s]) = {}
  BY <1>4 DEF ScAdded
<1>16. ASSUME NEW fr \in ScSound, fr.scope # s PROVE fr \in ScSound'
  <2>1. fr.scope \in Scopes BY DEF ScSound, Frames
  <2>2. Range(stored[fr.scope]) \cap emptied = {} => Range(stored[fr.scope]) \cap emptied' = {}
    BY <1>8, <1>15, <1>16, <2>1
  <2>3. QED BY <1>13, <2>2 DEF ScSound, ScFrameOk, ScInOrder, ScUndisturbed
<1>17. stack' \in [Callers -> Seq(Frames)] /\ ScFrames'
  BY <1>1, <1>2, <1>3, <1>9, <1>11, <1>12, <1>14, <1>16, ScMove
<1>18. ScopeTypeOK' BY <1>4, <1>7, <1>8, <1>13, <1>17 DEF ScopeTypeOK
<1>19. ScAdded'
  <2>1. \A g \in emptied' : fate[g] = "added" BY <1>4, <1>8 DEF ScAdded
  <2>2. QED BY <1>4, <1>13, <2>1 DEF ScAdded
<1>20. ScLifo' BY <1>4, <1>13 DEF ScLifo
<1>21. ScOwned' BY <1>4, <1>13 DEF ScOwned
<1>22. ScOpen'
  <2>1. \A r \in Scopes : ~closed[r] => Range(stored[r]) \cap emptied' = {}
    BY <1>4, <1>5, <1>8, <1>15 DEF ScOpen
  <2>2. QED BY <1>4, <1>13, <2>1 DEF ScOpen, ScUndisturbed
<1>23. QED BY <1>17, <1>18, <1>19, <1>20, <1>21, <1>22 DEF ScopeIInv

\* Its commit, which fails only if the close was disturbed.
LEMMA ScDrainCommitOk ==
  ASSUME ScopeIInv, NEW t \in Callers, DrainCommit(t)
  PROVE  ScopeIInv'
<1>1. stack[t] # <<>> BY DEF DrainCommit, At
<1>2. PICK top \in ScSound : top = Top(t) BY <1>1, ScTopSound
<1>3. PICK s \in Scopes : s = top.scope BY <1>1, <1>2, ScTopSound
<1>4. /\ ScopeTypeOK /\ ScAdded /\ ScLifo /\ ScOpen /\ ScOwned /\ ScFrameOk(top) /\ top \in Frames
      /\ top.phase = "commit"
  BY <1>2 DEF ScopeIInv, ScSound, DrainCommit, At
<1>5. /\ closed[s] /\ ~latch[s] /\ top.todo = <<>> /\ bucket[s] = stored[s]
      /\ Range(stored[s]) \cap Range(ran) = {} /\ ScInOrder(top.fins, s)
      /\ ScUndisturbed(s) => Range(stored[s]) \subseteq Range(top.fins) /\ top.ver = bver[s]
      /\ \A c \in Scopes : <<c, s>> \in owned => c \in Range(top.todo) \/ closed[c] \/ c \notin made
  BY <1>3, <1>4 DEF ScFrameOk
<1>6. UNCHANGED <<made, closed, parent, children, emptied, latch, call, fate, owned, late,
                  stored, ran>>
  BY DEF DrainCommit
<1>7. CASE bver[s] = top.ver
  <2>1. /\ bucket' = [bucket EXCEPT ![s] = <<>>] /\ bver' = [bver EXCEPT ![s] = @ + 1]
        /\ Become(t, [top EXCEPT !.phase = "run", !.ver = 0])
    BY <1>2, <1>3, <1>7 DEF DrainCommit
  <2>2. /\ bucket' \in [Scopes -> Seq(Fins)] /\ bver' \in [Scopes -> Nat]
        /\ \A r \in Scopes : r # s => bucket'[r] = bucket[r] /\ bver'[r] = bver[r]
    BY <1>4, <2>1 DEF ScopeTypeOK
  <2>3. PICK f : f = [top EXCEPT !.phase = "run", !.ver = 0] OBVIOUS
  <2>4. /\ f \in Frames /\ f.scope = s /\ f.phase = "run" /\ f.fins = top.fins /\ f.todo = <<>>
    BY <1>3, <1>4, <1>5, <2>3 DEF Frames, Phases
  <2>5. f \in ScSound'
    <3>1. \A j \in DOMAIN ran, b \in DOMAIN stored[s] : stored[s][b] # ran[j]
      BY <1>5 DEF Range
    <3>2. \A c \in Scopes : <<c, s>> \in owned => c \in Range(f.todo) \/ closed[c] \/ c \notin made
      BY <1>5, <2>4
    <3>3. QED BY <1>5, <1>6, <2>4, <3>1, <3>2 DEF ScSound, ScFrameOk, ScInOrder, ScUndisturbed
  <2>6. ASSUME NEW fr \in ScSound, fr.scope # s PROVE fr \in ScSound'
    <3>1. fr.scope \in Scopes BY DEF ScSound, Frames
    <3>2. bucket'[fr.scope] = bucket[fr.scope] /\ bver'[fr.scope] = bver[fr.scope]
      BY <2>2, <2>6, <3>1
    <3>3. QED BY <1>6, <3>2 DEF ScSound, ScFrameOk, ScInOrder, ScUndisturbed
  <2>7. stack' \in [Callers -> Seq(Frames)] /\ ScFrames'
    BY <1>1, <1>2, <1>3, <2>1, <2>3, <2>4, <2>5, <2>6, ScMove
  <2>8. ScopeTypeOK' BY <1>4, <1>6, <2>2, <2>7 DEF ScopeTypeOK
  <2>9. ScOpen' BY <1>4, <1>5, <1>6, <2>2 DEF ScOpen, ScUndisturbed
  <2>10. ScAdded' BY <1>4, <1>6 DEF ScAdded
  <2>11. ScLifo' BY <1>4, <1>6 DEF ScLifo
  <2>12. ScOwned' BY <1>4, <1>6 DEF ScOwned
  <2>13. QED BY <2>7, <2>8, <2>9, <2>10, <2>11, <2>12 DEF ScopeIInv
<1>8. CASE bver[s] # top.ver
  <2>1. /\ UNCHANGED <<bucket, bver>>
        /\ Become(t, [top EXCEPT !.phase = "drain", !.fins = <<>>, !.ver = 0])
    BY <1>2, <1>3, <1>8 DEF DrainCommit
  <2>a. <<>> \in Seq(Fins) OBVIOUS
  <2>b. PICK none \in Seq(Fins) : none = <<>> BY <2>a, Zenon
  <2>2. PICK f : f = [top EXCEPT !.phase = "drain", !.fins = none, !.ver = 0] OBVIOUS
  <2>3. /\ f \in Frames /\ f.scope = s /\ f.phase = "drain" /\ f.todo = <<>>
    BY <1>3, <1>4, <1>5, <2>2 DEF Frames, Phases
  <2>4. f \in ScSound
    <3>1. ~ScUndisturbed(s) BY <1>5, <1>8
    <3>2. \A c \in Scopes : <<c, s>> \in owned => c \in Range(f.todo) \/ closed[c] \/ c \notin made
      BY <1>5, <2>3
    <3>3. QED BY <1>5, <2>3, <3>1, <3>2 DEF ScSound, ScFrameOk
  <2>5. Become(t, f) BY <2>1, <2>2, <2>b
  <2>6. QED BY <1>1, <1>2, <1>3, <1>6, <2>1, <2>3, <2>4, <2>5, ScWalk
<1>9. QED BY <1>7, <1>8

\* A finalizer runs.
LEMMA ScRunOk ==
  ASSUME ScopeIInv, NEW t \in Callers, RunFinalizer(t)
  PROVE  ScopeIInv'
<1>1. stack[t] # <<>> BY DEF RunFinalizer, At
<1>2. PICK top \in ScSound : top = Top(t) BY <1>1, ScTopSound
<1>3. PICK s \in Scopes : s = top.scope BY <1>1, <1>2, ScTopSound
<1>4. /\ ScopeTypeOK /\ ScAdded /\ ScLifo /\ ScOpen /\ ScOwned /\ ScFrameOk(top) /\ top \in Frames
      /\ top.phase = "run" /\ top.fins # <<>>
  BY <1>2 DEF ScopeIInv, ScSound, RunFinalizer, At
<1>5. /\ closed[s] /\ ~latch[s] /\ top.todo = <<>> /\ ScInOrder(top.fins, s)
      /\ \A i \in DOMAIN top.fins, j \in DOMAIN ran, a, b \in DOMAIN stored[s] :
            stored[s][a] = top.fins[i] /\ stored[s][b] = ran[j] => a < b
      /\ ScUndisturbed(s) => Range(stored[s]) \subseteq Range(top.fins) \cup Range(ran)
      /\ \A c \in Scopes : <<c, s>> \in owned => c \in Range(top.todo) \/ closed[c] \/ c \notin made
  BY <1>3, <1>4 DEF ScFrameOk
<1>6. PICK q \in Seq(Fins) : q = top.fins BY <1>4 DEF Frames
<1>7. /\ Front(q) \in Seq(Fins) /\ Last(q) \in Fins /\ Last(q) \in Range(q)
      /\ Range(q) = Range(Front(q)) \cup {Last(q)} /\ Len(q) \in DOMAIN q /\ Last(q) = q[Len(q)]
      /\ \A i \in DOMAIN Front(q) : i \in DOMAIN q /\ i < Len(q) /\ Front(q)[i] = q[i]
  BY <1>4, <1>6, FrontLast
<1>8. PICK p \in Seq(Fins) : p = Front(q) BY <1>7, Zenon
<1>9. PICK x \in Fins : x = Last(q) BY <1>7, Zenon
<1>10. /\ Range(q) = Range(p) \cup {x} /\ Len(q) \in DOMAIN q /\ x = q[Len(q)]
       /\ \A i \in DOMAIN p : i \in DOMAIN q /\ i < Len(q) /\ p[i] = q[i]
  BY <1>7, <1>8, <1>9
<1>11. PICK f : f = [top EXCEPT !.fins = p] OBVIOUS
<1>12. /\ f \in Frames /\ f.scope = s /\ f.phase = "run" /\ f.fins = p /\ f.todo = <<>>
  BY <1>3, <1>4, <1>5, <1>11 DEF Frames
<1>13. Become(t, f) BY <1>2, <1>6, <1>8, <1>11 DEF RunFinalizer
<1>14. ran' = Append(ran, x) BY <1>2, <1>6, <1>9 DEF RunFinalizer
<1>15. UNCHANGED <<made, closed, parent, children, bucket, bver, emptied, latch, call, fate,
                   owned, late, stored>>
  BY DEF RunFinalizer
<1>16. stored[s] \in Seq(Fins) /\ ran \in Seq(Fins) /\ IsInjective(ran) BY <1>4 DEF ScopeTypeOK, ScLifo
<1>17. PICK k \in DOMAIN stored[s] : stored[s][k] = x
  <2>1. x \in Range(stored[s]) BY <1>5, <1>6, <1>10 DEF ScInOrder
  <2>2. QED BY <2>1 DEF Range
<1>18. k \in Nat /\ x \in Range(stored[s]) BY <1>16, <1>17, RangeOf DEF Range
<1>19. x \notin Range(ran)
  <2> SUFFICES ASSUME NEW j \in DOMAIN ran, ran[j] = x PROVE FALSE BY DEF Range
  <2>1. k < k BY <1>5, <1>6, <1>10, <1>17
  <2>2. QED BY <1>18, <2>1
<1>20. /\ ran' \in Seq(Fins) /\ IsInjective(ran') /\ Range(ran') = Range(ran) \cup {x}
  BY <1>14, <1>16, <1>19, AppendOnce
<1>21. /\ Len(ran) \in Nat /\ DOMAIN ran = 1..Len(ran)
       /\ DOMAIN ran' = 1..Len(ran) + 1 /\ ran'[Len(ran) + 1] = x
       /\ \A j \in DOMAIN ran : ran'[j] = ran[j]
  BY <1>14, <1>16
<1>22. \A j \in DOMAIN ran' : j \in DOMAIN ran \/ j = Len(ran) + 1 BY <1>21
<1>23. \A r \in Scopes : r # s => x \notin Range(stored[r]) BY <1>4, <1>18 DEF ScAdded
<1>24. f \in ScSound'
  <2>1. ScInOrder(p, s)
    <3>1. Range(p) \subseteq Range(stored[s]) BY <1>5, <1>6, <1>10 DEF ScInOrder
    <3>2. QED BY <1>5, <1>6, <1>10, <3>1 DEF ScInOrder
  <2>2. ASSUME NEW i \in DOMAIN p, NEW j \in DOMAIN ran', NEW a \in DOMAIN stored[s],
               NEW b \in DOMAIN stored[s], stored[s][a] = p[i], stored[s][b] = ran'[j]
        PROVE  a < b
    <3>1. i \in DOMAIN q /\ i < Len(q) /\ p[i] = q[i] BY <1>10
    <3>2. CASE j \in DOMAIN ran BY <1>5, <1>6, <1>21, <2>2, <3>1, <3>2
    <3>3. CASE j = Len(ran) + 1
      <4>1. stored[s][b] = q[Len(q)] BY <1>10, <1>21, <2>2, <3>3
      <4>2. QED BY <1>5, <1>6, <1>10, <2>2, <3>1, <4>1 DEF ScInOrder
    <3>4. QED BY <1>22, <3>2, <3>3
  <2>3. ScUndisturbed(s) => Range(stored[s]) \subseteq Range(p) \cup Range(ran')
    BY <1>5, <1>6, <1>10, <1>20
  <2>4. \A c \in Scopes : <<c, s>> \in owned => c \in Range(f.todo) \/ closed[c] \/ c \notin made
    BY <1>5, <1>12
  <2>5. QED BY <1>5, <1>12, <1>15, <2>1, <2>2, <2>3, <2>4 DEF ScSound, ScFrameOk, ScInOrder, ScUndisturbed
<1>25. ASSUME NEW fr \in ScSound, fr.scope # s PROVE fr \in ScSound'
  <2>1. PICK r \in Scopes : r = fr.scope BY DEF ScSound, Frames
  <2>2. Range(stored[r]) \cap Range(ran) = {} => Range(stored[r]) \cap Range(ran') = {}
    BY <1>20, <1>23, <1>25, <2>1
  <2>3. \A j \in DOMAIN ran', b \in DOMAIN stored[r] : stored[r][b] = ran'[j] =>
           j \in DOMAIN ran /\ ran'[j] = ran[j]
    <3>1. \A b \in DOMAIN stored[r] : stored[r][b] # x BY <1>23, <1>25, <2>1 DEF Range
    <3>2. QED BY <1>21, <1>22, <3>1
  <2>4. Range(ran) \subseteq Range(ran') BY <1>20
  <2>5. ScFrameOk(fr) BY DEF ScSound
  <2>6. fr.phase = "run" =>
          \A i \in DOMAIN fr.fins, j \in DOMAIN ran', a, b \in DOMAIN stored[r] :
             stored[r][a] = fr.fins[i] /\ stored[r][b] = ran'[j] => a < b
    BY <2>1, <2>3, <2>5 DEF ScFrameOk
  <2>7. QED BY <1>15, <2>1, <2>2, <2>4, <2>5, <2>6 DEF ScSound, ScFrameOk, ScInOrder, ScUndisturbed
<1>26. stack' \in [Callers -> Seq(Frames)] /\ ScFrames'
  BY <1>1, <1>2, <1>3, <1>12, <1>13, <1>24, <1>25, ScMove
<1>27. ScopeTypeOK' BY <1>4, <1>15, <1>20, <1>26 DEF ScopeTypeOK
<1>28. ScAdded'
  <2>1. \A g \in Range(ran') : fate[g] = "added" BY <1>4, <1>18, <1>20 DEF ScAdded
  <2>2. QED BY <1>4, <1>15, <2>1 DEF ScAdded
<1>29. ScLifo'
  <2>1. ASSUME NEW i \in DOMAIN ran', NEW j \in DOMAIN ran', NEW r \in Scopes,
               NEW a \in DOMAIN stored[r], NEW b \in DOMAIN stored[r], i < j,
               stored[r][a] = ran'[i], stored[r][b] = ran'[j]
        PROVE  a > b
    <3>1. i \in DOMAIN ran /\ ran'[i] = ran[i] BY <1>21, <1>22, <2>1
    <3>2. CASE j \in DOMAIN ran BY <1>4, <1>21, <2>1, <3>1, <3>2 DEF ScLifo
    <3>3. CASE j = Len(ran) + 1
      <4>1. stored[r][b] = x BY <1>21, <2>1, <3>3
      <4>2. r = s BY <1>23, <4>1 DEF Range
      <4>3. b < a BY <1>5, <1>6, <1>10, <2>1, <3>1, <4>1, <4>2
      <4>4. a \in Nat /\ b \in Nat BY <1>16, <4>2
      <4>5. QED BY <4>3, <4>4
    <3>4. QED BY <1>22, <3>2, <3>3
  <2>2. QED BY <1>15, <1>20, <2>1 DEF ScLifo
<1>30. ScOwned' BY <1>4, <1>15 DEF ScOwned
<1>31. ScOpen'
  <2>1. \A r \in Scopes : ~closed[r] => x \notin Range(stored[r]) BY <1>5, <1>23
  <2>2. QED BY <1>4, <1>15, <1>20, <2>1 DEF ScOpen, ScUndisturbed
<1>32. QED BY <1>26, <1>27, <1>28, <1>29, <1>30, <1>31 DEF ScopeIInv

\* The latch is opened and the call returns.
LEMMA ScLatchOk ==
  ASSUME ScopeIInv, NEW t \in Callers, OpenLatch(t)
  PROVE  ScopeIInv'
<1>1. stack[t] # <<>> BY DEF OpenLatch, At
<1>2. PICK top \in ScSound : top = Top(t) BY <1>1, ScTopSound
<1>3. PICK s \in Scopes : s = top.scope BY <1>1, <1>2, ScTopSound
<1>4. /\ ScopeTypeOK /\ ScFrames /\ ScAdded /\ ScLifo /\ ScOpen /\ ScOwned /\ ScFrameOk(top)
      /\ top.phase = "run" /\ top.fins = <<>>
  BY <1>2 DEF ScopeIInv, ScSound, OpenLatch, At
<1>5. /\ closed[s] /\ (ScUndisturbed(s) => Range(stored[s]) \subseteq Range(ran))
  <2>1. Range(top.fins) = {} BY <1>4, EmptyLine
  <2>2. QED BY <1>3, <1>4, <2>1 DEF ScFrameOk
<1>6. UNCHANGED <<made, closed, parent, children, bucket, bver, emptied, call, fate, owned, late,
                  stored, ran>>
  BY DEF OpenLatch
<1>7. /\ latch \in [Scopes -> BOOLEAN] /\ stack \in [Callers -> Seq(Frames)]
      /\ latch' = [latch EXCEPT ![s] = TRUE] /\ stack' = [stack EXCEPT ![t] = Tail(@)]
  BY <1>2, <1>3, <1>4 DEF OpenLatch, ScopeTypeOK
<1>8. latch' \in [Scopes -> BOOLEAN] /\ \A r \in Scopes : r # s => latch'[r] = latch[r]
  BY <1>7
<1>9. stack[t] \in Seq(Frames) BY <1>7
<1>10. /\ Tail(stack[t]) \in Seq(Frames) /\ Len(stack[t]) \in Nat \ {0}
       /\ DOMAIN stack[t] = 1..Len(stack[t]) /\ DOMAIN Tail(stack[t]) = 1..Len(stack[t]) - 1
       /\ \A i \in 1..Len(stack[t]) - 1 : Tail(stack[t])[i] = stack[t][i + 1]
  BY <1>1, <1>9, PoppedSeq
<1>11. /\ stack' \in [Callers -> Seq(Frames)] /\ stack'[t] = Tail(stack[t])
       /\ \A u \in Callers \ {t} : stack'[u] = stack[u]
  BY <1>7, <1>10
<1>12. ASSUME NEW i \in DOMAIN stack'[t]
       PROVE  i \in Nat \ {0} /\ i + 1 \in DOMAIN stack[t] /\ stack'[t][i] = stack[t][i + 1]
  BY <1>10, <1>11
<1>13. \A u, v \in Callers : \A i \in DOMAIN stack[u], j \in DOMAIN stack[v] :
        stack[u][i].scope = stack[v][j].scope => u = v /\ i = j
  BY <1>4 DEF ScFrames
<1>14. 1 \in DOMAIN stack[t] /\ stack[t][1].scope = s BY <1>1, <1>2, <1>3, <1>4, ScTop
<1>15. ASSUME NEW fr \in ScSound, fr.scope # s PROVE fr \in ScSound'
  <2>1. fr.scope \in Scopes BY DEF ScSound, Frames
  <2>2. latch'[fr.scope] = latch[fr.scope] BY <1>8, <1>15, <2>1
  <2>3. QED BY <1>6, <2>2 DEF ScSound, ScFrameOk, ScInOrder, ScUndisturbed
<1>16. ASSUME NEW u \in Callers, NEW i \in DOMAIN stack'[u] PROVE stack'[u][i] \in ScSound'
  <2>1. CASE u = t
    <3>1. i \in Nat \ {0} /\ i + 1 \in DOMAIN stack[t] /\ stack'[t][i] = stack[t][i + 1]
      BY <1>12, <2>1
    <3>2. stack[t][i + 1].scope # s BY <1>13, <1>14, <3>1
    <3>3. stack[t][i + 1] \in ScSound BY <1>4, <3>1 DEF ScFrames
    <3>4. QED BY <1>15, <2>1, <3>1, <3>2, <3>3
  <2>2. CASE u # t
    <3>1. stack'[u] = stack[u] BY <1>11, <2>2
    <3>2. stack[u][i].scope # s BY <1>13, <1>14, <2>2, <3>1
    <3>3. stack[u][i] \in ScSound BY <1>4, <3>1 DEF ScFrames
    <3>4. QED BY <1>15, <3>1, <3>2, <3>3
  <2>3. QED BY <2>1, <2>2
<1>17. ASSUME NEW u \in Callers, NEW v \in Callers, NEW i \in DOMAIN stack'[u],
              NEW j \in DOMAIN stack'[v], stack'[u][i].scope = stack'[v][j].scope
       PROVE  u = v /\ i = j
  <2>1. CASE u = t /\ v = t
    <3>1. /\ i \in Nat /\ i + 1 \in DOMAIN stack[t] /\ stack'[t][i] = stack[t][i + 1]
          /\ j \in Nat /\ j + 1 \in DOMAIN stack[t] /\ stack'[t][j] = stack[t][j + 1]
      BY <1>12, <2>1
    <3>2. i + 1 = j + 1 BY <1>13, <1>17, <2>1, <3>1
    <3>3. QED BY <2>1, <3>1, <3>2
  <2>2. CASE u = t /\ v # t
    <3>1. i + 1 \in DOMAIN stack[t] /\ stack'[t][i] = stack[t][i + 1] BY <1>12, <2>2
    <3>2. stack'[v] = stack[v] BY <1>11, <2>2
    <3>3. QED BY <1>13, <1>17, <2>2, <3>1, <3>2
  <2>3. CASE u # t /\ v = t
    <3>1. j + 1 \in DOMAIN stack[t] /\ stack'[t][j] = stack[t][j + 1] BY <1>12, <2>3
    <3>2. stack'[u] = stack[u] BY <1>11, <2>3
    <3>3. QED BY <1>13, <1>17, <2>3, <3>1, <3>2
  <2>4. CASE u # t /\ v # t BY <1>11, <1>13, <1>17, <2>4
  <2>5. QED BY <2>1, <2>2, <2>3, <2>4
<1>18. ScFrames' BY <1>16, <1>17 DEF ScFrames
<1>19. ScopeTypeOK' BY <1>4, <1>6, <1>8, <1>11 DEF ScopeTypeOK
<1>20. ScAdded' BY <1>4, <1>6 DEF ScAdded
<1>21. ScLifo' BY <1>4, <1>6 DEF ScLifo
<1>22. ScOwned' BY <1>4, <1>6 DEF ScOwned
<1>23. ScOpen' BY <1>4, <1>5, <1>6, <1>8 DEF ScOpen, ScUndisturbed
<1>24. QED BY <1>18, <1>19, <1>20, <1>21, <1>22, <1>23 DEF ScopeIInv

\* A step of a call other than close, if what it is said to register and own is right.
LEMMA ScCalls ==
  ASSUME ScopeIInv, UNCHANGED <<closed, bucket, bver, emptied, latch, stack, late, stored, ran>>,
         \A c, s \in Scopes : closed[s] /\ <<c, s>> \in owned' =>
            (<<c, s>> \in owned /\ (c \in made' => c \in made)) \/ closed[c] \/ c \notin made',
         ScopeTypeOK', ScAdded', ScOwned'
  PROVE  ScopeIInv'
<1>1. ScLifo' /\ ScOpen' /\ \A fr \in ScSound : fr \in ScSound' BY ScQuiet
<1>2. ScFrames' BY <1>1, ScRests
<1>3. QED BY <1>1, <1>2 DEF ScopeIInv

\* The call of one thread changes.
LEMMA ScSetCall ==
  ASSUME ScopeTypeOK, NEW t \in Callers, NEW k \in Calls, call' = [call EXCEPT ![t] = k]
  PROVE  /\ call' \in [Callers -> Calls] /\ call'[t] = k
         /\ \A u \in Callers : u # t => call'[u] = call[u]
BY DEF ScopeTypeOK

\* The lists of children grow.
LEMMA ScListed ==
  ASSUME ScopeTypeOK, NEW s \in Scopes, NEW c \in Scopes,
         children' = [children EXCEPT ![s] = Append(@, c)]
  PROVE  /\ children' \in [Scopes -> Seq(Scopes)] /\ c \in Range(children'[s])
         /\ \A r \in Scopes : Range(children[r]) \subseteq Range(children'[r])
<1>1. children \in [Scopes -> Seq(Scopes)] /\ children[s] \in Seq(Scopes) BY DEF ScopeTypeOK
<1>2. PICK kids \in Seq(Scopes) : kids = children[s] BY <1>1, Zenon
<1>3. Append(kids, c) \in Seq(Scopes) /\ Range(Append(kids, c)) = Range(kids) \cup {c}
  BY RangeAppend
<1>4. PICK more \in Seq(Scopes) : more = Append(kids, c) BY <1>3, Zenon
<1>5. children' = [children EXCEPT ![s] = more] BY <1>2, <1>4
<1>6. /\ children' \in [Scopes -> Seq(Scopes)] /\ children'[s] = more
      /\ \A r \in Scopes : r # s => children'[r] = children[r]
  BY <1>1, <1>5
<1>7. QED BY <1>2, <1>3, <1>4, <1>6

\* fork stores the child.
LEMMA ScForkOk ==
  ASSUME ScopeIInv, NEW t \in Callers, NEW s \in Scopes, NEW c \in Scopes, Fork(t, s, c)
  PROVE  ScopeIInv'
<1>1. ScopeTypeOK /\ ScAdded /\ ScOwned BY DEF ScopeIInv
<1>2. UNCHANGED <<made, closed, bucket, bver, emptied, latch, stack, fate, late, stored, ran>>
  BY DEF Fork
<1>3. /\ call[t].op = "none" /\ c \notin made /\ owned' = owned \cup {<<c, s>>}
  BY DEF Fork, Free, NoCall
<1>4. \A u \in Callers : call[u].op = "fork" => call[u].child # c
  BY DEF Fork, Forking
<1>5. PICK k : k = [op |-> "fork", scope |-> s, child |-> c] OBVIOUS
<1>6. k \in Calls /\ k.op = "fork" /\ k.child = c /\ k.scope = s BY <1>5 DEF Calls
<1>7. /\ call' \in [Callers -> Calls] /\ call'[t] = k
      /\ \A u \in Callers : u # t => call'[u] = call[u]
  BY <1>1, <1>5, <1>6, ScSetCall DEF Fork
<1>8. /\ children' \in [Scopes -> Seq(Scopes)] /\ c \in Range(children'[s])
      /\ \A r \in Scopes : Range(children[r]) \subseteq Range(children'[r])
  BY <1>1, ScListed DEF Fork
<1>9. parent' \in [Scopes -> Scopes \cup {NoScope}] BY <1>1 DEF Fork, ScopeTypeOK
<1>a. owned' \subseteq Scopes \X Scopes BY <1>1, <1>3 DEF ScopeTypeOK
<1>10. ScopeTypeOK' BY <1>1, <1>2, <1>7, <1>8, <1>9, <1>a DEF ScopeTypeOK
<1>11. ScAdded'
  <2>1. \A u \in Callers : call'[u].op = "add" => u # t /\ call'[u] = call[u] BY <1>6, <1>7
  <2>2. QED BY <1>1, <1>2, <2>1 DEF ScAdded
<1>12. ScOwned'
  <2>1. \A r \in Scopes : <<c, r>> \notin owned BY <1>1, <1>3, <1>4 DEF ScOwned
  <2>2. \A d, r \in Scopes : <<d, r>> \in owned' => <<d, r>> \in owned \/ (d = c /\ r = s)
    BY <1>3
  <2>3. ASSUME NEW d \in Scopes, NEW r \in Scopes, <<d, r>> \in owned'
        PROVE  /\ d \in Range(children'[r])
               /\ d \in made' \/ \E u \in Callers : call'[u].op = "fork" /\ call'[u].child = d
    <3>1. CASE d = c /\ r = s BY <1>6, <1>7, <1>8, <3>1
    <3>2. CASE <<d, r>> \in owned
      <4>1. /\ d \in Range(children[r])
            /\ d \in made \/ \E u \in Callers : call[u].op = "fork" /\ call[u].child = d
        BY <1>1, <3>2 DEF ScOwned
      <4>2. \A u \in Callers : call[u].op = "fork" => call'[u] = call[u] BY <1>3, <1>7
      <4>3. QED BY <1>2, <1>8, <4>1, <4>2
    <3>3. QED BY <2>2, <2>3, <3>1, <3>2
  <2>4. ASSUME NEW u \in Callers, call'[u].op = "fork"
        PROVE  /\ call'[u].child \notin made'
               /\ \A r \in Scopes : <<call'[u].child, r>> \in owned' => r = call'[u].scope
    <3>1. CASE u = t BY <1>2, <1>3, <1>6, <1>7, <2>1, <2>2, <3>1
    <3>2. CASE u # t
      <4>1. call'[u] = call[u] /\ call[u].child # c BY <1>4, <1>7, <2>4, <3>2
      <4>2. call[u].child \in Scopes
        <5>1. call[u] \in Calls BY <1>1 DEF ScopeTypeOK
        <5>2. QED BY <2>4, <4>1, <5>1 DEF Calls, NoCall
      <4>3. /\ call[u].child \notin made
            /\ \A r \in Scopes : <<call[u].child, r>> \in owned => r = call[u].scope
        BY <1>1, <2>4, <4>1 DEF ScOwned
      <4>4. QED BY <1>2, <2>2, <4>1, <4>2, <4>3
    <3>3. QED BY <3>1, <3>2
  <2>5. ASSUME NEW u \in Callers, NEW v \in Callers, call'[u].op = "fork", call'[v].op = "fork",
               call'[u].child = call'[v].child
        PROVE  u = v
    <3>1. CASE u # t /\ v # t BY <1>1, <1>7, <2>5, <3>1 DEF ScOwned
    <3>2. CASE u = t \/ v = t BY <1>4, <1>6, <1>7, <2>5, <3>2
    <3>3. QED BY <3>1, <3>2
  <2>6. ASSUME NEW u \in Callers, call'[u].op = "extend" PROVE call'[u].child \in made'
    <3>1. u # t /\ call'[u] = call[u] BY <1>6, <1>7, <2>6
    <3>2. QED BY <1>1, <1>2, <2>6, <3>1 DEF ScOwned
  <2>7. QED BY <2>3, <2>4, <2>5, <2>6 DEF ScOwned
<1>13. \A d, r \in Scopes : closed[r] /\ <<d, r>> \in owned' =>
         (<<d, r>> \in owned /\ (d \in made' => d \in made)) \/ closed[d] \/ d \notin made'
  BY <1>2, <1>3
<1>14. QED BY <1>2, <1>10, <1>11, <1>12, <1>13, ScCalls

\* A scope is in its own lineage.
LEMMA ScSelf ==
  ASSUME NEW s \in Scopes, closed[s]
  PROVE  IsClosed(s)
<1>1. s \in Lineage(s, Parents) BY DEF Lineage
<1>2. QED BY <1>1 DEF IsClosed

\* fork looks at the parent again: a child it returns has an open parent or is closed.
LEMMA ScForkCheckOk ==
  ASSUME ScopeIInv, NEW t \in Callers, ForkCheck(t)
  PROVE  ScopeIInv'
<1>1. ScopeTypeOK /\ ScAdded /\ ScOwned BY DEF ScopeIInv
<1>2. call[t].op = "fork" /\ stack[t] = <<>> BY DEF ForkCheck
<1>3. PICK c \in Scopes, s \in Scopes : c = call[t].child /\ s = call[t].scope
  <2>1. call[t] \in Calls BY <1>1 DEF ScopeTypeOK
  <2>2. QED BY <1>2, <2>1 DEF Calls, NoCall
<1>4. UNCHANGED <<parent, children, bucket, bver, emptied, latch, fate, owned, late, stored, ran>>
  BY DEF ForkCheck
<1>5. CASE IsClosed(s) /\ ~closed[c]
  <2>1. EnterClose(t, c, <<>>) /\ UNCHANGED <<made, call>> BY <1>3, <1>5 DEF ForkCheck
  <2>2. <<>> \in Seq(Frames) OBVIOUS
  <2>3. PICK st \in Seq(Frames) : st = <<>> BY <2>2, Zenon
  <2>4. stack[t] = st /\ DOMAIN st = {} BY <1>2, <2>3
  <2>5. EnterClose(t, c, st) BY <2>1, <2>3
  <2>6. QED BY <1>4, <2>1, <2>4, <2>5, ScEnter
<1>6. CASE ~(IsClosed(s) /\ ~closed[c])
  <2>1. /\ made' = made \cup {c} /\ call' = [call EXCEPT ![t] = NoCall] /\ UNCHANGED <<closed, stack>>
    BY <1>3, <1>6 DEF ForkCheck
  <2>2. PICK k : k = NoCall OBVIOUS
  <2>3. k \in Calls /\ k.op = "none" BY <2>2 DEF Calls, NoCall
  <2>4. /\ call' \in [Callers -> Calls] /\ call'[t] = k
        /\ \A u \in Callers : u # t => call'[u] = call[u]
    BY <1>1, <2>1, <2>2, <2>3, ScSetCall
  <2>5. ScopeTypeOK' BY <1>1, <1>4, <2>1, <2>4 DEF ScopeTypeOK
  <2>6. \A u \in Callers : call'[u].op \in {"add", "fork", "extend"} => u # t /\ call'[u] = call[u]
    BY <2>3, <2>4
  <2>7. ScAdded' BY <1>1, <1>4, <2>6 DEF ScAdded
  <2>8. ScOwned'
    <3>1. ASSUME NEW d \in Scopes, NEW r \in Scopes, <<d, r>> \in owned'
          PROVE  /\ d \in Range(children'[r])
                 /\ d \in made' \/ \E u \in Callers : call'[u].op = "fork" /\ call'[u].child = d
      <4>1. /\ d \in Range(children[r])
            /\ d \in made \/ \E u \in Callers : call[u].op = "fork" /\ call[u].child = d
        BY <1>1, <1>4, <3>1 DEF ScOwned
      <4>2. QED BY <1>3, <1>4, <2>1, <2>4, <4>1
    <3>2. ASSUME NEW u \in Callers, call'[u].op = "fork"
          PROVE  /\ call'[u].child \notin made'
                 /\ \A r \in Scopes : <<call'[u].child, r>> \in owned' => r = call'[u].scope
      <4>1. u # t /\ call'[u] = call[u] BY <2>6, <3>2
      <4>2. call[u].child # c BY <1>1, <1>2, <1>3, <3>2, <4>1 DEF ScOwned
      <4>3. QED BY <1>1, <1>4, <2>1, <3>2, <4>1, <4>2 DEF ScOwned
    <3>3. QED BY <1>1, <2>1, <2>6, <3>1, <3>2 DEF ScOwned
  <2>9. ASSUME NEW d \in Scopes, NEW r \in Scopes, closed[r], <<d, r>> \in owned'
        PROVE  (<<d, r>> \in owned /\ (d \in made' => d \in made)) \/ closed[d] \/ d \notin made'
    <3>1. CASE d = c
      <4>1. r = s BY <1>1, <1>2, <1>3, <1>4, <2>9, <3>1 DEF ScOwned
      <4>2. QED BY <1>6, <2>9, <3>1, <4>1, ScSelf
    <3>2. CASE d # c BY <1>4, <2>1, <2>9, <3>2
    <3>3. QED BY <3>1, <3>2
  <2>10. QED BY <1>4, <2>1, <2>5, <2>7, <2>8, <2>9, ScCalls
<1>7. QED BY <1>5, <1>6

\* extend, from the check to the entry in the list of the new owner.
LEMMA ScExtendOk ==
  ASSUME ScopeIInv, NEW t \in Callers,
         \/ \E s, c \in Scopes : Extend(t, s, c)
         \/ ExtendLink(t) \/ ExtendStore(t)
  PROVE  ScopeIInv'
<1>1. ScopeTypeOK /\ ScAdded /\ ScOwned /\ call \in [Callers -> Calls] BY DEF ScopeIInv, ScopeTypeOK
<1>2. ASSUME NEW k \in Calls, call' = [call EXCEPT ![t] = k], call[t].op \in {"none", "extend"},
             k.op = "none" \/ (k.op = "extend" /\ k.child \in made),
             UNCHANGED <<made, fate, emptied, late, stored, ran>>,
             \A r \in Scopes : Range(children[r]) \subseteq Range(children'[r]),
             \A d, r \in Scopes : <<d, r>> \in owned' =>
                <<d, r>> \in owned \/ (d \in made /\ d \in Range(children'[r]))
      PROVE  call' \in [Callers -> Calls] /\ ScAdded' /\ ScOwned'
  <2>1. /\ call' \in [Callers -> Calls] /\ call'[t] = k
        /\ \A u \in Callers : u # t => call'[u] = call[u]
    BY <1>1, <1>2, ScSetCall
  <2>2. \A u \in Callers : call'[u].op \in {"add", "fork"} => u # t /\ call'[u] = call[u]
    BY <1>2, <2>1
  <2>3. \A u \in Callers : call[u].op = "fork" => call'[u] = call[u] BY <1>2, <2>1
  <2>4. ScAdded' BY <1>1, <1>2, <2>2 DEF ScAdded
  <2>5. ASSUME NEW d \in Scopes, NEW r \in Scopes, <<d, r>> \in owned'
        PROVE  /\ d \in Range(children'[r])
               /\ d \in made' \/ \E u \in Callers : call'[u].op = "fork" /\ call'[u].child = d
    <3>1. CASE <<d, r>> \in owned
      <4>1. /\ d \in Range(children[r])
            /\ d \in made \/ \E u \in Callers : call[u].op = "fork" /\ call[u].child = d
        BY <1>1, <3>1 DEF ScOwned
      <4>2. QED BY <1>2, <2>3, <4>1
    <3>2. CASE <<d, r>> \notin owned BY <1>2, <2>5, <3>2
    <3>3. QED BY <3>1, <3>2
  <2>6. ASSUME NEW u \in Callers, call'[u].op = "fork"
        PROVE  /\ call'[u].child \notin made'
               /\ \A r \in Scopes : <<call'[u].child, r>> \in owned' => r = call'[u].scope
    <3>1. call'[u] = call[u] BY <2>2, <2>6
    <3>2. call[u].child \in Scopes
      <4>1. call[u] \in Calls BY <1>1
      <4>2. QED BY <2>6, <3>1, <4>1 DEF Calls, NoCall
    <3>3. /\ call[u].child \notin made
          /\ \A r \in Scopes : <<call[u].child, r>> \in owned => r = call[u].scope
      BY <1>1, <2>6, <3>1 DEF ScOwned
    <3>4. QED BY <1>2, <3>1, <3>2, <3>3
  <2>7. ASSUME NEW u \in Callers, NEW v \in Callers, call'[u].op = "fork", call'[v].op = "fork",
               call'[u].child = call'[v].child
        PROVE  u = v
    BY <1>1, <2>2, <2>7 DEF ScOwned
  <2>8. ASSUME NEW u \in Callers, call'[u].op = "extend" PROVE call'[u].child \in made'
    <3>1. CASE u = t BY <1>2, <2>1, <2>8, <3>1
    <3>2. CASE u # t BY <1>1, <1>2, <2>1, <2>8, <3>2 DEF ScOwned
    <3>3. QED BY <3>1, <3>2
  <2>9. ScOwned' BY <2>5, <2>6, <2>7, <2>8 DEF ScOwned
  <2>10. QED BY <2>1, <2>4, <2>9
<1>3. ASSUME NEW s \in Scopes, NEW c \in Scopes, Extend(t, s, c) PROVE ScopeIInv'
  <2>1. PICK k : k = [op |-> "extend", scope |-> s, child |-> c, linked |-> FALSE] OBVIOUS
  <2>2. k \in Calls /\ k.op = "extend" /\ k.child = c BY <2>1 DEF Calls
  <2>3. /\ call' = [call EXCEPT ![t] = k] /\ c \in made /\ call[t].op = "none"
        /\ UNCHANGED <<made, closed, parent, children, bucket, bver, emptied, latch, stack, fate,
                       owned, late, stored, ran>>
    BY <1>3, <2>1 DEF Extend, Free, NoCall
  <2>4. call' \in [Callers -> Calls] /\ ScAdded' /\ ScOwned' BY <1>2, <2>2, <2>3
  <2>5. ScopeTypeOK' BY <1>1, <2>3, <2>4 DEF ScopeTypeOK
  <2>6. QED BY <2>3, <2>4, <2>5, ScCalls
<1>4. CASE ExtendLink(t) \/ ExtendStore(t)
  <2>1. call[t] \in Calls /\ call[t].op = "extend" BY <1>1, <1>4 DEF ExtendLink, ExtendStore
  <2>2. /\ call[t] \in [op : {"extend"}, scope : Scopes, child : Scopes, linked : BOOLEAN]
        /\ call[t].child \in made
    BY <1>1, <2>1 DEF Calls, NoCall, ScOwned
  <2>3. PICK c \in Scopes, s \in Scopes : c = call[t].child /\ s = call[t].scope BY <2>2
  <2>4. UNCHANGED <<made, closed, bucket, bver, emptied, latch, stack, fate, late, stored, ran>>
    BY <1>4 DEF ExtendLink, ExtendStore
  <2>5. CASE ExtendLink(t)
    <3>1. PICK k : k = [call[t] EXCEPT !.linked = TRUE] OBVIOUS
    <3>2. k \in Calls /\ k.op = "extend" /\ k.child \in made BY <2>2, <3>1 DEF Calls
    <3>3. /\ call' = [call EXCEPT ![t] = k] /\ UNCHANGED <<children, owned>>
          /\ parent' = [parent EXCEPT ![c] = s]
      BY <2>3, <2>5, <3>1 DEF ExtendLink
    <3>4. call' \in [Callers -> Calls] /\ ScAdded' /\ ScOwned' BY <1>2, <2>1, <2>4, <3>2, <3>3
    <3>5. parent' \in [Scopes -> Scopes \cup {NoScope}] BY <1>1, <3>3 DEF ScopeTypeOK
    <3>6. ScopeTypeOK' BY <1>1, <2>4, <3>3, <3>4, <3>5 DEF ScopeTypeOK
    <3>7. QED BY <2>4, <3>3, <3>4, <3>6, ScCalls
  <2>6. CASE ExtendStore(t)
    <3>1. PICK k : k = NoCall OBVIOUS
    <3>2. k \in Calls /\ k.op = "none" BY <3>1 DEF Calls, NoCall
    <3>3. /\ call' = [call EXCEPT ![t] = k] /\ parent' = parent
          /\ children' = [children EXCEPT ![s] = Append(@, c)]
          /\ owned' = IF closed[s] THEN owned ELSE owned \cup {<<c, s>>}
      BY <2>3, <2>6, <3>1 DEF ExtendStore
    <3>4. /\ children' \in [Scopes -> Seq(Scopes)] /\ c \in Range(children'[s])
          /\ \A r \in Scopes : Range(children[r]) \subseteq Range(children'[r])
      BY <1>1, <3>3, ScListed
    <3>5. \A d, r \in Scopes : <<d, r>> \in owned' => <<d, r>> \in owned \/ (d = c /\ r = s /\ ~closed[s])
      BY <3>3
    <3>6. c \in made BY <2>2, <2>3
    <3>7. call' \in [Callers -> Calls] /\ ScAdded' /\ ScOwned'
      BY <1>2, <2>1, <2>4, <3>2, <3>3, <3>4, <3>5, <3>6
    <3>8. owned' \subseteq Scopes \X Scopes BY <1>1, <3>3 DEF ScopeTypeOK
    <3>9. ScopeTypeOK' BY <1>1, <2>4, <3>3, <3>4, <3>7, <3>8 DEF ScopeTypeOK
    <3>10. \A d, r \in Scopes : closed[r] /\ <<d, r>> \in owned' => <<d, r>> \in owned BY <3>5
    <3>11. QED BY <2>4, <3>7, <3>9, <3>10, ScCalls
  <2>7. QED BY <1>4, <2>5, <2>6
<1>5. QED BY <1>3, <1>4

\* add_finalizer up to the commit that stores the finalizer.
LEMMA ScAddOk ==
  ASSUME ScopeIInv, NEW t \in Callers,
         \/ \E s \in Scopes, f \in Fins : AddFinalizer(t, s, f)
         \/ AddBody(t)
         \/ AddCommit(t) /\ bver[call[t].scope] # call[t].ver
  PROVE  ScopeIInv'
<1>1. /\ ScopeTypeOK /\ ScAdded /\ ScOwned /\ call \in [Callers -> Calls]
      /\ fate \in [Fins -> {"new", "adding", "added", "refused"}]
  BY DEF ScopeIInv, ScopeTypeOK
<1>2. UNCHANGED <<made, closed, parent, children, bucket, bver, emptied, latch, stack, owned,
                  late, stored, ran>>
  BY DEF AddFinalizer, AddBody, AddCommit
<1>3. ASSUME NEW k \in Calls, call' = [call EXCEPT ![t] = k], call[t].op \in {"none", "add"},
             k.op \in {"none", "add"}
      PROVE  /\ call' \in [Callers -> Calls] /\ ScOwned' /\ call'[t] = k
             /\ \A u \in Callers : u # t => call'[u] = call[u]
  <2>1. /\ call' \in [Callers -> Calls] /\ call'[t] = k
        /\ \A u \in Callers : u # t => call'[u] = call[u]
    BY <1>1, <1>3, ScSetCall
  <2>2. \A u \in Callers : call'[u].op \in {"fork", "extend"} => call'[u] = call[u]
    BY <1>3, <2>1
  <2>3. \A u \in Callers : call[u].op = "fork" => call'[u] = call[u] BY <1>3, <2>1
  <2>4. ScOwned'
    <3>1. \A d, r \in Scopes : <<d, r>> \in owned' =>
            /\ d \in Range(children'[r])
            /\ d \in made' \/ \E u \in Callers : call'[u].op = "fork" /\ call'[u].child = d
      BY <1>1, <1>2, <2>3 DEF ScOwned
    <3>2. QED BY <1>1, <1>2, <2>2, <3>1 DEF ScOwned
  <2>5. QED BY <2>1, <2>4
<1>4. ASSUME call' \in [Callers -> Calls], ScOwned', ScAdded',
             fate' \in [Fins -> {"new", "adding", "added", "refused"}]
      PROVE  ScopeIInv'
  <2>1. ScopeTypeOK' BY <1>1, <1>2, <1>4 DEF ScopeTypeOK
  <2>2. QED BY <1>2, <1>4, <2>1, ScCalls
<1>5. ASSUME NEW s \in Scopes, NEW f \in Fins, AddFinalizer(t, s, f) PROVE ScopeIInv'
  <2>1. fate[f] = "new" /\ call[t].op = "none" /\ call[t] = NoCall BY <1>5 DEF AddFinalizer, Free, NoCall
  <2>2. /\ \A r \in Scopes : f \notin Range(stored[r])
        /\ f \notin emptied \cup late \cup Range(ran)
        /\ \A u \in Callers : call[u].op = "add" => call[u].fin # f
    BY <1>1, <2>1 DEF ScAdded
  <2>3. CASE IsClosed(s)
    <3>1. fate' = [fate EXCEPT ![f] = "refused"] /\ call' = call
      BY <1>5, <2>3 DEF AddFinalizer
    <3>2. /\ fate' \in [Fins -> {"new", "adding", "added", "refused"}]
          /\ \A g \in Fins : g # f => fate'[g] = fate[g]
      BY <1>1, <3>1
    <3>3. \A r \in Scopes : \A g \in Range(stored[r]) : fate'[g] = "added"
      <4>1. \A r \in Scopes : Range(stored[r]) \subseteq Fins BY <1>1, RangeOf DEF ScopeTypeOK
      <4>2. QED BY <1>1, <2>2, <3>2, <4>1 DEF ScAdded
    <3>4. \A g \in emptied \cup late \cup Range(ran) : fate'[g] = "added"
      <4>1. emptied \cup late \cup Range(ran) \subseteq Fins BY <1>1, RangeOf DEF ScopeTypeOK
      <4>2. QED BY <1>1, <2>2, <3>2, <4>1 DEF ScAdded
    <3>5. \A u \in Callers : call[u].op = "add" => call[u].fin \in Fins
      BY <1>1 DEF Calls, NoCall
    <3>6. \A u \in Callers : call[u].op = "add" => fate'[call[u].fin] = "adding"
      BY <1>1, <2>2, <3>2, <3>5 DEF ScAdded
    <3>7. ScAdded' BY <1>1, <1>2, <3>1, <3>3, <3>4, <3>6 DEF ScAdded
    <3>8. ScOwned' BY <1>1, <1>2, <3>1 DEF ScOwned
    <3>9. QED BY <1>1, <1>4, <3>1, <3>2, <3>7, <3>8
  <2>4. CASE ~IsClosed(s)
    <3>1. PICK k : k = [op |-> "add", scope |-> s, fin |-> f, read |-> FALSE, ver |-> 0] OBVIOUS
    <3>2. k \in Calls /\ k.op = "add" /\ k.fin = f BY <3>1 DEF Calls
    <3>3. fate' = [fate EXCEPT ![f] = "adding"] /\ call' = [call EXCEPT ![t] = k]
      BY <1>5, <2>4, <3>1 DEF AddFinalizer
    <3>4. /\ fate' \in [Fins -> {"new", "adding", "added", "refused"}] /\ fate'[f] = "adding"
          /\ \A g \in Fins : g # f => fate'[g] = fate[g]
      BY <1>1, <3>3
    <3>5. /\ call' \in [Callers -> Calls] /\ ScOwned' /\ call'[t] = k
          /\ \A u \in Callers : u # t => call'[u] = call[u]
      BY <1>3, <2>1, <3>2, <3>3
    <3>6. \A r \in Scopes : \A g \in Range(stored[r]) : fate'[g] = "added"
      <4>1. \A r \in Scopes : Range(stored[r]) \subseteq Fins BY <1>1, RangeOf DEF ScopeTypeOK
      <4>2. QED BY <1>1, <2>2, <3>4, <4>1 DEF ScAdded
    <3>7. \A g \in emptied \cup late \cup Range(ran) : fate'[g] = "added"
      <4>1. emptied \cup late \cup Range(ran) \subseteq Fins BY <1>1, RangeOf DEF ScopeTypeOK
      <4>2. QED BY <1>1, <2>2, <3>4, <4>1 DEF ScAdded
    <3>8. \A u \in Callers : call[u].op = "add" => call[u].fin \in Fins
      BY <1>1 DEF Calls, NoCall
    <3>9. \A u \in Callers : call'[u].op = "add" => fate'[call'[u].fin] = "adding"
      <4> SUFFICES ASSUME NEW u \in Callers, call'[u].op = "add"
                   PROVE  fate'[call'[u].fin] = "adding"
        OBVIOUS
      <4>1. CASE u = t BY <3>2, <3>4, <3>5, <4>1
      <4>2. CASE u # t BY <1>1, <2>2, <3>4, <3>5, <3>8, <4>2 DEF ScAdded
      <4>3. QED BY <4>1, <4>2
    <3>10. \A u, v \in Callers : call'[u].op = "add" /\ call'[v].op = "add"
              /\ call'[u].fin = call'[v].fin => u = v
      BY <1>1, <2>2, <3>2, <3>5 DEF ScAdded
    <3>11. ScAdded' BY <1>1, <1>2, <3>6, <3>7, <3>9, <3>10 DEF ScAdded
    <3>12. QED BY <1>4, <3>4, <3>5, <3>11
  <2>5. QED BY <2>3, <2>4
<1>6. CASE AddBody(t) \/ (AddCommit(t) /\ bver[call[t].scope] # call[t].ver)
  <2>1. call[t].op = "add" /\ call[t] \in Calls BY <1>1, <1>6 DEF AddBody, AddCommit
  <2>2. call[t] \in [op : {"add"}, scope : Scopes, fin : Fins, read : BOOLEAN, ver : Nat]
    BY <2>1 DEF Calls, NoCall
  <2>3. bver[call[t].scope] \in Nat BY <1>1, <2>2 DEF ScopeTypeOK
  <2>4. PICK k \in Calls : call' = [call EXCEPT ![t] = k] /\ k.op = "add" /\ k.fin = call[t].fin
    <3>1. CASE AddBody(t)
      <4>1. PICK k : k = [call[t] EXCEPT !.read = TRUE, !.ver = bver[call[t].scope]] OBVIOUS
      <4>2. k \in Calls /\ k.op = "add" /\ k.fin = call[t].fin BY <2>2, <2>3, <4>1 DEF Calls
      <4>3. call' = [call EXCEPT ![t] = k] BY <1>1, <3>1, <4>1 DEF AddBody
      <4>4. QED BY <4>2, <4>3
    <3>2. CASE AddCommit(t) /\ bver[call[t].scope] # call[t].ver
      <4>1. PICK k : k = [call[t] EXCEPT !.read = FALSE, !.ver = 0] OBVIOUS
      <4>2. k \in Calls /\ k.op = "add" /\ k.fin = call[t].fin BY <2>2, <4>1 DEF Calls
      <4>3. call' = [call EXCEPT ![t] = k] BY <1>1, <3>2, <4>1 DEF AddCommit
      <4>4. QED BY <4>2, <4>3
    <3>3. QED BY <1>6, <3>1, <3>2
  <2>5. fate' = fate BY <1>6 DEF AddBody, AddCommit
  <2>6. /\ call' \in [Callers -> Calls] /\ ScOwned' /\ call'[t] = k
        /\ \A u \in Callers : u # t => call'[u] = call[u]
    BY <1>3, <2>1, <2>4
  <2>7. \A u \in Callers : call'[u].op = "add" => call[u].op = "add" /\ call'[u].fin = call[u].fin
    BY <2>1, <2>4, <2>6
  <2>8. ScAdded'
    <3>1. \A u \in Callers : call'[u].op = "add" => fate'[call'[u].fin] = "adding"
      BY <1>1, <2>5, <2>7 DEF ScAdded
    <3>2. \A u, v \in Callers : call'[u].op = "add" /\ call'[v].op = "add"
             /\ call'[u].fin = call'[v].fin => u = v
      BY <1>1, <2>7 DEF ScAdded
    <3>3. QED BY <1>1, <1>2, <2>5, <3>1, <3>2 DEF ScAdded
  <2>9. QED BY <1>1, <1>4, <2>5, <2>6, <2>8
<1>7. QED BY <1>5, <1>6

\* The commit that stores a finalizer: it is new to everything, and late if the scope
\* was marked closed meanwhile, so that the close of that scope is disturbed.
LEMMA ScStoreOk ==
  ASSUME ScopeIInv, NEW t \in Callers, AddCommit(t), bver[call[t].scope] = call[t].ver
  PROVE  ScopeIInv'
<1>1. /\ ScopeTypeOK /\ ScAdded /\ ScLifo /\ ScOpen /\ ScOwned /\ call \in [Callers -> Calls]
      /\ fate \in [Fins -> {"new", "adding", "added", "refused"}]
      /\ stored \in [Scopes -> Seq(Fins)] /\ bucket \in [Scopes -> Seq(Fins)]
      /\ bver \in [Scopes -> Nat] /\ ran \in Seq(Fins)
  BY DEF ScopeIInv, ScopeTypeOK
<1>2. call[t].op = "add" /\ call[t] \in Calls BY <1>1 DEF AddCommit
<1>3. PICK s \in Scopes, f \in Fins : s = call[t].scope /\ f = call[t].fin
  BY <1>2 DEF Calls, NoCall
<1>4. UNCHANGED <<made, closed, parent, children, emptied, latch, stack, ran, owned>>
  BY DEF AddCommit
<1>5. /\ bucket' = [bucket EXCEPT ![s] = Append(@, f)] /\ bver' = [bver EXCEPT ![s] = @ + 1]
      /\ fate' = [fate EXCEPT ![f] = "added"]
      /\ late' = IF closed[s] THEN late \cup {f} ELSE late
      /\ stored' = [stored EXCEPT ![s] = Append(@, f)] /\ call' = [call EXCEPT ![t] = NoCall]
  BY <1>3 DEF AddCommit
<1>6. fate[f] = "adding" BY <1>1, <1>2, <1>3 DEF ScAdded
<1>7. /\ \A r \in Scopes : f \notin Range(stored[r])
      /\ f \notin emptied \cup late \cup Range(ran)
      /\ \A u \in Callers : u # t /\ call[u].op = "add" => call[u].fin # f
  <2>1. /\ \A r \in Scopes : f \notin Range(stored[r])
        /\ f \notin emptied \cup late \cup Range(ran)
    BY <1>1, <1>6 DEF ScAdded
  <2>2. \A u \in Callers : u # t /\ call[u].op = "add" => call[u].fin # f
    BY <1>1, <1>2, <1>3 DEF ScAdded
  <2>3. QED BY <2>1, <2>2
<1>8. PICK old \in Seq(Fins) : old = stored[s] BY <1>1
<1>9. IsInjective(old) /\ f \in Fins \ Range(old) BY <1>1, <1>7, <1>8 DEF ScAdded
<1>10. /\ Append(old, f) \in Seq(Fins) /\ IsInjective(Append(old, f))
       /\ Range(Append(old, f)) = Range(old) \cup {f}
  BY <1>9, AppendOnce
<1>11. /\ Len(old) \in Nat /\ DOMAIN old = 1..Len(old) /\ DOMAIN Append(old, f) = 1..Len(old) + 1
       /\ Append(old, f)[Len(old) + 1] = f /\ \A i \in DOMAIN old : Append(old, f)[i] = old[i]
  OBVIOUS
<1>12. PICK new \in Seq(Fins) : new = Append(old, f) BY <1>10, Zenon
<1>13. /\ IsInjective(new) /\ Range(new) = Range(old) \cup {f}
       /\ \A i \in DOMAIN new : (i \in DOMAIN old /\ new[i] = old[i]) \/ new[i] = f
  <2>1. \A i \in DOMAIN new : i \in DOMAIN old \/ i = Len(old) + 1 BY <1>11, <1>12
  <2>2. QED BY <1>10, <1>11, <1>12, <2>1
<1>14. /\ stored' \in [Scopes -> Seq(Fins)] /\ stored'[s] = new
       /\ \A r \in Scopes : r # s => stored'[r] = stored[r]
  <2>1. stored' = [stored EXCEPT ![s] = new] BY <1>5, <1>8, <1>12
  <2>2. QED BY <1>1, <2>1
<1>15. /\ bucket' \in [Scopes -> Seq(Fins)]
       /\ bucket[s] = stored[s] => bucket'[s] = new
       /\ \A r \in Scopes : r # s => bucket'[r] = bucket[r]
  <2>1. PICK cells \in Seq(Fins) : cells = bucket[s] BY <1>1
  <2>2. Append(cells, f) \in Seq(Fins) BY RangeAppend
  <2>3. PICK more \in Seq(Fins) : more = Append(cells, f) BY <2>2, Zenon
  <2>4. bucket' = [bucket EXCEPT ![s] = more] BY <1>5, <2>1, <2>3
  <2>5. bucket[s] = stored[s] => more = new BY <1>8, <1>12, <2>1, <2>3
  <2>6. QED BY <1>1, <2>4, <2>5
<1>16. bver' \in [Scopes -> Nat] /\ \A r \in Scopes : r # s => bver'[r] = bver[r]
  BY <1>1, <1>5
<1>17. /\ fate' \in [Fins -> {"new", "adding", "added", "refused"}] /\ fate'[f] = "added"
       /\ \A g \in Fins : g # f => fate'[g] = fate[g]
  BY <1>1, <1>5
<1>18. late' \subseteq late \cup {f} /\ late \subseteq late' /\ (closed[s] => f \in late')
       /\ (~closed[s] => late' = late)
  BY <1>5
<1>19. PICK k : k = NoCall OBVIOUS
<1>20. k \in Calls /\ k.op = "none" BY <1>19 DEF Calls, NoCall
<1>21. /\ call' \in [Callers -> Calls] /\ call'[t] = k
       /\ \A u \in Callers : u # t => call'[u] = call[u]
  BY <1>1, <1>5, <1>19, <1>20, ScSetCall
<1>22. \A u \in Callers : call'[u].op \in {"add", "fork", "extend"} => u # t /\ call'[u] = call[u]
  BY <1>20, <1>21
<1>23. ScopeTypeOK'
  <2>1. late' \subseteq Fins BY <1>1, <1>18 DEF ScopeTypeOK
  <2>2. QED BY <1>1, <1>4, <1>14, <1>15, <1>16, <1>17, <1>21, <2>1 DEF ScopeTypeOK
<1>24. /\ \A r \in Scopes : Range(stored[r]) \subseteq Range(stored'[r])
       /\ \A r \in Scopes : Range(stored'[r]) \subseteq Range(stored[r]) \cup {f}
       /\ \A r \in Scopes : r # s => f \notin Range(stored'[r])
       /\ f \in Range(stored'[s])
       /\ \A r \in Scopes : \A i \in DOMAIN stored'[r] : stored'[r][i] # f =>
             i \in DOMAIN stored[r] /\ stored'[r][i] = stored[r][i]
  BY <1>7, <1>8, <1>13, <1>14
<1>25. \A r \in Scopes : ScUndisturbed(r)' => ScUndisturbed(r) /\ ~(r = s /\ closed[s])
  BY <1>18, <1>24 DEF ScUndisturbed
<1>26. ScAdded'
  <2>1. \A r \in Scopes : IsInjective(stored'[r]) BY <1>1, <1>13, <1>14 DEF ScAdded
  <2>2. \A q, r \in Scopes : q # r => Range(stored'[q]) \cap Range(stored'[r]) = {}
    <3>1. \A q, r \in Scopes : q # r => Range(stored[q]) \cap Range(stored[r]) = {}
      BY <1>1 DEF ScAdded
    <3>2. \A r \in Scopes : r # s => Range(stored'[r]) = Range(stored[r]) BY <1>14
    <3>3. Range(stored'[s]) = Range(stored[s]) \cup {f} BY <1>8, <1>13, <1>14
    <3>4. ASSUME NEW q \in Scopes, NEW r \in Scopes, q # r
          PROVE  Range(stored'[q]) \cap Range(stored'[r]) = {}
      <4>1. CASE q = s BY <1>7, <3>1, <3>2, <3>3, <3>4, <4>1
      <4>2. CASE r = s BY <1>7, <3>1, <3>2, <3>3, <3>4, <4>2
      <4>3. CASE q # s /\ r # s BY <3>1, <3>2, <3>4, <4>3
      <4>4. QED BY <4>1, <4>2, <4>3
    <3>5. QED BY <3>4
  <2>3. \A r \in Scopes : \A g \in Range(stored'[r]) : fate'[g] = "added"
    <3>1. \A r \in Scopes : Range(stored[r]) \subseteq Fins BY <1>1, RangeOf
    <3>2. QED BY <1>1, <1>17, <1>24, <3>1 DEF ScAdded
  <2>4. \A g \in emptied \cup late' \cup Range(ran) : fate'[g] = "added"
    <3>1. emptied \cup late \cup Range(ran) \subseteq Fins BY <1>1, RangeOf DEF ScopeTypeOK
    <3>2. QED BY <1>1, <1>17, <1>18, <3>1 DEF ScAdded
  <2>5. \A u \in Callers : call'[u].op = "add" => fate'[call'[u].fin] = "adding"
    <3>1. \A u \in Callers : call[u].op = "add" => call[u].fin \in Fins
      <4>1. \A u \in Callers : call[u] \in Calls BY <1>1
      <4>2. QED BY <4>1 DEF Calls, NoCall
    <3>2. QED BY <1>1, <1>7, <1>17, <1>22, <3>1 DEF ScAdded
  <2>6. \A u, v \in Callers : call'[u].op = "add" /\ call'[v].op = "add"
             /\ call'[u].fin = call'[v].fin => u = v
    BY <1>1, <1>22 DEF ScAdded
  <2>7. QED BY <1>4, <2>1, <2>2, <2>3, <2>4, <2>5, <2>6 DEF ScAdded
<1>27. \A i \in DOMAIN ran : ran[i] # f BY <1>7 DEF Range
<1>28. ScLifo' BY <1>1, <1>4, <1>24, <1>27 DEF ScLifo
<1>29. ScOwned'
  <2>1. \A u \in Callers : call[u].op = "fork" => call'[u] = call[u] BY <1>2, <1>21
  <2>2. \A d, r \in Scopes : <<d, r>> \in owned' =>
          /\ d \in Range(children'[r])
          /\ d \in made' \/ \E u \in Callers : call'[u].op = "fork" /\ call'[u].child = d
    BY <1>1, <1>4, <2>1 DEF ScOwned
  <2>3. \A u \in Callers : call'[u].op = "fork" =>
          /\ call'[u].child \notin made'
          /\ \A r \in Scopes : <<call'[u].child, r>> \in owned' => r = call'[u].scope
    BY <1>1, <1>4, <1>22 DEF ScOwned
  <2>4. \A u, v \in Callers :
          call'[u].op = "fork" /\ call'[v].op = "fork" /\ call'[u].child = call'[v].child => u = v
    BY <1>1, <1>22 DEF ScOwned
  <2>5. \A u \in Callers : call'[u].op = "extend" => call'[u].child \in made'
    BY <1>1, <1>4, <1>22 DEF ScOwned
  <2>6. QED BY <2>2, <2>3, <2>4, <2>5 DEF ScOwned
<1>30. ScOpen'
  <2> SUFFICES ASSUME NEW r \in Scopes
               PROVE  /\ ~closed[r] => /\ bucket'[r] = stored'[r]
                                       /\ Range(stored'[r]) \cap (emptied \cup late' \cup Range(ran)) = {}
                      /\ latch[r] => closed[r] /\ (ScUndisturbed(r)' => Range(stored'[r]) \subseteq Range(ran))
    BY <1>4 DEF ScOpen
  <2>1. CASE r = s
    <3>1. ~closed[s] => bucket'[s] = stored'[s] BY <1>1, <1>14, <1>15 DEF ScOpen
    <3>2. ~closed[s] => Range(stored'[s]) \cap (emptied \cup late' \cup Range(ran)) = {}
      BY <1>1, <1>7, <1>18, <1>24 DEF ScOpen
    <3>3. latch[s] => closed[s] /\ ~ScUndisturbed(s)' BY <1>1, <1>25 DEF ScOpen
    <3>4. QED BY <2>1, <3>1, <3>2, <3>3
  <2>2. CASE r # s
    <3>1. ~closed[r] => bucket'[r] = stored'[r] BY <1>1, <1>14, <1>15, <2>2 DEF ScOpen
    <3>2. ~closed[r] => Range(stored'[r]) \cap (emptied \cup late' \cup Range(ran)) = {}
      BY <1>1, <1>14, <1>18, <1>24, <2>2 DEF ScOpen
    <3>3. latch[r] => closed[r] /\ (ScUndisturbed(r)' => Range(stored'[r]) \subseteq Range(ran))
      BY <1>1, <1>14, <1>25, <2>2 DEF ScOpen
    <3>4. QED BY <3>1, <3>2, <3>3
  <2>3. QED BY <2>1, <2>2
<1>31. ASSUME NEW fr \in ScSound PROVE fr \in ScSound'
  <2>1. PICK r \in Scopes : r = fr.scope BY DEF ScSound, Frames
  <2>2. ScFrameOk(fr) /\ fr \in Frames BY DEF ScSound
  <2>3. closed[r] /\ ~latch[r] BY <2>1, <2>2 DEF ScFrameOk
  <2>4. fr.phase \in {"commit", "run"} => ScInOrder(fr.fins, r) BY <2>1, <2>2 DEF ScFrameOk
  <2>5. fr.phase \in {"commit", "run"} => \A i \in DOMAIN fr.fins : fr.fins[i] # f
    BY <1>7, <2>4 DEF ScInOrder, Range
  <2>6. fr.phase \in {"commit", "run"} => ScInOrder(fr.fins, r)'
    BY <1>24, <2>4, <2>5 DEF ScInOrder
  <2>7. fr.phase # "run" => Range(stored'[r]) \cap Range(ran) = {} /\ bucket'[r] = stored'[r]
    <3>1. fr.phase # "run" => Range(stored[r]) \cap Range(ran) = {} /\ bucket[r] = stored[r]
      BY <2>1, <2>2 DEF ScFrameOk
    <3>2. QED BY <1>7, <1>14, <1>15, <1>24, <3>1
  <2>8. fr.phase = "run" =>
          \A i \in DOMAIN fr.fins, j \in DOMAIN ran, a, b \in DOMAIN stored'[r] :
             stored'[r][a] = fr.fins[i] /\ stored'[r][b] = ran[j] => a < b
    BY <1>24, <1>27, <2>1, <2>2, <2>5 DEF ScFrameOk
  <2>9. ScUndisturbed(r)' => /\ ScUndisturbed(r) /\ r # s /\ stored'[r] = stored[r]
                             /\ bver'[r] = bver[r]
    BY <1>14, <1>16, <1>25, <2>3
  <2>10. /\ fr.phase \in {"snapshot", "children", "drain"} /\ ScUndisturbed(r)' =>
             Range(stored'[r]) \cap emptied = {}
         /\ fr.phase = "commit" /\ ScUndisturbed(r)' =>
              Range(stored'[r]) \subseteq Range(fr.fins) /\ fr.ver = bver'[r]
         /\ fr.phase = "run" /\ ScUndisturbed(r)' =>
              Range(stored'[r]) \subseteq Range(fr.fins) \cup Range(ran)
    BY <2>1, <2>2, <2>9 DEF ScFrameOk
  <2>11. ScFrameOk(fr)'
    <3>1. /\ fr.phase \notin {"snapshot", "children"} => fr.todo = <<>>
          /\ fr.phase # "snapshot" => \A c \in Scopes : <<c, r>> \in owned =>
               c \in Range(fr.todo) \/ closed[c] \/ c \notin made
      BY <2>1, <2>2 DEF ScFrameOk
    <3>2. QED BY <1>4, <2>1, <2>3, <2>6, <2>7, <2>8, <2>10, <3>1 DEF ScFrameOk
  <2>12. QED BY <2>2, <2>11 DEF ScSound
<1>32. ScFrames' BY <1>4, <1>31, ScRests
<1>33. QED BY <1>23, <1>26, <1>28, <1>29, <1>30, <1>32 DEF ScopeIInv

\* The inductive invariant implies what the run checks.
LEMMA ScImplies ==
  ASSUME ScopeIInv
  PROVE  ScopeInv
<1>1. ScopeTypeOK /\ ScFrames /\ ScAdded /\ ScLifo /\ ScOpen /\ ScOwned BY DEF ScopeIInv
<1>2. \A s \in Scopes : ToSet(stored[s]) = Range(stored[s]) BY <1>1, RangeOf DEF ScopeTypeOK
<1>3. ToSet(ran) = Range(ran) BY <1>1, RangeOf DEF ScopeTypeOK
<1>4. FinalizersLifo
  <2> SUFFICES ASSUME NEW i \in DOMAIN ran, NEW j \in DOMAIN ran, i < j
               PROVE  /\ ran[i] # ran[j]
                      /\ \A s \in Scopes : {ran[i], ran[j]} \subseteq ToSet(stored[s]) =>
                            Position(ran[i], stored[s]) > Position(ran[j], stored[s])
    BY DEF FinalizersLifo
  <2>1. ran[i] # ran[j]
    <3>1. i \in Nat /\ j \in Nat /\ i # j BY <1>1 DEF ScopeTypeOK
    <3>2. QED BY <1>1, <3>1 DEF ScLifo, IsInjective
  <2>2. ASSUME NEW s \in Scopes, {ran[i], ran[j]} \subseteq ToSet(stored[s])
        PROVE  Position(ran[i], stored[s]) > Position(ran[j], stored[s])
    <3>1. PICK x, y : x = ran[i] /\ y = ran[j] OBVIOUS
    <3>2. x \in Range(stored[s]) /\ y \in Range(stored[s]) BY <1>2, <2>2, <3>1
    <3>3. Position(x, stored[s]) \in DOMAIN stored[s] /\ stored[s][Position(x, stored[s])] = x
      BY <3>2 DEF Position, Range
    <3>4. Position(y, stored[s]) \in DOMAIN stored[s] /\ stored[s][Position(y, stored[s])] = y
      BY <3>2 DEF Position, Range
    <3>5. Position(x, stored[s]) > Position(y, stored[s]) BY <1>1, <3>1, <3>3, <3>4 DEF ScLifo
    <3>6. QED BY <3>1, <3>5
  <2>3. QED BY <2>1, <2>2
<1>5. NoFinalizerAfterLatch
  <2>1. \A fr \in ScSound : ~latch[fr.scope] BY DEF ScSound, ScFrameOk
  <2>2. QED BY <1>1, <2>1 DEF NoFinalizerAfterLatch, ScFrames
<1>6. UndisturbedCloseRunsAll
  BY <1>1, <1>2, <1>3 DEF UndisturbedCloseRunsAll, ScOpen, ScUndisturbed
<1>7. ChildrenClosedFirst
  <2> SUFFICES ASSUME NEW t \in Callers, At(t, "run"), NEW c \in made,
                      <<c, Top(t).scope>> \in owned
               PROVE  closed[c]
    BY DEF ChildrenClosedFirst
  <2>1. stack[t] # <<>> /\ Top(t).phase = "run" BY DEF At
  <2>2. PICK top \in ScSound : top = Top(t) BY <2>1, ScTopSound
  <2>3. top.todo = <<>> /\ top.scope \in Scopes /\ c \in Scopes
    BY <1>1, <2>1, <2>2, ScTopSound DEF ScSound, ScFrameOk, ScopeTypeOK
  <2>4. Range(top.todo) = {} BY <2>3, EmptyLine
  <2>5. c \in Range(top.todo) \/ closed[c] \/ c \notin made
    BY <2>1, <2>2, <2>3 DEF ScSound, ScFrameOk
  <2>6. QED BY <2>4, <2>5
<1>8. QED BY <1>1, <1>4, <1>5, <1>6, <1>7 DEF ScopeInv

\* close_with_exit of scope.rs, for any number of threads and scopes and whatever fork,
\* extend and add_finalizer calls overlap it: finalizers run in reverse order of
\* registration and none twice, no finalizer of a scope runs after its latch, a close
\* that no registration overtook runs all of them, and the children go first.
THEOREM ScopeInvariant == ScopeSpec => []ScopeInv
<1>1. ScopeInit => ScopeIInv
  <2> SUFFICES ASSUME ScopeInit PROVE ScopeIInv OBVIOUS
  <2>1. DOMAIN <<>> = {} /\ Range(<<>>) = {} /\ IsInjective(<<>>) BY EmptyLine
  <2>2. \A t \in Callers : stack[t] = <<>> /\ call[t].op = "none" BY DEF ScopeInit, NoCall
  <2>3. \A s \in Scopes : stored[s] = <<>> /\ bucket[s] = <<>> /\ ~latch[s] BY DEF ScopeInit
  <2>4. ScopeTypeOK
    <3>1. NoCall \in Calls BY DEF Calls
    <3>2. <<>> \in Seq(Scopes) /\ <<>> \in Seq(Fins) /\ <<>> \in Seq(Frames) OBVIOUS
    <3>3. QED BY <3>1, <3>2, ScopeAssumption DEF ScopeInit, ScopeTypeOK
  <2>5. ScFrames
    <3>1. \A t \in Callers : DOMAIN stack[t] = {} BY <2>1, <2>2
    <3>2. QED BY <3>1 DEF ScFrames
  <2>6. ScAdded
    <3>1. \A s \in Scopes : Range(stored[s]) = {} /\ IsInjective(stored[s]) BY <2>1, <2>3
    <3>2. emptied = {} /\ late = {} /\ Range(ran) = {} BY <2>1 DEF ScopeInit
    <3>3. QED BY <2>2, <3>1, <3>2 DEF ScAdded
  <2>7. ScLifo BY <2>1 DEF ScopeInit, ScLifo
  <2>8. ScOpen
    <3>1. \A s \in Scopes : Range(stored[s]) = {} BY <2>1, <2>3
    <3>2. QED BY <2>3, <3>1 DEF ScOpen
  <2>9. ScOwned BY <2>2 DEF ScopeInit, ScOwned
  <2>10. QED BY <2>4, <2>5, <2>6, <2>7, <2>8, <2>9 DEF ScopeIInv
<1>2. ScopeIInv /\ [ScopeNext]_scopevars => ScopeIInv'
  <2> SUFFICES ASSUME ScopeIInv, [ScopeNext]_scopevars PROVE ScopeIInv' OBVIOUS
  <2>1. CASE UNCHANGED scopevars
    <3>1. ScopeTypeOK' BY <2>1 DEF scopevars, ScopeIInv, ScopeTypeOK
    <3>2. ScAdded' BY <2>1 DEF scopevars, ScopeIInv, ScAdded
    <3>3. ScOwned' BY <2>1 DEF scopevars, ScopeIInv, ScOwned
    <3>4. QED BY <2>1, <3>1, <3>2, <3>3, ScCalls DEF scopevars
  <2>2. ASSUME NEW t \in Callers, Invoke(t) PROVE ScopeIInv'
    <3>1. ASSUME NEW s \in Scopes, Close(t, s) PROVE ScopeIInv' BY <3>1, ScCloseOk
    <3>2. ASSUME NEW s \in Scopes, NEW c \in Scopes, Fork(t, s, c) PROVE ScopeIInv'
      BY <3>2, ScForkOk
    <3>3. ASSUME NEW s \in Scopes, NEW c \in Scopes, Extend(t, s, c) PROVE ScopeIInv'
      BY <3>3, ScExtendOk
    <3>4. ASSUME NEW s \in Scopes, NEW f \in Fins, AddFinalizer(t, s, f) PROVE ScopeIInv'
      BY <3>4, ScAddOk
    <3>5. QED BY <2>2, <3>1, <3>2, <3>3, <3>4 DEF Invoke
  <2>3. ASSUME NEW t \in Callers, Continue(t) PROVE ScopeIInv'
    <3>1. CASE Snapshot(t) \/ ChildrenClosed(t) BY <3>1, ScWalkOk
    <3>2. CASE CloseChild(t) BY <3>2, ScCloseOk
    <3>3. CASE DrainBody(t) BY <3>3, ScDrainBodyOk
    <3>4. CASE DrainCommit(t) BY <3>4, ScDrainCommitOk
    <3>5. CASE RunFinalizer(t) BY <3>5, ScRunOk
    <3>6. CASE OpenLatch(t) BY <3>6, ScLatchOk
    <3>7. CASE ForkCheck(t) BY <3>7, ScForkCheckOk
    <3>8. CASE ExtendLink(t) \/ ExtendStore(t) BY <3>8, ScExtendOk
    <3>9. CASE AddBody(t) BY <3>9, ScAddOk
    <3>10. CASE AddCommit(t) BY <3>10, ScAddOk, ScStoreOk
    <3>11. QED BY <2>3, <3>1, <3>2, <3>3, <3>4, <3>5, <3>6, <3>7, <3>8, <3>9, <3>10 DEF Continue
  <2>4. QED BY <2>1, <2>2, <2>3 DEF ScopeNext
<1>3. ScopeIInv => ScopeInv BY ScImplies
<1>4. QED BY <1>1, <1>2, <1>3, PTL DEF ScopeSpec

(***************************************************************************)
(* Fiber references.                                                       *)
(***************************************************************************)

\* A locally is on the fiber of its task, and every task has saved a value for each of
\* its own.  While the calls on a fiber have nested, what the outermost has saved is what
\* the operations outside of locally have left.
FrNested ==
  /\ \A f \in FrFibers : \A i \in DOMAIN frnest[f] : FrOn[frnest[f][i]] = f
  /\ \A t \in FrTasks : Len(frsaved[t]) = Cardinality(FrPlaces(t))
FrOutermost ==
  \A f \in FrFibers \ frcrossed :
     IF frnest[f] = <<>> THEN frslot[f] = frbase[f] ELSE frsaved[frnest[f][1]][1] = frbase[f]

\* The inductive invariant.
FiberRefIInv == FiberRefTypeOK /\ FrNested /\ FrOutermost

\* Types, and what an empty list of calls or of values says of the other.
LEMMA FrFacts ==
  ASSUME FiberRefIInv, NEW t \in FrTasks
  PROVE  /\ FrOn[t] \in FrFibers /\ frnest[FrOn[t]] \in Seq(FrTasks) /\ frsaved[t] \in Seq(FrSlots)
         /\ IsFiniteSet(FrPlaces(t)) /\ Cardinality(FrPlaces(t)) = Len(frsaved[t])
         /\ Len(frsaved[t]) \in Nat
         /\ frsaved[t] = <<>> <=> FrPlaces(t) = {}
<1>1. /\ FrOn[t] \in FrFibers /\ frnest[FrOn[t]] \in Seq(FrTasks) /\ frsaved[t] \in Seq(FrSlots)
  BY FiberRefAssumption DEF FiberRefIInv, FiberRefTypeOK
<1>2. Cardinality(FrPlaces(t)) = Len(frsaved[t]) BY DEF FiberRefIInv, FrNested
<1>a. FrPlaces(t) = PlacesOf(frnest[FrOn[t]], t) BY DEF FrPlaces, PlacesOf
<1>3. IsFiniteSet(FrPlaces(t)) BY <1>1, <1>a, Places
<1>4. Cardinality(FrPlaces(t)) = 0 <=> FrPlaces(t) = {} BY <1>3, FS_EmptySet
<1>5. Len(frsaved[t]) = 0 <=> frsaved[t] = <<>> BY <1>1
<1>6. Len(frsaved[t]) \in Nat BY <1>1
<1>7. QED BY <1>1, <1>2, <1>3, <1>4, <1>5, <1>6

\* Operations outside of locally, and within, that store slots.
LEMMA FrStoreOk ==
  ASSUME FiberRefIInv, NEW slots \in [FrFibers -> FrSlots], FrCount, FrStore(slots),
         UNCHANGED <<frsaved, frnest, frcrossed>>
  PROVE  FiberRefIInv'
<1>1. FiberRefTypeOK /\ FrNested /\ FrOutermost BY DEF FiberRefIInv
<1>2. frslot' = slots /\ frbase' \in [FrFibers -> FrSlots] BY <1>1 DEF FrStore, FiberRefTypeOK
<1>3. \A f \in FrFibers : frbase'[f] = IF frnest[f] = <<>> THEN slots[f] ELSE frbase[f]
  BY DEF FrStore
<1>4. frcount' \in 0..FrOps
  <2>1. frcount \in 0..FrOps /\ frcount < FrOps /\ frcount' = frcount + 1
    BY <1>1 DEF FrCount, FiberRefTypeOK
  <2>2. QED BY <2>1, FiberRefAssumption
<1>5. FiberRefTypeOK' BY <1>1, <1>2, <1>4 DEF FiberRefTypeOK
<1>6. FrNested' BY <1>1 DEF FrNested, FrPlaces
<1>7. FrOutermost' BY <1>1, <1>2, <1>3 DEF FrOutermost
<1>8. QED BY <1>5, <1>6, <1>7 DEF FiberRefIInv

\* locally begins.
LEMMA FrLocallyOk ==
  ASSUME FiberRefIInv, NEW t \in FrTasks, NEW v \in FrValues, FrLocally(t, v)
  PROVE  FiberRefIInv'
<1>1. FiberRefTypeOK /\ FrNested /\ FrOutermost BY DEF FiberRefIInv
<1>2. PICK f \in FrFibers : f = FrOn[t] BY FrFacts
<1>3. /\ frslot \in [FrFibers -> FrSlots] /\ frsaved \in [FrTasks -> Seq(FrSlots)]
      /\ frnest \in [FrFibers -> Seq(FrTasks)] /\ frslot[f] \in FrSlots /\ v \in FrSlots
  BY <1>1 DEF FiberRefTypeOK, FrSlots
<1>4. PICK kept \in Seq(FrSlots) : kept = frsaved[t] BY <1>3
<1>5. PICK nest \in Seq(FrTasks) : nest = frnest[f] BY <1>3
<1>6. PICK x \in FrSlots : x = frslot[f] BY <1>3
<1>7. Append(kept, x) \in Seq(FrSlots) /\ Append(nest, t) \in Seq(FrTasks) OBVIOUS
<1>8. PICK kept2 \in Seq(FrSlots) : kept2 = Append(kept, x) BY <1>7, Zenon
<1>9. PICK nest2 \in Seq(FrTasks) : nest2 = Append(nest, t) BY <1>7, Zenon
<1>10. /\ frsaved' = [frsaved EXCEPT ![t] = kept2] /\ frnest' = [frnest EXCEPT ![f] = nest2]
       /\ frslot' = [frslot EXCEPT ![f] = v] /\ UNCHANGED <<frbase, frcrossed>>
  BY <1>2, <1>4, <1>5, <1>6, <1>8, <1>9 DEF FrLocally
<1>11. /\ frsaved' \in [FrTasks -> Seq(FrSlots)] /\ frsaved'[t] = kept2
       /\ \A u \in FrTasks : u # t => frsaved'[u] = frsaved[u]
  BY <1>3, <1>10
<1>12. /\ frnest' \in [FrFibers -> Seq(FrTasks)] /\ frnest'[f] = nest2
       /\ \A g \in FrFibers : g # f => frnest'[g] = frnest[g]
  BY <1>3, <1>10
<1>13. frslot' \in [FrFibers -> FrSlots] /\ \A g \in FrFibers : g # f => frslot'[g] = frslot[g]
  BY <1>3, <1>10
<1>14. frcount' \in 0..FrOps
  <2>1. frcount \in 0..FrOps /\ frcount < FrOps /\ frcount' = frcount + 1
    BY <1>1 DEF FrLocally, FrCount, FiberRefTypeOK
  <2>2. QED BY <2>1, FiberRefAssumption
<1>15. FiberRefTypeOK' BY <1>1, <1>10, <1>11, <1>12, <1>13, <1>14 DEF FiberRefTypeOK
<1>16. /\ Len(nest) \in Nat /\ DOMAIN nest = 1..Len(nest) /\ DOMAIN nest2 = 1..Len(nest) + 1
       /\ nest2[Len(nest) + 1] = t /\ \A i \in DOMAIN nest : nest2[i] = nest[i]
  BY <1>9
<1>17. /\ Len(kept) \in Nat /\ Len(kept2) = Len(kept) + 1 /\ kept2[Len(kept) + 1] = x
       /\ \A i \in 1..Len(kept) : kept2[i] = kept[i]
  BY <1>8
<1>18. \A i \in DOMAIN nest2 : i \in DOMAIN nest \/ i = Len(nest) + 1 BY <1>16
<1>19. \A g \in FrFibers : \A i \in DOMAIN frnest'[g] : FrOn[frnest'[g][i]] = g
  <2>1. \A g \in FrFibers : \A i \in DOMAIN frnest[g] : FrOn[frnest[g][i]] = g BY <1>1 DEF FrNested
  <2>2. \A i \in DOMAIN nest2 : FrOn[nest2[i]] = f BY <1>2, <1>5, <1>16, <1>18, <2>1
  <2>3. QED BY <1>12, <2>1, <2>2
<1>20. ASSUME NEW u \in FrTasks PROVE Len(frsaved'[u]) = Cardinality(FrPlaces(u)')
  <2>1. Len(frsaved[u]) = Cardinality(FrPlaces(u)) /\ FrOn[u] \in FrFibers BY FrFacts
  <2>2. CASE FrOn[u] # f
    <3>1. frnest'[FrOn[u]] = frnest[FrOn[u]] /\ frsaved'[u] = frsaved[u]
      BY <1>2, <1>11, <1>12, <2>1, <2>2
    <3>2. FrPlaces(u)' = FrPlaces(u) BY <3>1 DEF FrPlaces
    <3>3. QED BY <2>1, <3>1, <3>2, Zenon
  <2>3. CASE FrOn[u] = f
    <3>1. FrPlaces(u) = PlacesOf(nest, u) BY <1>5, <2>3 DEF FrPlaces, PlacesOf
    <3>2. FrPlaces(u)' = PlacesOf(Append(nest, t), u)
      BY <1>9, <1>12, <2>3 DEF FrPlaces, PlacesOf
    <3>3. Cardinality(PlacesOf(Append(nest, t), u))
            = IF u = t THEN Cardinality(PlacesOf(nest, u)) + 1
              ELSE Cardinality(PlacesOf(nest, u))
      BY PlacesAppend
    <3>4. Cardinality(FrPlaces(u)') = IF u = t THEN Cardinality(FrPlaces(u)) + 1
                                      ELSE Cardinality(FrPlaces(u))
      BY <3>1, <3>2, <3>3, Zenon
    <3>5. u = t => Len(frsaved'[u]) = Len(frsaved[u]) + 1 BY <1>4, <1>11, <1>17
    <3>6. u # t => Len(frsaved'[u]) = Len(frsaved[u]) BY <1>11
    <3>7. QED BY <2>1, <3>4, <3>5, <3>6
  <2>4. QED BY <2>2, <2>3
<1>21. FrNested' BY <1>19, <1>20 DEF FrNested
<1>22. ASSUME NEW g \in FrFibers, g \notin frcrossed'
       PROVE  IF frnest'[g] = <<>> THEN frslot'[g] = frbase'[g]
              ELSE frsaved'[frnest'[g][1]][1] = frbase'[g]
  <2>1. /\ IF frnest[g] = <<>> THEN frslot[g] = frbase[g] ELSE frsaved[frnest[g][1]][1] = frbase[g]
        /\ frbase'[g] = frbase[g]
    BY <1>1, <1>10, <1>22 DEF FrOutermost
  <2>2. frnest[g] \in Seq(FrTasks) BY <1>3
  <2>3. ASSUME frnest[g] # <<>>
        PROVE  /\ frnest[g][1] \in FrTasks /\ 1 \in DOMAIN frnest[g] /\ FrOn[frnest[g][1]] = g
               /\ frsaved'[frnest[g][1]][1] = frsaved[frnest[g][1]][1]
    <3>1. frnest[g][1] \in FrTasks /\ 1 \in DOMAIN frnest[g] BY <2>2, <2>3
    <3>2. FrOn[frnest[g][1]] = g BY <1>1, <3>1 DEF FrNested
    <3>3. PICK u \in FrTasks : u = frnest[g][1] BY <3>1
    <3>4. 1 \in FrPlaces(u) BY <3>1, <3>2, <3>3 DEF FrPlaces
    <3>5. frsaved[u] # <<>> BY <3>4, FrFacts
    <3>6. u = t => 1 \in 1..Len(kept) BY <1>4, <3>5
    <3>7. frsaved'[u][1] = frsaved[u][1] BY <1>4, <1>11, <1>17, <3>6
    <3>8. QED BY <3>1, <3>2, <3>3, <3>7
  <2>4. CASE g # f
    <3>1. frnest'[g] = frnest[g] /\ frslot'[g] = frslot[g] BY <1>12, <1>13, <2>4
    <3>2. QED BY <2>1, <2>3, <3>1
  <2>5. CASE g = f /\ nest # <<>>
    <3>1. 1 \in DOMAIN nest BY <2>5
    <3>2. frnest'[g] # <<>> /\ frnest'[g][1] = frnest[g][1]
      BY <1>5, <1>12, <1>16, <2>5, <3>1
    <3>3. QED BY <1>5, <2>1, <2>3, <2>5, <3>2
  <2>6. CASE g = f /\ nest = <<>>
    <3>1. Len(nest) = 0 BY <2>6
    <3>a. 1 \in DOMAIN nest2 /\ nest2[1] = t BY <1>16, <3>1
    <3>2. nest2 # <<>> /\ nest2[1] = t BY <3>a
    <3>3. FrPlaces(t) = {}
      <4>1. DOMAIN nest = {} BY <1>16, <3>1
      <4>2. QED BY <1>2, <1>5, <4>1 DEF FrPlaces
    <3>4. kept = <<>> BY <1>4, <3>3, FrFacts
    <3>5. Len(kept) = 0 BY <3>4
    <3>6. kept2[1] = x BY <1>17, <3>5
    <3>7. x = frbase[g] BY <1>5, <1>6, <2>1, <2>6
    <3>8. frnest'[g] = nest2 /\ frsaved'[t] = kept2 BY <1>11, <1>12, <2>6
    <3>9. QED BY <2>1, <3>2, <3>6, <3>7, <3>8
  <2>7. QED BY <2>4, <2>5, <2>6
<1>23. FrOutermost' BY <1>22 DEF FrOutermost
<1>24. QED BY <1>15, <1>21, <1>23 DEF FiberRefIInv

\* A locally ends or is dropped.
LEMMA FrLeaveOk ==
  ASSUME FiberRefIInv, NEW t \in FrTasks, FrLocallyEnds(t) \/ FrLocallyDropped(t)
  PROVE  FiberRefIInv'
<1>1. FiberRefTypeOK /\ FrNested /\ FrOutermost /\ FrLeave(t)
  BY DEF FiberRefIInv, FrLocallyEnds, FrLocallyDropped
<1>2. PICK f \in FrFibers : f = FrOn[t] BY FrFacts
<1>3. /\ frslot \in [FrFibers -> FrSlots] /\ frsaved \in [FrTasks -> Seq(FrSlots)]
      /\ frnest \in [FrFibers -> Seq(FrTasks)] /\ frcrossed \subseteq FrFibers
  BY <1>1 DEF FiberRefTypeOK
<1>4. PICK kept \in Seq(FrSlots) : kept = frsaved[t] BY <1>3
<1>5. PICK nest \in Seq(FrTasks) : nest = frnest[f] BY <1>3
<1>6. kept # <<>> /\ FrPlaces(t) # {} BY <1>1, <1>4, FrFacts DEF FrLeave
<1>7. PICK n \in Nat : n = Len(nest) /\ DOMAIN nest = 1..n OBVIOUS
<1>8. FrPlaces(t) = {i \in DOMAIN nest : nest[i] = t} BY <1>2, <1>5 DEF FrPlaces
<1>9. FrPlaces(t) \in SUBSET (0..n) BY <1>7, <1>8
<1>10. PICK k \in DOMAIN nest : k = FrLatest(t) /\ nest[k] = t
  <2>1. Max(FrPlaces(t)) \in FrPlaces(t) BY <1>6, <1>9, GreatestOf
  <2>2. QED BY <1>8, <2>1 DEF FrLatest
<1>11. /\ Front(kept) \in Seq(FrSlots) /\ Last(kept) \in FrSlots /\ Len(kept) \in Nat \ {0}
       /\ Len(Front(kept)) = Len(kept) - 1 /\ \A i \in 1..Len(kept) - 1 : Front(kept)[i] = kept[i]
       /\ Last(kept) = kept[Len(kept)]
  BY <1>6, FrontLast
<1>12. PICK kept2 \in Seq(FrSlots) : kept2 = Front(kept) BY <1>11, Zenon
<1>13. /\ RemoveAt(nest, k) \in Seq(FrTasks) /\ Len(RemoveAt(nest, k)) = n - 1
       /\ k \in 1..n /\ DOMAIN RemoveAt(nest, k) = 1..(n - 1)
       /\ \A i \in 1..(n - 1) : RemoveAt(nest, k)[i] = IF i < k THEN nest[i] ELSE nest[i + 1]
  BY <1>7, RemovedAt
<1>14. PICK nest2 \in Seq(FrTasks) : nest2 = RemoveAt(nest, k) BY <1>13, Zenon
<1>15. /\ frsaved' = [frsaved EXCEPT ![t] = kept2] /\ frnest' = [frnest EXCEPT ![f] = nest2]
  BY <1>1, <1>2, <1>4, <1>5, <1>10, <1>12, <1>14 DEF FrLeave
<1>16. /\ frsaved' \in [FrTasks -> Seq(FrSlots)] /\ frsaved'[t] = kept2
       /\ \A u \in FrTasks : u # t => frsaved'[u] = frsaved[u]
  BY <1>3, <1>15
<1>17. /\ frnest' \in [FrFibers -> Seq(FrTasks)] /\ frnest'[f] = nest2
       /\ \A g \in FrFibers : g # f => frnest'[g] = frnest[g]
  BY <1>3, <1>15
<1>18. /\ frslot' \in [FrFibers -> FrSlots] /\ UNCHANGED <<frbase, frcount>>
       /\ \A g \in FrFibers : g # f => frslot'[g] = frslot[g]
       /\ frcrossed' \subseteq FrFibers /\ frcrossed \subseteq frcrossed'
       /\ f \notin frcrossed' => frslot'[f] = Last(kept) /\ k = n
  <2>1. CASE FrLocallyEnds(t)
    <3>1. frslot' = [frslot EXCEPT ![f] = Last(kept)] /\ UNCHANGED <<frbase, frcount>>
      BY <1>2, <1>4, <2>1 DEF FrLocallyEnds
    <3>2. frcrossed' = IF k = n THEN frcrossed ELSE frcrossed \cup {f}
      BY <1>2, <1>5, <1>7, <1>10, <2>1 DEF FrLocallyEnds
    <3>3. QED BY <1>3, <1>11, <3>1, <3>2
  <2>2. CASE FrLocallyDropped(t)
    <3>1. frcrossed' = frcrossed \cup {f} /\ UNCHANGED <<frslot, frbase, frcount>>
      BY <1>2, <2>2 DEF FrLocallyDropped
    <3>2. QED BY <1>3, <3>1
  <2>3. QED BY <2>1, <2>2
<1>19. FiberRefTypeOK' BY <1>1, <1>16, <1>17, <1>18 DEF FiberRefTypeOK
<1>20. \A g \in FrFibers : \A i \in DOMAIN frnest'[g] : FrOn[frnest'[g][i]] = g
  <2>1. \A g \in FrFibers : \A i \in DOMAIN frnest[g] : FrOn[frnest[g][i]] = g BY <1>1 DEF FrNested
  <2>2. \A i \in DOMAIN nest2 : \E j \in DOMAIN nest : nest2[i] = nest[j]
    <3> SUFFICES ASSUME NEW i \in 1..(n - 1) PROVE \E j \in 1..n : nest2[i] = nest[j]
      BY <1>7, <1>13, <1>14
    <3>1. i \in 1..n /\ i + 1 \in 1..n BY <1>7
    <3>2. QED BY <1>13, <1>14, <3>1
  <2>3. \A i \in DOMAIN nest2 : FrOn[nest2[i]] = f BY <1>5, <2>1, <2>2
  <2>4. QED BY <1>17, <2>1, <2>3
<1>21. ASSUME NEW u \in FrTasks PROVE Len(frsaved'[u]) = Cardinality(FrPlaces(u)')
  <2>1. /\ Len(frsaved[u]) = Cardinality(FrPlaces(u)) /\ FrOn[u] \in FrFibers
        /\ Len(frsaved[u]) \in Nat
    BY FrFacts
  <2>2. CASE FrOn[u] # f
    <3>1. frnest'[FrOn[u]] = frnest[FrOn[u]] /\ frsaved'[u] = frsaved[u]
      BY <1>2, <1>16, <1>17, <2>1, <2>2
    <3>2. FrPlaces(u)' = FrPlaces(u) BY <3>1 DEF FrPlaces
    <3>3. QED BY <2>1, <3>1, <3>2, Zenon
  <2>3. CASE FrOn[u] = f
    <3>1. FrPlaces(u) = PlacesOf(nest, u) BY <1>5, <2>3 DEF FrPlaces, PlacesOf
    <3>2. FrPlaces(u)' = PlacesOf(RemoveAt(nest, k), u)
      BY <1>14, <1>17, <2>3 DEF FrPlaces, PlacesOf
    <3>3. Cardinality(PlacesOf(RemoveAt(nest, k), u))
            = IF u = nest[k] THEN Cardinality(PlacesOf(nest, u)) - 1
              ELSE Cardinality(PlacesOf(nest, u))
      BY PlacesRemove, Zenon
    <3>4. Cardinality(FrPlaces(u)') = IF u = nest[k] THEN Cardinality(FrPlaces(u)) - 1
                                      ELSE Cardinality(FrPlaces(u))
      BY <3>1, <3>2, <3>3, Zenon
    <3>5. u = t => Len(frsaved'[u]) = Len(frsaved[u]) - 1 BY <1>4, <1>11, <1>12, <1>16
    <3>6. u # t => Len(frsaved'[u]) = Len(frsaved[u]) BY <1>16
    <3>7. QED BY <1>10, <2>1, <3>4, <3>5, <3>6
  <2>4. QED BY <2>2, <2>3
<1>22. FrNested' BY <1>20, <1>21 DEF FrNested
<1>23. ASSUME NEW g \in FrFibers, g \notin frcrossed'
       PROVE  IF frnest'[g] = <<>> THEN frslot'[g] = frbase'[g]
              ELSE frsaved'[frnest'[g][1]][1] = frbase'[g]
  <2>1. /\ IF frnest[g] = <<>> THEN frslot[g] = frbase[g] ELSE frsaved[frnest[g][1]][1] = frbase[g]
        /\ frbase'[g] = frbase[g]
    BY <1>1, <1>18, <1>23 DEF FrOutermost
  <2>2. CASE g # f
    <3>1. frnest'[g] = frnest[g] /\ frslot'[g] = frslot[g] BY <1>17, <1>18, <2>2
    <3>2. ASSUME frnest[g] # <<>> PROVE frsaved'[frnest[g][1]] = frsaved[frnest[g][1]]
      <4>1. frnest[g] \in Seq(FrTasks) BY <1>3
      <4>2. frnest[g][1] \in FrTasks /\ 1 \in DOMAIN frnest[g] BY <3>2, <4>1
      <4>3. FrOn[frnest[g][1]] = g BY <1>1, <4>2 DEF FrNested
      <4>4. frnest[g][1] # t BY <1>2, <2>2, <4>3
      <4>5. QED BY <1>16, <4>2, <4>4
    <3>3. QED BY <2>1, <3>1, <3>2
  <2>3. CASE g = f
    <3>1. k = n /\ frslot'[f] = Last(kept) BY <1>18, <1>23, <2>3
    <3>2. /\ nest # <<>> /\ frsaved[nest[1]][1] = frbase[f] /\ 1 \in DOMAIN nest
      <4>1. nest # <<>> /\ 1 \in DOMAIN nest BY <1>7, <1>13
      <4>2. QED BY <1>5, <2>1, <2>3, <4>1
    <3>3. CASE n = 1
      <4>1. FrPlaces(t) = {1} BY <1>7, <1>8, <1>10, <3>3
      <4>2. Cardinality({1}) = 1 BY FS_Singleton
      <4>3. Cardinality(FrPlaces(t)) = 1 BY <4>1, <4>2, Zenon
      <4>4. Len(kept) = 1 BY <1>4, <4>3, FrFacts
      <4>5. nest[1] = t /\ k = 1 BY <1>10, <3>1, <3>3
      <4>6. frslot'[f] = frbase[f] BY <1>4, <1>11, <3>1, <3>2, <4>4, <4>5
      <4>7. frnest'[f] = <<>>
        <5>1. Len(nest2) = 0 BY <1>13, <1>14, <3>3
        <5>2. nest2 = <<>> BY <5>1
        <5>3. QED BY <1>17, <5>2
      <4>8. QED BY <2>1, <2>3, <4>6, <4>7
    <3>4. CASE n > 1
      <4>1. 1 \in 1..(n - 1) /\ 1 < k BY <3>1, <3>4
      <4>2. nest2 # <<>> /\ nest2[1] = nest[1] BY <1>13, <1>14, <4>1
      <4>3. nest[1] \in FrTasks BY <3>2
      <4>4. frsaved'[nest[1]][1] = frsaved[nest[1]][1]
        <5>1. CASE nest[1] # t BY <1>16, <4>3, <5>1
        <5>2. CASE nest[1] = t
          <6>1. 1 \in FrPlaces(t) /\ k \in FrPlaces(t) /\ 1 # k BY <1>7, <1>8, <1>10, <3>2, <4>1, <5>2
          <6>2. Cardinality(FrPlaces(t)) # 1
            <7> SUFFICES ASSUME Cardinality(FrPlaces(t)) = 1 PROVE FALSE OBVIOUS
            <7>1. IsFiniteSet(FrPlaces(t)) BY FrFacts
            <7>2. PICK z : FrPlaces(t) = {z} BY <7>1, FS_Singleton
            <7>3. QED BY <6>1, <7>2
          <6>3. Len(kept) # 1 BY <1>4, <6>2, FrFacts
          <6>4. 1 \in 1..Len(kept) - 1 BY <1>11, <6>3
          <6>5. QED BY <1>4, <1>11, <1>12, <1>16, <5>2, <6>4
        <5>3. QED BY <5>1, <5>2
      <4>5. QED BY <1>17, <2>1, <2>3, <3>2, <4>2, <4>4
    <3>5. QED BY <1>7, <1>13, <3>3, <3>4
  <2>4. QED BY <2>2, <2>3
<1>24. FrOutermost' BY <1>23 DEF FrOutermost
<1>25. QED BY <1>19, <1>22, <1>24 DEF FiberRefIInv

\* fiber_ref.rs, for any tasks, fibers and values and any nesting of locally: a fiber
\* whose calls of locally all ended, each before those around it, has in its slot what
\* the operations outside of locally have left there, and no call has lost what it saved.
THEOREM FiberRefInvariant == FiberRefSpec => []FiberRefInv
<1>1. FiberRefInit => FiberRefIInv
  <2> SUFFICES ASSUME FiberRefInit PROVE FiberRefIInv OBVIOUS
  <2>1. \A t \in FrTasks : frsaved[t] = <<>> /\ Len(frsaved[t]) = 0 BY DEF FiberRefInit
  <2>2. \A f \in FrFibers : frnest[f] = <<>> /\ DOMAIN frnest[f] = {} BY DEF FiberRefInit
  <2>3. \A t \in FrTasks : FrPlaces(t) = {} BY <2>2, FiberRefAssumption DEF FrPlaces
  <2>4. Cardinality({}) = 0 BY FS_EmptySet
  <2>5. FrNested BY <2>1, <2>2, <2>3, <2>4 DEF FrNested
  <2>6. FiberRefTypeOK
    <3>1. <<>> \in Seq(FrSlots) /\ <<>> \in Seq(FrTasks) OBVIOUS
    <3>2. QED BY <3>1, FiberRefAssumption DEF FiberRefInit, FiberRefTypeOK, FrSlots
  <2>7. FrOutermost BY <2>2 DEF FiberRefInit, FrOutermost
  <2>8. QED BY <2>5, <2>6, <2>7 DEF FiberRefIInv
<1>2. FiberRefIInv /\ [FiberRefNext]_frvars => FiberRefIInv'
  <2> SUFFICES ASSUME FiberRefIInv, [FiberRefNext]_frvars PROVE FiberRefIInv' OBVIOUS
  <2>1. /\ frslot \in [FrFibers -> FrSlots] /\ FrValues \subseteq FrSlots /\ FrEmpty \in FrSlots
        /\ \A f \in FrFibers : FrValue(f) \in FrSlots
    BY FiberRefAssumption DEF FiberRefIInv, FiberRefTypeOK, FrSlots, FrValue
  <2>2. CASE UNCHANGED frvars
    BY <2>2 DEF frvars, FiberRefIInv, FiberRefTypeOK, FrNested, FrPlaces, FrOutermost
  <2>3. ASSUME NEW t \in FrTasks, FrGet(t) PROVE FiberRefIInv'
    <3>1. PICK slots : slots = [frslot EXCEPT ![FrOn[t]] = FrValue(FrOn[t])] OBVIOUS
    <3>2. slots \in [FrFibers -> FrSlots] BY <2>1, <3>1, FiberRefAssumption
    <3>3. QED BY <2>3, <3>1, <3>2, FrStoreOk DEF FrGet
  <2>4. ASSUME NEW t \in FrTasks, NEW v \in FrValues, FrSet(t, v) PROVE FiberRefIInv'
    <3>1. PICK slots : slots = [frslot EXCEPT ![FrOn[t]] = v] OBVIOUS
    <3>2. slots \in [FrFibers -> FrSlots] BY <2>1, <3>1
    <3>3. QED BY <2>4, <3>1, <3>2, FrStoreOk DEF FrSet
  <2>5. ASSUME NEW t \in FrTasks, FrReset(t) PROVE FiberRefIInv'
    <3>1. PICK slots : slots = [frslot EXCEPT ![FrOn[t]] = FrEmpty] OBVIOUS
    <3>2. slots \in [FrFibers -> FrSlots] BY <2>1, <3>1
    <3>3. QED BY <2>5, <3>1, <3>2, FrStoreOk DEF FrReset
  <2>6. ASSUME NEW p \in FrFibers, NEW c \in FrFibers, FrFork(p, c) PROVE FiberRefIInv'
    <3>1. PICK slots : slots = [frslot EXCEPT ![p] = FrValue(p), ![c] = FrValue(p)] OBVIOUS
    <3>2. slots \in [FrFibers -> FrSlots] BY <2>1, <3>1
    <3>3. QED BY <2>6, <3>1, <3>2, FrStoreOk DEF FrFork
  <2>7. ASSUME NEW p \in FrFibers, NEW c \in FrFibers, FrJoin(p, c) PROVE FiberRefIInv'
    <3>1. PICK slots : slots = [frslot EXCEPT ![c] = FrEmpty,
                                              ![p] = IF frslot[c] = FrEmpty THEN @ ELSE frslot[c]]
      OBVIOUS
    <3>2. slots \in [FrFibers -> FrSlots] BY <2>1, <2>7, <3>1 DEF FrJoin
    <3>3. QED BY <2>7, <3>1, <3>2, FrStoreOk DEF FrJoin
  <2>8. ASSUME NEW t \in FrTasks, NEW v \in FrValues, FrLocally(t, v) PROVE FiberRefIInv'
    BY <2>8, FrLocallyOk
  <2>9. ASSUME NEW t \in FrTasks, FrLocallyEnds(t) \/ FrLocallyDropped(t) PROVE FiberRefIInv'
    BY <2>9, FrLeaveOk
  <2>10. QED BY <2>2, <2>3, <2>4, <2>5, <2>6, <2>7, <2>8, <2>9 DEF FiberRefNext
<1>3. FiberRefIInv => FiberRefInv
  BY DEF FiberRefIInv, FrNested, FrOutermost, FiberRefInv
<1>4. QED BY <1>1, <1>2, <1>3, PTL DEF FiberRefSpec
==============================================================================
