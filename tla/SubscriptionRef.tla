--------------------------- MODULE SubscriptionRef ---------------------------
(***************************************************************************)
(* coordination/subscription_ref.rs: a cell whose setters store a value    *)
(* and then publish it on an unbounded hub, and whose subscribers          *)
(* subscribe to the hub, read the cell and offer what they read to their   *)
(* own queue.  Each of these is a step of its own.                         *)
(***************************************************************************)
EXTENDS PubSub

CONSTANTS SrInitial,  \* the value that make was given; unlike any that is stored,
                      \* so that what was read can be told
          SrSubs      \* bound: who subscribes to the cell

ASSUME SubRefAssumption == SrSubs \subseteq PsSubs /\ SrInitial \notin PsValues

VARIABLES srval,     \* the Ref
          srhist,    \* history: the values stored so far, in order
          srset,     \* srset[p]: p has stored its value and not published it
          srat,      \* srat[s]: how far SubscriptionRef::subscribe has got
          srcur      \* srcur[s]: the value that s read from the cell

srown == <<srval, srhist, srset, srat, srcur>>
srvars == <<psvars, srown>>

SrValues == PsValues \cup {SrInitial}

SubRefTypeOK == /\ srval \in SrValues
                /\ srhist \in Seq(PsValues)
                /\ srset \in [PsPublishers -> BOOLEAN]
                /\ srat \in [PsSubs -> {"no", "offer", "yes"}]
                /\ srcur \in [PsSubs -> SrValues]

SubRefStart == /\ srval = SrInitial /\ srhist = <<>>
               /\ srset = [p \in PsPublishers |-> FALSE]
               /\ srat = [s \in PsSubs |-> "no"]
               /\ srcur = [s \in PsSubs |-> SrInitial]

SubRefInit == PubSubInit /\ psmode = "unbounded" /\ SubRefStart

\* set, and update with its read and its write under the lock of the Ref.
SrSet(p) == /\ ~srset[p] /\ pstodo[p] # <<>>
            /\ srval' = Head(pstodo[p])
            /\ srhist' = Append(srhist, Head(pstodo[p]))
            /\ srset' = [srset EXCEPT ![p] = TRUE]
            /\ UNCHANGED <<psvars, srat, srcur>>

SrPublish(p) == /\ srset[p]
                /\ Publish(p)
                /\ srset' = [srset EXCEPT ![p] = FALSE]
                /\ UNCHANGED <<srval, srhist, srat, srcur>>

\* Faulty variant: the cell is read before the hub is subscribed to.
SrGetFirst(s) == /\ srat[s] = "no" /\ psat[s] = "no"
                 /\ srcur' = [srcur EXCEPT ![s] = srval]
                 /\ srat' = [srat EXCEPT ![s] = "offer"]
                 /\ UNCHANGED <<psvars, srval, srhist, srset>>

\* The cell is read when the hub subscription is complete, ...
SrGet(s) == /\ srat[s] = "no" /\ psat[s] = "yes"
            /\ srcur' = [srcur EXCEPT ![s] = srval]
            /\ srat' = [srat EXCEPT ![s] = "offer"]
            /\ UNCHANGED <<psvars, srval, srhist, srset>>

\* ... and what was read goes behind whatever is in the queue by then.
SrOffer(s) == /\ srat[s] = "offer" /\ psat[s] = "yes"
              /\ psq' = [psq EXCEPT ![s] = IF psqopen[s] THEN Append(@, srcur[s]) ELSE @]
              /\ srat' = [srat EXCEPT ![s] = "yes"]
              /\ UNCHANGED <<pshub, psat, psnext, psfwd, psheld, psabort, psscope, psfin,
                             psqopen, psstart, pslagged, srval, srhist, srset, srcur>>

SubRefNext == \/ \E p \in PsPublishers : SrSet(p) \/ SrPublish(p)
              \/ \E s \in SrSubs : \/ SrGet(s) \/ SrOffer(s)
                                   \/ (/\ \/ PsSubscribe(s) \/ PsSubscribing(s) \/ PsForwarder(s)
                                          \/ PsCloseScope(s) \/ PsClosing(s)
                                       /\ UNCHANGED srown)

SubRefSpec == SubRefInit /\ [][SubRefNext]_srvars

(***************************************************************************)
(* Properties.                                                             *)
(***************************************************************************)

\* Where a value came in the history of the cell; the initial value is at 0.
SrWhen(v) == IF v = SrInitial THEN 0 ELSE CHOOSE i \in DOMAIN srhist : srhist[i] = v

\* A subscriber whose scope is open is given the value it read, and misses no
\* value that was stored after it, whichever setters were between their store
\* and their publish.
SubscriberMissesNothing ==
  \A s \in PsSubs : srat[s] = "yes" /\ psqopen[s] /\ psscope[s] = "open" =>
     /\ srcur[s] \in Range(psq[s])
     /\ \A i \in SrWhen(srcur[s])+1..Len(srhist) :
          \/ srhist[i] \in Range(PsSeen(s)) \cup Range(SubSeq(pslog, psnext[s], Len(pslog)))
          \/ \E p \in PsPublishers : srset[p] /\ Head(pstodo[p]) = srhist[i]

\* What setters and subscribers of a cell keep.
SubRefInv == SubRefTypeOK /\ SubscriberMissesNothing
==============================================================================
