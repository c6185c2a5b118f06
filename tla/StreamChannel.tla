---------------------------- MODULE StreamChannel ----------------------------
(***************************************************************************)
(* streaming/stream.rs: a stream fed through a Queue by stream senders     *)
(* (stream_from_channel_with_policy, send_chunk, end_stream, fail) and     *)
(* pulled by one task with poll_next_chunk.                                *)
(*                                                                         *)
(* A chunk is one value; cutting chunks to chunk_size is left out.  The    *)
(* senders never shut the queue down.                                      *)
(***************************************************************************)
EXTENDS Queue

CONSTANTS StPolicies,  \* subset of the BackpressurePolicy variants
          StEnds,      \* the values of QOffers that stand for End
          StFails,     \* ... and for Fail
          StReader     \* the consumer that pulls the stream

ASSUME StreamAssumption ==
  /\ StPolicies \subseteq {"BoundedBlock", "DropNewest", "DropOldest", "Fail"}
  /\ StEnds \subseteq QValues /\ StFails \subseteq QValues
  /\ StReader \in QConsumers

VARIABLES stpolicy, \* StreamSender::policy
          ststate,  \* the StreamState: "open" is Channel with closed = false
          stbuf,    \* StreamState::Channel::buffered
          stgot,    \* history: the chunks that were yielded
          sterrs    \* history: the failures that were returned

stown == <<stpolicy, ststate, stbuf, stgot, sterrs>>
stvars == <<qvars, stown>>

StreamTypeOK == /\ QueueTypeOK
                /\ stpolicy \in StPolicies
                /\ ststate \in {"open", "closed", "exhausted"}
                /\ stbuf \in Seq(QValues) /\ stgot \in Seq(QValues)
                /\ sterrs \in Seq(StFails)

\* The queue that stream_from_channel_with_policy makes.
StKind(policy) == CASE policy \in {"BoundedBlock", "Fail"} -> "bounded"
                    [] policy = "DropNewest" -> "dropping"
                    [] policy = "DropOldest" -> "sliding"

StreamInit == /\ QueueInit
              /\ stpolicy \in StPolicies
              /\ qkind = StKind(stpolicy)
              /\ ststate = "open"
              /\ stbuf = <<>> /\ stgot = <<>> /\ sterrs = <<>>

(***************************************************************************)
(* The senders.                                                            *)
(***************************************************************************)

StMarks == StEnds \cup StFails

\* Faulty variant: end_stream and fail offer once.
StRepeatsChunks(v) == v \notin StMarks /\ stpolicy = "BoundedBlock"

\* An offer that is refused is repeated for End and Fail whatever the policy,
\* and for a chunk if the policy is to block.
StRepeats(v) == v \in StMarks \/ stpolicy = "BoundedBlock"

StRefused(p) == qcall[p] = "none" /\ qleft[p] # <<>> /\ StRepeats(Last(qleft[p]))

\* send_chunk, end_stream or fail begins.
StSend(p) == /\ ~StRefused(p)
             /\ QOffer(p, "offer")
             /\ UNCHANGED stown

\* yield_now, and the loop offers again.
StAgain(p) == /\ StRefused(p)
              /\ qtodo' = [qtodo EXCEPT ![p] = <<Last(qleft[p])>> \o @]
              /\ qleft' = [qleft EXCEPT ![p] = Front(@)]
              /\ qcall' = [qcall EXCEPT ![p] = "offer"]
              /\ UNCHANGED <<qkind, qopen, qclose, qcons, qstore, qlate, stown>>

(***************************************************************************)
(* poll_next_chunk.                                                        *)
(***************************************************************************)

\* Nothing is buffered: the state's mutex is released and a message awaited.
StTake == /\ ststate = "open" /\ stbuf = <<>>
          /\ QTake(StReader, <<1, 1>>)
          /\ UNCHANGED stown

\* Faulty variant: a chunk that arrives replaces what is buffered.
StMessageOver ==
  LET m == Head(qtake[StReader].out) IN
  /\ ststate = "open"
  /\ QCollect(StReader)
  /\ ststate' = IF m \in StEnds \cup StFails THEN "closed" ELSE ststate
  /\ stbuf' = IF m \in StMarks THEN stbuf ELSE <<m>>
  /\ sterrs' = IF m \in StFails THEN Append(sterrs, m) ELSE sterrs
  /\ UNCHANGED <<stpolicy, stgot>>

\* The message: a chunk is buffered, End closes, and Fail is returned and leaves
\* the stream as it was, so that the next poll goes on behind the failure.
StMessage ==
  LET m == Head(qtake[StReader].out) IN
  /\ ststate = "open"
  /\ QCollect(StReader)
  /\ ststate' = IF m \in StEnds THEN "closed" ELSE ststate
  /\ stbuf' = IF m \in StMarks THEN stbuf ELSE Append(stbuf, m)
  /\ sterrs' = IF m \in StFails THEN Append(sterrs, m) ELSE sterrs
  /\ UNCHANGED <<stpolicy, stgot>>

StYield == /\ ststate # "exhausted" /\ stbuf # <<>>
           /\ stgot' = stgot \o stbuf
           /\ stbuf' = <<>>
           /\ UNCHANGED <<qvars, stpolicy, ststate, sterrs>>

StExhaust == /\ ststate = "closed" /\ stbuf = <<>>
             /\ ststate' = "exhausted"
             /\ UNCHANGED <<qvars, stpolicy, stbuf, stgot, sterrs>>

(***************************************************************************)
(* The specification.                                                      *)
(***************************************************************************)

StPoll == \/ StTake \/ StMessage \/ StYield \/ StExhaust
          \/ (QConsume(StReader) /\ UNCHANGED stown)
StSending(p) == StAgain(p) \/ (QProduce(p) /\ UNCHANGED stown)

StreamNext == StPoll \/ \E p \in QProducers : StSend(p) \/ StSending(p)

\* The puller keeps pulling, and a sender inside a call goes on; a blocked
\* sender spins with yield_now, so it has its turn too.
StreamFairness == /\ WF_stvars(StPoll)
                  /\ \A p \in QProducers : WF_stvars(StSending(p))

StreamSpec == StreamInit /\ [][StreamNext]_stvars /\ StreamFairness

(***************************************************************************)
(* Properties.                                                             *)
(***************************************************************************)

\* part holds the elements of s that are in S, each once and in the order of s.
StFiltered(part, s, S) ==
  /\ IsInjective(part) /\ Range(part) = Range(s) \cap S
  /\ \A i, j \in DOMAIN part : i < j =>
       \E a, b \in DOMAIN s : a < b /\ s[a] = part[i] /\ s[b] = part[j]

\* The messages that have reached the stream.
StPassed == Range(qgone) \ (qdrop \cup QInHand)

\* What was yielded and what is buffered are the chunks that left the queue, in
\* the order in which they were stored, and every failure was returned once.
StreamInOrder == /\ StFiltered(stgot \o stbuf, qgone, StPassed \ StMarks)
                 /\ StFiltered(sterrs, qgone, StPassed \cap StFails)

\* A stream whose policy is to block or to fail ends with an End, and then every
\* chunk that its sender sent before it and was not told of as refused has been
\* yielded.
StreamComplete ==
  ststate = "exhausted" /\ stpolicy \in {"BoundedBlock", "Fail"} =>
     \E p \in QProducers : \E j \in DOMAIN QOffers[p] :
        /\ QOffers[p][j] \in StEnds \cap Range(qgone)
        /\ \A i \in 1..j-1 : QOffers[p][i] \notin StMarks =>
              QOffers[p][i] \in Range(stgot) \cup Range(qleft[p])

\* What a stream over a queue keeps.
StreamInv == StreamTypeOK /\ StreamInOrder /\ StreamComplete

\* An End whose sending has begun gets through a full queue and ends the stream,
\* unless a sliding queue may push it out.
StreamEnds ==
  stpolicy # "DropOldest" /\ (\E e \in StEnds : \A p \in QProducers : e \notin Range(qtodo[p]))
    ~> ststate = "exhausted"
==============================================================================
