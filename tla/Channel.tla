------------------------------ MODULE Channel ------------------------------
(***************************************************************************)
(* coordination/channel.rs: a channel over a Queue.  Writers map and offer *)
(* until the offer is accepted; readers look at the shared list of pending *)
(* outputs, take a wire element from the queue, expand it with             *)
(* flat_map_out, put all but the first output on the list and return the   *)
(* first.  A fold channel enqueues a snapshot of its accumulator for every *)
(* write, and a stream channel reads chunks of a stream instead of the     *)
(* queue.                                                                  *)
(*                                                                         *)
(* A snapshot is represented by the input that was folded in last.  The    *)
(* pure maps map_in and map_out (post_read) are left out: an output is a   *)
(* pair of its wire element and its place in the expansion, with place 0   *)
(* for an element that was never expanded.                                 *)
(***************************************************************************)
EXTENDS Queue

CONSTANTS ChModes,   \* subset of {"queue", "fold", "stream"}
          ChFan,     \* ChFan[v]: how many outputs flat_map_out makes of v
          ChChunks,  \* the chunks of the stream of a stream channel; the empty ones,
                     \* which a read skips under the mutex of the stream, are left out
          ChReads,   \* bound: ChReads[c]: how many reads c makes
          ChKinds    \* bound: the queues under a queue channel

ASSUME ChannelAssumption ==
  /\ ChModes \subseteq {"queue", "fold", "stream"}
  /\ ChFan \in [QValues -> Nat]
  /\ ChReads \in [QConsumers -> Nat] /\ ChKinds \subseteq QKinds
  /\ ChChunks \in Seq(Seq(QValues) \ {<<>>})
  /\ \A i \in DOMAIN ChChunks : IsInjective(ChChunks[i])
  /\ \A i, j \in DOMAIN ChChunks : i # j => Range(ChChunks[i]) \cap Range(ChChunks[j]) = {}

VARIABLES chmode,  \* the variant of ChannelState
          chpend,  \* the shared list `pending`
          chacc,   \* fold: the inputs folded into the accumulator, in order
          chsnap,  \* fold: chsnap[p]: p has folded its input and not enqueued it
          chsrc,   \* stream: the chunks not pulled yet
          chat,    \* chat[c]: where reader c is
          chhold,  \* chhold[c]: outputs that c has in hand
          chgot,   \* history: chgot[c]: the outputs c's reads have returned
          chreads  \* chreads[c]: how many reads c has begun

chown == <<chmode, chpend, chacc, chsnap, chsrc, chat, chhold, chgot, chreads>>
chvars == <<qvars, chown>>

Expand(v) == [i \in 1..ChFan[v] |-> <<v, i>>]
Raw(s) == [i \in DOMAIN s |-> <<s[i], 0>>]
ChOutputs == QValues \X Nat

ChannelTypeOK ==
  /\ QueueTypeOK
  /\ chmode \in ChModes
  /\ chpend \in Seq(ChOutputs)
  /\ chacc \in Seq(QValues)
  /\ chsnap \in [QProducers -> BOOLEAN]
  /\ chat \in [QConsumers -> {"idle", "pending", "take", "expand", "push", "end"}]
  /\ chhold \in [QConsumers -> Seq(ChOutputs)]
  /\ chgot \in [QConsumers -> Seq(ChOutputs)]
  /\ chreads \in [QConsumers -> Nat]

ChannelStart ==
  /\ chmode \in ChModes
  /\ chpend = <<>> /\ chacc = <<>>
  /\ chsnap = [p \in QProducers |-> FALSE]
  /\ chsrc = IF chmode = "stream" THEN ChChunks ELSE <<>>
  /\ chat = [c \in QConsumers |-> "idle"]
  /\ chhold = [c \in QConsumers |-> <<>>]
  /\ chgot = [c \in QConsumers |-> <<>>]
  /\ chreads = [c \in QConsumers |-> 0]

\* The queue of a fold channel is unbounded.
ChannelInit == QueueInit /\ ChannelStart /\ qkind \in (IF chmode = "queue" THEN ChKinds ELSE {"unbounded"})

(***************************************************************************)
(* write.                                                                  *)
(***************************************************************************)

\* The accumulator is updated under its mutex; the snapshot is offered later.
ChFold(p) == /\ chmode = "fold" /\ ~chsnap[p]
             /\ qcall[p] = "none" /\ qtodo[p] # <<>>
             /\ chacc' = Append(chacc, Head(qtodo[p]))
             /\ chsnap' = [chsnap EXCEPT ![p] = TRUE]
             /\ UNCHANGED <<qvars, chmode, chpend, chsrc, chat, chhold, chgot, chreads>>

\* One offer of the loop; a write on a stream channel does nothing.
ChWrite(p) == /\ \/ chmode = "queue"
                 \/ chmode = "fold" /\ chsnap[p]
              /\ qleft[p] = <<>>
              /\ QOffer(p, "offer")
              /\ chsnap' = [chsnap EXCEPT ![p] = FALSE]
              /\ UNCHANGED <<chmode, chpend, chacc, chsrc, chat, chhold, chgot, chreads>>

\* Ok(false): yield and offer the same element again.
ChRetry(p) == /\ qcall[p] = "none" /\ qleft[p] # <<>>
              /\ qtodo' = [qtodo EXCEPT ![p] = qleft[p] \o @]
              /\ qleft' = [qleft EXCEPT ![p] = <<>>]
              /\ qcall' = [qcall EXCEPT ![p] = "offer"]
              /\ UNCHANGED <<qkind, qopen, qclose, qcons, qstore, qlate, chown>>

(***************************************************************************)
(* read.                                                                   *)
(***************************************************************************)

ChRest == <<chmode, chacc, chsnap>>

ChRead(c) == /\ chat[c] = "idle" /\ chreads[c] < ChReads[c]
             /\ chat' = [chat EXCEPT ![c] = "pending"]
             /\ chreads' = [chreads EXCEPT ![c] = @ + 1]
             /\ UNCHANGED <<qvars, ChRest, chpend, chsrc, chhold, chgot>>

\* drain_pending, and the read returns if there was an output.
ChDrain(c) == /\ chat[c] = "pending"
              /\ IF chpend = <<>>
                 THEN /\ chat' = [chat EXCEPT ![c] = "take"]
                      /\ UNCHANGED <<chpend, chgot>>
                 ELSE /\ chpend' = Tail(chpend)
                      /\ chgot' = [chgot EXCEPT ![c] = Append(@, Head(chpend))]
                      /\ chat' = [chat EXCEPT ![c] = "idle"]
              /\ UNCHANGED <<qvars, ChRest, chsrc, chhold, chreads>>

\* q.take()
ChTake(c) == /\ chat[c] = "take" /\ chmode # "stream"
             /\ QTake(c, <<1, 1>>)
             /\ UNCHANGED chown

\* The take has returned: expand, or report the end.
ChTaken(c) == /\ chat[c] = "take"
              /\ QCollect(c)
              /\ IF qtake[c].at = "done"
                 THEN /\ chhold' = [chhold EXCEPT ![c] = Expand(Head(qtake[c].out))]
                      /\ chat' = [chat EXCEPT ![c] = "expand"]
                 ELSE /\ chat' = [chat EXCEPT ![c] = "end"]
                      /\ UNCHANGED chhold
              /\ UNCHANGED <<ChRest, chpend, chsrc, chgot, chreads>>

\* poll_next_chunk under the stream's mutex: the rest of the chunk goes to the
\* list as it is, the first element is expanded.
ChPull(c) ==
  /\ chat[c] = "take" /\ chmode = "stream"
  /\ IF chsrc = <<>>
     THEN /\ chat' = [chat EXCEPT ![c] = "end"]
          /\ UNCHANGED <<chpend, chhold, chsrc>>
     ELSE /\ chsrc' = Tail(chsrc)
          /\ chpend' = chpend \o Raw(Tail(Head(chsrc)))
          /\ chhold' = [chhold EXCEPT ![c] = Expand(Head(Head(chsrc)))]
          /\ chat' = [chat EXCEPT ![c] = "expand"]
  /\ UNCHANGED <<qvars, ChRest, chgot, chreads>>

\* poll_next_chunk fails: the read returns the error, and no chunk is pulled.
ChPullFails(c) == /\ chat[c] = "take" /\ chmode = "stream"
                  /\ chat' = [chat EXCEPT ![c] = "idle"]
                  /\ UNCHANGED <<qvars, ChRest, chpend, chsrc, chhold, chgot, chreads>>

\* Faulty variant: the whole expansion goes to the list.
ChExpandAll(c) ==
  /\ chat[c] = "expand"
  /\ chat' = [chat EXCEPT ![c] = IF chhold[c] = <<>> THEN "pending" ELSE "push"]
  /\ chpend' = chpend \o chhold[c]
  /\ UNCHANGED <<qvars, ChRest, chsrc, chhold, chgot, chreads>>

\* An empty expansion starts over; otherwise all but the first go to the list.
ChExpand(c) ==
  /\ chat[c] = "expand"
  /\ IF chhold[c] = <<>>
     THEN /\ chat' = [chat EXCEPT ![c] = "pending"]
          /\ UNCHANGED <<chpend, chhold>>
     ELSE /\ chat' = [chat EXCEPT ![c] = "push"]
          /\ chpend' = chpend \o Tail(chhold[c])
          /\ chhold' = [chhold EXCEPT ![c] = <<Head(@)>>]
  /\ UNCHANGED <<qvars, ChRest, chsrc, chgot, chreads>>

ChReturn(c) == /\ chat[c] = "push"
               /\ chgot' = [chgot EXCEPT ![c] = Append(@, Head(chhold[c]))]
               /\ chhold' = [chhold EXCEPT ![c] = <<>>]
               /\ chat' = [chat EXCEPT ![c] = "idle"]
               /\ UNCHANGED <<qvars, ChRest, chpend, chsrc, chreads>>

(***************************************************************************)
(* The specification.                                                      *)
(***************************************************************************)

ChannelNext ==
  \/ \E p \in QProducers : \/ ChFold(p) \/ ChWrite(p) \/ ChRetry(p)
                           \/ (QProduce(p) /\ UNCHANGED chown)
  \/ \E c \in QConsumers : \/ ChRead(c) \/ ChDrain(c) \/ ChTake(c) \/ ChTaken(c)
                           \/ ChPull(c) \/ ChPullFails(c) \/ ChExpand(c) \/ ChReturn(c)
                           \/ (QConsume(c) /\ UNCHANGED chown)
  \/ (chmode = "queue" /\ (QShutdown \/ QShutdownNotify) /\ UNCHANGED chown)

ChannelSpec == ChannelInit /\ [][ChannelNext]_chvars

(***************************************************************************)
(* Properties.                                                             *)
(***************************************************************************)

\* The wire elements that readers have taken and whose take has been collected.
ChWired == Range(qgone) \ (qdrop \cup QInHand)

\* The elements of the stream that have been pulled: the first of each chunk, and
\* the others.
ChPulled == {ChChunks[i] : i \in 1..Len(ChChunks) - Len(chsrc)}
ChFirsts == {Head(k) : k \in ChPulled}
ChOthers == UNION {Range(Tail(k)) : k \in ChPulled}

\* What the reads make of the elements that have left the queue or the stream: the
\* outputs of each of them; but of a chunk, flat_map_out sees the first element
\* only, and the others are handed out as they are.
ChHanded == IF chmode = "stream"
            THEN (UNION {Range(Expand(v)) : v \in ChFirsts}) \cup {<<v, 0>> : v \in ChOthers}
            ELSE UNION {Range(Expand(v)) : v \in ChWired}

\* Where an output is: on the list, in a reader's hand, or returned.
ChPlaces(x) ==
  {<<"list", "pending", i>> : i \in {j \in DOMAIN chpend : chpend[j] = x}}
    \cup (UNION {{<<c, "hold", i>> : i \in {j \in DOMAIN chhold[c] : chhold[c][j] = x}} :
                c \in QConsumers})
    \cup (UNION {{<<c, "got", i>> : i \in {j \in DOMAIN chgot[c] : chgot[c][j] = x}} :
                c \in QConsumers})

\* However many tasks write and read, every output of every element that left the
\* queue, or was expanded out of a chunk, and every element of a chunk that was not
\* expanded, is in exactly one place, and nothing else is.
ChannelConserves ==
  \A v \in QValues : \A i \in 0..ChFan[v] :
     Cardinality(ChPlaces(<<v, i>>)) = IF <<v, i>> \in ChHanded THEN 1 ELSE 0

ChAlone(c) == \A d \in QConsumers \ {c} : chreads[d] = 0

\* What c has been given, has in its hand and would be given next.
ChLine(c) == (chgot[c] \o chhold[c]) \o chpend

\* x comes before y: in the expansion of one element, or as the outputs of two that
\* left the queue in this order.
ChBefore(x, y) ==
  \/ x[1] = y[1] /\ x[2] < y[2]
  \/ \E a, b \in DOMAIN qgone : a < b /\ qgone[a] = x[1] /\ qgone[b] = y[1]

\* A reader of a queue that is alone gets the outputs of the wire elements, all of them, in
\* the order in which they were written, expansion by expansion, and is told of
\* the end only when there is nothing left.
ChannelInOrder ==
  \A c \in QConsumers : ChAlone(c) /\ chmode # "stream" =>
     /\ Range(ChLine(c)) = ChHanded
     /\ \A i, j \in DOMAIN ChLine(c) : i < j => ChBefore(ChLine(c)[i], ChLine(c)[j])
     /\ chat[c] = "end" => qbuf = <<>> /\ chpend = <<>>

\* x comes before y in what is made of the stream: in the expansion of one element, as
\* made of an earlier chunk, or as made of an earlier element of the same chunk; but
\* the second and later outputs of the first element come behind the chunk.
ChPulledBefore(x, y) ==
  \/ x[1] = y[1] /\ x[2] < y[2]
  \/ \E k, l \in DOMAIN ChChunks :
       k < l /\ x[1] \in Range(ChChunks[k]) /\ y[1] \in Range(ChChunks[l])
  \/ \E k \in DOMAIN ChChunks : \E a, b \in DOMAIN ChChunks[k] :
       /\ ChChunks[k][a] = x[1] /\ ChChunks[k][b] = y[1]
       /\ a < b \/ (b < a /\ y[2] > 1)

\* A reader of a stream that is alone gets what is made of the chunks, all of it,
\* chunk by chunk, and is told of the end only when there is nothing left.
ChannelInChunks ==
  \A c \in QConsumers : ChAlone(c) /\ chmode = "stream" =>
     /\ Range(ChLine(c)) = ChHanded
     /\ \A i, j \in DOMAIN ChLine(c) : i < j => ChPulledBefore(ChLine(c)[i], ChLine(c)[j])
     /\ chat[c] = "end" => chsrc = <<>> /\ chpend = <<>>

\* What the comment of flat_map_out says: each dequeued element is expanded.  All
\* but the first of a stream's chunk are not: see ChHanded.
EveryElementExpanded ==
  \A c \in QConsumers : \A i \in DOMAIN chgot[c] : chgot[c][i][2] # 0

\* A fold channel with one writer enqueues its snapshots in the order of the
\* writes; with two writers the order may be lost between mutex and queue.
SnapshotsInOrder ==
  \A p \in QProducers :
     chmode = "fold" /\ Range(chacc) \subseteq Range(QOffers[p]) => IsPrefix(qseen, chacc)

\* What a channel keeps under any interleaving of its writers and readers.
ChannelInv == /\ ChannelTypeOK /\ ChannelConserves /\ ChannelInOrder /\ ChannelInChunks
              /\ SnapshotsInOrder
==============================================================================
