------------------------------- MODULE Outbox -------------------------------
(***************************************************************************)
(* id_effect_jobs/outbox.rs: an outbox table and relays that fetch a batch *)
(* of unpublished rows, publish them one by one and mark the batch at the  *)
(* end.  A publish may fail, and a relay may crash anywhere.               *)
(*                                                                         *)
(* A row is its creation time, so rows are numbers; the table outlives a   *)
(* crash.                                                                  *)
(***************************************************************************)
EXTENDS Naturals, Sequences, FiniteSets, SequencesExt

CONSTANTS ObRows,     \* bound: the rows that are inserted, as creation times
          ObRelays,
          ObLimit,    \* the limit that the relays pass
          ObFaults    \* bound: publishes that fail and relays that crash

ASSUME OutboxAssumption == /\ ObRows \subseteq Nat /\ IsFiniteSet(ObRows) /\ IsFiniteSet(ObRelays)
                           /\ ObLimit \in Nat \ {0} /\ ObFaults \in Nat

VARIABLES obrows,    \* the table: the rows inserted so far
          obmarked,  \* the rows with published = true
          obat,      \* obat[r]: where relay r is
          obbatch,   \* obbatch[r]: rows still to be published
          obids,     \* obids[r]: published_ids
          obsent,    \* history: the rows published, in order
          obsaw,     \* history: obsaw[x]: the rows in the table when x was first fetched
          obfaults   \* faults so far

obvars == <<obrows, obmarked, obat, obbatch, obids, obsent, obsaw, obfaults>>

OutboxTypeOK == /\ obrows \subseteq ObRows /\ obmarked \subseteq obrows
                /\ obat \in [ObRelays -> {"idle", "publish"}]
                /\ obbatch \in [ObRelays -> Seq(ObRows)]
                /\ obids \in [ObRelays -> SUBSET ObRows]
                /\ obsent \in Seq(ObRows)
                /\ obsaw \in [ObRows -> SUBSET ObRows]
                /\ obfaults \in 0..ObFaults

OutboxInit == /\ obrows = {} /\ obmarked = {}
              /\ obat = [r \in ObRelays |-> "idle"]
              /\ obbatch = [r \in ObRelays |-> <<>>]
              /\ obids = [r \in ObRelays |-> {}]
              /\ obsent = <<>>
              /\ obsaw = [x \in ObRows |-> {}]
              /\ obfaults = 0

\* Rows get their time before they are inserted: they arrive in any order.
ObInsert(x) == /\ x \in ObRows \ obrows
               /\ obrows' = obrows \cup {x}
               /\ UNCHANGED <<obmarked, obat, obbatch, obids, obsent, obsaw, obfaults>>

\* The one sequence of the rows of S by creation time.
ObByTime(S) == {q \in SetToSeqs(S) : \A i, j \in DOMAIN q : i < j => q[i] < q[j]}

\* Faulty variant: the oldest row is taken for one that was seen before.
FetchSkipsOldest ==
  {SubSeq(all, 2, IF Len(all) <= ObLimit THEN Len(all) ELSE ObLimit + 1) :
     all \in ObByTime(obrows \ obmarked)}

\* The unpublished rows by creation time, cut to the limit: one sequence.
FetchUnpublished ==
  {SubSeq(all, 1, IF Len(all) < ObLimit THEN Len(all) ELSE ObLimit) :
     all \in ObByTime(obrows \ obmarked)}

\* fetch_unpublished; a relay that finds nothing returns at once.
ObFetch(r) ==
  \E batch \in FetchUnpublished :
     /\ obat[r] = "idle" /\ batch # <<>>
     /\ obat' = [obat EXCEPT ![r] = "publish"]
     /\ obbatch' = [obbatch EXCEPT ![r] = batch]
     /\ obids' = [obids EXCEPT ![r] = {}]
     /\ obsaw' = [x \in ObRows |-> IF x \in Range(batch) /\ obsaw[x] = {}
                                   THEN obrows ELSE obsaw[x]]
     /\ UNCHANGED <<obrows, obmarked, obsent, obfaults>>

ObPublish(r) == /\ obat[r] = "publish" /\ obbatch[r] # <<>>
                /\ obsent' = Append(obsent, Head(obbatch[r]))
                /\ obids' = [obids EXCEPT ![r] = @ \cup {Head(obbatch[r])}]
                /\ obbatch' = [obbatch EXCEPT ![r] = Tail(@)]
                /\ UNCHANGED <<obrows, obmarked, obat, obsaw, obfaults>>

\* A publish fails and ? leaves relay_outbox, or the relay crashes: nothing of
\* the batch is marked.
ObFault(r) == /\ obat[r] = "publish" /\ obfaults < ObFaults
              /\ obat' = [obat EXCEPT ![r] = "idle"]
              /\ obbatch' = [obbatch EXCEPT ![r] = <<>>]
              /\ obids' = [obids EXCEPT ![r] = {}]
              /\ obfaults' = obfaults + 1
              /\ UNCHANGED <<obrows, obmarked, obsent, obsaw>>

\* Faulty variant: the batch is marked although it has not been published yet.
ObMarkEarly(r) == /\ obat[r] = "publish"
                  /\ obmarked' = obmarked \cup obids[r] \cup Range(obbatch[r])
                  /\ obat' = [obat EXCEPT ![r] = "idle"]
                  /\ UNCHANGED <<obrows, obbatch, obids, obsent, obsaw, obfaults>>

\* mark_published for the whole batch.
ObMark(r) == /\ obat[r] = "publish" /\ obbatch[r] = <<>>
             /\ obmarked' = obmarked \cup obids[r]
             /\ obat' = [obat EXCEPT ![r] = "idle"]
             /\ UNCHANGED <<obrows, obbatch, obids, obsent, obsaw, obfaults>>

ObRelay(r) == ObFetch(r) \/ ObPublish(r) \/ ObMark(r)

OutboxNext == \/ \E x \in ObRows : ObInsert(x)
              \/ \E r \in ObRelays : ObRelay(r) \/ ObFault(r)

\* Relays are called again and again.
OutboxFairness == \A r \in ObRelays : WF_obvars(ObRelay(r))

OutboxSpec == OutboxInit /\ [][OutboxNext]_obvars /\ OutboxFairness

(***************************************************************************)
(* Properties.                                                             *)
(***************************************************************************)

ObTimes(x) == {i \in DOMAIN obsent : obsent[i] = x}

\* A row is marked only after it has been published, whichever relay did it.
MarkedWasSent == \A x \in obmarked : ObTimes(x) # {}

\* Rows are published for the first time in the order of their creation, as far
\* as they were in the table when they could be fetched together; relays that
\* race or crash repeat rows and do not reorder first publications.
FirstSentInOrder ==
  \A x, y \in ObRows : x < y /\ x \in obsaw[y] /\ ObTimes(y) # {} =>
     \E i \in ObTimes(x) : \A k \in ObTimes(y) : i < k

\* A row is published again only by another relay or after a fault.
RepeatsExplained ==
  \A x \in ObRows : Cardinality(ObTimes(x)) <= Cardinality(ObRelays) + obfaults

\* What relays keep.
OutboxInv == OutboxTypeOK /\ MarkedWasSent /\ FirstSentInOrder /\ RepeatsExplained

\* Every row in the table is published in the end, if faults do not go on.
EveryRowRelayed == \A x \in ObRows : x \in obrows ~> x \in obmarked
==============================================================================
