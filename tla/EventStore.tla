----------------------------- MODULE EventStore -----------------------------
(***************************************************************************)
(* id_effect_events: append of the three event stores, called by several   *)
(* writers.                                                                *)
(*                                                                         *)
(*   "memory"  MemoryEventStore: one critical section                      *)
(*   "file"    FileJournal: reads the whole file, then writes lines to it  *)
(*   "sql"     SqlEventJournal: reads the latest version, then inserts     *)
(*             row by row                                                  *)
(*                                                                         *)
(* The file is opened for appending without a buffer, so writeln! is two   *)
(* writes, the text and the line break.  A writer that stops between two   *)
(* steps is a process that was killed there.                               *)
(***************************************************************************)
EXTENDS Naturals, Sequences, FiniteSets, FiniteSetsExt, SequencesExt

CONSTANTS EsKinds,
          EsStreams,
          EsWriters,
          EsStream,    \* EsStream[w]: the stream w appends to
          EsCount      \* EsCount[w]: how many events w appends

ASSUME EventStoreAssumption == /\ EsKinds \subseteq {"memory", "file", "sql"}
                               /\ EsStream \in [EsWriters -> EsStreams]
                               /\ EsCount \in [EsWriters -> Nat \ {0}]

VARIABLES eskind,     \* the store
          eslog,      \* what is stored: records and, in the file, line breaks
          esat,       \* esat[w]: where the append of w is
          esfirst,    \* esfirst[w]: the version of its first event
          esnext,     \* esnext[w]: the event it stores next
          esoverlap   \* history: the pairs of writers that appended at the same time

esvars == <<eskind, eslog, esat, esfirst, esnext, esoverlap>>

EsRecords == [stream : EsStreams, version : Nat, writer : EsWriters, event : Nat]
LineBreak == [break |-> TRUE]

EventStoreTypeOK ==
  /\ eskind \in EsKinds
  /\ eslog \in Seq(EsRecords \cup {LineBreak})
  /\ esat \in [EsWriters -> {"new", "write", "break", "Ok", "Conflict", "Serde"}]
  /\ esfirst \in [EsWriters -> Nat] /\ esnext \in [EsWriters -> Nat]
  /\ esoverlap \subseteq SUBSET EsWriters

EventStoreInit ==
  /\ eskind \in EsKinds
  /\ eslog = <<>>
  /\ esat = [w \in EsWriters |-> "new"]
  /\ esfirst = [w \in EsWriters |-> 0] /\ esnext = [w \in EsWriters |-> 1]
  /\ esoverlap = {}

\* Where the records of stream s are, and their versions.
EsAt(s) == {i \in DOMAIN eslog : eslog[i] # LineBreak /\ eslog[i].stream = s}
EsVersions(s) == {eslog[i].version : i \in EsAt(s)}

\* read_all parses line by line: two records on one line are an error.
EsReadable == \A i \in 1..Len(eslog) - 1 : LineBreak \in {eslog[i], eslog[i + 1]}

EsRecord(w, first, i) ==
  [stream |-> EsStream[w], version |-> first + i - 1, writer |-> w, event |-> i]

EsActive == {w \in EsWriters : esat[w] \in {"write", "break"}}

\* The version of the next event: the number of stored ones plus one, or the
\* greatest stored one plus one.
EsNextVersion(w) ==
  1 + IF eskind = "sql" THEN Max({0} \cup EsVersions(EsStream[w]))
      ELSE Cardinality(EsAt(EsStream[w]))

EsMemoryAppend(w) ==
  /\ eskind = "memory" /\ esat[w] = "new"
  /\ eslog' = eslog \o [i \in 1..EsCount[w] |-> EsRecord(w, EsNextVersion(w), i)]
  /\ esat' = [esat EXCEPT ![w] = "Ok"]
  /\ esfirst' = [esfirst EXCEPT ![w] = EsNextVersion(w)]
  /\ esnext' = [esnext EXCEPT ![w] = EsCount[w] + 1]
  /\ UNCHANGED <<eskind, esoverlap>>

\* read_all or select_from: the versions are chosen here.
EsRead(w) ==
  /\ eskind # "memory" /\ esat[w] = "new"
  /\ esat' = [esat EXCEPT ![w] = IF eskind = "file" /\ ~EsReadable THEN "Serde" ELSE "write"]
  /\ esfirst' = [esfirst EXCEPT ![w] = EsNextVersion(w)]
  /\ esoverlap' = esoverlap \cup {{u, w} : u \in EsActive}
  /\ UNCHANGED <<eskind, eslog, esnext>>

\* The text of one line, ...
EsWriteLine(w) ==
  /\ eskind = "file" /\ esat[w] = "write"
  /\ eslog' = Append(eslog, EsRecord(w, esfirst[w], esnext[w]))
  /\ esat' = [esat EXCEPT ![w] = "break"]
  /\ UNCHANGED <<eskind, esfirst, esnext, esoverlap>>

\* ... and its line break.
EsWriteBreak(w) ==
  /\ eskind = "file" /\ esat[w] = "break"
  /\ eslog' = Append(eslog, LineBreak)
  /\ esnext' = [esnext EXCEPT ![w] = @ + 1]
  /\ esat' = [esat EXCEPT ![w] = IF esnext[w] = EsCount[w] THEN "Ok" ELSE "write"]
  /\ UNCHANGED <<eskind, esfirst, esoverlap>>

\* Faulty variant: a backend without the unique version.
EsTakenNever(w) == FALSE

EsTaken(w) == esfirst[w] + esnext[w] - 1 \in EsVersions(EsStream[w])

\* insert_row refuses a version that is taken; the rows inserted so far stay.
EsInsertRow(w) ==
  /\ eskind = "sql" /\ esat[w] = "write"
  /\ IF EsTaken(w)
     THEN /\ esat' = [esat EXCEPT ![w] = "Conflict"]
          /\ UNCHANGED <<eslog, esnext>>
     ELSE /\ eslog' = Append(eslog, EsRecord(w, esfirst[w], esnext[w]))
          /\ esnext' = [esnext EXCEPT ![w] = @ + 1]
          /\ esat' = [esat EXCEPT ![w] = IF esnext[w] = EsCount[w] THEN "Ok" ELSE "write"]
  /\ UNCHANGED <<eskind, esfirst, esoverlap>>

EventStoreNext == \E w \in EsWriters : \/ EsMemoryAppend(w) \/ EsRead(w) \/ EsWriteLine(w)
                                       \/ EsWriteBreak(w) \/ EsInsertRow(w)

EventStoreSpec == EventStoreInit /\ [][EventStoreNext]_esvars

(***************************************************************************)
(* Properties.                                                             *)
(***************************************************************************)

\* Where the records of writer w are, and the elements of A up to i.
EsBy(w) == {i \in DOMAIN eslog : eslog[i] # LineBreak /\ eslog[i].writer = w}
EsUpTo(A, i) == {k \in A : k <= i}

\* Appends to stream s do not overlap in a file.
EsAlone(s) == eskind # "file" \/ \A pair \in esoverlap : \E w \in pair : EsStream[w] # s

\* The versions of a stream are 1, 2, 3, ... in the order the events were stored.
\* In the file this needs appends to the stream that do not overlap.
VersionsCount ==
  \A s \in EsStreams : EsAlone(s) =>
    \A i \in EsAt(s) : eslog[i].version = Cardinality(EsUpTo(EsAt(s), i))

\* An append that returned Ok has all its events stored with the versions it
\* returned, once; any other has stored a prefix of them.
AcknowledgedStored ==
  \A w \in EsWriters :
    /\ \A i \in EsBy(w) :
         eslog[i] = EsRecord(w, esfirst[w], Cardinality(EsUpTo(EsBy(w), i)))
    /\ esat[w] = "Ok" => Cardinality(EsBy(w)) = EsCount[w]

\* With the SQL journal two appends that both return Ok do not mix their events.
OkAppendsAdjacent ==
  eskind = "sql" => \A u, w \in EsWriters :
    u # w /\ EsStream[u] = EsStream[w] /\ {esat[u], esat[w]} = {"Ok"} =>
      \/ esfirst[u] + EsCount[u] <= esfirst[w]
      \/ esfirst[w] + EsCount[w] <= esfirst[u]

\* Only appends that overlap spoil the file, also those to different streams.
SpoiltByOverlap == eskind = "file" /\ ~EsReadable => esoverlap # {}

\* What concurrent appends keep.
EventStoreInv == /\ EventStoreTypeOK /\ VersionsCount /\ AcknowledgedStored
                 /\ OkAppendsAdjacent /\ SpoiltByOverlap
==============================================================================
