---------------------------- MODULE Partitioning ----------------------------
(***************************************************************************)
(* Writing rows into a directory per value of the partition column with at *)
(* most maxOpen partitions open at a time: partition_record_batches keeps  *)
(* open writers and closes the least recently used one, the storage        *)
(* variants (partition_parquet_storage_async, fused_partition_to_storage)  *)
(* keep buffers and upload the least recently used one.                    *)
(*                                                                         *)
(* A batch is a set of values, one row per value; a row is known by its    *)
(* batch and its value.                                                    *)
(***************************************************************************)
EXTENDS ColumnarJobs

CONSTANTS PartitionValues,  \* values of the partition column
          PartitionBatches, \* batches of the input
          MaxOpens          \* limits on open partitions to consider

ASSUME PartitionAssumption == PartitionBatches \in Nat /\ MaxOpens \subseteq Nat

VARIABLES sinkKind,  \* "files" or "objects"
          maxOpen,
          batches,   \* the input
          fetched,   \* batches read
          groups,    \* keys of the current batch still to place
          open,      \* open partition -> rows buffered or written
          lru,
          counters,  \* key -> parts numbered so far
          stored,    \* <<key, number>> -> rows of a finished part
          partition  \* outcome

partitionVars == <<sinkKind, maxOpen, batches, fetched, groups, open, lru, counters, stored, partition>>

(* encode_partition_value: NULL has a token of its own; the token as a      *)
(* value and values with separators are escaped.  Values that look escaped  *)
(* already are left alone.                                                  *)
Encode(v) ==
    CASE v = "NULL" -> "HIVE"
      [] v = "HIVE" -> "ESC HIVE"
      [] v = "a/b" -> "ESC a_b"
      [] OTHER -> v

PartitionKeys == {Encode(v) : v \in PartitionValues}

Partitions == route = "partition"

PartitionInit ==
    /\ sinkKind \in Choice(Partitions, {"files", "objects"})
    /\ maxOpen \in Choice(Partitions, MaxOpens)
    /\ batches \in Choice(Partitions, [1 .. PartitionBatches -> SUBSET PartitionValues])
    /\ fetched = 0
    /\ groups = {}
    /\ open = <<>>
    /\ lru = <<>>
    /\ counters = [k \in PartitionKeys |-> 0]
    /\ stored = <<>>
    /\ partition = "running"

Bind(f, x, y) == [z \in DOMAIN f \cup {x} |-> IF z = x THEN y ELSE f[z]]
Unbind(f, x) == [z \in DOMAIN f \ {x} |-> f[z]]

\* The first position of a key in use is removed and the key put at the back.
Position(s, x) == CHOOSE i \in DOMAIN s : s[i] = x /\ \A j \in DOMAIN s : s[j] = x => i <= j
MoveToBack(s, x) ==
    IF \A i \in DOMAIN s : s[i] # x THEN s
    ELSE [i \in DOMAIN s |-> IF i < Position(s, x) THEN s[i] ELSE IF i < Len(s) THEN s[i + 1] ELSE x]

(* Rows of the current batch, grouped by key in no particular order.        *)
RowsOf(b, k) == {<<b, v>> : v \in {w \in batches[b] : Encode(w) = k}}

FetchBatch ==
    /\ partition = "running"
    /\ groups = {}
    /\ fetched < Len(batches)
    /\ sinkKind = "files" => maxOpen > 0
    /\ fetched' = fetched + 1
    /\ groups' = {Encode(v) : v \in batches[fetched']}
    /\ UNCHANGED <<sinkKind, maxOpen, batches, open, lru, counters, stored, partition>>

(* partition_record_batches refuses a limit of zero, the others do not.     *)
RefuseLimit ==
    /\ partition = "running"
    /\ sinkKind = "files" /\ maxOpen = 0
    /\ partition' = "failed"
    /\ UNCHANGED <<sinkKind, maxOpen, batches, fetched, groups, open, lru, counters, stored>>

(* The part an open partition ends up in: its file was numbered when it was *)
(* opened, a buffer is numbered when it is uploaded.                        *)
PartNumber(k) == IF sinkKind = "files" THEN counters[k] - 1 ELSE counters[k]

Close(k) == Bind(stored, <<k, PartNumber(k)>>, open[k])

Touch(k) ==
    /\ k \in DOMAIN open
    /\ open' = [open EXCEPT ![k] = @ \cup RowsOf(fetched, k)]
    /\ lru' = MoveToBack(lru, k)
    /\ UNCHANGED <<counters, stored>>

\* mutant: evicts one too late
MustEvictLate == Cardinality(DOMAIN open) > maxOpen /\ lru # <<>>

MustEvict == Cardinality(DOMAIN open) >= maxOpen /\ lru # <<>>

\* mutant: the counter is read and not written back
Unnumbered(c, k) == c

NumberOnOpen(c, k) == IF sinkKind = "files" THEN [c EXCEPT ![k] = @ + 1] ELSE c
NumberOnEvict(c, k) == IF sinkKind = "objects" THEN [c EXCEPT ![k] = @ + 1] ELSE c

Open(k) ==
    /\ k \notin DOMAIN open
    /\ LET evicted == Head(lru)
           kept == IF MustEvict THEN Unbind(open, evicted) ELSE open
       IN  /\ open' = Bind(kept, k, RowsOf(fetched, k))
           /\ lru' = Append(IF MustEvict THEN Tail(lru) ELSE lru, k)
           /\ stored' = IF MustEvict THEN Close(evicted) ELSE stored
           /\ counters' = NumberOnOpen(IF MustEvict THEN NumberOnEvict(counters, evicted) ELSE counters, k)

PlaceGroup(k) ==
    /\ partition = "running"
    /\ k \in groups
    /\ Touch(k) \/ Open(k)
    /\ groups' = groups \ {k}
    /\ UNCHANGED <<sinkKind, maxOpen, batches, fetched, partition>>

(* Closing a writer, uploading a buffer or reading a batch fails: `?`.      *)
PartitionFails ==
    /\ partition = "running"
    /\ partition' = "failed"
    /\ UNCHANGED <<sinkKind, maxOpen, batches, fetched, groups, open, lru, counters, stored>>

InputRead == groups = {} /\ fetched = Len(batches)

(* At the end what is open is closed or uploaded, in any order. *)
DrainPartition(k) ==
    /\ partition = "running"
    /\ InputRead
    /\ stored' = Close(k)
    /\ open' = Unbind(open, k)
    /\ UNCHANGED <<sinkKind, maxOpen, batches, fetched, groups, lru, counters, partition>>

PartitionDone ==
    /\ partition = "running"
    /\ InputRead
    /\ sinkKind = "files" => maxOpen > 0
    /\ DOMAIN open = {}
    /\ partition' = "done"
    /\ UNCHANGED <<sinkKind, maxOpen, batches, fetched, groups, open, lru, counters, stored>>

PartitionNext ==
    \/ FetchBatch
    \/ RefuseLimit
    \/ \E k \in PartitionKeys : PlaceGroup(k)
    \/ \E k \in DOMAIN open : DrainPartition(k)
    \/ PartitionFails
    \/ PartitionDone
-----------------------------------------------------------------------------
(* A partitioned write that succeeds has put every row into exactly one     *)
(* part, whatever was evicted and reopened in between, and only below the   *)
(* directory of its value.                                                  *)
PartitionedWhole ==
    partition = "done" =>
        \A b \in DOMAIN batches : \A v \in batches[b] :
            /\ \E p \in DOMAIN stored : <<b, v>> \in stored[p] /\ p[1] = Encode(v)
            /\ \A p, q \in DOMAIN stored : <<b, v>> \in stored[p] \cap stored[q] => p = q

(* A part that is finished is never written again: no eviction reuses the   *)
(* number of an earlier part of its partition, and never more partitions    *)
(* are open than allowed (a limit of zero acts as one).                     *)
PartsAreFinal ==
    [][/\ \A p \in DOMAIN stored : p \in DOMAIN stored' /\ stored'[p] = stored[p]
       /\ Cardinality(DOMAIN open') <= IF maxOpen = 0 THEN 1 ELSE maxOpen]_partitionVars
=============================================================================
