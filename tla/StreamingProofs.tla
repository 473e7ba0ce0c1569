-------------------------- MODULE StreamingProofs --------------------------
(***************************************************************************)
(* Proofs about the columnar jobs.  First the partitioned write: whatever  *)
(* is evicted and reopened, every row ends up in exactly one part.  Then   *)
(* the conversions: what the readers sent is, in its order, on the way to  *)
(* the output, and nothing of it is lost when the stages end.  Then the    *)
(* resumable conversion: what its checkpoint calls processed is staged.    *)
(* Last the transform spec: a plan that ends well is a single segment, and *)
(* what it wrote is what the spec asks for.                                *)
(***************************************************************************)
EXTENDS Streaming, Integers, WellFoundedInduction, FiniteSetTheorems, SequenceTheorems, TLAPS

-----------------------------------------------------------------------------
(* The rows that have been handed to a partition so far: those of earlier   *)
(* batches and of the groups of this one that are no longer waiting.        *)
PlacedRows ==
    {r \in (1 .. PartitionBatches) \X PartitionValues :
        /\ r[2] \in batches[r[1]]
        /\ r[1] < fetched \/ (r[1] = fetched /\ Encode(r[2]) \notin groups)}

(* The rows of P are spread over open partitions o and finished parts s:    *)
(* each is in one place, below its own key.                                 *)
Spread(o, s, P) ==
    /\ \A k \in DOMAIN o : \A r \in o[k] : r \in P /\ Encode(r[2]) = k
    /\ \A p \in DOMAIN s : \A r \in s[p] : r \in P /\ Encode(r[2]) = p[1]
    /\ \A r \in P : (\E k \in DOMAIN o : r \in o[k]) \/ (\E p \in DOMAIN s : r \in s[p])
    /\ \A p, q \in DOMAIN s : \A r \in s[p] \cap s[q] : p = q
    /\ \A k \in DOMAIN o, p \in DOMAIN s : o[k] \cap s[p] = {}

PartitionTypes ==
    /\ sinkKind \in {"files", "objects"} /\ maxOpen \in Nat
    /\ batches \in [1 .. PartitionBatches -> SUBSET PartitionValues]
    /\ fetched \in 0 .. PartitionBatches
    /\ groups \subseteq PartitionKeys /\ (groups # {} => fetched > 0)
    /\ DOMAIN open \subseteq PartitionKeys /\ IsFiniteSet(DOMAIN open)
    /\ counters \in [PartitionKeys -> Nat]
    /\ lru \in Seq(PartitionKeys)

(* The queue names the open partitions, each once, until the drain at the   *)
(* end, which does not look at it.                                          *)
Injective(s) == \A i, j \in DOMAIN s : s[i] = s[j] => i = j
Queued(s) == {s[i] : i \in DOMAIN s}
QueueIsOpen == ~InputRead => Injective(lru) /\ DOMAIN open = Queued(lru)

(* The number of the next part of a partition is larger than those of its   *)
(* finished parts.                                                          *)
NumbersAreFresh ==
    \A p \in DOMAIN stored :
        /\ p = <<p[1], p[2]>> /\ p[1] \in PartitionKeys /\ p[2] \in Int
        /\ p[1] \in DOMAIN open => p[2] < PartNumber(p[1])
        /\ ~InputRead => p[2] < counters[p[1]]

OpenLimit == IF maxOpen = 0 THEN 1 ELSE maxOpen
OpenFits == Cardinality(DOMAIN open) <= OpenLimit

(* A write that reports success has read everything and closed everything.  *)
DoneMeansDrained == partition = "done" => InputRead /\ DOMAIN open = {}

(* The invariant of a partitioned write.                                    *)
WriteInv ==
    /\ PartitionTypes /\ QueueIsOpen /\ NumbersAreFresh /\ OpenFits /\ DoneMeansDrained
    /\ Spread(open, stored, PlacedRows)

PartitionInv == IF Partitions THEN WriteInv ELSE partition = "running"
-----------------------------------------------------------------------------
(* Closing an open partition into a part of a new number moves its rows.    *)
LEMMA CloseMovesRows ==
    ASSUME NEW o, NEW s, NEW P, Spread(o, s, P),
           NEW k \in DOMAIN o, NEW n, <<k, n>> \notin DOMAIN s
    PROVE  Spread(Unbind(o, k), Bind(s, <<k, n>>, o[k]), P)
<1> DEFINE o2 == Unbind(o, k)
           s2 == Bind(s, <<k, n>>, o[k])
<1>1. DOMAIN o2 = DOMAIN o \ {k} /\ \A j \in DOMAIN o2 : o2[j] = o[j]
    BY DEF Unbind
<1>2. DOMAIN s2 = DOMAIN s \cup {<<k, n>>} /\ s2[<<k, n>>] = o[k] /\ \A p \in DOMAIN s : s2[p] = s[p]
    BY DEF Bind
<1> HIDE DEF o2, s2
<1>3. \A j \in DOMAIN o2 : \A r \in o2[j] : r \in P /\ Encode(r[2]) = j
    BY <1>1 DEF Spread
<1>4. \A p \in DOMAIN s2 : \A r \in s2[p] : r \in P /\ Encode(r[2]) = p[1]
    <2> SUFFICES ASSUME NEW p \in DOMAIN s2, NEW r \in s2[p]
                 PROVE  r \in P /\ Encode(r[2]) = p[1]
        OBVIOUS
    <2>1. CASE p \in DOMAIN s
        BY <2>1, <1>2 DEF Spread
    <2>2. CASE p = <<k, n>>
        <3>1. p[1] = k
            BY <2>2
        <3> QED BY <2>2, <3>1, <1>2 DEF Spread
    <2> QED BY <2>1, <2>2, <1>2
<1>5. ASSUME NEW r \in P
      PROVE  (\E j \in DOMAIN o2 : r \in o2[j]) \/ (\E p \in DOMAIN s2 : r \in s2[p])
    <2>1. CASE \E p \in DOMAIN s : r \in s[p]
        BY <2>1, <1>2
    <2>2. CASE \E j \in DOMAIN o : r \in o[j]
        BY <2>2, <1>1, <1>2
    <2> QED BY <2>1, <2>2 DEF Spread
<1>6. ASSUME NEW p \in DOMAIN s2, NEW q \in DOMAIN s2, NEW r \in s2[p] \cap s2[q]
      PROVE  p = q
    BY <1>2 DEF Spread
<1>7. ASSUME NEW j \in DOMAIN o2, NEW p \in DOMAIN s2
      PROVE  o2[j] \cap s2[p] = {}
    <2>1. CASE p \in DOMAIN s
        BY <2>1, <1>1, <1>2 DEF Spread
    <2>2. CASE p = <<k, n>>
        BY <2>2, <1>1, <1>2 DEF Spread
    <2> QED BY <2>1, <2>2, <1>2
<1> QED BY <1>3, <1>4, <1>5, <1>6, <1>7 DEF Spread, o2, s2

(* Writing new rows of one key to the open partition of that key.           *)
LEMMA WriteAddsRows ==
    ASSUME NEW o, NEW s, NEW P, Spread(o, s, P), NEW o2,
           NEW k, NEW N, N \cap P = {}, \A r \in N : Encode(r[2]) = k,
           DOMAIN o2 = DOMAIN o \cup {k},
           \A j \in DOMAIN o : j # k => o2[j] = o[j],
           o2[k] = IF k \in DOMAIN o THEN o[k] \cup N ELSE N
    PROVE  Spread(o2, s, P \cup N)
<1>1. ASSUME NEW j \in DOMAIN o2, NEW r \in o2[j]
      PROVE  /\ r \in P \cup N /\ Encode(r[2]) = j
             /\ r \in N \/ (j \in DOMAIN o /\ r \in o[j])
    BY <1>1 DEF Spread
<1>2. ASSUME NEW r \in P \cup N
      PROVE  (\E j \in DOMAIN o2 : r \in o2[j]) \/ (\E p \in DOMAIN s : r \in s[p])
    BY <1>2 DEF Spread
<1>3. ASSUME NEW j \in DOMAIN o2, NEW p \in DOMAIN s
      PROVE  o2[j] \cap s[p] = {}
    <2> SUFFICES ASSUME NEW r \in o2[j], r \in s[p]
                 PROVE  FALSE
        OBVIOUS
    <2>1. r \in P
        BY DEF Spread
    <2>2. j \in DOMAIN o /\ r \in o[j]
        BY <2>1, <1>1
    <2> QED BY <2>2 DEF Spread
<1>4. /\ \A p \in DOMAIN s : \A r \in s[p] : r \in P \cup N /\ Encode(r[2]) = p[1]
      /\ \A p, q \in DOMAIN s : \A r \in s[p] \cap s[q] : p = q
    BY DEF Spread
<1> QED BY <1>1, <1>2, <1>3, <1>4 DEF Spread

(* A position of a sequence is the last one or an earlier one.              *)
LEMMA LastOrEarlier ==
    ASSUME NEW n \in Nat, NEW i \in 1 .. n
    PROVE  i < n \/ i = n
OBVIOUS

(* The position of a key in the queue.                                      *)
LEMMA PositionIsFirst ==
    ASSUME NEW S, NEW s \in Seq(S), NEW x, NEW i \in DOMAIN s, s[i] = x, Injective(s)
    PROVE  Position(s, x) = i
<1>1. \A j \in DOMAIN s : s[j] = x => j = i
    BY DEF Injective
<1>2. \A j : (j \in DOMAIN s /\ s[j] = x /\ \A m \in DOMAIN s : s[m] = x => j <= m) <=> j = i
    BY <1>1
<1> QED BY <1>2 DEF Position

(* A key in use goes to the back of the queue; the queue keeps its members. *)
LEMMA MoveKeepsMembers ==
    ASSUME NEW S, NEW s \in Seq(S), NEW x \in S, Injective(s)
    PROVE  /\ MoveToBack(s, x) \in Seq(S) /\ Injective(MoveToBack(s, x))
           /\ Queued(MoveToBack(s, x)) = Queued(s)
<1>1. CASE \A i \in DOMAIN s : s[i] # x
    BY <1>1 DEF MoveToBack
<1>2. CASE \E i \in DOMAIN s : s[i] = x
    <2>1. PICK i \in DOMAIN s : s[i] = x
        BY <1>2
    <2> DEFINE t == [j \in DOMAIN s |-> IF j < i THEN s[j] ELSE IF j < Len(s) THEN s[j + 1] ELSE x]
    <2>2. MoveToBack(s, x) = t
        BY <1>2, <2>1, PositionIsFirst DEF MoveToBack
    <2>3. DOMAIN s = 1 .. Len(s) /\ Len(s) \in Nat
        OBVIOUS
    <2>4. \A j \in 1 .. Len(s) : t[j] \in S
        BY <2>3
    <2>5. t \in Seq(S) /\ DOMAIN t = 1 .. Len(s)
        BY <2>3, <2>4
    <2>6. Injective(t)
        <3> SUFFICES ASSUME NEW a \in 1 .. Len(s), NEW b \in 1 .. Len(s), a < b, t[a] = t[b]
                     PROVE  FALSE
            BY <2>5 DEF Injective
        <3> DEFINE from(j) == IF j < i THEN j ELSE j + 1
        <3>1. from(a) \in DOMAIN s /\ from(a) # i /\ t[a] = s[from(a)]
            BY <2>1, <2>3
        <3>2. CASE b < Len(s)
            <4>1. from(b) \in DOMAIN s /\ from(b) # from(a) /\ t[b] = s[from(b)]
                BY <3>2, <2>1, <2>3
            <4> QED BY <3>1, <4>1 DEF Injective
        <3>3. CASE b = Len(s)
            <4>1. t[b] = s[i]
                BY <3>3, <2>1, <2>3
            <4>2. s[from(a)] = s[i]
                BY <3>1, <4>1
            <4> HIDE DEF t, from
            <4> QED BY <3>1, <4>2, <2>1 DEF Injective
        <3>4. b < Len(s) \/ b = Len(s)
            BY <2>3, LastOrEarlier
        <3> QED BY <3>2, <3>3, <3>4
    <2>7. ASSUME NEW y PROVE (\E j \in DOMAIN t : t[j] = y) <=> (\E j \in DOMAIN s : s[j] = y)
        <3>1. ASSUME NEW j \in DOMAIN t PROVE \E m \in DOMAIN s : s[m] = t[j]
            BY <2>1, <2>3, <2>5
        <3>2. ASSUME NEW j \in DOMAIN s PROVE \E m \in DOMAIN t : t[m] = s[j]
            <4>1. CASE j < i
                BY <4>1, <2>3, <2>5
            <4>2. CASE j = i
                <5>1. t[Len(s)] = x
                    BY <2>1, <2>3
                <5> QED BY <4>2, <5>1, <2>1, <2>3, <2>5
            <4>3. CASE j > i
                <5>1. j - 1 \in DOMAIN t /\ t[j - 1] = s[j]
                    BY <4>3, <2>1, <2>3, <2>5
                <5> QED BY <5>1
            <4>4. i \in Int /\ j \in Int
                BY <2>1, <2>3
            <4> HIDE DEF t
            <4> QED BY <4>1, <4>2, <4>3, <4>4
        <3> HIDE DEF t
        <3> QED BY <3>1, <3>2
    <2>8. Queued(t) = Queued(s)
        BY <2>7 DEF Queued
    <2> QED BY <2>2, <2>5, <2>6, <2>8
<1> QED BY <1>1, <1>2

(* The first key leaves the queue.                                          *)
LEMMA TailDropsHead ==
    ASSUME NEW S, NEW s \in Seq(S), s # <<>>, Injective(s)
    PROVE  /\ Head(s) \in S /\ Head(s) \in Queued(s)
           /\ Tail(s) \in Seq(S) /\ Injective(Tail(s))
           /\ Queued(Tail(s)) = Queued(s) \ {Head(s)}
<1>1. /\ Len(s) \in Nat \ {0} /\ DOMAIN s = 1 .. Len(s) /\ Head(s) = s[1] /\ Head(s) \in S
      /\ Tail(s) \in Seq(S) /\ DOMAIN Tail(s) = 1 .. (Len(s) - 1)
      /\ \A i \in 1 .. (Len(s) - 1) : Tail(s)[i] = s[i + 1]
    OBVIOUS
<1>2. Injective(Tail(s))
    BY <1>1 DEF Injective
<1>3. ASSUME NEW i \in DOMAIN Tail(s)
      PROVE  Tail(s)[i] \in Queued(s) \ {Head(s)}
    <2>1. i + 1 \in DOMAIN s /\ 1 \in DOMAIN s /\ i + 1 # 1 /\ Tail(s)[i] = s[i + 1]
        BY <1>1
    <2> QED BY <2>1, <1>1 DEF Queued, Injective
<1>4. ASSUME NEW i \in DOMAIN s, s[i] # Head(s)
      PROVE  s[i] \in Queued(Tail(s))
    <2>1. i - 1 \in DOMAIN Tail(s) /\ Tail(s)[i - 1] = s[i]
        BY <1>1, <1>4
    <2> QED BY <2>1 DEF Queued
<1>5. Head(s) \in Queued(s)
    BY <1>1 DEF Queued
<1>6. Queued(Tail(s)) \subseteq Queued(s) \ {Head(s)}
    BY <1>3 DEF Queued
<1>7. Queued(s) \ {Head(s)} \subseteq Queued(Tail(s))
    BY <1>4 DEF Queued
<1> QED BY <1>1, <1>2, <1>5, <1>6, <1>7

(* A new key joins the queue.                                               *)
LEMMA AppendAddsKey ==
    ASSUME NEW S, NEW s \in Seq(S), Injective(s), NEW k \in S, k \notin Queued(s)
    PROVE  /\ Append(s, k) \in Seq(S) /\ Injective(Append(s, k))
           /\ Queued(Append(s, k)) = Queued(s) \cup {k}
<1> DEFINE t == Append(s, k)
<1>1. /\ t \in Seq(S) /\ Len(s) \in Nat /\ DOMAIN s = 1 .. Len(s) /\ DOMAIN t = 1 .. (Len(s) + 1)
      /\ t[Len(s) + 1] = k /\ \A i \in DOMAIN s : t[i] = s[i]
    OBVIOUS
<1> HIDE DEF t
<1>2. \A i \in DOMAIN t : i \in DOMAIN s \/ i = Len(s) + 1
    BY <1>1
<1>3. DOMAIN s \subseteq DOMAIN t /\ Len(s) + 1 \in DOMAIN t
    BY <1>1
<1>4. \A i \in DOMAIN s : s[i] # k
    BY DEF Queued
<1>5. Injective(t)
    BY <1>1, <1>2, <1>4 DEF Injective
<1>6. Queued(t) = Queued(s) \cup {k}
    BY <1>1, <1>2, <1>3 DEF Queued
<1> QED BY <1>1, <1>5, <1>6 DEF t

(* An empty queue has no keys.                                              *)
LEMMA EmptyQueue ==
    ASSUME NEW S, NEW s \in Seq(S), s = <<>>
    PROVE  Queued(s) = {}
BY DEF Queued
-----------------------------------------------------------------------------
(* The keys of a batch's rows.                                              *)
LEMMA BatchesAreKeyed ==
    ASSUME PartitionTypes
    PROVE  /\ Len(batches) = PartitionBatches /\ PartitionBatches \in Nat
           /\ \A v \in PartitionValues : Encode(v) \in PartitionKeys
<1>1. PartitionBatches \in Nat
    BY PartitionAssumption
<1>2. batches \in Seq(SUBSET PartitionValues) /\ Len(batches) = PartitionBatches
    BY <1>1 DEF PartitionTypes
<1> QED BY <1>1, <1>2 DEF PartitionKeys

(* Placing a group adds exactly its rows.                                   *)
LEMMA PlacingAddsGroup ==
    ASSUME PartitionTypes, NEW k \in groups,
           groups' = groups \ {k}, fetched' = fetched, batches' = batches
    PROVE  /\ PlacedRows' = PlacedRows \cup RowsOf(fetched, k)
           /\ RowsOf(fetched, k) \cap PlacedRows = {}
           /\ \A r \in RowsOf(fetched, k) : Encode(r[2]) = k
<1>1. fetched \in 1 .. PartitionBatches /\ batches[fetched] \subseteq PartitionValues
    BY PartitionAssumption DEF PartitionTypes
<1>2. RowsOf(fetched, k) =
        {r \in (1 .. PartitionBatches) \X PartitionValues :
            r[1] = fetched /\ r[2] \in batches[r[1]] /\ Encode(r[2]) = k}
    <2>1. ASSUME NEW v \in batches[fetched], Encode(v) = k
          PROVE  <<fetched, v>> \in {r \in (1 .. PartitionBatches) \X PartitionValues :
                    r[1] = fetched /\ r[2] \in batches[r[1]] /\ Encode(r[2]) = k}
        BY <1>1, <2>1
    <2>2. ASSUME NEW r \in (1 .. PartitionBatches) \X PartitionValues,
                 r[1] = fetched, r[2] \in batches[r[1]], Encode(r[2]) = k
          PROVE  r \in RowsOf(fetched, k)
        <3>1. r = <<fetched, r[2]>>
            BY <2>2
        <3> QED BY <2>2, <3>1 DEF RowsOf
    <2> QED BY <2>1, <2>2 DEF RowsOf
<1>3. \A r \in RowsOf(fetched, k) : Encode(r[2]) = k
    BY <1>2
<1>4. RowsOf(fetched, k) \cap PlacedRows = {}
    BY <1>1, <1>2 DEF PlacedRows
<1>5. PlacedRows' = PlacedRows \cup RowsOf(fetched, k)
    BY <1>1, <1>2 DEF PlacedRows
<1> QED BY <1>3, <1>4, <1>5
-----------------------------------------------------------------------------
(* Reading the next batch places none of its rows yet.                      *)
LEMMA FetchKeeps == WriteInv /\ FetchBatch => WriteInv'
<1> SUFFICES ASSUME WriteInv, FetchBatch PROVE WriteInv'
    OBVIOUS
<1> USE DEF WriteInv
<1>1. /\ Len(batches) = PartitionBatches /\ PartitionBatches \in Nat
      /\ \A v \in PartitionValues : Encode(v) \in PartitionKeys
    BY BatchesAreKeyed
<1>2. fetched' = fetched + 1 /\ fetched' \in 1 .. PartitionBatches /\ batches[fetched'] \subseteq PartitionValues
    BY <1>1 DEF FetchBatch, PartitionTypes
<1>3. PartitionTypes'
    BY <1>1, <1>2 DEF FetchBatch, PartitionTypes
<1>4. ~InputRead
    BY <1>1 DEF FetchBatch, InputRead, PartitionTypes
<1>5. PlacedRows' = PlacedRows
    BY <1>2 DEF FetchBatch, PlacedRows, PartitionTypes
<1>6. QueueIsOpen' /\ OpenFits' /\ DoneMeansDrained'
    BY <1>4 DEF FetchBatch, QueueIsOpen, OpenFits, OpenLimit, DoneMeansDrained
<1>7. NumbersAreFresh'
    BY <1>4 DEF FetchBatch, NumbersAreFresh, PartNumber
<1>8. Spread(open, stored, PlacedRows)'
    BY <1>5 DEF FetchBatch
<1> QED BY <1>3, <1>6, <1>7, <1>8

(* A group whose partition is open is written to it.                        *)
LEMMA TouchKeeps ==
    ASSUME WriteInv, NEW k \in groups, Touch(k), partition = "running", groups' = groups \ {k},
           UNCHANGED <<sinkKind, maxOpen, batches, fetched, partition>>
    PROVE  WriteInv'
<1> USE DEF WriteInv
<1>1. ~InputRead /\ k \in PartitionKeys /\ k \in DOMAIN open
    BY DEF InputRead, PartitionTypes, Touch
<1>2. Injective(lru) /\ DOMAIN open = Queued(lru) /\ lru \in Seq(PartitionKeys)
    BY <1>1 DEF QueueIsOpen, PartitionTypes
<1>3. lru' \in Seq(PartitionKeys) /\ Injective(lru') /\ Queued(lru') = Queued(lru)
    BY <1>1, <1>2, MoveKeepsMembers DEF Touch
<1>4. DOMAIN open' = DOMAIN open
    BY DEF Touch
<1>5. PartitionTypes'
    BY <1>3, <1>4 DEF PartitionTypes, Touch
<1>6. QueueIsOpen' /\ OpenFits' /\ DoneMeansDrained'
    BY <1>2, <1>3, <1>4 DEF QueueIsOpen, OpenFits, OpenLimit, DoneMeansDrained
<1>7. NumbersAreFresh'
    BY <1>1, <1>4 DEF Touch, NumbersAreFresh, PartNumber
<1>8. Spread(open, stored, PlacedRows)'
    <2>1. /\ DOMAIN open' = DOMAIN open \cup {k}
          /\ \A j \in DOMAIN open : j # k => open'[j] = open[j]
          /\ open'[k] = open[k] \cup RowsOf(fetched, k)
        BY <1>1 DEF Touch
    <2>2. Spread(open', stored, PlacedRows \cup RowsOf(fetched, k))
        BY <1>1, <2>1, PlacingAddsGroup, WriteAddsRows
    <2> QED BY <2>2, PlacingAddsGroup DEF Touch
<1> QED BY <1>5, <1>6, <1>7, <1>8

(* The partition the queue evicts is open, and its part has a new number.   *)
LEMMA EvictedIsOpen ==
    ASSUME WriteInv, ~InputRead, lru # <<>>
    PROVE  Head(lru) \in DOMAIN open /\ Head(lru) \in PartitionKeys
<1>1. Injective(lru) /\ DOMAIN open = Queued(lru) /\ lru \in Seq(PartitionKeys)
    BY DEF WriteInv, QueueIsOpen, PartitionTypes
<1> QED BY <1>1, TailDropsHead

(* A partition is closed into a part that did not exist before.             *)
LEMMA ClosedPartIsNew ==
    ASSUME WriteInv, NEW k \in DOMAIN open
    PROVE  PartNumber(k) \in Int /\ <<k, PartNumber(k)>> \notin DOMAIN stored
<1>1. PartNumber(k) \in Int
    BY DEF WriteInv, PartitionTypes, PartNumber
<1>2. ASSUME <<k, PartNumber(k)>> \in DOMAIN stored PROVE FALSE
    <2> DEFINE p == <<k, PartNumber(k)>>
    <2>1. p[1] = k /\ p[2] = PartNumber(k)
        OBVIOUS
    <2>2. p[1] \in DOMAIN open => p[2] < PartNumber(p[1])
        BY <1>2 DEF WriteInv, NumbersAreFresh
    <2> QED BY <1>1, <2>1, <2>2
<1> QED BY <1>1, <1>2

(* A group whose partition is not open opens it, with room for it.          *)
LEMMA OpenKeeps ==
    ASSUME WriteInv, NEW k \in groups, Open(k), ~MustEvict, partition = "running", groups' = groups \ {k},
           UNCHANGED <<sinkKind, maxOpen, batches, fetched, partition>>
    PROVE  WriteInv'
<1> USE DEF WriteInv
<1>1. ~InputRead /\ k \in PartitionKeys /\ k \notin DOMAIN open
    BY DEF InputRead, PartitionTypes, Open
<1>2. Injective(lru) /\ DOMAIN open = Queued(lru) /\ lru \in Seq(PartitionKeys)
    BY <1>1 DEF QueueIsOpen, PartitionTypes
<1>3. /\ open' = Bind(open, k, RowsOf(fetched, k)) /\ lru' = Append(lru, k) /\ stored' = stored
      /\ counters' = NumberOnOpen(counters, k)
    BY DEF Open
<1>4. lru' \in Seq(PartitionKeys) /\ Injective(lru') /\ Queued(lru') = Queued(lru) \cup {k}
    BY <1>1, <1>2, <1>3, AppendAddsKey
<1>5. /\ DOMAIN open' = DOMAIN open \cup {k}
      /\ \A j \in DOMAIN open : j # k => open'[j] = open[j]
      /\ open'[k] = RowsOf(fetched, k)
    BY <1>3 DEF Bind
<1>6. IsFiniteSet(DOMAIN open') /\ Cardinality(DOMAIN open') = Cardinality(DOMAIN open) + 1
    BY <1>1, <1>5, FS_AddElement DEF PartitionTypes
<1>7. counters' \in [PartitionKeys -> Nat] /\ \A j \in PartitionKeys : counters'[j] >= counters[j]
    BY <1>1, <1>3 DEF PartitionTypes, NumberOnOpen
<1>8. PartitionTypes'
    BY <1>1, <1>4, <1>5, <1>6, <1>7 DEF PartitionTypes
<1>9. OpenFits'
    <2>1. CASE lru = <<>>
        <3>1. Cardinality(DOMAIN open) = 0
            BY <1>2, <2>1, EmptyQueue, FS_EmptySet
        <3> QED BY <1>6, <3>1 DEF OpenFits, OpenLimit, PartitionTypes
    <2>2. CASE lru # <<>>
        <3>1. Cardinality(DOMAIN open) < maxOpen
            BY <2>2, FS_CardinalityType DEF MustEvict, PartitionTypes
        <3> QED BY <1>6, <3>1, FS_CardinalityType DEF OpenFits, OpenLimit, PartitionTypes
    <2> QED BY <2>1, <2>2
<1>10. QueueIsOpen' /\ DoneMeansDrained'
    BY <1>2, <1>4, <1>5 DEF QueueIsOpen, DoneMeansDrained
<1>11. NumbersAreFresh'
    <2> SUFFICES ASSUME NEW p \in DOMAIN stored
                 PROVE  /\ p = <<p[1], p[2]>> /\ p[1] \in PartitionKeys /\ p[2] \in Int
                        /\ p[1] \in DOMAIN open' => p[2] < PartNumber(p[1])'
                        /\ p[2] < counters'[p[1]]
        BY <1>3 DEF NumbersAreFresh
    <2>1. /\ p = <<p[1], p[2]>> /\ p[1] \in PartitionKeys /\ p[2] \in Int
          /\ p[1] \in DOMAIN open => p[2] < PartNumber(p[1])
          /\ p[2] < counters[p[1]]
        BY <1>1 DEF NumbersAreFresh
    <2>2. p[2] < counters'[p[1]]
        BY <1>7, <2>1 DEF PartitionTypes
    <2>3. CASE p[1] = k
        BY <1>1, <1>3, <2>1, <2>3 DEF PartNumber, NumberOnOpen, PartitionTypes
    <2>4. CASE p[1] # k
        BY <1>1, <1>3, <1>5, <2>1, <2>4 DEF PartNumber, NumberOnOpen, PartitionTypes
    <2> QED BY <2>1, <2>2, <2>3, <2>4
<1>12. Spread(open, stored, PlacedRows)'
    <2> DEFINE N == RowsOf(fetched, k)
    <2>1. PlacedRows' = PlacedRows \cup N /\ N \cap PlacedRows = {} /\ \A r \in N : Encode(r[2]) = k
        BY PlacingAddsGroup
    <2>2. open'[k] = IF k \in DOMAIN open THEN open[k] \cup N ELSE N
        BY <1>1, <1>5
    <2>3. Spread(open, stored, PlacedRows)
        OBVIOUS
    <2> HIDE DEF N, WriteInv
    <2>4. Spread(open', stored, PlacedRows \cup N)
        BY <1>5, <2>1, <2>2, <2>3, WriteAddsRows
    <2> QED BY <1>3, <2>1, <2>4
<1> QED BY <1>8, <1>9, <1>10, <1>11, <1>12

(* A group whose partition is not open, with no room: the partition that    *)
(* was not used for the longest time is closed first.                       *)
LEMMA EvictKeeps ==
    ASSUME WriteInv, NEW k \in groups, Open(k), MustEvict, partition = "running", groups' = groups \ {k},
           UNCHANGED <<sinkKind, maxOpen, batches, fetched, partition>>
    PROVE  WriteInv'
<1> DEFINE e == Head(lru)
           o1 == Unbind(open, e)
           n == PartNumber(e)
           N == RowsOf(fetched, k)
<1> USE DEF WriteInv
<1>1. ~InputRead /\ k \in PartitionKeys /\ k \notin DOMAIN open /\ lru # <<>>
    BY DEF InputRead, PartitionTypes, Open, MustEvict
<1>2. Injective(lru) /\ DOMAIN open = Queued(lru) /\ lru \in Seq(PartitionKeys)
    BY <1>1 DEF QueueIsOpen, PartitionTypes
<1>3. e \in DOMAIN open /\ e \in PartitionKeys /\ e # k
    BY <1>1, EvictedIsOpen
<1>4. n \in Int /\ <<e, n>> \notin DOMAIN stored
    BY <1>3, ClosedPartIsNew
<1>5. /\ open' = Bind(o1, k, N) /\ lru' = Append(Tail(lru), k) /\ stored' = Bind(stored, <<e, n>>, open[e])
      /\ counters' = NumberOnOpen(NumberOnEvict(counters, e), k)
    BY DEF Open, Close
<1>6. Tail(lru) \in Seq(PartitionKeys) /\ Injective(Tail(lru)) /\ Queued(Tail(lru)) = Queued(lru) \ {e}
    BY <1>1, <1>2, TailDropsHead
<1>7. lru' \in Seq(PartitionKeys) /\ Injective(lru') /\ Queued(lru') = (Queued(lru) \ {e}) \cup {k}
    <2> DEFINE t == Tail(lru)
    <2>1. k \notin Queued(t) /\ k \in PartitionKeys /\ t \in Seq(PartitionKeys) /\ Injective(t)
        BY <1>1, <1>2, <1>6
    <2> HIDE DEF t, e, WriteInv
    <2>2. Append(t, k) \in Seq(PartitionKeys) /\ Injective(Append(t, k)) /\ Queued(Append(t, k)) = Queued(t) \cup {k}
        BY <2>1, AppendAddsKey
    <2> QED BY <1>5, <1>6, <2>2 DEF t
<1>8. DOMAIN o1 = DOMAIN open \ {e}
    BY DEF Unbind
<1>9. /\ DOMAIN open' = DOMAIN o1 \cup {k}
      /\ \A j \in DOMAIN o1 : j # k => open'[j] = o1[j]
      /\ open'[k] = N
    BY <1>5 DEF Bind
<1>10. IsFiniteSet(DOMAIN open') /\ Cardinality(DOMAIN open') = Cardinality(DOMAIN open)
    <2>1. IsFiniteSet(DOMAIN open)
        BY DEF PartitionTypes
    <2>2. k \notin DOMAIN o1
        BY <1>1, <1>8
    <2> HIDE DEF e, o1, N, WriteInv
    <2>3. IsFiniteSet(DOMAIN o1) /\ Cardinality(DOMAIN o1) = Cardinality(DOMAIN open) - 1
        BY <1>3, <1>8, <2>1, FS_RemoveElement
    <2>4. IsFiniteSet(DOMAIN open') /\ Cardinality(DOMAIN open') = Cardinality(DOMAIN o1) + 1
        BY <1>9, <2>2, <2>3, FS_AddElement
    <2>5. Cardinality(DOMAIN open) \in Nat
        BY <2>1, FS_CardinalityType
    <2> QED BY <2>3, <2>4, <2>5
<1>11. /\ counters' \in [PartitionKeys -> Nat]
       /\ \A j \in PartitionKeys : counters'[j] >= counters[j]
       /\ \A j \in PartitionKeys \ {e, k} : counters'[j] = counters[j]
       /\ counters'[e] = IF sinkKind = "objects" THEN counters[e] + 1 ELSE counters[e]
       /\ counters'[k] = IF sinkKind = "files" THEN counters[k] + 1 ELSE counters[k]
    <2>1. /\ counters \in [PartitionKeys -> Nat]
          /\ e \in PartitionKeys /\ k \in PartitionKeys /\ e # k
          /\ counters' = NumberOnOpen(NumberOnEvict(counters, e), k)
        BY <1>1, <1>3, <1>5 DEF PartitionTypes
    <2> HIDE DEF e, o1, n, N, WriteInv
    <2>2. CASE sinkKind = "files"
        BY ONLY <2>1, <2>2 DEF NumberOnOpen, NumberOnEvict
    <2>3. CASE sinkKind = "objects"
        BY ONLY <2>1, <2>3 DEF NumberOnOpen, NumberOnEvict
    <2>4. CASE sinkKind # "files" /\ sinkKind # "objects"
        BY ONLY <2>1, <2>4 DEF NumberOnOpen, NumberOnEvict
    <2> QED BY <2>2, <2>3, <2>4
<1>12. PartitionTypes'
    BY <1>1, <1>7, <1>8, <1>9, <1>10, <1>11 DEF PartitionTypes
<1>13. OpenFits' /\ QueueIsOpen' /\ DoneMeansDrained'
    BY <1>2, <1>7, <1>8, <1>9, <1>10 DEF OpenFits, OpenLimit, QueueIsOpen, DoneMeansDrained
<1>14. NumbersAreFresh'
    <2> SUFFICES ASSUME NEW p \in DOMAIN stored \cup {<<e, n>>}
                 PROVE  /\ p = <<p[1], p[2]>> /\ p[1] \in PartitionKeys /\ p[2] \in Int
                        /\ p[1] \in DOMAIN open' => p[2] < PartNumber(p[1])'
                        /\ p[2] < counters'[p[1]]
        BY <1>5 DEF NumbersAreFresh, Bind
    <2>1. CASE p = <<e, n>>
        <3>1. p[1] = e /\ p[2] = n /\ p[1] \notin DOMAIN open'
            BY <2>1, <1>3, <1>8, <1>9
        <3>2. n < counters'[e]
            BY <1>3, <1>11 DEF PartNumber, PartitionTypes
        <3> QED BY <2>1, <3>1, <3>2, <1>3, <1>4
    <2>2. CASE p \in DOMAIN stored
        <3>1. /\ p = <<p[1], p[2]>> /\ p[1] \in PartitionKeys /\ p[2] \in Int
              /\ p[1] \in DOMAIN open => p[2] < PartNumber(p[1])
              /\ p[2] < counters[p[1]]
            BY <2>2, <1>1 DEF NumbersAreFresh
        <3>2. p[2] < counters'[p[1]]
            BY <1>11, <3>1 DEF PartitionTypes
        <3>3. CASE p[1] = k
            BY <1>11, <3>1, <3>3 DEF PartNumber, PartitionTypes
        <3>4. CASE p[1] # k /\ p[1] \in DOMAIN open'
            <4>1. p[1] \in DOMAIN open /\ p[1] \notin {e, k}
                BY <1>8, <1>9, <3>4
            <4>2. PartNumber(p[1])' = PartNumber(p[1])
                BY <1>11, <3>1, <4>1 DEF PartNumber
            <4> QED BY <3>1, <3>2, <4>1, <4>2
        <3> QED BY <3>1, <3>2, <3>3, <3>4
    <2> QED BY <2>1, <2>2
<1>15. Spread(open, stored, PlacedRows)'
    <2>1. PlacedRows' = PlacedRows \cup N /\ N \cap PlacedRows = {} /\ \A r \in N : Encode(r[2]) = k
        BY PlacingAddsGroup
    <2>2. Spread(open, stored, PlacedRows)
        OBVIOUS
    <2> HIDE DEF N, WriteInv
    <2>3. Spread(o1, stored', PlacedRows)
        BY <1>3, <1>4, <1>5, <2>2, CloseMovesRows
    <2>4. k \notin DOMAIN o1
        BY <1>1, <1>8
    <2>5. open'[k] = IF k \in DOMAIN o1 THEN o1[k] \cup N ELSE N
        BY <1>9, <2>4
    <2> HIDE DEF o1
    <2>6. Spread(open', stored', PlacedRows \cup N)
        BY <1>9, <2>1, <2>3, <2>5, WriteAddsRows
    <2> QED BY <2>1, <2>6
<1> QED BY <1>12, <1>13, <1>14, <1>15

(* At the end an open partition is closed into its last part.               *)
LEMMA DrainKeeps ==
    ASSUME WriteInv, NEW k \in DOMAIN open, DrainPartition(k)
    PROVE  WriteInv'
<1> DEFINE n == PartNumber(k)
<1> USE DEF WriteInv
<1>1. /\ partition' = "running" /\ InputRead /\ InputRead'
      /\ stored' = Bind(stored, <<k, n>>, open[k]) /\ open' = Unbind(open, k)
      /\ UNCHANGED <<sinkKind, maxOpen, batches, fetched, groups, lru, counters, partition>>
    BY DEF DrainPartition, Close, InputRead
<1>2. n \in Int /\ <<k, n>> \notin DOMAIN stored /\ k \in PartitionKeys
    BY ClosedPartIsNew DEF PartitionTypes
<1>3. DOMAIN open' = DOMAIN open \ {k} /\ DOMAIN stored' = DOMAIN stored \cup {<<k, n>>}
    BY <1>1 DEF Unbind, Bind
<1>4. IsFiniteSet(DOMAIN open') /\ Cardinality(DOMAIN open') = Cardinality(DOMAIN open) - 1
    BY <1>3, FS_RemoveElement DEF PartitionTypes
<1>5. PartitionTypes'
    BY <1>1, <1>3, <1>4 DEF PartitionTypes
<1>6. OpenFits'
    BY <1>1, <1>4, FS_CardinalityType DEF OpenFits, OpenLimit, PartitionTypes
<1>7. QueueIsOpen' /\ DoneMeansDrained'
    BY <1>1 DEF QueueIsOpen, DoneMeansDrained
<1>8. NumbersAreFresh'
    <2> SUFFICES ASSUME NEW p \in DOMAIN stored \cup {<<k, n>>}
                 PROVE  /\ p = <<p[1], p[2]>> /\ p[1] \in PartitionKeys /\ p[2] \in Int
                        /\ p[1] \in DOMAIN open' => p[2] < PartNumber(p[1])
        BY <1>1, <1>3 DEF NumbersAreFresh, PartNumber
    <2>1. CASE p = <<k, n>>
        BY <2>1, <1>2, <1>3
    <2>2. CASE p \in DOMAIN stored
        BY <2>2, <1>3 DEF NumbersAreFresh
    <2> QED BY <2>1, <2>2
<1>9. Spread(open, stored, PlacedRows)'
    <2>1. PlacedRows' = PlacedRows
        BY <1>1 DEF PlacedRows
    <2>2. Spread(open, stored, PlacedRows)
        OBVIOUS
    <2> HIDE DEF WriteInv, n
    <2> QED BY <1>1, <1>2, <2>1, <2>2, CloseMovesRows
<1> QED BY <1>5, <1>6, <1>7, <1>8, <1>9

(* Everything else a partitioned write does ends it.                        *)
LEMMA EndKeeps == WriteInv /\ (RefuseLimit \/ PartitionFails \/ PartitionDone) => WriteInv'
<1> SUFFICES ASSUME WriteInv, RefuseLimit \/ PartitionFails \/ PartitionDone PROVE WriteInv'
    OBVIOUS
<1>1. /\ UNCHANGED <<sinkKind, maxOpen, batches, fetched, groups, open, lru, counters, stored>>
      /\ partition' = "done" => InputRead /\ DOMAIN open = {}
    BY DEF RefuseLimit, PartitionFails, PartitionDone
<1>2. PartitionTypes' /\ QueueIsOpen' /\ OpenFits' /\ DoneMeansDrained'
    BY <1>1 DEF WriteInv, PartitionTypes, QueueIsOpen, OpenFits, OpenLimit, DoneMeansDrained, InputRead
<1>3. NumbersAreFresh'
    BY <1>1 DEF WriteInv, NumbersAreFresh, PartNumber, InputRead
<1>4. PlacedRows' = PlacedRows
    BY <1>1 DEF PlacedRows
<1> QED BY <1>1, <1>2, <1>3, <1>4 DEF WriteInv

(* Every step of a partitioned write keeps the invariant; none of another   *)
(* job touches it.                                                          *)
LEMMA PartitionPreserved == PartitionInv /\ [Next]_vars => PartitionInv'
<1> SUFFICES ASSUME PartitionInv, [Next]_vars PROVE PartitionInv'
    OBVIOUS
<1>1. CASE UNCHANGED <<route, partitionVars>>
    <2>1. PlacedRows' = PlacedRows /\ Partitions' = Partitions /\ InputRead' = InputRead
        BY <1>1 DEF PlacedRows, Partitions, partitionVars, InputRead
    <2>2. WriteInv => WriteInv'
        BY <1>1, <2>1 DEF partitionVars, WriteInv, PartitionTypes, QueueIsOpen, NumbersAreFresh, PartNumber,
                          OpenFits, OpenLimit, DoneMeansDrained
    <2> QED BY <1>1, <2>1, <2>2 DEF PartitionInv, partitionVars
<1>2. CASE route = "partition" /\ PartitionNext /\ UNCHANGED convertVars
    <2>1. WriteInv /\ Partitions'
        BY <1>2 DEF PartitionInv, Partitions, convertVars
    <2>2. ASSUME NEW k \in PartitionKeys, PlaceGroup(k) PROVE WriteInv'
        <3>1. /\ k \in groups /\ partition = "running" /\ groups' = groups \ {k} /\ (Touch(k) \/ Open(k))
              /\ UNCHANGED <<sinkKind, maxOpen, batches, fetched, partition>>
            BY <2>2 DEF PlaceGroup
        <3> QED BY <2>1, <3>1, TouchKeeps, OpenKeeps, EvictKeeps
    <2>3. WriteInv'
        BY <1>2, <2>1, <2>2, FetchKeeps, DrainKeeps, EndKeeps DEF PartitionNext
    <2> QED BY <2>1, <2>3 DEF PartitionInv
<1>3. UNCHANGED <<route, partitionVars>> \/ (route = "partition" /\ PartitionNext /\ UNCHANGED convertVars)
    BY DEF Next, vars, PipelineNext, ResumableNext, inputVars, convertVars
<1> QED BY <1>1, <1>2, <1>3

(* Nothing has been read at the start.                                      *)
LEMMA PartitionInitially == Init => PartitionInv
<1> SUFFICES ASSUME Init PROVE PartitionInv
    OBVIOUS
<1>1. CASE ~Partitions
    BY <1>1 DEF Init, PartitionInit, PartitionInv
<1>2. CASE Partitions
    <2>1. /\ sinkKind \in {"files", "objects"} /\ maxOpen \in MaxOpens
          /\ batches \in [1 .. PartitionBatches -> SUBSET PartitionValues]
          /\ fetched = 0 /\ groups = {} /\ open = <<>> /\ lru = <<>> /\ stored = <<>>
          /\ counters = [k \in PartitionKeys |-> 0] /\ partition = "running"
        BY <1>2 DEF Init, PartitionInit, Choice
    <2>2. DOMAIN open = {} /\ DOMAIN stored = {} /\ Queued(lru) = {} /\ Injective(lru) /\ lru \in Seq(PartitionKeys)
        BY <2>1 DEF Queued, Injective
    <2>3. IsFiniteSet(DOMAIN open) /\ Cardinality(DOMAIN open) = 0
        BY <2>2, FS_EmptySet
    <2>4. PartitionTypes
        BY <2>1, <2>2, <2>3, PartitionAssumption DEF PartitionTypes
    <2>5. PlacedRows = {}
        BY <2>1, PartitionAssumption DEF PlacedRows
    <2>6. QueueIsOpen /\ NumbersAreFresh /\ DoneMeansDrained
        BY <2>1, <2>2 DEF QueueIsOpen, NumbersAreFresh, DoneMeansDrained
    <2>7. OpenFits
        BY <2>1, <2>3, PartitionAssumption DEF OpenFits, OpenLimit
    <2>8. Spread(open, stored, PlacedRows)
        BY <2>2, <2>5 DEF Spread
    <2> QED BY <1>2, <2>4, <2>6, <2>7, <2>8 DEF PartitionInv, WriteInv
<1> QED BY <1>1, <1>2

(* Every partitioned write keeps its rows in one place each.                *)
LEMMA PartitionInvHolds == Spec => []PartitionInv
BY PartitionInitially, PartitionPreserved, PTL DEF Spec

(* When everything is read, every row has been placed.                      *)
LEMMA DrainedIsWhole == PartitionInv => PartitionedWhole
<1> SUFFICES ASSUME PartitionInv, partition = "done", NEW b \in DOMAIN batches, NEW v \in batches[b]
             PROVE  /\ \E p \in DOMAIN stored : <<b, v>> \in stored[p] /\ p[1] = Encode(v)
                    /\ \A p, q \in DOMAIN stored : <<b, v>> \in stored[p] \cap stored[q] => p = q
    BY DEF PartitionedWhole
<1> DEFINE r == <<b, v>>
<1>1. WriteInv /\ InputRead /\ DOMAIN open = {}
    BY DEF PartitionInv, WriteInv, DoneMeansDrained
<1>2. b \in 1 .. PartitionBatches /\ v \in PartitionValues /\ PartitionBatches \in Nat
      /\ fetched = PartitionBatches /\ groups = {}
    BY <1>1, BatchesAreKeyed DEF WriteInv, PartitionTypes, InputRead
<1>3. r \in PlacedRows
    BY <1>2 DEF PlacedRows
<1>4. Spread(open, stored, PlacedRows) /\ r[2] = v
    BY <1>1 DEF WriteInv
<1> HIDE DEF r
<1>5. (\E p \in DOMAIN stored : r \in stored[p] /\ p[1] = Encode(v)) /\ \A p, q \in DOMAIN stored : r \in stored[p] \cap stored[q] => p = q
    BY <1>1, <1>3, <1>4 DEF Spread
<1> QED BY <1>5 DEF r

(* A partitioned write that succeeds has put every row into exactly one     *)
(* part, below the directory of its value: for every input, every limit on  *)
(* open partitions and every order in which groups arrive.                  *)
THEOREM PartitionedWritesAreWhole == Spec => []PartitionedWhole
BY PartitionInvHolds, DrainedIsWhole, PTL

(* A finished part is never written again, and never more partitions are    *)
(* open than the limit allows.                                              *)
THEOREM FinishedPartsStay == Spec => PartsAreFinal
<1> DEFINE Final1 ==
        /\ \A p \in DOMAIN stored : p \in DOMAIN stored' /\ stored'[p] = stored[p]
        /\ Cardinality(DOMAIN open') <= IF maxOpen = 0 THEN 1 ELSE maxOpen
<1>1. ASSUME PartitionInv, PartitionInv', [Next]_vars
      PROVE  [Final1]_partitionVars
    <2> SUFFICES ASSUME partitionVars' # partitionVars PROVE Final1
        OBVIOUS
    <2>1. route = "partition" /\ PartitionNext /\ UNCHANGED convertVars
        BY <1>1 DEF Next, vars
    <2>2. WriteInv /\ WriteInv' /\ maxOpen' = maxOpen
        BY <1>1, <2>1 DEF PartitionInv, Partitions, convertVars, PartitionNext, FetchBatch, RefuseLimit,
            PlaceGroup, DrainPartition, PartitionFails, PartitionDone
    <2>3. Cardinality(DOMAIN open') <= IF maxOpen = 0 THEN 1 ELSE maxOpen
        BY <2>2 DEF WriteInv, OpenFits, OpenLimit
    <2>4. stored' = stored \/ \E k \in DOMAIN open : stored' = Close(k)
        <3>1. ASSUME NEW k \in PartitionKeys, PlaceGroup(k)
              PROVE  stored' = stored \/ \E j \in DOMAIN open : stored' = Close(j)
            <4>1. k \in groups /\ (Touch(k) \/ Open(k))
                BY <3>1 DEF PlaceGroup
            <4>2. CASE Touch(k) \/ (Open(k) /\ ~MustEvict)
                BY <4>2 DEF Touch, Open
            <4>3. CASE Open(k) /\ MustEvict
                <5>1. ~InputRead /\ lru # <<>>
                    BY <4>1, <4>3 DEF InputRead, MustEvict
                <5>2. Head(lru) \in DOMAIN open
                    BY <2>2, <5>1, EvictedIsOpen
                <5> QED BY <4>3, <5>2 DEF Open
            <4> QED BY <4>1, <4>2, <4>3
        <3> QED BY <2>1, <3>1 DEF PartitionNext, FetchBatch, RefuseLimit, DrainPartition, PartitionFails, PartitionDone
    <2>5. ASSUME NEW k \in DOMAIN open, stored' = Close(k), NEW p \in DOMAIN stored
          PROVE  p \in DOMAIN stored' /\ stored'[p] = stored[p]
        BY <2>2, <2>5, ClosedPartIsNew DEF Close, Bind
    <2> QED BY <2>3, <2>4, <2>5
<1> QED BY <1>1, PartitionInvHolds, PTL DEF Spec, PartsAreFinal
-----------------------------------------------------------------------------
(* Conversions.  All that the readers have sent, in the order in which it   *)
(* was sent, is at any time somewhere on the way from the channel to the    *)
(* output.                                                                  *)
Pieces == Batches \cup {Footer}
InHand == IF hand = None THEN <<>> ELSE <<hand>>
Written == IF output = None THEN <<>> ELSE output

Stream ==
    IF Remote THEN parts \o (buffer \o (cchan \o (bchan \o (InHand \o chan))))
    ELSE Written \o chan

(* The stream holds the first n[f] batches of every input, each once and in *)
(* order; the footer can only be its end.                                   *)
InOrder(s, n) ==
    /\ \A i \in DOMAIN s : s[i] # Footer => s[i][2] <= n[s[i][1]]
    /\ \A f \in Files : \A m \in 1 .. n[f] : \E i \in DOMAIN s : s[i] = <<f, m>>
    /\ \A i, j \in DOMAIN s : i < j => s[i] # Footer /\ (s[i][1] = s[j][1] => s[i][2] < s[j][2])

Closed(s) == \E i \in DOMAIN s : s[i] = Footer

PipeTypes ==
    /\ total \in [Files -> 0 .. MaxBatches]
    /\ reader \in [Files -> {"active", "ok", "err"}]
    /\ sent \in [Files -> 0 .. MaxBatches] /\ \A f \in Files : sent[f] <= total[f]
    /\ chan \in Seq(Batches) /\ bchan \in Seq(Batches)
    /\ cchan \in Seq(Pieces) /\ buffer \in Seq(Pieces) /\ parts \in Seq(Pieces)
    /\ hand \in Batches \cup {None}
    /\ output \in Seq(Pieces) \cup {None}
    /\ rx = (writer \notin {"ok", "err"})

(* A blocking task is queued or running at most once, and only while the    *)
(* thing it does is not done.                                               *)
Tasks == {ReadTask(f) : f \in Files} \cup {WriteTask, RecvTask, EncodeTask}
TaskIsLive(t) ==
    /\ \A f \in Files : t = ReadTask(f) => reader[f] = "active"
    /\ t = WriteTask => ~Remote /\ writer \in {"start", "loop"}
    /\ t = RecvTask => Remote /\ writer = "receiving"
    /\ t = EncodeTask => Remote /\ encoder = "active"
TasksAreLive ==
    /\ queue \in Seq(Tasks) /\ Injective(queue) /\ running \subseteq Tasks
    /\ running \cap Queued(queue) = {}
    /\ \A t \in running \cup Queued(queue) : TaskIsLive(t)

(* The stages end in the order of the stream.                               *)
LocalStages ==
    ~Remote =>
        /\ writer \in {"start", "loop", "ok", "err"} /\ upload = "active"
        /\ writer = "start" => output = None
        /\ writer = "loop" => output # None
        /\ writer \in {"start", "loop"} => ~Closed(Stream)
        /\ writer = "ok" => output # None /\ chan = <<>> /\ SendersGone /\ Closed(Stream)
RemoteStages ==
    Remote =>
        /\ writer \in {"loop", "receiving", "sending", "encoding", "uploading", "ok", "err"}
        /\ writer = "sending" => hand # None
        /\ hand # None => writer \in {"sending", "err"}
        /\ writer \in {"encoding", "uploading", "ok"} => chan = <<>> /\ SendersGone
        /\ writer \in {"uploading", "ok"} => encoder = "ok"
        /\ writer = "ok" => upload = "ok"
        /\ encoder \in {"active", "ok", "err"}
        /\ encoder = "active" => rx /\ writer # "uploading" /\ ~Closed(Stream)
        /\ encoder = "ok" => bchan = <<>> /\ Closed(Stream)

(* What is at the output of a remote conversion is all the upload was given *)
(* and nothing of it is left behind.                                        *)
UploadIsWhole ==
    Remote =>
        /\ upload = "put" => parts = <<>> /\ buffer # <<>>
        /\ upload = "last" => buffer # <<>>
        /\ upload = "complete" => buffer = <<>> /\ parts # <<>>
        /\ upload \in {"last", "put", "complete", "ok"} => cchan = <<>> /\ encoder # "active"
        /\ upload = "ok" => output # None
        /\ output # None => upload \in {"ok", "err"} /\ output = parts \o buffer /\ output # <<>>

(* The footer is written when nobody sends any more, and a reader that      *)
(* stopped early did so because the writer had failed before it.            *)
ClosedMeansSent ==
    /\ Closed(Stream) => SendersGone
    /\ \A f \in Files : reader[f] = "ok" => sent[f] = total[f] \/ (~rx /\ ~Closed(Stream))

StagesInv ==
    /\ PipeTypes /\ LocalStages /\ RemoteStages /\ UploadIsWhole
    /\ ClosedMeansSent /\ InOrder(Stream, sent)

ConvertInv == Pipelined => TasksAreLive /\ StagesInv
DoneIsHonest == main = "done" => Pipelined /\ writer = "ok" /\ ReadersOk
-----------------------------------------------------------------------------
(* What travels: numbered batches and the footer, neither of them None.     *)
LEMMA PiecesArePairs ==
    /\ \A b \in Batches : b = <<b[1], b[2]>> /\ b[1] \in Files /\ b[2] \in 1 .. MaxBatches
    /\ \A f \in Files, i \in 1 .. MaxBatches : <<f, i>> \in Batches
    /\ Footer \notin Batches /\ Footer = <<0, 0>> /\ Footer \in Pieces /\ Batches \subseteq Pieces
    /\ None \notin Pieces /\ None \notin Seq(Pieces)
    /\ Files \subseteq Nat \ {0} /\ NumFiles \in Nat
<1>1. NumFiles \in Nat /\ Files \subseteq Nat \ {0} /\ 1 .. MaxBatches \subseteq Nat
    BY InputsAssumption DEF Files
<1>2. \A b \in Batches : b = <<b[1], b[2]>> /\ b[1] \in Files /\ b[2] \in 1 .. MaxBatches
    BY DEF Batches
<1>3. \A f \in Files, i \in 1 .. MaxBatches : <<f, i>> \in Batches
    BY DEF Batches
<1>4. Footer = <<0, 0>> /\ Footer \notin Batches
    BY <1>1, <1>2 DEF Footer
<1>5. Pieces \subseteq Nat \X Nat
    BY <1>1, <1>2, <1>4 DEF Pieces
<1>6. Seq(Pieces) \subseteq Seq(Nat \X Nat)
    BY <1>5
<1>7. None \notin Pieces /\ None \notin Seq(Pieces)
    BY <1>5, <1>6, InputsAssumption
<1> QED BY <1>1, <1>2, <1>3, <1>4, <1>7 DEF Pieces

(* Concatenation is associative.                                            *)
LEMMA JoinIsAssociative == \A u, v, w \in Seq(Pieces) : (u \o v) \o w = u \o (v \o w)
<1> SUFFICES ASSUME NEW u \in Seq(Pieces), NEW v \in Seq(Pieces), NEW w \in Seq(Pieces)
             PROVE  (u \o v) \o w = u \o (v \o w)
    OBVIOUS
<1> QED OBVIOUS

(* What concatenating and appending pieces gives.                           *)
LEMMA PiecesJoin ==
    /\ \A u, v \in Seq(Pieces) : u \o v \in Seq(Pieces) /\ (u \o v = <<>> => u = <<>> /\ v = <<>>)
    /\ \A u \in Seq(Pieces) : <<>> \o u = u /\ u \o <<>> = u
    /\ \A u \in Seq(Pieces), x \in Pieces :
        Append(u, x) \in Seq(Pieces) /\ <<x>> \in Seq(Pieces) /\ Append(u, x) = u \o <<x>>
<1>2. ASSUME NEW u \in Seq(Pieces), NEW v \in Seq(Pieces)
      PROVE  u \o v \in Seq(Pieces) /\ (u \o v = <<>> => u = <<>> /\ v = <<>>)
    <2>1. u \o v \in Seq(Pieces) /\ Len(u \o v) = Len(u) + Len(v)
        OBVIOUS
    <2>2. Len(u) \in Nat /\ Len(v) \in Nat /\ Len(<<>>) = 0
        OBVIOUS
    <2>3. (Len(u) = 0 => u = <<>>) /\ (Len(v) = 0 => v = <<>>)
        OBVIOUS
    <2> QED BY <2>1, <2>2, <2>3
<1>3. ASSUME NEW u \in Seq(Pieces)
      PROVE  <<>> \o u = u /\ u \o <<>> = u
    OBVIOUS
<1>4. ASSUME NEW u \in Seq(Pieces), NEW x \in Pieces
      PROVE  Append(u, x) \in Seq(Pieces) /\ <<x>> \in Seq(Pieces) /\ Append(u, x) = u \o <<x>>
    BY AppendIsConcat
<1> QED BY <1>2, <1>3, <1>4

(* A message is appended to the whole stream.                               *)
LEMMA AppendInside ==
    \A a, q \in Seq(Pieces), x \in Pieces :
        Append(q, x) \in Seq(Pieces) /\ a \o Append(q, x) = Append(a \o q, x)
<1> SUFFICES ASSUME NEW a \in Seq(Pieces), NEW q \in Seq(Pieces), NEW x \in Pieces
             PROVE  Append(q, x) \in Seq(Pieces) /\ a \o Append(q, x) = Append(a \o q, x)
    OBVIOUS
<1>1. Append(q, x) = q \o <<x>> /\ <<x>> \in Seq(Pieces) /\ Append(q, x) \in Seq(Pieces)
    BY PiecesJoin, Zenon
<1>2. a \o q \in Seq(Pieces)
    BY PiecesJoin, Zenon
<1>3. Append(a \o q, x) = (a \o q) \o <<x>>
    BY <1>2, PiecesJoin, Zenon
<1>4. (a \o q) \o <<x>> = a \o (q \o <<x>>)
    <2> DEFINE w == <<x>>
    <2>1. w \in Seq(Pieces)
        BY <1>1
    <2> HIDE DEF w
    <2>2. (a \o q) \o w = a \o (q \o w)
        BY <2>1, JoinIsAssociative, Zenon
    <2> QED BY <2>2 DEF w
<1> QED BY <1>1, <1>3, <1>4, Zenon

(* A message in hand is passed on.                                          *)
LEMMA HandMovesOn ==
    \A a, x \in Seq(Pieces), h \in Pieces : Append(a, h) \o x = a \o (<<h>> \o x)
<1> SUFFICES ASSUME NEW a \in Seq(Pieces), NEW x \in Seq(Pieces), NEW h \in Pieces
             PROVE  Append(a, h) \o x = a \o (<<h>> \o x)
    OBVIOUS
<1>1. Append(a, h) = a \o <<h>> /\ <<h>> \in Seq(Pieces)
    BY PiecesJoin, Zenon
<1>2. (a \o <<h>>) \o x = a \o (<<h>> \o x)
    <2> DEFINE w == <<h>>
    <2>1. w \in Seq(Pieces)
        BY <1>1
    <2> HIDE DEF w
    <2>2. (a \o w) \o x = a \o (w \o x)
        BY <2>1, JoinIsAssociative, Zenon
    <2> QED BY <2>2 DEF w
<1> QED BY <1>1, <1>2, Zenon

(* The head of one part of the stream becomes the end of the one before it. *)
LEMMA HeadIntoHand ==
    \A q \in Seq(Pieces) : q # <<>> =>
        /\ Head(q) \in Pieces /\ Tail(q) \in Seq(Pieces) /\ <<Head(q)>> \in Seq(Pieces)
        /\ <<Head(q)>> \o Tail(q) = q
<1> SUFFICES ASSUME NEW q \in Seq(Pieces), q # <<>>
             PROVE  /\ Head(q) \in Pieces /\ Tail(q) \in Seq(Pieces) /\ <<Head(q)>> \in Seq(Pieces)
                    /\ <<Head(q)>> \o Tail(q) = q
    OBVIOUS
<1>1. Head(q) \in Pieces /\ Tail(q) \in Seq(Pieces) /\ Len(Tail(q)) = Len(q) - 1 /\ \A i \in 1 .. Len(Tail(q)) : Tail(q)[i] = q[i + 1]
    BY HeadTailProperties
<1>2. Len(q) \in Nat \ {0} /\ Head(q) = q[1]
    OBVIOUS
<1> DEFINE h == <<Head(q)>>
           t == Tail(q)
<1>3. h \in Seq(Pieces) /\ Len(h) = 1 /\ h[1] = q[1]
    BY <1>1, <1>2
<1> HIDE DEF h, t
<1>4. /\ h \o t \in Seq(Pieces) /\ Len(h \o t) = Len(h) + Len(t)
      /\ \A i \in 1 .. Len(h) + Len(t) : (h \o t)[i] = IF i <= Len(h) THEN h[i] ELSE t[i - Len(h)]
    <2>1. t \in Seq(Pieces)
        BY <1>1 DEF t
    <2> QED BY <1>3, <2>1, ConcatProperties
<1>5. Len(t) = Len(q) - 1 /\ \A i \in 1 .. (Len(q) - 1) : t[i] = q[i + 1]
    BY <1>1 DEF t
<1>6. Len(h \o t) = Len(q) /\ \A i \in 1 .. Len(q) : (h \o t)[i] = q[i]
    BY <1>2, <1>3, <1>4, <1>5
<1>7. h \o t = q
    BY <1>4, <1>6, SeqEqual
<1> QED BY <1>1, <1>3, <1>7 DEF h, t

(* The head of a part moves before it, whatever follows.                    *)
LEMMA HeadMovesOn ==
    \A a, q, x \in Seq(Pieces) : q # <<>> =>
        Append(a, Head(q)) \o (Tail(q) \o x) = a \o (q \o x)
<1> SUFFICES ASSUME NEW a \in Seq(Pieces), NEW q \in Seq(Pieces), NEW x \in Seq(Pieces), q # <<>>
             PROVE  Append(a, Head(q)) \o (Tail(q) \o x) = a \o (q \o x)
    OBVIOUS
<1>1. Head(q) \in Pieces /\ Tail(q) \in Seq(Pieces) /\ <<Head(q)>> \in Seq(Pieces) /\ <<Head(q)>> \o Tail(q) = q
    BY HeadIntoHand, Zenon
<1>2. Tail(q) \o x \in Seq(Pieces)
    BY <1>1, PiecesJoin, Zenon
<1>3. Append(a, Head(q)) \o (Tail(q) \o x) = a \o (<<Head(q)>> \o (Tail(q) \o x))
    BY <1>1, <1>2, HandMovesOn, Zenon
<1>4. (<<Head(q)>> \o Tail(q)) \o x = <<Head(q)>> \o (Tail(q) \o x)
    <2> DEFINE w == <<Head(q)>>
               t == Tail(q)
    <2>1. w \in Seq(Pieces) /\ t \in Seq(Pieces)
        BY <1>1
    <2> HIDE DEF w, t
    <2>2. (w \o t) \o x = w \o (t \o x)
        BY <2>1, JoinIsAssociative, ZenonT(60)
    <2> QED BY <2>2 DEF w, t
<1> QED BY <1>1, <1>3, <1>4, Zenon

(* The next batch of an input keeps the stream in order.                    *)
LEMMA SendKeepsOrder ==
    ASSUME NEW s \in Seq(Pieces), NEW n \in [Files -> Nat], InOrder(s, n), ~Closed(s), NEW f \in Files,
           n[f] + 1 <= MaxBatches
    PROVE  /\ InOrder(Append(s, <<f, n[f] + 1>>), [n EXCEPT ![f] = @ + 1])
           /\ ~Closed(Append(s, <<f, n[f] + 1>>))
<1> DEFINE b == <<f, n[f] + 1>>
           t == Append(s, b)
           m == [n EXCEPT ![f] = @ + 1]
<1>1. b \in Batches /\ b # Footer /\ b[1] = f /\ b[2] = n[f] + 1
    BY PiecesArePairs, InputsAssumption
<1>2. /\ Len(s) \in Nat /\ DOMAIN s = 1 .. Len(s) /\ DOMAIN t = 1 .. (Len(s) + 1)
      /\ t[Len(s) + 1] = b /\ \A i \in DOMAIN s : t[i] = s[i]
    BY <1>1, PiecesArePairs
<1>3. /\ m[f] = n[f] + 1 /\ \A g \in Files : g # f => m[g] = n[g]
      /\ \A g \in Files : n[g] <= m[g] /\ n[g] \in Nat /\ m[g] \in Nat
    OBVIOUS
<1>4. \A i \in DOMAIN s : s[i] \in Batches /\ s[i] # Footer /\ s[i][1] \in Files /\ s[i][2] \in Nat /\ s[i][2] <= n[s[i][1]]
    <2> SUFFICES ASSUME NEW i \in DOMAIN s
                 PROVE  s[i] \in Batches /\ s[i] # Footer /\ s[i][1] \in Files /\ s[i][2] \in Nat /\ s[i][2] <= n[s[i][1]]
        OBVIOUS
    <2>1. s[i] \in Batches /\ s[i] # Footer
        BY DEF Pieces, Closed
    <2> QED BY <2>1, PiecesArePairs DEF InOrder
<1> HIDE DEF t, m, b
<1>5. \A i \in DOMAIN t : t[i] # Footer /\ t[i][2] <= m[t[i][1]]
    <2> SUFFICES ASSUME NEW i \in DOMAIN t PROVE t[i] # Footer /\ t[i][2] <= m[t[i][1]]
        OBVIOUS
    <2>1. CASE i \in DOMAIN s
        BY <2>1, <1>2, <1>3, <1>4
    <2>2. CASE i = Len(s) + 1
        BY <2>2, <1>1, <1>2, <1>3
    <2> QED BY <2>1, <2>2, <1>2
<1>6. ASSUME NEW g \in Files, NEW j \in 1 .. m[g] PROVE \E i \in DOMAIN t : t[i] = <<g, j>>
    <2>1. CASE j \in 1 .. n[g]
        <3>1. PICK i \in DOMAIN s : s[i] = <<g, j>>
            BY <2>1 DEF InOrder
        <3> QED BY <3>1, <1>2
    <2>2. CASE j \notin 1 .. n[g]
        <3>1. g = f /\ j = n[f] + 1
            BY <2>2, <1>3
        <3> QED BY <3>1, <1>2 DEF b
    <2> QED BY <2>1, <2>2
<1>7. ASSUME NEW i \in DOMAIN t, NEW j \in DOMAIN t, i < j, t[i][1] = t[j][1] PROVE t[i][2] < t[j][2]
    <2>1. i \in DOMAIN s
        BY <1>2, <1>7
    <2>2. CASE j \in DOMAIN s
        BY <2>1, <2>2, <1>2, <1>7 DEF InOrder
    <2>3. CASE j = Len(s) + 1
        BY <2>1, <2>3, <1>1, <1>2, <1>3, <1>4, <1>7
    <2> QED BY <2>2, <2>3, <1>2
<1>8. InOrder(t, m)
    BY <1>5, <1>6, <1>7 DEF InOrder
<1>9. ~Closed(t)
    BY <1>5 DEF Closed
<1> QED BY <1>8, <1>9 DEF t, m, b

(* The footer ends the stream.                                              *)
LEMMA FooterKeepsOrder ==
    ASSUME NEW s \in Seq(Pieces), NEW n \in [Files -> Nat], InOrder(s, n), ~Closed(s)
    PROVE  InOrder(Append(s, Footer), n) /\ Closed(Append(s, Footer))
<1> DEFINE t == Append(s, Footer)
<1>1. /\ Len(s) \in Nat /\ DOMAIN s = 1 .. Len(s) /\ DOMAIN t = 1 .. (Len(s) + 1)
      /\ t[Len(s) + 1] = Footer /\ \A i \in DOMAIN s : t[i] = s[i]
    BY PiecesArePairs
<1>2. Footer[1] = 0
    BY PiecesArePairs
<1>3. \A i \in DOMAIN s : s[i] # Footer /\ s[i][1] \in Files
    BY PiecesArePairs DEF Pieces, Closed
<1>4. \A i \in DOMAIN s : s[i][1] # Footer[1]
    BY <1>2, <1>3, PiecesArePairs
<1> HIDE DEF t
<1>5. \A i \in DOMAIN t : i \in DOMAIN s \/ i = Len(s) + 1
    BY <1>1
<1>6. DOMAIN s \subseteq DOMAIN t /\ Len(s) + 1 \in DOMAIN t
    BY <1>1
<1>7. \A i \in DOMAIN t : t[i] # Footer => t[i][2] <= n[t[i][1]]
    BY <1>1, <1>5 DEF InOrder
<1>8. \A f \in Files : \A j \in 1 .. n[f] : \E i \in DOMAIN t : t[i] = <<f, j>>
    BY <1>1, <1>6 DEF InOrder
<1>9. ASSUME NEW i \in DOMAIN t, NEW j \in DOMAIN t, i < j
      PROVE  t[i] # Footer /\ (t[i][1] = t[j][1] => t[i][2] < t[j][2])
    <2>1. i \in DOMAIN s
        BY <1>1, <1>9
    <2>2. CASE j \in DOMAIN s
        BY <2>1, <2>2, <1>1, <1>9 DEF InOrder
    <2>3. CASE j = Len(s) + 1
        BY <2>1, <2>3, <1>1, <1>3, <1>4
    <2> QED BY <2>2, <2>3, <1>5
<1>10. InOrder(t, n)
    BY <1>7, <1>8, <1>9 DEF InOrder
<1>11. Closed(t)
    BY <1>1, <1>6 DEF Closed
<1> QED BY <1>10, <1>11 DEF t
-----------------------------------------------------------------------------
(* The parts of the stream behind one another.                              *)
FromHand == InHand \o chan
FromBatches == bchan \o FromHand
FromChunks == cchan \o FromBatches
FromBuffer == buffer \o FromChunks

(* Every part of the stream is a sequence of pieces, and so is the whole.   *)
LEMMA StreamIsSequence ==
    ASSUME PipeTypes
    PROVE  /\ chan \in Seq(Pieces) /\ bchan \in Seq(Pieces) /\ InHand \in Seq(Pieces)
           /\ FromHand \in Seq(Pieces) /\ FromBatches \in Seq(Pieces) /\ FromChunks \in Seq(Pieces)
           /\ FromBuffer \in Seq(Pieces) /\ Written \in Seq(Pieces) /\ Stream \in Seq(Pieces)
           /\ Remote => Stream = parts \o FromBuffer
           /\ ~Remote => Stream = Written \o chan
<1>1. Batches \subseteq Pieces
    BY PiecesArePairs
<1>2. chan \in Seq(Pieces) /\ bchan \in Seq(Pieces)
    BY <1>1 DEF PipeTypes
<1>3. InHand \in Seq(Pieces)
    BY <1>1 DEF PipeTypes, InHand
<1>4. Written \in Seq(Pieces)
    BY DEF PipeTypes, Written
<1>5. FromHand \in Seq(Pieces)
    BY <1>2, <1>3, ConcatProperties DEF FromHand
<1>6. FromBatches \in Seq(Pieces)
    BY <1>2, <1>5, ConcatProperties DEF FromBatches
<1>7. FromChunks \in Seq(Pieces)
    BY <1>6, ConcatProperties DEF FromChunks, PipeTypes
<1>8. FromBuffer \in Seq(Pieces)
    BY <1>7, ConcatProperties DEF FromBuffer, PipeTypes
<1>9. CASE Remote
    <2>1. Stream = parts \o FromBuffer
        BY <1>9 DEF Stream, FromBuffer, FromChunks, FromBatches, FromHand
    <2>2. Stream \in Seq(Pieces)
        BY <1>8, <2>1, ConcatProperties DEF PipeTypes
    <2> QED BY <1>2, <1>3, <1>4, <1>5, <1>6, <1>7, <1>8, <1>9, <2>1, <2>2
<1>10. CASE ~Remote
    <2>1. Stream = Written \o chan
        BY <1>10 DEF Stream
    <2>2. Stream \in Seq(Pieces)
        BY <1>2, <1>4, <2>1, ConcatProperties
    <2> QED BY <1>2, <1>3, <1>4, <1>5, <1>6, <1>7, <1>8, <1>10, <2>1, <2>2
<1> QED BY <1>9, <1>10

(* A step that moves nothing leaves the stream as it is.                    *)
LEMMA StreamRests ==
    ASSUME UNCHANGED <<route, parts, buffer, cchan, bchan, hand, chan, output>>
    PROVE  Stream' = Stream
BY DEF Stream, Remote, InHand, Written

(* A batch that is appended to the channel is appended to the stream.       *)
LEMMA StreamGrows ==
    ASSUME PipeTypes, NEW b \in Batches, chan' = Append(chan, b),
           UNCHANGED <<route, parts, buffer, cchan, bchan, hand, output>>
    PROVE  Stream' = Append(Stream, b) /\ chan' \in Seq(Batches)
<1>1. b \in Pieces
    BY PiecesArePairs
<1>2. chan' \in Seq(Batches)
    BY DEF PipeTypes
<1>3. /\ InHand' = InHand /\ Written' = Written /\ Remote' = Remote
      /\ Stream' = IF Remote THEN parts \o (buffer \o (cchan \o (bchan \o (InHand \o chan'))))
                   ELSE Written \o chan'
    BY DEF InHand, Written, Remote, Stream
<1>9. /\ chan \in Seq(Pieces) /\ bchan \in Seq(Pieces) /\ InHand \in Seq(Pieces) /\ FromHand \in Seq(Pieces) /\ FromBatches \in Seq(Pieces)
      /\ FromChunks \in Seq(Pieces) /\ FromBuffer \in Seq(Pieces) /\ Written \in Seq(Pieces)
      /\ cchan \in Seq(Pieces) /\ buffer \in Seq(Pieces) /\ parts \in Seq(Pieces) /\ b \in Pieces
    BY <1>1, StreamIsSequence DEF PipeTypes
<1>4. CASE ~Remote
    <2>1. Written \o Append(chan, b) = Append(Written \o chan, b)
        BY <1>9, AppendInside, Zenon
    <2> QED BY <1>2, <1>3, <1>4, <2>1 DEF Stream
<1>5. CASE Remote
    <2>1. InHand \o Append(chan, b) = Append(FromHand, b)
        BY <1>9, AppendInside, Zenon DEF FromHand
    <2>2. bchan \o Append(FromHand, b) = Append(FromBatches, b)
        BY <1>9, AppendInside, Zenon DEF FromBatches
    <2>3. cchan \o Append(FromBatches, b) = Append(FromChunks, b)
        BY <1>9, AppendInside, Zenon DEF FromChunks
    <2>4. buffer \o Append(FromChunks, b) = Append(FromBuffer, b)
        BY <1>9, AppendInside, Zenon DEF FromBuffer
    <2>5. parts \o Append(FromBuffer, b) = Append(parts \o FromBuffer, b)
        BY <1>9, AppendInside, Zenon
    <2>6. Stream' = Append(parts \o FromBuffer, b)
        BY <1>3, <1>5, <2>1, <2>2, <2>3, <2>4, <2>5
    <2> QED BY <1>2, <1>5, <2>6, StreamIsSequence
<1> QED BY <1>4, <1>5

(* The upload takes a chunk, or uploads the buffer as a part.               *)
LEMMA ChunkMoves ==
    ASSUME PipeTypes, Remote, cchan # <<>>, buffer' = Append(buffer, Head(cchan)), cchan' = Tail(cchan),
           UNCHANGED <<route, parts, bchan, hand, chan>>
    PROVE  Stream' = Stream /\ buffer' \in Seq(Pieces) /\ cchan' \in Seq(Pieces)
<1>1. /\ cchan \in Seq(Pieces) /\ buffer \in Seq(Pieces) /\ FromBatches \in Seq(Pieces)
      /\ FromBatches = bchan \o (InHand \o chan)
    BY StreamIsSequence DEF PipeTypes, FromBatches, FromHand
<1>2. Stream = parts \o (buffer \o (cchan \o FromBatches))
    BY <1>1 DEF Stream
<1>3. Stream' = parts \o (buffer' \o (cchan' \o FromBatches))
    BY <1>1 DEF Stream, Remote, InHand
<1>4. buffer' \o (cchan' \o FromBatches) = buffer \o (cchan \o FromBatches)
    BY <1>1, HeadMovesOn
<1>5. Head(cchan) \in Pieces /\ cchan' \in Seq(Pieces)
    BY <1>1, HeadIntoHand
<1>6. buffer' \in Seq(Pieces)
    BY <1>1, <1>5, PiecesJoin
<1> QED BY <1>2, <1>3, <1>4, <1>5, <1>6

(* The upload turns its buffer into a part of the multipart upload.         *)
LEMMA PartMoves ==
    ASSUME PipeTypes, Remote, parts' = parts \o buffer, buffer' = <<>>,
           UNCHANGED <<route, cchan, bchan, hand, chan>>
    PROVE  Stream' = Stream /\ buffer' \in Seq(Pieces) /\ parts' \in Seq(Pieces)
<1>1. /\ parts \in Seq(Pieces) /\ buffer \in Seq(Pieces) /\ FromChunks \in Seq(Pieces)
      /\ FromChunks = cchan \o (bchan \o (InHand \o chan))
    BY StreamIsSequence DEF PipeTypes, FromChunks, FromBatches, FromHand
<1>2. Stream = parts \o (buffer \o FromChunks)
    BY <1>1 DEF Stream
<1>3. Stream' = (parts \o buffer) \o (<<>> \o FromChunks)
    BY <1>1 DEF Stream, Remote, InHand
<1>4. <<>> \o FromChunks = FromChunks /\ parts \o buffer \in Seq(Pieces)
    BY <1>1, PiecesJoin
<1>5. (parts \o buffer) \o FromChunks = parts \o (buffer \o FromChunks)
    BY <1>1, JoinIsAssociative
<1> QED BY <1>2, <1>3, <1>4, <1>5

(* The encoder turns a batch into a chunk.                                  *)
LEMMA BatchMoves ==
    ASSUME PipeTypes, Remote, bchan # <<>>, cchan' = Append(cchan, Head(bchan)), bchan' = Tail(bchan),
           UNCHANGED <<route, parts, buffer, hand, chan>>
    PROVE  Stream' = Stream /\ cchan' \in Seq(Pieces) /\ bchan' \in Seq(Batches)
<1>1. /\ cchan \in Seq(Pieces) /\ bchan \in Seq(Pieces) /\ FromHand \in Seq(Pieces)
      /\ FromHand = InHand \o chan
    BY StreamIsSequence DEF PipeTypes, FromHand
<1>2. Stream = parts \o (buffer \o (cchan \o (bchan \o FromHand)))
    BY <1>1 DEF Stream
<1>3. Stream' = parts \o (buffer \o (cchan' \o (bchan' \o FromHand)))
    BY <1>1 DEF Stream, Remote, InHand
<1>4. cchan' \o (bchan' \o FromHand) = cchan \o (bchan \o FromHand)
    BY <1>1, HeadMovesOn
<1>5. Head(bchan) \in Pieces
    BY <1>1, HeadIntoHand
<1>6. cchan' \in Seq(Pieces)
    BY <1>1, <1>5, PiecesJoin
<1>7. bchan' \in Seq(Batches)
    BY DEF PipeTypes
<1> QED BY <1>2, <1>3, <1>4, <1>6, <1>7

(* The writer takes a batch from the channel, or passes it on.              *)
LEMMA ReceivedMoves ==
    ASSUME PipeTypes, Remote, chan # <<>>, hand = None, hand' = Head(chan), chan' = Tail(chan),
           UNCHANGED <<route, parts, buffer, cchan, bchan>>
    PROVE  Stream' = Stream /\ hand' \in Batches /\ hand' # None /\ chan' \in Seq(Batches)
<1>1. chan \in Seq(Pieces) /\ chan \in Seq(Batches)
    BY StreamIsSequence DEF PipeTypes
<1>2. hand' \in Batches /\ chan' \in Seq(Batches)
    BY <1>1
<1>3. hand' # None
    BY <1>2, PiecesArePairs
<1>4. InHand' = <<Head(chan)>> /\ InHand = <<>>
    BY <1>3 DEF InHand
<1>5. <<Head(chan)>> \o Tail(chan) = chan
    BY <1>1, HeadIntoHand
<1>6. <<>> \o chan = chan
    BY <1>1, PiecesJoin
<1>7. InHand' \o chan' = InHand \o chan
    BY <1>4, <1>5, <1>6
<1> QED BY <1>2, <1>3, <1>7 DEF Stream, Remote

(* The writer passes the batch in its hand on to the encoder.               *)
LEMMA HandMoves ==
    ASSUME PipeTypes, Remote, hand # None, hand' = None, bchan' = Append(bchan, hand),
           UNCHANGED <<route, parts, buffer, cchan, chan>>
    PROVE  Stream' = Stream /\ bchan' \in Seq(Batches)
<1>1. chan \in Seq(Pieces) /\ bchan \in Seq(Pieces) /\ hand \in Batches
    BY StreamIsSequence DEF PipeTypes
<1>2. hand \in Pieces
    BY <1>1, PiecesArePairs
<1>3. InHand = <<hand>> /\ InHand' = <<>>
    BY DEF InHand
<1>4. Append(bchan, hand) \o chan = bchan \o (<<hand>> \o chan)
    BY <1>1, <1>2, HandMovesOn
<1>5. <<>> \o chan = chan
    BY <1>1, PiecesJoin
<1>6. bchan' \o (InHand' \o chan') = bchan \o (InHand \o chan)
    BY <1>3, <1>4, <1>5
<1>7. bchan' \in Seq(Batches)
    BY <1>1 DEF PipeTypes
<1> QED BY <1>6, <1>7 DEF Stream, Remote

(* A local writer takes a batch from the channel and writes it.             *)
LEMMA WrittenMoves ==
    ASSUME PipeTypes, ~Remote, chan # <<>>, output # None, output' = Append(output, Head(chan)), chan' = Tail(chan),
           UNCHANGED route
    PROVE  Stream' = Stream /\ output' \in Seq(Pieces) /\ output' # None /\ chan' \in Seq(Batches)
<1>1. chan \in Seq(Pieces) /\ chan \in Seq(Batches) /\ output \in Seq(Pieces) /\ Written = output
    BY StreamIsSequence DEF PipeTypes, Written
<1>2. chan' \in Seq(Batches)
    BY <1>1
<1>3. Head(chan) \in Pieces /\ Tail(chan) \in Seq(Pieces) /\ <<Head(chan)>> \o Tail(chan) = chan
    BY <1>1, HeadIntoHand
<1>4. output' \in Seq(Pieces)
    BY <1>1, <1>3, PiecesJoin
<1>5. output' # None
    BY <1>4, PiecesArePairs
<1>6. Append(output, Head(chan)) \o Tail(chan) = output \o (<<Head(chan)>> \o Tail(chan))
    BY <1>1, <1>3, HandMovesOn
<1>7. Written' = output'
    BY <1>5 DEF Written
<1> QED BY <1>1, <1>2, <1>3, <1>4, <1>5, <1>6, <1>7 DEF Stream, Remote

(* The encoder closes the file when nothing is left behind it.              *)
LEMMA FooterEndsStream ==
    ASSUME PipeTypes, Remote, bchan = <<>>, hand = None, chan = <<>>, cchan' = Append(cchan, Footer),
           UNCHANGED <<route, parts, buffer, bchan, hand, chan>>
    PROVE  Stream' = Append(Stream, Footer) /\ cchan' \in Seq(Pieces)
<1>1. parts \in Seq(Pieces) /\ buffer \in Seq(Pieces) /\ cchan \in Seq(Pieces) /\ <<>> \in Seq(Pieces) /\ Footer \in Pieces
    BY PiecesArePairs DEF PipeTypes
<1>2. InHand = <<>> /\ InHand' = <<>>
    BY DEF InHand
<1>3. <<>> \o (<<>> \o <<>>) = <<>>
    OBVIOUS
<1>4. cchan' \in Seq(Pieces) /\ cchan' \o <<>> = cchan' /\ cchan \o <<>> = cchan
    BY <1>1, PiecesJoin
<1>5. Stream = parts \o (buffer \o cchan) /\ Stream' = parts \o (buffer \o Append(cchan, Footer))
    BY <1>2, <1>3, <1>4 DEF Stream, Remote
<1>6. buffer \o Append(cchan, Footer) = Append(buffer \o cchan, Footer) /\ buffer \o cchan \in Seq(Pieces)
    BY <1>1, AppendInside, PiecesJoin
<1>7. parts \o Append(buffer \o cchan, Footer) = Append(parts \o (buffer \o cchan), Footer)
    <2> DEFINE w == buffer \o cchan
    <2>1. w \in Seq(Pieces)
        BY <1>6
    <2> HIDE DEF w
    <2>2. parts \o Append(w, Footer) = Append(parts \o w, Footer)
        BY <1>1, <2>1, AppendInside
    <2> QED BY <2>2 DEF w
<1> QED BY <1>4, <1>5, <1>6, <1>7
-----------------------------------------------------------------------------
(* Different things to do are different tasks.                              *)
LEMMA TasksDiffer ==
    /\ WriteTask # RecvTask /\ WriteTask # EncodeTask /\ RecvTask # EncodeTask
    /\ \A f \in Files : ReadTask(f) # WriteTask /\ ReadTask(f) # RecvTask /\ ReadTask(f) # EncodeTask
    /\ \A f, g \in Files : ReadTask(f) = ReadTask(g) => f = g
BY DEF ReadTask, WriteTask, RecvTask, EncodeTask

(* A task gets a thread: it is no longer queued.                            *)
LEMMA StartKeepsTasks ==
    ASSUME TasksAreLive, StartTask, UNCHANGED inputVars
    PROVE  TasksAreLive'
<1>1. queue \in Seq(Tasks) /\ Injective(queue) /\ queue # <<>>
    BY DEF TasksAreLive, StartTask
<1>2. /\ Head(queue) \in Tasks /\ Head(queue) \in Queued(queue)
      /\ queue' \in Seq(Tasks) /\ Injective(queue')
      /\ Queued(queue') = Queued(queue) \ {Head(queue)}
    BY <1>1, TailDropsHead DEF StartTask
<1>3. running' = running \cup {Head(queue)}
    BY DEF StartTask
<1>4. \A t : TaskIsLive(t)' = TaskIsLive(t)
    BY DEF TaskIsLive, StartTask, readVars, writeVars, encodeVars, inputVars, Remote
<1> QED BY <1>2, <1>3, <1>4 DEF TasksAreLive

(* The writer asks for a batch: its last request is answered.               *)
LEMMA RequestKeepsTasks ==
    ASSUME TasksAreLive, RequestBatch, UNCHANGED inputVars
    PROVE  TasksAreLive'
<1>1. RecvTask \in Tasks /\ RecvTask \notin running \cup Queued(queue)
    BY DEF TasksAreLive, TaskIsLive, RequestBatch, Tasks
<1>2. queue' \in Seq(Tasks) /\ Injective(queue') /\ Queued(queue') = Queued(queue) \cup {RecvTask}
    BY <1>1, AppendAddsKey DEF TasksAreLive, RequestBatch
<1>3. ASSUME NEW t \in running \cup Queued(queue) PROVE TaskIsLive(t)'
    <2>1. t # WriteTask /\ t # RecvTask
        BY <1>1, <1>3 DEF TasksAreLive, TaskIsLive, RequestBatch
    <2> QED BY <2>1 DEF TasksAreLive, TaskIsLive, RequestBatch, readVars, encodeVars, inputVars, Remote
<1>4. TaskIsLive(RecvTask)'
    BY TasksDiffer DEF TaskIsLive, RequestBatch, inputVars, Remote
<1> QED BY <1>1, <1>2, <1>3, <1>4 DEF TasksAreLive, RequestBatch

(* Any other step ends at most the task that takes it.                      *)
LEMMA EndKeepsTasks ==
    ASSUME TasksAreLive, queue' = queue, running' \subseteq running,
           \A t \in running' \cup Queued(queue) : TaskIsLive(t) => TaskIsLive(t)'
    PROVE  TasksAreLive'
BY DEF TasksAreLive

(* A task that ends is not queued again.                                    *)
LEMMA EndedIsGone ==
    ASSUME TasksAreLive, NEW u \in running, EndTask(u)
    PROVE  /\ queue' = queue /\ running' \subseteq running
           /\ \A t \in running' \cup Queued(queue) : t # u
BY DEF TasksAreLive, EndTask

(* Every step of a conversion leaves the tasks live.                        *)
LEMMA TasksStayLive ==
    ASSUME TasksAreLive, PipeTypes, PipelineNext
    PROVE  TasksAreLive'
<1> USE DEF inputVars, readVars, writeVars, encodeVars, uploadVars, poolVars, Remote
<1>1. UNCHANGED inputVars
    BY DEF PipelineNext
<1>2. CASE StartTask
    BY <1>1, <1>2, StartKeepsTasks
<1>3. CASE RequestBatch
    BY <1>1, <1>3, RequestKeepsTasks
<1>4. ASSUME NEW f \in Files, ReaderEnds(f) \/ ReaderFails(f) PROVE TasksAreLive'
    <2>1. ReadTask(f) \in running /\ EndTask(ReadTask(f))
        BY <1>4 DEF ReaderEnds, ReaderFails, EndReader
    <2>2. \A g \in Files : g # f => reader'[g] = reader[g]
        BY <1>4 DEF ReaderEnds, ReaderFails, EndReader, PipeTypes
    <2>3. UNCHANGED <<writer, encoder>>
        BY <1>4 DEF ReaderEnds, ReaderFails, EndReader
    <2>4. ASSUME NEW t, t # ReadTask(f), TaskIsLive(t) PROVE TaskIsLive(t)'
        BY <1>1, <2>2, <2>3, <2>4 DEF TaskIsLive
    <2> QED BY <2>1, <2>4, EndedIsGone, EndKeepsTasks
<1>5. CASE WriterFinishes \/ WriterFails
    <2>1. WriteTask \in running /\ EndTask(WriteTask) /\ ~Remote
        BY <1>5 DEF WriterFinishes, WriterFails, TasksAreLive, TaskIsLive
    <2>2. ASSUME NEW t, t # WriteTask, TaskIsLive(t) PROVE TaskIsLive(t)'
        BY <1>1, <1>5, <2>1, <2>2 DEF WriterFinishes, WriterFails, EndWriter, TaskIsLive
    <2> QED BY <2>1, <2>2, EndedIsGone, EndKeepsTasks
<1>6. CASE ReceiveBatch
    <2>1. RecvTask \in running /\ EndTask(RecvTask) /\ Remote
        BY <1>6 DEF ReceiveBatch, TasksAreLive, TaskIsLive
    <2>2. ASSUME NEW t, t # RecvTask, TaskIsLive(t) PROVE TaskIsLive(t)'
        BY <1>1, <1>6, <2>1, <2>2 DEF ReceiveBatch, TaskIsLive
    <2> QED BY <2>1, <2>2, EndedIsGone, EndKeepsTasks
<1>7. CASE EncodeFooter \/ BrokenPipe \/ EncoderFails
    <2>1. EncodeTask \in running /\ EndTask(EncodeTask)
        BY <1>7 DEF EncodeFooter, BrokenPipe, EncoderFails, EndEncoder
    <2>2. ASSUME NEW t, t # EncodeTask, TaskIsLive(t) PROVE TaskIsLive(t)'
        BY <1>1, <1>7, <2>2 DEF EncodeFooter, BrokenPipe, EncoderFails, EndEncoder, TaskIsLive
    <2> QED BY <2>1, <2>2, EndedIsGone, EndKeepsTasks
<1>8. CASE PassBatch \/ EncoderGone \/ AwaitEncoder \/ AwaitUpload
    <2>1. /\ UNCHANGED <<queue, running, reader, encoder>>
          /\ writer \notin {"start", "loop", "receiving"}
        BY <1>8 DEF PassBatch, EncoderGone, AwaitEncoder, AwaitUpload, EndWriter
    <2>2. ASSUME NEW t, TaskIsLive(t) PROVE TaskIsLive(t)'
        BY <1>1, <2>1, <2>2 DEF TaskIsLive
    <2> QED BY <2>1, <2>2, EndKeepsTasks
<1>9. CASE WriterCreates
    <2>1. UNCHANGED <<queue, running, reader, encoder>> /\ writer = "start" /\ writer' = "loop"
        BY <1>9 DEF WriterCreates
    <2>2. ASSUME NEW t, TaskIsLive(t) PROVE TaskIsLive(t)'
        BY <1>1, <2>1, <2>2 DEF TaskIsLive
    <2> QED BY <2>1, <2>2, EndKeepsTasks
<1>10. ASSUME UNCHANGED <<queue, running, reader, encoder, writer>> PROVE TasksAreLive'
    <2>1. ASSUME NEW t, TaskIsLive(t) PROVE TaskIsLive(t)'
        BY <1>1, <1>10, <2>1 DEF TaskIsLive
    <2> QED BY <1>10, <2>1, EndKeepsTasks
<1>11. CASE (\E f \in Files : ReadBatch(f)) \/ WriteBatch \/ EncodeBatch \/ Return
    <2>1. ASSUME NEW f \in Files, ReadBatch(f) PROVE UNCHANGED <<queue, running, reader, encoder, writer>>
        BY <2>1 DEF ReadBatch
    <2>2. CASE WriteBatch
        BY <1>10, <2>2 DEF WriteBatch
    <2>3. CASE EncodeBatch
        BY <1>10, <2>3 DEF EncodeBatch
    <2>4. CASE Return
        <3>1. UNCHANGED <<poolVars, readVars, writeVars, encodeVars>>
            BY <2>4, Zenon DEF Return
        <3> QED BY <1>10, <3>1
    <2> QED BY <1>10, <1>11, <2>1, <2>2, <2>3, <2>4
<1>12. CASE UploaderStep \/ UploadFails
    BY <1>10, <1>12 DEF UploaderStep, TakeChunk, EndOfChunks, EnsureMultipart, UploadPart, PutObject,
        CompleteMultipart, UploadFails, UploadStep
<1> QED BY <1>2, <1>3, <1>4, <1>5, <1>6, <1>7, <1>8, <1>9, <1>11, <1>12
        DEF PipelineNext, ReaderStep, LocalWriterStep, RemoteWriterStep, EncoderStep
-----------------------------------------------------------------------------
(* What the stages of a conversion are made of.                             *)
stageVars == <<inputVars, readVars, chan, writeVars, encodeVars, cchan, upload, buffer, parts, output>>

(* A step that leaves stream and counters alone leaves the order alone.     *)
LEMMA OrderRests ==
    ASSUME StagesInv, Stream' = Stream, sent' = sent
    PROVE  InOrder(Stream, sent)' /\ Closed(Stream)' = Closed(Stream)
BY DEF StagesInv

(* A step that changes nothing of the stages leaves them in order.          *)
LEMMA StagesRest ==
    ASSUME StagesInv, UNCHANGED stageVars
    PROVE  StagesInv'
<1> USE DEF stageVars, inputVars, readVars, writeVars, encodeVars
<1>1. Stream' = Stream
    BY StreamRests
<1>2. InOrder(Stream, sent)' /\ Closed(Stream)' = Closed(Stream)
    BY <1>1, OrderRests
<1>3. PipeTypes' /\ UploadIsWhole'
    BY DEF StagesInv, PipeTypes, UploadIsWhole, Remote
<1>4. LocalStages' /\ RemoteStages' /\ ClosedMeansSent'
    BY <1>2 DEF StagesInv, LocalStages, RemoteStages, ClosedMeansSent, SendersGone, Remote
<1> QED BY <1>2, <1>3, <1>4 DEF StagesInv

(* A reader sends a batch: it is not closed, since this sender is left.     *)
LEMMA ReadKeepsStages ==
    ASSUME StagesInv, TasksAreLive, UNCHANGED inputVars, NEW f \in Files, ReadBatch(f)
    PROVE  StagesInv'
<1> USE DEF inputVars, readVars, writeVars, encodeVars, uploadVars
<1> DEFINE b == <<f, sent[f] + 1>>
<1>1. reader[f] = "active" /\ sent[f] < total[f] /\ rx
    BY DEF ReadBatch, TasksAreLive, TaskIsLive
<1>2. total[f] \in 0 .. MaxBatches /\ sent[f] \in 0 .. MaxBatches /\ MaxBatches \in Nat
    BY InputsAssumption DEF StagesInv, PipeTypes
<1>3. sent[f] + 1 \in 1 .. total[f] /\ sent[f] + 1 <= MaxBatches /\ b \in Batches
    BY <1>1, <1>2, PiecesArePairs
<1>4. chan' = Append(chan, b) /\ sent' = [sent EXCEPT ![f] = @ + 1]
    BY <1>3 DEF ReadBatch, BatchesOf
<1>5. UNCHANGED <<route, total, reader, rx, writer, hand, bchan, encoder, cchan, upload, buffer, parts, output>>
    BY DEF ReadBatch
<1> HIDE DEF b
<1>6. Stream' = Append(Stream, b) /\ chan' \in Seq(Batches)
    BY <1>3, <1>4, <1>5, StreamGrows DEF StagesInv
<1>7. ~Closed(Stream) /\ ~SendersGone
    BY <1>1 DEF StagesInv, ClosedMeansSent, SendersGone
<1>8. InOrder(Stream, sent)' /\ ~Closed(Stream)'
    <2>1. Stream \in Seq(Pieces) /\ sent \in [Files -> Nat]
        BY StreamIsSequence, InputsAssumption DEF StagesInv, PipeTypes
    <2> QED BY <1>3, <1>4, <1>6, <1>7, <2>1, SendKeepsOrder DEF StagesInv, b
<1>9. sent' \in [Files -> 0 .. MaxBatches] /\ (\A g \in Files : sent'[g] <= total[g] /\ (g # f => sent'[g] = sent[g]))
    BY <1>1, <1>2, <1>3, <1>4 DEF StagesInv, PipeTypes
<1>10. PipeTypes' /\ UploadIsWhole'
    BY <1>5, <1>6, <1>9 DEF StagesInv, PipeTypes, UploadIsWhole, Remote
<1>11. SendersGone' = SendersGone
    BY <1>5 DEF SendersGone
<1>12. LocalStages' /\ RemoteStages'
    BY <1>5, <1>7, <1>8, <1>11 DEF StagesInv, LocalStages, RemoteStages, Remote
<1>13. ClosedMeansSent'
    BY <1>1, <1>5, <1>8, <1>9 DEF StagesInv, ClosedMeansSent
<1> QED BY <1>8, <1>10, <1>12, <1>13 DEF StagesInv

(* A reader ends: everything is sent, the receiver is gone or it failed.    *)
LEMMA ReaderEndKeepsStages ==
    ASSUME StagesInv, TasksAreLive, UNCHANGED inputVars, NEW f \in Files, ReaderEnds(f) \/ ReaderFails(f)
    PROVE  StagesInv'
<1> USE DEF inputVars, readVars, writeVars, encodeVars, uploadVars
<1>1. reader[f] = "active"
    BY DEF ReaderEnds, ReaderFails, TasksAreLive, TaskIsLive
<1>2. /\ UNCHANGED <<route, total, sent, chan, rx, writer, hand, bchan, encoder, cchan, upload, buffer, parts, output>>
      /\ \/ reader' = [reader EXCEPT ![f] = "ok"] /\ (sent[f] = total[f] \/ ~rx)
         \/ reader' = [reader EXCEPT ![f] = "err"]
    BY DEF ReaderEnds, ReaderFails, EndReader
<1>3. /\ reader' \in [Files -> {"active", "ok", "err"}] /\ \A g \in Files : g # f => reader'[g] = reader[g]
      /\ reader'[f] = "ok" => sent[f] = total[f] \/ ~rx
      /\ reader'[f] # "active"
    BY <1>2 DEF StagesInv, PipeTypes
<1>4. Stream' = Stream /\ ~Closed(Stream) /\ ~SendersGone
    BY <1>1, <1>2, StreamRests DEF StagesInv, ClosedMeansSent, SendersGone
<1>5. InOrder(Stream, sent)' /\ ~Closed(Stream)'
    BY <1>2, <1>4, OrderRests
<1>6. PipeTypes' /\ UploadIsWhole'
    BY <1>2, <1>3 DEF StagesInv, PipeTypes, UploadIsWhole, Remote
<1>7. LocalStages' /\ RemoteStages'
    BY <1>2, <1>4, <1>5 DEF StagesInv, LocalStages, RemoteStages, Remote
<1>8. ClosedMeansSent'
    BY <1>2, <1>3, <1>4, <1>5 DEF StagesInv, ClosedMeansSent
<1> QED BY <1>5, <1>6, <1>7, <1>8 DEF StagesInv

(* A local writer truncates its output, or gives up.                        *)
LEMMA LocalKeepsStages ==
    ASSUME StagesInv, TasksAreLive, UNCHANGED inputVars, WriterCreates \/ WriterFails
    PROVE  StagesInv'
<1> USE DEF inputVars, readVars, writeVars, encodeVars, uploadVars
<1>1. ~Remote /\ writer \in {"start", "loop"}
    BY DEF WriterCreates, WriterFails, TasksAreLive, TaskIsLive
<1>2. /\ UNCHANGED <<route, total, reader, sent, chan, hand, bchan, encoder, cchan, upload, buffer, parts>>
      /\ \/ writer = "start" /\ writer' = "loop" /\ rx' = rx /\ output' = <<>>
         \/ writer' = "err" /\ rx' = FALSE /\ output' = output
    BY DEF WriterCreates, WriterFails, EndWriter
<1>3. output' \in Seq(Pieces) \cup {None} /\ Written' = Written /\ (writer' = "loop" => output' # None)
    <2>1. CASE output' = output /\ writer' = "err"
        BY <1>2, <2>1 DEF StagesInv, PipeTypes, Written
    <2>2. CASE output' = <<>> /\ writer = "start"
        <3>1. output = None
            BY <1>1, <2>2 DEF StagesInv, LocalStages
        <3>2. <<>> \in Seq(Pieces)
            OBVIOUS
        <3>3. <<>> # None
            BY <3>2, PiecesArePairs, Zenon
        <3> QED BY <2>2, <3>1, <3>2, <3>3 DEF Written
    <2> QED BY <1>2, <2>1, <2>2
<1>4. Stream' = Stream
    BY <1>1, <1>2, <1>3 DEF Stream, Remote
<1>5. InOrder(Stream, sent)' /\ Closed(Stream)' = Closed(Stream) /\ ~Closed(Stream)
    BY <1>1, <1>2, <1>4, OrderRests DEF StagesInv, LocalStages
<1>6. PipeTypes'
    BY <1>1, <1>2, <1>3 DEF StagesInv, PipeTypes
<1>7. LocalStages'
    BY <1>1, <1>2, <1>3, <1>5 DEF StagesInv, LocalStages, Remote
<1>8. RemoteStages' /\ UploadIsWhole'
    BY <1>1, <1>2 DEF RemoteStages, UploadIsWhole, Remote
<1>9. ClosedMeansSent'
    BY <1>2, <1>5 DEF StagesInv, ClosedMeansSent
<1> QED BY <1>5, <1>6, <1>7, <1>8, <1>9 DEF StagesInv

(* A local writer takes a batch.                                            *)
LEMMA WriteKeepsStages ==
    ASSUME StagesInv, TasksAreLive, UNCHANGED inputVars, WriteBatch
    PROVE  StagesInv'
<1> USE DEF inputVars, readVars, writeVars, encodeVars, uploadVars
<1>1. ~Remote /\ writer = "loop" /\ output # None
    BY DEF WriteBatch, TasksAreLive, TaskIsLive, StagesInv, LocalStages
<1>2. UNCHANGED <<route, total, reader, sent, rx, writer, hand, bchan, encoder, cchan, upload, buffer, parts>>
    BY DEF WriteBatch
<1>3. Stream' = Stream /\ output' \in Seq(Pieces) /\ output' # None /\ chan' \in Seq(Batches)
    BY <1>1, <1>2, WrittenMoves DEF WriteBatch, StagesInv
<1>4. InOrder(Stream, sent)' /\ Closed(Stream)' = Closed(Stream)
    BY <1>2, <1>3, OrderRests
<1>5. PipeTypes'
    BY <1>2, <1>3 DEF StagesInv, PipeTypes
<1>6. LocalStages' /\ RemoteStages' /\ UploadIsWhole'
    BY <1>1, <1>2, <1>3, <1>4 DEF StagesInv, LocalStages, RemoteStages, UploadIsWhole, Remote
<1>7. ClosedMeansSent'
    BY <1>2, <1>4 DEF StagesInv, ClosedMeansSent, SendersGone
<1> QED BY <1>4, <1>5, <1>6, <1>7 DEF StagesInv

(* A local writer closes its file when all senders are gone.                *)
LEMMA FinishKeepsStages ==
    ASSUME StagesInv, TasksAreLive, UNCHANGED inputVars, WriterFinishes
    PROVE  StagesInv'
<1> USE DEF inputVars, readVars, writeVars, encodeVars, uploadVars
<1>1. /\ ~Remote /\ writer = "loop" /\ output # None /\ ~Closed(Stream)
      /\ chan = <<>> /\ SendersGone /\ rx
    BY DEF WriterFinishes, TasksAreLive, TaskIsLive, StagesInv, LocalStages, PipeTypes
<1>2. /\ UNCHANGED <<route, total, reader, sent, chan, hand, bchan, encoder, cchan, upload, buffer, parts>>
      /\ writer' = "ok" /\ rx' = FALSE /\ output' = Append(output, Footer)
    BY DEF WriterFinishes, EndWriter
<1>3. output \in Seq(Pieces) /\ Footer \in Pieces /\ Stream \in Seq(Pieces) /\ sent \in [Files -> Nat]
    BY <1>1, PiecesArePairs, StreamIsSequence, InputsAssumption DEF StagesInv, PipeTypes
<1>4. output' \in Seq(Pieces) /\ output' # None
    <2>1. output' \in Seq(Pieces)
        BY <1>2, <1>3, PiecesJoin
    <2> QED BY <2>1, PiecesArePairs, Zenon
<1>5. Stream = output /\ Stream' = Append(Stream, Footer)
    <2>1. output \o <<>> = output /\ output' \o <<>> = output'
        BY <1>3, <1>4, PiecesJoin
    <2> QED BY <1>1, <1>2, <1>4, <2>1 DEF Stream, Written, Remote
<1>6. InOrder(Stream, sent)' /\ Closed(Stream)'
    BY <1>1, <1>2, <1>3, <1>5, FooterKeepsOrder DEF StagesInv
<1>7. PipeTypes'
    BY <1>2, <1>4 DEF StagesInv, PipeTypes
<1>8. SendersGone' /\ \A f \in Files : reader[f] = "ok" => sent[f] = total[f]
    BY <1>1, <1>2 DEF StagesInv, ClosedMeansSent, SendersGone
<1>9. LocalStages' /\ RemoteStages' /\ UploadIsWhole'
    BY <1>1, <1>2, <1>4, <1>6, <1>8 DEF StagesInv, LocalStages, RemoteStages, UploadIsWhole, Remote
<1>10. ClosedMeansSent'
    BY <1>2, <1>8 DEF ClosedMeansSent
<1> QED BY <1>6, <1>7, <1>9, <1>10 DEF StagesInv

(* A remote writer asks for a batch, or learns what became of the others.   *)
LEMMA WaitKeepsStages ==
    ASSUME StagesInv, TasksAreLive, UNCHANGED inputVars,
           RequestBatch \/ EncoderGone \/ AwaitEncoder \/ AwaitUpload
    PROVE  StagesInv'
<1> USE DEF inputVars, readVars, writeVars, encodeVars, uploadVars
<1>1. /\ UNCHANGED <<route, total, reader, sent, chan, hand, bchan, encoder, cchan, upload, buffer, parts, output>>
      /\ rx' = (writer' \notin {"ok", "err"})
    BY DEF RequestBatch, EncoderGone, AwaitEncoder, AwaitUpload, EndWriter, StagesInv, PipeTypes
<1>2. /\ Remote /\ rx
      /\ \/ writer = "loop" /\ writer' = "receiving"
         \/ writer = "sending" /\ encoder # "active" /\ writer' = "err"
         \/ writer = "encoding" /\ encoder = "ok" /\ writer' = "uploading"
         \/ writer = "encoding" /\ encoder # "active" /\ writer' = "err"
         \/ writer = "uploading" /\ writer' = "err"
         \/ writer = "uploading" /\ upload = "ok" /\ writer' = "ok"
    BY DEF RequestBatch, EncoderGone, AwaitEncoder, AwaitUpload, EndWriter, StagesInv, PipeTypes, LocalStages, RemoteStages
<1>3. Stream' = Stream
    BY <1>1, StreamRests
<1>4. InOrder(Stream, sent)' /\ Closed(Stream)' = Closed(Stream) /\ SendersGone' = SendersGone
    BY <1>1, <1>3, OrderRests DEF SendersGone
<1>5. PipeTypes'
    BY <1>1 DEF StagesInv, PipeTypes
<1>6. LocalStages' /\ UploadIsWhole'
    BY <1>1, <1>2 DEF StagesInv, LocalStages, UploadIsWhole, Remote
<1>7. RemoteStages'
    BY <1>1, <1>2, <1>4 DEF StagesInv, RemoteStages, Remote
<1>8. ClosedMeansSent'
    BY <1>1, <1>2, <1>4 DEF StagesInv, ClosedMeansSent
<1> QED BY <1>4, <1>5, <1>6, <1>7, <1>8 DEF StagesInv

(* A batch is received for a remote writer, or the end of the channel.      *)
LEMMA ReceiveKeepsStages ==
    ASSUME StagesInv, TasksAreLive, UNCHANGED inputVars, ReceiveBatch
    PROVE  StagesInv'
<1> USE DEF inputVars, readVars, writeVars, encodeVars, uploadVars
<1>1. Remote /\ writer = "receiving" /\ hand = None /\ rx
    BY DEF ReceiveBatch, TasksAreLive, TaskIsLive, StagesInv, RemoteStages, PipeTypes
<1>2. UNCHANGED <<route, total, reader, sent, rx, bchan, encoder, cchan, upload, buffer, parts, output>>
    BY DEF ReceiveBatch
<1>3. /\ Stream' = Stream /\ hand' \in Batches \cup {None} /\ chan' \in Seq(Batches)
      /\ \/ writer' = "sending" /\ hand' # None
         \/ writer' = "encoding" /\ hand' = None /\ chan' = <<>> /\ SendersGone
    <2>1. CASE chan # <<>>
        <3>1. hand' = Head(chan) /\ chan' = Tail(chan) /\ writer' = "sending"
            BY <2>1 DEF ReceiveBatch
        <3> QED BY <1>1, <1>2, <2>1, <3>1, ReceivedMoves DEF StagesInv
    <2>2. CASE chan = <<>>
        <3>1. UNCHANGED <<chan, hand>> /\ writer' = "encoding" /\ SendersGone
            BY <2>2 DEF ReceiveBatch
        <3> QED BY <1>1, <1>2, <2>2, <3>1, StreamRests DEF StagesInv, PipeTypes
    <2> QED BY <2>1, <2>2
<1>4. InOrder(Stream, sent)' /\ Closed(Stream)' = Closed(Stream) /\ SendersGone' = SendersGone
    BY <1>2, <1>3, OrderRests DEF SendersGone
<1>5. PipeTypes'
    BY <1>1, <1>2, <1>3 DEF StagesInv, PipeTypes
<1>6. LocalStages' /\ UploadIsWhole'
    BY <1>1, <1>2 DEF StagesInv, LocalStages, UploadIsWhole, Remote
<1>7. RemoteStages'
    BY <1>1, <1>2, <1>3, <1>4 DEF StagesInv, RemoteStages, Remote
<1>8. ClosedMeansSent'
    BY <1>2, <1>4 DEF StagesInv, ClosedMeansSent
<1> QED BY <1>4, <1>5, <1>6, <1>7, <1>8 DEF StagesInv

(* A remote writer passes a batch on to the encoder.                        *)
LEMMA PassKeepsStages ==
    ASSUME StagesInv, TasksAreLive, UNCHANGED inputVars, PassBatch
    PROVE  StagesInv'
<1> USE DEF inputVars, readVars, writeVars, encodeVars, uploadVars
<1>1. Remote /\ writer = "sending" /\ encoder = "active" /\ hand # None /\ rx
    BY DEF PassBatch, StagesInv, LocalStages, RemoteStages
<1>2. /\ UNCHANGED <<route, total, reader, sent, chan, rx, encoder, cchan, upload, buffer, parts, output>>
      /\ writer' = "loop" /\ hand' = None /\ bchan' = Append(bchan, hand)
    BY DEF PassBatch
<1>3. Stream' = Stream /\ bchan' \in Seq(Batches)
    BY <1>1, <1>2, HandMoves DEF StagesInv
<1>4. InOrder(Stream, sent)' /\ Closed(Stream)' = Closed(Stream) /\ SendersGone' = SendersGone
    BY <1>2, <1>3, OrderRests DEF SendersGone
<1>5. PipeTypes'
    BY <1>1, <1>2, <1>3 DEF StagesInv, PipeTypes
<1>6. LocalStages' /\ UploadIsWhole'
    BY <1>1, <1>2 DEF StagesInv, LocalStages, UploadIsWhole, Remote
<1>7. RemoteStages'
    BY <1>1, <1>2, <1>4 DEF StagesInv, RemoteStages, Remote
<1>8. ClosedMeansSent'
    BY <1>2, <1>4 DEF StagesInv, ClosedMeansSent
<1> QED BY <1>4, <1>5, <1>6, <1>7, <1>8 DEF StagesInv

(* The encoder turns a batch into a chunk.                                  *)
LEMMA EncodeKeepsStages ==
    ASSUME StagesInv, TasksAreLive, UNCHANGED inputVars, EncodeBatch
    PROVE  StagesInv'
<1> USE DEF inputVars, readVars, writeVars, encodeVars, uploadVars
<1>1. Remote /\ encoder = "active" /\ bchan # <<>>
    BY DEF EncodeBatch, TasksAreLive, TaskIsLive
<1>2. /\ UNCHANGED <<route, total, reader, sent, chan, rx, writer, hand, encoder, upload, buffer, parts, output>>
      /\ cchan' = Append(cchan, Head(bchan)) /\ bchan' = Tail(bchan)
    BY DEF EncodeBatch
<1>3. Stream' = Stream /\ cchan' \in Seq(Pieces) /\ bchan' \in Seq(Batches)
    BY <1>1, <1>2, BatchMoves DEF StagesInv
<1>4. InOrder(Stream, sent)' /\ Closed(Stream)' = Closed(Stream) /\ SendersGone' = SendersGone
    BY <1>2, <1>3, OrderRests DEF SendersGone
<1>5. PipeTypes'
    BY <1>2, <1>3 DEF StagesInv, PipeTypes
<1>6. LocalStages' /\ UploadIsWhole'
    BY <1>1, <1>2 DEF StagesInv, LocalStages, UploadIsWhole, Remote
<1>7. RemoteStages'
    BY <1>1, <1>2, <1>4 DEF StagesInv, RemoteStages, Remote
<1>8. ClosedMeansSent'
    BY <1>2, <1>4 DEF StagesInv, ClosedMeansSent
<1> QED BY <1>4, <1>5, <1>6, <1>7, <1>8 DEF StagesInv

(* The encoder closes the file: the writer has seen the end of its channel. *)
LEMMA FooterKeepsStages ==
    ASSUME StagesInv, TasksAreLive, UNCHANGED inputVars, EncodeFooter
    PROVE  StagesInv'
<1> USE DEF inputVars, readVars, writeVars, encodeVars, uploadVars
<1>1. Remote /\ encoder = "active" /\ bchan = <<>> /\ upload \notin {"ok", "err"}
    BY DEF EncodeFooter, UploadGone, TasksAreLive, TaskIsLive
<1>2. /\ UNCHANGED <<route, total, reader, sent, chan, rx, writer, hand, bchan, upload, buffer, parts, output>>
      /\ cchan' = Append(cchan, Footer) /\ encoder' = "ok"
    BY DEF EncodeFooter, EndEncoder
<1>3. rx /\ ~Closed(Stream) /\ writer = "encoding"
    BY <1>1 DEF EncodeFooter, BatchSenderGone, StagesInv, RemoteStages, PipeTypes
<1>4. hand = None /\ chan = <<>> /\ SendersGone
    BY <1>1, <1>3 DEF StagesInv, RemoteStages
<1>5. Stream' = Append(Stream, Footer) /\ cchan' \in Seq(Pieces)
    BY <1>1, <1>2, <1>4, FooterEndsStream DEF StagesInv
<1>6. InOrder(Stream, sent)' /\ Closed(Stream)'
    <2>1. Stream \in Seq(Pieces) /\ sent \in [Files -> Nat]
        BY StreamIsSequence, InputsAssumption DEF StagesInv, PipeTypes
    <2> QED BY <1>2, <1>3, <1>5, <2>1, FooterKeepsOrder DEF StagesInv
<1>7. SendersGone' /\ \A f \in Files : reader[f] = "ok" => sent[f] = total[f]
    BY <1>2, <1>3, <1>4 DEF StagesInv, ClosedMeansSent, SendersGone
<1>8. PipeTypes'
    BY <1>2, <1>5 DEF StagesInv, PipeTypes
<1>9. LocalStages' /\ UploadIsWhole'
    BY <1>1, <1>2 DEF StagesInv, LocalStages, UploadIsWhole, Remote
<1>10. RemoteStages'
    BY <1>1, <1>2, <1>3, <1>4, <1>6, <1>7 DEF StagesInv, RemoteStages, Remote
<1>11. ClosedMeansSent'
    BY <1>2, <1>7 DEF ClosedMeansSent
<1> QED BY <1>6, <1>8, <1>9, <1>10, <1>11 DEF StagesInv

(* The encoder gives up: its channels keep what they hold.                  *)
LEMMA EncoderEndKeepsStages ==
    ASSUME StagesInv, TasksAreLive, UNCHANGED inputVars, BrokenPipe \/ EncoderFails
    PROVE  StagesInv'
<1> USE DEF inputVars, readVars, writeVars, encodeVars, uploadVars
<1>1. Remote /\ encoder = "active"
    BY DEF BrokenPipe, EncoderFails, TasksAreLive, TaskIsLive
<1>2. /\ UNCHANGED <<route, total, reader, sent, chan, rx, writer, hand, bchan, cchan, upload, buffer, parts, output>>
      /\ encoder' = "err"
    BY DEF BrokenPipe, EncoderFails, EndEncoder
<1>3. Stream' = Stream
    BY <1>2, StreamRests
<1>4. InOrder(Stream, sent)' /\ Closed(Stream)' = Closed(Stream) /\ SendersGone' = SendersGone
    BY <1>2, <1>3, OrderRests DEF SendersGone
<1>5. PipeTypes'
    BY <1>2 DEF StagesInv, PipeTypes
<1>6. LocalStages' /\ UploadIsWhole'
    BY <1>1, <1>2 DEF StagesInv, LocalStages, UploadIsWhole, Remote
<1>7. RemoteStages'
    BY <1>1, <1>2, <1>4 DEF StagesInv, RemoteStages, PipeTypes, Remote
<1>8. ClosedMeansSent'
    BY <1>2, <1>4 DEF StagesInv, ClosedMeansSent
<1> QED BY <1>4, <1>5, <1>6, <1>7, <1>8 DEF StagesInv

(* A step of the upload touches neither readers, writer nor encoder: what   *)
(* it has to keep is the stream and the account of the upload itself.       *)
LEMMA UploadKeepsStages ==
    ASSUME StagesInv, UNCHANGED inputVars, UploadStep, Remote, Stream' = Stream, UploadIsWhole',
           cchan' \in Seq(Pieces), buffer' \in Seq(Pieces), parts' \in Seq(Pieces), output' \in Seq(Pieces) \cup {None},
           upload = "ok" => upload' = "ok"
    PROVE  StagesInv'
<1> USE DEF inputVars, readVars, writeVars, encodeVars
<1>1. UNCHANGED <<route, total, reader, sent, chan, rx, writer, hand, bchan, encoder>>
    BY DEF UploadStep
<1>2. InOrder(Stream, sent)' /\ Closed(Stream)' = Closed(Stream) /\ SendersGone' = SendersGone
    BY <1>1, OrderRests DEF SendersGone
<1>3. PipeTypes'
    BY <1>1 DEF StagesInv, PipeTypes
<1>4. LocalStages' /\ RemoteStages'
    BY <1>1, <1>2 DEF StagesInv, LocalStages, RemoteStages, Remote
<1>5. ClosedMeansSent'
    BY <1>1, <1>2 DEF StagesInv, ClosedMeansSent
<1> QED BY <1>2, <1>3, <1>4, <1>5 DEF StagesInv

(* The upload takes a chunk, flushes a part, or sees the end.               *)
LEMMA ChunkKeepsStages ==
    ASSUME StagesInv, UNCHANGED inputVars, TakeChunk \/ EndOfChunks \/ UploadPart
    PROVE  StagesInv'
<1> USE DEF inputVars, readVars, writeVars, encodeVars
<1>1. /\ Remote /\ upload \notin {"ok", "err"} /\ output = None /\ output' = None /\ UploadStep
      /\ route' = route /\ UNCHANGED <<bchan, hand, chan, encoder>>
    BY DEF TakeChunk, EndOfChunks, UploadPart, UploadStep, StagesInv, LocalStages, UploadIsWhole
<1>2. cchan \in Seq(Pieces) /\ buffer \in Seq(Pieces) /\ parts \in Seq(Pieces)
    BY DEF StagesInv, PipeTypes
<1>3. CASE TakeChunk
    <2>1. Stream' = Stream /\ buffer' \in Seq(Pieces) /\ cchan' \in Seq(Pieces) /\ parts' = parts
        BY <1>1, <1>3, ChunkMoves DEF TakeChunk, StagesInv
    <2>2. upload' \in {"flush", "active"}
        BY <1>3 DEF TakeChunk
    <2>3. UploadIsWhole'
        BY <1>1, <2>2 DEF UploadIsWhole
    <2> QED BY <1>1, <1>2, <2>1, <2>3, UploadKeepsStages
<1>4. CASE EndOfChunks
    <2>1. UNCHANGED <<buffer, parts, cchan>> /\ cchan = <<>> /\ encoder # "active"
        BY <1>4 DEF EndOfChunks
    <2>2. Stream' = Stream
        BY <1>1, <2>1, StreamRests
    <2>3. /\ upload' \in {"err", "put", "complete", "last"}
          /\ upload' = "put" => parts = <<>> /\ buffer # <<>>
          /\ upload' = "last" => buffer # <<>>
          /\ upload' = "complete" => buffer = <<>> /\ parts # <<>>
        BY <1>4 DEF EndOfChunks
    <2>4. UploadIsWhole'
        BY <1>1, <2>1, <2>3 DEF UploadIsWhole
    <2> QED BY <1>1, <1>2, <2>1, <2>2, <2>4, UploadKeepsStages
<1>5. CASE UploadPart
    <2>1. Stream' = Stream /\ buffer' \in Seq(Pieces) /\ parts' \in Seq(Pieces) /\ cchan' = cchan /\ buffer' = <<>>
        BY <1>1, <1>5, PartMoves DEF UploadPart, StagesInv
    <2>2. \/ upload' = "active"
          \/ upload' = "complete" /\ cchan = <<>> /\ encoder # "active" /\ buffer # <<>>
        BY <1>1, <1>5 DEF UploadPart, StagesInv, UploadIsWhole
    <2>3. buffer # <<>> => parts' # <<>>
        BY <1>2, <1>5, PiecesJoin DEF UploadPart
    <2>4. UploadIsWhole'
        BY <1>1, <2>1, <2>2, <2>3 DEF UploadIsWhole
    <2> QED BY <1>1, <1>2, <2>1, <2>4, UploadKeepsStages
<1> QED BY <1>3, <1>4, <1>5

(* The object appears, with the answer to the last request or without.      *)
LEMMA PublishKeepsStages ==
    ASSUME StagesInv, UNCHANGED inputVars, PutObject \/ CompleteMultipart \/ UploadFails
    PROVE  StagesInv'
<1> USE DEF inputVars, readVars, writeVars, encodeVars
<1>1. /\ Remote /\ upload \notin {"active", "ok", "err"} /\ output = None /\ UploadStep
      /\ route' = route /\ UNCHANGED <<bchan, hand, chan, encoder, cchan, buffer, parts>>
    BY DEF PutObject, CompleteMultipart, UploadFails, UploadStep, StagesInv, LocalStages, UploadIsWhole
<1>2. cchan \in Seq(Pieces) /\ buffer \in Seq(Pieces) /\ parts \in Seq(Pieces)
    BY DEF StagesInv, PipeTypes
<1>3. Stream' = Stream
    BY <1>1 DEF Stream, Remote, InHand
<1>4. /\ (upload' = "ok" /\ upload \in {"put", "complete"}) \/ upload' = "err"
      /\ \/ output' = None /\ upload' = "err"
         \/ output' = buffer /\ upload = "put"
         \/ output' = parts /\ upload = "complete"
    BY <1>1 DEF PutObject, CompleteMultipart, UploadFails
<1>5. (output' = None /\ upload' = "err") \/ output' = parts \o buffer
    <2>1. <<>> \o buffer = buffer /\ parts \o <<>> = parts
        BY <1>2, PiecesJoin
    <2> QED BY <1>1, <1>4, <2>1 DEF StagesInv, UploadIsWhole
<1>6. output' = None \/ output' # <<>>
    BY <1>1, <1>4 DEF StagesInv, UploadIsWhole
<1>7. output' \in Seq(Pieces) \cup {None} /\ (output' # None \/ upload' = "err")
    <2>1. parts \o buffer \in Seq(Pieces)
        BY <1>2, PiecesJoin
    <2>2. parts \o buffer # None
        BY <2>1, PiecesArePairs, Zenon
    <2> QED BY <1>5, <2>1, <2>2
<1>8. upload \in {"put", "complete"} => cchan = <<>> /\ encoder # "active"
    BY <1>1 DEF StagesInv, UploadIsWhole
<1>9. UploadIsWhole'
    BY <1>1, <1>4, <1>5, <1>6, <1>7, <1>8 DEF UploadIsWhole
<1> QED BY <1>1, <1>2, <1>3, <1>7, <1>9, UploadKeepsStages
-----------------------------------------------------------------------------
(* Every step of a conversion leaves its stages in order.                   *)
LEMMA StagesStayInOrder ==
    ASSUME TasksAreLive, StagesInv, PipelineNext
    PROVE  StagesInv'
<1>1. UNCHANGED inputVars
    BY DEF PipelineNext
<1>2. CASE StartTask
    BY <1>1, <1>2, StagesRest DEF StartTask, stageVars, inputVars, readVars, writeVars, encodeVars, uploadVars
<1>3. CASE Return
    <2>1. UNCHANGED <<readVars, chan, writeVars, encodeVars, cchan, uploadVars, output>>
        BY <1>3, Zenon DEF Return
    <2> QED BY <1>1, <2>1, StagesRest DEF stageVars, uploadVars
<1>4. CASE EnsureMultipart
    BY <1>1, <1>4, StagesRest DEF EnsureMultipart, UploadStep, stageVars
<1>5. ASSUME NEW f \in Files, ReaderStep(f) \/ ReaderFails(f) PROVE StagesInv'
    BY <1>1, <1>5, ReadKeepsStages, ReaderEndKeepsStages DEF ReaderStep
<1>6. CASE LocalWriterStep \/ WriterFails
    BY <1>1, <1>6, LocalKeepsStages, WriteKeepsStages, FinishKeepsStages DEF LocalWriterStep
<1>7. CASE RemoteWriterStep
    BY <1>1, <1>7, WaitKeepsStages, ReceiveKeepsStages, PassKeepsStages DEF RemoteWriterStep
<1>8. CASE EncoderStep \/ EncoderFails
    BY <1>1, <1>8, EncodeKeepsStages, FooterKeepsStages, EncoderEndKeepsStages DEF EncoderStep
<1>9. CASE UploaderStep \/ UploadFails
    BY <1>1, <1>4, <1>9, ChunkKeepsStages, PublishKeepsStages DEF UploaderStep
<1> QED BY <1>2, <1>3, <1>5, <1>6, <1>7, <1>8, <1>9 DEF PipelineNext

(* A conversion starts with its tasks queued, each once.                    *)
LEMMA TasksStartLive ==
    ASSUME Init
    PROVE  TasksAreLive
<1> DEFINE q == [f \in Files |-> ReadTask(f)]
           k == IF Remote THEN EncodeTask ELSE WriteTask
<1>1. NumFiles \in Nat /\ Files = 1 .. NumFiles
    BY InputsAssumption DEF Files
<1>2. \A f \in Files : ReadTask(f) \in Tasks
    BY DEF Tasks
<1>3. q \in Seq(Tasks)
    BY <1>1, <1>2
<1>4. Injective(q) /\ Queued(q) = {ReadTask(f) : f \in Files}
    BY TasksDiffer DEF Injective, Queued
<1>5. k \in Tasks /\ k \notin Queued(q)
    BY <1>4, TasksDiffer DEF Tasks
<1>6. queue = Append(q, k) /\ running = {}
    BY DEF Init, PipelineInit
<1> HIDE DEF q
<1>7. queue \in Seq(Tasks) /\ Injective(queue) /\ Queued(queue) = Queued(q) \cup {k}
    BY <1>3, <1>4, <1>5, <1>6, AppendAddsKey
<1>8. \A f \in Files : TaskIsLive(ReadTask(f))
    BY TasksDiffer DEF TaskIsLive, Init, PipelineInit
<1>9. TaskIsLive(k)
    <2>1. CASE Remote
        BY <2>1, TasksDiffer DEF TaskIsLive, Init, PipelineInit
    <2>2. CASE ~Remote
        BY <2>2, TasksDiffer DEF TaskIsLive, Init, PipelineInit
    <2> QED BY <2>1, <2>2
<1> QED BY <1>4, <1>6, <1>7, <1>8, <1>9 DEF TasksAreLive

(* A conversion starts with an empty stream.                                *)
LEMMA StagesStartInOrder ==
    ASSUME Init, Pipelined
    PROVE  StagesInv
<1>1. total \in [Files -> 0 .. MaxBatches]
    BY DEF Init, InputsInit, Choice, Converting, Pipelined
<1>2. <<>> \in Seq(Batches) /\ <<>> \in Seq(Pieces) /\ <<>> \o <<>> = <<>>
    OBVIOUS
<1>3. PipeTypes
    <2>1. sent = [f \in Files |-> 0] /\ \A f \in Files : total[f] \in 0 .. MaxBatches
        BY <1>1 DEF Init, PipelineInit
    <2>2. sent \in [Files -> 0 .. MaxBatches] /\ \A f \in Files : sent[f] <= total[f]
        BY <2>1, InputsAssumption
    <2>3. rx = (writer \notin {"ok", "err"})
        BY DEF Init, PipelineInit
    <2> QED BY <1>1, <1>2, <2>2, <2>3 DEF PipeTypes, Init, PipelineInit, InputsInit
<1>4. Stream = <<>>
    BY <1>2 DEF Stream, InHand, Written, Init, PipelineInit, InputsInit
<1>5. DOMAIN Stream = {} /\ \A f \in Files : 1 .. sent[f] = {}
    BY <1>4 DEF Init, PipelineInit
<1>6. InOrder(Stream, sent) /\ ~Closed(Stream)
    BY <1>5 DEF InOrder, Closed
<1>7. LocalStages /\ RemoteStages /\ UploadIsWhole
    BY <1>6 DEF LocalStages, RemoteStages, UploadIsWhole, Init, PipelineInit, InputsInit
<1>8. ClosedMeansSent
    BY <1>6 DEF ClosedMeansSent, Init, PipelineInit
<1> QED BY <1>3, <1>6, <1>7, <1>8 DEF StagesInv

(* The invariant of the conversions.                                        *)
LEMMA ConvertInvHolds == Spec => [](ConvertInv /\ DoneIsHonest)
<1>1. Init => ConvertInv /\ DoneIsHonest
    BY TasksStartLive, StagesStartInOrder DEF ConvertInv, DoneIsHonest, Init, PipelineInit
<1>2. ASSUME ConvertInv, DoneIsHonest, [Next]_vars PROVE ConvertInv' /\ DoneIsHonest'
    <2>1. CASE UNCHANGED vars
        <3>1. UNCHANGED <<stageVars, poolVars, main>>
            BY <2>1 DEF vars, convertVars, pipelineVars, stageVars, inputVars, uploadVars
        <3>2. Pipelined' = Pipelined /\ DoneIsHonest'
            BY <1>2, <3>1 DEF DoneIsHonest, ReadersOk, stageVars, inputVars, readVars, writeVars, Pipelined
        <3>3. TasksAreLive => TasksAreLive'
            BY <3>1 DEF TasksAreLive, TaskIsLive, stageVars, poolVars, inputVars, readVars, writeVars, encodeVars, Remote
        <3> QED BY <1>2, <3>1, <3>2, <3>3, StagesRest DEF ConvertInv
    <2>2. CASE Pipelined /\ PipelineNext
        <3>1. TasksAreLive /\ StagesInv
            BY <1>2, <2>2 DEF ConvertInv
        <3>2. TasksAreLive' /\ StagesInv'
            BY <2>2, <3>1, TasksStayLive, StagesStayInOrder DEF StagesInv
        <3>3. main # "done" /\ route' = route
            BY <2>2 DEF PipelineNext, Live, Exited, inputVars
        <3>4. main' = main \/ Return
            BY <2>2 DEF PipelineNext, StartTask, ReaderStep, ReadBatch, ReaderEnds, ReaderFails, EndReader,
                LocalWriterStep, WriterCreates, WriteBatch, WriterFinishes, WriterFails, EndWriter,
                RemoteWriterStep, RequestBatch, ReceiveBatch, PassBatch, EncoderGone, AwaitEncoder, AwaitUpload,
                EncoderStep, EncodeBatch, EncodeFooter, BrokenPipe, EncoderFails, EndEncoder,
                UploaderStep, TakeChunk, EndOfChunks, EnsureMultipart, UploadPart, PutObject, CompleteMultipart,
                UploadFails, UploadStep
        <3>5. ASSUME Return, main' = "done" PROVE writer = "ok" /\ ReadersOk /\ UNCHANGED <<readVars, writeVars>>
            <4>1. /\ UNCHANGED <<readVars, writeVars>>
                  /\ main' = "failed" \/ (ReadersOk /\ main' = IF writer = "ok" THEN "done" ELSE "failed")
                BY <3>5, Zenon DEF Return
            <4> QED BY <3>5, <4>1
        <3>6. DoneIsHonest'
            BY <2>2, <3>3, <3>4, <3>5 DEF DoneIsHonest, Pipelined, ReadersOk, readVars, writeVars
        <3> QED BY <3>2, <3>6 DEF ConvertInv
    <2>3. CASE ~Pipelined /\ UNCHANGED <<route, pipelineVars>>
        BY <1>2, <2>3 DEF ConvertInv, DoneIsHonest, Pipelined, pipelineVars
    <2>4. CASE route = "resumable" /\ ResumableNext /\ UNCHANGED pipelineVars
        <3>1. route' = route
            BY <2>4 DEF ResumableNext, inputVars
        <3> QED BY <2>3, <2>4, <3>1 DEF Pipelined
    <2> QED BY <1>2, <2>1, <2>2, <2>3, <2>4 DEF Next, convertVars, Pipelined
<1> QED BY <1>1, <1>2, PTL DEF Spec
-----------------------------------------------------------------------------
(* A stream in which all of an input was sent holds that input.             *)
LEMMA OrderedHoldsInput ==
    ASSUME NEW s \in Seq(Pieces), NEW n \in [Files -> Nat], InOrder(s, n),
           NEW f \in Files, n[f] = total[f]
    PROVE  HoldsInput(s, f)
<1>1. \A i \in DOMAIN s : s[i] \in Pieces
    OBVIOUS
<1>2. ASSUME NEW i \in DOMAIN s, s[i][1] = f
      PROVE  s[i] # Footer /\ s[i][2] \in 1 .. total[f]
    <2>1. f # 0 /\ Footer[1] = 0
        BY PiecesArePairs
    <2>2. s[i] # Footer
        BY <1>2, <2>1
    <2>3. s[i] \in Batches
        BY <1>1, <2>2 DEF Pieces
    <2>4. s[i][2] \in 1 .. MaxBatches /\ s[i][2] <= n[f]
        BY <1>2, <2>2, <2>3, PiecesArePairs DEF InOrder
    <2> QED BY <2>2, <2>4, InputsAssumption
<1>3. \A i, j \in DOMAIN s : i < j /\ s[i][1] = f /\ s[j][1] = f => s[i][2] < s[j][2]
    BY DEF InOrder
<1>4. \A m \in 1 .. total[f] : \E i \in DOMAIN s : s[i] = <<f, m>>
    BY DEF InOrder
<1> QED BY <1>2, <1>3, <1>4 DEF HoldsInput

(* The footer of a stream is its last piece.                                *)
LEMMA FooterIsLast ==
    ASSUME NEW s \in Seq(Pieces), NEW n, InOrder(s, n), Closed(s)
    PROVE  Last(s) = Footer
<1>1. PICK i \in DOMAIN s : s[i] = Footer
    BY DEF Closed
<1>2. DOMAIN s = 1 .. Len(s) /\ Len(s) \in Nat
    OBVIOUS
<1>3. i = Len(s)
    <2> SUFFICES ASSUME i < Len(s) PROVE FALSE
        BY <1>2
    <2>1. Len(s) \in DOMAIN s
        BY <1>2
    <2> QED BY <1>1, <2>1 DEF InOrder
<1> QED BY <1>1, <1>3 DEF Last

(* Nothing of a stream is behind its footer.                                *)
LEMMA NothingBehindFooter ==
    ASSUME NEW u \in Seq(Pieces), NEW v \in Seq(Pieces), NEW n, InOrder(u \o v, n), u # <<>>, Last(u) = Footer
    PROVE  v = <<>> /\ Closed(u)
<1>1. Len(u) \in Nat \ {0} /\ DOMAIN u = 1 .. Len(u) /\ Len(v) \in Nat /\ u[Len(u)] = Footer
    BY DEF Last
<1>2. Closed(u)
    BY <1>1 DEF Closed
<1>3. ASSUME v # <<>> PROVE FALSE
    <2>1. Len(v) > 0
        BY <1>1, <1>3
    <2>2. /\ DOMAIN (u \o v) = 1 .. (Len(u) + Len(v))
          /\ (u \o v)[Len(u)] = u[Len(u)]
        BY <1>1
    <2>3. Len(u) \in DOMAIN (u \o v) /\ Len(u) + 1 \in DOMAIN (u \o v) /\ Len(u) < Len(u) + 1
        BY <1>1, <2>1, <2>2
    <2> QED BY <1>1, <2>2, <2>3 DEF InOrder
<1> QED BY <1>2, <1>3

(* When all stages ended well, the output is the stream.                    *)
LEMMA OutputIsStream ==
    ASSUME StagesInv, writer = "ok"
    PROVE  output # None /\ output = Stream /\ Closed(Stream)
<1>1. CASE ~Remote
    <2>1. output # None /\ chan = <<>> /\ Closed(Stream)
        BY <1>1 DEF StagesInv, LocalStages
    <2>2. output \in Seq(Pieces)
        BY <2>1 DEF StagesInv, PipeTypes
    <2>3. output \o <<>> = output
        BY <2>2, PiecesJoin
    <2> QED BY <1>1, <2>1, <2>3 DEF Stream, Written
<1>2. CASE Remote
    <2>1. /\ chan = <<>> /\ hand = None /\ bchan = <<>> /\ Closed(Stream)
          /\ cchan = <<>> /\ output # None /\ output = parts \o buffer
        BY <1>2 DEF StagesInv, RemoteStages, UploadIsWhole
    <2>2. <<>> \o <<>> = <<>> /\ buffer \o <<>> = buffer
        BY PiecesJoin DEF StagesInv, PipeTypes
    <2>3. Stream = parts \o buffer
        BY <1>2, <2>1, <2>2 DEF Stream, InHand
    <2> QED BY <2>1, <2>3
<1> QED BY <1>1, <1>2

(* OkMeansWhole holds for any number of inputs, batches, faults, blocking   *)
(* threads, and for any capacity of the channels and size of the parts: a   *)
(* conversion (process_files_concurrently, run_convert_pipeline) that exits *)
(* with success has written every batch of every input once and in order,   *)
(* and closed the file.                                                     *)
THEOREM SuccessfulConversionsAreWhole == Spec => []OkMeansWhole
<1>1. ASSUME ConvertInv, DoneIsHonest PROVE OkMeansWhole
    <2> SUFFICES ASSUME main = "done"
                 PROVE  output # None /\ Last(output) = Footer /\ \A f \in Files : HoldsInput(output, f)
        BY DEF OkMeansWhole
    <2>1. StagesInv /\ writer = "ok" /\ ReadersOk
        BY <1>1 DEF ConvertInv, DoneIsHonest
    <2>2. output # None /\ output = Stream /\ Closed(Stream)
        BY <2>1, OutputIsStream
    <2>3. Stream \in Seq(Pieces) /\ sent \in [Files -> Nat] /\ InOrder(Stream, sent)
        BY <2>1, StreamIsSequence, InputsAssumption DEF StagesInv, PipeTypes
    <2>4. \A f \in Files : sent[f] = total[f]
        BY <2>1, <2>2 DEF StagesInv, ClosedMeansSent, ReadersOk
    <2>5. Last(Stream) = Footer
        BY <2>2, <2>3, FooterIsLast
    <2>6. \A f \in Files : HoldsInput(Stream, f)
        BY <2>3, <2>4, OrderedHoldsInput
    <2> QED BY <2>2, <2>5, <2>6
<1> QED BY <1>1, ConvertInvHolds, PTL

(* PublishedHoldsEveryGoodInput holds for all values of the constants: an   *)
(* object left by write_remote_parquet that ends with the footer holds all  *)
(* batches of every input whose reader did not fail, also when the request  *)
(* that published it was reported as failed.                                *)
THEOREM PublishedObjectsHoldGoodInputs == Spec => []PublishedHoldsEveryGoodInput
<1>1. ASSUME ConvertInv PROVE PublishedHoldsEveryGoodInput
    <2> SUFFICES ASSUME Remote, output # None, Last(output) = Footer, NEW f \in Files, reader[f] = "ok"
                 PROVE  HoldsInput(output, f)
        BY DEF PublishedHoldsEveryGoodInput
    <2>1. StagesInv
        BY <1>1 DEF ConvertInv, Pipelined, Remote
    <2>2. output = parts \o buffer /\ output # <<>>
        BY <2>1 DEF StagesInv, UploadIsWhole
    <2>3. /\ Stream \in Seq(Pieces) /\ sent \in [Files -> Nat] /\ InOrder(Stream, sent)
          /\ output \in Seq(Pieces) /\ FromChunks \in Seq(Pieces) /\ parts \in Seq(Pieces) /\ buffer \in Seq(Pieces)
          /\ Stream = parts \o FromBuffer
        <3>1. PipeTypes /\ InOrder(Stream, sent)
            BY <2>1 DEF StagesInv
        <3>2. Stream \in Seq(Pieces) /\ FromChunks \in Seq(Pieces) /\ Stream = parts \o FromBuffer
            BY <3>1, StreamIsSequence
        <3>3. sent \in [Files -> Nat] /\ output \in Seq(Pieces) /\ parts \in Seq(Pieces) /\ buffer \in Seq(Pieces)
            BY <3>1, InputsAssumption DEF PipeTypes
        <3> QED BY <3>1, <3>2, <3>3
    <2>4. Stream = output \o FromChunks
        BY <2>2, <2>3, JoinIsAssociative, ZenonT(60) DEF FromBuffer
    <2>5. FromChunks = <<>> /\ Closed(output)
        BY <2>2, <2>3, <2>4, NothingBehindFooter
    <2>6. Stream = output
        BY <2>3, <2>4, <2>5, PiecesJoin
    <2>7. sent[f] = total[f]
        BY <2>1, <2>5, <2>6 DEF StagesInv, ClosedMeansSent
    <2> QED BY <2>3, <2>6, <2>7, OrderedHoldsInput
<1> QED BY <1>1, ConvertInvHolds, PTL
-----------------------------------------------------------------------------
(* A step fails at most once more, and only while faults are left.          *)
LEMMA FaultsAreCounted ==
    ASSUME faults \in 0 .. MaxFaults, Next
    PROVE  faults' \in 0 .. MaxFaults
<1>1. ASSUME faults' = faults \/ Fault PROVE faults' \in 0 .. MaxFaults
    BY <1>1, InputsAssumption DEF Fault
<1>2. ASSUME NEW f \in Files, ReaderStep(f) \/ ReaderFails(f) PROVE faults' = faults \/ Fault
    BY <1>2 DEF ReaderStep, ReadBatch, ReaderEnds, ReaderFails
<1>3. CASE StartTask \/ LocalWriterStep \/ WriterFails
    BY <1>1, <1>3 DEF StartTask, LocalWriterStep, WriterCreates, WriteBatch, WriterFinishes, WriterFails
<1>4. CASE RemoteWriterStep
    BY <1>1, <1>4 DEF RemoteWriterStep, RequestBatch, ReceiveBatch, PassBatch, EncoderGone, AwaitEncoder, AwaitUpload
<1>5. CASE EncoderStep \/ EncoderFails
    BY <1>1, <1>5 DEF EncoderStep, EncodeBatch, EncodeFooter, BrokenPipe, EncoderFails
<1>6. CASE UploaderStep \/ UploadFails
    BY <1>1, <1>6 DEF UploaderStep, TakeChunk, EndOfChunks, EnsureMultipart, UploadPart, PutObject, CompleteMultipart, UploadFails
<1>7. ASSUME Return PROVE faults' = faults
    BY <1>7, Zenon DEF Return
<1>8. CASE PipelineNext
    BY <1>1, <1>2, <1>3, <1>4, <1>5, <1>6, <1>7, <1>8 DEF PipelineNext
<1>9. CASE StartFresh \/ Resume \/ Interrupt \/ Cleanup \/ \E f \in Files : Modify(f)
    BY <1>1, <1>9 DEF StartFresh, Resume, Interrupt, Cleanup, Modify
<1>10. ASSUME ProcessStep, ~Cleanup PROVE faults' = faults
    BY <1>10 DEF ProcessStep, SaveFresh, BeginPart, FinishPart, SaveProgress, RenamePart, TruncateOutput,
        JoinPart, FinishJoin, NothingStaged, Commit
<1>11. CASE ResumableNext
    BY <1>1, <1>9, <1>10, <1>11 DEF ResumableNext
<1> QED BY <1>1, <1>8, <1>11 DEF Next, convertVars

(* The blocking pool: no more tasks run than it has threads.                *)
PoolFits == pool \in Nat /\ IsFiniteSet(running) /\ Cardinality(running) <= pool

(* A task starts only on a free thread.                                     *)
LEMMA PoolStaysInLimit ==
    ASSUME PoolFits, pool' = pool,
           StartTask \/ running' \subseteq running
    PROVE  PoolFits'
<1>1. CASE running' \subseteq running
    <2>1. IsFiniteSet(running') /\ Cardinality(running') <= Cardinality(running)
        BY <1>1, FS_Subset DEF PoolFits
    <2>2. Cardinality(running') \in Nat /\ Cardinality(running) \in Nat
        BY <2>1, FS_CardinalityType DEF PoolFits
    <2> QED BY <2>1, <2>2 DEF PoolFits
<1>2. CASE StartTask
    <2>1. running' = running \cup {Head(queue)} /\ Cardinality(running) < pool
        BY <1>2 DEF StartTask
    <2>2. /\ IsFiniteSet(running')
          /\ Cardinality(running') = IF Head(queue) \in running THEN Cardinality(running) ELSE Cardinality(running) + 1
        BY <2>1, FS_AddElement DEF PoolFits
    <2>3. Cardinality(running) \in Nat
        BY FS_CardinalityType DEF PoolFits
    <2> QED BY <2>1, <2>2, <2>3 DEF PoolFits
<1> QED BY <1>1, <1>2

(* The channels hold what fits.                                             *)
ChannelsFit == Len(chan) <= Capacity /\ Len(bchan) <= Capacity /\ Len(cchan) <= Capacity

(* A channel that is read gets shorter, one that is written had room.       *)
LEMMA ChannelFits ==
    ASSUME NEW S, NEW s \in Seq(S), NEW t, NEW x,
           Len(s) <= Capacity,
           t = s \/ (t = Append(s, x) /\ Len(s) < Capacity) \/ (s # <<>> /\ t = Tail(s))
    PROVE  Len(t) <= Capacity
<1>1. Capacity \in Nat /\ Len(s) \in Nat
    BY PipelineAssumption
<1>2. CASE t = Append(s, x) /\ Len(s) < Capacity
    <2>1. s \in Seq(S \cup {x})
        OBVIOUS
    <2> QED BY <1>1, <1>2, <2>1
<1>3. CASE s # <<>> /\ t = Tail(s)
    BY <1>1, <1>3
<1> QED BY <1>2, <1>3

UploadTypes ==
    /\ upload \in {"active", "flush", "last", "put", "complete", "ok", "err"}
    /\ multipart \in {"none", "open", "completed", "aborted"}
    /\ main \in {"readers"} \cup Exited

(* A step of a conversion keeps to the pool, the channels and the states.   *)
LEMMA PipelineKeepsTypes ==
    ASSUME PipeTypes, ChannelsFit, PoolFits, UploadTypes, PipelineNext
    PROVE  ChannelsFit' /\ PoolFits' /\ UploadTypes'
<1> USE DEF readVars, writeVars, encodeVars, uploadVars, poolVars
<1>1. ASSUME UNCHANGED <<pool, running, chan, bchan, cchan>> PROVE ChannelsFit' /\ PoolFits'
    BY <1>1 DEF ChannelsFit, PoolFits
<1>2. ASSUME UNCHANGED <<upload, multipart, main>> PROVE UploadTypes'
    BY <1>2 DEF UploadTypes
<1>3. ASSUME UNCHANGED <<chan, bchan, cchan>> PROVE ChannelsFit'
    BY <1>3 DEF ChannelsFit
<1>4. CASE StartTask
    BY <1>2, <1>3, <1>4, PoolStaysInLimit DEF StartTask
<1>5. ASSUME NEW f \in Files, ReadBatch(f) PROVE ChannelsFit' /\ PoolFits' /\ UploadTypes'
    <2>1. PICK x : chan' = Append(chan, x) /\ Len(chan) < Capacity
        BY <1>5 DEF ReadBatch
    <2>2. UNCHANGED <<pool, running, bchan, cchan, upload, multipart, main>>
        BY <1>5 DEF ReadBatch
    <2>3. Len(chan') <= Capacity
        BY <2>1, ChannelFits DEF ChannelsFit, PipeTypes
    <2> QED BY <1>2, <2>2, <2>3 DEF ChannelsFit, PoolFits
<1>6. ASSUME NEW f \in Files, ReaderEnds(f) \/ ReaderFails(f) PROVE ChannelsFit' /\ PoolFits' /\ UploadTypes'
    BY <1>2, <1>3, <1>6, PoolStaysInLimit DEF ReaderEnds, ReaderFails, EndReader, EndTask
<1>7. CASE WriterCreates
    BY <1>1, <1>2, <1>7 DEF WriterCreates
<1>8. CASE WriteBatch
    <2>1. Len(chan') <= Capacity
        BY <1>8, ChannelFits DEF WriteBatch, ChannelsFit, PipeTypes
    <2> QED BY <1>2, <1>8, <2>1 DEF WriteBatch, ChannelsFit, PoolFits
<1>9. CASE WriterFinishes \/ WriterFails
    BY <1>2, <1>3, <1>9, PoolStaysInLimit DEF WriterFinishes, WriterFails, EndWriter, EndTask
<1>10. CASE RequestBatch \/ EncoderGone \/ AwaitEncoder \/ AwaitUpload
    BY <1>1, <1>2, <1>10 DEF RequestBatch, EncoderGone, AwaitEncoder, AwaitUpload, EndWriter
<1>11. CASE ReceiveBatch
    <2>1. Len(chan') <= Capacity
        BY <1>11, ChannelFits DEF ReceiveBatch, ChannelsFit, PipeTypes
    <2>2. pool' = pool /\ running' \subseteq running /\ UNCHANGED <<bchan, cchan, upload, multipart, main>>
        BY <1>11 DEF ReceiveBatch, EndTask
    <2> QED BY <1>2, <2>1, <2>2, PoolStaysInLimit DEF ChannelsFit
<1>12. CASE PassBatch
    <2>1. Len(bchan') <= Capacity
        BY <1>12, ChannelFits DEF PassBatch, ChannelsFit, PipeTypes
    <2> QED BY <1>2, <1>12, <2>1 DEF PassBatch, ChannelsFit, PoolFits
<1>13. CASE EncodeBatch
    <2>1. bchan # <<>> /\ bchan' = Tail(bchan) /\ cchan' = Append(cchan, Head(bchan)) /\ Len(cchan) < Capacity
        BY <1>13 DEF EncodeBatch
    <2>2. Len(bchan') <= Capacity
        BY <2>1, ChannelFits DEF ChannelsFit, PipeTypes
    <2>3. Len(cchan') <= Capacity
        BY <2>1, ChannelFits DEF ChannelsFit, PipeTypes
    <2> QED BY <1>2, <1>13, <2>2, <2>3 DEF EncodeBatch, ChannelsFit, PoolFits
<1>14. CASE EncodeFooter
    <2>1. cchan' = Append(cchan, Footer) /\ Len(cchan) < Capacity
        BY <1>14 DEF EncodeFooter
    <2>2. Len(cchan') <= Capacity
        BY <2>1, ChannelFits DEF ChannelsFit, PipeTypes
    <2>3. pool' = pool /\ running' \subseteq running /\ UNCHANGED <<chan, bchan, upload, multipart, main>>
        BY <1>14 DEF EncodeFooter, EndEncoder, EndTask
    <2> QED BY <1>2, <2>2, <2>3, PoolStaysInLimit DEF ChannelsFit
<1>15. CASE BrokenPipe \/ EncoderFails
    BY <1>2, <1>3, <1>15, PoolStaysInLimit DEF BrokenPipe, EncoderFails, EndEncoder, EndTask
<1>16. CASE UploaderStep \/ UploadFails
    <2>1. /\ UNCHANGED <<pool, running, chan, bchan, main>>
          /\ cchan' = cchan \/ (cchan # <<>> /\ cchan' = Tail(cchan))
        BY <1>16 DEF UploaderStep, TakeChunk, EndOfChunks, EnsureMultipart, UploadPart, PutObject,
            CompleteMultipart, UploadFails, UploadStep
    <2>2. UploadTypes'
        BY <1>16, <2>1 DEF UploadTypes, UploaderStep, TakeChunk, EndOfChunks, EnsureMultipart, UploadPart,
            PutObject, CompleteMultipart, UploadFails
    <2>3. Len(cchan') <= Capacity
        BY <2>1, ChannelFits DEF ChannelsFit, PipeTypes
    <2> QED BY <2>1, <2>2, <2>3 DEF ChannelsFit, PoolFits
<1>17. CASE Return
    <2>1. UNCHANGED <<pool, poolVars, chan, encodeVars, cchan, uploadVars>> /\ main' \in {"done", "failed"}
        BY <1>17 DEF Return
    <2> QED BY <1>1, <2>1 DEF UploadTypes, Exited
<1> QED BY <1>4, <1>5, <1>6, <1>7, <1>8, <1>9, <1>10, <1>11, <1>12, <1>13, <1>14, <1>15, <1>16, <1>17
        DEF PipelineNext, ReaderStep, LocalWriterStep, RemoteWriterStep, EncoderStep

(* Types and limits: a fault is counted, no channel holds more than its     *)
(* capacity, no more blocking tasks run than the runtime has threads.       *)
THEOREM StreamingTypes == Spec => []TypeOK
<1> DEFINE TypeInv == faults \in 0 .. MaxFaults /\ ChannelsFit /\ PoolFits /\ UploadTypes
           Held == Range(chan) \subseteq Batches /\ Range(bchan) \subseteq Batches /\ hand \in Batches \cup {None}
<1>1. Init => TypeInv /\ Held
    <2> SUFFICES ASSUME Init PROVE TypeInv /\ Held
        OBVIOUS
    <2>1. pool \in Nat
        <3>1. Pools \subseteq Nat /\ Pools # {}
            BY PipelineAssumption
        <3>2. (CHOOSE x \in Pools : TRUE) \in Nat
            BY <3>1
        <3> QED BY <3>1, <3>2 DEF Init, PipelineInit, Choice
    <2>2. running = {} /\ IsFiniteSet({}) /\ Cardinality({}) = 0
        BY FS_EmptySet DEF Init, PipelineInit
    <2>3. PoolFits
        BY <2>1, <2>2 DEF PoolFits
    <2>4. faults \in 0 .. MaxFaults
        BY InputsAssumption DEF Init, InputsInit
    <2>5. chan = <<>> /\ bchan = <<>> /\ cchan = <<>> /\ hand = None /\ upload = "active" /\ multipart = "none" /\ main = "readers"
        BY DEF Init, PipelineInit
    <2>6. ChannelsFit
        BY <2>5, PipelineAssumption DEF ChannelsFit
    <2>7. Held
        BY <2>5 DEF Range
    <2> QED BY <2>3, <2>4, <2>5, <2>6, <2>7 DEF UploadTypes
<1>2. ASSUME TypeInv, Held, ConvertInv, ConvertInv', [Next]_vars PROVE TypeInv' /\ Held'
    <2>1. CASE UNCHANGED pipelineVars
        <3>1. faults' \in 0 .. MaxFaults
            BY <1>2, FaultsAreCounted DEF vars, convertVars
        <3>2. UNCHANGED <<pool, running, chan, bchan, cchan, hand, upload, multipart, main>>
            BY <2>1 DEF pipelineVars, poolVars, writeVars, encodeVars, uploadVars
        <3> QED BY <1>2, <3>1, <3>2 DEF ChannelsFit, PoolFits, UploadTypes, Range
    <2>2. CASE Pipelined /\ PipelineNext /\ Next
        <3>1. faults' \in 0 .. MaxFaults
            BY <1>2, <2>2, FaultsAreCounted
        <3>2. PipeTypes /\ PipeTypes'
            BY <1>2, <2>2 DEF ConvertInv, StagesInv, PipelineNext, inputVars, Pipelined
        <3>3. Held'
            BY <3>2 DEF PipeTypes, Range
        <3>4. ChannelsFit' /\ PoolFits' /\ UploadTypes'
            BY <1>2, <2>2, <3>2, PipelineKeepsTypes
        <3> QED BY <3>1, <3>3, <3>4
    <2> QED BY <1>2, <2>1, <2>2 DEF Next, vars
<1>3. TypeInv /\ Held => TypeOK
    BY DEF TypeOK, ChannelsFit, PoolFits, UploadTypes
<1> HIDE DEF TypeInv, Held
<1> QED BY <1>1, <1>2, <1>3, ConvertInvHolds, PTL DEF Spec
-----------------------------------------------------------------------------
(* Resumable conversions.  What the file that was joined from the parts of  *)
(* the inputs before n holds: a row of each that has rows, in order and not *)
(* older than when the conversion started, and a header at most first.      *)
JoinedBefore(c, n, ident, has, fmt) ==
    /\ c \in Seq(Nat \X Nat)
    /\ n = 1 => c = <<>>
    /\ \A i \in DOMAIN c :
        /\ c[i] = Header => i = 1
        /\ c[i] # Header => /\ c[i][1] \in 1 .. (n - 1) /\ has[c[i][1]]
                            /\ c[i][2] >= ident[c[i][1]]
    /\ \A f \in 1 .. (n - 1) : has[f] => \E i \in DOMAIN c : c[i][1] = f
    /\ \A i, j \in DOMAIN c : i < j /\ c[i] # Header => c[i][1] < c[j][1]
    /\ fmt = "csv" /\ has[1] /\ n > 1 => c # <<>> /\ c[1] = Header

(* A part holds the row of its input, not older than low, and in CSV the    *)
(* header before it.                                                        *)
PartHolds(part, f, low, has, fmt) ==
    /\ part \in Seq(Nat \X Nat)
    /\ ~has[f] => part = <<>>
    /\ has[f] => /\ Len(part) = IF fmt = "csv" THEN 2 ELSE 1
                 /\ fmt = "csv" => part[1] = Header
                 /\ part[Len(part)][1] = f /\ part[Len(part)][2] >= low

PartsAreGood(dir, s, has, fmt) ==
    /\ dir # None
    /\ \A f \in s.done : /\ fmt = "csv" \/ has[f] => PartHolds(dir[f], f, s.ident[f], has, fmt)
                         /\ ~(fmt = "csv" \/ has[f]) => dir[f] = None

ResumableTypes ==
    /\ kept \in [Files -> BOOLEAN] /\ holds \in [Files -> BOOLEAN]
    /\ format \in {"csv", "parquet"} /\ version \in [Files -> Nat]
    /\ ckpt \in Checkpoints \cup {None}
    /\ staging \in Stagings \cup {None}
    /\ step \in {"idle", "fresh", "parts", "writing", "saving", "joining", "commit", "cleanup"}
    /\ step # "idle" => mem \in Checkpoints
    /\ spoilt \in BOOLEAN

(* Inputs are never older than what was recorded of them, and files are     *)
(* processed in their order.                                                *)
Recorded(s, now) ==
    /\ \A f \in Files : s.ident[f] <= now[f]
    /\ \E k \in 0 .. NumFiles : s.done = 1 .. k

RecordsAreTrue ==
    /\ ckpt # None => Recorded(ckpt, version)
    /\ step # "idle" => Recorded(mem, version)

(* What is in memory is what is in the checkpoint, but for the file just    *)
(* converted.                                                               *)
MemoryIsCheckpoint ==
    /\ step \in {"parts", "writing", "joining", "commit", "cleanup"} => mem = ckpt
    /\ step \in {"parts", "writing", "saving", "joining", "commit", "cleanup"} => ckpt # None /\ staging # None
    /\ step = "writing" => Todo # {}
    /\ step = "saving" => mem.ident = ckpt.ident /\ mem.committed = ckpt.committed
    /\ step \in {"joining", "commit", "cleanup"} => IsComplete(mem)

(* The staged parts are those the checkpoint calls processed, or they have  *)
(* all become the output by a rename.                                       *)
PartsAreKept ==
    ~spoilt => /\ ckpt # None /\ step # "fresh" /\ ~ckpt.committed =>
                    PartsAreGood(staging, ckpt, kept, format) \/ (IsComplete(ckpt) /\ staging = NoParts)
               /\ step \in {"saving", "joining"} => PartsAreGood(staging, mem, kept, format)

JoinIsWhole ==
    step = "joining" =>
        /\ joining.next \in 1 .. (NumFiles + 1) /\ joining.content \in Seq(Nat \X Nat)
        /\ joining = [next |-> joining.next, content |-> joining.content]
        /\ ~spoilt => JoinedBefore(joining.content, joining.next, mem.ident, kept, format)

(* A commit comes after the output, and nothing touches that afterwards.    *)
CommitIsWhole ==
    /\ step \in {"commit", "cleanup"} =>
        /\ output # None
        /\ ~spoilt => JoinedBefore(output, NumFiles + 1, mem.ident, kept, format)
    /\ ckpt # None /\ ckpt.committed =>
        /\ step \in {"cleanup", "idle", "fresh"} /\ IsComplete(ckpt) /\ output # None
        /\ ~spoilt => JoinedBefore(output, NumFiles + 1, ckpt.ident, kept, format)
    /\ step = "fresh" => mem.done = {} /\ ~mem.committed
    /\ step = "cleanup" => ckpt.committed

CheckpointInv ==
    ResumableTypes /\ RecordsAreTrue /\ MemoryIsCheckpoint /\ PartsAreKept /\ JoinIsWhole /\ CommitIsWhole

ResumableInv == route = "resumable" => CheckpointInv

(* An input without rows adds nothing to the joined file.                   *)
LEMMA JoinNothing ==
    ASSUME NEW n \in Files, NEW ident, NEW c, JoinedBefore(c, n, ident, kept, format), ~kept[n],
           kept \in [Files -> BOOLEAN], format \in {"csv", "parquet"}
    PROVE  JoinedBefore(c, n + 1, ident, kept, format)
<1>1. c \in Seq(Nat \X Nat) /\ n \in Nat \ {0} /\ n + 1 # 1 /\ (n + 1) - 1 = n /\ NumFiles \in Nat
    BY InputsAssumption DEF JoinedBefore, Files
<1>2. ASSUME NEW i \in DOMAIN c
      PROVE  /\ c[i] = Header => i = 1
             /\ c[i] # Header => c[i][1] \in 1 .. n /\ kept[c[i][1]] /\ c[i][2] >= ident[c[i][1]]
    <2>1. /\ c[i] = Header => i = 1
          /\ c[i] # Header => c[i][1] \in 1 .. (n - 1) /\ kept[c[i][1]] /\ c[i][2] >= ident[c[i][1]]
        BY <1>2 DEF JoinedBefore
    <2>2. 1 .. (n - 1) \subseteq 1 .. n
        BY <1>1
    <2> QED BY <2>1, <2>2
<1>3. ASSUME NEW f \in 1 .. n, kept[f] PROVE \E i \in DOMAIN c : c[i][1] = f
    <2>1. f # n
        BY <1>3
    <2>2. f \in 1 .. (n - 1)
        BY <1>1, <2>1
    <2> QED BY <1>3, <2>2, Zenon DEF JoinedBefore
<1>4. \A i, j \in DOMAIN c : i < j /\ c[i] # Header => c[i][1] < c[j][1]
    BY DEF JoinedBefore
<1>5. format = "csv" /\ kept[1] => c # <<>> /\ c[1] = Header
    BY <1>1 DEF JoinedBefore
<1> QED BY <1>1, <1>2, <1>3, <1>4, <1>5 DEF JoinedBefore

(* An input with rows adds its row behind those of earlier inputs; only the *)
(* first CSV part brings a header.                                          *)
LEMMA JoinRow ==
    ASSUME NEW n \in Files, NEW ident, NEW c, NEW x \in Nat \X Nat,
           JoinedBefore(c, n, ident, kept, format), kept[n],
           kept \in [Files -> BOOLEAN], format \in {"csv", "parquet"},
           x[1] = n, x[2] >= ident[n], ~(format = "csv" /\ n = 1)
    PROVE  JoinedBefore(c \o <<x>>, n + 1, ident, kept, format)
<1> DEFINE d == c \o <<x>>
<1>1. /\ c \in Seq(Nat \X Nat) /\ n \in Nat \ {0} /\ n + 1 # 1 /\ (n + 1) - 1 = n /\ NumFiles \in Nat
      /\ x = <<n, x[2]>> /\ x # Header
    BY InputsAssumption DEF JoinedBefore, Header, Files
<1>2. /\ d \in Seq(Nat \X Nat) /\ DOMAIN d = 1 .. (Len(c) + 1) /\ DOMAIN c = 1 .. Len(c) /\ Len(c) \in Nat
      /\ \A i \in 1 .. Len(c) : d[i] = c[i]
      /\ d[Len(c) + 1] = x
    BY <1>1
<1> HIDE DEF d
<1>3. ASSUME NEW i \in DOMAIN d
      PROVE  /\ d[i] = Header => i = 1
             /\ d[i] # Header => d[i][1] \in 1 .. n /\ kept[d[i][1]] /\ d[i][2] >= ident[d[i][1]]
    <2>1. CASE i \in DOMAIN c
        <3>1. /\ c[i] = Header => i = 1
              /\ c[i] # Header => c[i][1] \in 1 .. (n - 1) /\ kept[c[i][1]] /\ c[i][2] >= ident[c[i][1]]
            BY <2>1 DEF JoinedBefore
        <3>2. d[i] = c[i]
            BY <1>2, <2>1
        <3>3. 1 .. (n - 1) \subseteq 1 .. n
            BY <1>1
        <3> QED BY <3>1, <3>2, <3>3
    <2>2. CASE i = Len(c) + 1
        <3>1. d[i] = x /\ n \in 1 .. n
            BY <1>1, <1>2, <2>2
        <3> QED BY <1>1, <3>1
    <2> QED BY <1>2, <2>1, <2>2
<1>4. ASSUME NEW f \in 1 .. n, kept[f] PROVE \E i \in DOMAIN d : d[i][1] = f
    <2>1. CASE f = n
        <3>1. Len(c) + 1 \in DOMAIN d
            BY <1>2
        <3> QED BY <1>2, <2>1, <3>1
    <2>2. CASE f # n
        <3>1. f \in 1 .. (n - 1)
            BY <1>1, <2>2
        <3>2. PICK i \in DOMAIN c : c[i][1] = f
            BY <1>4, <3>1, Zenon DEF JoinedBefore
        <3>3. i \in DOMAIN d /\ d[i] = c[i]
            BY <1>2
        <3> QED BY <3>2, <3>3
    <2> QED BY <2>1, <2>2
<1>5. ASSUME NEW i \in DOMAIN d, NEW j \in DOMAIN d, i < j, d[i] # Header PROVE d[i][1] < d[j][1]
    <2>1. i \in DOMAIN c
        BY <1>2, <1>5
    <2>4. c[i] = d[i] /\ c[i] # Header
        BY <1>2, <1>5, <2>1
    <2>2. CASE j \in DOMAIN c
        <3>1. c[i][1] < c[j][1]
            BY <1>5, <2>1, <2>2, <2>4 DEF JoinedBefore
        <3> QED BY <1>2, <2>2, <2>4, <3>1
    <2>3. CASE j = Len(c) + 1
        <3>1. c[i][1] \in 1 .. (n - 1)
            BY <2>1, <2>4 DEF JoinedBefore
        <3>2. d[j] = x
            BY <1>2, <2>3
        <3> QED BY <1>1, <2>4, <3>1, <3>2
    <2> QED BY <1>2, <2>2, <2>3
<1>6. format = "csv" /\ kept[1] => d # <<>> /\ d[1] = Header
    <2> SUFFICES ASSUME format = "csv", kept[1] PROVE d # <<>> /\ d[1] = Header
        OBVIOUS
    <2>1. c # <<>> /\ c[1] = Header
        BY <1>1 DEF JoinedBefore
    <2>2. 1 \in 1 .. Len(c) /\ d # <<>>
        BY <1>1, <1>2, <2>1
    <2> QED BY <1>2, <2>1, <2>2
<1>7. JoinedBefore(d, n + 1, ident, kept, format)
    BY <1>1, <1>2, <1>3, <1>4, <1>5, <1>6 DEF JoinedBefore
<1> QED BY <1>7 DEF d

(* The first CSV part is taken over whole.                                  *)
LEMMA JoinFirst ==
    ASSUME NEW ident, NEW x \in Nat \X Nat, kept[1], kept \in [Files -> BOOLEAN], x[1] = 1, x[2] >= ident[1]
    PROVE  JoinedBefore(<<Header, x>>, 2, ident, kept, format)
<1>1. Header \in Nat \X Nat /\ x # Header /\ Header = <<0, 1>>
    BY DEF Header
<1> HIDE DEF Header
<1>2. <<Header, x>> \in Seq(Nat \X Nat) /\ DOMAIN <<Header, x>> = {1, 2} /\ <<Header, x>> # <<>>
    BY <1>1
<1> QED BY <1>1, <1>2 DEF JoinedBefore

(* Sequences of one and of two elements.                                    *)
LEMMA ShortSequences ==
    ASSUME NEW p \in Seq(Nat \X Nat)
    PROVE  /\ Len(p) = 1 => p = <<p[1]>> /\ DOMAIN p = {1} /\ p[1] \in Nat \X Nat
           /\ Len(p) = 2 => /\ p = <<p[1], p[2]>> /\ DOMAIN p = {1, 2} /\ Tail(p) = <<p[2]>>
                            /\ p[1] \in Nat \X Nat /\ p[2] \in Nat \X Nat
<1>1. ASSUME Len(p) = 1 PROVE p = <<p[1]>> /\ DOMAIN p = {1} /\ p[1] \in Nat \X Nat
    <2>1. DOMAIN p = {1} /\ p[1] \in Nat \X Nat
        <3>1. DOMAIN p = 1 .. 1
            BY <1>1, LenProperties
        <3>2. 1 .. 1 = {1}
            OBVIOUS
        <3> QED BY <1>1, <3>1, <3>2, ElementOfSeq
    <2>2. <<p[1]>> \in Seq(Nat \X Nat) /\ Len(<<p[1]>>) = 1
        BY <2>1
    <2>3. p = <<p[1]>>
        BY <1>1, <2>2, SeqEqual
    <2> QED BY <2>1, <2>3
<1>2. ASSUME Len(p) = 2
      PROVE  /\ p = <<p[1], p[2]>> /\ DOMAIN p = {1, 2} /\ Tail(p) = <<p[2]>>
             /\ p[1] \in Nat \X Nat /\ p[2] \in Nat \X Nat
    <2>1. DOMAIN p = {1, 2} /\ p[1] \in Nat \X Nat /\ p[2] \in Nat \X Nat
        <3>1. DOMAIN p = 1 .. 2
            BY <1>2, LenProperties
        <3>2. 1 .. 2 = {1, 2}
            OBVIOUS
        <3> QED BY <1>2, <3>1, <3>2, ElementOfSeq
    <2>2. <<p[1], p[2]>> \in Seq(Nat \X Nat) /\ Len(<<p[1], p[2]>>) = 2
        BY <2>1
    <2>3. p = <<p[1], p[2]>>
        BY <1>2, <2>2, SeqEqual
    <2> DEFINE t == Tail(p)
    <2>4. t \in Seq(Nat \X Nat) /\ Len(t) = Len(p) - 1 /\ \A i \in 1 .. Len(t) : t[i] = p[i + 1]
        <3>1. p # <<>>
            <4>1. Len(<<>>) # 2
                OBVIOUS
            <4> QED BY <1>2, <4>1, Zenon
        <3> QED BY <3>1, HeadTailProperties, Zenon
    <2> HIDE DEF t
    <2>5. Len(t) = 1 /\ t[1] = p[2]
        BY <1>2, <2>4
    <2>6. Tail(p) = <<p[2]>>
        <3>1. <<p[2]>> \in Seq(Nat \X Nat) /\ Len(<<p[2]>>) = 1
            BY <2>1
        <3>2. \A i \in 1 .. Len(t) : t[i] = <<p[2]>>[i]
            BY <2>5
        <3>3. t = <<p[2]>>
            BY <2>4, <2>5, <3>1, <3>2, SeqEqual
        <3> QED BY <3>3 DEF t
    <2> QED BY <2>1, <2>3, <2>6
<1> QED BY <1>1, <1>2

(* Files are converted in their order: the next one is the first after the  *)
(* processed ones.                                                          *)
LEMMA NextTodo ==
    ASSUME NEW k \in 0 .. NumFiles, mem.done = 1 .. k, Todo # {}
    PROVE  k + 1 \in Files /\ Min(Todo) = k + 1 /\ Todo = (k + 1) .. NumFiles
<1>1. NumFiles \in Nat /\ Todo = (1 .. NumFiles) \ (1 .. k)
    BY InputsAssumption DEF Files, Todo
<1>2. Todo = (k + 1) .. NumFiles
    BY <1>1
<1>3. k + 1 \in Files
    BY <1>1, <1>2 DEF Files
<1>4. k + 1 \in Todo /\ \A y \in Todo : k + 1 <= y
    BY <1>1, <1>2, <1>3 DEF Files
<1>5. \A x \in Todo : (\A y \in Todo : x <= y) => x = k + 1
    BY <1>1, <1>2, <1>4
<1>6. Min(Todo) = k + 1
    BY <1>4, <1>5 DEF Min
<1> QED BY <1>2, <1>3, <1>6

(* The part that is written for an input.                                   *)
LEMMA PartIsWritten ==
    ASSUME kept \in [Files -> BOOLEAN], version \in [Files -> Nat], format \in {"csv", "parquet"},
           NEW f \in Files, NEW low \in Nat, low <= version[f]
    PROVE  PartHolds(PartOf(f), f, low, kept, format)
<1>1. kept[f] \in BOOLEAN /\ f \in Nat /\ version[f] \in Nat /\ Header \in Nat \X Nat
    BY InputsAssumption DEF Files, Header
<1> HIDE DEF Header
<1>2. CASE ~kept[f]
    BY <1>1, <1>2 DEF PartOf, PartHolds
<1>3. CASE kept[f] /\ format = "csv"
    <2> DEFINE r == <<f, version[f]>>
    <2>1. PartOf(f) = <<Header>> \o <<r>> /\ r \in Nat \X Nat
        BY <1>1, <1>3 DEF PartOf
    <2>2. <<Header>> \in Seq(Nat \X Nat) /\ <<r>> \in Seq(Nat \X Nat)
        BY <1>1, <2>1
    <2>3. /\ PartOf(f) \in Seq(Nat \X Nat) /\ Len(PartOf(f)) = 2
          /\ PartOf(f)[1] = Header /\ PartOf(f)[2] = r
        BY <2>1, <2>2, ConcatProperties
    <2> QED BY <1>1, <1>3, <2>1, <2>3 DEF PartHolds
<1>4. CASE kept[f] /\ format = "parquet"
    <2>1. PartOf(f) = << <<f, version[f]>> >>
        BY <1>1, <1>4 DEF PartOf
    <2> QED BY <1>1, <1>4, <2>1 DEF PartHolds
<1> QED BY <1>1, <1>2, <1>3, <1>4

(* Parts are no gap in the staging directory.                               *)
LEMMA PartIsThere ==
    ASSUME NEW part, NEW f, NEW low, PartHolds(part, f, low, kept, format)
    PROVE  part # None
BY InputsAssumption DEF PartHolds

(* One turn of the loop over all parts adds the rows of one input.          *)
LEMMA TurnAddsPart ==
    ASSUME ResumableTypes, NEW s \in Checkpoints, s.done = Files,
           PartsAreGood(staging, s, kept, format), NEW n \in Files, NEW c, JoinedBefore(c, n, s.ident, kept, format)
    PROVE  JoinedBefore(Joined(n, c), n + 1, s.ident, kept, format)
<1>1. /\ n \in Nat /\ kept[n] \in BOOLEAN /\ kept \in [Files -> BOOLEAN] /\ format \in {"csv", "parquet"}
      /\ staging \in Stagings /\ c \in Seq(Nat \X Nat)
    BY InputsAssumption DEF Files, ResumableTypes, PartsAreGood, JoinedBefore
<1>2. HasPart(n) => PartHolds(staging[n], n, s.ident[n], kept, format) /\ staging[n] # None
    BY PartIsThere DEF PartsAreGood, HasPart
<1>3. ~HasPart(n) => staging[n] = None
    BY DEF PartsAreGood, HasPart
<1>4. CASE ~kept[n]
    <2>1. Joined(n, c) = c
        <3>1. CASE staging[n] = None
            BY <3>1 DEF Joined
        <3>2. CASE staging[n] # None
            <4>1. staging[n] = <<>> /\ Body(staging[n]) = <<>>
                BY <1>2, <1>3, <1>4, <3>2 DEF PartHolds, Body
            <4>2. c \o <<>> = c
                BY <1>1, ConcatEmptySeq
            <4> QED BY <3>2, <4>1, <4>2 DEF Joined
        <3> QED BY <3>1, <3>2
    <2>2. JoinedBefore(c, n + 1, s.ident, kept, format)
        BY <1>1, <1>4, JoinNothing
    <2> QED BY <2>1, <2>2
<1>5. CASE kept[n]
    <2> DEFINE p == staging[n]
               x == p[Len(p)]
    <2>1. p \in Seq(Nat \X Nat) /\ p # None /\ PartHolds(p, n, s.ident[n], kept, format)
        BY <1>2, <1>5 DEF HasPart, PartHolds
    <2>2. x \in Nat \X Nat /\ x[1] = n /\ x[2] >= s.ident[n]
        BY <1>1, <1>5, <2>1 DEF PartHolds
    <2>3. CASE format = "parquet"
        <3>1. p = <<x>>
            BY <1>5, <2>1, <2>3, ShortSequences DEF PartHolds
        <3>2. Joined(n, c) = c \o p
            BY <2>1, <2>3 DEF Joined
        <3>3. JoinedBefore(c \o <<x>>, n + 1, s.ident, kept, format)
            BY <1>1, <1>5, <2>2, <2>3, JoinRow
        <3> QED BY <3>1, <3>2, <3>3
    <2>4. CASE format = "csv"
        <3>1. p = <<Header, x>> /\ Body(p) = <<x>>
            <4>1. Len(p) = 2 /\ p[1] = Header /\ p # <<>>
                BY <1>5, <2>1, <2>4 DEF PartHolds
            <4> QED BY <2>1, <4>1, ShortSequences DEF Body
        <3>2. Staged = Files
            <4>1. \A g \in Files : staging[g] # None
                BY <2>4, PartIsThere DEF PartsAreGood, HasPart
            <4> QED BY <4>1 DEF Staged
        <3>3. CASE n = 1
            <4>1. c = <<>> /\ \A g \in Staged : g >= n
                BY <3>2, <3>3, InputsAssumption DEF JoinedBefore, Files
            <4>2. Joined(n, c) = c \o p
                BY <2>1, <4>1 DEF Joined
            <4>3. c \o p = p
                BY <2>1, <4>1, ConcatEmptySeq
            <4>4. JoinedBefore(<<Header, x>>, 2, s.ident, kept, format)
                BY <1>1, <1>5, <2>2, <3>3, JoinFirst
            <4> QED BY <3>1, <3>3, <4>2, <4>3, <4>4
        <3>4. CASE n # 1
            <4>1. 1 \in Staged /\ ~(1 >= n)
                BY <3>2, <3>4, InputsAssumption DEF Files
            <4>2. Joined(n, c) = c \o <<x>>
                BY <2>1, <2>4, <3>1, <4>1 DEF Joined
            <4>3. JoinedBefore(c \o <<x>>, n + 1, s.ident, kept, format)
                BY <1>1, <1>5, <2>2, <3>4, JoinRow
            <4> QED BY <4>2, <4>3
        <3> QED BY <3>3, <3>4
    <2> QED BY <1>1, <2>3, <2>4
<1> QED BY <1>1, <1>4, <1>5

(* A part that is the only one holds what joining would have given.         *)
LEMMA OnlyPartIsWhole ==
    ASSUME ResumableTypes, NEW s \in Checkpoints, s.done = Files,
           PartsAreGood(staging, s, kept, format), NEW f \in Files, Staged = {f}
    PROVE  JoinedBefore(staging[f], NumFiles + 1, s.ident, kept, format)
<1> DEFINE p == staging[f]
           x == p[Len(p)]
<1>1. /\ f \in Nat \ {0} /\ NumFiles \in Nat \ {0} /\ kept \in [Files -> BOOLEAN] /\ format \in {"csv", "parquet"}
      /\ staging \in Stagings /\ p # None /\ (NumFiles + 1) - 1 = NumFiles /\ NumFiles + 1 # 1
    BY InputsAssumption DEF Files, ResumableTypes, PartsAreGood, Staged
<1>2. HasPart(f) /\ PartHolds(p, f, s.ident[f], kept, format)
    BY <1>1 DEF PartsAreGood, HasPart
<1>3. \A g \in Files : HasPart(g) => g = f
    BY PartIsThere DEF PartsAreGood, Staged, HasPart
<1>4. \A g \in Files : kept[g] => g = f
    BY <1>3 DEF HasPart
<1>5. format = "csv" => f = 1
    BY <1>1, <1>3 DEF HasPart, Files
<1>6. CASE ~kept[f]
    <2>1. p = <<>> /\ \A g \in Files : ~kept[g]
        BY <1>1, <1>2, <1>4, <1>6 DEF PartHolds
    <2> QED BY <1>1, <2>1 DEF JoinedBefore, Files
<1>7. CASE kept[f]
    <2>1. /\ p \in Seq(Nat \X Nat) /\ x \in Nat \X Nat /\ x[1] = f /\ x[2] >= s.ident[f] /\ x # Header
          /\ f \in 1 .. NumFiles
        BY <1>1, <1>2, <1>7 DEF PartHolds, Header, Files
    <2>2. CASE format = "parquet"
        <3>1. Len(p) = 1 /\ DOMAIN p = {1} /\ p[1] = x /\ p # <<>>
            BY <1>2, <1>7, <2>1, <2>2, ShortSequences DEF PartHolds
        <3> HIDE DEF p, x
        <3>2. \A g \in 1 .. NumFiles : kept[g] => \E i \in DOMAIN p : p[i][1] = g
            BY <1>4, <2>1, <3>1 DEF Files
        <3>3. \A i \in DOMAIN p :
                /\ p[i] = Header => i = 1
                /\ p[i] # Header => p[i][1] \in 1 .. NumFiles /\ kept[p[i][1]] /\ p[i][2] >= s.ident[p[i][1]]
            BY <1>7, <2>1, <3>1
        <3>4. \A i, j \in DOMAIN p : ~(i < j)
            BY <3>1
        <3>5. JoinedBefore(p, NumFiles + 1, s.ident, kept, format)
            BY <1>1, <2>1, <2>2, <3>2, <3>3, <3>4 DEF JoinedBefore
        <3> QED BY <3>5 DEF p
    <2>3. CASE format = "csv"
        <3>1. Len(p) = 2 /\ DOMAIN p = {1, 2} /\ p[1] = Header /\ p[2] = x /\ p # <<>>
            BY <1>2, <1>7, <2>1, <2>3, ShortSequences DEF PartHolds
        <3> HIDE DEF p, x
        <3>2. \A g \in 1 .. NumFiles : kept[g] => \E i \in DOMAIN p : p[i][1] = g
            BY <1>4, <2>1, <3>1 DEF Files
        <3>3. \A i \in DOMAIN p :
                /\ p[i] = Header => i = 1
                /\ p[i] # Header => p[i][1] \in 1 .. NumFiles /\ kept[p[i][1]] /\ p[i][2] >= s.ident[p[i][1]]
            BY <1>7, <2>1, <3>1
        <3>4. \A i, j \in DOMAIN p : i < j => p[i] = Header
            BY <3>1
        <3>5. JoinedBefore(p, NumFiles + 1, s.ident, kept, format)
            BY <1>1, <2>1, <3>1, <3>2, <3>3, <3>4 DEF JoinedBefore
        <3> QED BY <3>5 DEF p
    <2> QED BY <1>1, <2>2, <2>3
<1> QED BY <1>1, <1>6, <1>7

(* Making the staging directory puts nothing into it.                       *)
LEMMA StagingIsEnsured ==
    ASSUME ResumableTypes, EnsureStaging
    PROVE  /\ staging' \in Stagings /\ staging' # None
           /\ staging # None => staging' = staging
           /\ staging = None => staging' = NoParts
           /\ \A f \in Files : staging'[f] # None => staging # None /\ staging[f] # None
<1>1. NoParts \in Stagings /\ \A f \in Files : NoParts[f] = None
    BY DEF NoParts, Stagings
<1>2. CASE staging = None
    BY <1>1, <1>2, CheckpointAssumption DEF EnsureStaging
<1>3. CASE staging # None
    BY <1>3 DEF EnsureStaging, ResumableTypes
<1> QED BY <1>2, <1>3

(* A new start keeps the invariant: it leaves the checkpoint alone.         *)
LEMMA StartKeeps ==
    ASSUME CheckpointInv, StartFresh, UNCHANGED inputVars
    PROVE  CheckpointInv'
<1> USE DEF CheckpointInv
<1>1. /\ step = "idle" /\ step' = "fresh" /\ mem' = NewState(None) /\ (staging' = None \/ UNCHANGED staging)
      /\ UNCHANGED <<format, version, holds, ckpt, output, joining, spoilt, kept>>
    BY DEF StartFresh, inputVars
<1>2. /\ mem' \in Checkpoints /\ mem'.ident = version /\ mem'.done = {} /\ mem'.committed = FALSE
    BY <1>1 DEF NewState, Checkpoints, ResumableTypes
<1>3. ResumableTypes'
    BY <1>1, <1>2 DEF ResumableTypes
<1>4. Recorded(mem', version')
    <2>1. mem'.done = 1 .. 0 /\ 0 \in 0 .. NumFiles
        BY <1>2, InputsAssumption
    <2>2. \A f \in Files : version[f] <= version'[f]
        BY <1>1 DEF ResumableTypes
    <2> QED BY <1>2, <2>1, <2>2 DEF Recorded
<1>5. RecordsAreTrue'
    BY <1>1, <1>4 DEF RecordsAreTrue, HasPart
<1>6. MemoryIsCheckpoint' /\ PartsAreKept' /\ JoinIsWhole'
    BY <1>1 DEF MemoryIsCheckpoint, PartsAreKept, JoinIsWhole
<1>7. CommitIsWhole'
    BY <1>1, <1>2 DEF CommitIsWhole, IsComplete
<1> QED BY <1>3, <1>5, <1>6, <1>7

(* The new checkpoint promises nothing yet.                                 *)
LEMMA SaveFreshKeeps ==
    ASSUME CheckpointInv, SaveFresh, UNCHANGED inputVars
    PROVE  CheckpointInv'
<1> USE DEF CheckpointInv
<1>1. /\ step = "fresh" /\ step' = "parts" /\ mem' = [mem EXCEPT !.files = version] /\ ckpt' = mem' /\ EnsureStaging
      /\ UNCHANGED <<format, version, holds, output, joining, kept>> /\ spoilt' = FALSE
    BY DEF SaveFresh, inputVars
<1>2. mem \in Checkpoints /\ mem.done = {} /\ ~mem.committed /\ Recorded(mem, version)
    BY <1>1 DEF ResumableTypes, CommitIsWhole, RecordsAreTrue
<1>3. /\ mem' \in Checkpoints /\ mem'.ident = mem.ident /\ mem'.done = {} /\ ~mem'.committed
      /\ ckpt' # None
    BY <1>1, <1>2, CheckpointAssumption DEF Checkpoints, ResumableTypes
<1>4. /\ staging' \in Stagings /\ staging' # None
      /\ \A f \in Files : staging'[f] # None => staging # None /\ staging[f] # None
    BY <1>1, StagingIsEnsured
<1>5. ResumableTypes'
    BY <1>1, <1>3, <1>4 DEF ResumableTypes
<1>6. Recorded(mem', version')
    BY <1>1, <1>2, <1>3 DEF Recorded
<1>7. RecordsAreTrue'
    BY <1>1, <1>4, <1>6 DEF RecordsAreTrue, HasPart
<1>8. MemoryIsCheckpoint'
    BY <1>1, <1>3, <1>4 DEF MemoryIsCheckpoint
<1>9. PartsAreGood(staging', ckpt', kept', format')
    BY <1>1, <1>3, <1>4 DEF PartsAreGood
<1>10. PartsAreKept' /\ JoinIsWhole' /\ CommitIsWhole'
    BY <1>1, <1>3, <1>9 DEF PartsAreKept, JoinIsWhole, CommitIsWhole
<1> QED BY <1>5, <1>7, <1>8, <1>10

(* A resume finds the parts that its checkpoint calls processed.            *)
LEMMA ResumeKeeps ==
    ASSUME CheckpointInv, Resume, UNCHANGED inputVars
    PROVE  CheckpointInv'
<1> USE DEF CheckpointInv
<1>1. /\ step = "idle" /\ step' = "parts" /\ ckpt # None /\ mem' = ckpt /\ EnsureStaging
      /\ ~(ckpt.committed /\ IsComplete(ckpt) /\ output # None)
      /\ UNCHANGED <<format, version, holds, ckpt, output, joining, spoilt, kept>>
    BY DEF Resume, inputVars
<1>2. ckpt \in Checkpoints /\ ~ckpt.committed
    BY <1>1 DEF ResumableTypes, CommitIsWhole
<1>3. /\ staging' \in Stagings /\ staging' # None /\ (staging # None => staging' = staging)
      /\ \A f \in Files : staging'[f] # None => staging # None /\ staging[f] # None
    BY <1>1, StagingIsEnsured
<1>4. ResumableTypes'
    BY <1>1, <1>2, <1>3 DEF ResumableTypes
<1>5. RecordsAreTrue'
    BY <1>1, <1>3 DEF RecordsAreTrue, HasPart
<1>6. MemoryIsCheckpoint'
    BY <1>1, <1>3 DEF MemoryIsCheckpoint
<1>7. PartsAreKept'
    <2> SUFFICES ASSUME ~spoilt
                 PROVE  PartsAreGood(staging', ckpt', kept', format') \/ (IsComplete(ckpt)' /\ staging' = NoParts)
        BY <1>1 DEF PartsAreKept, NoParts
    <2>1. PartsAreGood(staging, ckpt, kept, format) \/ (IsComplete(ckpt) /\ staging = NoParts)
        BY <1>1, <1>2 DEF PartsAreKept
    <2>2. staging # None
        <3>1. NoParts # None
            BY CheckpointAssumption DEF NoParts, Stagings
        <3> QED BY <2>1, <3>1 DEF PartsAreGood
    <2> QED BY <1>1, <1>3, <2>1, <2>2 DEF IsComplete
<1>8. JoinIsWhole' /\ CommitIsWhole'
    BY <1>1, <1>2 DEF JoinIsWhole, CommitIsWhole
<1> QED BY <1>4, <1>5, <1>6, <1>7, <1>8

(* The part of another input may change.                                    *)
LEMMA OtherPartsStay ==
    ASSUME NEW dir \in Stagings, NEW s, NEW f \in Files, NEW part \in Seq(Nat \X Nat) \cup {None}, NEW has, NEW fmt,
           NEW later, s.done \subseteq Files, f \notin s.done, PartsAreGood(dir, s, has, fmt),
           \A g \in s.done : later[g] = has[g]
    PROVE  PartsAreGood([dir EXCEPT ![f] = part], s, later, fmt)
<1> DEFINE new == [dir EXCEPT ![f] = part]
<1>1. new \in Stagings /\ \A g \in s.done : new[g] = dir[g]
    BY DEF Stagings
<1>2. new # None
    BY <1>1, CheckpointAssumption
<1> HIDE DEF new
<1>3. PartsAreGood(new, s, later, fmt)
    BY <1>1, <1>2 DEF PartsAreGood, PartHolds
<1> QED BY <1>3 DEF new

(* Beginning a part only touches an input that no checkpoint calls          *)
(* processed.                                                               *)
LEMMA BeginPartKeeps ==
    ASSUME CheckpointInv, BeginPart, UNCHANGED inputVars
    PROVE  CheckpointInv'
<1> USE DEF CheckpointInv
<1> DEFINE f == Min(Todo)
           part == IF format = "csv" \/ holds[f] THEN <<Torn>> ELSE staging[f]
<1>1. /\ step = "parts" /\ Todo # {} /\ step' = "writing" /\ staging' = [staging EXCEPT ![f] = part]
      /\ kept' = [kept EXCEPT ![f] = holds[f]]
      /\ UNCHANGED <<format, version, holds, ckpt, output, mem, joining, spoilt>>
    BY DEF BeginPart, inputVars
<1>2. mem \in Checkpoints /\ mem = ckpt /\ ckpt # None /\ staging \in Stagings /\ Recorded(mem, version)
    BY <1>1 DEF ResumableTypes, MemoryIsCheckpoint, RecordsAreTrue
<1>3. PICK k \in 0 .. NumFiles : mem.done = 1 .. k
    BY <1>2 DEF Recorded
<1>4. f \in Files /\ f \notin mem.done /\ mem.done \subseteq Files
    <2>1. k + 1 \in Files /\ Min(Todo) = k + 1 /\ Todo = (k + 1) .. NumFiles
        BY <1>1, <1>3, NextTodo
    <2>2. f \in Todo
        BY <2>1 DEF Files
    <2> QED BY <1>2, <2>1, <2>2 DEF Todo, Checkpoints
<1>5. part \in Seq(Nat \X Nat) \cup {None}
    BY <1>2, <1>4 DEF Stagings, Torn
<1> HIDE DEF f
<1>6. staging' \in Stagings /\ staging'[f] = part /\ \A g \in Files : g # f => staging'[g] = staging[g]
    BY <1>1, <1>2, <1>4, <1>5 DEF Stagings
<1>7. staging' # None
    BY <1>6, CheckpointAssumption
<1>13. kept' \in [Files -> BOOLEAN] /\ \A g \in mem.done : kept'[g] = kept[g]
    BY <1>1, <1>4 DEF ResumableTypes
<1>8. ResumableTypes'
    BY <1>1, <1>2, <1>6, <1>13 DEF ResumableTypes
<1>9. RecordsAreTrue'
    BY <1>1 DEF RecordsAreTrue
<1>10. MemoryIsCheckpoint'
    BY <1>1, <1>2, <1>7 DEF MemoryIsCheckpoint, Todo
<1>11. PartsAreKept'
    <2> SUFFICES ASSUME ~spoilt, ~ckpt.committed PROVE PartsAreGood(staging', ckpt', kept', format')
        BY <1>1 DEF PartsAreKept
    <2>1. ~IsComplete(ckpt)
        BY <1>1, <1>2 DEF IsComplete, Todo
    <2>2. PartsAreGood(staging, ckpt, kept, format)
        BY <1>1, <1>2, <2>1 DEF PartsAreKept
    <2> HIDE DEF part
    <2>3. PartsAreGood([staging EXCEPT ![f] = part], ckpt, kept', format)
        BY <1>2, <1>4, <1>5, <1>13, <2>2, OtherPartsStay
    <2> QED BY <1>1, <2>3
<1>12. JoinIsWhole' /\ CommitIsWhole'
    BY <1>1, <1>2 DEF JoinIsWhole, CommitIsWhole
<1> QED BY <1>8, <1>9, <1>10, <1>11, <1>12

(* A finished part is good before the file counts as processed.             *)
LEMMA FinishPartKeeps ==
    ASSUME CheckpointInv, FinishPart, UNCHANGED inputVars
    PROVE  CheckpointInv'
<1> USE DEF CheckpointInv
<1> DEFINE f == Min(Todo)
           part == IF HasPart(f) THEN PartOf(f) ELSE staging[f]
<1>1. /\ step = "writing" /\ Todo # {} /\ step' = "saving" /\ staging' = [staging EXCEPT ![f] = part]
      /\ mem' = [mem EXCEPT !.done = @ \cup {f}]
      /\ spoilt' = (spoilt \/ (~HasPart(f) /\ staging[f] # None))
      /\ UNCHANGED <<format, version, holds, ckpt, output, joining, kept>>
    BY DEF FinishPart, inputVars, MemoryIsCheckpoint
<1>2. mem \in Checkpoints /\ mem = ckpt /\ ckpt # None /\ staging \in Stagings /\ Recorded(mem, version)
    BY <1>1 DEF ResumableTypes, MemoryIsCheckpoint, RecordsAreTrue
<1>3. PICK k \in 0 .. NumFiles : mem.done = 1 .. k
    BY <1>2 DEF Recorded
<1>4. f = k + 1 /\ f \in Files /\ f \notin mem.done /\ mem.done \subseteq Files
    <2>1. k + 1 \in Files /\ Min(Todo) = k + 1 /\ Todo = (k + 1) .. NumFiles
        BY <1>1, <1>3, NextTodo
    <2>2. f \in Todo
        BY <2>1 DEF Files
    <2> QED BY <1>2, <2>1, <2>2 DEF Todo, Checkpoints
<1>5. HasPart(f) => PartHolds(part, f, mem.ident[f], kept, format)
    <2>1. mem.ident[f] \in Nat /\ mem.ident[f] <= version[f]
        BY <1>2, <1>4 DEF Recorded, Checkpoints
    <2> QED BY <1>4, <2>1, PartIsWritten DEF ResumableTypes
<1>6. part \in Seq(Nat \X Nat) \cup {None}
    BY <1>2, <1>4, <1>5 DEF Stagings, PartHolds
<1> HIDE DEF f
<1>16. spoilt' \in BOOLEAN /\ (~spoilt' => ~spoilt /\ (HasPart(f) \/ part = None))
    BY <1>1, Zenon
<1> HIDE DEF part
<1>7. staging' \in Stagings /\ staging'[f] = part /\ \A g \in Files : g # f => staging'[g] = staging[g]
    BY <1>1, <1>2, <1>4, <1>6 DEF Stagings
<1>8. staging' # None /\ staging # None
    BY <1>2, <1>7, CheckpointAssumption
<1>9. /\ mem' \in Checkpoints /\ mem'.ident = mem.ident /\ mem'.committed = mem.committed
      /\ mem'.done = mem.done \cup {f}
    BY <1>1, <1>2, <1>4 DEF Checkpoints
<1>10. ResumableTypes'
    BY <1>1, <1>2, <1>7, <1>9, <1>16 DEF ResumableTypes
<1>11. Recorded(mem', version')
    <2>1. mem'.done = 1 .. (k + 1) /\ k + 1 \in 0 .. NumFiles
        BY <1>3, <1>4, <1>9, InputsAssumption DEF Files
    <2> QED BY <1>1, <1>2, <1>9, <2>1 DEF Recorded
<1>12. RecordsAreTrue'
    BY <1>1, <1>2, <1>11 DEF RecordsAreTrue
<1>13. MemoryIsCheckpoint'
    BY <1>1, <1>2, <1>8, <1>9 DEF MemoryIsCheckpoint
<1>14. PartsAreKept'
    <2>1. ckpt.committed = FALSE
        BY <1>1, <1>2 DEF CommitIsWhole, Checkpoints
    <2> SUFFICES ASSUME ~spoilt'
                 PROVE  PartsAreGood(staging', ckpt', kept', format') /\ PartsAreGood(staging', mem', kept', format')
        BY <1>1 DEF PartsAreKept
    <2>2. ~IsComplete(ckpt)
        BY <1>1, <1>2 DEF IsComplete, Todo
    <2>3. PartsAreGood(staging, ckpt, kept, format)
        BY <1>1, <1>2, <1>16, <2>1, <2>2 DEF PartsAreKept
    <2>4. PartsAreGood([staging EXCEPT ![f] = part], ckpt, kept, format)
        BY <1>2, <1>4, <1>6, <2>3, OtherPartsStay
    <2>5. PartsAreGood(staging', ckpt', kept', format')
        BY <1>1, <2>4
    <2>6. PartsAreGood(staging', mem', kept', format')
        <3> SUFFICES ASSUME NEW g \in mem'.done
                     PROVE  /\ format = "csv" \/ kept[g] => PartHolds(staging'[g], g, mem'.ident[g], kept, format)
                            /\ ~(format = "csv" \/ kept[g]) => staging'[g] = None
            BY <1>1, <1>8 DEF PartsAreGood
        <3>1. CASE g = f
            BY <1>5, <1>7, <1>9, <1>16, <3>1 DEF HasPart
        <3>2. CASE g # f
            BY <1>1, <1>2, <1>9, <2>5, <3>2 DEF PartsAreGood
        <3> QED BY <3>1, <3>2
    <2> QED BY <2>5, <2>6
<1>15. JoinIsWhole' /\ CommitIsWhole'
    BY <1>1, <1>2 DEF JoinIsWhole, CommitIsWhole
<1> QED BY <1>10, <1>12, <1>13, <1>14, <1>15

(* The checkpoint follows the part.                                         *)
LEMMA SaveProgressKeeps ==
    ASSUME CheckpointInv, SaveProgress, UNCHANGED inputVars
    PROVE  CheckpointInv'
<1> USE DEF CheckpointInv
<1>1. /\ step = "saving" /\ ckpt' = mem /\ step' = "parts"
      /\ UNCHANGED <<format, version, holds, staging, output, mem, joining, spoilt, kept>>
    BY DEF SaveProgress, inputVars
<1>2. /\ mem \in Checkpoints /\ mem # None /\ ckpt # None /\ staging # None
      /\ mem.committed = ckpt.committed /\ ~ckpt.committed
    BY <1>1, CheckpointAssumption DEF ResumableTypes, MemoryIsCheckpoint, CommitIsWhole
<1>3. ResumableTypes' /\ RecordsAreTrue' /\ MemoryIsCheckpoint'
    BY <1>1, <1>2 DEF ResumableTypes, RecordsAreTrue, MemoryIsCheckpoint, HasPart
<1>4. PartsAreKept' /\ JoinIsWhole' /\ CommitIsWhole'
    BY <1>1, <1>2 DEF PartsAreKept, JoinIsWhole, CommitIsWhole
<1> QED BY <1>3, <1>4

(* With all files processed and a part there, no rename came before.        *)
LEMMA PartsAreStillThere ==
    ASSUME CheckpointInv, step = "parts", IsComplete(mem), Staged # {}, ~spoilt
    PROVE  PartsAreGood(staging, mem, kept, format)
<1>1. mem = ckpt /\ ckpt # None /\ ~ckpt.committed
    BY DEF CheckpointInv, MemoryIsCheckpoint, CommitIsWhole
<1>2. staging # NoParts
    BY DEF Staged, NoParts
<1> QED BY <1>1, <1>2 DEF CheckpointInv, PartsAreKept

(* The only part becomes the output.                                        *)
LEMMA RenamePartKeeps ==
    ASSUME CheckpointInv, RenamePart, UNCHANGED inputVars
    PROVE  CheckpointInv'
<1> USE DEF CheckpointInv
<1>1. /\ step = "parts" /\ IsComplete(mem) /\ staging' = NoParts /\ step' = "commit"
      /\ UNCHANGED <<format, version, holds, ckpt, mem, joining, spoilt, kept>>
    BY DEF RenamePart, inputVars
<1>2. PICK f \in Files : Staged = {f} /\ output' = staging[f]
    BY DEF RenamePart
<1>3. mem \in Checkpoints /\ mem = ckpt /\ ckpt # None /\ ~ckpt.committed /\ staging # None
    BY <1>1 DEF ResumableTypes, MemoryIsCheckpoint, CommitIsWhole
<1>4. output' # None
    BY <1>2 DEF Staged
<1>5. ~spoilt => JoinedBefore(output', NumFiles + 1, mem.ident, kept, format)
    <2> SUFFICES ASSUME ~spoilt PROVE JoinedBefore(staging[f], NumFiles + 1, mem.ident, kept, format)
        BY <1>2
    <2>1. PartsAreGood(staging, mem, kept, format)
        BY <1>1, <1>2, PartsAreStillThere
    <2> QED BY <1>1, <1>2, <1>3, <2>1, OnlyPartIsWhole DEF IsComplete
<1>6. NoParts \in Stagings /\ NoParts # None /\ \A g \in Files : NoParts[g] = None
    BY CheckpointAssumption DEF NoParts, Stagings
<1>7. ResumableTypes' /\ RecordsAreTrue' /\ MemoryIsCheckpoint'
    BY <1>1, <1>3, <1>6 DEF ResumableTypes, RecordsAreTrue, MemoryIsCheckpoint, IsComplete
<1>8. PartsAreKept'
    BY <1>1, <1>3 DEF PartsAreKept, IsComplete, NoParts
<1>9. JoinIsWhole' /\ CommitIsWhole'
    BY <1>1, <1>3, <1>4, <1>5 DEF JoinIsWhole, CommitIsWhole
<1> QED BY <1>7, <1>8, <1>9

(* Joining begins with nothing.                                             *)
LEMMA TruncateKeeps ==
    ASSUME CheckpointInv, TruncateOutput, UNCHANGED inputVars
    PROVE  CheckpointInv'
<1> USE DEF CheckpointInv
<1>1. /\ step = "parts" /\ IsComplete(mem) /\ Staged # {} /\ joining' = [next |-> 1, content |-> <<>>]
      /\ step' = "joining" /\ UNCHANGED <<format, version, holds, ckpt, staging, mem, spoilt, kept>>
    BY DEF TruncateOutput, inputVars
<1>2. mem \in Checkpoints /\ mem = ckpt /\ ckpt # None /\ ~ckpt.committed /\ staging # None
    BY <1>1 DEF ResumableTypes, MemoryIsCheckpoint, CommitIsWhole
<1>3. ~spoilt => PartsAreGood(staging, mem, kept, format)
    BY <1>1, PartsAreStillThere
<1>4. JoinedBefore(<<>>, 1, mem.ident, kept, format)
    BY DEF JoinedBefore
<1>5. ResumableTypes' /\ RecordsAreTrue' /\ MemoryIsCheckpoint'
    BY <1>1, <1>2 DEF ResumableTypes, RecordsAreTrue, MemoryIsCheckpoint, IsComplete, HasPart
<1>6. PartsAreKept'
    BY <1>1, <1>2, <1>3 DEF PartsAreKept
<1>7. JoinIsWhole'
    BY <1>1, <1>4, InputsAssumption DEF JoinIsWhole
<1>8. CommitIsWhole'
    BY <1>1, <1>2 DEF CommitIsWhole
<1> QED BY <1>5, <1>6, <1>7, <1>8

(* Each turn of the loop adds the rows of one more input.                   *)
LEMMA JoinPartKeeps ==
    ASSUME CheckpointInv, JoinPart, UNCHANGED inputVars
    PROVE  CheckpointInv'
<1> USE DEF CheckpointInv
<1> DEFINE n == joining.next
           c == joining.content
<1>1. /\ step = "joining" /\ n <= NumFiles /\ joining' = [next |-> n + 1, content |-> Joined(n, c)]
      /\ UNCHANGED <<format, version, holds, ckpt, staging, output, step, mem, spoilt, kept>>
    BY DEF JoinPart, inputVars
<1>2. /\ n \in Files /\ c \in Seq(Nat \X Nat) /\ mem \in Checkpoints /\ mem.done = Files /\ staging \in Stagings
      /\ n + 1 \in 1 .. (NumFiles + 1)
    BY <1>1, InputsAssumption DEF JoinIsWhole, Files, ResumableTypes, MemoryIsCheckpoint, IsComplete
<1>3. Joined(n, c) \in Seq(Nat \X Nat)
    <2>1. CASE staging[n] = None
        BY <1>2, <2>1 DEF Joined
    <2>2. CASE staging[n] # None
        <3>1. staging[n] \in Seq(Nat \X Nat)
            BY <1>2, <2>2 DEF Stagings
        <3>2. Body(staging[n]) \in Seq(Nat \X Nat)
            BY <3>1 DEF Body
        <3> HIDE DEF n, c
        <3>3. c \o staging[n] \in Seq(Nat \X Nat) /\ c \o Body(staging[n]) \in Seq(Nat \X Nat)
            BY <1>2, <3>1, <3>2, ConcatProperties
        <3> QED BY <2>2, <3>3 DEF Joined
    <2> QED BY <2>1, <2>2
<1>4. ~spoilt => JoinedBefore(Joined(n, c), n + 1, mem.ident, kept, format)
    <2> SUFFICES ASSUME ~spoilt PROVE JoinedBefore(Joined(n, c), n + 1, mem.ident, kept, format)
        OBVIOUS
    <2>1. PartsAreGood(staging, mem, kept, format) /\ JoinedBefore(c, n, mem.ident, kept, format)
        BY <1>1 DEF PartsAreKept, JoinIsWhole
    <2> HIDE DEF n, c
    <2> QED BY <1>2, <2>1, TurnAddsPart
<1> HIDE DEF n, c
<1>5. joining'.next = n + 1 /\ joining'.content = Joined(n, c)
    BY <1>1
<1>6. JoinIsWhole'
    BY <1>1, <1>2, <1>3, <1>4, <1>5 DEF JoinIsWhole
<1>7. ResumableTypes' /\ RecordsAreTrue' /\ MemoryIsCheckpoint'
    BY <1>1 DEF ResumableTypes, RecordsAreTrue, MemoryIsCheckpoint, IsComplete, HasPart, Todo
<1>8. PartsAreKept' /\ CommitIsWhole'
    BY <1>1 DEF PartsAreKept, CommitIsWhole, IsComplete, NoParts
<1> QED BY <1>6, <1>7, <1>8

(* After the last turn the output holds the rows of all inputs.             *)
LEMMA FinishJoinKeeps ==
    ASSUME CheckpointInv, FinishJoin, UNCHANGED inputVars
    PROVE  CheckpointInv'
<1> USE DEF CheckpointInv
<1>1. /\ step = "joining" /\ joining.next > NumFiles /\ output' = joining.content /\ step' = "commit"
      /\ UNCHANGED <<format, version, holds, ckpt, staging, mem, spoilt, kept>>
    BY DEF FinishJoin, inputVars
<1>2. mem \in Checkpoints /\ mem = ckpt /\ ckpt # None /\ staging # None /\ ~ckpt.committed
    BY <1>1 DEF ResumableTypes, MemoryIsCheckpoint, CommitIsWhole
<1>3. /\ joining.next = NumFiles + 1 /\ joining.content \in Seq(Nat \X Nat)
      /\ ~spoilt => JoinedBefore(joining.content, joining.next, mem.ident, kept, format)
    <2>1. /\ joining.next \in 1 .. (NumFiles + 1) /\ joining.content \in Seq(Nat \X Nat)
          /\ ~spoilt => JoinedBefore(joining.content, joining.next, mem.ident, kept, format)
        BY <1>1 DEF JoinIsWhole
    <2>2. NumFiles \in Nat
        BY InputsAssumption
    <2>3. joining.next = NumFiles + 1
        BY ONLY <1>1, <2>1, <2>2
    <2> QED BY <2>1, <2>3
<1>4. output' # None
    BY <1>1, <1>3, InputsAssumption
<1>5. ResumableTypes' /\ RecordsAreTrue' /\ MemoryIsCheckpoint'
    BY <1>1, <1>2 DEF ResumableTypes, RecordsAreTrue, MemoryIsCheckpoint, IsComplete, HasPart
<1>6. PartsAreKept' /\ JoinIsWhole'
    BY <1>1, <1>2 DEF PartsAreKept, JoinIsWhole, IsComplete, NoParts
<1>7. CommitIsWhole'
    BY <1>1, <1>2, <1>3, <1>4 DEF CommitIsWhole
<1> QED BY <1>5, <1>6, <1>7

(* Finding nothing ends the process as it was.                              *)
LEMMA NothingStagedKeeps ==
    ASSUME CheckpointInv, NothingStaged, UNCHANGED inputVars
    PROVE  CheckpointInv'
<1> USE DEF CheckpointInv
<1>1. step = "parts" /\ step' = "idle" /\ UNCHANGED <<format, version, holds, ckpt, staging, output, spoilt, kept>>
    BY DEF NothingStaged, inputVars
<1>2. ResumableTypes' /\ RecordsAreTrue' /\ MemoryIsCheckpoint'
    BY <1>1 DEF ResumableTypes, RecordsAreTrue, MemoryIsCheckpoint, HasPart
<1>3. PartsAreKept' /\ JoinIsWhole' /\ CommitIsWhole'
    BY <1>1 DEF PartsAreKept, JoinIsWhole, CommitIsWhole, IsComplete, NoParts
<1> QED BY <1>2, <1>3

(* The commit comes after the output is whole.                              *)
LEMMA CommitKeeps ==
    ASSUME CheckpointInv, Commit, UNCHANGED inputVars
    PROVE  CheckpointInv'
<1> USE DEF CheckpointInv
<1>1. /\ step = "commit" /\ mem' = [mem EXCEPT !.committed = TRUE] /\ ckpt' = mem' /\ step' = "cleanup"
      /\ UNCHANGED <<format, version, holds, staging, output, spoilt, kept>>
    BY DEF Commit, inputVars
<1>2. mem \in Checkpoints /\ staging # None /\ IsComplete(mem) /\ Recorded(mem, version)
    BY <1>1 DEF ResumableTypes, MemoryIsCheckpoint, RecordsAreTrue
<1>3. /\ mem' \in Checkpoints /\ mem' # None /\ mem'.ident = mem.ident /\ mem'.done = mem.done /\ mem'.committed
    BY <1>1, <1>2, CheckpointAssumption DEF Checkpoints
<1>4. Recorded(mem', version')
    BY <1>1, <1>2, <1>3 DEF Recorded
<1>5. ResumableTypes' /\ RecordsAreTrue' /\ MemoryIsCheckpoint'
    BY <1>1, <1>2, <1>3, <1>4 DEF ResumableTypes, RecordsAreTrue, MemoryIsCheckpoint, HasPart, IsComplete
<1>6. PartsAreKept' /\ JoinIsWhole'
    BY <1>1, <1>3 DEF PartsAreKept, JoinIsWhole
<1>7. CommitIsWhole'
    BY <1>1, <1>2, <1>3 DEF CommitIsWhole, IsComplete
<1> QED BY <1>5, <1>6, <1>7

(* After the commit the parts are no longer needed.                         *)
LEMMA CleanupKeeps ==
    ASSUME CheckpointInv, Cleanup, UNCHANGED inputVars
    PROVE  CheckpointInv'
<1> USE DEF CheckpointInv
<1>1. /\ step = "cleanup" /\ step' = "idle" /\ (staging' = None \/ UNCHANGED staging)
      /\ UNCHANGED <<format, version, holds, ckpt, output, spoilt, kept>>
    BY DEF Cleanup, inputVars
<1>2. ckpt.committed
    BY <1>1 DEF CommitIsWhole
<1>3. ResumableTypes' /\ RecordsAreTrue' /\ MemoryIsCheckpoint'
    BY <1>1 DEF ResumableTypes, RecordsAreTrue, MemoryIsCheckpoint, HasPart
<1>4. PartsAreKept' /\ JoinIsWhole' /\ CommitIsWhole'
    BY <1>1, <1>2 DEF PartsAreKept, JoinIsWhole, CommitIsWhole, IsComplete
<1> QED BY <1>3, <1>4

(* The process may die anywhere; only between clearing the staging          *)
(* directory and replacing the checkpoint does that cost a promise.         *)
LEMMA InterruptKeeps ==
    ASSUME CheckpointInv, Interrupt, UNCHANGED inputVars
    PROVE  CheckpointInv'
<1> USE DEF CheckpointInv
<1>1. /\ step # "idle" /\ step' = "idle" /\ spoilt' = (spoilt \/ (step = "fresh" /\ ckpt # None))
      /\ UNCHANGED <<format, version, holds, ckpt, staging, output, kept>>
    BY DEF Interrupt, inputVars, diskVars
<1>2. spoilt' \in BOOLEAN /\ (~spoilt' => ~spoilt /\ (step = "fresh" => ckpt = None))
    BY <1>1, Zenon
<1>3. ResumableTypes' /\ RecordsAreTrue' /\ MemoryIsCheckpoint'
    BY <1>1, <1>2 DEF ResumableTypes, RecordsAreTrue, MemoryIsCheckpoint, HasPart
<1>4. PartsAreKept'
    BY <1>1, <1>2 DEF PartsAreKept, IsComplete, NoParts
<1>5. JoinIsWhole' /\ CommitIsWhole'
    BY <1>1, <1>2 DEF JoinIsWhole, CommitIsWhole, IsComplete
<1> QED BY <1>3, <1>4, <1>5

(* A modified input is only newer.                                          *)
LEMMA ModifyKeeps ==
    ASSUME CheckpointInv, NEW f \in Files, Modify(f), UNCHANGED inputVars
    PROVE  CheckpointInv'
<1> USE DEF CheckpointInv
<1>1. /\ version' = [version EXCEPT ![f] = @ + 1] /\ holds' \in {[holds EXCEPT ![f] = b] : b \in BOOLEAN}
      /\ UNCHANGED <<format, ckpt, staging, output, step, mem, joining, spoilt, kept>>
    BY DEF Modify, inputVars, diskVars
<1>2. version \in [Files -> Nat] /\ version' \in [Files -> Nat] /\ \A g \in Files : version[g] <= version'[g]
    BY <1>1 DEF ResumableTypes
<1>3. ASSUME NEW s \in Checkpoints, Recorded(s, version) PROVE Recorded(s, version')
    <2>1. \A g \in Files : s.ident[g] \in Nat
        BY DEF Checkpoints
    <2>2. \A g \in Files : s.ident[g] <= version'[g]
        BY <1>2, <1>3, <2>1 DEF Recorded
    <2> QED BY <1>3, <2>2 DEF Recorded
<1>8. holds' \in [Files -> BOOLEAN]
    BY <1>1 DEF ResumableTypes
<1>4. ResumableTypes'
    BY <1>1, <1>2, <1>8 DEF ResumableTypes
<1>5. RecordsAreTrue'
    BY <1>1, <1>3 DEF RecordsAreTrue, HasPart, ResumableTypes
<1>6. MemoryIsCheckpoint' /\ PartsAreKept'
    BY <1>1 DEF MemoryIsCheckpoint, PartsAreKept, IsComplete, NoParts, Todo
<1>7. JoinIsWhole' /\ CommitIsWhole'
    BY <1>1 DEF JoinIsWhole, CommitIsWhole, IsComplete
<1> QED BY <1>4, <1>5, <1>6, <1>7

(* Every step of a resumable conversion keeps the invariant.                *)
LEMMA ResumablePreserved == ResumableInv /\ [Next]_vars => ResumableInv'
<1> SUFFICES ASSUME ResumableInv, [Next]_vars PROVE ResumableInv'
    OBVIOUS
<1>1. CASE route' = route /\ route # "resumable"
    BY <1>1 DEF ResumableInv
<1>2. CASE UNCHANGED <<convertVars, resumableVars>>
    <2>1. UNCHANGED <<route, kept, holds, output, format, version, ckpt, staging, step, mem, joining, spoilt>>
        BY <1>2 DEF convertVars, resumableVars
    <2>2. /\ ResumableTypes' = ResumableTypes /\ RecordsAreTrue' = RecordsAreTrue
          /\ MemoryIsCheckpoint' = MemoryIsCheckpoint
        BY <2>1 DEF ResumableTypes, RecordsAreTrue, MemoryIsCheckpoint, IsComplete, Todo
    <2>3. PartsAreKept' = PartsAreKept /\ JoinIsWhole' = JoinIsWhole /\ CommitIsWhole' = CommitIsWhole
        BY <2>1 DEF PartsAreKept, JoinIsWhole, CommitIsWhole, IsComplete, NoParts
    <2> QED BY <2>1, <2>2, <2>3 DEF ResumableInv, CheckpointInv
<1>3. CASE route = "resumable" /\ ResumableNext
    <2>1. CheckpointInv /\ UNCHANGED inputVars
        BY <1>3 DEF ResumableInv, ResumableNext
    <2>2. ASSUME ProcessStep PROVE CheckpointInv'
        BY <2>1, <2>2, SaveFreshKeeps, BeginPartKeeps, FinishPartKeeps, SaveProgressKeeps, RenamePartKeeps,
           TruncateKeeps, JoinPartKeeps, FinishJoinKeeps, NothingStagedKeeps, CommitKeeps, CleanupKeeps
           DEF ProcessStep
    <2>3. CheckpointInv'
        BY <1>3, <2>1, <2>2, StartKeeps, ResumeKeeps, InterruptKeeps, ModifyKeeps DEF ResumableNext
    <2> QED BY <2>3 DEF ResumableInv
<1> QED
    <2>1. \/ route' = route /\ route # "resumable"
          \/ UNCHANGED <<convertVars, resumableVars>>
          \/ route = "resumable" /\ ResumableNext
        BY DEF Next, vars, Pipelined, PipelineNext, inputVars, convertVars
    <2> QED BY <1>1, <1>2, <1>3, <2>1

(* At the start there is no checkpoint.                                     *)
LEMMA ResumableInitially == Init => ResumableInv
<1> SUFFICES ASSUME Init, route = "resumable" PROVE CheckpointInv
    BY DEF ResumableInv
<1>1. /\ kept \in [Files -> BOOLEAN] /\ holds \in [Files -> BOOLEAN] /\ format \in {"csv", "parquet"}
      /\ version = [f \in Files |-> 0]
      /\ ckpt = None /\ staging = None /\ step = "idle" /\ spoilt = FALSE
    BY DEF Init, InputsInit, ResumableInit, Choice, Converting
<1>2. ResumableTypes
    BY <1>1 DEF ResumableTypes
<1>3. RecordsAreTrue /\ MemoryIsCheckpoint /\ PartsAreKept /\ JoinIsWhole /\ CommitIsWhole
    BY <1>1 DEF RecordsAreTrue, MemoryIsCheckpoint, PartsAreKept, JoinIsWhole, CommitIsWhole
<1> QED BY <1>2, <1>3 DEF CheckpointInv

(* A joined file of all inputs is what a committed checkpoint promises.     *)
LEMMA CommittedMeansJoined == ResumableInv => CommittedIsWhole
<1> SUFFICES ASSUME ResumableInv, route = "resumable", ckpt # None, ckpt.committed, ~spoilt
             PROVE  /\ {output[i][1] : i \in Rows(output)} = RowsWanted
                    /\ \A i, j \in Rows(output) : i < j => output[i][1] < output[j][1]
                    /\ \A i \in Rows(output) : output[i][2] >= ckpt.ident[output[i][1]]
                    /\ format = "csv" /\ kept[1] => {i \in DOMAIN output : output[i] = Header} = {1}
                    /\ Torn \notin Range(output)
    BY DEF CommittedIsWhole
<1>1. JoinedBefore(output, NumFiles + 1, ckpt.ident, kept, format) /\ kept \in [Files -> BOOLEAN]
    BY DEF ResumableInv, CheckpointInv, CommitIsWhole, ResumableTypes
<1>2. /\ NumFiles \in Nat /\ (NumFiles + 1) - 1 = NumFiles /\ NumFiles + 1 > 1 /\ Files = 1 .. NumFiles
      /\ Header = <<0, 1>> /\ Torn = <<0, 2>> /\ \A f \in Files : f # 0
    BY InputsAssumption DEF Files, Header, Torn
<1>3. /\ output \in Seq(Nat \X Nat)
      /\ \A i \in DOMAIN output :
            /\ output[i] = Header => i = 1
            /\ output[i] # Header => /\ output[i][1] \in Files /\ kept[output[i][1]]
                                     /\ output[i][2] >= ckpt.ident[output[i][1]]
    BY <1>1, <1>2 DEF JoinedBefore
<1>4. \A f \in Files : kept[f] => \E i \in DOMAIN output : output[i][1] = f
    BY <1>1, <1>2 DEF JoinedBefore
<1>5. \A i, j \in DOMAIN output : i < j /\ output[i] # Header => output[i][1] < output[j][1]
    BY <1>1 DEF JoinedBefore
<1>6. format = "csv" /\ kept[1] => output # <<>> /\ output[1] = Header
    BY <1>1, <1>2 DEF JoinedBefore
<1>7. \A i \in DOMAIN output : output[i] # Torn
    <2>1. Torn # Header /\ Torn[1] \notin Files
        BY <1>2
    <2> QED BY <1>3, <2>1, Zenon
<1>8. Rows(output) = {i \in DOMAIN output : output[i] # Header}
    BY <1>7 DEF Rows, IsRow
<1>9. \A i \in DOMAIN output : output[i][1] \in Files => i \in Rows(output)
    BY <1>2, <1>8
<1>10. {output[i][1] : i \in Rows(output)} = RowsWanted
    <2>1. ASSUME NEW i \in Rows(output) PROVE output[i][1] \in RowsWanted
        BY <1>3, <1>8, <2>1 DEF RowsWanted
    <2>2. ASSUME NEW f \in RowsWanted PROVE \E i \in Rows(output) : output[i][1] = f
        <3>1. f \in Files /\ kept[f]
            BY DEF RowsWanted
        <3>2. PICK i \in DOMAIN output : output[i][1] = f
            BY <1>4, <3>1
        <3> QED BY <1>9, <3>1, <3>2
    <2> QED BY <2>1, <2>2
<1>11. format = "csv" /\ kept[1] => {i \in DOMAIN output : output[i] = Header} = {1}
    <2> SUFFICES ASSUME format = "csv", kept[1] PROVE {i \in DOMAIN output : output[i] = Header} = {1}
        OBVIOUS
    <2>1. output # <<>> /\ output[1] = Header
        BY <1>6
    <2>2. 1 \in DOMAIN output
        BY <1>3, <2>1
    <2> QED BY <1>3, <2>1, <2>2
<1> QED BY <1>3, <1>5, <1>7, <1>8, <1>10, <1>11 DEF Range

(* What a committed checkpoint of a resumable conversion promises, for any  *)
(* number of inputs, interruptions, resumes and modifications: the output   *)
(* has the rows of every input once, in order, none older than the start,   *)
(* and nothing torn.                                                        *)
THEOREM CommittedConversionsAreWhole == Spec => []CommittedIsWhole
BY ResumableInitially, ResumablePreserved, CommittedMeansJoined, PTL DEF Spec
-----------------------------------------------------------------------------
(* A set of numbers that is not empty has a smallest one.                   *)
LEMMA SmallestExists ==
    ASSUME NEW T \in SUBSET Nat, T # {}
    PROVE  Min(T) \in T /\ \A n \in T : Min(T) <= n
<1>1. \E x \in T : \A y \in T : ~(<<y, x>> \in OpToRel(<, Nat))
    BY NatLessThanWellFounded, WFMin
<1>2. PICK x \in T : \A y \in T : ~(<<y, x>> \in OpToRel(<, Nat))
    BY <1>1
<1>3. \A y \in T : x <= y
    <2>1. OpToRel(<, Nat) = {ss \in Nat \X Nat : ss[1] < ss[2]}
        BY Zenon DEF OpToRel
    <2>2. \A y \in T : ~(y < x)
        BY <1>2, <2>1
    <2> QED BY <2>2
<1> QED BY <1>3 DEF Min
(* A plan that is executed to its end has one segment: a split predicts no  *)
(* output files, so that nothing can follow it, and a segment in front of a *)
(* split is staged in a directory, which without a partition is an error    *)
(* and with one holds none of the files that were predicted.                *)
FirstEnd == SegmentEnd(1)
OneSegment == FirstEnd = Len(spec)
FirstSegment ==
    [ops |-> SubSeq(spec, 1, FirstEnd), inputs |-> Inputs,
     out |-> IF OneSegment THEN Final ELSE Step(1), single |-> OneSegment /\ toFile]
Predictions == {{Below(Step(1), MergedFile)}, {Below(Step(1), RewrittenFile(p.at)) : p \in Inputs}}

(* The rows that the operations leave.                                      *)
Result == IF IsBarrier(spec[1]) THEN InputRows ELSE FilterTransform(FirstRewrite(spec), InputRows)

SpecTyped ==
    /\ spec \in Seq(SpecOps) /\ Len(spec) > 0
    /\ at \in Nat \ {0}
    /\ \A p \in Inputs : \A r \in disk[p] : r.s # MergedFile
    /\ \A p, q \in Inputs : \A r \in disk[p] : r.s # RewrittenFile(q.at)

PlanShape ==
    /\ plan \in Seq(Range(plan))
    /\ plan = <<>> => phase = "compile" /\ at = 1 /\ current = Inputs
    /\ plan # <<>> => plan[1] = FirstSegment
    /\ Len(plan) = 1 /\ phase = "compile" =>
        /\ at = FirstEnd + 1
        /\ ~OneSegment => current \in Predictions \cup {{}}
        /\ ~OneSegment /\ IsBarrier(spec[1]) => current = {}
    /\ Len(plan) > 1 => ~OneSegment /\ ~IsBarrier(spec[1]) /\ plan[2].inputs \in Predictions \ {{}}
    /\ Len(plan) = 1 /\ phase # "compile" => OneSegment

(* Before anything is executed there are the inputs and what was at the     *)
(* output before.                                                           *)
NothingWritten ==
    /\ \A p \in DOMAIN disk : p.root \in {"in", "out"}
    /\ \A p \in OutputFiles : disk[p] = {Stale} /\ p = IF toFile THEN Final ELSE Below(Final, "old")

Executed == Result \subseteq OutputRows /\ OutputRows \subseteq Result \cup {Stale}

DiskFollows ==
    /\ phase = "compile" => NothingWritten
    /\ phase = "execute" =>
        /\ at \in {1, 2} /\ plan # <<>>
        /\ at = 1 => NothingWritten
        /\ at = 2 /\ Len(plan) = 1 => Executed
        /\ at = 2 /\ Len(plan) > 1 => ~(plan[2].inputs \subseteq DOMAIN disk)
    /\ phase = "ok" => OneSegment /\ Executed

SpecInv ==
    IF Specified
    THEN /\ phase \in {"compile", "execute", "ok", "error"}
         /\ phase # "error" => SpecTyped /\ PlanShape /\ DiskFollows
    ELSE phase = "compile"

(* Counting segments: a plan has none, one or more of them.                 *)
LEMMA NoneOneOrMore == \A n \in Nat : n = 0 \/ n = 1 \/ n > 1
OBVIOUS

(* Counting segments: whoever is past the last, at 2, was at the only one.  *)
LEMMA PastTheOnly == \A m \in {1, 2}, n \in Nat \ {0} : m > n => m = 2 /\ n = 1
OBVIOUS

(* Where a path is.                                                         *)
LEMMA PathFacts ==
    /\ Final.root = "out" /\ Step(1).root = "step"
    /\ \A n : Below(Final, n).root = "out" /\ Below(Final, n).name = n
    /\ \A n : Below(Step(1), n).root = "step" /\ Below(Step(1), n).name = n
BY DEF Final, Step, Below, Path

(* A segment ends in the spec, at or behind the operation it begins with.   *)
LEMMA SegmentsEnd ==
    ASSUME SpecTyped, NEW i \in 1 .. Len(spec)
    PROVE  SegmentEnd(i) \in i .. Len(spec)
<1> DEFINE T == {j \in i .. Len(spec) : j = Len(spec) \/ IsBarrier(spec[j + 1])}
<1>1. Len(spec) \in Nat
    BY DEF SpecTyped
<1>2. Len(spec) \in T /\ T \in SUBSET Nat
    BY <1>1
<1>3. Min(T) \in T
    BY <1>2, SmallestExists
<1>4. FusedEnd(i) \in i .. Len(spec)
    BY <1>3 DEF FusedEnd
<1> QED BY <1>1, <1>4 DEF SegmentEnd

(* Without rows there is nothing to filter out or in.                       *)
LEMMA BatchesAreRows ==
    ASSUME NEW seg
    PROVE  UNION CollectBatches(seg) = UNION {disk[p] : p \in seg.inputs}
BY DEF CollectBatches

(* What spec and inputs determine stays as long as they do.                 *)
LEMMA InputsDetermine ==
    ASSUME spec' = spec, toFile' = toFile, Inputs' = Inputs, \A p \in Inputs : disk'[p] = disk[p]
    PROVE  /\ FirstEnd' = FirstEnd /\ OneSegment' = OneSegment /\ FirstSegment' = FirstSegment
           /\ Predictions' = Predictions /\ InputRows' = InputRows /\ Result' = Result
<1>1. FirstEnd' = FirstEnd
    BY DEF FirstEnd, SegmentEnd, FusedEnd
<1>2. OneSegment' = OneSegment /\ FirstSegment' = FirstSegment
    BY <1>1 DEF OneSegment, FirstSegment
<1>3. Predictions' = Predictions
    BY DEF Predictions
<1>4. InputRows' = InputRows
    BY DEF InputRows
<1> QED BY <1>1, <1>2, <1>3, <1>4 DEF Result

(* The files at the beginning.                                              *)
LEMMA SpecInitially == SpecInit => SpecInv
<1> SUFFICES ASSUME SpecInit PROVE SpecInv
    OBVIOUS
<1>1. CASE ~Specified
    BY <1>1 DEF SpecInit, SpecInv
<1>2. CASE Specified
    <2>1. PICK k \in 1 .. MaxOps : spec \in [1 .. k -> SpecOps]
        BY <1>2 DEF SpecInit, Choice
    <2>2. spec \in Seq(SpecOps) /\ Len(spec) > 0
        BY <2>1, SpecAssumption
    <2>3. PICK contents \in SpecRows, exists \in BOOLEAN :
            disk = Over([p \in {Path("in", i, "") : i \in DOMAIN contents} |-> contents[p.at]],
                        IF exists THEN File(IF toFile THEN Final ELSE Below(Final, "old"), {Stale}) ELSE NoFiles)
        BY <1>2 DEF SpecInit, Choice
    <2> DEFINE ins == [p \in {Path("in", i, "") : i \in DOMAIN contents} |-> contents[p.at]]
               old == IF toFile THEN Final ELSE Below(Final, "old")
               outs == IF exists THEN File(old, {Stale}) ELSE NoFiles
    <2>4. old.root = "out"
        BY DEF Final, Below, Path
    <2>5. DOMAIN outs \subseteq {old} /\ \A p \in DOMAIN outs : outs[p] = {Stale}
        BY DEF File, NoFiles
    <2>6. /\ DOMAIN disk = DOMAIN ins \cup DOMAIN outs
          /\ \A p \in DOMAIN disk : disk[p] = IF p \in DOMAIN ins THEN ins[p] ELSE outs[p]
        BY <2>3 DEF Over
    <2>7. \A p \in DOMAIN ins : p.root = "in" /\ p.at \in DOMAIN contents /\ ins[p] = contents[p.at]
        <3>1. \A i : Path("in", i, "").root = "in" /\ Path("in", i, "").at = i
            BY DEF Path
        <3> QED BY <3>1
    <2> HIDE DEF ins, old, outs
    <2>8. Inputs = DOMAIN ins /\ OutputFiles \subseteq {old}
        BY <2>4, <2>5, <2>6, <2>7 DEF Inputs, OutputFiles
    <2>9. SpecTyped
        <3>1. \A p, q \in Inputs : \A r \in disk[p] : r.s # MergedFile /\ r.s # RewrittenFile(q.at)
            BY <2>6, <2>7, <2>8, SpecAssumption
        <3>2. at = 1
            BY DEF SpecInit
        <3> QED BY <2>2, <3>1, <3>2 DEF SpecTyped
    <2>10. PlanShape
        <3>1. plan = <<>> /\ phase = "compile" /\ at = 1 /\ current = Inputs /\ Len(plan) = 0
            BY DEF SpecInit
        <3>2. plan \in Seq(Range(plan))
            BY <3>1
        <3> QED BY <3>1, <3>2 DEF PlanShape
    <2>11. NothingWritten
        <3>1. \A p \in DOMAIN disk : p.root \in {"in", "out"}
            BY <2>4, <2>5, <2>6, <2>7
        <3>2. \A p \in OutputFiles : p = old /\ disk[p] = {Stale}
            BY <2>4, <2>5, <2>6, <2>7, <2>8 DEF OutputFiles
        <3> QED BY <3>1, <3>2 DEF NothingWritten, old
    <2>12. DiskFollows
        BY <2>11 DEF SpecInit, DiskFollows
    <2> QED BY <1>2, <2>9, <2>10, <2>12 DEF SpecInit, SpecInv
<1> QED BY <1>1, <1>2

(* The operations of a spec are of the four kinds.                          *)
LEMMA OperationsAreTyped ==
    ASSUME SpecTyped, NEW i \in 1 .. Len(spec)
    PROVE  /\ spec[i].is \in {"rewrite", "partition", "merge", "split"}
           /\ spec[i].is = "rewrite" => IsFilter(spec[i].filter)
<1>1. spec[i] \in SpecOps
    BY DEF SpecTyped
<1> QED BY <1>1, SpecAssumption

(* The invariant for a plan and the disk under it in a state that compiles. *)
LEMMA CompileSegmentPreserves ==
    ASSUME SpecInv, Specified, route' = route, CompileSegment
    PROVE  SpecInv'
<1> DEFINE end == SegmentEnd(at)
           ops == SubSeq(spec, at, end)
           last == end = Len(spec)
           out == IF last THEN Final ELSE Step(at)
           single == last /\ toFile
           seg == [ops |-> ops, inputs |-> current, out |-> out, single |-> single]
           bad == CompileRefused \/ \E i \in DOMAIN ops : ~OperationToFused(ops[i]) \/ ~ValidateStep(ops[i])
<1>1. /\ phase = "compile" /\ at <= Len(spec)
      /\ spec' = spec /\ toFile' = toFile /\ overwrite' = overwrite /\ disk' = disk
    BY DEF CompileSegment
<1>2. SpecTyped /\ PlanShape /\ DiskFollows /\ Specified'
    BY <1>1 DEF SpecInv, Specified
<1>3. CASE bad
    <2>1. phase' = "error"
        BY <1>3 DEF CompileSegment
    <2> QED BY <1>2, <2>1 DEF SpecInv
<1>4. CASE ~bad
    <2>1. /\ plan' = Append(plan, seg) /\ current' = Predict(ops[Len(ops)], out, single)
          /\ at' = end + 1 /\ phase' = phase
        BY <1>4 DEF CompileSegment
    <2>2. Len(spec) \in Nat /\ at \in Nat \ {0} /\ Len(spec) > 0 /\ spec \in Seq(SpecOps)
        BY <1>2 DEF SpecTyped
    <2>3. at \in 1 .. Len(spec)
        BY <1>1, <2>2
    <2>4. end \in at .. Len(spec)
        BY <1>2, <2>3, SegmentsEnd
    <2> HIDE DEF end
    <2>5. /\ Len(ops) = end - at + 1 /\ DOMAIN ops = 1 .. (end - at + 1)
          /\ \A i \in DOMAIN ops : ops[i] = spec[at + i - 1]
        BY <2>2, <2>3, <2>4
    <2> HIDE DEF ops
    <2>6. current # {}
        <3>1. ValidateStep(ops[1])
            BY <1>4, <2>2, <2>3, <2>4, <2>5
        <3> QED BY <3>1, FS_EmptySet DEF ValidateStep
    <2>7. Inputs' = Inputs /\ \A p \in Inputs : disk'[p] = disk[p]
        BY <1>1 DEF Inputs
    <2>8. /\ FirstEnd' = FirstEnd /\ OneSegment' = OneSegment /\ FirstSegment' = FirstSegment
          /\ Predictions' = Predictions /\ InputRows' = InputRows /\ Result' = Result
        BY <1>1, <2>7, InputsDetermine
    <2>9. SpecTyped'
        BY <1>1, <1>2, <2>1, <2>2, <2>4, <2>7 DEF SpecTyped
    <2>10. DiskFollows'
        <3>1. NothingWritten'
            BY <1>1, <1>2 DEF DiskFollows, NothingWritten, OutputFiles
        <3> QED BY <1>1, <2>1, <3>1 DEF DiskFollows
    <2>11. /\ plan \in Seq(Range(plan)) /\ Len(plan) \in Nat
           /\ Len(plan') = Len(plan) + 1 /\ plan'[Len(plan) + 1] = seg
           /\ \A i \in 1 .. Len(plan) : plan'[i] = plan[i]
           /\ plan' # <<>> /\ (plan = <<>> <=> Len(plan) = 0)
        <3> HIDE DEF seg
        <3>1. plan \in Seq(Range(plan)) /\ Len(plan) \in Nat
            BY <1>2 DEF PlanShape
        <3>2. /\ plan \in Seq(Range(plan) \cup {seg})
              /\ Len(plan') = Len(plan) + 1 /\ plan'[Len(plan) + 1] = seg
              /\ \A i \in 1 .. Len(plan) : plan'[i] = plan[i]
            BY <2>1, <3>1
        <3> QED BY <3>1, <3>2
    <2>12. plan' \in Seq(Range(plan'))
        <3> HIDE DEF seg
        <3>1. plan' \in Seq(Range(plan) \cup {seg})
            BY <2>1, <2>11
        <3>2. \A i \in 1 .. Len(plan') : plan'[i] \in Range(plan')
            BY <3>1 DEF Range
        <3> QED BY <3>1, <3>2
    <2>13. PlanShape'
        <3>1. CASE plan = <<>>
            <4>1. at = 1 /\ current = Inputs /\ end = FirstEnd /\ last = OneSegment
                BY <1>2, <3>1 DEF PlanShape, FirstEnd, OneSegment, end
            <4>2. Len(plan') = 1 /\ plan'[1] = FirstSegment
                <5>1. seg = FirstSegment
                    BY <4>1 DEF FirstSegment, ops
                <5>2. Len(plan') = 1 /\ plan'[1] = seg
                    <6> HIDE DEF seg
                    <6> QED BY <2>11, <3>1
                <5> QED BY <5>1, <5>2
            <4>3. at' = FirstEnd + 1
                BY <2>1, <4>1
            <4>4. ASSUME ~OneSegment
                  PROVE  /\ current' \in Predictions \cup {{}}
                         /\ IsBarrier(spec[1]) => current' = {}
                <5> DEFINE op == ops[Len(ops)]
                <5>1. op = spec[end] /\ end \in 1 .. Len(spec)
                    BY <2>2, <2>4, <2>5, <4>1
                <5>2. op.is \in {"rewrite", "partition", "merge", "split"}
                    BY <1>2, <5>1, OperationsAreTyped
                <5> HIDE DEF op
                <5>3. current' = Predict(op, Step(1), FALSE)
                    BY <2>1, <4>1, <4>4 DEF op
                <5>4. current' \in Predictions \cup {{}}
                    BY <4>1, <5>2, <5>3 DEF Predict, Predictions
                <5>5. IsBarrier(spec[1]) => end = 1
                    BY <4>1 DEF end, SegmentEnd
                <5>6. IsBarrier(spec[1]) => current' = {}
                    BY <5>1, <5>3, <5>5 DEF IsBarrier, Predict
                <5> QED BY <5>4, <5>6
            <4> QED BY <1>1, <2>1, <2>8, <2>11, <2>12, <4>2, <4>3, <4>4 DEF PlanShape, IsBarrier
        <3>2. CASE Len(plan) = 1
            <4>1. plan # <<>> /\ at = FirstEnd + 1
                BY <1>1, <1>2, <2>11, <3>2 DEF PlanShape
            <4>2. ~OneSegment
                <5>1. at # Len(spec) + 1
                    BY <2>2, <2>3
                <5> QED BY <4>1, <5>1 DEF OneSegment
            <4>3. current \in Predictions \ {{}} /\ ~IsBarrier(spec[1])
                BY <1>1, <1>2, <2>6, <3>2, <4>2 DEF PlanShape
            <4>4. plan'[1] = FirstSegment /\ plan'[2].inputs = current /\ Len(plan') = 2
                BY <1>2, <2>11, <3>2, <4>1 DEF PlanShape
            <4> QED BY <1>1, <2>1, <2>8, <2>11, <2>12, <4>2, <4>3, <4>4 DEF PlanShape, IsBarrier
        <3>3. CASE Len(plan) > 1
            <4>1. plan # <<>>
                BY <3>3
            <4>2. /\ plan'[1] = FirstSegment /\ plan'[2] = plan[2] /\ Len(plan') > 1 /\ Len(plan') # 1
                  /\ ~OneSegment /\ ~IsBarrier(spec[1]) /\ plan[2].inputs \in Predictions \ {{}}
                BY <1>2, <2>11, <3>3, <4>1 DEF PlanShape
            <4> QED BY <1>1, <2>1, <2>8, <2>11, <2>12, <4>2 DEF PlanShape, IsBarrier
        <3>4. plan = <<>> \/ Len(plan) = 1 \/ Len(plan) > 1
            <4>1. Len(plan) \in Nat /\ (plan = <<>> <=> Len(plan) = 0)
                BY <2>11
            <4> QED BY <4>1, NoneOneOrMore
        <3> QED BY <3>1, <3>2, <3>3, <3>4
    <2> QED BY <1>1, <1>2, <2>1, <2>9, <2>10, <2>13 DEF SpecInv
<1> QED BY <1>3, <1>4

(* The whole spec has been cut into segments.                               *)
LEMMA CompiledPreserves ==
    ASSUME SpecInv, Specified, route' = route, Compiled
    PROVE  SpecInv'
<1>1. /\ phase = "compile" /\ at > Len(spec) /\ phase' = "execute" /\ at' = 1
      /\ spec' = spec /\ toFile' = toFile /\ disk' = disk /\ plan' = plan /\ current' = current
    BY DEF Compiled
<1>2. SpecTyped /\ PlanShape /\ DiskFollows /\ Specified'
    BY <1>1 DEF SpecInv, Specified
<1>3. Inputs' = Inputs /\ \A p \in Inputs : disk'[p] = disk[p]
    BY <1>1 DEF Inputs
<1>4. /\ FirstEnd' = FirstEnd /\ OneSegment' = OneSegment /\ FirstSegment' = FirstSegment
      /\ Predictions' = Predictions
    BY <1>1, <1>3, InputsDetermine
<1>5. Len(spec) \in Nat \ {0}
    BY <1>2 DEF SpecTyped
<1>6. plan # <<>>
    BY <1>1, <1>2, <1>5 DEF PlanShape
<1>7. SpecTyped'
    BY <1>1, <1>2, <1>3 DEF SpecTyped
<1>8. Len(plan) = 1 => OneSegment
    <2>1. FirstEnd \in 1 .. Len(spec)
        BY <1>2, <1>5, SegmentsEnd DEF FirstEnd
    <2>2. Len(plan) = 1 => FirstEnd + 1 > Len(spec)
        BY <1>1, <1>2 DEF PlanShape
    <2> QED BY <1>5, <2>1, <2>2 DEF OneSegment
<1>9. PlanShape'
    BY <1>1, <1>2, <1>4, <1>6, <1>8 DEF PlanShape, IsBarrier
<1>10. DiskFollows'
    <2>1. NothingWritten'
        BY <1>1, <1>2 DEF DiskFollows, NothingWritten, OutputFiles
    <2> QED BY <1>1, <1>6, <2>1 DEF DiskFollows
<1> QED BY <1>1, <1>2, <1>7, <1>9, <1>10 DEF SpecInv

(* What is written besides the inputs leaves them alone.                    *)
LEMMA InputsStay ==
    ASSUME NEW new, Write(new), \A p \in DOMAIN new : p.root \in {"out", "step"}
    PROVE  /\ Inputs' = Inputs /\ \A p \in Inputs : disk'[p] = disk[p]
           /\ DOMAIN disk' = DOMAIN new \cup DOMAIN disk
           /\ \A p \in DOMAIN disk' : disk'[p] = IF p \in DOMAIN new THEN new[p] ELSE disk[p]
<1>1. /\ DOMAIN disk' = DOMAIN new \cup DOMAIN disk
      /\ \A p \in DOMAIN disk' : disk'[p] = IF p \in DOMAIN new THEN new[p] ELSE disk[p]
    BY DEF Write, Over
<1>2. Inputs' = Inputs
    BY <1>1 DEF Inputs
<1>3. \A p \in Inputs : p \notin DOMAIN new
    BY DEF Inputs
<1> QED BY <1>1, <1>2, <1>3 DEF Inputs

(* A segment that wrote to the output has left there what it computed.      *)
LEMMA WrittenIsThere ==
    ASSUME NothingWritten, NEW new, Write(new), NEW rows,
           \A p \in DOMAIN new : p.root = "out",
           \A r \in rows : \E p \in DOMAIN new : r \in new[p],
           \A p \in DOMAIN new : new[p] \subseteq rows
    PROVE  rows \subseteq OutputRows' /\ OutputRows' \subseteq rows \cup {Stale}
<1>1. /\ DOMAIN disk' = DOMAIN new \cup DOMAIN disk
      /\ \A p \in DOMAIN disk' : disk'[p] = IF p \in DOMAIN new THEN new[p] ELSE disk[p]
    BY InputsStay
<1>2. OutputFiles' = OutputFiles \cup DOMAIN new
    BY <1>1 DEF OutputFiles
<1>3. rows \subseteq OutputRows'
    BY <1>1, <1>2 DEF OutputRows
<1>4. ASSUME NEW p \in OutputFiles' PROVE disk'[p] \subseteq rows \cup {Stale}
    <2>1. p \in DOMAIN disk'
        BY <1>4 DEF OutputFiles
    <2>2. CASE p \in DOMAIN new
        BY <1>1, <2>1, <2>2
    <2>3. CASE p \notin DOMAIN new
        <3>1. p \in OutputFiles /\ disk'[p] = disk[p]
            BY <1>1, <1>2, <2>1, <2>3
        <3> QED BY <3>1 DEF NothingWritten
    <2> QED BY <2>2, <2>3
<1>5. OutputRows' \subseteq rows \cup {Stale}
    BY <1>4 DEF OutputRows
<1> QED BY <1>3, <1>5

(* What a step of the execution that succeeds has to establish.             *)
LEMMA StepWasExecuted ==
    ASSUME SpecInv, Specified, route' = route, phase = "execute", at = 1,
           NEW new, Write(new), \A p \in DOMAIN new : p.root \in {"out", "step"},
           at' = 2, phase' = phase, spec' = spec, toFile' = toFile, plan' = plan,
           Len(plan) = 1 => Result \subseteq OutputRows' /\ OutputRows' \subseteq Result \cup {Stale},
           Len(plan) > 1 => ~(plan[2].inputs \subseteq DOMAIN disk')
    PROVE  SpecInv'
<1>1. SpecTyped /\ PlanShape /\ DiskFollows /\ Specified'
    BY DEF SpecInv, Specified
<1>2. Inputs' = Inputs /\ \A p \in Inputs : disk'[p] = disk[p]
    BY InputsStay
<1>3. /\ FirstEnd' = FirstEnd /\ OneSegment' = OneSegment /\ FirstSegment' = FirstSegment
      /\ Predictions' = Predictions /\ Result' = Result
    BY <1>2, InputsDetermine
<1>4. SpecTyped'
    BY <1>1, <1>2 DEF SpecTyped
<1>5. plan # <<>>
    BY <1>1 DEF DiskFollows
<1>6. PlanShape'
    BY <1>1, <1>3, <1>5 DEF PlanShape, IsBarrier
<1>7. DiskFollows'
    BY <1>3, <1>5 DEF DiskFollows, Executed
<1> QED BY <1>1, <1>4, <1>6, <1>7 DEF SpecInv

(* A split of the input: its parts hold all its rows.                       *)
LEMMA SplitIsExecuted ==
    ASSUME SpecInv, Specified, route' = route, phase = "execute", at = 1,
           NEW seg, seg = plan[1], IsBarrier(seg.ops[1]), ExecuteSplit(seg),
           spec' = spec, toFile' = toFile, plan' = plan
    PROVE  SpecInv'
<1> DEFINE rows == UNION {disk[p] : p \in seg.inputs}
           part == Below(seg.out, "part")
           new == IF rows = {} THEN NoFiles ELSE File(part, rows)
<1>1. SpecTyped /\ PlanShape /\ DiskFollows
    BY DEF SpecInv
<1>2. plan # <<>> /\ seg = FirstSegment /\ NothingWritten
    BY <1>1 DEF DiskFollows, PlanShape
<1>3. FirstEnd \in 1 .. Len(spec) /\ spec \in Seq(SpecOps) /\ Len(spec) \in Nat
    BY <1>1, SegmentsEnd DEF FirstEnd, SpecTyped
<1>4. seg.ops[1] = spec[1]
    BY <1>2, <1>3 DEF FirstSegment
<1>5. Len(plan) = 1 /\ OneSegment
    <2>1. Len(plan) \in Nat \ {0}
        BY <1>1, <1>2 DEF PlanShape
    <2>2. Len(plan) = 1 \/ Len(plan) > 1
        BY <2>1, NoneOneOrMore
    <2> QED BY <1>1, <1>4, <2>2 DEF PlanShape
<1>6. rows = InputRows /\ seg.out = Final
    BY <1>2, <1>5 DEF FirstSegment, InputRows
<1>7. Result = rows
    BY <1>4, <1>6 DEF Result
<1>8. Write(new) /\ at' = 2 /\ phase' = phase
    BY DEF ExecuteSplit
<1>9. part.root = "out"
    BY <1>6, PathFacts
<1>10. /\ \A p \in DOMAIN new : p.root = "out" /\ new[p] \subseteq rows
       /\ \A r \in rows : \E p \in DOMAIN new : r \in new[p]
    <2> HIDE DEF rows, part
    <2> QED BY <1>9 DEF NoFiles, File
<1> HIDE DEF rows, new
<1>11. rows \subseteq OutputRows' /\ OutputRows' \subseteq rows \cup {Stale}
    BY <1>2, <1>8, <1>10, WrittenIsThere
<1> QED BY <1>5, <1>7, <1>8, <1>10, <1>11, StepWasExecuted

(* A fused segment over the inputs.                                         *)
LEMMA FusedIsExecuted ==
    ASSUME SpecInv, Specified, route' = route, phase = "execute", at = 1,
           NEW seg, seg = plan[1], ~IsBarrier(seg.ops[1]), ExecuteFusedSegment(seg),
           spec' = spec, toFile' = toFile, plan' = plan
    PROVE  SpecInv'
<1>1. SpecTyped /\ PlanShape /\ DiskFollows
    BY DEF SpecInv
<1>2. plan # <<>> /\ seg = FirstSegment /\ NothingWritten /\ Len(plan) \in Nat \ {0}
    BY <1>1 DEF DiskFollows, PlanShape
<1>3. FirstEnd \in 1 .. Len(spec) /\ spec \in Seq(SpecOps) /\ Len(spec) \in Nat
    BY <1>1, SegmentsEnd DEF FirstEnd, SpecTyped
<1>4. seg.ops[1] = spec[1] /\ ~IsBarrier(spec[1])
    BY <1>2, <1>3 DEF FirstSegment
<1>5. FusedRows(seg) = FilterTransform(FirstRewrite(seg.ops), InputRows)
    BY <1>2, BatchesAreRows DEF FusedRows, FirstSegment, InputRows
<1>6. OneSegment => FusedRows(seg) = Result
    <2>1. OneSegment => seg.ops = spec
        BY <1>2, <1>3 DEF OneSegment, FirstSegment
    <2> QED BY <1>4, <1>5, <2>1 DEF Result
<1> DEFINE rows == FusedRows(seg)
<1>7. CASE HasPartition(seg) /\ Write(PartitionFiles(seg.out, rows)) /\ at' = at + 1 /\ UNCHANGED phase
    <2> DEFINE new == PartitionFiles(seg.out, rows)
    <2>1. seg.out = IF OneSegment THEN Final ELSE Step(1)
        BY <1>2 DEF FirstSegment
    <2>2. \A n : Below(seg.out, n).root = seg.out.root /\ Below(seg.out, n).name = n
        BY <2>1, PathFacts
    <2> HIDE DEF rows
    <2>3. /\ DOMAIN new = {Below(seg.out, r.s) : r \in rows}
          /\ \A p \in DOMAIN new : new[p] = {r \in rows : r.s = p.name}
        BY DEF PartitionFiles
    <2>4. /\ \A p \in DOMAIN new : p.root = seg.out.root /\ new[p] \subseteq rows
          /\ \A r \in rows : \E p \in DOMAIN new : r \in new[p]
        <3>1. \A r \in rows : r \in new[Below(seg.out, r.s)]
            BY <2>2, <2>3
        <3> QED BY <2>2, <2>3, <3>1
    <2>5. seg.out.root = IF OneSegment THEN "out" ELSE "step"
        BY <2>1, PathFacts
    <2>6. Len(plan) = 1 => rows \subseteq OutputRows' /\ OutputRows' \subseteq rows \cup {Stale} /\ rows = Result
        <3> HIDE DEF new
        <3>1. Len(plan) = 1 => OneSegment
            BY <1>1 DEF PlanShape
        <3>2. OneSegment => \A p \in DOMAIN new : p.root = "out"
            BY <2>4, <2>5
        <3>3. Write(new)
            BY <1>7 DEF new
        <3> QED BY <1>2, <1>6, <2>4, <3>1, <3>2, <3>3, WrittenIsThere DEF rows
    <2>7. Len(plan) > 1 => ~(plan[2].inputs \subseteq DOMAIN disk')
        <3> SUFFICES ASSUME Len(plan) > 1 PROVE ~(plan[2].inputs \subseteq DOMAIN disk')
            OBVIOUS
        <3>1. ~OneSegment /\ plan[2].inputs \in Predictions /\ plan[2].inputs # {}
            BY <1>1 DEF PlanShape
        <3>2. PICK x \in plan[2].inputs : TRUE
            BY <3>1
        <3>3. x = Below(Step(1), MergedFile) \/ \E q \in Inputs : x = Below(Step(1), RewrittenFile(q.at))
            BY <3>1, <3>2 DEF Predictions
        <3>4. x.root = "step" /\ (x.name = MergedFile \/ \E q \in Inputs : x.name = RewrittenFile(q.at))
            BY <3>3, PathFacts
        <3>5. x \notin DOMAIN disk
            BY <1>2, <3>4 DEF NothingWritten
        <3>6. ASSUME NEW r \in rows PROVE r.s # x.name
            <4>1. \E p \in Inputs : r \in disk[p]
                BY <1>5, <3>6 DEF rows, FilterTransform, InputRows
            <4> QED BY <1>1, <3>4, <4>1 DEF SpecTyped
        <3>7. x \notin DOMAIN new
            BY <2>2, <2>3, <3>6
        <3>8. DOMAIN disk' = DOMAIN new \cup DOMAIN disk
            BY <1>7 DEF Write, Over
        <3> QED BY <3>2, <3>5, <3>7, <3>8
    <2>8. \A p \in DOMAIN new : p.root \in {"out", "step"}
        BY <2>4, <2>5
    <2>9. Write(new) /\ at' = 2 /\ phase' = phase
        BY <1>7
    <2> HIDE DEF new
    <2> QED BY <2>6, <2>7, <2>8, <2>9, StepWasExecuted
<1>8. CASE /\ ~HasPartition(seg)
           /\ seg.single /\ CollectBatches(seg) # {}
           /\ Write(File(seg.out, rows))
           /\ at' = at + 1
           /\ UNCHANGED phase
    <2> DEFINE new == File(seg.out, rows)
    <2>1. OneSegment /\ seg.out = Final
        <3>1. seg.single = (OneSegment /\ toFile) /\ seg.out = IF OneSegment THEN Final ELSE Step(1)
            BY <1>2 DEF FirstSegment
        <3> QED BY <1>8, <3>1
    <2>2. Len(plan) = 1
        <3>1. Len(plan) = 1 \/ Len(plan) > 1
            BY <1>2, NoneOneOrMore
        <3> QED BY <1>1, <2>1, <3>1 DEF PlanShape
    <2> HIDE DEF rows
    <2>3. /\ \A p \in DOMAIN new : p.root = "out" /\ new[p] \subseteq rows
          /\ \A r \in rows : \E p \in DOMAIN new : r \in new[p]
        BY <2>1, PathFacts DEF File
    <2>4. Write(new) /\ at' = 2 /\ phase' = phase
        BY <1>8
    <2> HIDE DEF new
    <2>5. rows \subseteq OutputRows' /\ OutputRows' \subseteq rows \cup {Stale} /\ rows = Result
        BY <1>2, <1>6, <2>1, <2>3, <2>4, WrittenIsThere DEF rows
    <2> QED BY <2>2, <2>3, <2>4, <2>5, StepWasExecuted
<1>9. CASE phase' = "error"
    BY <1>9 DEF SpecInv, Specified
<1> QED BY <1>7, <1>8, <1>9 DEF ExecuteFusedSegment

(* execute_plan, one segment.                                               *)
LEMMA ExecuteSegmentPreserves ==
    ASSUME SpecInv, Specified, route' = route, ExecuteSegment
    PROVE  SpecInv'
<1> DEFINE seg == plan[at]
<1> HIDE DEF seg
<1>1. /\ phase = "execute" /\ at <= Len(plan)
      /\ spec' = spec /\ toFile' = toFile /\ plan' = plan
    BY DEF ExecuteSegment
<1>2. SpecTyped /\ PlanShape /\ DiskFollows
    BY <1>1 DEF SpecInv
<1>3. CASE phase' = "error"
    BY <1>3 DEF SpecInv, Specified
<1>4. CASE phase' # "error"
    <2>1. /\ seg.inputs \subseteq DOMAIN disk
          /\ IF IsBarrier(seg.ops[1]) THEN ExecuteSplit(seg) ELSE ExecuteFusedSegment(seg)
        BY <1>4 DEF ExecuteSegment, seg
    <2>2. at = 1
        BY <1>1, <1>2, <2>1 DEF DiskFollows, seg
    <2>3. seg = plan[1]
        BY <2>2 DEF seg
    <2>4. CASE IsBarrier(seg.ops[1])
        BY <1>1, <2>1, <2>2, <2>3, <2>4, SplitIsExecuted
    <2>5. CASE ~IsBarrier(seg.ops[1])
        BY <1>1, <2>1, <2>2, <2>3, <2>5, FusedIsExecuted
    <2> QED BY <2>4, <2>5
<1> QED BY <1>3, <1>4

(* The end of the execution.                                                *)
LEMMA FinishPlanPreserves ==
    ASSUME SpecInv, Specified, route' = route, FinishPlan
    PROVE  SpecInv'
<1>1. /\ phase = "execute" /\ at > Len(plan) /\ phase' = "ok"
      /\ disk' = [p \in {q \in DOMAIN disk : q.root # "step"} |-> disk[p]]
      /\ spec' = spec /\ toFile' = toFile /\ at' = at /\ current' = current /\ plan' = plan
    BY DEF FinishPlan
<1>2. SpecTyped /\ PlanShape /\ DiskFollows /\ Specified'
    BY <1>1 DEF SpecInv, Specified
<1>3. plan # <<>> /\ Len(plan) \in Nat \ {0}
    BY <1>1, <1>2 DEF PlanShape, DiskFollows
<1>4. Executed /\ Len(plan) = 1
    <2>1. at \in {1, 2} /\ (at = 2 /\ Len(plan) = 1 => Executed)
        BY <1>1, <1>2 DEF DiskFollows
    <2>2. at > Len(plan) /\ Len(plan) \in Nat \ {0}
        BY <1>1, <1>3
    <2>3. at \in {1, 2}
        BY <2>1
    <2>4. at = 2 /\ Len(plan) = 1
        BY <2>2, <2>3, PastTheOnly
    <2> QED BY <2>1, <2>4
<1>5. Inputs' = Inputs /\ OutputFiles' = OutputFiles
    BY <1>1 DEF Inputs, OutputFiles
<1>6. (\A p \in Inputs : disk'[p] = disk[p]) /\ (\A p \in OutputFiles : disk'[p] = disk[p])
    BY <1>1 DEF Inputs, OutputFiles
<1>7. /\ FirstEnd' = FirstEnd /\ OneSegment' = OneSegment /\ FirstSegment' = FirstSegment
      /\ Predictions' = Predictions /\ Result' = Result
    BY <1>1, <1>5, <1>6, InputsDetermine
<1>8. OutputRows' = OutputRows
    BY <1>5, <1>6 DEF OutputRows
<1>9. SpecTyped'
    BY <1>1, <1>2, <1>5, <1>6 DEF SpecTyped
<1>10. PlanShape'
    BY <1>1, <1>2, <1>3, <1>7 DEF PlanShape, IsBarrier
<1>11. DiskFollows'
    <2>1. OneSegment
        BY <1>1, <1>2, <1>4 DEF PlanShape
    <2> QED BY <1>1, <1>4, <1>7, <1>8, <2>1 DEF DiskFollows, Executed
<1> QED BY <1>1, <1>2, <1>9, <1>10, <1>11 DEF SpecInv

(* No other job touches a spec, and a spec's own steps keep the invariant.  *)
LEMMA SpecPreserved == SpecInv /\ [Next]_vars => SpecInv'
<1> SUFFICES ASSUME SpecInv, [Next]_vars PROVE SpecInv'
    OBVIOUS
<1>1. CASE route = "spec" /\ route' = route /\ SpecNext
    BY <1>1, CompileSegmentPreserves, CompiledPreserves, ExecuteSegmentPreserves, FinishPlanPreserves
       DEF SpecNext, Specified
<1>2. CASE route' = route /\ UNCHANGED specVars
    <2>1. /\ spec' = spec /\ toFile' = toFile /\ disk' = disk /\ phase' = phase
          /\ at' = at /\ current' = current /\ plan' = plan
        BY <1>2 DEF specVars
    <2>2. Specified' = Specified
        BY <1>2 DEF Specified
    <2>3. Inputs' = Inputs /\ OutputFiles' = OutputFiles /\ \A p \in Inputs : disk'[p] = disk[p]
        BY <2>1 DEF Inputs, OutputFiles
    <2>4. /\ FirstEnd' = FirstEnd /\ OneSegment' = OneSegment /\ FirstSegment' = FirstSegment
          /\ Predictions' = Predictions /\ InputRows' = InputRows /\ Result' = Result
        BY <2>1, <2>3, InputsDetermine
    <2>5. SpecTyped' = SpecTyped
        BY <2>1, <2>3 DEF SpecTyped
    <2>6. PlanShape' = PlanShape
        BY <2>1, <2>3, <2>4 DEF PlanShape, IsBarrier
    <2>7. NothingWritten' = NothingWritten
        BY <2>1, <2>3 DEF NothingWritten
    <2>8. Executed' = Executed
        BY <2>1, <2>3, <2>4 DEF Executed, OutputRows
    <2>9. DiskFollows' = DiskFollows
        BY <2>1, <2>4, <2>7, <2>8 DEF DiskFollows
    <2> QED BY <2>1, <2>2, <2>5, <2>6, <2>9 DEF SpecInv
<1>3. route' = route
    BY DEF Next, vars, convertVars, PipelineNext, ResumableNext, inputVars
<1> QED BY <1>1, <1>2, <1>3 DEF Next, vars

(* The value of a node from those of the nodes it refers to, and the values *)
(* that the reference has for it.                                           *)
NodeValue(e, v, i, f) ==
    CASE e[i].is = "not" -> ~f[e[i].arg]
      [] e[i].is = "and" -> f[e[i].left] /\ f[e[i].right]
      [] e[i].is = "or" -> f[e[i].left] \/ f[e[i].right]
      [] OTHER -> EvaluateAtom(e[i], v)
NodeValues(e, v, i, f) ==
    CASE e[i].is = "not" -> {~a : a \in f[e[i].arg]}
      [] e[i].is = "and" -> {a /\ b : a \in f[e[i].left], b \in f[e[i].right]}
      [] e[i].is = "or" -> {a \/ b : a \in f[e[i].left], b \in f[e[i].right]}
      [] OTHER -> IF e[i].is \in Comparisons /\ v = Null THEN BOOLEAN ELSE {EvaluateAtom(e[i], v)}
ValueFun(e, v) == CHOOSE f : f = [i \in DOMAIN e |-> NodeValue(e, v, i, f)]
ValuesFun(e, v) == CHOOSE f : f = [i \in DOMAIN e |-> NodeValues(e, v, i, f)]

(* What the two recursive functions are.                                    *)
LEMMA FiltersUnfold ==
    ASSUME NEW e, NEW v
    PROVE  /\ EvaluateFilter(e, v) = ValueFun(e, v)[Len(e)]
           /\ Possible(e, v) = ValuesFun(e, v)[Len(e)]
<1>1. EvaluateFilter(e, v) = ValueFun(e, v)[Len(e)]
    BY DEF EvaluateFilter, ValueFun, NodeValue
<1>2. Possible(e, v) = ValuesFun(e, v)[Len(e)]
    BY DEF Possible, ValuesFun, NodeValues
<1> QED BY <1>1, <1>2

(* A node's value depends on nodes before it only.                          *)
LEMMA NodesLookBack ==
    ASSUME NEW e, IsFilter(e), NEW v, NEW i \in DOMAIN e, NEW f, NEW g,
           \A j \in 1 .. i - 1 : f[j] = g[j]
    PROVE  /\ NodeValue(e, v, i, f) = NodeValue(e, v, i, g)
           /\ NodeValues(e, v, i, f) = NodeValues(e, v, i, g)
<1>1. Arguments(e[i]) \subseteq 1 .. i - 1
    BY DEF IsFilter
<1>2. CASE e[i].is = "not"
    <2>1. f[e[i].arg] = g[e[i].arg]
        BY <1>1, <1>2 DEF Arguments
    <2> QED BY <1>2, <2>1 DEF NodeValue, NodeValues
<1>3. CASE e[i].is \in {"and", "or"}
    <2>1. f[e[i].left] = g[e[i].left] /\ f[e[i].right] = g[e[i].right]
        BY <1>1, <1>3 DEF Arguments
    <2>2. NodeValue(e, v, i, f) = NodeValue(e, v, i, g)
        BY <1>3, <2>1 DEF NodeValue
    <2>3. NodeValues(e, v, i, f) = NodeValues(e, v, i, g)
        BY <1>3, <2>1 DEF NodeValues
    <2> QED BY <2>2, <2>3
<1>4. CASE e[i].is \notin {"not", "and", "or"}
    BY <1>4 DEF NodeValue, NodeValues
<1> QED BY <1>2, <1>3, <1>4

(* There are such functions: for the first k nodes there are, whatever k.   *)
LEMMA ValuesExist ==
    ASSUME NEW e, IsFilter(e), NEW v
    PROVE  /\ ValueFun(e, v) = [i \in DOMAIN e |-> NodeValue(e, v, i, ValueFun(e, v))]
           /\ ValuesFun(e, v) = [i \in DOMAIN e |-> NodeValues(e, v, i, ValuesFun(e, v))]
<1> DEFINE One(k, f) == f = [i \in 1 .. k |-> NodeValue(e, v, i, f)]
           All(k, f) == f = [i \in 1 .. k |-> NodeValues(e, v, i, f)]
           Bad == {k \in 0 .. Len(e) : ~((\E f : One(k, f)) /\ (\E f : All(k, f)))}
<1>1. Len(e) \in Nat /\ DOMAIN e = 1 .. Len(e)
    BY DEF IsFilter
<1>2. Bad = {}
    <2> SUFFICES ASSUME Bad # {} PROVE FALSE
        OBVIOUS
    <2> DEFINE k == Min(Bad)
    <2>0. Bad \in SUBSET Nat
        BY <1>1
    <2>1. k \in Bad /\ \A n \in Bad : k <= n
        <3> HIDE DEF Bad
        <3> QED BY <2>0, SmallestExists
    <2> HIDE DEF k
    <2>2. k # 0
        <3>1. One(0, [i \in 1 .. 0 |-> NodeValue(e, v, i, <<>>)]) /\ All(0, [i \in 1 .. 0 |-> NodeValues(e, v, i, <<>>)])
            OBVIOUS
        <3> HIDE DEF One, All
        <3> QED BY <2>1, <3>1
    <2>3. k \in 1 .. Len(e) /\ k - 1 \in 0 .. Len(e) /\ k - 1 \notin Bad
        BY <1>1, <2>1, <2>2
    <2>4. PICK f : One(k - 1, f)
        BY <2>3
    <2>5. PICK g : All(k - 1, g)
        BY <2>3
    <2> DEFINE f2 == [i \in 1 .. k |-> NodeValue(e, v, i, f)]
               g2 == [i \in 1 .. k |-> NodeValues(e, v, i, g)]
    <2>6. (\A j \in 1 .. k - 1 : f2[j] = f[j]) /\ (\A j \in 1 .. k - 1 : g2[j] = g[j])
        BY <1>1, <2>3, <2>4, <2>5
    <2>7. \A i \in 1 .. k : /\ NodeValue(e, v, i, f2) = NodeValue(e, v, i, f)
                            /\ NodeValues(e, v, i, g2) = NodeValues(e, v, i, g)
        <3> HIDE DEF f2, g2
        <3> TAKE i \in 1 .. k
        <3>1. i \in DOMAIN e /\ 1 .. i - 1 \subseteq 1 .. k - 1
            BY <1>1, <2>3
        <3>2. NodeValue(e, v, i, f2) = NodeValue(e, v, i, f)
            BY <2>6, <3>1, NodesLookBack
        <3>3. NodeValues(e, v, i, g2) = NodeValues(e, v, i, g)
            BY <2>6, <3>1, NodesLookBack
        <3> QED BY <3>2, <3>3
    <2>8. One(k, f2) /\ All(k, g2)
        BY <2>7
    <2> HIDE DEF One, All, f2, g2
    <2> QED BY <2>1, <2>8
<1>3. PICK f : One(Len(e), f)
    BY <1>1, <1>2
<1>4. PICK g : All(Len(e), g)
    BY <1>1, <1>2
<1>5. f = [i \in DOMAIN e |-> NodeValue(e, v, i, f)]
    BY <1>1, <1>3
<1>6. g = [i \in DOMAIN e |-> NodeValues(e, v, i, g)]
    BY <1>1, <1>4
<1>7. ValueFun(e, v) = [i \in DOMAIN e |-> NodeValue(e, v, i, ValueFun(e, v))]
    BY <1>5 DEF ValueFun
<1>8. ValuesFun(e, v) = [i \in DOMAIN e |-> NodeValues(e, v, i, ValuesFun(e, v))]
    BY <1>6 DEF ValuesFun
<1> QED BY <1>7, <1>8

(* A comparison with NULL that is not negated is false.                     *)
LEMMA NullComparesFalse ==
    ASSUME NEW node, node.is \in Comparisons \ {"ne"}, NEW v, v = Null
    PROVE  ~EvaluateAtom(node, v)
BY DEF Comparisons, EvaluateAtom, EvalIn, Compare

(* Atoms are true or false.                                                 *)
LEMMA AtomsAreDecided ==
    ASSUME NEW node, node.is \in Atoms, NEW v PROVE EvaluateAtom(node, v) \in BOOLEAN
BY DEF Atoms, Comparisons, EvaluateAtom, EvalIn, Compare

(* The value of a filter is a possible one; and where nothing is negated, a *)
(* filter that is true is so for certain.                                   *)
LEMMA ValuesArePossible ==
    ASSUME NEW e, IsFilter(e), NEW v
    PROVE  /\ EvaluateFilter(e, v) \in BOOLEAN
           /\ Possible(e, v) \subseteq BOOLEAN
           /\ EvaluateFilter(e, v) \in Possible(e, v)
           /\ EvaluateFilter(e, v) /\ ~Negative(e) => Possible(e, v) = {TRUE}
<1> DEFINE f == ValueFun(e, v)
           g == ValuesFun(e, v)
           Right(i) == /\ f[i] \in BOOLEAN /\ g[i] \subseteq BOOLEAN /\ f[i] \in g[i]
                       /\ f[i] = TRUE /\ ~Negative(e) => g[i] = {TRUE}
           Wrong == {i \in DOMAIN e : ~Right(i)}
<1>1. Len(e) \in Nat \ {0} /\ DOMAIN e = 1 .. Len(e)
    BY DEF IsFilter
<1>2. \A i \in DOMAIN e : f[i] = NodeValue(e, v, i, f) /\ g[i] = NodeValues(e, v, i, g)
    <2> DEFINE F == [i \in DOMAIN e |-> NodeValue(e, v, i, f)]
               G == [i \in DOMAIN e |-> NodeValues(e, v, i, g)]
    <2>1. f = F /\ g = G
        BY ValuesExist
    <2>2. \A i \in DOMAIN e : F[i] = NodeValue(e, v, i, f) /\ G[i] = NodeValues(e, v, i, g)
        OBVIOUS
    <2> HIDE DEF F, G, f, g
    <2> QED BY <2>1, <2>2
<1> HIDE DEF f, g
<1>3. Wrong = {}
    <2> SUFFICES ASSUME Wrong # {} PROVE FALSE
        OBVIOUS
    <2> DEFINE i == Min(Wrong)
    <2>0. Wrong \in SUBSET Nat
        <3> HIDE DEF Right
        <3> QED BY <1>1
    <2>1. i \in Wrong /\ \A j \in Wrong : i <= j
        <3> HIDE DEF Wrong
        <3> QED BY <2>0, SmallestExists
    <2> HIDE DEF i
    <2>2. i \in DOMAIN e /\ \A j \in 1 .. i - 1 : Right(j)
        <3> HIDE DEF Right
        <3> QED BY <1>1, <2>1
    <2>3. Arguments(e[i]) \subseteq 1 .. i - 1 /\ e[i].is \in Atoms \cup {"not", "and", "or"}
        BY <2>2 DEF IsFilter
    <2>4. f[i] = NodeValue(e, v, i, f) /\ g[i] = NodeValues(e, v, i, g)
        BY <1>2, <2>2
    <2>5. CASE e[i].is = "not"
        <3> DEFINE j == e[i].arg
        <3>1. Right(j) /\ Negative(e)
            BY <2>2, <2>3, <2>5 DEF Arguments, Negative
        <3>2. f[i] = ~f[j] /\ g[i] = {~a : a \in g[j]}
            BY <2>4, <2>5 DEF NodeValue, NodeValues
        <3> HIDE DEF j
        <3>3. Right(i)
            BY <3>1, <3>2
        <3> QED BY <2>1, <3>3
    <2>6. CASE e[i].is = "and"
        <3> DEFINE j == e[i].left
                   k == e[i].right
        <3>1. Right(j) /\ Right(k)
            BY <2>2, <2>3, <2>6 DEF Arguments
        <3>2. f[i] = (f[j] /\ f[k]) /\ g[i] = {a /\ b : a \in g[j], b \in g[k]}
            BY <2>4, <2>6 DEF NodeValue, NodeValues
        <3> HIDE DEF j, k
        <3>3. f[i] \in BOOLEAN /\ g[i] \subseteq BOOLEAN /\ f[i] \in g[i]
            <4> DEFINE a == f[j]
                       b == f[k]
            <4>1. a \in g[j] /\ b \in g[k] /\ a \in BOOLEAN /\ b \in BOOLEAN
                BY <3>1
            <4>2. f[i] = (a /\ b) /\ (a /\ b) \in g[i]
                BY <3>2, <4>1
            <4>3. g[i] \subseteq BOOLEAN
                BY <3>1, <3>2
            <4> HIDE DEF a, b
            <4> QED BY <4>1, <4>2, <4>3
        <3>4. ASSUME f[i] = TRUE, ~Negative(e) PROVE g[i] = {TRUE}
            <4>1. f[j] = TRUE /\ f[k] = TRUE
                BY <3>1, <3>2, <3>4
            <4>2. g[j] = {TRUE} /\ g[k] = {TRUE}
                BY <3>1, <3>4, <4>1
            <4>3. \A a \in g[j], b \in g[k] : (a /\ b) = TRUE
                BY <4>2
            <4>4. \A x \in g[i] : x = TRUE
                <5> SUFFICES ASSUME NEW x \in g[i] PROVE x = TRUE
                    OBVIOUS
                <5>1. \E a \in g[j], b \in g[k] : x = (a /\ b)
                    BY <3>2
                <5> QED BY <4>3, <5>1
            <4> QED BY <3>3, <3>4, <4>4
        <3>5. Right(i)
            BY <3>3, <3>4
        <3> QED BY <2>1, <3>5
    <2>7. CASE e[i].is = "or"
        <3> DEFINE j == e[i].left
                   k == e[i].right
        <3>1. Right(j) /\ Right(k)
            BY <2>2, <2>3, <2>7 DEF Arguments
        <3>2. f[i] = (f[j] \/ f[k]) /\ g[i] = {a \/ b : a \in g[j], b \in g[k]}
            BY <2>4, <2>7 DEF NodeValue, NodeValues
        <3> HIDE DEF j, k
        <3>3. f[i] \in BOOLEAN /\ g[i] \subseteq BOOLEAN /\ f[i] \in g[i]
            <4> DEFINE a == f[j]
                       b == f[k]
            <4>1. a \in g[j] /\ b \in g[k] /\ a \in BOOLEAN /\ b \in BOOLEAN
                BY <3>1
            <4>2. f[i] = (a \/ b) /\ (a \/ b) \in g[i]
                BY <3>2, <4>1
            <4>3. g[i] \subseteq BOOLEAN
                BY <3>1, <3>2
            <4> HIDE DEF a, b
            <4> QED BY <4>1, <4>2, <4>3
        <3>4. ASSUME f[i] = TRUE, ~Negative(e) PROVE g[i] = {TRUE}
            <4>1. f[j] = TRUE \/ f[k] = TRUE
                BY <3>1, <3>2, <3>4
            <4>2. g[j] = {TRUE} \/ g[k] = {TRUE}
                BY <3>1, <3>4, <4>1
            <4>3. \A a \in g[j], b \in g[k] : (a \/ b) = TRUE
                BY <3>1, <4>2
            <4>4. \A x \in g[i] : x = TRUE
                <5> SUFFICES ASSUME NEW x \in g[i] PROVE x = TRUE
                    OBVIOUS
                <5>1. \E a \in g[j], b \in g[k] : x = (a \/ b)
                    BY <3>2
                <5> QED BY <4>3, <5>1
            <4> QED BY <3>3, <3>4, <4>4
        <3>5. Right(i)
            BY <3>3, <3>4
        <3> QED BY <2>1, <3>5
    <2>8. CASE e[i].is \in Atoms
        <3>1. f[i] = EvaluateAtom(e[i], v) /\ f[i] \in BOOLEAN
            BY <2>4, <2>8, AtomsAreDecided DEF NodeValue, Atoms, Comparisons
        <3>2. g[i] = IF e[i].is \in Comparisons /\ v = Null THEN BOOLEAN ELSE {f[i]}
            <4>1. e[i].is \notin {"not", "and", "or"}
                BY <2>8 DEF Atoms, Comparisons
            <4> QED BY <2>4, <3>1, <4>1 DEF NodeValues
        <3>3. CASE e[i].is \in Comparisons /\ v = Null
            <4>1. e[i].is # "ne" => f[i] = FALSE
                BY <3>1, <3>3, NullComparesFalse
            <4>2. e[i].is = "ne" => Negative(e)
                BY <2>2 DEF Negative
            <4>3. Right(i)
                BY <3>1, <3>2, <3>3, <4>1, <4>2
            <4> QED BY <2>1, <4>3
        <3>4. CASE ~(e[i].is \in Comparisons /\ v = Null)
            <4>1. Right(i)
                BY <3>1, <3>2, <3>4
            <4> QED BY <2>1, <4>1
        <3> QED BY <3>3, <3>4
    <2> QED BY <2>3, <2>5, <2>6, <2>7, <2>8
<1>4. Right(Len(e))
    <2> HIDE DEF Right
    <2> QED BY <1>1, <1>3
<1>5. EvaluateFilter(e, v) = f[Len(e)] /\ Possible(e, v) = g[Len(e)]
    BY FiltersUnfold DEF f, g
<1> QED BY <1>4, <1>5

(* Without a filter every row is kept.                                      *)
LEMMA NoFilterKeepsAll == \A v : EvaluateFilter(NoFilter, v) = TRUE
<1> TAKE v
<1>1. IsFilter(NoFilter) /\ Len(NoFilter) = 1 /\ DOMAIN NoFilter = {1} /\ NoFilter[1].is = "all"
    <2>1. Len(NoFilter) = 1 /\ DOMAIN NoFilter = 1 .. 1 /\ NoFilter[1] = [is |-> "all"]
        BY DEF NoFilter
    <2>2. 1 .. 1 = {1}
        OBVIOUS
    <2>3. NoFilter[1].is = "all" /\ Arguments(NoFilter[1]) = {}
        <3>1. NoFilter[1].is = "all"
            BY <2>1
        <3> QED BY <3>1 DEF Arguments
    <2>4. IsFilter(NoFilter)
        <3>1. ASSUME NEW i \in DOMAIN NoFilter
              PROVE  NoFilter[i].is \in Atoms /\ Arguments(NoFilter[i]) \subseteq 1 .. i - 1
            <4>1. i = 1
                BY <2>1, <2>2
            <4> QED BY <2>3, <4>1 DEF Atoms
        <3> QED BY <2>1, <3>1 DEF IsFilter
    <2> QED BY <2>1, <2>2, <2>3, <2>4
<1> DEFINE f == ValueFun(NoFilter, v)
           F == [i \in DOMAIN NoFilter |-> NodeValue(NoFilter, v, i, f)]
<1>2. f = F
    BY <1>1, ValuesExist
<1>3. F[1] = NodeValue(NoFilter, v, 1, f)
    BY <1>1
<1>4. NodeValue(NoFilter, v, 1, f) = TRUE
    BY <1>1 DEF NodeValue, EvaluateAtom
<1>5. EvaluateFilter(NoFilter, v) = f[1]
    BY <1>1, FiltersUnfold
<1> HIDE DEF f, F
<1> QED BY <1>2, <1>3, <1>4, <1>5

(* Of a spec with at most one rewrite, the rewrite that is applied is the   *)
(* one there is.                                                            *)
LEMMA TheRewrite ==
    ASSUME SpecTyped, Cardinality(Rewrites) <= 1, ~IsBarrier(spec[1])
    PROVE  /\ Rewrites = {} => Result = InputRows
           /\ \A i \in Rewrites : /\ Rewrites = {i} /\ IsFilter(spec[i].filter)
                                  /\ Result = {r \in InputRows : EvaluateFilter(spec[i].filter, r.n)}
<1>1. Result = {r \in InputRows : EvaluateFilter(FirstRewrite(spec), r.n)}
    BY DEF Result, FilterTransform
<1>2. ASSUME Rewrites = {} PROVE Result = InputRows
    <2>1. FirstRewrite(spec) = NoFilter
        BY <1>2 DEF FirstRewrite, Rewrites
    <2> QED BY <1>1, <2>1, NoFilterKeepsAll
<1>3. ASSUME NEW i \in Rewrites
      PROVE  /\ Rewrites = {i} /\ IsFilter(spec[i].filter)
             /\ Result = {r \in InputRows : EvaluateFilter(spec[i].filter, r.n)}
    <2>1. Len(spec) \in Nat /\ DOMAIN spec = 1 .. Len(spec)
        BY DEF SpecTyped
    <2>2. Rewrites \subseteq 1 .. Len(spec)
        BY <2>1 DEF Rewrites
    <2>3. IsFiniteSet(Rewrites)
        <3>1. IsFiniteSet(1 .. Len(spec))
            BY <2>1, FS_Interval
        <3> QED BY <2>2, <3>1, FS_Subset
    <2>4. Cardinality(Rewrites) = 1
        <3>1. Cardinality(Rewrites) \in Nat
            BY <2>3, FS_CardinalityType
        <3>2. Cardinality(Rewrites) # 0
            BY <1>3, <2>3, FS_EmptySet
        <3> QED BY <3>1, <3>2
    <2>5. Rewrites = {i}
        BY <1>3, <2>3, <2>4, FS_Singleton
    <2>6. i \in Nat /\ spec[i].is = "rewrite" /\ i \in 1 .. Len(spec)
        BY <1>3, <2>1, <2>2 DEF Rewrites
    <2>7. Min({i}) = i
        BY <2>6 DEF Min
    <2>8. FirstRewrite(spec) = spec[i].filter
        BY <2>5, <2>7 DEF FirstRewrite, Rewrites
    <2> QED BY <1>1, <2>5, <2>6, <2>8, OperationsAreTyped
<1> QED BY <1>2, <1>3

(* The invariant gives the property.                                        *)
LEMMA ExecutedIsApplied == SpecInv => SpecApplied
<1> SUFFICES ASSUME SpecInv, phase = "ok", Cardinality(Rewrites) <= 1, Stale \notin OutputRows
             PROVE  /\ Wanted \subseteq OutputRows
                    /\ OutputRows \subseteq Wanted \cup Unknown
                    /\ OutputRows \cap Unknown # {} => \E i \in Rewrites : Negative(spec[i].filter)
    BY DEF SpecApplied
<1>1. SpecTyped /\ OneSegment /\ Executed
    BY DEF SpecInv, DiskFollows
<1>2. OutputRows = Result
    BY <1>1 DEF Executed
<1>3. CASE Rewrites = {}
    <2>1. Wanted = InputRows
        BY <1>3 DEF Wanted
    <2>2. Result = InputRows
        <3>1. CASE IsBarrier(spec[1])
            BY <3>1 DEF Result
        <3>2. CASE ~IsBarrier(spec[1])
            BY <1>1, <1>3, <3>2, TheRewrite
        <3> QED BY <3>1, <3>2
    <2>3. Unknown = {}
        BY <1>3 DEF Unknown
    <2> QED BY <1>2, <2>1, <2>2, <2>3
<1>4. CASE Rewrites # {}
    <2>1. PICK i \in Rewrites : TRUE
        BY <1>4
    <2>2. ~IsBarrier(spec[1])
        <3> SUFFICES ASSUME IsBarrier(spec[1]) PROVE FALSE
            OBVIOUS
        <3>1. Len(spec) = 1
            BY <1>1 DEF OneSegment, FirstEnd, SegmentEnd
        <3>2. i = 1 /\ spec[i].is = "rewrite"
            BY <1>1, <2>1, <3>1 DEF Rewrites, SpecTyped
        <3> QED BY <3>2 DEF IsBarrier
    <2>3. /\ Rewrites = {i} /\ IsFilter(spec[i].filter)
          /\ Result = {r \in InputRows : EvaluateFilter(spec[i].filter, r.n)}
        BY <1>1, <2>1, <2>2, TheRewrite
    <2> DEFINE e == spec[i].filter
    <2>4. /\ Wanted = {r \in InputRows : Possible(e, r.n) = {TRUE}}
          /\ Unknown = {r \in InputRows : Possible(e, r.n) = BOOLEAN}
        BY <2>3 DEF Wanted, Unknown
    <2> HIDE DEF e
    <2>5. \A r : /\ EvaluateFilter(e, r.n) \in BOOLEAN /\ Possible(e, r.n) \subseteq BOOLEAN
                 /\ EvaluateFilter(e, r.n) \in Possible(e, r.n)
                 /\ EvaluateFilter(e, r.n) /\ ~Negative(e) => Possible(e, r.n) = {TRUE}
        BY <2>3, ValuesArePossible DEF e
    <2>6. \A r : Possible(e, r.n) = {TRUE} => EvaluateFilter(e, r.n) = TRUE
        BY <2>5
    <2>7. \A r : EvaluateFilter(e, r.n) => Possible(e, r.n) = {TRUE} \/ Possible(e, r.n) = BOOLEAN
        BY <2>5
    <2>8. \A r : EvaluateFilter(e, r.n) /\ Possible(e, r.n) = BOOLEAN => Negative(e)
        BY <2>5
    <2>9. OutputRows = {r \in InputRows : EvaluateFilter(e, r.n)}
        BY <1>2, <2>3 DEF e
    <2>10. Wanted \subseteq OutputRows
        BY <2>4, <2>6, <2>9
    <2>11. OutputRows \subseteq Wanted \cup Unknown
        BY <2>4, <2>7, <2>9
    <2>12. OutputRows \cap Unknown # {} => Negative(e)
        BY <2>4, <2>8, <2>9
    <2> QED BY <2>1, <2>10, <2>11, <2>12 DEF e
<1> QED BY <1>3, <1>4

(* A transform spec that is run to its end has left at the output what its  *)
(* operations ask for: whatever the operations and the inputs, and however  *)
(* deep its filter nests AND, OR and NOT.                                   *)
THEOREM SpecsAreApplied == Spec => []SpecApplied
<1>1. Init => SpecInv
    BY SpecInitially DEF Init
<1> QED BY <1>1, SpecPreserved, ExecutedIsApplied, PTL DEF Spec
=============================================================================
