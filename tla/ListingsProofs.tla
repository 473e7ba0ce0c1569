--------------------------- MODULE ListingsProofs ---------------------------
(***************************************************************************)
(* Proofs about the paged lists of the Service, for every set of rows,     *)
(* every page size and every interleaving of a walk with new jobs.         *)
(***************************************************************************)
EXTENDS Service, FiniteSetTheorems, FunctionTheorems, TLAPS

ListTypes ==
  /\ status \in [Keys -> Labels \cup {None}]
  /\ list \in {l \in Lists : l.code # None => l.of = "findings"}
  /\ walk \in [pc : {"count", "page", "done"}, offset : Nat, total : Nat,
               got : Seq(Keys), start : SUBSET Keys]

\* The rows of a run do not change, so that a walk has exactly the rows up to its
\* offset and knows how many there are.
StaticWalk ==
  list.of # "jobs" =>
    /\ Got = {k \in Matching : Rank(k) <= walk.offset}
    /\ Len(walk.got) = IF walk.offset <= Cardinality(Matching) THEN walk.offset ELSE Cardinality(Matching)
    /\ walk.pc = "page" => walk.total = Cardinality(Matching)
    /\ walk.pc = "done" => Cardinality(Matching) <= walk.offset

\* New jobs only push the rows of the beginning back: the ones that are not behind
\* the offset were seen.
JobsWalk ==
  list.of = "jobs" /\ list.label = None =>
    /\ walk.start \subseteq Rows
    /\ \A k \in walk.start : Rank(k) <= walk.offset => k \in Got
    /\ walk.pc = "done" /\ list.until = "short page" => \A k \in walk.start : Rank(k) <= walk.offset

ListInv ==
  /\ area # "lists" => walk.pc = "count" /\ walk.got = <<>> /\ status \in [Keys -> Labels \cup {None}]
  /\ area = "lists" => ListTypes /\ StaticWalk /\ JobsWalk
-----------------------------------------------------------------------------

\* The rows that match are rows, and finitely many.
LEMMA MatchingIsFinite ==
  ASSUME ListTypes
  PROVE  /\ Matching \subseteq Rows /\ Matching \subseteq Keys /\ Matching \subseteq Nat
         /\ IsFiniteSet(Matching) /\ Cardinality(Matching) \in Nat
<1>1. list.of \in {"jobs", "assets", "findings"}
  BY DEF ListTypes, Lists
<1>2. Matching \subseteq Rows
  BY <1>1 DEF Matching, JobsMatching, AssetsMatching, FindingsMatching
<1>3. Rows \subseteq Keys
  BY DEF Rows
<1>4. IsFiniteSet(Matching)
  BY <1>2, <1>3, FS_Subset, ListingAssumption
<1>5. QED
  BY <1>2, <1>3, <1>4, FS_CardinalityType, ListingAssumption

\* The order of a list is a strict order of its rows.
LEMMA BeforeIsOrder ==
  /\ \A k \in Nat : ~Before(k, k)
  /\ \A k, m \in Nat : k = m \/ Before(k, m) \/ Before(m, k)
  /\ \A k, m, n \in Nat : Before(k, m) /\ Before(m, n) => Before(k, n)
BY DEF Before

\* Rows that come earlier have smaller positions, between 1 and the number of rows.
LEMMA RankIsMonotone ==
  ASSUME ListTypes
  PROVE  /\ \A k \in Matching : Rank(k) \in 1 .. Cardinality(Matching)
         /\ \A k, m \in Matching : Before(k, m) => Rank(k) < Rank(m)
<1> DEFINE Ahead(k) == {x \in Matching : Before(x, k)}
<1>1. \A k \in Matching : IsFiniteSet(Ahead(k)) /\ Cardinality(Ahead(k)) \in Nat
  BY MatchingIsFinite, FS_Subset, FS_CardinalityType
<1>2. ASSUME NEW k \in Matching PROVE Rank(k) \in 1 .. Cardinality(Matching)
  <2>1. Ahead(k) \subseteq Matching /\ Ahead(k) # Matching
    BY MatchingIsFinite, BeforeIsOrder
  <2>2. Cardinality(Ahead(k)) <= Cardinality(Matching) /\ Cardinality(Ahead(k)) # Cardinality(Matching)
    BY <2>1, MatchingIsFinite, FS_Subset
  <2> HIDE DEF Ahead
  <2>3. Rank(k) = Cardinality(Ahead(k)) + 1
    BY DEF Rank, Ahead
  <2>4. QED
    BY <1>1, <2>2, <2>3, MatchingIsFinite
<1>3. ASSUME NEW k \in Matching, NEW m \in Matching, Before(k, m) PROVE Rank(k) < Rank(m)
  <2>1. Ahead(k) \subseteq Ahead(m) /\ Ahead(k) # Ahead(m)
    BY <1>3, MatchingIsFinite, BeforeIsOrder
  <2>2. Cardinality(Ahead(k)) <= Cardinality(Ahead(m)) /\ Cardinality(Ahead(k)) # Cardinality(Ahead(m))
    BY <1>1, <2>1, FS_Subset
  <2> HIDE DEF Ahead
  <2>3. Rank(k) = Cardinality(Ahead(k)) + 1 /\ Rank(m) = Cardinality(Ahead(m)) + 1
    BY DEF Rank, Ahead
  <2>4. QED
    BY <1>1, <2>2, <2>3
<1>4. QED
  BY <1>2, <1>3

\* Every position is the position of exactly one row.
LEMMA RankIsBijection ==
  ASSUME ListTypes
  PROVE  /\ \A k, m \in Matching : Rank(k) = Rank(m) => k = m
         /\ \A i \in 1 .. Cardinality(Matching) : \E k \in Matching : Rank(k) = i
<1> DEFINE N == Cardinality(Matching)
           f == [k \in Matching |-> Rank(k)]
<1>0. N \in Nat /\ IsFiniteSet(Matching)
  BY MatchingIsFinite
<1>1. f \in [Matching -> 1 .. N]
  BY RankIsMonotone
<1>2. ASSUME NEW k \in Matching, NEW m \in Matching, Rank(k) = Rank(m) PROVE k = m
  <2>1. Rank(k) \in Nat
    BY RankIsMonotone, <1>0
  <2>2. ~Before(k, m) /\ ~Before(m, k)
    BY <1>2, <2>1, RankIsMonotone
  <2>3. QED
    BY <2>2, MatchingIsFinite, BeforeIsOrder
<1>3. \A k, m \in Matching : f[k] = f[m] => k = m
  BY <1>2
<1>4. IsFiniteSet(1 .. N) /\ Cardinality(1 .. N) = N
  BY <1>0, FS_Interval
<1> HIDE DEF f, N
<1>5. f \in Injection(Matching, 1 .. N)
  BY <1>1, <1>3, Fun_IsInj
<1>6. f \in Surjection(Matching, 1 .. N)
  <2>1. Cardinality(Matching) = Cardinality(1 .. N)
    BY <1>4 DEF N
  <2>2. QED
    BY <1>4, <1>5, <2>1, FS_Injection
<1>7. \A i \in 1 .. N : \E k \in Matching : f[k] = i
  BY <1>6, Fun_SurjectionProperties
<1>8. QED
  BY <1>2, <1>7 DEF f, N

\* A page is the rows at the positions behind its offset, each once: as many as
\* were asked for, or what is left.
LEMMA PageHoldsPositions ==
  ASSUME ListTypes, NEW first \in Nat, NEW limit \in Nat
  PROVE  LET N == Cardinality(Matching)
             left == IF N <= first THEN 0 ELSE IF N - first < limit THEN N - first ELSE limit
         IN  /\ Page(first, limit) \in Seq(Keys) /\ Len(Page(first, limit)) = left
             /\ \A k : (\E i \in 1 .. left : Page(first, limit)[i] = k)
                         <=> k \in Matching /\ Rank(k) > first /\ Rank(k) <= first + limit
<1> DEFINE N == Cardinality(Matching)
           left == IF N <= first THEN 0 ELSE IF N - first < limit THEN N - first ELSE limit
           on == {k \in Matching : Rank(k) > first /\ Rank(k) <= first + limit}
           page == [i \in 1 .. left |-> CHOOSE k \in on : Rank(k) = first + i]
<1>1. N \in Nat /\ left \in Nat
  BY MatchingIsFinite
<1>2. ASSUME NEW i \in 1 .. left PROVE \E k \in on : Rank(k) = first + i
  <2>1. first + i \in 1 .. N /\ first + i > first /\ first + i <= first + limit
    BY <1>1
  <2>2. QED
    BY <2>1, RankIsBijection
<1>3. ASSUME NEW i \in 1 .. left PROVE page[i] \in on /\ Rank(page[i]) = first + i
  BY <1>2
<1>4. ASSUME NEW k \in on PROVE \E i \in 1 .. left : page[i] = k
  <2>1. Rank(k) \in 1 .. N /\ Rank(k) > first /\ Rank(k) <= first + limit
    BY RankIsMonotone
  <2> DEFINE i == Rank(k) - first
  <2>2. i \in 1 .. left /\ first + i = Rank(k)
    BY <1>1, <2>1
  <2> HIDE DEF i
  <2>3. page[i] \in Matching /\ Rank(page[i]) = Rank(k)
    BY <1>3, <2>2
  <2>4. page[i] = k
    BY <2>3, RankIsBijection
  <2>5. QED
    BY <2>2, <2>4
<1>5. on \subseteq Matching /\ on \subseteq Keys
  BY MatchingIsFinite
<1> HIDE DEF N, left, on
<1>6. Cardinality(on) = left
  <2>1. page \in [1 .. left -> on]
    BY <1>2
  <2>2. ASSUME NEW i \in 1 .. left, NEW j \in 1 .. left, page[i] = page[j] PROVE i = j
    BY <1>1, <1>3, <2>2
  <2> HIDE DEF page
  <2>3. page \in Bijection(1 .. left, on)
    BY <1>4, <2>1, <2>2, Fun_IsBij
  <2>4. ExistsBijection(1 .. left, on)
    BY <2>3 DEF ExistsBijection
  <2>5. QED
    BY <1>1, <2>4, FS_CountingElements
<1>7. Page(first, limit) = page
  BY <1>6 DEF Page, RowsFrom, on
<1>8. page \in Seq(Keys) /\ Len(page) = left
  <2>1. page \in [1 .. left -> Keys]
    BY <1>2, <1>5
  <2>2. QED
    BY <1>1, <2>1
<1> HIDE DEF page
<1>9. \A k : (\E i \in 1 .. left : page[i] = k) <=> k \in on
  BY <1>3, <1>4
<1>10. QED
  BY <1>7, <1>8, <1>9 DEF N, left, on

LEMMA ElementsOfConcat ==
  \A s, t \in Seq(Keys) : {(s \o t)[i] : i \in DOMAIN (s \o t)}
                              = {s[i] : i \in DOMAIN s} \cup {t[i] : i \in 1 .. Len(t)}
<1> TAKE s, t \in Seq(Keys)
<1> DEFINE u == s \o t
<1>1. u \in Seq(Keys) /\ Len(u) = Len(s) + Len(t) /\ Len(s) \in Nat /\ Len(t) \in Nat
  OBVIOUS
<1>2. DOMAIN s = 1 .. Len(s) /\ DOMAIN u = 1 .. Len(u)
  BY <1>1
<1>3. \A i \in 1 .. Len(s) : i \in 1 .. Len(u) /\ u[i] = s[i]
  BY <1>1
<1>4. \A i \in 1 .. Len(t) : Len(s) + i \in 1 .. Len(u) /\ u[Len(s) + i] = t[i]
  BY <1>1
<1>5. \A i \in 1 .. Len(u) : \/ i \in 1 .. Len(s) /\ u[i] = s[i]
                             \/ i - Len(s) \in 1 .. Len(t) /\ u[i] = t[i - Len(s)]
  BY <1>1
<1> HIDE DEF u
<1>6. {u[i] : i \in 1 .. Len(u)} = {s[i] : i \in 1 .. Len(s)} \cup {t[i] : i \in 1 .. Len(t)}
  <2>1. ASSUME NEW k \in {u[i] : i \in 1 .. Len(u)}
        PROVE  k \in {s[i] : i \in 1 .. Len(s)} \cup {t[i] : i \in 1 .. Len(t)}
    BY <1>5, <2>1
  <2>2. {s[i] : i \in 1 .. Len(s)} \subseteq {u[i] : i \in 1 .. Len(u)}
    BY <1>3
  <2>3. {t[i] : i \in 1 .. Len(t)} \subseteq {u[i] : i \in 1 .. Len(u)}
    BY <1>4
  <2>4. QED
    BY <2>1, <2>2, <2>3
<1>7. QED
  BY <1>2, <1>6 DEF u

\* What a request for a page brings: the rows at the next positions.
LEMMA PageExtendsTheWalk ==
  ASSUME ListTypes, ListPage
  PROVE  LET limit == Clamp(list.limit)
             N == Cardinality(Matching)
         IN  /\ limit \in Nat \ {0} /\ UNCHANGED <<status, list>>
             /\ walk' \in [pc : {"count", "done"}, offset : Nat, total : Nat,
                           got : Seq(Keys), start : SUBSET Keys]
             /\ walk'.offset = walk.offset + limit
             /\ walk'.start = walk.start
             /\ Got' = Got \cup {k \in Matching : Rank(k) > walk.offset /\ Rank(k) <= walk.offset + limit}
             /\ Len(walk'.got) = Len(walk.got)
                   + (IF N <= walk.offset THEN 0 ELSE IF N - walk.offset < limit THEN N - walk.offset ELSE limit)
             /\ walk'.pc = "done" => IF list.until = "total" THEN walk.offset + limit >= walk.total
                                     ELSE N < walk.offset + limit
<1> DEFINE limit == Clamp(list.limit)
           first == walk.offset
           N == Cardinality(Matching)
           left == IF N <= first THEN 0 ELSE IF N - first < limit THEN N - first ELSE limit
           page == Page(first, limit)
<1>1. limit \in Nat \ {0} /\ first \in Nat /\ walk.got \in Seq(Keys) /\ walk.start \subseteq Keys /\ walk.total \in Nat
  <2>1. first \in Nat /\ walk.got \in Seq(Keys) /\ walk.start \subseteq Keys /\ walk.total \in Nat
    BY DEF ListTypes
  <2>2. list.limit \in Nat
    BY ListingAssumption DEF ListTypes, Lists
  <2>3. limit \in Nat \ {0}
    BY <2>2, ListingAssumption DEF Clamp
  <2>4. QED
    BY <2>1, <2>3
<1>2. N \in Nat
  BY MatchingIsFinite
<1>3. /\ page \in Seq(Keys) /\ Len(page) = left
      /\ \A k : (\E i \in 1 .. left : page[i] = k)
                  <=> k \in Matching /\ Rank(k) > first /\ Rank(k) <= first + limit
  BY <1>1, PageHoldsPositions
<1> DEFINE over == IF list.until = "total" THEN first + limit >= walk.total ELSE Len(page) < limit
<1>4. /\ walk' = [walk EXCEPT !.pc = IF over THEN "done" ELSE "count",
                              !.got = @ \o page, !.offset = @ + limit]
      /\ UNCHANGED <<status, list>>
  BY DEF ListPage
<1> HIDE DEF limit, page, over, N
<1>5. /\ walk'.pc = (IF over THEN "done" ELSE "count") /\ walk'.got = walk.got \o page
      /\ walk'.offset = first + limit /\ walk'.start = walk.start /\ walk'.total = walk.total
      /\ walk' \in [pc : {"count", "done"}, offset : Nat, total : Nat, got : Seq(Keys), start : SUBSET Keys]
  <2>1. walk.got \o page \in Seq(Keys) /\ first + limit \in Nat
    BY <1>1, <1>3
  <2> DEFINE then == IF over THEN "done" ELSE "count"
             now == first + limit
             all == walk.got \o page
  <2>2. walk' = [walk EXCEPT !.pc = then, !.got = all, !.offset = now] /\ then \in {"count", "done"}
    BY <1>4
  <2> HIDE DEF then, now, all
  <2>3. /\ walk'.pc = then /\ walk'.got = all /\ walk'.offset = now
        /\ walk'.start = walk.start /\ walk'.total = walk.total
    BY <2>2 DEF ListTypes
  <2>4. walk' \in [pc : {"count", "done"}, offset : Nat, total : Nat, got : Seq(Keys), start : SUBSET Keys]
    <3>1. all \in Seq(Keys) /\ now \in Nat
      BY <2>1 DEF all, now
    <3>2. QED
      BY <2>2, <3>1 DEF ListTypes
  <2>5. QED
    BY <2>3, <2>4 DEF then, now, all
<1>6. Got' = Got \cup {k \in Matching : Rank(k) > first /\ Rank(k) <= first + limit}
  <2>1. Got' = {walk.got[i] : i \in DOMAIN walk.got} \cup {page[i] : i \in 1 .. Len(page)}
    <3>1. Got' = {(walk.got \o page)[i] : i \in DOMAIN (walk.got \o page)}
      BY <1>5 DEF Got
    <3>2. walk.got \in Seq(Keys) /\ page \in Seq(Keys)
      BY <1>1, <1>3
    <3>3. {(walk.got \o page)[i] : i \in DOMAIN (walk.got \o page)}
            = {walk.got[i] : i \in DOMAIN walk.got} \cup {page[i] : i \in 1 .. Len(page)}
      BY <3>2, ElementsOfConcat, Zenon
    <3>4. QED
      BY <3>1, <3>3
  <2>2. {page[i] : i \in 1 .. Len(page)} = {k \in Matching : Rank(k) > first /\ Rank(k) <= first + limit}
    BY <1>3
  <2>3. QED
    BY <2>1, <2>2 DEF Got
<1>7. Len(walk'.got) = Len(walk.got) + left
  BY <1>1, <1>3, <1>5, SMTT(30)
<1>8. walk'.pc = "done" => IF list.until = "total" THEN first + limit >= walk.total ELSE N < first + limit
  BY <1>1, <1>2, <1>3, <1>5 DEF over
<1>9. QED
  BY <1>1, <1>4, <1>5, <1>6, <1>7, <1>8 DEF limit, N
-----------------------------------------------------------------------------

\* Without a filter every job matches.
LEMMA AllJobsMatch == ASSUME list.of = "jobs", list.label = None PROVE Matching = Rows
BY DEF Matching, JobsMatching, Passes

LEMMA CountKeeps ==
  ASSUME ListTypes, StaticWalk, JobsWalk, CountRows PROVE ListTypes' /\ StaticWalk' /\ JobsWalk'
<1>1. /\ walk' = [walk EXCEPT !.pc = "page", !.total = Cardinality(Matching)]
      /\ UNCHANGED <<status, list>>
  BY DEF CountRows
<1>2. Cardinality(Matching) \in Nat
  BY MatchingIsFinite
<1>3. /\ walk'.pc = "page" /\ walk'.total = Cardinality(Matching)
      /\ UNCHANGED <<walk.got, walk.offset, walk.start>>
  BY <1>1 DEF ListTypes
<1>4. ListTypes'
  BY <1>1, <1>2 DEF ListTypes
<1>5. Matching' = Matching /\ Got' = Got /\ Rows' = Rows /\ \A k : Rank(k)' = Rank(k)
  BY <1>1, <1>3 DEF Rows, Matching, JobsMatching, AssetsMatching, FindingsMatching, Got, Rank, Before
<1>6. StaticWalk' /\ JobsWalk'
  BY <1>1, <1>3, <1>5 DEF StaticWalk, JobsWalk
<1>7. QED
  BY <1>4, <1>6

LEMMA PageKeeps ==
  ASSUME ListTypes, StaticWalk, JobsWalk, ListPage PROVE ListTypes' /\ StaticWalk' /\ JobsWalk'
<1> DEFINE limit == Clamp(list.limit)
           N == Cardinality(Matching)
           next == {k \in Matching : Rank(k) > walk.offset /\ Rank(k) <= walk.offset + limit}
<1>1. /\ limit \in Nat \ {0} /\ UNCHANGED <<status, list>>
      /\ walk' \in [pc : {"count", "done"}, offset : Nat, total : Nat, got : Seq(Keys), start : SUBSET Keys]
      /\ walk'.offset = walk.offset + limit /\ walk'.start = walk.start /\ Got' = Got \cup next
      /\ Len(walk'.got) = Len(walk.got)
            + (IF N <= walk.offset THEN 0 ELSE IF N - walk.offset < limit THEN N - walk.offset ELSE limit)
      /\ walk'.pc = "done" => IF list.until = "total" THEN walk.offset + limit >= walk.total
                              ELSE N < walk.offset + limit
  BY PageExtendsTheWalk
<1>2. N \in Nat /\ walk.offset \in Nat /\ Matching \subseteq Keys
  BY MatchingIsFinite DEF ListTypes
<1>3. \A k \in Matching : Rank(k) \in Nat /\ Rank(k) <= N
  BY <1>2, RankIsMonotone
<1>4. ListTypes'
  BY <1>1 DEF ListTypes
<1>5. Matching' = Matching /\ Rows' = Rows /\ \A k : Rank(k)' = Rank(k)
  BY <1>1 DEF Rows, Matching, JobsMatching, AssetsMatching, FindingsMatching, Rank, Before
<1> HIDE DEF limit
<1>6. StaticWalk'
  <2> SUFFICES ASSUME list.of # "jobs" PROVE StaticWalk'
    BY <1>1 DEF StaticWalk
  <2>1. Got' = {k \in Matching : Rank(k) <= walk'.offset}
    BY <1>1, <1>2, <1>3 DEF StaticWalk
  <2>2. Len(walk'.got) = IF walk'.offset <= N THEN walk'.offset ELSE N
    BY <1>1, <1>2 DEF StaticWalk
  <2>3. walk.total = N
    BY DEF ListPage, StaticWalk
  <2>4. walk'.pc = "done" => N <= walk'.offset
    BY <1>1, <1>2, <2>3
  <2>5. walk'.pc # "page"
    BY <1>1
  <2> HIDE DEF N
  <2>6. N = Cardinality(Matching)
    BY DEF N
  <2>7. QED
    BY <1>5, <2>1, <2>2, <2>4, <2>5, <2>6 DEF StaticWalk
<1>7. JobsWalk'
  <2> SUFFICES ASSUME list.of = "jobs", list.label = None PROVE JobsWalk'
    BY <1>1 DEF JobsWalk
  <2>1. walk.start \subseteq Matching
    BY AllJobsMatch DEF JobsWalk
  <2>2. ASSUME NEW k \in walk.start, Rank(k) <= walk'.offset PROVE k \in Got'
    <3>1. Rank(k) \in Nat /\ k \in Matching
      BY <1>3, <2>1
    <3>2. CASE Rank(k) <= walk.offset
      BY <1>1, <3>2 DEF JobsWalk
    <3>3. CASE Rank(k) > walk.offset
      BY <1>1, <2>2, <3>1, <3>3
    <3>4. QED
      BY <1>2, <3>1, <3>2, <3>3
  <2>3. ASSUME walk'.pc = "done", list.until = "short page", NEW k \in walk.start
        PROVE  Rank(k) <= walk'.offset
    <3>1. N < walk'.offset /\ walk'.offset \in Nat
      BY <1>1, <2>3
    <3>2. Rank(k) \in Nat /\ Rank(k) <= N
      BY <1>3, <2>1
    <3> HIDE DEF N
    <3>3. QED
      BY <1>2, <3>1, <3>2
  <2>4. QED
    BY <1>1, <1>5, <2>2, <2>3 DEF JobsWalk
<1>8. QED
  BY <1>4, <1>6, <1>7

\* Whatever happens to the jobs, a row that is there moves only to larger positions.
LEMMA JobsKeep ==
  ASSUME ListTypes, StaticWalk, JobsWalk, InsertJob \/ JobStarts
  PROVE  ListTypes' /\ StaticWalk' /\ JobsWalk'
<1>1. list.of = "jobs" /\ walk.pc # "done" /\ UNCHANGED <<list, walk>>
  BY DEF InsertJob, JobStarts
<1>2. PICK j \in Keys, l \in Labels : status' = [status EXCEPT ![j] = l]
  BY DEF InsertJob, JobStarts, Rows, Labels
<1>3. ListTypes'
  BY <1>1, <1>2 DEF ListTypes
<1>4. Rows \subseteq Rows'
  <2>1. None \notin Labels
    BY ListingAssumption DEF Labels
  <2>2. QED
    BY <1>2, <2>1 DEF Rows, ListTypes
<1>5. StaticWalk'
  BY <1>1 DEF StaticWalk
<1>6. JobsWalk'
  <2> SUFFICES ASSUME list.label = None PROVE JobsWalk'
    BY <1>1 DEF JobsWalk
  <2>1. Matching = Rows /\ Matching' = Rows'
    BY <1>1, AllJobsMatch DEF Matching, JobsMatching, Passes
  <2>2. IsFiniteSet(Rows')
    BY FS_Subset, ListingAssumption DEF Rows
  <2>3. ASSUME NEW k \in walk.start, Rank(k)' <= walk.offset PROVE Rank(k) <= walk.offset
    <3> DEFINE Now == {m \in Rows : Before(m, k)}
               Then == {m \in Rows' : Before(m, k)}
    <3>1. Now \subseteq Then /\ Then \subseteq Rows'
      BY <1>4
    <3>2. /\ IsFiniteSet(Then) /\ IsFiniteSet(Now) /\ Cardinality(Now) <= Cardinality(Then)
          /\ Cardinality(Now) \in Nat /\ Cardinality(Then) \in Nat
      BY <2>2, <3>1, FS_Subset, FS_CardinalityType
    <3>3. Rank(k) = Cardinality(Now) + 1 /\ Rank(k)' = Cardinality(Then) + 1
      BY <1>1, <2>1 DEF Rank, Before
    <3> HIDE DEF Now, Then
    <3>4. walk.offset \in Nat
      BY DEF ListTypes
    <3>5. QED
      BY <2>3, <3>2, <3>3, <3>4
  <2>4. Got' = Got
    BY <1>1 DEF Got
  <2>5. QED
    BY <1>1, <1>4, <2>3, <2>4 DEF JobsWalk
<1>7. QED
  BY <1>3, <1>5, <1>6
-----------------------------------------------------------------------------

\* No step of the service breaks the invariant of the lists.
LEMMA ListInvInductive == ListInv /\ [Next]_vars => ListInv'
<1> SUFFICES ASSUME ListInv, [Next]_vars PROVE ListInv'
  OBVIOUS
<1>1. UNCHANGED area
  BY DEF Next, vars
<1>2. CASE UNCHANGED listingVars
  <2>1. UNCHANGED <<status, list, walk>>
    BY <1>2 DEF listingVars
  <2>2. UNCHANGED <<Matching, Rows, Got>> /\ \A k : Rank(k)' = Rank(k)
    BY <2>1 DEF Got, Rank, Before, Rows, Matching, JobsMatching, AssetsMatching, FindingsMatching
  <2>3. ListTypes' = ListTypes /\ StaticWalk' = StaticWalk /\ JobsWalk' = JobsWalk
    BY <2>1, <2>2 DEF ListTypes, StaticWalk, JobsWalk
  <2>4. QED
    BY <1>1, <2>1, <2>3 DEF ListInv
<1>3. CASE area = "lists" /\ ListingStep
  BY <1>1, <1>3, CountKeeps, PageKeeps, JobsKeep DEF ListInv, ListingStep
<1>4. QED
  BY <1>2, <1>3 DEF Next, vars

LEMMA ListInvHolds == Spec => []ListInv
<1>1. Init => ListInv
  <2> SUFFICES ASSUME Init PROVE ListInv
    OBVIOUS
  <2> DEFINE Choices == {l \in Lists : l.code # None => l.of = "findings"}
  <2>1. /\ status \in Choose1("lists", [Keys -> {"queued", None}])
        /\ list \in Choose1("lists", Choices)
        /\ walk = [pc |-> "count", offset |-> 0, total |-> 0, got |-> <<>>,
                   start |-> {k \in Keys : status[k] # None}]
    BY DEF Init, ListingsInit
  <2>2. status \in [Keys -> {"queued", None}]
    <3>1. [k \in Keys |-> None] \in [Keys -> {"queued", None}]
      OBVIOUS
    <3>2. QED
      BY <2>1, <3>1 DEF Choose1
  <2>3. status \in [Keys -> Labels \cup {None}]
    BY <2>2 DEF Labels
  <2>4. walk.pc = "count" /\ walk.got = <<>> /\ walk.offset = 0 /\ walk.start = Rows
    BY <2>1 DEF Rows
  <2>5. ASSUME area = "lists" PROVE ListTypes /\ StaticWalk /\ JobsWalk
    <3>1. list \in Choices
      BY <2>1, <2>5 DEF Choose1
    <3>2. ListTypes
      BY <2>1, <2>3, <3>1 DEF ListTypes
    <3>3. Got = {}
      BY <2>4 DEF Got
    <3>4. Cardinality(Matching) \in Nat /\ \A k \in Matching : Rank(k) > 0 /\ ~(Rank(k) <= 0)
      BY <3>2, MatchingIsFinite, RankIsMonotone
    <3>5. StaticWalk
      BY <2>4, <3>3, <3>4 DEF StaticWalk
    <3>6. JobsWalk
      BY <2>4, <3>4, AllJobsMatch DEF JobsWalk
    <3>7. QED
      BY <3>2, <3>5, <3>6
  <2>6. QED
    BY <2>3, <2>4, <2>5 DEF ListInv
<1>2. QED
  BY <1>1, ListInvInductive, PTL DEF Spec

\* A walk through the pages of a run's assets or findings brings every matching row
\* exactly once, and a walk over all jobs until a short page misses none that was
\* there at its beginning, however many jobs arrive meanwhile (list_assets_page,
\* list_findings_page, list_scan_jobs).
THEOREM WalksMissNothing == Spec => []WalkSeesEveryRow
<1>1. ListInv => WalkSeesEveryRow
  <2> SUFFICES ASSUME ListInv, walk.pc = "done" PROVE WalkSeesEveryRow
    BY DEF WalkSeesEveryRow
  <2>1. ListTypes /\ StaticWalk /\ JobsWalk
    BY DEF ListInv
  <2>2. walk.offset \in Nat /\ Cardinality(Matching) \in Nat
    BY <2>1, MatchingIsFinite DEF ListTypes
  <2>3. ASSUME list.of # "jobs" PROVE Got = Matching /\ Len(walk.got) = Cardinality(Matching)
    <3>1. \A k \in Matching : Rank(k) <= walk.offset
      BY <2>1, <2>2, <2>3, RankIsMonotone DEF StaticWalk
    <3>2. Got = Matching
      BY <2>1, <2>3, <3>1 DEF StaticWalk
    <3>3. Cardinality(Matching) <= walk.offset
      BY <2>1, <2>3 DEF StaticWalk
    <3>4. Len(walk.got) = Cardinality(Matching)
      BY <2>1, <2>2, <2>3, <3>3 DEF StaticWalk
    <3>5. QED
      BY <3>2, <3>4
  <2>4. QED
    BY <2>1, <2>3 DEF JobsWalk, WalkSeesEveryRow
<1>2. QED
  BY <1>1, ListInvHolds, PTL
=============================================================================
