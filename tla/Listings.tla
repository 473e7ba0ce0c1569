------------------------------ MODULE Listings ------------------------------
(***************************************************************************)
(* The paged lists of the service: jobs (list_scan_jobs) and the assets or *)
(* findings of a run (list_assets_page, list_findings_page).  A request    *)
(* counts the matching rows and then selects a page of them, in two        *)
(* statements; a client walks the pages by offset.                         *)
(*                                                                         *)
(* A row is a number, its sort key: the submission time of a job, newest   *)
(* first, or the path or fingerprint of a run's row, smallest first.  The  *)
(* rows of a run never change; jobs are submitted and change status.  The  *)
(* label of a row is its status, inspection status or severity.            *)
(***************************************************************************)
EXTENDS ScanRuns

CONSTANTS Keys,       \* sort keys
          Limits,     \* page sizes clients ask for
          MaxPage     \* MAX_PAGE_SIZE

ASSUME ListingAssumption ==
    /\ Keys \subseteq Nat /\ IsFiniteSet(Keys)
    /\ Limits \subseteq Nat /\ MaxPage \in Nat \ {0}
    /\ None \notin {"queued", "running"}

VARIABLES status,   \* key -> status label of the row, None: no such row
          list,     \* which list is walked, with which filter
          walk      \* the client's walk

listingVars == <<status, list, walk>>

Labels == {"queued", "running"}
Lists == [of : {"jobs", "assets", "findings"}, label : {None, "queued"}, code : {None, 0},
          limit : Limits, until : {"total", "short page"}]

(* A finding has a code beside its severity; the other lists have no such   *)
(* filter.                                                                  *)
CodeOf(k) == k % 2

ListingsInit ==
    /\ status \in Choose1("lists", [Keys -> {"queued", None}])
    /\ list \in Choose1("lists", {l \in Lists : l.code # None => l.of = "findings"})
    /\ walk = [pc |-> "count", offset |-> 0, total |-> 0, got |-> <<>>,
               start |-> {k \in Keys : status[k] # None}]
-----------------------------------------------------------------------------
Rows == {k \in Keys : status[k] # None}

(* WHERE of the three lists; a filter that is not given lets all rows pass. *)
Passes(filter, value) == filter \in {None, value}

JobsMatching == {k \in Rows : Passes(list.label, status[k])}
AssetsMatching == {k \in Rows : Passes(list.label, status[k])}
FindingsMatching == {k \in Rows : Passes(list.label, status[k]) /\ Passes(list.code, CodeOf(k))}

Matching == CASE list.of = "jobs" -> JobsMatching
              [] list.of = "assets" -> AssetsMatching
              [] list.of = "findings" -> FindingsMatching

Before(k, m) == IF list.of = "jobs" THEN k > m ELSE k < m

(* The position of a matching row in the ordered result. *)
Rank(k) == Cardinality({m \in Matching : Before(m, k)}) + 1

Clamp(n) == IF n < 1 THEN 1 ELSE IF n > MaxPage THEN MaxPage ELSE n

(* ORDER BY key LIMIT limit OFFSET offset *)
RowsFrom(first, limit) ==
    LET on == {k \in Matching : Rank(k) > first /\ Rank(k) <= first + limit}
    IN  [i \in 1 .. Cardinality(on) |-> CHOOSE k \in on : Rank(k) = first + i]

\* Mutant: the offset is taken for the number of a page.
PageNumber(offset, limit) == RowsFrom(offset * limit, limit)

Page(offset, limit) == RowsFrom(offset, limit)

(* count_scan_jobs, count_assets, count_findings. *)
CountRows ==
    /\ walk.pc = "count"
    /\ walk' = [walk EXCEPT !.pc = "page", !.total = Cardinality(Matching)]
    /\ UNCHANGED <<status, list>>

(* The page, and the client's decision whether to ask for another one. *)
ListPage ==
    LET limit == Clamp(list.limit)
        page == Page(walk.offset, limit)
        over == IF list.until = "total" THEN walk.offset + limit >= walk.total ELSE Len(page) < limit
    IN  /\ walk.pc = "page"
        /\ walk' = [walk EXCEPT !.pc = IF over THEN "done" ELSE "count",
                                !.got = @ \o page, !.offset = @ + limit]
        /\ UNCHANGED <<status, list>>

(* insert_application_job takes the time before it inserts, so a row may   *)
(* appear behind one that is already there.                                *)
InsertJob ==
    /\ list.of = "jobs" /\ walk.pc # "done"
    /\ \E k \in Keys \ Rows : status' = [status EXCEPT ![k] = "queued"]
    /\ UNCHANGED <<list, walk>>

JobStarts ==
    /\ list.of = "jobs" /\ walk.pc # "done"
    /\ \E k \in Rows : status[k] = "queued" /\ status' = [status EXCEPT ![k] = "running"]
    /\ UNCHANGED <<list, walk>>

ListingStep == CountRows \/ ListPage \/ InsertJob \/ JobStarts
-----------------------------------------------------------------------------
Got == {walk.got[i] : i \in DOMAIN walk.got}

\* A walk misses no row that was there when it began and still matches: over
\* the rows of a run always, and each row exactly once; over all jobs when the
\* client goes on until a page comes back short.  (A walk over jobs by total, or
\* over the queued jobs only, misses rows: the count is older than the page, and
\* a job that starts moves the ones behind it forward.)
WalkSeesEveryRow ==
    walk.pc = "done" =>
        /\ list.of # "jobs" => Got = Matching /\ Len(walk.got) = Cardinality(Matching)
        /\ list.of = "jobs" /\ list.label = None /\ list.until = "short page" => walk.start \subseteq Got
=============================================================================
