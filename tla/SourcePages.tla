---------------------------- MODULE SourcePages ----------------------------
(***************************************************************************)
(* The scrape stage of one platform: the page loops of the live sources    *)
(* (one fetcher per keyword, all of them started together), the adapters   *)
(* they read pages and details with, and the writing of raw rows through   *)
(* the one database session that the fetchers share.                       *)
(*                                                                         *)
(* A site lists jobs, newest first, and may change between two pages.  An  *)
(* adapter is modelled by what it makes of an answer: the jobs of the page *)
(* and the platform's own test for the last page.                          *)
(***************************************************************************)
EXTENDS Integers, Sequences, SequencesExt, FiniteSets

CONSTANTS
  Platforms,   \* platforms to scrape, one in each behaviour
  Keywords,    \* keywords, each with a fetcher of its own
  Jobs,        \* external ids
  Slugless,    \* jobs that a site lists without a slug
  Listings,    \* what the site may list at the start: sequences of jobs
  Limit,       \* requested_limit of the sources
  KeywordCap,  \* scraper_max_items_per_keyword
  RunCap,      \* scraper_max_items_per_source_run
  PageSetting, \* page size setting of the platform
  Served,      \* page size of sites that choose it themselves
  MaxPages,    \* scraper_max_pages_per_keyword
  MaxMoves     \* bound: changes and wrong answers of the site

ASSUME PlatformsAssumption ==
  Platforms \subseteq {"fixture", "dealls", "glints", "jobstreet", "kalibrr", "kitalulus"}
ASSUME ListingsAssumption ==
  Listings \subseteq Seq(Jobs) /\ \A l \in Listings : IsInjective(l)
ASSUME LimitsAssumption ==
  /\ {Limit, KeywordCap, RunCap, PageSetting, Served, MaxPages} \subseteq Nat \ {0}
  /\ MaxMoves \in Nat
  /\ Slugless \subseteq Jobs
  /\ 1..Limit \subseteq Jobs

VARIABLES
  platform,  \* platform of the stage
  site,      \* site[k]: what the site lists for keyword k
  moves,     \* changes and wrong answers so far
  moved,     \* history: keywords whose pages did not come from one listing
  blocked,   \* challenge_state, shared by the JobStreet fetchers
  f,         \* f[k]: the fetcher of keyword k
  session,   \* session[j]: the raw row of j as the session sees it
  db,        \* the same as it is committed
  status     \* status of the stage's row in scrape_runs

siteVars  == <<platform, site, moves, moved>>
storeVars == <<session, db>>
vars == <<siteVars, blocked, f, storeVars, status>>

Payloads == {"none", "partial", "complete"}
\* Stop reasons of a failed page; "parse_error" stands for all the other ones.
PageErrors == {"cloudflare_challenge", "parse_error"}

\* PaginatedFetchResult with the local state of a page loop.
Fetcher ==
  [at        : {"idle", "page", "details", "fetched", "stored", "failed"},
   next      : Nat,             \* page number, or offset for Kalibrr
   last      : BOOLEAN,         \* the latest answer was the last page
   new       : Seq(Jobs),       \* jobs whose details are awaited
   collected : Seq(Jobs),
   rich      : SUBSET Jobs,     \* collected jobs with a complete detail
   empty     : 0..2,            \* pages in a row without a new job
   attempted : Nat, succeeded : Nat, failed : Nat,
   stop      : {"none", "target_reached", "source_exhausted", "max_pages_reached"}
                 \cup PageErrors,
   persisted : Nat]

Idle ==
  [at |-> "idle", next |-> 0, last |-> FALSE, new |-> <<>>, collected |-> <<>>, rich |-> {},
   empty |-> 0, attempted |-> 0, succeeded |-> 0, failed |-> 0, stop |-> "none",
   persisted |-> 0]

-----------------------------------------------------------------------------
(* Sizes and answers *)

Least(m, n) == IF m < n THEN m ELSE n
Most(m, n) == IF m > n THEN m ELSE n
Ceiling(m, n) == (m + n - 1) \div n

\* target_limit and page_size of the page loops.
Target == Least(Limit, Least(KeywordCap, RunCap))
PageSize == Least(PageSetting, Most(Target, 1))

Slice(l, from, n) == SubSeq(l, from + 1, Least(from + n, Len(l)))

\* The pages that may answer the request for n jobs of keyword k after the
\* first `from': the right one or, when the site errs, the first one or none.
Answers(k, from, n) ==
  LET right == Slice(site[k], from, n)
  IN {right} \cup IF moves < MaxMoves THEN {<<>>, Slice(site[k], 0, n)} ELSE {}

\* What the adapters make of the platform's own count of pages or jobs.  The
\* pages of JobStreet have a size of their own, but are counted from the total
\* as if they had the size of the setting.
DeallsLast(k) ==
  LET pages == Ceiling(Len(site[k]), PageSize) IN pages # 0 /\ f[k].next >= pages
GlintsLast(k) == f[k].next * PageSize >= Len(site[k])
KitalulusLast(k) == f[k].next * PageSize >= Len(site[k])
JobStreetLast(k) ==
  LET pages == Ceiling(Len(site[k]), PageSize) IN pages # 0 /\ f[k].next >= pages
KalibrrLast(k, jobs) == f[k].next + Len(jobs) >= Len(site[k])

\* A list that the adapter refuses as a whole: Kitalulus needs every slug.
Unreadable(jobs) == platform = "kitalulus" /\ ToSet(jobs) \cap Slugless # {}

\* The details that come with the list: all from Kalibrr, none from Glints.
KalibrrDetails(jobs) == ToSet(jobs)
GlintsDetails(jobs) == {}
Embedded(jobs) == IF platform = "kalibrr" THEN KalibrrDetails(jobs) ELSE GlintsDetails(jobs)

\* dedupe_new_jobs; a page of the site has no job twice.
Fresh(s, jobs) ==
  LET selected[n \in 0..Len(jobs)] ==
        IF n = 0 THEN <<>>
        ELSE IF jobs[n] \in ToSet(s.collected) THEN selected[n - 1]
        ELSE Append(selected[n - 1], jobs[n])
  IN selected[Len(jobs)]

\* The tests at the end of a page and at the head of the loop, in their order.
Ended(s) ==
  IF Len(s.collected) >= Target THEN "target_reached"
  ELSE IF s.empty >= 2 \/ s.last THEN "source_exhausted"
  ELSE IF s.attempted >= MaxPages THEN "max_pages_reached"
  ELSE "none"

\* The loop goes on with another request, or the fetcher returns.
Turn(s) ==
  IF Ended(s) = "none"
  THEN [s EXCEPT !.at = "page", !.attempted = @ + 1]
  ELSE [s EXCEPT !.at = "fetched", !.stop = Ended(s)]

Collect(s, rich) ==
  Turn([s EXCEPT !.collected = @ \o s.new, !.rich = @ \cup rich, !.new = <<>>])

\* Mutant of Answered: pages without a new job are not counted.
AnsweredUncounted(k, jobs, last, next) ==
  LET new == Fresh(f[k], jobs)
      s == [f[k] EXCEPT !.succeeded = @ + 1, !.new = new, !.last = last, !.next = next]
  IN IF new = <<>> THEN Turn(s)
     ELSE IF platform \in {"glints", "kalibrr"} THEN Collect(s, Embedded(new))
     ELSE [s EXCEPT !.at = "details"]

\* What an answer makes of the fetcher.
Answered(k, jobs, last, next) ==
  LET new == Fresh(f[k], jobs)
      s == [f[k] EXCEPT !.succeeded = @ + 1, !.new = new, !.last = last, !.next = next,
                        !.empty = IF new = <<>> THEN @ + 1 ELSE 0]
  IN IF new = <<>> THEN Turn(s)
     ELSE IF platform \in {"glints", "kalibrr"} THEN Collect(s, Embedded(new))
     ELSE [s EXCEPT !.at = "details"]

\* The loop ends with an error; what was collected before stays.
PageLost(s, e) == [s EXCEPT !.at = "fetched", !.failed = @ + 1, !.stop = e]

\* A page arrives for k; `from' and n say which one was asked for.
Take(k, from, n, IsLast(_), next) ==
  /\ f[k].at = "page"
  /\ \E jobs \in Answers(k, from, n) :
       /\ f' = [f EXCEPT ![k] = IF Unreadable(jobs) THEN PageLost(f[k], "parse_error")
                               ELSE Answered(k, jobs, IsLast(jobs), next)]
       /\ LET wrong == jobs # Slice(site[k], from, n)
          IN /\ moves' = IF wrong THEN moves + 1 ELSE moves
             /\ moved' = IF wrong THEN moved \cup {k} ELSE moved
  /\ UNCHANGED <<platform, site, blocked, storeVars, status>>

-----------------------------------------------------------------------------
(* Actions *)

Init ==
  /\ platform \in Platforms
  /\ site \in [Keywords -> Listings]
  /\ moves = 0
  /\ moved = {}
  /\ blocked = FALSE
  /\ f = [k \in Keywords |-> Idle]
  /\ session = [j \in Jobs |-> "none"]
  /\ db = session
  /\ status = "none"

\* A fetcher up to its first request.  Fixtures need none, and JobStreet asks
\* nothing once it is blocked.
Begin(k) ==
  IF platform = "fixture"
  THEN [Idle EXCEPT !.at = "fetched", !.collected = [i \in 1..Limit |-> i]]
  ELSE IF platform = "jobstreet" /\ blocked
  THEN [Idle EXCEPT !.at = "fetched", !.stop = "cloudflare_challenge"]
  ELSE [Idle EXCEPT !.at = "page", !.attempted = 1,
                    !.next = IF platform = "kalibrr" THEN 0 ELSE 1]

\* run_scrape gathers the sources: each of them runs up to its first request
\* before the answer of any other can be looked at.
Start ==
  /\ status = "none"
  /\ status' = "started"
  /\ f' = [k \in Keywords |-> Begin(k)]
  /\ UNCHANGED <<siteVars, blocked, storeVars>>

\* Mutant of DeallsPage: the page number is increased before it is compared.
DeallsPageEarly(k) ==
  /\ platform = "dealls"
  /\ LET pages == Ceiling(Len(site[k]), PageSize)
         IsLast(jobs) == pages # 0 /\ f[k].next + 1 >= pages
     IN Take(k, (f[k].next - 1) * PageSize, PageSize, IsLast, f[k].next + 1)

\* Dealls counts the pages itself.
DeallsPage(k) ==
  /\ platform = "dealls"
  /\ LET IsLast(jobs) == DeallsLast(k)
     IN Take(k, (f[k].next - 1) * PageSize, PageSize, IsLast, f[k].next + 1)

\* Glints says whether there are more jobs.
GlintsPage(k) ==
  /\ platform = "glints"
  /\ LET IsLast(jobs) == GlintsLast(k)
     IN Take(k, (f[k].next - 1) * PageSize, PageSize, IsLast, f[k].next + 1)

\* Kitalulus says whether there is a next page.
KitalulusPage(k) ==
  /\ platform = "kitalulus"
  /\ LET IsLast(jobs) == KitalulusLast(k)
     IN Take(k, (f[k].next - 1) * PageSize, PageSize, IsLast, f[k].next + 1)

\* JobStreet's search page has a size of its own.
JobStreetPage(k) ==
  /\ platform = "jobstreet"
  /\ LET IsLast(jobs) == JobStreetLast(k)
     IN Take(k, (f[k].next - 1) * Served, Served, IsLast, f[k].next + 1)

\* Kalibrr chooses the page size; the next offset is on by the smaller one.
KalibrrPage(k) ==
  /\ platform = "kalibrr"
  /\ LET IsLast(jobs) == KalibrrLast(k, jobs)
     IN Take(k, f[k].next, Served, IsLast, f[k].next + Least(Served, PageSize))

\* The request for a page, or the reading of its answer, fails.  What was
\* collected before stays, and a JobStreet challenge blocks later fetchers.
PageFails(k) ==
  /\ f[k].at = "page"
  /\ \E e \in PageErrors :
       /\ f' = [f EXCEPT ![k] = PageLost(f[k], e)]
       /\ blocked' = (blocked \/ (platform = "jobstreet" /\ e = "cloudflare_challenge"))
  /\ UNCHANGED <<siteVars, storeVars, status>>

\* A JobStreet page without search data raises what the loop does not catch;
\* the source fails with all it has collected.
PageEscapes(k) ==
  /\ platform = "jobstreet" /\ f[k].at = "page"
  /\ f' = [f EXCEPT ![k].at = "failed"]
  /\ session' = db
  /\ UNCHANGED <<siteVars, blocked, db, status>>

\* The details that may have been read when those of a page have all been
\* answered or given up: Dealls has no way to ask without a slug.
DeallsDetails(jobs) == SUBSET (ToSet(jobs) \ Slugless)
KitalulusDetails(jobs) == SUBSET ToSet(jobs)
JobStreetDetails(jobs) == SUBSET ToSet(jobs)

Details(k) ==
  /\ f[k].at = "details"
  /\ \E rich \in CASE platform = "dealls" -> DeallsDetails(f[k].new)
                  [] platform = "kitalulus" -> KitalulusDetails(f[k].new)
                  [] platform = "jobstreet" -> JobStreetDetails(f[k].new) :
       f' = [f EXCEPT ![k] = Collect(f[k], rich)]
  /\ UNCHANGED <<siteVars, blocked, storeVars, status>>

\* The rows a source hands over, and the session with the first n of them.
Delivered(s) == SubSeq(s.collected, 1, Least(Limit, Len(s.collected)))
Upserted(k, n) ==
  [j \in Jobs |->
     IF j \notin ToSet(SubSeq(Delivered(f[k]), 1, n)) THEN session[j]
     ELSE IF j \in f[k].rich THEN "complete" ELSE "partial"]

\* The rows of a source are upserted and committed without a suspension.
Store(k) ==
  /\ f[k].at = "fetched"
  /\ LET n == Len(Delivered(f[k]))
     IN /\ session' = Upserted(k, n)
        /\ f' = [f EXCEPT ![k].at = "stored", ![k].persisted = n]
  /\ db' = session'
  /\ UNCHANGED <<siteVars, blocked, status>>

\* Mutant of StoreFails: the rows before the failing one stay in the session.
StoreFailsOpen(k) ==
  /\ f[k].at = "fetched"
  /\ \E n \in 0..Len(Delivered(f[k])) :
       /\ f' = [f EXCEPT ![k].at = "failed", ![k].persisted = n]
       /\ session' = Upserted(k, n)
  /\ UNCHANGED <<siteVars, blocked, db, status>>

\* A row, or the commit, fails.  The count of persisted rows is not taken back.
StoreFails(k) ==
  /\ f[k].at = "fetched"
  /\ \E n \in 0..Len(Delivered(f[k])) :
       f' = [f EXCEPT ![k].at = "failed", ![k].persisted = n]
  /\ session' = db
  /\ UNCHANGED <<siteVars, blocked, db, status>>

\* Mutant of Finish: the exception of a failed source is raised.
FinishUnlessFailed ==
  /\ status = "started"
  /\ \A k \in Keywords : f[k].at = "stored"
  /\ status' = "completed"
  /\ UNCHANGED <<siteVars, blocked, f, storeVars>>

\* _finish_stage_run, once every source has returned.
Finish ==
  /\ status = "started"
  /\ \A k \in Keywords : f[k].at \in {"stored", "failed"}
  /\ status' = IF \E k \in Keywords : f[k].at = "failed" THEN "partial" ELSE "completed"
  /\ UNCHANGED <<siteVars, blocked, f, storeVars>>

\* While k pages through its list, a job is taken off it or put on top.
SiteMoves(k) ==
  /\ moves < MaxMoves
  /\ f[k].at \in {"page", "details"}
  /\ moves' = moves + 1
  /\ moved' = moved \cup {k}
  /\ site' \in {[site EXCEPT ![k] = <<j>> \o @] : j \in Jobs \ ToSet(site[k])} \cup
              {[site EXCEPT ![k] = Tail(@)] : x \in {1} \cap DOMAIN site[k]}
  /\ UNCHANGED <<platform, blocked, f, storeVars, status>>

Page(k) ==
  \/ DeallsPage(k) \/ GlintsPage(k) \/ KitalulusPage(k) \/ JobStreetPage(k) \/ KalibrrPage(k)
  \/ PageFails(k) \/ PageEscapes(k)

Next ==
  \/ Start
  \/ Finish
  \/ \E k \in Keywords : Page(k) \/ Details(k) \/ Store(k) \/ StoreFails(k) \/ SiteMoves(k)

\* Requests have time-outs, so that every page and every detail is answered
\* or fails, and the event loop runs every fetcher that can go on.
Fairness ==
  /\ WF_vars(Start)
  /\ WF_vars(Finish)
  /\ \A k \in Keywords : WF_vars(Page(k) \/ Details(k) \/ Store(k) \/ StoreFails(k))

Spec == Init /\ [][Next]_vars /\ Fairness

-----------------------------------------------------------------------------
(* Properties *)

\* Type correctness; the counts of pages and rows fit what they are about.
TypeOK ==
  /\ platform \in Platforms
  /\ site \in [Keywords -> Seq(Jobs)] /\ moves \in 0..MaxMoves /\ moved \subseteq Keywords
  /\ blocked \in BOOLEAN
  /\ f \in [Keywords -> Fetcher]
  /\ session \in [Jobs -> Payloads] /\ db \in [Jobs -> Payloads]
  /\ status \in {"none", "started", "partial", "completed"}

\* A fetcher that says it has exhausted the source has collected every job
\* that the site lists, provided that its pages came from one listing.
ExhaustedIsComplete ==
  \A k \in Keywords \ moved :
    f[k].stop = "source_exhausted" => ToSet(site[k]) \subseteq ToSet(f[k].collected)

\* However the site repeats or empties its pages, a fetcher asks for at most
\* two more pages than pays: no two answers in a row without a new job, but
\* for the last two, and no answer twice, and its report says so.
PagesPay ==
  \A k \in Keywords :
    /\ f[k].attempted \in 0..MaxPages
    /\ f[k].attempted <= 2 * Len(f[k].collected \o f[k].new) + 2
    /\ f[k].at \in {"fetched", "stored"} => f[k].attempted = f[k].succeeded + f[k].failed
    /\ IsInjective(f[k].collected \o f[k].new)

\* What the report of a fetcher says of its pages can be relied on.
FetchersAreTruthful == ExhaustedIsComplete /\ PagesPay

\* What is committed is what the sources that were stored have delivered, in
\* the completeness of one of them: no row of a source that has failed, and
\* none that a source has delivered and lost.
StoreIsExact ==
  \A j \in Jobs :
    LET carriers == {k \in Keywords : f[k].at = "stored" /\ j \in ToSet(Delivered(f[k]))}
    IN IF carriers = {} THEN db[j] = "none"
       ELSE \E k \in carriers : db[j] = IF j \in f[k].rich THEN "complete" ELSE "partial"

\* Well-typed pages and rows, and a store that is exact (upsert_raw_job and the
\* commit or rollback of _scrape_source).
StoreInv == TypeOK /\ StoreIsExact

\* A scrape stage that has started closes its run row.
StageEnds == (status = "started") ~> (status \in {"partial", "completed"})

\* docs/modules/ingestion.md:69: "Source auth failure | Stop affected source;
\* mark run partial"; does not hold of a page that fails.
FailedSourceIsPartial ==
  status = "completed" => \A k \in Keywords : f[k].stop \notin PageErrors

\* tests/unit/cli/test_pipeline_jobstreet_challenge_guard.py:97 expects that one
\* request meets the challenge; the stage starts all fetchers before it does.
OneRequestMeetsChallenge ==
  Cardinality({k \in Keywords : f[k].stop = "cloudflare_challenge" /\ f[k].failed = 1}) <= 1
=============================================================================
