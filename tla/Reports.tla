------------------------------- MODULE Reports -------------------------------
(***************************************************************************)
(* Reading while others write: the five paginated lists (findAll of users, *)
(* jobs, candidates, interviews and applications), the overview and the    *)
(* trends of AnalyticsService.  An answer is put together from several     *)
(* queries that run in any order, with writes in between, and a client     *)
(* that walks through the pages of a list makes one request per page.      *)
(*                                                                         *)
(* One client and one table.  A row is a number: appliedAt (or whatever    *)
(* column the list is sorted by) grows with it unless the column has ties. *)
(* `fits` stands for the optional filters: search, status, role, salary,   *)
(* skills; in the overview for stage HIRED or status OPEN.                 *)
(***************************************************************************)
EXTENDS Integers, FiniteSetsExt, SequencesExt

CONSTANTS LastRow,   \* rows have the numbers 1 to LastRow
          MaxLimit,  \* bound of QueryDto.limit and of trends' days
          MaxWrites  \* bound of what others write

ASSUME ReportsAssumption ==
  LastRow \in Nat \ {0} /\ MaxLimit \in Nat \ {0} /\ MaxWrites \in Nat

VARIABLES resource,   \* the table
          ties,       \* all rows have one value in the sort column
          caller,     \* the caller's role
          mine,       \* rows of the caller's jobs or of the caller's candidate
          state,      \* rows of the table
          fits,       \* rows that the optional filters let through
          candidate,  \* whether the caller has a row in candidates
          kind,       \* what the client asks for
          limit,      \* rows per page, or days of the trends
          page,       \* page it asks for now
          pc,         \* where the handler is
          scope,      \* which rows the handler's filter lets through
          waiting,    \* queries of Promise.all without an answer
          counted,    \* the rows that each count has counted
          data,       \* answer: rows of the page
          points,     \* answer: applications per date
          collected,  \* the rows of all pages so far
          writes,     \* number of writes by others
          written,    \* observation only: rows written during this request
          hadCandidate  \* observation only: candidate when it was received

table == <<resource, ties, caller, mine, kind, limit>>
rows == <<state, fits, candidate>>
answer == <<waiting, counted, data, points>>
vars == <<table, rows, page, pc, scope, answer, collected, writes, written,
          hadCandidate>>

Rows == 1..LastRow
Resources == {"users", "jobs", "candidates", "interviews", "applications"}
\* ADMIN, RECRUITER, and INTERVIEWER with whatever other role.
Roles == {"ADMIN", "RECRUITER", "INTERVIEWER"}
SoftDeleted == {"users", "jobs", "applications"}

Existing == {r \in Rows : state[r] \in {"live", "deleted"}}
Live == {r \in Rows : state[r] = "live"}
Day(r) == IF ties THEN 1 ELSE r
Total == Cardinality(counted["total"])
Part == Cardinality(counted["part"])

Queries == CASE kind = "list" -> {"rows", "total"}
             [] kind = "overview" -> {"total", "part"}
             [] kind = "trends" -> {"rows"}

\* Only the list of applications asks who the caller is.
Receive == IF kind = "list" /\ resource = "applications" THEN "scope" ELSE "query"

Init ==
  /\ kind \in {"list", "overview", "trends"}
  /\ resource \in CASE kind = "list" -> Resources
                    [] kind = "overview" -> {"jobs", "applications"}
                    [] kind = "trends" -> {"applications"}
  /\ caller \in IF kind = "list" /\ resource = "applications" THEN Roles
                                                              ELSE {"ADMIN"}
  /\ mine \in IF caller = "ADMIN" THEN {{}} ELSE SUBSET Rows
  /\ candidate \in IF caller = "INTERVIEWER" THEN {"none", "present"} ELSE {"none"}
  /\ state \in [Rows -> {"absent", "live", "deleted"}]
  /\ resource \notin SoftDeleted => \A r \in Rows : state[r] # "deleted"
  /\ caller = "INTERVIEWER" /\ candidate = "none" => mine \cap Existing = {}
  /\ fits \in SUBSET Existing
  /\ ties \in BOOLEAN
  /\ limit \in 1..MaxLimit
  /\ page = 1 /\ pc = Receive /\ scope = Rows
  /\ waiting = Queries
  /\ counted = [q \in {"total", "part"} |-> {}]
  /\ data = <<>> /\ points = <<>> /\ collected = <<>>
  /\ writes = 0 /\ written = {}
  /\ hadCandidate = candidate

-----------------------------------------------------------------------------
(* The lists.                                                               *)

\* Faulty variant: nobody but recruiters is filtered.
ScopeOfRecruitersOnly == IF caller = "RECRUITER" THEN mine ELSE Rows

\* ApplicationsService.findAll: recruiters get the applications for their jobs;
\* whoever is no admin gets those of the candidate with the user's email.
\* Without such a candidate no filter is set.
ScopeOfCaller ==
  CASE caller = "ADMIN" -> Rows
    [] caller = "RECRUITER" -> mine
    [] caller = "INTERVIEWER" -> IF candidate = "present" THEN mine ELSE Rows

SetScope ==
  /\ pc = "scope"
  /\ scope' = ScopeOfCaller
  /\ pc' = "query"
  /\ UNCHANGED <<table, rows, page, answer, collected, writes, written, hadCandidate>>

\* Faulty variant: page n starts at row n.
SkipPages == page - 1

Skip == (page - 1) * limit
TotalPages == (Total + limit - 1) \div limit

\* The database may order rows with equal sort columns differently each time.
Orders(where) ==
  {o \in SetToSeqs(where) : ties \/ \A i, j \in DOMAIN o : i < j => o[i] < o[j]}

FindMany(where) ==
  /\ "rows" \in waiting
  /\ waiting' = waiting \ {"rows"}
  /\ \E order \in Orders(where) :
       data' = SubSeq(order, Skip + 1, Min({Skip + limit, Len(order)}))
  /\ UNCHANGED <<table, rows, page, pc, scope, counted, points, collected,
                 writes, written, hadCandidate>>

\* A count; the models keep which rows were counted.
Count(query, where) ==
  /\ query \in waiting
  /\ waiting' = waiting \ {query}
  /\ counted' = [counted EXCEPT ![query] = where]
  /\ UNCHANGED <<table, rows, page, pc, scope, data, points, collected, writes,
                 written, hadCandidate>>

ListPage(where) == /\ kind = "list" /\ pc = "query"
                   /\ FindMany(where) \/ Count("total", where)

FindAllUsers == resource = "users" /\ ListPage(Live \cap fits)
FindAllJobs == resource = "jobs" /\ ListPage(Live \cap fits)
FindAllCandidates == resource = "candidates" /\ ListPage(Existing \cap fits)
FindAllInterviews == resource = "interviews" /\ ListPage(Existing \cap fits)
FindAllApplications ==
  resource = "applications" /\ ListPage(Live \cap fits \cap scope)

Answer ==
  /\ pc = "query" /\ waiting = {}
  /\ pc' = "answered"
  /\ collected' = collected \o data
  /\ UNCHANGED <<table, rows, page, scope, answer, writes, written, hadCandidate>>

\* The client asks for the next page, by meta.totalPages.
NextPage ==
  /\ kind = "list" /\ pc = "answered" /\ page < TotalPages
  /\ page' = page + 1
  /\ pc' = Receive /\ waiting' = Queries
  /\ counted' = [q \in {"total", "part"} |-> {}] /\ data' = <<>>
  /\ written' = {} /\ hadCandidate' = candidate
  /\ UNCHANGED <<table, rows, scope, points, collected, writes>>

-----------------------------------------------------------------------------
(* AnalyticsService.                                                        *)

\* Faulty variant: withdrawn applications that were hired are counted.
WithoutDeleted == Existing

Undeleted == Live

\* getOverview: totalApplications and hiredCount, or totalJobs and openJobs.
GetOverview ==
  /\ kind = "overview" /\ pc = "query"
  /\ Count("total", Live) \/ Count("part", Undeleted \cap fits)

\* hireRate in tenths of a percent, as Math.round makes it.
HireRate == IF Total = 0 THEN 0 ELSE (2000 * Part + Total) \div (2 * Total)

\* Whether local midnight is before midnight UTC, day by day: a zone east or
\* west of Greenwich, or one that a change of the clocks takes across.
Zones == LET Days == -MaxLimit..LastRow
         IN  {[d \in Days |-> d < s] : s \in Days}
             \cup {[d \in Days |-> d >= s] : s \in Days}

\* toISOString of the local midnight of day d.
UtcDate(east, d) == IF east[d] THEN d - 1 ELSE d

\* Faulty variant: only the dates that were initialised are counted.
DatesOf(initial, applications) == initial

\* Dates that were initialised to 0, and `dateMap.get(key) ?? 0` for others.
Dates(initial, applications) == initial \cup {Day(r) : r \in applications}

\* getTrends, on local day `today`: the query starts at a local midnight, so of
\* the applications of that UTC day some are too early.
GetTrends ==
  /\ kind = "trends" /\ pc = "query" /\ "rows" \in waiting
  /\ waiting' = {}
  /\ \E east \in Zones, today \in {LastRow - 1, LastRow} :
       LET first == UtcDate(east, today - limit)
           initial == {UtcDate(east, d) : d \in (today - limit)..today}
       IN  /\ \A r \in Rows : Day(r) <= IF east[today] THEN today ELSE today + 1
           /\ \E early \in SUBSET {r \in Live : Day(r) = first} :
                LET found == {r \in Live : Day(r) >= first} \ early
                IN  /\ counted' = [counted EXCEPT !["total"] = found]
                    /\ points' = [d \in Dates(initial, found) |->
                                    Cardinality({r \in found : Day(r) = d})]
  /\ UNCHANGED <<table, rows, page, pc, scope, data, collected, writes,
                 written, hadCandidate>>

-----------------------------------------------------------------------------
(* What others write.                                                       *)

\* While the client has not got all it wants.
Write(touched) ==
  /\ pc = "answered" => kind = "list" /\ page < TotalPages
  /\ writes < MaxWrites
  /\ writes' = writes + 1
  /\ written' = IF pc = "answered" THEN written ELSE written \cup touched
  /\ UNCHANGED <<table, page, pc, scope, answer, collected, hadCandidate>>

Insert(r) ==
  /\ state[r] = "absent"
  /\ r \in mine /\ caller = "INTERVIEWER" => candidate # "erased"
  /\ state' = [state EXCEPT ![r] = "live"]
  /\ fits' \in {fits, fits \cup {r}}
  /\ candidate' = IF r \in mine /\ caller = "INTERVIEWER" THEN "present"
                                                          ELSE candidate
  /\ Write({r})

\* A change of status, stage, role or name.
Change(r) ==
  /\ state[r] = "live"
  /\ fits' = SymDiff(fits, {r})
  /\ UNCHANGED <<state, candidate>>
  /\ Write({r})

SoftDelete(r) ==
  /\ resource \in SoftDeleted /\ state[r] = "live"
  /\ state' = [state EXCEPT ![r] = "deleted"]
  /\ UNCHANGED <<fits, candidate>>
  /\ Write({r})

\* The deletion of a candidate takes its applications and their interviews
\* along; `candidate` changes if it is the caller's.
Erase(lost) ==
  /\ lost # {} /\ lost \subseteq Existing
  /\ resource \notin {"users", "jobs"}
  /\ resource = "candidates" => Cardinality(lost) = 1
  /\ caller = "INTERVIEWER" => mine \cap Existing \subseteq lost \/ lost \cap mine = {}
  /\ state' = [r \in Rows |-> IF r \in lost THEN "erased" ELSE state[r]]
  /\ fits' = fits \ lost
  /\ candidate' = IF caller = "INTERVIEWER" /\ lost \cap mine # {} THEN "erased"
                                                                  ELSE candidate
  /\ Write(lost)

Others == \/ \E r \in Rows : Insert(r) \/ Change(r) \/ SoftDelete(r)
          \/ \E lost \in SUBSET Rows : Erase(lost)

Next == \/ SetScope
        \/ FindAllUsers \/ FindAllJobs \/ FindAllCandidates
        \/ FindAllInterviews \/ FindAllApplications
        \/ GetOverview \/ GetTrends
        \/ Answer \/ NextPage
        \/ Others

Spec == Init /\ [][Next]_vars

-----------------------------------------------------------------------------
(* Properties.                                                              *)

TypeOK ==
  /\ resource \in Resources /\ caller \in Roles
  /\ ties \in BOOLEAN /\ mine \in SUBSET Rows
  /\ state \in [Rows -> {"absent", "live", "deleted", "erased"}]
  /\ fits \in SUBSET Rows
  /\ candidate \in {"none", "present", "erased"}
  /\ kind \in {"list", "overview", "trends"}
  /\ limit \in Nat \ {0} /\ page \in Nat \ {0}
  /\ pc \in {"scope", "query", "answered"}
  /\ scope \in SUBSET Rows
  /\ waiting \in SUBSET {"rows", "total", "part"}
  /\ counted \in [{"total", "part"} -> SUBSET Rows]
  /\ data \in Seq(Rows) /\ collected \in Seq(Rows)
  /\ writes \in 0..MaxWrites /\ written \in SUBSET Rows
  /\ hadCandidate \in {"none", "present", "erased"}

\* The queries of one answer see different moments.  They differ only by rows
\* that were written while the request ran: a page has as many rows as its
\* total promises, whoever is counted as hired is counted as an application,
\* and the hire rate is a percentage.
QueriesAgree ==
  pc = "answered" =>
    /\ kind = "list" => Range(data) \ written \subseteq counted["total"]
    /\ kind = "list" /\ written = {} =>
         Len(data) = Max({0, Min({limit, Total - Skip})})
    /\ counted["part"] \ counted["total"] \subseteq written
    /\ kind = "overview" /\ written = {} => HireRate \in 0..1000

\* A client that follows totalPages to the end, while nobody writes and the
\* sort column has no ties, has seen each row of the list exactly once.
WalkIsComplete ==
  kind = "list" /\ pc = "answered" /\ page >= TotalPages /\ writes = 0 /\ ~ties =>
    /\ Range(collected) = counted["total"]
    /\ Len(collected) = Total

\* What the filter lets through is decided before the queries run; a candidate
\* that was there can be erased but does not become "none" again.
ScopeInv ==
  /\ TypeOK
  /\ hadCandidate = "present" => candidate # "none"
  /\ pc = "scope" => data = <<>> /\ counted["total"] = {}
  /\ kind = "list" /\ resource = "applications" =>
       data \in Seq(scope) /\ counted["total"] \subseteq scope
  /\ kind = "list" /\ resource = "applications" /\ pc # "scope" =>
       /\ caller = "RECRUITER" => scope = mine
       /\ caller = "INTERVIEWER" /\ hadCandidate = "present"
            /\ candidate = "present" => scope = mine

\* "Regular users see only their applications" (applications.service.ts:370),
\* whatever happens to the rows while they are read: recruiters always, others
\* if they have a candidate from the time they ask until they are answered.
OwnApplicationsOnly ==
  /\ pc = "answered" /\ resource = "applications" /\ kind = "list"
  /\ caller = "RECRUITER" \/ (caller = "INTERVIEWER" /\ hadCandidate = "present"
                                                     /\ candidate = "present")
  => Range(data) \cup counted["total"] \subseteq mine

\* The trends leave no application out although they initialise dates in UTC
\* from midnights in local time, and at most one date between the first and the
\* last is missing: where the zone crosses Greenwich when the clocks change.
TrendsCountEverybody ==
  kind = "trends" /\ waiting = {} =>
    LET dates == DOMAIN points
    IN  /\ MapThenSumSet(LAMBDA d : points[d], dates) = Total
        /\ Cardinality((Min(dates)..Max(dates)) \ dates) <= 1
=============================================================================
