---------------------------- MODULE ReportsProofs ----------------------------
(***************************************************************************)
(* Proofs about Reports, for tables and pages of any size.                 *)
(***************************************************************************)
EXTENDS Reports, FiniteSetTheorems, SequenceTheorems, WellFoundedInduction, TLAPS

\* The smaller of two numbers is one of them, and not larger than either.
LEMMA MinOfTwo ==
  ASSUME NEW a \in Nat, NEW b \in Nat
  PROVE  Min({a, b}) \in {a, b} /\ Min({a, b}) <= a /\ Min({a, b}) <= b
<1>1. \E x \in {a, b} : \A y \in {a, b} : x =< y
  <2>1. CASE a <= b BY <2>1
  <2>2. CASE b <= a BY <2>2
  <2>3. QED BY <2>1, <2>2
<1>2. Min({a, b}) \in {a, b} /\ \A y \in {a, b} : Min({a, b}) =< y
  BY <1>1, Zenon DEF Min
<1>3. QED BY <1>2

\* Whatever order the database returns, a page holds rows of the filter only.
LEMMA PageWithin ==
  ASSUME NEW where \in SUBSET Rows, NEW order \in Orders(where),
         NEW from \in Nat, NEW to \in Nat
  PROVE  SubSeq(order, from + 1, Min({to, Len(order)})) \in Seq(where)
<1>1. IsFiniteSet(Rows) /\ IsFiniteSet(where)
  <2>1. IsFiniteSet(Rows)
    BY FS_Interval, ReportsAssumption DEF Rows
  <2>2. QED BY <2>1, FS_Subset
<1>2. Cardinality(where) \in Nat
  BY <1>1, FS_CardinalityType
<1>3. order \in [1..Cardinality(where) -> where]
  BY DEF Orders, SetToSeqs
<1>4. order \in Seq(where) /\ Len(order) = Cardinality(where)
  BY <1>2, <1>3
<1>5. PICK last \in Nat : last = Min({to, Len(order)}) /\ last <= Len(order)
  BY <1>2, <1>4, MinOfTwo
<1>6. PICK first \in Int : first = from + 1
  OBVIOUS
<1>7. last \in Int /\ \A i \in first..last : order[i] \in where
  <2>1. ASSUME NEW i \in first..last
        PROVE  order[i] \in where
    <3>1. i \in 1..Cardinality(where)
      BY <1>2, <1>4, <1>5, <1>6
    <3>2. QED BY <1>3, <3>1, Zenon
  <2>2. last \in Int
    BY <1>5
  <2>3. QED BY <2>1, <2>2, Zenon
<1>8. SubSeq(order, first, last) \in Seq(where)
  BY <1>7, SubSeqProperties, Zenon
<1>9. QED BY <1>5, <1>6, <1>8

\* A page of a list or a count, of rows within `where`.
LEMMA ListPageKeeps ==
  ASSUME ScopeInv, NEW where \in SUBSET Rows, ListPage(where),
         resource = "applications" => where \subseteq scope
  PROVE  ScopeInv'
<1>1. TypeOK /\ kind = "list" /\ pc = "query"
  BY DEF ScopeInv, ListPage
<1>2. CASE FindMany(where)
  <2>1. PICK order \in Orders(where) :
          data' = SubSeq(order, Skip + 1, Min({Skip + limit, Len(order)}))
    BY <1>2 DEF FindMany
  <2>2. Skip \in Nat /\ Skip + limit \in Nat
    <3>1. page \in Nat \ {0} /\ limit \in Nat \ {0}
      BY <1>1 DEF TypeOK
    <3>2. page - 1 \in Nat
      BY <3>1
    <3>3. (page - 1) * limit \in Nat
      BY <3>1, <3>2
    <3>4. QED BY <3>1, <3>3 DEF Skip
  <2>3. data' \in Seq(where)
    BY <2>1, <2>2, PageWithin
  <2>4. data' \in Seq(Rows) /\ (resource = "applications" => data' \in Seq(scope))
    BY <2>3
  <2>5. TypeOK'
    BY <1>1, <1>2, <2>4 DEF FindMany, TypeOK, table, rows, Rows
  <2>6. QED BY <1>1, <1>2, <2>4, <2>5 DEF FindMany, ScopeInv, table, rows
<1>3. CASE Count("total", where)
  BY <1>1, <1>3 DEF Count, ScopeInv, TypeOK, table, rows
<1>4. QED BY <1>2, <1>3 DEF ListPage

\* The five lists.
LEMMA ListsKeep ==
  ASSUME ScopeInv,
         \/ FindAllUsers \/ FindAllJobs \/ FindAllCandidates
         \/ FindAllInterviews \/ FindAllApplications
  PROVE  ScopeInv'
<1>1. PICK where \in SUBSET Rows :
        ListPage(where) /\ (resource = "applications" => where \subseteq scope)
  BY DEF FindAllUsers, FindAllJobs, FindAllCandidates, FindAllInterviews,
         FindAllApplications, Live, Existing
<1>2. QED BY <1>1, ListPageKeeps

\* Rows written by others change neither the scope nor what was read.
LEMMA OthersKeep ==
  ASSUME ScopeInv, Others
  PROVE  ScopeInv'
<1>1. TypeOK
  BY DEF ScopeInv
<1>2. ASSUME NEW touched \in SUBSET Rows, Write(touched),
             state' \in [Rows -> {"absent", "live", "deleted", "erased"}],
             fits' \in SUBSET Rows,
             candidate' \in {candidate, "present", "erased"},
             candidate' = "present" => candidate # "erased"
      PROVE  ScopeInv'
  <2>1. TypeOK'
    BY <1>1, <1>2, ReportsAssumption DEF TypeOK, Write, table, answer
  <2>2. QED BY <1>1, <1>2, <2>1 DEF ScopeInv, TypeOK, Write, table, answer
<1>3. ASSUME NEW r \in Rows, Insert(r) PROVE ScopeInv'
  BY <1>1, <1>2, <1>3 DEF Insert, TypeOK
<1>4. ASSUME NEW r \in Rows, Change(r) PROVE ScopeInv'
  BY <1>1, <1>2, <1>4 DEF Change, TypeOK, SymDiff
<1>5. ASSUME NEW r \in Rows, SoftDelete(r) PROVE ScopeInv'
  BY <1>1, <1>2, <1>5 DEF SoftDelete, TypeOK
<1>6. ASSUME NEW lost \in SUBSET Rows, Erase(lost) PROVE ScopeInv'
  BY <1>1, <1>2, <1>6 DEF Erase, TypeOK
<1>7. QED BY <1>3, <1>4, <1>5, <1>6 DEF Others

\* The scope is set before any query runs.
LEMMA SetScopeKeeps ==
  ASSUME ScopeInv, SetScope
  PROVE  ScopeInv'
<1>1. TypeOK /\ pc = "scope" /\ data = <<>> /\ counted["total"] = {}
  BY DEF ScopeInv, SetScope
<1>2. scope' \in SUBSET Rows
  BY <1>1 DEF SetScope, ScopeOfCaller, TypeOK, Roles
<1>3. TypeOK'
  BY <1>1, <1>2 DEF SetScope, TypeOK, table, rows, answer
<1>4. data' \in Seq(scope') /\ counted'["total"] \subseteq scope'
  BY <1>1 DEF SetScope, answer
<1>5. /\ caller' = "RECRUITER" => scope' = mine'
      /\ caller' = "INTERVIEWER" /\ candidate' = "present" => scope' = mine'
  BY <1>1 DEF SetScope, ScopeOfCaller, table, rows
<1>6. hadCandidate' = "present" => candidate' # "none"
  BY DEF SetScope, ScopeInv, rows
<1>7. pc' = "query"
  BY DEF SetScope
<1>8. QED BY <1>3, <1>4, <1>5, <1>6, <1>7 DEF ScopeInv

\* AnalyticsService serves no list.
LEMMA AnalyticsKeep ==
  ASSUME ScopeInv, GetOverview \/ GetTrends
  PROVE  ScopeInv'
<1>1. TypeOK /\ kind # "list" /\ pc = "query"
  BY DEF ScopeInv, GetOverview, GetTrends
<1>2. CASE GetOverview
  <2>1. PICK query \in {"total", "part"}, where \in SUBSET Rows : Count(query, where)
    BY <1>2 DEF GetOverview, Undeleted, Live
  <2>2. counted' \in [{"total", "part"} -> SUBSET Rows]
    BY <1>1, <2>1 DEF Count, TypeOK
  <2>3. QED BY <1>1, <2>1, <2>2 DEF Count, ScopeInv, TypeOK, table, rows
<1>3. CASE GetTrends
  <2>1. PICK found \in SUBSET Rows : counted' = [counted EXCEPT !["total"] = found]
    BY <1>3, Zenon DEF GetTrends, Live
  <2>2. counted' \in [{"total", "part"} -> SUBSET Rows]
    BY <1>1, <2>1 DEF TypeOK
  <2>3. waiting' = {} /\ UNCHANGED <<table, rows, page, pc, scope, data, collected,
                                     writes, written, hadCandidate>>
    BY <1>3, Zenon DEF GetTrends
  <2>4. QED BY <1>1, <2>2, <2>3 DEF ScopeInv, TypeOK, table, rows
<1>4. QED BY <1>2, <1>3

\* Answers and further requests.
LEMMA PagesKeep ==
  ASSUME ScopeInv, Answer \/ NextPage
  PROVE  ScopeInv'
<1>1. TypeOK
  BY DEF ScopeInv
<1>2. CASE Answer
  <2>1. collected' \in Seq(Rows)
    BY <1>1, <1>2 DEF Answer, TypeOK
  <2>2. QED BY <1>1, <1>2, <2>1 DEF Answer, ScopeInv, TypeOK, table, rows, answer
<1>3. CASE NextPage
  <2>1. waiting' \in SUBSET {"rows", "total", "part"}
    BY <1>3 DEF NextPage, Queries
  <2>2. page' \in Nat \ {0}
    BY <1>1, <1>3 DEF NextPage, TypeOK
  <2>3. TypeOK'
    BY <1>1, <1>3, <2>1, <2>2 DEF NextPage, TypeOK, table, rows, Receive
  <2>4. pc' = Receive /\ data' = <<>> /\ counted'["total"] = {}
    BY <1>3 DEF NextPage
  <2>5. kind = "list" /\ resource = "applications" => pc' = "scope"
    BY <2>4 DEF Receive
  <2>6. QED
    BY <1>3, <2>3, <2>4, <2>5 DEF NextPage, ScopeInv, table, rows
<1>4. QED BY <1>2, <1>3

\* A request has been received.
LEMMA InitScopeInv == Init => ScopeInv
<1>1. SUFFICES ASSUME Init PROVE ScopeInv
  OBVIOUS
<1>2. TypeOK
  <2>1. mine \in SUBSET Rows /\ caller \in Roles
    BY <1>1 DEF Init, Roles
  <2>2. resource \in Resources /\ kind \in {"list", "overview", "trends"}
    BY <1>1 DEF Init, Resources
  <2>3. waiting \in SUBSET {"rows", "total", "part"}
    BY <1>1 DEF Init, Queries
  <2>4. candidate \in {"none", "present"} /\ hadCandidate = candidate
    BY <1>1 DEF Init
  <2>5. fits \in SUBSET Rows /\ state \in [Rows -> {"absent", "live", "deleted", "erased"}]
    BY <1>1 DEF Init, Existing
  <2>6. limit \in Nat \ {0} /\ writes \in 0..MaxWrites
    BY <1>1, ReportsAssumption DEF Init
  <2>7. counted \in [{"total", "part"} -> SUBSET Rows]
    BY <1>1 DEF Init
  <2>8. pc \in {"scope", "query", "answered"} /\ page = 1 /\ scope = Rows
        /\ written = {} /\ ties \in BOOLEAN
    BY <1>1 DEF Init, Receive
  <2>9. data = <<>> /\ collected = <<>>
    BY <1>1 DEF Init
  <2>10. QED
    BY <2>1, <2>2, <2>3, <2>4, <2>5, <2>6, <2>7, <2>8, <2>9 DEF TypeOK
<1>3. QED BY <1>1, <1>2 DEF Init, ScopeInv, Receive

\* The filter is settled once, and only its own caller's candidate matters to it.
LEMMA NextScopeInv == ScopeInv /\ [Next]_vars => ScopeInv'
<1>1. SUFFICES ASSUME ScopeInv, [Next]_vars PROVE ScopeInv'
  OBVIOUS
<1>2. CASE SetScope BY <1>1, <1>2, SetScopeKeeps
<1>3. CASE \/ FindAllUsers \/ FindAllJobs \/ FindAllCandidates
           \/ FindAllInterviews \/ FindAllApplications
  BY <1>1, <1>3, ListsKeep
<1>4. CASE GetOverview \/ GetTrends BY <1>1, <1>4, AnalyticsKeep
<1>5. CASE Answer \/ NextPage BY <1>1, <1>5, PagesKeep
<1>6. CASE Others BY <1>1, <1>6, OthersKeep
<1>7. CASE UNCHANGED vars
  BY <1>1, <1>7 DEF vars, table, rows, answer, ScopeInv, TypeOK
<1>8. QED BY <1>1, <1>2, <1>3, <1>4, <1>5, <1>6, <1>7 DEF Next

\* The filter of a list is the caller's own rows from before its queries run
\* until it is answered, for tables and pages of any size.
THEOREM ScopeInvariance == Spec => []ScopeInv
<1>1. QED BY InitScopeInv, NextScopeInv, PTL DEF Spec

\* The rows of an answer are the caller's, since the filter was.
LEMMA ScopeIsOwn == ScopeInv => OwnApplicationsOnly
<1>1. SUFFICES ASSUME ScopeInv,
                      pc = "answered" /\ resource = "applications" /\ kind = "list",
                      caller = "RECRUITER"
                      \/ (caller = "INTERVIEWER" /\ hadCandidate = "present"
                                                 /\ candidate = "present")
               PROVE  Range(data) \cup counted["total"] \subseteq mine
  BY DEF OwnApplicationsOnly
<1>2. scope = mine /\ data \in Seq(scope) /\ counted["total"] \subseteq scope
  BY <1>1 DEF ScopeInv
<1>3. Range(data) \subseteq scope
  <2>1. ASSUME NEW i \in DOMAIN data PROVE data[i] \in scope
    BY <1>2, <2>1
  <2>2. QED BY <2>1 DEF Range
<1>4. QED BY <1>2, <1>3

\* "Regular users see only their applications", however often the rows and the
\* candidate change while they are read.
THEOREM OwnApplications == Spec => []OwnApplicationsOnly
<1>1. QED BY ScopeInvariance, ScopeIsOwn, PTL

-----------------------------------------------------------------------------
(* What an answer made of several queries promises.                         *)

\* The rows that the queries of a list find now, if its filter is s.
Wanted(s) == CASE resource \in {"users", "jobs"} -> Live \cap fits
               [] resource \in {"candidates", "interviews"} -> Existing \cap fits
               [] resource = "applications" -> Live \cap fits \cap s
Matching == Wanted(scope)

PageLength(total) == Max({0, Min({limit, total - Skip})})

\* What a query has answered is what it would answer now, but for rows that
\* were written since the request was received.
AnswerInv ==
  /\ pc = "answered" => waiting = {}
  /\ pc = "scope" => kind = "list" /\ waiting = {"rows", "total"}
  /\ kind # "overview" => counted["part"] = {}
  /\ kind = "list" /\ pc = "query" =>
       /\ "rows" \notin waiting =>
            /\ Range(data) \ written \subseteq Matching
            /\ written = {} => Len(data) = PageLength(Cardinality(Matching))
       /\ "total" \notin waiting => counted["total"] \ written = Matching \ written
  /\ kind = "list" /\ waiting = {} =>
       /\ Range(data) \ written \subseteq counted["total"]
       /\ written = {} => Len(data) = PageLength(Total)
  /\ kind = "overview" /\ pc = "query" =>
       /\ "total" \notin waiting => counted["total"] \ written = Live \ written
       /\ "part" \notin waiting => counted["part"] \ written \subseteq Live
  /\ kind = "overview" /\ waiting = {} =>
       counted["part"] \ counted["total"] \subseteq written

\* The rows that a caller gets if nobody writes, and how many of them the pages
\* so far had room for.
WholeList == Wanted(ScopeOfCaller)
Read == IF pc = "answered" THEN page * limit ELSE (page - 1) * limit

FirstRows(order, k) == SubSeq(order, 1, Min({k, Len(order)}))
PageRows(order) == SubSeq(order, Skip + 1, Min({Skip + limit, Len(order)}))

\* Without writes each page continues the only order there is.
WalkInv ==
  kind = "list" /\ writes = 0 /\ ~ties =>
    /\ pc # "scope" => Matching = WholeList
    /\ "total" \notin waiting => counted["total"] = WholeList
    /\ "rows" \notin waiting => Orders(WholeList) # {}
    /\ \A order \in Orders(WholeList) :
         /\ "rows" \notin waiting => data = PageRows(order)
         /\ collected = FirstRows(order, Read)

\* The larger of two numbers, likewise.
LEMMA MaxOfTwo ==
  ASSUME NEW a \in Int, NEW b \in Int
  PROVE  Max({a, b}) \in {a, b} /\ Max({a, b}) >= a /\ Max({a, b}) >= b
<1>1. \E x \in {a, b} : \A y \in {a, b} : x >= y
  <2>1. CASE a <= b BY <2>1
  <2>2. CASE b <= a BY <2>2
  <2>3. QED BY <2>1, <2>2
<1>2. Max({a, b}) \in {a, b} /\ \A y \in {a, b} : Max({a, b}) >= y
  BY <1>1, Zenon DEF Max
<1>3. QED BY <1>2

\* The smaller of two integers, as above.
LEMMA MinOfIntegers ==
  ASSUME NEW a \in Int, NEW b \in Int
  PROVE  Min({a, b}) \in {a, b} /\ Min({a, b}) <= a /\ Min({a, b}) <= b
<1>1. \E x \in {a, b} : \A y \in {a, b} : x =< y
  <2>1. CASE a <= b BY <2>1
  <2>2. CASE b <= a BY <2>2
  <2>3. QED BY <2>1, <2>2
<1>2. Min({a, b}) \in {a, b} /\ \A y \in {a, b} : Min({a, b}) =< y
  BY <1>1, Zenon DEF Min
<1>3. QED BY <1>2

\* A table has finitely many rows, and counting them gives a number.
LEMMA FiniteRows ==
  ASSUME NEW where \in SUBSET Rows
  PROVE  IsFiniteSet(where) /\ Cardinality(where) \in Nat
<1>1. IsFiniteSet(Rows)
  BY FS_Interval, ReportsAssumption DEF Rows
<1>2. QED BY <1>1, FS_Subset, FS_CardinalityType

\* An order of the database lists each row once.
LEMMA OrderOfRows ==
  ASSUME NEW where \in SUBSET Rows, NEW order \in Orders(where)
  PROVE  /\ order \in Seq(where)
         /\ Len(order) = Cardinality(where) /\ Len(order) \in Nat
         /\ order \in [1..Len(order) -> where]
         /\ \A i, j \in 1..Len(order) : i # j => order[i] # order[j]
         /\ Range(order) = where
<1>1. IsFiniteSet(where) /\ Cardinality(where) \in Nat
  BY FiniteRows
<1>2. PICK n \in Nat : n = Cardinality(where)
  BY <1>1
<1>3. order \in [1..n -> where] /\ \A i, j \in 1..n : i # j => order[i] # order[j]
  BY <1>2 DEF Orders, SetToSeqs
<1>4. order \in Seq(where) /\ Len(order) = n
  BY <1>2, <1>3
<1>5. order \in Injection(1..n, where)
  BY <1>3 DEF Injection, IsInjective
<1>6. Cardinality(1..n) = n
  BY <1>2, FS_Interval
<1>7. order \in Surjection(1..n, where)
  BY <1>1, <1>2, <1>5, <1>6, FS_Injection
<1>8. Range(order) = where
  BY <1>3, <1>7 DEF Surjection, Range
<1>9. QED BY <1>2, <1>3, <1>4, <1>8

\* How many rows a page has.
LEMMA PageHas ==
  ASSUME NEW where \in SUBSET Rows, NEW order \in Orders(where),
         page \in Nat \ {0}, limit \in Nat \ {0}
  PROVE  Len(PageRows(order)) = PageLength(Cardinality(where))
<1>1. /\ order \in Seq(where) /\ Len(order) = Cardinality(where) /\ Len(order) \in Nat
      /\ order \in [1..Len(order) -> where]
  BY OrderOfRows
<1>2. Skip \in Nat
  <2>1. page - 1 \in Nat
    OBVIOUS
  <2>2. QED BY <2>1 DEF Skip
<1>3. PICK skip \in Nat, n \in Nat : skip = Skip /\ n = Len(order)
  BY <1>1, <1>2
<1>4. PICK last \in Nat : last = Min({skip + limit, n}) /\ last \in {skip + limit, n}
                          /\ last <= skip + limit /\ last <= n
  BY <1>3, MinOfTwo
<1> n - skip \in Int /\ 0 \in Int /\ limit \in Int
  BY <1>3
<1>5. PICK least \in Int : least = Min({limit, n - skip}) /\ least \in {limit, n - skip}
                           /\ least <= limit /\ least <= n - skip
  <2>1. PICK a, b : a = limit /\ b = n - skip
    OBVIOUS
  <2>2. a \in Int /\ b \in Int
    BY <2>1
  <2>3. Min({a, b}) \in {a, b} /\ Min({a, b}) <= a /\ Min({a, b}) <= b
    BY <2>2, MinOfIntegers
  <2>4. QED BY <2>1, <2>2, <2>3
<1>6. PICK most \in Int : most = Max({0, least}) /\ most \in {0, least}
                          /\ most >= 0 /\ most >= least
  <2>1. PICK a \in Int : a = 0
    OBVIOUS
  <2>2. Max({a, least}) \in {a, least} /\ Max({a, least}) >= a /\ Max({a, least}) >= least
    BY MaxOfTwo
  <2>3. QED BY <2>1, <2>2
<1>7. most = IF skip + 1 <= last THEN last - (skip + 1) + 1 ELSE 0
  BY <1>4, <1>5, <1>6
<1>8. PICK first \in Int : first = skip + 1
  OBVIOUS
<1>9. \A i \in first..last : order[i] \in where
  <2>1. ASSUME NEW i \in first..last
        PROVE  order[i] \in where
    <3>1. i \in 1..n
      BY <1>4, <1>8
    <3>2. QED BY <1>1, <1>3, <3>1, Zenon
  <2>2. QED BY <2>1
<1>10. last \in Int
  OBVIOUS
<1>11. Len(SubSeq(order, first, last)) = IF first <= last THEN last - first + 1 ELSE 0
  BY <1>9, <1>10, SubSeqProperties, Zenon
<1>12. QED BY <1>1, <1>3, <1>4, <1>5, <1>6, <1>7, <1>8, <1>11 DEF PageLength, PageRows

\* A set of numbers has a smallest one.
LEMMA SmallestNumber ==
  ASSUME NEW S \in SUBSET Nat, S # {}
  PROVE  \E x \in S : \A y \in S : x <= y
<1>1. PICK x \in S : \A y \in S : <<y, x>> \notin OpToRel(<, Nat)
  BY WFMin, NatLessThanWellFounded
<1>2. \A y \in S : ~(y < x)
  BY <1>1 DEF OpToRel
<1>3. QED BY <1>2

\* Without ties there is one order: at the first place where two orders differ,
\* the smaller row is missing from the other one.
LEMMA OneOrder ==
  ASSUME ~ties, NEW where \in SUBSET Rows, NEW o \in Orders(where), NEW p \in Orders(where)
  PROVE  o = p
<1>1. /\ o \in [1..Len(o) -> where] /\ p \in [1..Len(o) -> where] /\ Len(o) \in Nat
      /\ \A i, j \in 1..Len(o) : i # j => o[i] # o[j] /\ p[i] # p[j]
      /\ Range(o) = where /\ Range(p) = where
  <2>1. Len(o) = Len(p)
    BY OrderOfRows
  <2>2. QED BY <2>1, OrderOfRows
<1>2. \A i, j \in 1..Len(o) : i < j => o[i] < o[j] /\ p[i] < p[j]
  BY <1>1 DEF Orders
<1>3. \A w \in where : (\E i \in 1..Len(o) : o[i] = w) /\ (\E i \in 1..Len(o) : p[i] = w)
  BY <1>1 DEF Range
<1>4. where \subseteq Int
  BY DEF Rows
<1>5. SUFFICES ASSUME NEW k \in 1..Len(o), o[k] # p[k] PROVE FALSE
  BY <1>1
<1>6. PICK i \in 1..Len(o) : /\ o[i] # p[i]
                             /\ \A j \in 1..Len(o) : o[j] # p[j] => i <= j
  <2>1. k \in {j \in 1..Len(o) : o[j] # p[j]}
    BY <1>5
  <2>2. {j \in 1..Len(o) : o[j] # p[j]} \in SUBSET Nat
    BY <1>1
  <2>3. QED BY <2>1, <2>2, SmallestNumber
<1>7. \A j \in 1..Len(o) : j < i => o[j] = p[j]
  BY <1>1, <1>6
<1>8. ASSUME o[i] < p[i] PROVE FALSE
  <2>1. PICK j \in 1..Len(o) : p[j] = o[i]
    BY <1>1, <1>3
  <2>2. j < i
    <3>1. j # i
      <4>1. o[i] \in Int /\ p[i] \in Int BY <1>1, <1>4
      <4>2. QED BY <1>8, <2>1, <4>1
    <3>2. CASE i < j
      <4>1. p[i] < p[j] BY <1>2, <3>2
      <4>2. o[i] \in Int /\ p[i] \in Int BY <1>1, <1>4
      <4>3. QED BY <1>8, <2>1, <4>1, <4>2
    <3>3. QED BY <1>1, <3>1, <3>2
  <2>3. o[j] = o[i] /\ j # i
    BY <1>1, <1>7, <2>1, <2>2
  <2>4. QED BY <1>1, <2>3
<1>9. ASSUME p[i] < o[i] PROVE FALSE
  <2>1. PICK j \in 1..Len(o) : o[j] = p[i]
    BY <1>1, <1>3
  <2>2. j < i
    <3>1. j # i
      <4>1. o[i] \in Int /\ p[i] \in Int BY <1>1, <1>4
      <4>2. QED BY <1>9, <2>1, <4>1
    <3>2. CASE i < j
      <4>1. o[i] < o[j] BY <1>2, <3>2
      <4>2. o[i] \in Int /\ p[i] \in Int BY <1>1, <1>4
      <4>3. QED BY <1>9, <2>1, <4>1, <4>2
    <3>3. QED BY <1>1, <3>1, <3>2
  <2>3. p[j] = p[i] /\ j # i
    BY <1>1, <1>7, <2>1, <2>2
  <2>4. QED BY <1>1, <2>3
<1>10. QED
  <2>1. o[i] \in Int /\ p[i] \in Int
    BY <1>1, <1>4
  <2>2. QED BY <1>6, <1>8, <1>9, <2>1

\* The first k rows and the page after them are the first k + l.
LEMMA PageContinues ==
  ASSUME NEW S, NEW s \in Seq(S), NEW k \in Nat, NEW l \in Nat
  PROVE  FirstRows(s, k) \o SubSeq(s, k + 1, Min({k + l, Len(s)})) = FirstRows(s, k + l)
<1>1. PICK n \in Nat : n = Len(s)
  BY LenProperties
<1>2. PICK first \in Nat : first = Min({k, n}) /\ first \in {k, n} /\ first <= k /\ first <= n
  BY MinOfTwo
<1>3. PICK last \in Nat : /\ last = Min({k + l, n}) /\ last \in {k + l, n}
                          /\ last <= k + l /\ last <= n
  BY MinOfTwo
<1>4. CASE k <= n
  <2>1. first = k /\ k \in 0..n /\ last \in k..n
    BY <1>2, <1>3, <1>4
  <2>2. 1 \in 1..Len(s) + 1 /\ k \in 1 - 1..Len(s) /\ last \in k..Len(s)
    BY <1>1, <2>1
  <2>3. SubSeq(s, 1, k) \o SubSeq(s, k + 1, last) = SubSeq(s, 1, last)
    BY <2>2, ConcatAdjacentSubSeq
  <2>4. QED BY <1>1, <1>2, <1>3, <2>1, <2>3 DEF FirstRows
<1>5. CASE k > n
  <2>1. first = n /\ last = n /\ last < k + 1
    BY <1>2, <1>3, <1>5
  <2>2. SubSeq(s, 1, n) = s
    BY <1>1, SubSeqFull
  <2>3. SubSeq(s, k + 1, last) = <<>>
    BY <2>1, SubSeqEmpty
  <2>4. s \o <<>> = s
    BY ConcatEmptySeq
  <2>5. QED BY <1>1, <1>2, <1>3, <2>1, <2>2, <2>3, <2>4 DEF FirstRows
<1>6. k <= n \/ k > n
  BY <1>1
<1>7. QED BY <1>4, <1>5, <1>6

\* What a list is to return are rows of its table.
LEMMA WantedRows ==
  ASSUME resource \in Resources, NEW s
  PROVE  Wanted(s) \in SUBSET Rows
<1>1. CASE resource \in {"users", "jobs"} BY <1>1 DEF Wanted, Live
<1>2. CASE resource \in {"candidates", "interviews"} BY <1>2 DEF Wanted, Existing
<1>3. CASE resource = "applications" BY <1>3 DEF Wanted, Live
<1>4. QED BY <1>1, <1>2, <1>3 DEF Resources

\* Each list asks for the rows it wants.
LEMMA ListsFind ==
  ASSUME \/ FindAllUsers \/ FindAllJobs \/ FindAllCandidates
         \/ FindAllInterviews \/ FindAllApplications
  PROVE  ListPage(Matching)
<1>1. CASE FindAllUsers \/ FindAllJobs
  BY <1>1 DEF FindAllUsers, FindAllJobs, Matching, Wanted
<1>2. CASE FindAllCandidates \/ FindAllInterviews
  BY <1>2 DEF FindAllCandidates, FindAllInterviews, Matching, Wanted
<1>3. CASE FindAllApplications
  BY <1>3 DEF FindAllApplications, Matching, Wanted
<1>4. QED BY <1>1, <1>2, <1>3

\* Rows that are not written stay as they are.
LEMMA OthersSpare ==
  ASSUME TypeOK, Others
  PROVE  /\ UNCHANGED <<table, page, pc, scope, answer, collected, hadCandidate>>
         /\ writes' = writes + 1
         /\ pc = "answered" => written' = written
         /\ pc # "answered" =>
              /\ written \subseteq written' /\ written' # {}
              /\ \A r \in Rows \ written' :
                   state'[r] = state[r] /\ (r \in fits' <=> r \in fits)
<1>1. ASSUME NEW touched \in SUBSET Rows, touched # {}, Write(touched),
             \A r \in Rows \ touched :
               state'[r] = state[r] /\ (r \in fits' <=> r \in fits)
      PROVE  /\ UNCHANGED <<table, page, pc, scope, answer, collected, hadCandidate>>
             /\ writes' = writes + 1
             /\ pc = "answered" => written' = written
             /\ pc # "answered" =>
                  /\ written \subseteq written' /\ written' # {}
                  /\ \A r \in Rows \ written' :
                       state'[r] = state[r] /\ (r \in fits' <=> r \in fits)
  BY <1>1 DEF Write
<1>2. ASSUME NEW r \in Rows, Insert(r) \/ Change(r) \/ SoftDelete(r)
      PROVE  \E touched \in SUBSET Rows :
               /\ touched # {} /\ Write(touched)
               /\ \A q \in Rows \ touched :
                    state'[q] = state[q] /\ (q \in fits' <=> q \in fits)
  <2>1. Write({r})
    BY <1>2 DEF Insert, Change, SoftDelete
  <2>2. \A q \in Rows \ {r} : state'[q] = state[q] /\ (q \in fits' <=> q \in fits)
    BY <1>2 DEF Insert, Change, SoftDelete, TypeOK, SymDiff
  <2>3. QED BY <2>1, <2>2
<1>3. ASSUME NEW lost \in SUBSET Rows, Erase(lost)
      PROVE  \E touched \in SUBSET Rows :
               /\ touched # {} /\ Write(touched)
               /\ \A q \in Rows \ touched :
                    state'[q] = state[q] /\ (q \in fits' <=> q \in fits)
  BY <1>3 DEF Erase
<1>4. QED BY <1>1, <1>2, <1>3 DEF Others

\* A query finds now what it would have found before a write, but for the rows
\* written.
LEMMA SparedRows ==
  ASSUME TypeOK, UNCHANGED <<resource, scope>>,
         \A r \in Rows \ written' : state'[r] = state[r] /\ (r \in fits' <=> r \in fits)
  PROVE  /\ Live' \ written' = Live \ written'
         /\ Matching' \ written' = Matching \ written'
<1>1. Live' \ written' = Live \ written' /\ Existing' \ written' = Existing \ written'
  BY DEF Live, Existing
<1>2. Live \subseteq Rows /\ Live' \subseteq Rows
      /\ Existing \subseteq Rows /\ Existing' \subseteq Rows
  BY DEF Live, Existing
<1>3. Matching' \ written' = Matching \ written'
  <2>1. CASE resource \in {"users", "jobs"}
    <3>1. Matching = Live \cap fits /\ Matching' = Live' \cap fits'
      BY <2>1 DEF Matching, Wanted
    <3>2. QED BY <1>1, <1>2, <3>1
  <2>2. CASE resource \in {"candidates", "interviews"}
    <3>1. Matching = Existing \cap fits /\ Matching' = Existing' \cap fits'
      BY <2>2 DEF Matching, Wanted
    <3>2. QED BY <1>1, <1>2, <3>1
  <2>3. CASE resource = "applications"
    <3>1. Matching = Live \cap fits \cap scope /\ Matching' = Live' \cap fits' \cap scope
      BY <2>3 DEF Matching, Wanted
    <3>2. QED BY <1>1, <1>2, <3>1
  <2>4. QED BY <2>1, <2>2, <2>3 DEF TypeOK, Resources
<1>4. QED BY <1>1, <1>3

\* A write by others goes into written, whatever it changes.
LEMMA OthersKeepAnswers ==
  ASSUME TypeOK, AnswerInv, Others
  PROVE  AnswerInv'
<1>1. /\ UNCHANGED <<kind, resource, limit, page, pc, scope, waiting, counted, data>>
      /\ pc = "answered" => written' = written
      /\ pc # "answered" =>
           /\ written \subseteq written' /\ written' # {}
           /\ \A r \in Rows \ written' :
                state'[r] = state[r] /\ (r \in fits' <=> r \in fits)
  BY OthersSpare DEF table, answer
<1>2. CASE pc = "answered"
  <2>1. UNCHANGED <<kind, limit, page, pc, waiting, counted, data, written>>
        /\ pc' = "answered"
    BY <1>1, <1>2
  <2>2. PageLength(Total)' = PageLength(Total)
    BY <2>1 DEF PageLength, Total, Skip
  <2>3. QED BY <1>2, <2>1, <2>2 DEF AnswerInv
<1>3. CASE pc # "answered"
  <2>1. /\ Live' \ written' = Live \ written'
        /\ Matching' \ written' = Matching \ written'
    BY <1>1, <1>3, SparedRows
  <2>2. written \subseteq written' /\ written' # {}
    BY <1>1, <1>3
  <2>3. kind = "list" /\ pc = "query" =>
          /\ "rows" \notin waiting => Range(data) \ written' \subseteq Matching'
          /\ "total" \notin waiting =>
               counted["total"] \ written' = Matching' \ written'
    BY <2>1, <2>2 DEF AnswerInv
  <2>4. kind = "list" /\ waiting = {} => Range(data) \ written' \subseteq counted["total"]
    BY <2>2 DEF AnswerInv
  <2>5. kind = "overview" /\ pc = "query" =>
          /\ "total" \notin waiting => counted["total"] \ written' = Live' \ written'
          /\ "part" \notin waiting => counted["part"] \ written' \subseteq Live'
    BY <2>1, <2>2 DEF AnswerInv
  <2>6. kind = "overview" /\ waiting = {} =>
          counted["part"] \ counted["total"] \subseteq written'
    BY <2>2 DEF AnswerInv
  <2>7. /\ pc = "answered" => waiting = {}
        /\ pc = "scope" => kind = "list" /\ waiting = {"rows", "total"}
        /\ kind # "overview" => counted["part"] = {}
    BY DEF AnswerInv
  <2>8. Range(data)' = Range(data)
    BY <1>1
  <2>9. QED BY <1>1, <2>2, <2>3, <2>4, <2>5, <2>6, <2>7, <2>8 DEF AnswerInv
<1>4. QED BY <1>2, <1>3

\* Each query of a list, in either order, answers from the rows as they are.
LEMMA ListsKeepAnswers ==
  ASSUME TypeOK, AnswerInv, ListPage(Matching)
  PROVE  AnswerInv'
<1>1. /\ kind = "list" /\ pc = "query"
      /\ UNCHANGED <<kind, resource, limit, page, pc, scope, state, fits, written>>
  BY DEF ListPage, FindMany, Count, table, rows
<1>2. Matching' = Matching /\ Matching \in SUBSET Rows
  <2>1. Live' = Live /\ Existing' = Existing
    BY <1>1 DEF Live, Existing
  <2>2. QED BY <1>1, <2>1, WantedRows DEF Matching, Wanted, TypeOK
<1>3. CASE FindMany(Matching)
  <2>1. PICK order \in Orders(Matching) :
          data' = SubSeq(order, Skip + 1, Min({Skip + limit, Len(order)}))
    BY <1>3 DEF FindMany
  <2>2. Len(data') = PageLength(Cardinality(Matching))
    BY <1>2, <2>1, PageHas DEF TypeOK, PageRows
  <2>3. Skip \in Nat /\ Skip + limit \in Nat
    <3>1. page \in Nat \ {0} /\ limit \in Nat \ {0}
      BY DEF TypeOK
    <3>2. page - 1 \in Nat
      BY <3>1
    <3>3. (page - 1) * limit \in Nat
      BY <3>1, <3>2
    <3>4. QED BY <3>1, <3>3 DEF Skip
  <2>4. data' \in Seq(Matching)
    BY <1>2, <2>1, <2>3, PageWithin
  <2>5. Range(data') \subseteq Matching
    <3>1. \A i \in DOMAIN data' : data'[i] \in Matching
      BY <2>4
    <3>2. QED BY <3>1 DEF Range
  <2>6. /\ waiting' = waiting \ {"rows"} /\ counted' = counted
    BY <1>3 DEF FindMany
  <2>7. \A n : PageLength(n)' = PageLength(n)
    BY <1>1 DEF PageLength, Skip
  <2>8. waiting' = {} =>
          /\ Range(data') \ written \subseteq counted["total"]
          /\ written = {} => Len(data') = PageLength(Total)
    <3>1. SUFFICES ASSUME waiting' = {}
                   PROVE  /\ Range(data') \ written \subseteq counted["total"]
                          /\ written = {} => Len(data') = PageLength(Total)
      OBVIOUS
    <3>2. counted["total"] \ written = Matching \ written
      BY <1>1, <2>6, <3>1 DEF AnswerInv
    <3>3. written = {} => Total = Cardinality(Matching)
      BY <3>2 DEF Total
    <3>4. QED BY <2>2, <2>5, <3>2, <3>3
  <2>9. Total' = Total
    BY <2>6 DEF Total
  <2>10. QED BY <1>1, <1>2, <2>2, <2>5, <2>6, <2>7, <2>8, <2>9 DEF AnswerInv
<1>4. CASE Count("total", Matching)
  <2>1. /\ waiting' = waiting \ {"total"} /\ data' = data
        /\ counted'["total"] = Matching /\ counted'["part"] = counted["part"]
    BY <1>4 DEF Count, TypeOK
  <2>2. \A n : PageLength(n)' = PageLength(n)
    BY <1>1 DEF PageLength, Skip
  <2>3. Total' = Cardinality(Matching)
    BY <2>1 DEF Total
  <2>4. "rows" \notin waiting =>
          /\ Range(data) \ written \subseteq Matching
          /\ written = {} => Len(data) = PageLength(Cardinality(Matching))
    BY <1>1 DEF AnswerInv
  <2>5. QED BY <1>1, <1>2, <2>1, <2>2, <2>3, <2>4 DEF AnswerInv
<1>5. QED BY <1>3, <1>4 DEF ListPage

\* The counts of the overview and the trends, likewise.
LEMMA AnalyticsKeepAnswers ==
  ASSUME TypeOK, AnswerInv, GetOverview \/ GetTrends
  PROVE  AnswerInv'
<1>1. CASE GetOverview
  <2>1. /\ kind = "overview" /\ pc = "query"
        /\ UNCHANGED <<kind, pc, state, written>> /\ Live' = Live
    BY <1>1 DEF GetOverview, Count, table, rows, Live
  <2>2. CASE Count("total", Live)
    <3>1. /\ waiting' = waiting \ {"total"}
          /\ counted'["total"] = Live /\ counted'["part"] = counted["part"]
      BY <2>2 DEF Count, TypeOK
    <3>2. QED BY <2>1, <3>1 DEF AnswerInv
  <2>3. CASE Count("part", Undeleted \cap fits)
    <3>1. /\ waiting' = waiting \ {"part"}
          /\ counted'["total"] = counted["total"] /\ counted'["part"] = Live \cap fits
      BY <2>3 DEF Count, TypeOK, Undeleted
    <3>2. QED BY <2>1, <3>1 DEF AnswerInv
  <2>4. QED BY <1>1, <2>2, <2>3 DEF GetOverview
<1>2. CASE GetTrends
  <2>1. kind = "trends" /\ pc = "query" /\ waiting' = {}
        /\ UNCHANGED <<kind, pc>> /\ counted["part"] = {}
    BY <1>2, Zenon DEF GetTrends, table, AnswerInv
  <2>2. PICK found : counted' = [counted EXCEPT !["total"] = found]
    BY <1>2, Zenon DEF GetTrends
  <2>3. counted'["part"] = counted["part"]
    BY <2>2 DEF TypeOK
  <2>4. QED BY <2>1, <2>3 DEF AnswerInv
<1>3. QED BY <1>1, <1>2

\* Steps without a query: the filter, the answer, the next request.
LEMMA PagesKeepAnswers ==
  ASSUME TypeOK, AnswerInv, SetScope \/ Answer \/ NextPage
  PROVE  AnswerInv'
<1>1. CASE SetScope
  BY <1>1 DEF SetScope, AnswerInv, table, answer
<1>2. CASE Answer
  <2>1. UNCHANGED <<kind, limit, page, waiting, counted, data, written>>
        /\ waiting = {} /\ pc' = "answered"
    BY <1>2 DEF Answer, table, answer
  <2>2. PageLength(Total)' = PageLength(Total)
    BY <2>1 DEF PageLength, Total, Skip
  <2>3. QED BY <2>1, <2>2 DEF AnswerInv
<1>3. CASE NextPage
  <2>1. /\ kind' = "list" /\ waiting' = {"rows", "total"} /\ counted'["part"] = {}
        /\ pc' # "answered"
    BY <1>3 DEF NextPage, table, Queries, Receive
  <2>2. QED BY <2>1 DEF AnswerInv
<1>4. QED BY <1>1, <1>2, <1>3

\* Nothing has been answered.
LEMMA InitAnswerInv == Init => AnswerInv
<1>1. SUFFICES ASSUME Init PROVE AnswerInv
  OBVIOUS
<1>2. /\ waiting = Queries /\ pc = Receive /\ counted["part"] = {}
      /\ kind \in {"list", "overview", "trends"}
  BY <1>1 DEF Init
<1>3. QED BY <1>2 DEF AnswerInv, Queries, Receive

\* No step makes an answer wrong for a row that nobody wrote.
LEMMA NextAnswerInv == TypeOK /\ AnswerInv /\ [Next]_vars => AnswerInv'
<1>1. SUFFICES ASSUME TypeOK, AnswerInv, [Next]_vars PROVE AnswerInv'
  OBVIOUS
<1>2. CASE SetScope \/ Answer \/ NextPage BY <1>1, <1>2, PagesKeepAnswers
<1>3. CASE \/ FindAllUsers \/ FindAllJobs \/ FindAllCandidates
           \/ FindAllInterviews \/ FindAllApplications
  BY <1>1, <1>3, ListsFind, ListsKeepAnswers
<1>4. CASE GetOverview \/ GetTrends BY <1>1, <1>4, AnalyticsKeepAnswers
<1>5. CASE Others BY <1>1, <1>5, OthersKeepAnswers
<1>6. CASE UNCHANGED vars
  <2>1. UNCHANGED <<kind, resource, limit, page, pc, scope, waiting, counted, data,
                    state, fits, written>>
    BY <1>6 DEF vars, table, rows, answer
  <2>2. Live' = Live /\ Existing' = Existing
    BY <2>1 DEF Live, Existing
  <2>3. Matching' = Matching /\ (\A n : PageLength(n)' = PageLength(n)) /\ Total' = Total
    BY <2>1, <2>2 DEF Matching, Wanted, PageLength, Skip, Total
  <2>4. QED BY <1>1, <2>1, <2>2, <2>3 DEF AnswerInv
<1>7. QED BY <1>1, <1>2, <1>3, <1>4, <1>5, <1>6 DEF Next

\* The answers of Promise.all agree but for what was written in between.
LEMMA AnswersAgree == Spec => []AnswerInv
<1>1. ScopeInv => TypeOK
  BY DEF ScopeInv
<1>2. QED BY <1>1, ScopeInvariance, InitAnswerInv, NextAnswerInv, PTL DEF Spec

\* A part of a total is at most a thousand thousandths, rounded or not.
LEMMA RoundedRate ==
  ASSUME NEW part \in Nat, NEW total \in Nat \ {0}, part <= total
  PROVE  (2000 * part + total) \div (2 * total) \in 0..1000
<1>1. PICK d \in Nat \ {0}, n \in Nat : d = 2 * total /\ n = 2000 * part + total
  OBVIOUS
<1>2. n < 1001 * d
  BY <1>1
<1>3. n \div d \in Int /\ n \div d >= 0 /\ n \div d < 1001
  BY <1>1, <1>2
<1>4. QED BY <1>1, <1>3

\* Whatever is written while the queries of a request run, they agree on all the
\* other rows: pages with their totals, parts with the whole.
THEOREM QueriesAgreement == Spec => []QueriesAgree
<1>1. ScopeInv /\ AnswerInv => QueriesAgree
  <2> SUFFICES ASSUME ScopeInv, AnswerInv, pc = "answered"
               PROVE  /\ kind = "list" => Range(data) \ written \subseteq counted["total"]
                      /\ kind = "list" /\ written = {} =>
                           Len(data) = Max({0, Min({limit, Total - Skip})})
                      /\ counted["part"] \ counted["total"] \subseteq written
                      /\ kind = "overview" /\ written = {} => HireRate \in 0..1000
    BY DEF QueriesAgree
  <2>1. waiting = {} /\ TypeOK
    BY DEF AnswerInv, ScopeInv
  <2>2. counted["part"] \ counted["total"] \subseteq written
    BY <2>1 DEF AnswerInv
  <2>3. ASSUME written = {} PROVE HireRate \in 0..1000
    <3>1. counted["part"] \subseteq counted["total"] /\ counted["total"] \in SUBSET Rows
      BY <2>1, <2>2, <2>3 DEF TypeOK
    <3>2. Part \in Nat /\ Total \in Nat /\ Part <= Total
      BY <3>1, FiniteRows, FS_Subset DEF Part, Total
    <3>3. QED BY <3>2, RoundedRate DEF HireRate
  <2>4. kind = "list" => Range(data) \ written \subseteq counted["total"]
    BY <2>1 DEF AnswerInv
  <2>5. kind = "list" /\ written = {} => Len(data) = PageLength(Total)
    BY <2>1 DEF AnswerInv
  <2>6. kind = "list" /\ written = {} => Len(data) = Max({0, Min({limit, Total - Skip})})
    BY <2>5, Zenon DEF PageLength
  <2>7. QED BY <2>2, <2>3, <2>4, <2>6, Zenon
<1>2. QED BY <1>1, ScopeInvariance, AnswersAgree, PTL

-----------------------------------------------------------------------------
(* A walk through the pages.                                                *)

\* What a page skips and takes ends where the next page begins.
LEMMA SkipIsNatural ==
  ASSUME page \in Nat \ {0}, limit \in Nat \ {0}
  PROVE  Skip \in Nat /\ page * limit \in Nat /\ Skip + limit = page * limit
<1>1. page - 1 \in Nat
  OBVIOUS
<1>2. (page - 1) * limit \in Nat /\ page * limit \in Nat
  BY <1>1
<1>3. (page - 1) * limit + limit = page * limit
  OBVIOUS
<1>4. QED BY <1>2, <1>3 DEF Skip

\* No order has a row before its first.
LEMMA NothingRead ==
  ASSUME NEW where \in SUBSET Rows, NEW order \in Orders(where)
  PROVE  FirstRows(order, 0) = <<>>
<1>1. PICK n \in Nat : n = Len(order)
  BY OrderOfRows
<1>2. PICK zero \in Nat : zero = 0
  OBVIOUS
<1>3. Min({zero, n}) \in {zero, n} /\ Min({zero, n}) <= zero
  BY MinOfTwo
<1>4. Min({0, Len(order)}) = 0
  BY <1>1, <1>2, <1>3
<1>5. QED BY <1>4, SubSeqEmpty DEF FirstRows

\* What a client gets who reads a list that nobody writes.
LEMMA SameList ==
  ASSUME UNCHANGED <<table, rows>>
  PROVE  /\ WholeList' = WholeList
         /\ \A s : Wanted(s)' = Wanted(s)
         /\ \A where : Orders(where)' = Orders(where)
<1>1. /\ UNCHANGED <<resource, caller, mine, ties, state, fits, candidate>>
      /\ Live' = Live /\ Existing' = Existing
  BY DEF table, rows, Live, Existing
<1>2. ScopeOfCaller' = ScopeOfCaller
  BY <1>1 DEF ScopeOfCaller
<1>3. \A s : Wanted(s)' = Wanted(s)
  BY <1>1 DEF Wanted
<1>4. \A where : Orders(where)' = Orders(where)
  BY <1>1 DEF Orders
<1>5. WholeList' = WholeList
  BY <1>1, <1>2 DEF WholeList, Wanted
<1>6. QED BY <1>3, <1>4, <1>5

\* Only the list of applications has a scope.
LEMMA ScopeOfOthers ==
  ASSUME resource \in Resources \ {"applications"}
  PROVE  Matching = WholeList
BY DEF Matching, WholeList, Wanted, Resources

\* The rows and the count of a page belong to the same whole list.
LEMMA ListsKeepWalk ==
  ASSUME TypeOK, WalkInv, ListPage(Matching)
  PROVE  WalkInv'
<1>1. /\ kind = "list" /\ pc = "query"
      /\ UNCHANGED <<table, rows, page, pc, scope, collected, writes>>
  BY DEF ListPage, FindMany, Count
<1>2. SUFFICES ASSUME kind = "list", writes = 0, ~ties
               PROVE  /\ Matching' = WholeList
                      /\ "total" \notin waiting' => counted'["total"] = WholeList
                      /\ "rows" \notin waiting' => Orders(WholeList) # {}
                      /\ \A order \in Orders(WholeList) :
                           /\ "rows" \notin waiting' => data' = PageRows(order)
                           /\ collected = FirstRows(order, Read)
  <2>1. UNCHANGED <<kind, limit, ties>>
    BY <1>1 DEF table
  <2>2. Read' = Read /\ \A order : PageRows(order)' = PageRows(order)
    BY <1>1, <2>1 DEF Read, PageRows, Skip
  <2>3. \A order, k : FirstRows(order, k)' = FirstRows(order, k)
    BY DEF FirstRows
  <2>4. Orders(WholeList)' = Orders(WholeList)
    BY <1>1, <2>1, SameList DEF Orders
  <2>5. QED BY <1>1, <2>1, <2>2, <2>3, <2>4, SameList DEF WalkInv
<1>3. Matching = WholeList /\ WholeList \in SUBSET Rows
  BY <1>1, <1>2, WantedRows DEF WalkInv, WholeList, TypeOK
<1>4. Matching' = WholeList
  BY <1>1, <1>3, SameList DEF Matching
<1>5. CASE FindMany(Matching)
  <2>1. PICK o \in Orders(WholeList) : data' = PageRows(o)
    BY <1>3, <1>5 DEF FindMany, PageRows
  <2>2. \A order \in Orders(WholeList) : order = o
    BY <1>2, <1>3, OneOrder
  <2>3. waiting' = waiting \ {"rows"} /\ counted' = counted
    BY <1>5 DEF FindMany
  <2>4. QED BY <1>2, <1>4, <2>1, <2>2, <2>3 DEF WalkInv
<1>6. CASE Count("total", Matching)
  <2>1. /\ waiting' = waiting \ {"total"} /\ data' = data
        /\ counted'["total"] = Matching
    BY <1>6 DEF Count, TypeOK
  <2>2. QED BY <1>2, <1>3, <1>4, <2>1 DEF WalkInv
<1>7. QED BY <1>5, <1>6 DEF ListPage

\* Without writes every page has the filter of the first.
LEMMA SetScopeKeepsWalk ==
  ASSUME TypeOK, WalkInv, SetScope
  PROVE  WalkInv'
<1>1. /\ UNCHANGED <<table, rows, page, waiting, counted, data, collected, writes>>
      /\ pc = "scope" /\ pc' = "query" /\ scope' = ScopeOfCaller
  BY DEF SetScope, answer
<1>2. UNCHANGED <<kind, limit, ties>>
  BY <1>1 DEF table
<1>3. /\ Read' = Read /\ \A order : PageRows(order)' = PageRows(order)
  BY <1>1, <1>2 DEF Read, PageRows, Skip
<1>4. \A order, k : FirstRows(order, k)' = FirstRows(order, k)
  BY DEF FirstRows
<1>5. WholeList' = WholeList /\ Orders(WholeList)' = Orders(WholeList)
  BY <1>1, <1>2, SameList DEF Orders
<1>6. Matching' = WholeList'
  <2>1. Live' = Live /\ Existing' = Existing /\ UNCHANGED <<resource, fits>>
    BY <1>1 DEF table, rows, Live, Existing
  <2>2. Matching' = WholeList
    BY <1>1, <2>1 DEF Matching, WholeList, Wanted
  <2>3. QED BY <1>5, <2>2
<1>7. QED BY <1>1, <1>2, <1>3, <1>4, <1>5, <1>6 DEF WalkInv

\* The rows of a page come right behind those of the pages before.
LEMMA AnswerKeepsWalk ==
  ASSUME TypeOK, WalkInv, Answer
  PROVE  WalkInv'
<1>1. /\ UNCHANGED <<table, rows, page, scope, waiting, counted, data, writes>>
      /\ pc = "query" /\ waiting = {} /\ pc' = "answered"
      /\ collected' = collected \o data
  BY DEF Answer, answer
<1>2. UNCHANGED <<kind, limit, ties>>
  BY <1>1 DEF table
<1>3. \A order : PageRows(order)' = PageRows(order)
  BY <1>1, <1>2 DEF PageRows, Skip
<1>4. \A order, k : FirstRows(order, k)' = FirstRows(order, k)
  BY DEF FirstRows
<1>5. WholeList' = WholeList /\ Orders(WholeList)' = Orders(WholeList)
  BY <1>1, <1>2, SameList DEF Orders
<1>6. Matching' = Matching
  BY <1>1, SameList DEF Matching
<1>7. /\ Read = Skip /\ Read' = Skip + limit /\ Skip \in Nat /\ limit \in Nat
  <2>1. page \in Nat \ {0} /\ limit \in Nat \ {0}
    BY DEF TypeOK
  <2>2. Read = Skip /\ Read' = page * limit
    BY <1>1, <1>2 DEF Read, Skip
  <2>3. QED BY <2>1, <2>2, SkipIsNatural
<1>8. ASSUME kind = "list", writes = 0, ~ties, NEW order \in Orders(WholeList)
      PROVE  collected' = FirstRows(order, Read')
  <2>1. collected = FirstRows(order, Skip) /\ data = PageRows(order)
    BY <1>1, <1>7, <1>8 DEF WalkInv
  <2>2. order \in Seq(WholeList)
    <3>1. WholeList \in SUBSET Rows
      BY WantedRows DEF WholeList, TypeOK
    <3>2. QED BY <1>8, <3>1, OrderOfRows
  <2>3. FirstRows(order, Skip) \o PageRows(order) = FirstRows(order, Skip + limit)
    BY <1>7, <2>2, PageContinues DEF PageRows
  <2>4. QED BY <1>1, <1>7, <2>1, <2>3
<1>9. QED BY <1>1, <1>2, <1>3, <1>4, <1>5, <1>6, <1>8 DEF WalkInv

\* The next page begins where the rows collected end.
LEMMA NextPageKeepsWalk ==
  ASSUME TypeOK, WalkInv, NextPage
  PROVE  WalkInv'
<1>1. /\ UNCHANGED <<table, rows, scope, collected, writes>>
      /\ kind = "list" /\ pc = "answered" /\ pc' = Receive
      /\ page' = page + 1 /\ waiting' = Queries
  BY DEF NextPage
<1>2. UNCHANGED <<kind, limit, ties, resource>> /\ waiting' = {"rows", "total"}
  BY <1>1 DEF table, Queries
<1>3. \A order, k : FirstRows(order, k)' = FirstRows(order, k)
  BY DEF FirstRows
<1>4. WholeList' = WholeList /\ Orders(WholeList)' = Orders(WholeList)
  BY <1>1, <1>2, SameList DEF Orders
<1>5. pc' # "scope" => Matching' = WholeList'
  <2>1. SUFFICES ASSUME resource # "applications" PROVE Matching' = WholeList
    BY <1>1, <1>4 DEF Receive
  <2>2. Matching = WholeList
    BY <2>1, ScopeOfOthers DEF TypeOK
  <2>3. QED BY <1>1, <2>2, SameList DEF Matching
<1>6. Read' = Read
  <2>1. page \in Nat \ {0} /\ limit \in Nat \ {0}
    BY DEF TypeOK
  <2>2. pc' # "answered"
    BY <1>1 DEF Receive
  <2>3. Read' = ((page + 1) - 1) * limit /\ Read = page * limit
    BY <1>1, <1>2, <2>2 DEF Read
  <2>4. QED BY <2>1, <2>3
<1>7. QED BY <1>1, <1>2, <1>3, <1>4, <1>5, <1>6 DEF WalkInv

\* Nothing has been collected.
LEMMA InitWalkInv == Init => WalkInv
<1>1. SUFFICES ASSUME Init PROVE WalkInv
  OBVIOUS
<1>2. TypeOK
  BY <1>1, InitScopeInv DEF ScopeInv
<1>3. /\ pc = Receive /\ waiting = Queries /\ page = 1 /\ collected = <<>>
  BY <1>1 DEF Init
<1>4. SUFFICES ASSUME kind = "list"
               PROVE  /\ pc # "scope" => Matching = WholeList
                      /\ waiting = {"rows", "total"}
                      /\ \A order \in Orders(WholeList) : collected = FirstRows(order, Read)
  BY DEF WalkInv
<1>5. waiting = {"rows", "total"} /\ (pc # "scope" => resource # "applications")
  BY <1>3, <1>4 DEF Queries, Receive
<1>6. pc # "scope" => Matching = WholeList
  BY <1>2, <1>5, ScopeOfOthers DEF TypeOK
<1>7. Read = 0
  <2>1. pc # "answered" /\ limit \in Nat
    BY <1>2, <1>3 DEF Receive, TypeOK
  <2>2. QED BY <1>3, <2>1 DEF Read
<1>8. WholeList \in SUBSET Rows
  BY <1>2, WantedRows DEF WholeList, TypeOK
<1>9. QED BY <1>3, <1>5, <1>6, <1>7, <1>8, NothingRead

\* A walk without writes goes through the one order there is.
LEMMA NextWalkInv == TypeOK /\ WalkInv /\ [Next]_vars => WalkInv'
<1>1. SUFFICES ASSUME TypeOK, WalkInv, [Next]_vars PROVE WalkInv'
  OBVIOUS
<1>2. CASE \/ FindAllUsers \/ FindAllJobs \/ FindAllCandidates
           \/ FindAllInterviews \/ FindAllApplications
  BY <1>1, <1>2, ListsFind, ListsKeepWalk
<1>3. CASE GetOverview \/ GetTrends
  <2>1. kind' # "list"
    <3>1. CASE GetOverview BY <3>1 DEF GetOverview, Count, table
    <3>2. CASE GetTrends BY <3>2, Zenon DEF GetTrends, table
    <3>3. QED BY <1>3, <3>1, <3>2
  <2>2. QED BY <2>1 DEF WalkInv
<1>4. CASE Others
  <2>1. writes' # 0
    BY <1>1, <1>4, OthersSpare, ReportsAssumption DEF TypeOK
  <2>2. QED BY <2>1 DEF WalkInv
<1>5. CASE UNCHANGED vars
  <2>1. UNCHANGED <<table, rows, page, pc, scope, waiting, counted, data, collected, writes>>
    BY <1>5 DEF vars, answer
  <2>2. UNCHANGED <<kind, limit, ties>>
    BY <2>1 DEF table
  <2>3. Read' = Read /\ \A order : PageRows(order)' = PageRows(order)
    BY <2>1, <2>2 DEF Read, PageRows, Skip
  <2>4. \A order, k : FirstRows(order, k)' = FirstRows(order, k)
    BY DEF FirstRows
  <2>5. /\ WholeList' = WholeList /\ Orders(WholeList)' = Orders(WholeList)
        /\ Matching' = Matching
    BY <2>1, <2>2, SameList DEF Orders, Matching
  <2>6. QED BY <1>1, <2>1, <2>2, <2>3, <2>4, <2>5 DEF WalkInv
<1>6. QED
  BY <1>1, <1>2, <1>3, <1>4, <1>5, SetScopeKeepsWalk, AnswerKeepsWalk,
     NextPageKeepsWalk DEF Next

\* The last page by totalPages reaches the end of the list.
LEMMA LastPage ==
  ASSUME page \in Nat \ {0}, limit \in Nat \ {0}, Total \in Nat, page >= TotalPages
  PROVE  Total <= page * limit
<1>1. PICK d \in Nat \ {0}, n \in Nat : d = limit /\ n = Total + limit - 1
  OBVIOUS
<1>2. n \div d \in Int /\ n < ((n \div d) + 1) * d
  BY <1>1
<1>3. n \div d <= page
  BY <1>1 DEF TotalPages
<1>4. ((n \div d) + 1) * d <= (page + 1) * d
  BY <1>1, <1>2, <1>3
<1>5. (page + 1) * d = page * limit + limit
  BY <1>1
<1>6. page * limit \in Int
  OBVIOUS
<1>7. QED BY <1>1, <1>2, <1>4, <1>5, <1>6

\* skip, take and totalPages fit together: a client that follows totalPages while
\* nobody writes has each row of the list once, for pages and tables of any size.
THEOREM WalksAreComplete == Spec => []WalkIsComplete
<1>1. ScopeInv /\ AnswerInv /\ WalkInv => WalkIsComplete
  <2> SUFFICES ASSUME ScopeInv, AnswerInv, WalkInv, kind = "list", pc = "answered",
                      page >= TotalPages, writes = 0, ~ties
               PROVE  Range(collected) = counted["total"] /\ Len(collected) = Total
    BY DEF WalkIsComplete
  <2>1. TypeOK /\ waiting = {}
    BY DEF ScopeInv, AnswerInv
  <2>2. PICK order \in Orders(WholeList) : collected = FirstRows(order, page * limit)
    BY <2>1 DEF WalkInv, Read
  <2>3. counted["total"] = WholeList /\ WholeList \in SUBSET Rows
    BY <2>1, WantedRows DEF WalkInv, WholeList, TypeOK
  <2>4. /\ order \in Seq(WholeList) /\ Len(order) = Total /\ Total \in Nat
        /\ Range(order) = WholeList
    BY <2>3, OrderOfRows DEF Total
  <2>5. page \in Nat \ {0} /\ limit \in Nat \ {0}
    BY <2>1 DEF TypeOK
  <2>6. page * limit \in Nat /\ Total <= page * limit
    BY <2>4, <2>5, LastPage
  <2>7. Min({page * limit, Len(order)}) = Len(order)
    <3>1. PICK k \in Nat, n \in Nat : k = page * limit /\ n = Len(order) /\ n <= k
      BY <2>4, <2>6
    <3>2. Min({k, n}) \in {k, n} /\ Min({k, n}) <= n
      BY MinOfTwo
    <3>3. QED BY <3>1, <3>2
  <2>8. collected = order
    BY <2>2, <2>4, <2>7, SubSeqFull DEF FirstRows
  <2>9. QED BY <2>3, <2>4, <2>8
<1>2. ScopeInv => TypeOK
  BY DEF ScopeInv
<1>3. QED BY <1>1, <1>2, ScopeInvariance, AnswersAgree, InitWalkInv, NextWalkInv, PTL DEF Spec

-----------------------------------------------------------------------------
(* The trends.                                                              *)

SumOver(f, D) == MapThenSumSet(LAMBDA d : f[d], D)

\* g adds up the values of f, part by part.
Adds(g, f, D) ==
  /\ g \in [SUBSET D -> Nat]
  /\ g[{}] = 0
  /\ \A s \in SUBSET D : \A x \in s : g[s] = f[x] + g[s \ {x}]

\* A function of sets that adds up what its argument's elements contribute is the
\* sum: there is no smallest set where the fold is something else.
LEMMA SumOfParts ==
  ASSUME NEW D, IsFiniteSet(D), NEW f, NEW g, Adds(g, f, D)
  PROVE  SumOver(f, D) = g[D]
<1> USE DEF Adds
<1> DEFINE Iter(h) == [s \in SUBSET D |-> IF s = {} THEN 0
                          ELSE f[CHOOSE x \in s : TRUE] + h[s \ {CHOOSE x \in s : TRUE}]]
<1>1. SumOver(f, D) = (CHOOSE h : h = Iter(h))[D]
  BY Zenon DEF SumOver, MapThenSumSet, MapThenFoldSet
<1>2. g = Iter(g)
  <2>1. ASSUME NEW s \in SUBSET D PROVE g[s] = Iter(g)[s]
    <3>1. CASE s = {} BY <3>1
    <3>2. CASE s # {}
      <4>1. PICK x : x = CHOOSE y \in s : TRUE
        OBVIOUS
      <4>2. x \in s
        BY <3>2, <4>1
      <4>3. g[s] = f[x] + g[s \ {x}]
        BY <4>2
      <4>4. QED BY <3>2, <4>1, <4>3, Zenon
    <3>3. QED BY <3>1, <3>2
  <2>2. QED BY <2>1
<1>3. PICK h : h = (CHOOSE k : k = Iter(k)) /\ h = Iter(h)
  <2>1. \E k : k = Iter(k)
    BY <1>2
  <2>2. PICK h : h = (CHOOSE k : k = Iter(k))
    OBVIOUS
  <2> HIDE DEF Iter
  <2>3. h = Iter(h)
    BY <2>1, <2>2, Zenon
  <2>4. QED BY <2>2, <2>3
<1>4. \A s \in SUBSET D : IsFiniteSet(s) /\ Cardinality(s) \in Nat
  BY FS_Subset, FS_CardinalityType
<1>5. h[D] = g[D]
  <2> DEFINE Bad == {s \in SUBSET D : h[s] # g[s]}
  <2>1. SUFFICES ASSUME Bad # {} PROVE FALSE
    OBVIOUS
  <2>2. PICK s \in Bad : \A t \in Bad : Cardinality(s) <= Cardinality(t)
    <3> DEFINE Sizes == {Cardinality(s) : s \in Bad}
    <3>1. Sizes \in SUBSET Nat /\ Sizes # {}
      BY <1>4, <2>1
    <3>2. PICK n \in Sizes : \A m \in Sizes : n <= m
      <4> HIDE DEF Sizes
      <4>1. QED BY <3>1, SmallestNumber
    <3>3. QED BY <3>2
  <2>3. s \in SUBSET D /\ h[s] # g[s]
    OBVIOUS
  <2>4. s # {}
    <3>1. h[{}] = 0
      BY <1>3
    <3>2. QED BY <2>3, <3>1
  <2>5. PICK x : x = CHOOSE y \in s : TRUE
    OBVIOUS
  <2>6. x \in s
    BY <2>4, <2>5
  <2>7. h[s] = f[x] + h[s \ {x}]
    BY <1>3, <2>3, <2>4, <2>5, Zenon
  <2>8. g[s] = f[x] + g[s \ {x}]
    BY <2>3, <2>6
  <2>9. Cardinality(s \ {x}) < Cardinality(s)
    <3>1. IsFiniteSet(s) /\ Cardinality(s \ {x}) = Cardinality(s) - 1
      BY <1>4, <2>3, <2>6, FS_RemoveElement
    <3>2. QED BY <1>4, <2>3, <3>1
  <2>10. s \ {x} \notin Bad
    <3>1. Cardinality(s \ {x}) \in Nat /\ Cardinality(s) \in Nat
      BY <1>4, <2>3
    <3>2. QED BY <2>2, <2>9, <3>1
  <2>11. s \ {x} \in SUBSET D
    BY <2>3
  <2>12. h[s \ {x}] = g[s \ {x}]
    BY <2>10, <2>11
  <2>13. QED BY <2>3, <2>7, <2>8, <2>12
<1>6. QED BY <1>1, <1>3, <1>5

\* Counting a set of rows by day and adding up is counting them.
LEMMA SumOfDays ==
  ASSUME NEW found \in SUBSET Rows, NEW D, IsFiniteSet(D),
         \A r \in found : Day(r) \in D, NEW f,
         \A d \in D : f[d] = Cardinality({r \in found : Day(r) = d})
  PROVE  SumOver(f, D) = Cardinality(found)
<1> DEFINE On(s) == {r \in found : Day(r) \in s}
           g == [s \in SUBSET D |-> Cardinality(On(s))]
<1>1. \A s : On(s) \in SUBSET Rows /\ IsFiniteSet(On(s)) /\ Cardinality(On(s)) \in Nat
  BY FiniteRows
<1>2. g \in [SUBSET D -> Nat]
  BY <1>1
<1>3. g[{}] = 0
  <2>1. On({}) = {}
    OBVIOUS
  <2>2. QED BY <2>1, FS_EmptySet
<1>4. ASSUME NEW s \in SUBSET D, NEW x \in s PROVE g[s] = f[x] + g[s \ {x}]
  <2>1. On(s) = On({x}) \cup On(s \ {x}) /\ On({x}) \cap On(s \ {x}) = {}
    OBVIOUS
  <2>2. Cardinality(On(s)) = Cardinality(On({x})) + Cardinality(On(s \ {x}))
    <3>1. Cardinality(On({x}) \cap On(s \ {x})) = 0
      BY <2>1, FS_EmptySet
    <3>2. Cardinality(On({x}) \cup On(s \ {x}))
            = Cardinality(On({x})) + Cardinality(On(s \ {x}))
              - Cardinality(On({x}) \cap On(s \ {x}))
      <4> HIDE DEF On
      <4>1. QED BY <1>1, FS_Union
    <3>3. QED
      <4>1. PICK all, one, rest : all = Cardinality(On(s)) /\ one = Cardinality(On({x}))
                                  /\ rest = Cardinality(On(s \ {x}))
        OBVIOUS
      <4>2. all = one + rest - 0 /\ one \in Nat /\ rest \in Nat
        <5> HIDE DEF On
        <5>1. QED BY <1>1, <2>1, <3>1, <3>2, <4>1
      <4>3. QED BY <4>1, <4>2
  <2>3. On({x}) = {r \in found : Day(r) = x}
    OBVIOUS
  <2>4. Cardinality(On({x})) = f[x]
    BY <2>3
  <2>5. g[s] = Cardinality(On(s)) /\ g[s \ {x}] = Cardinality(On(s \ {x}))
    OBVIOUS
  <2>6. QED BY <2>2, <2>4, <2>5
<1>5. g[D] = Cardinality(found)
  <2>1. On(D) = found
    OBVIOUS
  <2>2. QED BY <2>1
<1>6. QED
  <2> HIDE DEF g
  <2>1. \A s \in SUBSET D : \A x \in s : g[s] = f[x] + g[s \ {x}]
    BY <1>4
  <2>2. PICK h : h = g
    OBVIOUS
  <2>3. h \in [SUBSET D -> Nat] /\ h[{}] = 0
    BY <1>2, <1>3, <2>2
  <2>4. \A s \in SUBSET D : \A x \in s : h[s] = f[x] + h[s \ {x}]
    BY <2>1, <2>2
  <2>5. SumOver(f, D) = h[D]
    <3>1. Adds(h, f, D)
      BY <2>3, <2>4, Zenon DEF Adds
    <3>2. QED BY <3>1, SumOfParts, Zenon
  <2>6. QED BY <1>5, <2>2, <2>5

\* What getTrends initialises, for the zone that is east of Greenwich on the days
\* before s only, or from s on only: one date at most is passed over.
LEMMA OneGap ==
  ASSUME NEW east \in Zones, NEW today \in {LastRow - 1, LastRow},
         NEW days \in 1..MaxLimit, NEW found \in SUBSET Rows,
         NEW first, first = UtcDate(east, today - days),
         NEW initial, initial = {UtcDate(east, d) : d \in (today - days)..today},
         \A r \in found : Day(r) >= first
                          /\ Day(r) <= IF east[today] THEN today ELSE today + 1,
         NEW D, D = Dates(initial, found)
  PROVE  /\ IsFiniteSet(D)
         /\ Cardinality((Min(D)..Max(D)) \ D) <= 1
<1> DEFINE Days == -MaxLimit..LastRow
<1>1. /\ today \in Int /\ days \in Int /\ today >= 0 /\ today <= LastRow
      /\ LastRow \in Int /\ MaxLimit \in Int
      /\ today - days >= -MaxLimit /\ today - days < today
  BY ReportsAssumption
<1>2. PICK s \in Days : \/ \A d \in Days : east[d] <=> d < s
                        \/ \A d \in Days : east[d] <=> d >= s
  <2>1. PICK s \in Days : east = [d \in Days |-> d < s] \/ east = [d \in Days |-> d >= s]
    BY DEF Zones
  <2>2. QED BY <2>1
<1>3. s \in Int /\ \A d \in (today - days)..today : d \in Days /\ d \in Int
  BY <1>1
<1>4. \A d \in (today - days)..today :
        UtcDate(east, d) \in D /\ UtcDate(east, d) = IF east[d] THEN d - 1 ELSE d
  BY DEF Dates, UtcDate
<1>5. \A x \in D : (\E d \in (today - days)..today : x = UtcDate(east, d))
                   \/ (\E r \in found : x = Day(r))
  BY DEF Dates
<1>6. \A r \in found : Day(r) \in Int /\ Day(r) \in D
  BY DEF Day, Rows, Dates
<1>7. today - days \in (today - days)..today /\ today \in (today - days)..today
  BY <1>1
<1>8. first \in Int /\ first \in D /\ first >= today - days - 1 /\ first <= today - days
  BY <1>1, <1>4, <1>7
<1>9. \A x \in D : /\ x \in Int /\ first <= x
                   /\ x <= IF east[today] THEN today ELSE today + 1
  <2>1. ASSUME NEW d \in (today - days)..today
        PROVE  /\ UtcDate(east, d) \in Int /\ first <= UtcDate(east, d)
               /\ UtcDate(east, d) <= IF east[today] THEN today ELSE today + 1
    <3>1. d \in Int /\ d <= today /\ d >= today - days
      BY <1>1
    <3>2. UtcDate(east, d) = IF east[d] THEN d - 1 ELSE d
      BY <1>4
    <3>3. first = IF east[today - days] THEN today - days - 1 ELSE today - days
      BY <1>4, <1>7
    <3>4. d \in Days /\ today - days \in Days
      BY <1>3, <1>7
    <3>5. QED BY <1>1, <1>2, <1>3, <3>1, <3>2, <3>3, <3>4
  <2>2. QED BY <1>5, <1>6, <2>1
<1>10. PICK high \in D : \A x \in D : x <= high
  <2> \A x \in D : x \in Int /\ x <= today + 1
    BY <1>1, <1>9
  <2>1. CASE today + 1 \in D
    BY <1>1, <2>1
  <2>2. CASE today + 1 \notin D /\ today \in D
    <3>1. \A x \in D : x # today + 1
      BY <2>2
    <3>2. \A x \in D : x <= today
      BY <1>1, <3>1
    <3>3. QED BY <2>2, <3>2
  <2>3. CASE today + 1 \notin D /\ today \notin D
    <3>1. today - 1 \in D
      BY <1>4, <1>7, <2>3
    <3>2. \A x \in D : x # today + 1 /\ x # today
      BY <2>3
    <3>3. \A x \in D : x <= today - 1
      BY <1>1, <3>2
    <3>4. QED BY <3>1, <3>3
  <2>4. QED BY <2>1, <2>2, <2>3
<1>11. Min(D) = first
  <2>1. Min(D) \in D /\ \A x \in D : Min(D) <= x
    <3>1. \E x \in D : \A y \in D : x =< y
      BY <1>8, <1>9
    <3>2. QED BY <3>1, Zenon DEF Min
  <2>2. PICK m : m = Min(D)
    OBVIOUS
  <2>3. m \in Int /\ m <= first /\ first <= m
    BY <1>8, <1>9, <2>1, <2>2
  <2>4. QED BY <1>8, <2>2, <2>3
<1>12. Max(D) = high
  <2>1. Max(D) \in D /\ \A x \in D : Max(D) >= x
    <3>1. \E x \in D : \A y \in D : x >= y
      BY <1>9, <1>10
    <3>2. QED BY <3>1, Zenon DEF Max
  <2>2. QED BY <1>9, <1>10, <2>1
<1>13. ASSUME NEW x \in first..high, x \notin D PROVE x = s - 1
  <2>1. x \in Int /\ first <= x /\ x <= high /\ x # first /\ x # high /\ high \in Int
    BY <1>8, <1>9, <1>10, <1>13
  <2>2. x > first /\ x < high
    BY <1>8, <2>1
  <2>3. high <= IF east[today] THEN today ELSE today + 1
    BY <1>9, <1>10
  <2>4. x \in (today - days)..today
    BY <1>1, <1>8, <2>1, <2>2, <2>3
  <2>5. east[x]
    BY <1>4, <1>13, <2>4
  <2>6. x < today
    <3>1. x # today
      BY <1>1, <2>1, <2>2, <2>3, <2>5
    <3>2. QED BY <1>1, <2>1, <2>4, <3>1
  <2>7. x + 1 \in (today - days)..today
    BY <1>1, <2>1, <2>4, <2>6
  <2>8. ~east[x + 1]
    <3>1. SUFFICES ASSUME east[x + 1] PROVE FALSE
      OBVIOUS
    <3>2. UtcDate(east, x + 1) = (x + 1) - 1
      BY <1>4, <2>7, <3>1
    <3>3. UtcDate(east, x + 1) = x
      BY <2>1, <3>2
    <3>4. QED BY <1>4, <1>13, <2>7, <3>3
  <2>9. x \in Days /\ x + 1 \in Days
    BY <1>3, <2>4, <2>7
  <2>10. QED BY <1>2, <1>3, <2>1, <2>5, <2>8, <2>9
<1>14. IsFiniteSet(D)
  <2>1. D \subseteq first..high
    <3>1. high \in Int /\ \A x \in D : x \in Int /\ first <= x /\ x <= high
      BY <1>9, <1>10
    <3>2. first \in Int
      BY <1>8
    <3>3. \A x \in D : x \in first..high
      BY <3>1, <3>2
    <3>4. QED BY <3>3
  <2>2. IsFiniteSet(first..high)
    <3>1. first \in Int /\ high \in Int
      BY <1>8, <1>9, <1>10
    <3>2. QED BY <3>1, FS_Interval
  <2>3. QED BY <2>1, <2>2, FS_Subset
<1>15. Cardinality((first..high) \ D) <= 1
  <2>1. (first..high) \ D \subseteq {s - 1}
    BY <1>13
  <2>2. IsFiniteSet({s - 1}) /\ Cardinality({s - 1}) = 1
    BY FS_Singleton
  <2>3. PICK A, B : A = (first..high) \ D /\ B = {s - 1}
    OBVIOUS
  <2>4. Cardinality(A) <= Cardinality(B)
    BY <2>1, <2>2, <2>3, FS_Subset
  <2>5. QED BY <2>2, <2>3, <2>4
<1>16. QED BY <1>11, <1>12, <1>14, <1>15

\* The same with the sum as an operator of points.
TrendsInv ==
  /\ limit <= MaxLimit
  /\ kind = "trends" /\ waiting = {} =>
       /\ SumOver(points, DOMAIN points) = Total
       /\ Cardinality((Min(DOMAIN points)..Max(DOMAIN points)) \ DOMAIN points) <= 1

\* The points that getTrends answers with: their sum and their gaps.
LEMMA GetTrendsCounts ==
  ASSUME TypeOK, limit <= MaxLimit, GetTrends
  PROVE  /\ SumOver(points', DOMAIN points') = Total'
         /\ Cardinality((Min(DOMAIN points')..Max(DOMAIN points')) \ DOMAIN points') <= 1
<1>1. PICK east \in Zones, today \in {LastRow - 1, LastRow}, early \in SUBSET Live :
        LET first == UtcDate(east, today - limit)
            initial == {UtcDate(east, d) : d \in (today - limit)..today}
            found == {r \in Live : Day(r) >= first} \ early
        IN  /\ \A r \in Rows : Day(r) <= IF east[today] THEN today ELSE today + 1
            /\ counted' = [counted EXCEPT !["total"] = found]
            /\ points' = [d \in Dates(initial, found) |->
                            Cardinality({r \in found : Day(r) = d})]
  BY DEF GetTrends
<1>2. PICK first : first = UtcDate(east, today - limit)
  OBVIOUS
<1>3. PICK initial : initial = {UtcDate(east, d) : d \in (today - limit)..today}
  OBVIOUS
<1>4. PICK found : found = {r \in Live : Day(r) >= first} \ early
  OBVIOUS
<1>5. PICK D : D = Dates(initial, found)
  OBVIOUS
<1>6. /\ \A r \in Rows : Day(r) <= IF east[today] THEN today ELSE today + 1
      /\ counted' = [counted EXCEPT !["total"] = found]
      /\ points' = [d \in D |-> Cardinality({r \in found : Day(r) = d})]
  BY <1>1, <1>2, <1>3, <1>4, <1>5
<1>7. found \in SUBSET Rows /\ \A r \in found : Day(r) >= first
  BY <1>4 DEF Live
<1>8. limit \in 1..MaxLimit
  BY ReportsAssumption DEF TypeOK
<1>9. IsFiniteSet(D) /\ Cardinality((Min(D)..Max(D)) \ D) <= 1
  BY <1>2, <1>3, <1>5, <1>6, <1>7, <1>8, OneGap
<1>10. DOMAIN points' = D /\ \A d \in D : points'[d] = Cardinality({r \in found : Day(r) = d})
  BY <1>6
<1>11. \A r \in found : Day(r) \in D
  BY <1>5 DEF Dates
<1>12. Total' = Cardinality(found)
  BY <1>6 DEF TypeOK, Total
<1>13. SumOver(points', D) = Cardinality(found)
  BY <1>7, <1>9, <1>10, <1>11, SumOfDays
<1>14. QED BY <1>9, <1>10, <1>12, <1>13

\* No points have been answered.
LEMMA InitTrendsInv == Init => TrendsInv
<1>1. SUFFICES ASSUME Init PROVE TrendsInv
  OBVIOUS
<1>2. limit <= MaxLimit
  BY <1>1, ReportsAssumption DEF Init
<1>3. ~(kind = "trends" /\ waiting = {})
  BY <1>1 DEF Init, Queries
<1>4. QED BY <1>2, <1>3 DEF TrendsInv

\* Nothing but getTrends makes points.
LEMMA NextTrendsInv == TypeOK /\ TrendsInv /\ [Next]_vars => TrendsInv'
<1>1. SUFFICES ASSUME TypeOK, TrendsInv, limit <= MaxLimit, [Next]_vars
               PROVE  TrendsInv'
  BY DEF TrendsInv
<1>2. limit' = limit /\ kind' = kind
  <2>1. CASE GetTrends BY <2>1, Zenon DEF GetTrends, table
  <2>2. CASE GetOverview BY <2>2 DEF GetOverview, Count, table
  <2>3. CASE \/ FindAllUsers \/ FindAllJobs \/ FindAllCandidates
             \/ FindAllInterviews \/ FindAllApplications
    BY <2>3, ListsFind DEF ListPage, FindMany, Count, table
  <2>4. CASE SetScope \/ Answer \/ NextPage
    BY <2>4 DEF SetScope, Answer, NextPage, table
  <2>5. CASE Others BY <1>1, <2>5, OthersSpare DEF table
  <2>6. CASE UNCHANGED vars BY <2>6 DEF vars, table
  <2>7. QED BY <1>1, <2>1, <2>2, <2>3, <2>4, <2>5, <2>6 DEF Next
<1>3. CASE GetTrends
  BY <1>1, <1>2, <1>3, GetTrendsCounts DEF TrendsInv
<1>4. CASE kind = "trends" /\ ~GetTrends
  <2>1. UNCHANGED <<waiting, counted, points>>
    <3>1. CASE SetScope \/ Answer BY <3>1 DEF SetScope, Answer, answer
    <3>2. CASE Others BY <1>1, <3>2, OthersSpare DEF answer
    <3>3. CASE UNCHANGED vars BY <3>3 DEF vars, answer
    <3>4. ~(FindAllUsers \/ FindAllJobs \/ FindAllCandidates
            \/ FindAllInterviews \/ FindAllApplications)
      BY <1>4, ListsFind DEF ListPage
    <3>5. ~NextPage /\ ~GetOverview
      BY <1>4 DEF NextPage, GetOverview
    <3>6. QED BY <1>1, <1>4, <3>1, <3>2, <3>3, <3>4, <3>5 DEF Next
  <2>2. Total' = Total
    BY <2>1 DEF Total
  <2>3. QED BY <1>1, <1>2, <2>1, <2>2 DEF TrendsInv
<1>5. CASE kind # "trends"
  BY <1>1, <1>2, <1>5 DEF TrendsInv
<1>6. QED BY <1>3, <1>4, <1>5

\* Whatever the zone and its clock, the points of the trends add up to all
\* applications that were read, and at most one date is missing.
THEOREM TrendsAreComplete == Spec => []TrendsCountEverybody
<1>1. ScopeInv => TypeOK
  BY DEF ScopeInv
<1>2. TrendsInv => TrendsCountEverybody
  BY Zenon DEF TrendsInv, TrendsCountEverybody, SumOver
<1>3. QED BY <1>1, <1>2, ScopeInvariance, InitTrendsInv, NextTrendsInv, PTL DEF Spec
=============================================================================
