# TalentFlow: specifications, model checking and proofs

TLA+ specifications of the TalentFlow backend (an API gateway in TypeScript on
NestJS, the skeleton of a CV parser in Java on Spring Boot), checked with TLC
and, where marked, proved with TLAPS for every value of the constants.

Run a check with `tlc -config X.cfg MCModule` and a proof with
`tlapm XProofs.tla`. `PROJECT.json` lists components, runs, mutants (a plausible
bug for every property, which the property must notice), the source lines of
each definition, findings and hazards.

## Inventory

Paths are relative to `src/api-gateway/src/` unless they start with
`cv-parser/`.

| Component | State it keeps | Operations | What is hard | Correct when |
|---|---|---|---|---|
| Applications (`applications/applications.service.ts`) | rows in PostgreSQL, CV files in the object store, events in RabbitMQ | create, createWithCv with rollback, update, remove, find | three stores and no transaction; a check and its insert are several awaits apart; rollback steps fail; the process dies | one application per person and job; an accepted one is backed by row, file and event; a refused one leaves no row, file or event |
| Queue connection (`queue/queue.service.ts`) | connection, channel, timer, attempt counter, shutdown flag | connectWithSetup, listeners, scheduleReconnect, setupTopology, publishCvUploaded, getQueueStats, onModuleDestroy | failures in every phase of an attempt, four places that schedule a reconnect, shutdown at any moment | one driver, nothing leaked, reconnects for good |
| Account lockout (`auth/auth.service.ts`) | a Redis counter per email | login | check and increment are apart; INCR and EXPIRE are two commands | overshoot bounded, lock lifted |
| Refresh sessions (`auth/auth.service.ts`, `auth/strategies/`) | the stored refresh token, a blacklist, the browser's cookie | login, refresh, logout, user deletion | several tabs; logout races refresh | a retired token opens nothing |
| Sign-up, users, guards (`auth/`, `users/`) | users table | signup, find, update, updateRole, remove; the guards of every route | sign-up checks, hashes, then inserts; the caller's role is read in the guards and acted on later | one row per email; who writes was entitled to while the request ran |
| Jobs, candidates, interviews | their tables | create, update, remove, find | writes by id after a check that may be stale; cascades | rows refer to live rows; owners only |
| Lists and analytics (five `findAll`, `analytics/`) | none | pages, counts, trends | an answer is several queries at different moments; pages are several requests; dates in two zones | answers differ from a consistent one by what was written meanwhile only; own rows only |
| Filter, interceptors, pipe (`common/`, `main.ts`, `app.module.ts`) | request ids, counters | around every handler | order: what is set before what is read | every handled request is logged under the id it is answered with |
| Metrics, health | gauges | counting, polling | the metrics poll shares the AMQP channel | as the queue connection |
| Seed (`../prisma/seed.ts`) | ids of its run | upserts in phases, find then create | runs fail half-way, overlap, are repeated over an old database | no duplicates; a completed run has restored its rows |
| Sanitising, file keys, logging, configuration | none | pure functions and output | depth and size limits | per function |
| CV parser (`cv-parser/`) | none yet | queue and client configuration, file validation, PII redaction, start-up checks | shares queue declarations with the gateway | declarations agree |
| Notification | none | a README only | | |

How they interact: a controller calls one service; services call Prisma (each
call one SQL statement or implicit transaction), Redis (each call one atomic
command), the S3 client and `QueueService`. `QueueService` and the CV parser
share an exchange and queue on the broker, `QueueMetricsCollector` polls through
the same channel that requests publish on. Node runs one callback at a time, so
interleaving happens at every `await` and between gateway processes; the models
take each await as one step.

The hazards of this code, each with its line and the properties that watch it,
are in `PROJECT.json`.

## Modules

| Module | What it is |
|---|---|
| `Applications` | POST /applications and /applications/upload, with everything that touches the same rows |
| `ApplicationLedger` | the abstract specification of what those endpoints promise |
| `ApplicationsProofs` | TLAPS proofs about `Applications`, and that it implements `ApplicationLedger` |
| `QueueConnection`, `QueueConnectionProofs` | the gateway's AMQP connection |
| `LoginAttempts`, `LoginAttemptsProofs` | the account lockout, and proofs |
| `Sessions`, `SessionsProofs` | refresh tokens, logout and the cookie, and proofs |
| `Recruiting`, `RecruitingProofs` | updates and withdrawals of applications, interviews, deletions, and proofs |
| `Accounts`, `AccountsProofs` | sign-up, profiles, roles and deletion of users behind the guards, and proofs |
| `Reports`, `ReportsProofs` | the paginated lists, the overview and the trends while others write, and proofs |
| `Seed`, `SeedProofs` | the seed script, run again and again, and proofs |
| `MC...` | the same for TLC, with symmetry sets where they are sound; `MCApplications`, whose liveness property allows none, starts from one of each class of initial states that differ by names only |

Operators whose comment starts with "Faulty variant" take no part in any
specification; they are the bugs of the mutant list.

### Applications

A request stands for the ids that it alone can create (candidate, application,
file key), so the sets of requests are the tables' key spaces. `pc[r]` is the
await the handler of `r` stands at; `create` and `createWithCv` share the steps
up to the insert. `apps` holds the rows, `withdrawn` those with `deletedAt`,
`files` the object store, `buffer` the write buffer of the AMQP channel, `queue`
what the broker has for cv-parser, and `bound` says whether the broker has the
exchange, the queue and its binding. `fault[r]` is no state of the program: it records
the failures (and, as `unbound`, a publication before the binding) that the
handler cannot see or repair, so that the properties can
say precisely when they excuse a leftover.

Every store call may fail, and the ones that write may fail after the write
took effect. `publish` may return false for a message that it has buffered.
A crash stops one handler at any await; the socket drains (`Deliver`) or loses
messages (`LoseBuffered`). `publishCvUploaded` asks only for the channel, which is
there before `setupTopology` has run (`SetupTopology`, by whatever process; what it
makes is durable, so it runs once): a message that reaches the broker before is
discarded there. The bodies of the rows that no property needs
(cover letter, URLs, notes) are left out. Jobs are `OPEN`, `NOT_OPEN` (DRAFT,
CLOSED and ARCHIVED) or `DELETED`. The access checks of withdrawal are left
out here (`Recruiting` has them): some caller passes them.

`ImplementsLedger` maps the row of a person and job to the ledger's slot and the
handler's location to open, submitted, confirmed or closed. In the ledger a
confirmed application can only leave with its person.

### QueueConnection

`task` holds the activations of `connectWithSetup`: awaiting connect, the
channel, the asserts of `setupTopology` one by one, or the close in its catch
block. `amqplib` emits 'error' and 'close' and rejects pending calls in one turn
of the event loop, so `ConnectionLost` does it all in one step. `timer`,
`attempt`, `connection`, `channel` and `shuttingDown` are the service's fields.
`Conns` are identities that are reused once closed.

`parserFirst` is chosen once: whether the CV parser declared the queue, with a
TTL, before the gateway. A refused declaration (`QueueArgumentsDiffer`) and a
metrics poll that checks a queue not yet declared (`GetQueueStats`) close the
channel; whether amqplib fails the connection with it depends on the version, so
both are possible. `publishCvUploaded` changes no field of the service and is
part of `Applications`. Left out: delays and jitter, and a channel closed by the
broker while nothing is pending on it.

### LoginAttempts

One email; each Redis command is a step. `Verify` chooses success or failure.
`Abort` drops the rest of a handler. `lost` records an EXPIRE that was
dropped while the key had no time to live.

### Sessions

One user (users share no key), a browser with one cookie, and requests that each
may issue a token. The validity of access tokens is left out: they decide only
whether a request reaches its handler. `retired`, `stale` and `loggedOut` are
observations: tokens that were stored and are not any more, refreshes sent too
late, and whether a login followed the last logout.

### Recruiting

A handler (`ApplicationsService.update` or `remove`, `InterviewsService.create`,
`update` or `remove`) is one request; `call[h]` holds its operation, its
arguments and what its caller is to the application, all of which stay the same
while it runs. The steps are the reads, the access check (the applicant is looked
up again there) and the write by id. Columns that name their writer (`stage` for
stage and notes, `letter`, `reviewed`) let the properties say who wrote what. An
interview is identified by the handler that created it. The nine application
statuses are three: the default, `WITHDRAWN` and one for the rest; interviews
likewise. `past` says that a date is not in the future; dates themselves, and
the remaining columns of an interview, are left out. `CandidatesService.remove`
takes application and interviews with it, as the foreign keys do.

### Accounts

A request goes through the guards, the validation pipe, a read (`find`) and a
write; the guards are one step, since the row that `JwtStrategy` reads decides
all of them and they await nothing else that others write. `seenRole` is
`request.user.role`, which `updateProfile` consults later. A sign-up's row is
identified by its request. `exists` never shrinks: users are only marked deleted.
`trace` is what the interceptors make of a request: which ids they log and the
status they count (that of success, see the findings). `entitled` and `denied` are observations, taken after every
step: at some moment since it was received, the request was (was not) one its
caller may make by the rows as they are then. Roles are ADMIN and the rest;
passwords, names and bodies are left out.

### Reports

One client, one table, one handler; a row is a number by which it is sorted.
`kind` and `resource` choose the handler: a list, the overview of jobs or
applications, or the trends. The five lists differ in the rows they leave out
(deleted users, jobs and applications; nothing else) and in the filter by caller
that applications have. `fits` is the set of rows the optional filters let
through, which others' updates change. The two queries of `Promise.all` answer
in either order with writes in between. Equal sort values (`ties`) come back in
any order. For the trends a row's number is its UTC day; `Zones` are the process'
time zones, as whether local midnight precedes midnight UTC, day by day,
including a change of the clock. `hadCandidate` and `written` are observations.
An interviewer without a row in `candidates` is included; the filter is absent
then, as in the code.

### Seed

A run goes through users, candidates, jobs, applications and interviews. The
promises of a phase are `pending` until they settle; a rejected one fails the run
while its siblings go on until the process ends. An entry stands for one user,
job, candidate, application and interview that belong together. `Init` contains
databases of an earlier run whose job was deleted or whose application was
withdrawn. `Touch...` are the gateway's writes to the same rows. `Other` is the id
of rows of earlier runs. `overlap` and `touched` are observations.

## Runs

| Run | Shows | Bounds |
|---|---|---|
| `applications` | the safety invariants, the inductive invariant, that the handlers implement `ApplicationLedger`, that accepted uploads are queued in the end but for the named losses | 2 requests of any kind, 2 users, 1 job |
| `queue` | safety of the reconnect logic and its inductive invariant, nothing starts after shutdown, ready again for good, with a queue that matches and with one that never does | 2 connections, 2 activations, 4 failures, attempt saturates at 3 |
| `login` | bounded overshoot, lock lifted | 3 concurrent handlers (each may log in again), limit 3 |
| `sessions` | retired tokens stay retired and open nothing | 4 requests |
| `recruiting` | rows, interviews and answers stay right although every write follows a check that may be stale | 2 handlers of any operation and caller, 1 application, 1 interviewer |
| `accounts` | emails stay unique; who writes or is refused had, or lacked, the right while the request ran; who got past the guards is logged under the id of the answer | 2 requests of any kind and caller, 2 users of any role, 3 emails |
| `reports` | what an answer made of several queries promises; a walk through the pages; own rows only; trends without gaps | 3 rows in any state, 1 or 2 rows per page (days of trends), 2 writes by others |
| `seed` | no duplicates, and a completed run restores every row | 2 runs, 1 entry, 2 writes by others |

The races of `Applications` are between two requests, of one person for one
job or of two persons, and the shared actions; two are enough to make each of
them, and the proofs cover any number. `SingleDriver` says that one activation
exists at a time; two slots, and two connections, let a second appear in a
faulty version. Four failures let each phase of an attempt fail, in any two
successive attempts and more. In `login` the limit of 3 instead of 5 and three
handlers let all of them pass the check at 2; the proofs cover all values.
Four requests in `sessions` allow a login, two refreshes in flight and a logout
or second login. In `recruiting` rows of different applications share nothing,
so one is enough; two handlers give each pair of operations every interleaving,
with both deletions in between, and the proofs cover any number. In `accounts`
two requests make every race between a check and a write (sign-up and sign-up,
demotion or deletion and whatever the victim does), and the proofs cover any
number. In `reports` three rows give up to three pages, a page that is not full
and one that is; two writes put a change on either side of a query; the proofs
cover tables, pages and days of any number. Entries of `seed` share neither rows nor
queries: a run that waits for one entry can be held up or failed by another,
which `SiblingFails` stands for, so one entry is enough; two runs are one
that fails and its repetition, or two that overlap. The proofs cover any number
of runs, entries and writes.

Deadlock is not checked where the system really comes to rest: when all requests
are answered, or the service has shut down. `login` never rests and is checked.

### Findings

Each of these runs checks one statement of a comment, message, test or document
of the repository that the code does not keep; the quotes are in `PROJECT.json`.

| Run | What happens |
|---|---|
| `applications_reapply` | apply, withdraw, apply: the check looks at live rows only, the unique index at all of them, so the answer is 500 and not 409 |
| `applications_buffer_full` | `publish` returns false, the application is rolled back, the event is sent anyway |
| `queue_arguments` | cv-parser declared the queue with a TTL first: the gateway retries for ever |
| `sessions_logout` | a refresh in flight outlives the logout |

One more disagreement needs no run, since every request that fails past the guards
shows it: `MetricsInterceptor` reads `response.statusCode` (line 36) before
`HttpExceptionFilter` sets it and counts the failure under the status of success.
`metrics.interceptor.spec.ts:98` ("should record metrics on error") expects 500 and
gets it because its mock has that status before the error; the alerts of
`docs/MONITORING.md` (lines 535, 575 and 1060, `status=~"5.."`) compute the error
rate from these counts and miss it. `Accounts` has it in `Unwind`; no property
asserts it.

### Windows that the passing properties name

The properties hold of the code, and some of them only because they say when
they do not speak. Each exception below is a window of the code that the model
contains:

* An accepted upload is queued *unless the connection died with it or it was
  published before the broker had the binding*: events are published without
  confirmation, not as mandatory, and nothing sends them again
  (`AcceptedIsBacked`, `AcceptedUploadIsQueued`).
* A refused request leaves no application row, event or file *unless a step of its
  rollback failed or a store did what it reported as failed*
  (`RefusalLeavesOnlyCandidate`), and a row may then point to a missing file
  (`DanglingCvExplained`). *The row of the candidate*, which the handler commits
  before the duplicate check, the upload and the insert, stays after any of them
  failed; the next application of the same person uses it. The CV files of a
  deleted candidate stay behind.
* A job may be closed between the check and the insert; the ledger does not
  promise otherwise.
* A service that looks healthy has declared its topology *or is still declaring
  it* (`HealthyIsRouted`): what is published in between is the `unbound` of
  `Applications`.
* A connection that opens during shutdown stays in `this.connection` and nobody
  closes it; `NoLeakedConnection` counts only forgotten ones.
* A lockout ends *unless its EXPIRE was lost* (`CounterWillExpire`,
  `LockIsLifted`).
* Logout blacklists an empty token id, and of two tabs that refresh, the cookie
  that arrives last need not be the stored token: the properties of `sessions`
  speak about stored and retired tokens, which both leave alone.
* A withdrawn row may show another status, *written by an update that found it
  live* (`WithdrawnStatusExplained`).
* Stage and notes are the recruiter's *or blank notes of an applicant*: the test
  asks whether notes are truthy, the write whether they are there
  (`WritersAreEntitled`).
* An interview may be created for an application withdrawn, or an interviewer
  deleted, just after the check.
* A right is looked at once: an administrator who is demoted or deleted after the
  guards still writes, and a write may hit a user who was deleted after the read
  (`AuthorizationHolds` says *at some moment since the request was received*).
  Nothing keeps the last administrator from being demoted or deleted, not even
  two from doing it to each other.
* Of two sign-ups with one email that both pass the check, the second is answered
  500, not 409; `OneAccountPerEmail` says what each answer means.
* Requests refused by a guard are neither counted nor logged (`AccountsInv`).
  Without an id from the client, two interceptors draw two ids and the inner one
  is answered.
* The rows and the total of a page, or the parts of the overview, may differ by
  rows *written while the request ran* (`QueriesAgree`). A walk through the pages
  is complete *if nobody writes and the sort column has no ties*
  (`WalkIsComplete`).
* A caller who is neither administrator nor recruiter and has no candidate sees
  every application; `OwnApplicationsOnly` speaks of those *who have a candidate
  from request to answer*.
* Trends may lack one date where the server's zone changes sides of Greenwich with
  its clock (`TrendsCountEverybody`).
* Runs of the seed that overlap may create a job twice (`NoDuplicates` speaks of
  runs that *do not overlap*). A deleted job is not restored but created again,
  with a new application beside the old one, and interviews are found again only
  at the same millisecond: each later run adds its own, possibly to the
  application of the deleted job.

## Fairness

* `Applications`: weak fairness of each message's delivery (the socket drains
  while the connection lives). None for the handlers, crashes, failures, other
  users' operations or the making of the topology.
* `QueueConnection`: weak fairness of the timer and of each activation (the
  broker answers or the client times out). The number of failures is bounded by
  `MaxFaults`, so `EventuallyReady` reads: after the last failure.
* `LoginAttempts`: weak fairness of Redis' expiry and of the handlers that have
  begun. No login need ever begin.
* `Sessions`, `Recruiting`, `Accounts`, `Reports`, `Seed`: safety only.

## Proofs

All theorems are for arbitrary constants that satisfy the named assumptions
(a null value differs from the ids; the set of handlers is finite; the lockout
limit is a positive number).

* `ApplicationsProofs`. None of the safety invariants is inductive: whether
  a row, file or event may be there depends on where each handler is, and
  "one application per person" relies on what the tables refer to. `IndInv`
  adds `TablesInv` (a candidate id belongs to one email and is new when created;
  rows reference an existing candidate; one row per pair) and `LocationInv` (what
  each location knows of the request's own row, file and event, and that an event
  waits for an unmade binding only if it was published before it). The proof has
  one lemma per action; `Invariance` combines them and the properties follow.
  `LedgerImplemented` is the refinement: `LedgerBar` gives a slot (a person and a
  job) the request whose row it is, `StateBar` reads a request's place in the
  ledger off the await its handler stands at, `WantsBar` what it asked for.
  `IndInv` is what makes `LedgerBar` a function: one row per slot, and none before
  the insert or after the rollback. An insert submits, a rolled back row retracts,
  the other steps of a handler move its state or nothing, the deletion of a
  candidate erases; withdrawals, jobs, files, messages
  and the topology stutter. One lemma for
  each of these kinds of step.
* `LoginAttemptsProofs`. The counter plus the increments still to come is the
  quantity that never exceeds its bound; `PendingStep` and the library's facts on
  cardinality say how each step changes it.
* `SessionsProofs`. `SessionInv` says who may hold a stored or retired token and
  that a stale refresh past the comparison is one of a deleted user.
* `RecruitingProofs`. `RecruitingInv` joins the safety properties with
  `HandlerInv`: a handler that read a status other than the initial one read it
  with a stamp, who stands before a write may do it, and nobody wrote before.
  One lemma for the reads, one per kind of write and one for the cascade.
  `WithdrawnIsFinal`, an action property, follows from the actions alone.
* `AccountsProofs`. `AccountsInv` joins the properties with `Reached`: what a
  request knows at each place (who is past the guards was entitled, or is a
  profile update whose check is still to come; the target of a write exists). It
  carries the observations: a request on its way is in `entitled` or `denied`
  according to the rows as they are now. One lemma per handler.
* `ReportsProofs`. `ScopeInv` says that the filter is settled before the queries
  and bounds the page and the count; `PageWithin` shows that any page of any
  order of the database lies within the filter. On it rest three more invariants.
  `AnswerInv`: what a query has answered is what it would answer now, but for rows
  in `written`; the two answers of one request then agree with each other.
  `WalkInv`: while nobody writes and no values are tied, the rows collected are the
  first rows of the one order the list has (`OneOrder`: two orders would differ at
  a smallest place), and each page continues them (`PageContinues`); `LastPage`
  does the arithmetic of `totalPages`. `TrendsInv`: the points add up and have one
  gap at most. Their sum is a fold, so `SumOfParts` proves it to be any function
  that adds up in the same way, by a smallest set on which the two differ, and
  `SumOfDays` applies it to counting by day; `OneGap` follows the zone's change
  of sides through `UtcDate`.
* `SeedProofs`. `DuplicatesInv`: without overlap a run on its way is alone, each
  candidate has one row, and the job that a run has found is the only live one of
  its title and creator until it writes. `KnowsIds` and `Restores`: a run past a
  phase knows the ids that the next ones need, and whatever it wrote is in place
  or was touched since. A run's row may be disturbed by other runs, in any phase:
  `OnlySeeds` says that no step of a run takes anything away, so that only the
  gateway's writes, which `touched` records, can. One lemma per kind of step.
* `QueueConnectionProofs`. No property is inductive alone: that a failure schedules
  one reconnect relies on no other activation being under way, and that a connection
  is not leaked on what the activation holding it found at its last `await`.
  `QueueInv` joins the properties with `Driver` (`SingleDriver` without counting,
  and that no timer is armed after shutdown) and `Awaits` (which connection and
  channel each activation may rely on). One lemma per step of `connectWithSetup`.

Every invariant and action property that a passing run checks is proved, and the
refinement. Only model-checked, since neither fairness nor `ENABLED` is within the
prover's reach: the liveness properties `AcceptedUploadIsQueued`, `EventuallyReady`
and `LockIsLifted`. The findings are counterexamples, for which TLC's trace is the
proof.

Where an inductive invariant is a named definition of the component's module, its
run checks it (`IndInv`, `QueueInv`, `AccountsInv`, `ScopeInv` and others). The ones
of `SeedProofs`, and `AnswerInv` and `WalkInv` of `ReportsProofs`, are stated beside
their proofs and are in no configuration; they hold in every state of the runs
`seed` and `reports`, too, by these theorems.

## Not modelled, and why

* The consumer side of the queue (delivery, acknowledgement, dead letters,
  retries, thread pools): `cv-parser` declares topology and pools but has no
  listener, so there is no code whose behaviour a model could follow. The gateway's
  half of the pipeline is in `Applications` and `QueueConnection`.
* `FileValidator`, `PiiRedactor`, `StartupValidator`, `sanitize.util.ts`,
  `file-validation.pipe.ts`: stateless functions of one value, without a second
  implementation to agree with; what they compute is text and byte patterns.
* The delays of the reconnect timer, and what the throttler makes of its time
  unit: the first do not change the order of steps, the second is the library's.
* `getPipeline` and `getTopJobs` (one query each), creation of jobs and profile
  changes of candidates (one insert or update that nothing reads back).
* Logging, security audit, Swagger, configuration schema and wiring: output and
  values read at start, without state that another component reads.
* The notification service, which has no code.

What is left: bounds on what the named windows may cost (how far a walk can be off
when k rows are written meanwhile, how many rows an overlapping seed can add), which
would turn those exceptions into properties.
