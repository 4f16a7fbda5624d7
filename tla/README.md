# Airport Investment Intelligence Agent: a TLA+ verification project

TLA+ models of the scheduled data refresh, the freshness line, the agent service (its instances, chat
turns, tool calls and FAA cache) and the web chat's threads, the TLC runs that check them on small
instances, and TLAPS proofs of what matters most for every instance. Paths below are relative to the
repository's root (`src/` here). `PROJECT.json` maps each definition to the lines it models.

## 1. The system

A weekly Cloud Run job rebuilds an aviation data set from public sources and loads it into a
Postgres on Neon. A FastAPI service lets a language model answer questions over SQL views of that
data and streams the answers. A Next.js app shows them.

| Component | State | Operations |
|---|---|---|
| Scheduled refresh, `ingestion/refresh.py`, `load.py`, `load_t25.py` | row of `data_refresh_runs`; tables and views; files of one container | open/close a row, count, probe, build, validate, load, recount |
| Year coverage, same file | years in Neon, years published, window | `coverage`, `probe_sources`, `any_changed` |
| Year window, same file | `INGEST_YEARS`, `INGEST_FAA_YEARS` | `apply_year_windows` |
| Builders, `ingestion/build_*.py` | `data/raw`, CSVs | download, aggregate, write |
| Schema and views, `db/*.sql` | tables, `v_*` | DROP/CREATE; the scoring arithmetic |
| Freshness, `services/agent/main.py`, `repository/postgres.py` | none of its own; reads the ledger | `refresh_status`, `_freshness_body` |
| Instances, `main.py` (`lifespan`), `query_log.py` | which saver, whether to log, threads in memory | boot, record a row, stop |
| Chat turn, `main.py` (`chat`, `_events`) | stream, audit row | start, forward, finish, fail, record |
| Agent graph, `graph.py`, `state.py` | messages, tool rounds | `agent_node`, `tools_node`, `route` |
| Checkpointer, `checkpointer.py` | thread checkpoints | get, put, list, one retry |
| Pools, `db.py` | connections | take, give back, one retry on a stale one |
| Tools and repository, `tools.py`, `repository/` | none | read-only SELECTs, each in its own transaction |
| FAA live status, `faa.py` | cached document, lock | fetch, cache, serve stale |
| Auth, `auth.py`, `middleware.ts` | cached keys | verify a token |
| Web chat, `ChatApp.tsx`, `lib/threads.ts`, `lib/api.ts` | screen, localStorage threads, input lock, chips | send, stream, switch, new, reload |
| Tables/charts/export, voice, follow-ups, landing page | view state | pure functions over an answer |
| Evals, CI, deployment, docs | - | - |

How they interact: the job and the service share only Postgres: the job replaces the tables the
tools read and writes the ledger `/freshness` reads. The service's turns share the checkpoint of a
thread, the calls of one round share a pool, every question about a live status shares one document.
The web app talks to the service over one SSE response per question and keeps its own copy
of each thread, keyed by the same `thread_id`.

What is hard here, and what makes each part correct:

* **Refresh.** Every statement has a connection of its own that may drop before or after the
  statement took effect; the container may be killed at any step; a manual run may overlap the
  weekly one; loading is two transactions. Correct means: a row and the exit code tell what was
  committed, nothing below the floor is loaded, the job ends.
* **Years.** Five views of "which years" (window, coverage, HEAD probe, builders, floor) that
  disagree while publishers are late. Correct means: no year is lost, every due year arrives.
* **Freshness.** Two queries, two snapshots, rows of runs that died. Correct means: what is shown
  was true when it was read, and only a load that overtakes a good run leaves its period behind the data.
* **Chat turn.** Timeouts, disconnects and restarts between the steps of a graph whose state
  outlives them; two turns on one thread. Correct means: the stream is well formed, the audit row
  agrees with it, the tool cap is per turn, history only grows.
* **Tool round.** Several calls over a pool that is smaller than they are many; rows and vintage in
  different snapshots while a load replaces the tables; connections that die in use. Correct means:
  the first failure is hidden, a source that fails takes no other along, no payload holds rows
  beyond the vintage it states, no connection is lost.
* **Instances.** Each decides at boot, for life, where it keeps threads and whether it logs. Correct
  means: only what was kept in memory is forgotten, an answer has one row at most.
* **FAA cache.** N waiters on one lock, an expired document, a failing feed, cancelled askers.
  Correct means: nothing stale is unmarked, the feed is spared, nobody waits for ever.
* **Web chat.** Answers stream on while the user switches threads. Correct means: every thread keeps
  its transcript, the input is given back.
* **Views, tables.** Arithmetic at its edges (a missing previous year, one airport, zero seats).

## 2. Modules

| Module | Models | Correspondence |
|---|---|---|
| `RefreshTables` | tables, counts, the floor | what the job and its contract share |
| `RefreshContract` | abstract: what the refresh promises | observe a table's count, forget counts that were not completed, choose files, replace core, replace T2.5, conclude; no retries, no handlers |
| `Refresh` | `run`, `RunRecorder`, the loaders, any number of `Jobs` | `pc[j]` is the call about to be made; `Attempts` is `_run`'s `retries + 1`; `Raise` is `run`'s outer handler; `Drop`/`Dropped` a lost connection before/after the effect; `ledger[<<j, k>>]` the row of the k-th INSERT of j |
| `RefreshYears` | window, coverage, probe, builders, floor, loads per year | a year of a source is how many of its parts exist, the last one being December; `env` is the environment `StartRun` tells the builders; `January`/`March`/`Publish` are the calendar and the publishers |
| `YearWindow` | the month arithmetic of the windows | `today` to the month; `bts`, `faa` the published environment |
| `Freshness` | the ledger's writers and `/freshness`' two queries | `good` is the first answer held while the second query is still to come |
| `AgentTurn` | one thread's turns: stream, graph, checkpoint, audit row | `stage[r]` where the generators of turn r are suspended; `outbox` what they yielded, `wire` what the client got; `thread` the checkpoint, `mine[r]` the run's own messages |
| `ToolRound` | what happens inside one `tools_node`, and the chips it leaves in the browser | `Plan[q]` the SELECTs of a tool in order, `Optional[q]` those it can do without; `Connect`/`GiveBack` are `pool.connection()`; `retried[c]` is the loop of `with_stale_retry`; `version`/`present` the tables under a refresh |
| `FaaCache` | `_Cache`, `_fetch`, `parse`, `airport_status` | `holder`/`ahead` are the lock and its line of waiters; clocks are ages up to the TTL; `Cancel` at either await |
| `Service` | instances from boot to stop, and the statements a turn makes from them | `BuildSaver` and `EnsureTable` are the two decisions of `lifespan`; `Load`/`Save`/`Record`/`List` the checkpointer and the query log; `Attempt` a statement that may take effect without its caller knowing |
| `ChatThreads` | one tab of the web chat | `screen` is `messages`, `store` localStorage, `origin[r]` the `activeThreadId` a stream closed over |
| `*Proofs` | - | theorems about the module they are named after; `YearsProofs` about `RefreshYears` and `YearWindow` and what they have in common |
| `MCRefresh`, `MCFreshness`, `MCToolRound` | - | jobs, symmetry and questions for TLC |

How they compose: `AgentTurn` has one step for a round of tools, `ToolRound` opens it, and its
`FeedAnswers` stands for a call of `FaaCache`. `Service` has one step for a turn's graph and puts its
reads and writes on instances that come and go. `Refresh` and `RefreshYears` together cover `run`: the
first knows of a table only its row count and whether the T2.5 views exist, the second knows the years
in a table but has one run at a time and no retries. `Freshness` has as little of the job as writes
its ledger.

Abstractions worth knowing:

* A builder's output is any row counts (`Refresh`) or whatever the publisher offers minus one failing
  download per fault (`RefreshYears`).
* External, modelled from how the code uses them: LangGraph and its savers (a step and its checkpoint
  are one action, a run works on its own copy of the messages, the last writer of a thread wins, a put
  is keyed by its id), psycopg's pool, Postgres and Neon, `asyncio.Lock`, Cloud Run.
* `table_counts` is as many steps as there are tables: the connection is autocommit, each count has a
  snapshot of its own, and a load of another job may come between two of them, in `Refresh` and in its
  contract alike. A retry starts with no counts.
* One `tool_call` stands for the calls of a round in `AgentTurn`, one token for a reply's tokens.
  `stream: false` consumes the same events and is left out.
* The window is read twice in a run, as in the code: `StartRun` tells the builders what
  `apply_year_windows` returns at that moment, and `Probe` computes its own, later. `Build` goes by the
  first, whatever the calendar did in between.
* A row in `ToolRound` is the version of the tables it comes from; a document in `FaaCache` the
  airports it lists.
* `ChatThreads` is one tab and one user; bubbles keep only how far the answer is. A stream whose body was
  cut off without an end event is `"cut"`: its bubble stays typing dots, and no property says otherwise.
* History variables (`committed`, `overlapped`, `faulty`, `overtaken`, `misfiled`, `heard`, `calls`,
  `stale`, `refused`, `keeper`, `forgot`, `unlogged`) restrict no action.

Every module states its types in `TypeOK`. Where an invariant of a run contains it (`RefreshInv`,
`FaaInv`, `RoundInv`) it is checked there; in every other module but `YearWindow`, whose domain is the
dates (`InitDates`, `TickForward`), and `RefreshContract`, an invariant that is proved contains it
(`YearsInv`, `ChatInv`, `ThreadInv`) or it is a theorem itself (`TurnTypes`, `FreshTypes`). Operators whose comment begins with "Mutant" are not part of any specification: each is
a plausible bug in the definition that follows it, used to see that a property can fail.

## 3. Runs

All figures are distinct states. "Violation" runs show a disagreement between code and documentation.

| Run | Instance | States | Shows |
|---|---|---|---|
| `refresh` | 2 jobs, counts {0, 2}, one job may lose 3 connections, 1 kill | 775k | the inductive invariant (rows and exit code tell what was committed); a verdict stays; floor and `success` for a job nobody loaded over; refinement of the contract; the jobs end |
| `years` | 3 years of 2 parts, 1 fault | 333k | no year shrinks without a fault; every due year arrives for good |
| `years_partial` | as `years`, no fault | - | violation: an unfinished BTS year is loaded along with an FAA filing |
| `year_window` | every month of 2024-2033 | 1.3k | windows exact when published, never early, moving |
| `freshness` | 3 jobs, 6 ticks, stale after 2, 2 periods | 1.14M | nothing closed is missing, dead runs are forgotten, live ones shown, the newest good row tells the vintage unless it was overtaken |
| `freshness_vintage` | 2 jobs, 8 ticks | - | violation: the line shows an older period than the data |
| `agent_turn` | 2 turns, 1 tool round, 2 troubles | 402k | stream grammar, audit row, per-turn cap, history, a healthy turn answers |
| `tool_round` | 2 calls of 9 questions, pool of 1, 1 load, 2 troubles | 599k | the pool stays whole, one failure is hidden, sources fail alone, rows within the vintage, chips, every call is answered |
| `faa_cache` | 3 askers, 2 airports, TTL of 3 ticks | 41.6k | fresh or marked, one call at a time, bounded wait, every asker is answered |
| `service` | 2 instances, 2 turns, 3 troubles | 276k | only memory forgets, one row per answer, listings never replay, the conversation ends |
| `chat_threads` | 3 questions, 3 threads | 1.37M | transcripts whole, screen stored, answers settle, each unless an answer of that thread ended under another one's screen; the input is given back, or disabled under the banner |
| `chat_switch` | 1 question, 2 threads | - | violation: a thread's stored transcript is overwritten |

Why the bounds are enough:

* Two jobs are all an overlap needs. `close_run` has three attempts, so three drops on one job are
  what it takes to lose its last answer as well, and every handler is reached with attempts left;
  `RefreshProofs` removes the bound and lets every job drop connections. With `Floor(2) = 1` the
  counts {0, 2} lie on both sides of the floor.
* Three years: two that exist and one that becomes due. `CatchesUp` needs one fault at a time, since
  after the last one nothing but the calendar and the publishers is left.
* Ten years of months cover every month against every year boundary several times.
* Three refreshes: one that is overlapped, one that overlaps it, one afterwards. `Stale = 2` of 6
  ticks lets a dead row be young and old. Refreshes are interchangeable, and the run has no liveness
  property, so symmetry is sound.
* `AgentTurn` with `MaxRounds = 1` has turns that are capped and turns that are not.
* Two calls over one connection contend for it; one load between the rows of a call and its vintage
  is what the vintage can miss; two troubles are one more than the retry hides. The questions cover
  every tool, airports without delay rows or filings or rows at all, bad arguments of both kinds and an unknown name.
* Three askers: one under the lock, one in line and one behind him. Three ticks let a document be new,
  older and expired, and expire during a call.
* Two instances are the deployment's maximum (`--max-instances`); three troubles are an outage during a boot,
  a return of the other instance and a lost acknowledgement.
* Deadlock checking is off where the system really stops: all jobs, turns or questions are over.

Fairness, where liveness is checked:

* `Refresh`: weak fairness of a step of some job. A job is one sequential process whose calls time
  out; it either goes on or is killed, and `Crash` is not fair.
* `RefreshYears`: the scheduler fires weekly, so some step of `WeeklyRun` is taken; time passes; a
  publisher publishes what is due in the end. A fault or a kill is never fair.
* `YearWindow` (`FairWindowSpec`): months pass and the job runs again.
* `AgentTurn`: the event loop runs every request, and model and tool calls end because they have
  timeouts. Without fairness: `Fail`, `Cut`, `Restart`.
* `ToolRound`: weak fairness of a step of some call. The event loop runs the tasks, and
  `statement_timeout` and the pool's timeout end every wait.
* `FaaCache`: each asker proceeds when it can; httpx's timeout ends a call. Asking, cancelling and
  the clock are not fair.
* `Service`: Cloud Run brings an instance up for a waiting question, and a request is served. Neon
  need not come back.
* `Freshness` and `ChatThreads` claim safety only.

### What the violations say

1. `CompleteYearsOnly`: `refresh.py:80-81`, "A year is admitted only once its December has
   published". `probe_sources` withdraws the year from the decision, not from the build.
2. `TrueVintage`: `docs/adr/ADR-005-scheduled-ingestion.md:138-139`. The `failed` row written by
   `refresh.py:606` carries no period although the core load has committed.
3. `SwitchingBackShowsTranscript`: `apps/web/README.md:31-32`. `finalizeWith`
   (`ChatApp.tsx:89-95`) persists the screen under the thread it closed over.

Other places where the modules follow the code and a text says something else:

* `db/schema_refresh.sql:22-23`, "A row left status=running is a bug": one lost acknowledgement of
  `open_run` (`refresh.py:505`) leaves one, and readers forget it after an hour. `Refresh` has it.
* `tests/test_refresh_window.py:159-160`, "A network blip must never masquerade as 'up to date'":
  only a request without any answer is `None` (`refresh.py:319`); 5xx and 403 read as not published.
  `RefreshYears` has it, and `CatchesUp` says that a later run makes up for it.
* `tools.py:13-14`, errors are "returned as an error payload rather than raised": the vintage of an
  answer is read outside the `try`, so a failure there reaches `_run_call`. `ToolRound` has it as `"raised"`.
* `repository/base.py:19-21`, a missing view reads as an empty one: in `postgres.py` an undefined table is a `RepoError`.
* `docs/design.md:171`, crash-safe persistence: not on an instance that fell back to memory (`OnlyMemoryForgets`).
* ADR-005:104 words the BTS window as "to the year three months behind today"; the code (and the comment
  above it) means complete years only, and that is what `YearWindow` models.

## 4. Proofs

Everything is checked by TLAPS for all values of the constants under the modules' named assumptions
(`TableAssumptions`, `JobAssumptions`, `CalendarAssumptions`, `YearAssumptions`,
`FreshnessAssumptions`, `TurnAssumptions`, `RoundAssumptions`, `FaaAssumptions`, `ServiceAssumptions`,
`ChatAssumptions`),
which TLC evaluates in the passing runs.

* **`RefreshInvariant`** (`RefreshProofs`). None of the invariants is inductive alone: that a
  `success` row implies both loads needs to know what a job that means to record `success` has
  committed, and that a failed job's row says so needs to know how many attempts were left. `RefreshInv` adds,
  per job: `StageInv` (its stage fixes row id, intent, handler, committed loads), `RetryInv`
  (failed attempts are lost connections; attempts remain), `LedgerInv` (its row is `running` until
  `close_run`) and `TablesInv` (what it knows of the tables while nobody loads over it). There is
  one lemma per action. `TypeCorrect`, `RowsAreTrue`, `ExitIsTrue` are corollaries.
* **`FactsStay`, `SuccessServed`, `FloorHolds`**: the three action properties, from the invariant
  and from lemmas that say which actions touch the ledger and which the tables.
* **`Refines`**: `Refresh` implements `RefreshContract` with the verdict read off the row a
  job works with. Each action is shown to be a contract step or a stutter; a lost acknowledgement of a
  load is a contract step, its handler a stutter, and an overwritten verdict the contract's downgrade; a count that
  is lost or that finds no table forgets the ones before it.
* **`WindowsNeverEarly`, `PublishesAllDue`, `WindowsOnlyGrow`** (`YearsProofs`): the month arithmetic once, by
  cases on the month; then that being due is monotone in time, and that the years due on a day are
  ranges whose ends lie at most a year apart. What was published was due then, so it is due now and in the next window.
* **`LossesAreFaults`** (`YearsProofs`): `YearsInv` says that the two BTS tables share one window
  (`Together`), that nothing unpublished is anywhere (`OnlyPublished`), that the environment of a run
  names every year that is in a table it is about to replace (`EnvCoversTables`), and that the files of
  a run without a fault cover the tables (`FilesCoverTables`), from which a load loses nothing.
* **`RunIsToldTheWindow`, `CalendarMovesDue`, `StartsInTheThirdYear`** (`YearsProofs`) tie the two
  modules: with `due` read off the date of `YearWindow`, the window of `RefreshYears` is what
  `bts_year_window` and `faa_year_window` return, what a run tells its builders is what
  `apply_year_windows` publishes, a month that moves `due` is a step `January` or `March` with its
  guard, and the initial states are twelve months of the calendar. The one hypothesis on constants is
  that both calendars end in the same year (`EndYear - FirstYear = LastYear`).
* **`QuietRunTells`, `SuccessCurrent`, `RunCurrent`** (`FreshnessProofs`): `FreshInv` relates stamps
  to the clock, rows to the stage of their writer, the newest good row to the data while no two runs
  overlap, and the answer a reader holds to the ledger it was read from. "ORDER BY ... LIMIT 1" is a maximum
  of a bounded set of numbers, which exists by the well-foundedness of the naturals.
* **`RowAgrees`, `ThreadGrows`, `DoneRemembered`** (`AgentTurnProofs`): `TurnInv` has what a row says
  of the events told before it (`RowInv`), and, for turns that nobody overlapped, that the run's
  messages extend the thread's (`Alone`, `InStep`) and that an answer told as done is in it (`Remembered`).
* **`CapPerTurn`, `DanglingCaused`** (`AgentTurnProofs`): `ListInv` says that a run's list is what it
  found, its one question, then only messages of its own, with rounds within the cap; `DangleInv` that
  every list that may become the thread holds no unanswered call without a cause.
* **`StreamKeepsGrammar`** (`AgentTurnProofs`): `StreamInv` looks at the wire and the outbox as one stream: until
  a turn is at its end it is live, with a call open only at the tools. Sending leaves the stream as it is,
  a cut or a restart leaves a prefix (`GrammarPrefix`), and the rest adds an event it may go on with.
* **`RoundInvariant`, `VintageCoversRows`, `FirstFailureHidden`, `ChipsAreTrue`** (`ToolRoundProofs`),
  for any number of calls, questions, connections, loads and troubles: `IInv` adds to `RoundInv` what a call's stage says of
  its statements, of the errors it met and of its payload (`CallInv`), and which chips are settled (`ShownInv`).
* **`SourcesAlone`** (`ToolRoundProofs`): `SourceInv` keeps, for a call at a statement, that it has the
  rows it needs of all statements behind it, and, for one on its way to an error payload, a reason.
* **`OnlyMemoryLoses`, `RowPerAnswer`, `NeverReplays`** (`ServiceProofs`): `ThreadInv` says that a turn
  under way is on one instance that serves (`ServingInv`), that whoever is said to keep an answered
  turn has it (`KeptInv`), and what the rows in the audit trail have to do with where the turn is (`RowsInv`).
  `OnlyMemoryForgets` is proved along with it: what a turn does not find is in the hands of
  another keeper than its own.
  `ListingInv` says that what a listing handed out is a prefix of the one snapshot it reads, in which
  nothing occurs twice; a restart takes a new snapshot only while the prefix is empty.
* **`CacheInvariant`, `StatusIsFresh`, `WaitBounded`, `FeedSpared`** (`FaaCacheProofs`): lock, line
  and bound hold together or not at all. `LockInv` ties the holder to the one who fetches,
  `LineInv` makes `ahead` a strict order of the waiters, and `CallsInv` counts the calls an asker sat
  through plus those in front of him, which fit into one round.
* **`TranscriptsWhole`, `ScreenStored`, `AnswersSettled`, `InputUnlocked`** (`ChatThreadsProofs`): they need
  `OwnersInv`, which thread and stage a turn can have, and `ChatInv`, the three properties of the transcripts
  together: every persist writes the screen, so what is promised of storage rests on the screen. All
  but `InputUnlocked` speak of the threads outside `misfiled`, those none of whose answers ended under another
  thread's screen; what happens to the others is `SwitchingBackShowsTranscript`.

How long things can last is proved as far as it is a matter of safety. Each of these theorems gives a
rank, bounded by the constants, that the steps of the system use up:

* **`JobsRunOut`** (`RefreshProofs`): every step of a job, a retry, a raise and a kill included, lowers
  its rank, which is at most 41, or leaves it and counts one more table, and moves no other job.
* **`TurnsRunOut`** (`AgentTurnProofs`): every step lowers the rank of some turn and raises none. With it,
  `HealthyEndsAnswered`: a turn that is over and met no failure, cut or restart was told `done`; and
  `LimitNeverReached`: the cap ends a run while LangGraph's recursion limit would let it take three more steps.
  Their invariant counts the steps of a run by its rounds (`StepsInv`, `CountInv`, `EndsInv`).
* **`CallsRunOut`** (`ToolRoundProofs`): a call has at most `4 * PlanLen(c) + 5` steps, timeouts
  included. With it, `NeverStandsStill`: while a call is open, some call has all that its next step waits for; the one
  that holds a connection waits for nobody, and of those that were not started the first is next.
* **`AskersGetNearer`** (`FaaCacheProofs`): every lock taken and every call of the feed that ends brings
  all who wait nearer. With it, `NeverStandsStill`: the lock is never lost and the line has a first (a
  waiter with the fewest in front of him).
* **`ConversationRunsOut`** (`ServiceProofs`): a question is given at most six steps of service.

Only model-checked: the liveness properties themselves (`RunTerminates`, `CatchesUp`, `WindowMoves`,
`HealthyTurnsAnswer`, `EveryCallIsAnswered`, `EveryAskerIsAnswered`, `ConversationEnds`). For
`RunTerminates`, `HealthyTurnsAnswer`, `EveryCallIsAnswered`, `EveryAskerIsAnswered` and `ConversationEnds` what the theorems above leave
open is that the steps that use up the rank are taken: fairness, `ENABLED` (that such a step exists at all is
proved only where a `NeverStandsStill` stands above) and the induction over the rank. These, induction over data and `RECURSIVE` operators are out of the proof system's reach; no
module here declares one.

## 5. Not modelled, and the plan

Not modelled for good: prompts, settings, logging, tracing, layout, voice, evals, CI, deployment. The
in-memory fixture repository answers from constants and has no state. Authentication is one decision
over a token, signature checking being the library's.

Next modules, in order:

1. `ThreadStorage` (`threads.ts`): the legacy migration, two users, two tabs, read-modify-write.
2. `ScoreViews` (`db/views*.sql`) and `TableLogic` (`lib/table.ts`): pure operators against reference definitions.
3. `AuthTable` (`auth.py`): the decision table.

Next theorems: that a complete year stays complete once no fault is left (the safety core of
`CatchesUp`), and, with `ThreadStorage`, what of `TranscriptsAreWhole` survives two tabs.
