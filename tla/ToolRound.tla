----------------------------- MODULE ToolRound -----------------------------
(***************************************************************************)
(* One round of tool calls: tools_node runs the calls of the model at the  *)
(* same time (services/agent/graph.py), each of them a few SELECTs         *)
(* (services/agent/tools.py, repository/postgres.py), every SELECT on a    *)
(* connection of the shared pool, in a transaction of its own, with one    *)
(* retry (db.py), while a refresh replaces the tables underneath. The      *)
(* results reach the browser in the order of the calls and settle the      *)
(* chips of the answer (ChatApp.tsx).                                      *)
(*                                                                         *)
(* psycopg_pool and Postgres are external. The pool serves waiters in      *)
(* order; here it serves any, and nothing below needs the order. A dead    *)
(* connection is replaced when it comes back. Rows are the version of the  *)
(* tables they come from.                                                  *)
(***************************************************************************)
EXTENDS Integers, FiniteSets, Sequences

CONSTANTS
  Calls,       \* how many calls the round has
  Questions,   \* what a call may ask
  PoolSize,    \* settings.db_pool_max_size
  MaxLoads,    \* bound: loads of the core tables while the round lasts
  MaxTroubles  \* bound: kills, statement timeouts, pool timeouts

\* The SELECTs of postgres.py, and the relations a Tier 1 database may lack.
Statements == {"resolve", "rank", "metrics", "congestion", "unmet",
               "concentration", "financials", "roi"}
T25 == {"concentration", "financials", "roi"}

Tools == {"resolve_airport", "rank_airports", "airport_metrics", "compare_airports",
          "unmet_demand_estimate", "investment_context", "faa_live_status"}

\* A call names a tool, or one that does not exist; gives airports by name or by code;
\* finds rows with some statements only; and may have arguments the repository refuses or
\* the schema of the tool does.
Question == [tool : Tools \union {"unknown"}, named : BOOLEAN,
             finds : SUBSET Statements, args : {"good", "refused", "malformed"}]

ASSUME RoundAssumptions ==
  /\ Calls \in Nat \ {0}
  /\ Questions \subseteq Question
  /\ PoolSize \in Nat \ {0}
  /\ MaxLoads \in Nat /\ MaxTroubles \in Nat

VARIABLES
  version,   \* the core tables and views: how often they were replaced
  present,   \* the T2.5 relations that exist
  free,      \* connections nobody holds
  held,      \* the calls that hold one
  dead,      \* those whose connection the server has terminated
  question,  \* question[c]
  stage,     \* stage[c]: what c does next or waits for
  at,        \* at[c]: its statement
  retried,   \* retried[c]: that statement is on its second attempt
  rows,      \* rows[c]: the statements that brought rows, by position
  newest,    \* newest[c]: newest version among these rows
  result,    \* result[c]
  cites,     \* cites[c]: version whose vintage the payload states, -1: none
  stale,     \* history - stale[c]: STALE_ERRORS met so far
  refused,   \* history - refused[c]: nothing to find, a relation missing, a bad argument
  chip,      \* chip[c]: status of the call under the answer
  shown,     \* tool_result events the browser has received
  troubles   \* troubles so far

tables == <<version, present>>
pool == <<free, held, dead>>
progress == <<stage, at, retried, rows, newest>>
payload == <<result, cites>>
history == <<stale, refused>>
browser == <<chip, shown>>
roundVars == <<tables, pool, question, progress, payload, history, browser, troubles>>

Round == 1 .. Calls

\* _coerce_iata: a name takes a query, a code does not.
Coerce(q) == IF q.named THEN <<"resolve">> ELSE <<>>

\* What the tools ask the repository, in order.
Plan == [q \in Questions |->
  CASE q.tool = "resolve_airport" -> <<"resolve">>
    [] q.tool = "rank_airports" -> <<"rank">>
    [] q.tool = "airport_metrics" -> Coerce(q) \o <<"metrics">>
    [] q.tool = "compare_airports" ->
         Coerce(q) \o Coerce(q) \o <<"metrics", "congestion", "metrics", "congestion">>
    [] q.tool = "unmet_demand_estimate" -> Coerce(q) \o <<"unmet", "metrics", "congestion">>
    [] q.tool = "investment_context" -> Coerce(q) \o <<"concentration", "financials", "roi">>
    [] q.tool = "faa_live_status" -> Coerce(q)
    [] OTHER -> <<>>]

\* The sources a tool can answer without.
Optional == [q \in Questions |->
  CASE q.tool \in {"compare_airports", "unmet_demand_estimate"} -> {"congestion"}
    [] q.tool = "investment_context" -> T25
    [] OTHER -> {}]

\* The statement c is at; the vintage is one more query.
Now(c) == IF stage[c] = "data" THEN Plan[question[c]][at[c]] ELSE "vintage"

AtWork == {"data", "vintage", "excuse"}

Init ==
  /\ version = 0 /\ present \in {T25, {}}
  /\ free = PoolSize /\ held = {} /\ dead = {}
  /\ question \in [Round -> Questions]
  /\ stage = [c \in Round |-> "called"]
  /\ at = [c \in Round |-> 1]
  /\ retried = [c \in Round |-> FALSE]
  /\ rows = [c \in Round |-> {}]
  /\ newest = [c \in Round |-> 0]
  /\ result = [c \in Round |-> "none"]
  /\ cites = [c \in Round |-> -1]
  /\ stale = [c \in Round |-> 0]
  /\ refused = [c \in Round |-> FALSE]
  /\ chip = [c \in Round |-> "called"]
  /\ shown = 0 /\ troubles = 0

----------------------------------------------------------------------------
Goto(c, next) == stage' = [stage EXCEPT ![c] = next]

Answer(c, r, cited) ==
  /\ Goto(c, "answered")
  /\ result' = [result EXCEPT ![c] = r]
  /\ cites' = [cites EXCEPT ![c] = cited]

\* The task of c starts: gather starts them in order. An unknown tool is answered, and bad
\* arguments are found, without a query: malformed ones raise out of tool.ainvoke and are
\* _run_call's to answer, the others (empty query, no region, unknown metric) the tool's.
Begin(c) ==
  /\ stage[c] = "called" /\ \A b \in 1 .. (c - 1) : stage[b] # "called"
  /\ LET q == question[c] IN
       \/ q.tool = "unknown" /\ Answer(c, "error", -1) /\ UNCHANGED history
       \/ /\ q.tool # "unknown" /\ q.args # "good"
          /\ refused' = [refused EXCEPT ![c] = TRUE] /\ UNCHANGED stale
          /\ \/ q.args = "malformed" /\ Answer(c, "raised", -1)
             \/ q.args = "refused" /\ Goto(c, "excuse") /\ UNCHANGED payload
       \/ /\ q.tool # "unknown" /\ q.args = "good"
          /\ Goto(c, IF Plan[q] = <<>> THEN "feed" ELSE "data")
          /\ UNCHANGED <<payload, history>>
  /\ UNCHANGED <<tables, pool, question, at, retried, rows, newest, browser, troubles>>

\* pool.connection(): the check on the way out has replaced a connection that died idle.
Connect(c) ==
  /\ stage[c] \in AtWork /\ c \notin held /\ free > 0
  /\ free' = free - 1 /\ held' = held \union {c}
  /\ UNCHANGED <<tables, dead, question, progress, payload, history, browser, troubles>>

\* Mutant: the connection goes back to the pool when the statement succeeds.
GiveBackHealthy(c) ==
  IF c \in dead THEN UNCHANGED pool
  ELSE free' = free + 1 /\ held' = held \ {c} /\ UNCHANGED dead

\* The connection of c goes back to the pool, whatever became of the statement.
GiveBack(c) ==
  IF c \in held THEN free' = free + 1 /\ held' = held \ {c} /\ dead' = dead \ {c}
  ELSE UNCHANGED pool

\* Mutant: the vintage the service read when it started, as in /health.
VintageAtBoot == 0

\* The vintage line of a payload: a query of its own, of the tables as they are by now.
Vintage == version

\* Mutant: a source of investment_context that fails takes the others with it.
ToleratedRarely(c) == Now(c) = "congestion"

\* The tool goes on without the rows of the statement c is at.
Tolerated(c) == Now(c) \in Optional[question[c]]

\* A data statement of c is over: on to the next one, to the vintage and the answer, to
\* the feed, or to an error payload. `found`: it brought rows.
DataEnds(c, found) ==
  LET q == question[c]
      got == IF found THEN rows[c] \union {at[c]} ELSE rows[c]
      sources == {i \in got : Plan[q][i] \in Optional[q]}
  IN
  /\ rows' = [rows EXCEPT ![c] = got]
  /\ newest' = [newest EXCEPT ![c] = IF found THEN version ELSE @]
  /\ retried' = [retried EXCEPT ![c] = FALSE]
  /\ IF ~found /\ ~Tolerated(c)
     THEN Goto(c, "excuse") /\ UNCHANGED at
     ELSE IF at[c] < Len(Plan[q])
     THEN at' = [at EXCEPT ![c] = @ + 1] /\ UNCHANGED stage
     ELSE /\ Goto(c, IF q.tool = "faa_live_status" THEN "feed"
                     ELSE IF q.tool = "investment_context" /\ sources = {} THEN "excuse"
                     ELSE "vintage")
          /\ UNCHANGED at
  /\ UNCHANGED payload

\* The statement of c is over for good. A vintage that cannot be read spares an error
\* payload (_fail), but leaves the tool as an exception on the way to an answer, which
\* _run_call turns into a result.
StatementEnds(c, found) ==
  \/ stage[c] = "data" /\ DataEnds(c, found)
  \/ /\ stage[c] = "vintage"
     /\ IF found THEN Answer(c, "ok", Vintage) ELSE Answer(c, "raised", -1)
     /\ UNCHANGED <<at, retried, rows, newest>>
  \/ /\ stage[c] = "excuse"
     /\ Answer(c, "error", IF found THEN Vintage ELSE -1)
     /\ UNCHANGED <<at, retried, rows, newest>>

\* _run_select on a live connection: rows, no rows, or a relation that is not there.
Select(c) ==
  /\ c \in held /\ c \notin dead /\ stage[c] \in AtWork
  /\ LET found == Now(c) = "vintage"
                    \/ Now(c) \in question[c].finds \ (T25 \ present)
     IN /\ StatementEnds(c, found)
        /\ refused' = [refused EXCEPT ![c] = (@ \/ ~found)]
  /\ GiveBack(c)
  /\ UNCHANGED <<tables, question, stale, browser, troubles>>

\* Mutant: no retry.
StaleErrorFinal(c) ==
  /\ StatementEnds(c, FALSE)
  /\ GiveBack(c)
  /\ stale' = [stale EXCEPT ![c] = @ + 1]
  /\ UNCHANGED <<tables, question, refused, browser>>

\* with_stale_retry: the first of STALE_ERRORS is repeated on another connection, the
\* second is a RepoError.
StaleError(c) ==
  /\ IF retried[c] THEN StatementEnds(c, FALSE)
     ELSE /\ retried' = [retried EXCEPT ![c] = TRUE]
          /\ UNCHANGED <<stage, at, rows, newest, payload>>
  /\ GiveBack(c)
  /\ stale' = [stale EXCEPT ![c] = @ + 1]
  /\ UNCHANGED <<tables, question, refused, browser>>

\* The statement meets a terminated connection.
Terminated(c) == c \in dead /\ StaleError(c) /\ UNCHANGED troubles

Trouble == troubles < MaxTroubles /\ troubles' = troubles + 1

\* statement_timeout (a load may hold its locks that long), or nobody gave a connection
\* back for acquire_timeout_seconds: OperationalErrors both.
TimesOut(c) == stage[c] \in AtWork /\ c \notin dead /\ Trouble /\ StaleError(c)

\* The database suspends, or an administrator terminates every session.
Kill ==
  /\ Trouble /\ held # {} /\ dead # held
  /\ dead' = held
  /\ UNCHANGED <<tables, free, held, question, progress, payload, history, browser>>

\* airport_status never raises: live, marked or unavailable, it is data (see FaaCache).
FeedAnswers(c) ==
  /\ stage[c] = "feed" /\ Answer(c, "ok", -1)
  /\ UNCHANGED <<tables, pool, question, at, retried, rows, newest, history, browser, troubles>>

\* load.main commits: new core tables and views; the T2.5 views went with the old tables.
LoadCore ==
  /\ version < MaxLoads
  /\ version' = version + 1 /\ present' = present \intersect {"financials"}
  /\ UNCHANGED <<pool, question, progress, payload, history, browser, troubles>>

\* load_t25.main commits.
LoadT25 ==
  /\ version > 0 /\ present # T25 /\ present' = T25
  /\ UNCHANGED <<version, pool, question, progress, payload, history, browser, troubles>>

\* Mutant: a result settles the calls that are open, whatever their name.
ShowAll ==
  /\ shown < Calls /\ \A c \in Round : stage[c] = "answered"
  /\ shown' = shown + 1
  /\ chip' = [c \in Round |-> IF chip[c] = "called" THEN result[shown'] ELSE chip[c]]
  /\ UNCHANGED <<tables, pool, question, progress, payload, history, troubles>>

\* gather has all results; one tool_result event after the other, in the order of the
\* calls, settles every open call of its name.
Show ==
  /\ shown < Calls /\ \A c \in Round : stage[c] = "answered"
  /\ shown' = shown + 1
  /\ chip' = [c \in Round |->
       IF chip[c] = "called" /\ question[c].tool = question[shown'].tool
       THEN result[shown'] ELSE chip[c]]
  /\ UNCHANGED <<tables, pool, question, progress, payload, history, troubles>>

\* The request is over its time or its client gone: every task of the round is cancelled.
Cancel ==
  /\ \E c \in Round : stage[c] # "answered"
  /\ stage' = [c \in Round |-> "cancelled"]
  /\ free' = free + Cardinality(held) /\ held' = {} /\ dead' = {}
  /\ UNCHANGED <<tables, question, at, retried, rows, newest, payload, history, browser, troubles>>

Step(c) == Begin(c) \/ Connect(c) \/ Select(c) \/ Terminated(c) \/ FeedAnswers(c)

Next ==
  \/ \E c \in Round : Step(c) \/ TimesOut(c)
  \/ Kill \/ LoadCore \/ LoadT25 \/ Show \/ Cancel

Spec == Init /\ [][Next]_roundVars

\* Some task of the round goes on: the event loop runs them, Postgres answers or
\* statement_timeout ends the wait.
FairSpec == Spec /\ WF_roundVars(\E c \in Round : Step(c))

----------------------------------------------------------------------------
TypeOK ==
  /\ version \in Nat /\ present \subseteq T25
  /\ free \in Nat /\ held \subseteq Round /\ dead \subseteq held
  /\ question \in [Round -> Questions]
  /\ stage \in [Round -> AtWork \union {"called", "feed", "answered", "cancelled"}]
  /\ at \in [Round -> Nat \ {0}]
  /\ retried \in [Round -> BOOLEAN]
  /\ rows \in [Round -> SUBSET Nat]
  /\ newest \in [Round -> Nat]
  /\ result \in [Round -> {"none", "ok", "error", "raised"}]
  /\ cites \in [Round -> Nat \union {-1}]
  /\ stale \in [Round -> Nat]
  /\ refused \in [Round -> BOOLEAN]
  /\ chip \in [Round -> {"called", "none", "ok", "error", "raised"}]
  /\ shown \in 0 .. Calls /\ troubles \in 0 .. MaxTroubles

\* Every connection is free or in the hands of one call that is at a statement, whatever
\* was killed, retried, timed out or cancelled ("the pool stays small on purpose").
PoolIsWhole ==
  /\ free + Cardinality(held) = PoolSize
  /\ \A c \in held : stage[c] \in AtWork

\* A payload holds no row newer than the vintage it states: "nothing after {last_year} is
\* in scope" (A_VINTAGE), although rows and vintage are read in different snapshots.
NothingBeyondVintage ==
  \A c \in Round : result[c] = "ok" /\ question[c].tool # "faa_live_status"
                      => newest[c] <= cites[c]

\* "The user never sees the first failure" (db.py): a call that met at most one dead
\* connection or timeout, found what it asked for and had nothing to refuse is answered.
OneFailureIsHidden ==
  \A c \in Round : result[c] \in {"error", "raised"} =>
    stale[c] >= 2 \/ refused[c] \/ question[c].tool = "unknown"

\* "One missing view must not cost the other two" (investment_context), nor a missing
\* congestion row the comparison: an answer has all that is required, and who has all that
\* is required, and asked for nothing the repository refuses, gets an error payload only when none of the sources he asked for is there.
SourcesFailAlone ==
  \A c \in Round :
    LET plan == Plan[question[c]]
        required == {i \in DOMAIN plan : plan[i] \notin Optional[question[c]]}
    IN
    /\ result[c] = "ok" => required \subseteq rows[c]
    /\ result[c] = "error" /\ required \subseteq rows[c]
       /\ question[c].tool # "unknown" /\ question[c].args = "good"
         => question[c].tool = "investment_context" /\ rows[c] \subseteq required

\* b is the first call of the round to the tool c calls; c itself, if it is asked once.
FirstOfTool(b, c) ==
  /\ question[b].tool = question[c].tool
  /\ \A a \in 1 .. (b - 1) : question[a].tool # question[c].tool

\* A call shows what became of the first call to its tool, from when that is known: of
\* itself, where its tool is asked once. A result never settles or changes a chip of
\* another tool, and of two calls to one tool the second never shows its own outcome.
ChipsTellTheirResult ==
  \A b, c \in Round : FirstOfTool(b, c) =>
    chip[c] = IF b <= shown THEN result[b] ELSE "called"

\* The inductive invariant of the proofs: types, the pool, and rows of tables that exist.
RoundInv == TypeOK /\ PoolIsWhole /\ \A c \in Round : newest[c] <= version

\* Every call of the round is answered, or the request is over: no call waits for good for
\* a connection another one keeps.
EveryCallIsAnswered == <>(\A c \in Round : stage[c] \in {"answered", "cancelled"})
============================================================================
