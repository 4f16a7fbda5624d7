-------------------------- MODULE ToolRoundProofs --------------------------
(***************************************************************************)
(* Proofs about ToolRound for any number of calls, any questions, a pool   *)
(* of any size and any number of loads, kills and timeouts.                *)
(***************************************************************************)
EXTENDS ToolRound, FiniteSetTheorems, WellFoundedInduction, TLAPS

Stages == AtWork \union {"called", "feed", "answered", "cancelled"}

\* What a call has been through by the time it is at a stage.
CallInv(c) ==
  /\ result[c] # "none" => stage[c] \in {"answered", "cancelled"}
  /\ stage[c] = "called" => at[c] = 1
  /\ stage[c] = "feed" => question[c].tool = "faa_live_status"
  /\ stage[c] = "data" => at[c] <= Len(Plan[question[c]])
  /\ retried[c] => stale[c] >= 1
  /\ stage[c] = "excuse" => stale[c] >= 2 \/ refused[c]

\* Results are shown when all of them are there.
ShownInv == shown > 0 => \A c \in Round : stage[c] = "answered"

CallsInv == (\A c \in Round : CallInv(c)) /\ ShownInv

Promises == NothingBeyondVintage /\ OneFailureIsHidden /\ ChipsTellTheirResult

----------------------------------------------------------------------------
(* The tools' plans.                                                        *)

LEMMA ToolOfQuestion ==
  ASSUME TypeOK, NEW c \in Round
  PROVE  question[c] \in Questions /\ question[c].tool \in Tools \union {"unknown"}
BY RoundAssumptions DEF TypeOK, Question

LEMMA CoerceType ==
  ASSUME NEW q
  PROVE  Coerce(q) \in Seq(Statements) /\ Len(Coerce(q)) \in Nat
<1>1. <<>> \in Seq(Statements) /\ Len(<<>>) \in Nat
  OBVIOUS
<1>2. <<"resolve">> \in Seq(Statements) /\ Len(<<"resolve">>) \in Nat
  BY DEF Statements
<1>3. CASE q.named
  BY <1>2, <1>3 DEF Coerce
<1>4. CASE ~q.named
  BY <1>1, <1>4 DEF Coerce
<1> QED
  BY <1>3, <1>4

\* Only the live status can do without any query.
LEMMA EmptyPlan ==
  ASSUME NEW q \in Questions, q.tool \in Tools, Plan[q] = <<>>
  PROVE  q.tool = "faa_live_status"
<1>1. Coerce(q) \in Seq(Statements) /\ Len(Coerce(q)) \in Nat
  BY CoerceType
<1>2. CASE q.tool \in {"resolve_airport", "rank_airports"}
  BY <1>2 DEF Plan
<1>3. CASE q.tool = "airport_metrics"
  <2>1. Len(Coerce(q) \o <<"metrics">>) > 0
    BY <1>1
  <2> QED
    BY <1>3, <2>1 DEF Plan
<1>4. CASE q.tool = "compare_airports"
  <2>1. (Coerce(q) \o Coerce(q)) \in Seq(Statements)
    BY <1>1
  <2>2. Len((Coerce(q) \o Coerce(q)) \o <<"metrics", "congestion", "metrics", "congestion">>) > 0
    BY <2>1
  <2> QED
    BY <1>4, <2>2 DEF Plan
<1>5. CASE q.tool = "unmet_demand_estimate"
  <2>1. Len(Coerce(q) \o <<"unmet", "metrics", "congestion">>) > 0
    BY <1>1
  <2> QED
    BY <1>5, <2>1 DEF Plan
<1>6. CASE q.tool = "investment_context"
  <2>1. Len(Coerce(q) \o <<"concentration", "financials", "roi">>) > 0
    BY <1>1
  <2> QED
    BY <1>6, <2>1 DEF Plan
<1> QED
  BY <1>2, <1>3, <1>4, <1>5, <1>6 DEF Tools

\* A plan that is not empty has a first statement.
LEMMA PlanLength ==
  ASSUME NEW q \in Questions, q.tool \in Tools \union {"unknown"}
  PROVE  /\ Len(Plan[q]) \in Nat /\ DOMAIN Plan[q] = 1 .. Len(Plan[q])
         /\ Plan[q] # <<>> => Len(Plan[q]) >= 1
<1>1. Coerce(q) \in Seq(Statements)
  BY CoerceType
<1>2. Coerce(q) \o Coerce(q) \in Seq(Statements)
  BY <1>1
<1>3. /\ <<"resolve">> \in Seq(Statements) /\ <<"rank">> \in Seq(Statements)
      /\ <<"metrics">> \in Seq(Statements) /\ <<>> \in Seq(Statements)
  BY DEF Statements
<1>4. <<"metrics", "congestion", "metrics", "congestion">> \in Seq(Statements)
  BY DEF Statements
<1>5. /\ <<"unmet", "metrics", "congestion">> \in Seq(Statements)
      /\ <<"concentration", "financials", "roi">> \in Seq(Statements)
  BY DEF Statements
<1>6. Plan[q] \in {<<"resolve">>, <<"rank">>, <<>>, Coerce(q),
                   Coerce(q) \o <<"metrics">>,
                   Coerce(q) \o Coerce(q) \o <<"metrics", "congestion", "metrics", "congestion">>,
                   Coerce(q) \o <<"unmet", "metrics", "congestion">>,
                   Coerce(q) \o <<"concentration", "financials", "roi">>}
  BY DEF Plan, Tools
<1>7. /\ Coerce(q) \o <<"metrics">> \in Seq(Statements)
      /\ Coerce(q) \o Coerce(q) \o <<"metrics", "congestion", "metrics", "congestion">> \in Seq(Statements)
      /\ Coerce(q) \o <<"unmet", "metrics", "congestion">> \in Seq(Statements)
      /\ Coerce(q) \o <<"concentration", "financials", "roi">> \in Seq(Statements)
  <2>1. \A s, t \in Seq(Statements) : s \o t \in Seq(Statements)
    OBVIOUS
  <2> QED
    BY <1>1, <1>2, <1>3, <1>4, <1>5, <2>1, Zenon
<1>8. Plan[q] \in Seq(Statements)
  BY <1>1, <1>3, <1>6, <1>7, Zenon
<1> QED
  BY <1>8

\* The last source of investment_context is an optional one.
LEMMA LastSource ==
  ASSUME NEW q \in Questions, q.tool = "investment_context"
  PROVE  Plan[q][Len(Plan[q])] \in Optional[q]
<1>1. Plan[q] = Coerce(q) \o <<"concentration", "financials", "roi">>
  BY DEF Plan
<1>2. Coerce(q) \in Seq(Statements)
  BY CoerceType
<1>3. Plan[q][Len(Plan[q])] = "roi"
  BY <1>1, <1>2
<1>4. Optional[q] = T25
  BY DEF Optional
<1> QED
  BY <1>3, <1>4 DEF T25

----------------------------------------------------------------------------
(* The pool.                                                                *)

LEMMA RoundIsFinite == IsFiniteSet(Round) /\ Calls \in Nat
BY FS_Interval, RoundAssumptions DEF Round

\* A call takes a free connection.
LEMMA TakeOne ==
  ASSUME RoundInv, NEW c \in Round, Connect(c)
  PROVE  RoundInv'
<1> USE DEF RoundInv
<1>1. IsFiniteSet(held)
  BY RoundIsFinite, FS_Subset DEF TypeOK
<1>2. Cardinality(held') = Cardinality(held) + 1
  BY <1>1, FS_AddElement DEF Connect
<1>3. Cardinality(held) \in Nat
  BY <1>1, FS_CardinalityType
<1>4. TypeOK'
  BY DEF TypeOK, Connect, tables, progress, payload, history, browser
<1>5. PoolIsWhole'
  BY <1>2, <1>3 DEF PoolIsWhole, TypeOK, Connect, progress
<1> QED
  BY <1>4, <1>5 DEF Connect, progress, tables

\* The connection of c comes back, and c has none.
LEMMA OneComesBack ==
  ASSUME RoundInv, NEW c \in Round, GiveBack(c)
  PROVE  /\ free' \in Nat /\ held' \subseteq held \ {c} /\ dead' \subseteq held'
         /\ free' + Cardinality(held') = PoolSize
<1> USE DEF RoundInv
<1>1. IsFiniteSet(held) /\ Cardinality(held) \in Nat
  BY RoundIsFinite, FS_Subset, FS_CardinalityType DEF TypeOK
<1>2. CASE c \in held
  <2>1. free' = free + 1 /\ held' = held \ {c} /\ dead' = dead \ {c}
    BY <1>2 DEF GiveBack
  <2>2. Cardinality(held') = Cardinality(held) - 1
    BY <1>1, <1>2, <2>1, FS_RemoveElement
  <2> QED
    BY <1>1, <2>1, <2>2 DEF TypeOK, PoolIsWhole
<1>3. CASE c \notin held
  BY <1>3 DEF GiveBack, pool, TypeOK, PoolIsWhole
<1> QED
  BY <1>2, <1>3

\* PoolIsWhole again, once c gave back and only c moved on.
LEMMA PoolStays ==
  ASSUME RoundInv, NEW c \in Round, GiveBack(c), \A b \in Round \ {c} : stage'[b] = stage[b]
  PROVE  PoolIsWhole'
BY OneComesBack DEF RoundInv, TypeOK, PoolIsWhole

----------------------------------------------------------------------------
(* One statement.                                                           *)

\* What the end of a data statement changes: c's progress.
LEMMA DataTypes ==
  ASSUME RoundInv, CallsInv, NEW c \in Round, NEW found \in BOOLEAN, stage[c] = "data",
         DataEnds(c, found), UNCHANGED tables
  PROVE  /\ stage' \in [Round -> Stages] /\ at' \in [Round -> Nat \ {0}]
         /\ retried' = [retried EXCEPT ![c] = FALSE]
         /\ rows' \in [Round -> SUBSET Nat]
         /\ newest' \in [Round -> Nat] /\ \A b \in Round : newest'[b] <= version
         /\ \A b \in Round \ {c} : stage'[b] = stage[b] /\ at'[b] = at[b] /\ newest'[b] = newest[b]
         /\ stage'[c] \in {"data", "feed", "vintage", "excuse"}
         /\ UNCHANGED payload
<1> USE DEF RoundInv
<1>1. /\ rows' \in [Round -> SUBSET Nat]
      /\ newest' \in [Round -> Nat] /\ \A b \in Round : newest'[b] <= version
      /\ \A b \in Round \ {c} : newest'[b] = newest[b]
      /\ retried' = [retried EXCEPT ![c] = FALSE]
      /\ UNCHANGED payload
  BY DEF DataEnds, TypeOK
<1>2. \/ UNCHANGED stage /\ at' = [at EXCEPT ![c] = @ + 1]
      \/ \E next \in {"feed", "vintage", "excuse"} : Goto(c, next) /\ UNCHANGED at
  BY DEF DataEnds
<1>3. /\ stage' \in [Round -> Stages] /\ at' \in [Round -> Nat \ {0}]
      /\ \A b \in Round \ {c} : stage'[b] = stage[b] /\ at'[b] = at[b]
      /\ stage'[c] \in {"data", "feed", "vintage", "excuse"}
  BY <1>2 DEF Goto, TypeOK, Stages, AtWork
<1> QED
  BY <1>1, <1>3

\* What the end of any statement changes: c's progress and c's answer.
LEMMA StatementTypes ==
  ASSUME RoundInv, CallsInv, NEW c \in Round, NEW found \in BOOLEAN,
         StatementEnds(c, found), UNCHANGED <<tables, question>>
  PROVE  /\ stage' \in [Round -> Stages] /\ at' \in [Round -> Nat \ {0}]
         /\ (retried' = retried \/ retried' = [retried EXCEPT ![c] = FALSE])
         /\ rows' \in [Round -> SUBSET Nat]
         /\ newest' \in [Round -> Nat] /\ \A b \in Round : newest'[b] <= version
         /\ result' \in [Round -> {"none", "ok", "error", "raised"}]
         /\ cites' \in [Round -> Nat \union {-1}]
         /\ \A b \in Round \ {c} : /\ stage'[b] = stage[b] /\ at'[b] = at[b]
                                   /\ newest'[b] = newest[b]
                                   /\ result'[b] = result[b] /\ cites'[b] = cites[b]
<1> USE DEF RoundInv
<1>1. CASE stage[c] = "data"
  BY <1>1, DataTypes DEF StatementEnds, payload, TypeOK
<1>2. CASE stage[c] # "data"
  <2>1. /\ UNCHANGED <<at, retried, rows, newest>>
        /\ \E r \in {"ok", "error", "raised"}, v \in Nat \union {-1} : Answer(c, r, v)
    BY <1>2 DEF StatementEnds, Vintage, TypeOK
  <2> QED
    BY <2>1 DEF Answer, Goto, TypeOK, Stages, AtWork
<1> QED
  BY <1>1, <1>2

\* What c goes through with a statement: a call that did not find it has an excuse.
LEMMA DataKeepsCall ==
  ASSUME RoundInv, CallsInv, NEW c \in Round, NEW found \in BOOLEAN, stage[c] = "data",
         DataEnds(c, found), UNCHANGED <<tables, question>>,
         ~found => stale'[c] >= 2 \/ refused'[c]
  PROVE  CallInv(c)'
<1> DEFINE q == question[c]
<1>1. q \in Questions /\ Len(Plan[q]) \in Nat /\ at[c] \in Nat /\ at[c] <= Len(Plan[q])
  BY ToolOfQuestion, PlanLength DEF RoundInv, TypeOK, CallsInv, CallInv
<1>2. result'[c] = "none" /\ ~retried'[c] /\ q' = q
  <2>1. result' = result
    BY DataTypes DEF payload
  <2>2. result[c] = "none"
    BY DEF CallsInv, CallInv
  <2>3. ~retried'[c]
    BY DataTypes DEF RoundInv, TypeOK
  <2> QED
    BY <2>1, <2>2, <2>3
<1>3. CASE ~found /\ ~Tolerated(c)
  <2>1. stage'[c] = "excuse"
    BY <1>3 DEF DataEnds, Goto, RoundInv, TypeOK
  <2> QED
    BY <1>2, <1>3, <2>1 DEF CallInv
<1>4. CASE (found \/ Tolerated(c)) /\ at[c] < Len(Plan[q])
  <2>1. stage'[c] = "data" /\ at'[c] <= Len(Plan[q])
    BY <1>1, <1>4 DEF DataEnds, RoundInv, TypeOK
  <2>2. Plan[q]' = Plan[q]
    BY DEF Plan
  <2> QED
    BY <1>2, <2>1, <2>2 DEF CallInv
<1>5. CASE (found \/ Tolerated(c)) /\ at[c] = Len(Plan[q])
  <2> DEFINE got == IF found THEN rows[c] \union {at[c]} ELSE rows[c]
             none == {i \in got : Plan[q][i] \in Optional[q]} = {}
  <2>1. stage'[c] = IF q.tool = "faa_live_status" THEN "feed"
                    ELSE IF q.tool = "investment_context" /\ none THEN "excuse" ELSE "vintage"
    BY <1>1, <1>5 DEF DataEnds, Goto, RoundInv, TypeOK
  <2>2. found /\ q.tool = "investment_context" => ~none
    BY <1>1, <1>5, LastSource
  <2> HIDE DEF q, none
  <2>3. stage'[c] = "excuse" => ~found
    BY <2>1, <2>2
  <2>4. stage'[c] = "feed" => q.tool = "faa_live_status"
    BY <2>1
  <2>5. stage'[c] \in {"feed", "excuse", "vintage"}
    BY <2>1
  <2> USE DEF q
  <2> QED
    BY <1>2, <2>3, <2>4, <2>5 DEF CallInv
<1> QED
  BY <1>1, <1>3, <1>4, <1>5

\* A statement that ends keeps what every call has been through, and the promises.
LEMMA StatementKeeps ==
  ASSUME RoundInv, CallsInv, Promises, NEW c \in Round, NEW found \in BOOLEAN,
         stage[c] \in AtWork, StatementEnds(c, found), UNCHANGED <<tables, question, browser>>,
         stale' \in [Round -> Nat], refused' \in [Round -> BOOLEAN],
         \A b \in Round : stale'[b] >= stale[b] /\ (refused[b] => refused'[b]),
         ~found => stale'[c] >= 2 \/ refused'[c]
  PROVE  CallsInv' /\ Promises'
<1>1. /\ retried' = retried \/ retried' = [retried EXCEPT ![c] = FALSE]
      /\ \A b \in Round \ {c} : /\ stage'[b] = stage[b] /\ at'[b] = at[b]
                                /\ newest'[b] = newest[b]
                                /\ result'[b] = result[b] /\ cites'[b] = cites[b]
  BY StatementTypes
<1>2. shown = 0 /\ shown' = 0 /\ chip' = chip
  BY DEF ShownInv, CallsInv, AtWork, RoundInv, TypeOK, browser
<1>3. ASSUME NEW b \in Round \ {c} PROVE CallInv(b)'
  <2>1. CallInv(b) /\ Plan' = Plan /\ question' = question
    BY DEF CallsInv, Plan
  <2>2. retried'[b] = retried[b] /\ stale[b] \in Nat /\ stale'[b] \in Nat
    BY <1>1 DEF RoundInv, TypeOK
  <2> QED
    BY <1>1, <2>1, <2>2 DEF CallInv
<1>4. CASE stage[c] = "data"
  <2>1. DataEnds(c, found)
    BY <1>4 DEF StatementEnds
  <2>2. CallInv(c)'
    BY <1>4, <2>1, DataKeepsCall
  <2>3. result' = result /\ cites' = cites /\ result[c] = "none"
    BY <1>4, <2>1 DEF DataEnds, payload, CallsInv, CallInv
  <2>4. NothingBeyondVintage' /\ OneFailureIsHidden'
    BY <1>1, <2>3 DEF Promises, NothingBeyondVintage, OneFailureIsHidden, RoundInv, TypeOK
  <2>5. ChipsTellTheirResult'
    BY <1>2, <2>3 DEF Promises, ChipsTellTheirResult, FirstOfTool
  <2> QED
    BY <1>2, <1>3, <2>2, <2>4, <2>5 DEF CallsInv, ShownInv, Promises
<1>5. CASE stage[c] \in {"vintage", "excuse"}
  <2>1. /\ stage'[c] = "answered" /\ retried' = retried /\ newest' = newest
        /\ result'[c] = "ok" => cites'[c] = version
        /\ result'[c] \in {"error", "raised"} => stage[c] = "excuse" \/ ~found
    BY <1>5 DEF StatementEnds, Answer, Goto, Vintage, RoundInv, TypeOK
  <2>2. CallInv(c)
    BY DEF CallsInv
  <2>3. CallInv(c)'
    BY <2>1, <2>2 DEF CallInv, RoundInv, TypeOK
  <2>4. NothingBeyondVintage'
    BY <1>1, <2>1 DEF Promises, NothingBeyondVintage, RoundInv
  <2>5. OneFailureIsHidden'
    BY <1>1, <2>1, <2>2 DEF Promises, OneFailureIsHidden, CallInv, RoundInv, TypeOK
  <2>6. ChipsTellTheirResult'
    BY <1>2 DEF Promises, ChipsTellTheirResult, FirstOfTool, Round
  <2> QED
    BY <1>2, <1>3, <2>3, <2>4, <2>5, <2>6 DEF CallsInv, ShownInv, Promises
<1> QED
  BY <1>4, <1>5 DEF AtWork

----------------------------------------------------------------------------
(* The steps. IInv is what they preserve together.                          *)

IInv == RoundInv /\ CallsInv /\ Promises

\* CallInv, ShownInv and the promises do not look at the pool.
LEMMA PoolApart ==
  ASSUME CallsInv, Promises, UNCHANGED <<version, question, progress, payload, history, browser>>
  PROVE  CallsInv' /\ Promises'
<1>1. Plan' = Plan
  BY DEF Plan
<1>2. \A c \in Round : CallInv(c)'
  BY <1>1 DEF CallsInv, CallInv, progress, payload, history
<1>3. ShownInv'
  BY DEF CallsInv, ShownInv, progress, browser
<1>4. Promises'
  BY DEF Promises, NothingBeyondVintage, OneFailureIsHidden, ChipsTellTheirResult,
         FirstOfTool, progress, payload, history, browser
<1> QED
  BY <1>2, <1>3, <1>4 DEF CallsInv

LEMMA BeginStep ==
  ASSUME IInv, NEW c \in Round, Begin(c)
  PROVE  IInv'
<1> USE DEF IInv
<1> DEFINE q == question[c]
<1>1. /\ q \in Questions /\ q.tool \in Tools \union {"unknown"}
      /\ Len(Plan[q]) \in Nat /\ (Plan[q] # <<>> => Len(Plan[q]) >= 1)
  BY ToolOfQuestion, PlanLength DEF RoundInv
<1>2. \/ Answer(c, "error", -1) /\ q.tool = "unknown" /\ UNCHANGED history
      \/ Answer(c, "raised", -1) /\ refused' = [refused EXCEPT ![c] = TRUE] /\ UNCHANGED stale
      \/ Goto(c, "excuse") /\ refused' = [refused EXCEPT ![c] = TRUE] /\ UNCHANGED <<payload, stale>>
      \/ /\ q.tool \in Tools /\ UNCHANGED <<payload, history>>
         /\ IF Plan[q] = <<>> THEN Goto(c, "feed") ELSE Goto(c, "data")
  BY <1>1 DEF Begin
<1>3. /\ stage[c] = "called" /\ c \notin held
      /\ UNCHANGED <<tables, pool, question, at, retried, rows, newest, browser, troubles>>
  BY DEF Begin, RoundInv, PoolIsWhole, AtWork
<1>4. /\ stage' \in [Round -> Stages] /\ \A b \in Round \ {c} : stage'[b] = stage[b]
      /\ result' \in [Round -> {"none", "ok", "error", "raised"}]
      /\ cites' \in [Round -> Nat \union {-1}]
      /\ stale' = stale /\ refused' \in [Round -> BOOLEAN]
  BY <1>2 DEF Answer, Goto, payload, history, RoundInv, TypeOK, Stages, AtWork
<1>5. RoundInv'
  <2>1. TypeOK'
    BY <1>3, <1>4 DEF RoundInv, TypeOK, tables, pool, browser, Stages
  <2>2. PoolIsWhole'
    BY <1>3, <1>4 DEF RoundInv, PoolIsWhole, pool, TypeOK
  <2> QED
    BY <1>3, <2>1, <2>2 DEF RoundInv, tables
<1>6. shown = 0 /\ shown' = 0 /\ chip' = chip
  BY <1>3 DEF ShownInv, CallsInv, RoundInv, TypeOK, browser
<1>7. Plan' = Plan /\ \A b \in Round : CallInv(b)
  BY DEF Plan, CallsInv
<1>8. ASSUME NEW b \in Round \ {c} PROVE CallInv(b)'
  <2>1. result'[b] = result[b] /\ refused'[b] = refused[b]
    BY <1>2 DEF Answer, payload, history, RoundInv, TypeOK
  <2> QED
    BY <1>3, <1>4, <1>7, <2>1 DEF CallInv
<1>9. CASE \/ Answer(c, "error", -1) /\ q.tool = "unknown" /\ UNCHANGED history
           \/ Answer(c, "raised", -1) /\ refused' = [refused EXCEPT ![c] = TRUE] /\ UNCHANGED stale
  <2>1. /\ stage'[c] = "answered" /\ result'[c] \in {"error", "raised"}
        /\ q.tool = "unknown" \/ refused'[c]
        /\ \A b \in Round : stale'[b] = stale[b] /\ (refused[b] => refused'[b])
    BY <1>9 DEF Answer, Goto, history, RoundInv, TypeOK
  <2>2. \A b \in Round \ {c} : result'[b] = result[b] /\ cites'[b] = cites[b]
    BY <1>9 DEF Answer, RoundInv, TypeOK
  <2>3. CallInv(c)'
    BY <1>3, <1>4, <1>7, <2>1 DEF CallInv
  <2>4. NothingBeyondVintage' /\ OneFailureIsHidden'
    BY <1>3, <2>1, <2>2 DEF Promises, NothingBeyondVintage, OneFailureIsHidden
  <2>5. ChipsTellTheirResult'
    BY <1>3, <1>6 DEF Promises, ChipsTellTheirResult, FirstOfTool, Round
  <2> QED
    BY <1>5, <1>6, <1>8, <2>3, <2>4, <2>5 DEF CallsInv, ShownInv, Promises
<1>10. CASE /\ UNCHANGED payload /\ UNCHANGED stale
            /\ \/ Goto(c, "excuse") /\ refused' = [refused EXCEPT ![c] = TRUE]
               \/ /\ q.tool \in Tools /\ UNCHANGED history
                  /\ IF Plan[q] = <<>> THEN Goto(c, "feed") ELSE Goto(c, "data")
  <2>1. CallInv(c)'
    <3>1. CASE Goto(c, "excuse") /\ refused' = [refused EXCEPT ![c] = TRUE]
      BY <1>3, <1>4, <1>7, <1>10, <3>1 DEF CallInv, Goto, payload, RoundInv, TypeOK
    <3>2. CASE q.tool \in Tools /\ Plan[q] = <<>> /\ Goto(c, "feed") /\ UNCHANGED history
      <4>1. q.tool = "faa_live_status"
        BY <1>1, <3>2, EmptyPlan
      <4> QED
        BY <1>3, <1>4, <1>7, <1>10, <3>2, <4>1 DEF CallInv, Goto, payload, history, RoundInv, TypeOK
    <3>3. CASE Plan[q] # <<>> /\ Goto(c, "data") /\ UNCHANGED history
      <4>1. at[c] <= Len(Plan[q])
        BY <1>1, <1>3, <1>7, <3>3 DEF CallInv
      <4> QED
        BY <1>3, <1>4, <1>7, <1>10, <3>3, <4>1 DEF CallInv, Goto, payload, history, RoundInv, TypeOK
    <3> QED
      BY <1>10, <3>1, <3>2, <3>3
  <2>2. NothingBeyondVintage' /\ OneFailureIsHidden'
    <3>1. \A b \in Round : refused[b] => refused'[b]
      BY <1>2, <1>4 DEF history, RoundInv, TypeOK
    <3> QED
      BY <1>3, <1>4, <1>10, <3>1 DEF Promises, NothingBeyondVintage, OneFailureIsHidden, payload
  <2>3. ChipsTellTheirResult'
    BY <1>3, <1>6 DEF Promises, ChipsTellTheirResult, FirstOfTool, Round
  <2> QED
    BY <1>5, <1>6, <1>8, <2>1, <2>2, <2>3 DEF CallsInv, ShownInv, Promises
<1> QED
  BY <1>2, <1>9, <1>10 DEF history

\* A statement that ends and gives its connection back leaves the round well-formed.
LEMMA StatementStaysTyped ==
  ASSUME RoundInv, CallsInv, NEW c \in Round, NEW found \in BOOLEAN,
         StatementEnds(c, found), GiveBack(c), UNCHANGED <<tables, question, browser>>,
         stale' \in [Round -> Nat], refused' \in [Round -> BOOLEAN],
         troubles' \in 0 .. MaxTroubles
  PROVE  RoundInv'
<1>1. /\ stage' \in [Round -> Stages] /\ at' \in [Round -> Nat \ {0}]
      /\ (retried' = retried \/ retried' = [retried EXCEPT ![c] = FALSE])
      /\ rows' \in [Round -> SUBSET Nat]
      /\ newest' \in [Round -> Nat] /\ \A b \in Round : newest'[b] <= version
      /\ result' \in [Round -> {"none", "ok", "error", "raised"}]
      /\ cites' \in [Round -> Nat \union {-1}]
      /\ \A b \in Round \ {c} : stage'[b] = stage[b]
  BY StatementTypes
<1>2. free' \in Nat /\ held' \subseteq held \ {c} /\ dead' \subseteq held'
  BY OneComesBack
<1>3. PoolIsWhole'
  BY <1>1, PoolStays
<1>4. retried' \in [Round -> BOOLEAN]
  BY <1>1 DEF RoundInv, TypeOK
<1>5. /\ version' = version /\ present' = present /\ question' = question
      /\ chip' = chip /\ shown' = shown
  BY DEF tables, browser
<1>6. TypeOK'
  BY <1>1, <1>2, <1>4, <1>5 DEF RoundInv, TypeOK, Stages
<1> QED
  BY <1>1, <1>3, <1>5, <1>6 DEF RoundInv

LEMMA SelectStep ==
  ASSUME IInv, NEW c \in Round, Select(c)
  PROVE  IInv'
<1> USE DEF IInv
<1>1. PICK found \in BOOLEAN :
        /\ StatementEnds(c, found)
        /\ refused' = [refused EXCEPT ![c] = (@ \/ ~found)]
  BY DEF Select
<1>2. /\ stage[c] \in AtWork /\ GiveBack(c)
      /\ UNCHANGED <<tables, question, stale, browser, troubles>>
  BY DEF Select
<1>3. /\ refused' \in [Round -> BOOLEAN] /\ stale' \in [Round -> Nat]
      /\ \A b \in Round : stale'[b] >= stale[b] /\ (refused[b] => refused'[b])
      /\ ~found => refused'[c]
  <2>1. /\ stale' = stale /\ stale \in [Round -> Nat] /\ refused \in [Round -> BOOLEAN]
    BY <1>2 DEF RoundInv, TypeOK
  <2>2. CASE found
    <3>1. refused' = [refused EXCEPT ![c] = refused[c]]
      BY <1>1, <2>1, <2>2
    <3>2. refused' = refused
      BY <2>1, <3>1
    <3> QED
      BY <2>1, <2>2, <3>2
  <2>3. CASE ~found
    <3>1. refused' = [refused EXCEPT ![c] = TRUE]
      BY <1>1, <2>3
    <3> QED
      BY <2>1, <3>1
  <2> QED
    BY <2>2, <2>3
<1>4. CallsInv' /\ Promises'
  BY <1>1, <1>2, <1>3, StatementKeeps
<1>5. RoundInv'
  <2>1. troubles' \in 0 .. MaxTroubles
    BY <1>2 DEF RoundInv, TypeOK
  <2> QED
    BY <1>1, <1>2, <1>3, <2>1, StatementStaysTyped
<1> QED
  BY <1>4, <1>5

LEMMA StaleErrorStep ==
  ASSUME IInv, NEW c \in Round, stage[c] \in AtWork, StaleError(c), troubles' \in 0 .. MaxTroubles
  PROVE  IInv'
<1> USE DEF IInv
<1>1. /\ GiveBack(c) /\ UNCHANGED <<tables, question, refused, browser>>
      /\ stale' = [stale EXCEPT ![c] = @ + 1]
  BY DEF StaleError
<1>2. /\ stale' \in [Round -> Nat] /\ refused' \in [Round -> BOOLEAN]
      /\ \A b \in Round : stale'[b] >= stale[b] /\ (refused[b] => refused'[b])
      /\ stale'[c] = stale[c] + 1
  BY <1>1 DEF RoundInv, TypeOK
<1>3. CASE retried[c]
  <2>1. StatementEnds(c, FALSE)
    BY <1>3 DEF StaleError
  <2>2. stale'[c] >= 2
    BY <1>2, <1>3 DEF CallsInv, CallInv, RoundInv, TypeOK
  <2>3. CallsInv' /\ Promises'
    BY <1>1, <1>2, <2>1, <2>2, StatementKeeps
  <2>4. RoundInv'
    BY <1>1, <1>2, <2>1, StatementStaysTyped
  <2> QED
    BY <2>3, <2>4
<1>4. CASE ~retried[c]
  <2>1. retried' = [retried EXCEPT ![c] = TRUE] /\ UNCHANGED <<stage, at, rows, newest, payload>>
    BY <1>4 DEF StaleError
  <2>2. RoundInv'
    BY <1>1, <1>2, <2>1, OneComesBack, PoolStays
       DEF RoundInv, TypeOK, tables, browser, payload, Stages
  <2>3. ASSUME NEW b \in Round PROVE CallInv(b)'
    <3>1. CallInv(b) /\ Plan' = Plan
      BY DEF CallsInv, Plan
    <3>2. retried'[b] => stale'[b] >= 1
      BY <1>2, <2>1, <3>1 DEF CallInv, RoundInv, TypeOK
    <3>3. stale[b] >= 2 => stale'[b] >= 2
      BY <1>2 DEF RoundInv, TypeOK
    <3> QED
      BY <1>1, <2>1, <3>1, <3>2, <3>3 DEF CallInv, payload
  <2>4. ShownInv' /\ NothingBeyondVintage' /\ ChipsTellTheirResult'
    BY <1>1, <2>1 DEF CallsInv, ShownInv, Promises, NothingBeyondVintage, ChipsTellTheirResult,
                      FirstOfTool, payload, browser
  <2>5. OneFailureIsHidden'
    BY <1>1, <1>2, <2>1 DEF Promises, OneFailureIsHidden, payload, RoundInv, TypeOK
  <2> QED
    BY <2>2, <2>3, <2>4, <2>5 DEF CallsInv, Promises
<1> QED
  BY <1>3, <1>4

LEMMA FeedStep ==
  ASSUME IInv, NEW c \in Round, FeedAnswers(c)
  PROVE  IInv'
<1> USE DEF IInv
<1>1. /\ stage[c] = "feed" /\ Answer(c, "ok", -1)
      /\ UNCHANGED <<tables, pool, question, at, retried, rows, newest, history, browser, troubles>>
  BY DEF FeedAnswers
<1>2. /\ stage' = [stage EXCEPT ![c] = "answered"] /\ result' = [result EXCEPT ![c] = "ok"]
      /\ cites' = [cites EXCEPT ![c] = -1]
  BY <1>1 DEF Answer, Goto
<1>3. RoundInv'
  BY <1>1, <1>2 DEF RoundInv, TypeOK, PoolIsWhole, tables, pool, history, browser, Stages, AtWork
<1>4. question[c].tool = "faa_live_status" /\ \A b \in Round : CallInv(b)
  BY <1>1 DEF CallsInv, CallInv
<1>5. shown = 0 /\ shown' = 0 /\ chip' = chip
  BY <1>1 DEF ShownInv, CallsInv, RoundInv, TypeOK, browser
<1>6. ASSUME NEW b \in Round PROVE CallInv(b)'
  <2>1. Plan' = Plan
    BY <1>1 DEF Plan
  <2> QED
    BY <1>1, <1>2, <1>4, <2>1 DEF CallInv, history, RoundInv, TypeOK
<1>7. NothingBeyondVintage' /\ OneFailureIsHidden'
  BY <1>1, <1>2, <1>4 DEF Promises, NothingBeyondVintage, OneFailureIsHidden, history, RoundInv, TypeOK
<1>8. ChipsTellTheirResult'
  BY <1>1, <1>5 DEF Promises, ChipsTellTheirResult, FirstOfTool, Round
<1> QED
  BY <1>3, <1>5, <1>6, <1>7, <1>8 DEF CallsInv, ShownInv, Promises

LEMMA ShowStep ==
  ASSUME IInv, Show
  PROVE  IInv'
<1> USE DEF IInv
<1>1. /\ shown < Calls /\ shown' = shown + 1 /\ \A c \in Round : stage[c] = "answered"
      /\ chip' = [c \in Round |-> IF chip[c] = "called" /\ question[c].tool = question[shown'].tool
                                  THEN result[shown'] ELSE chip[c]]
      /\ UNCHANGED <<tables, pool, question, progress, payload, history, troubles>>
  BY DEF Show
<1>2. shown' \in Round /\ shown \in Nat
  BY <1>1, RoundAssumptions DEF Round, RoundInv, TypeOK
<1>3. RoundInv'
  <2>1. shown' \in 0 .. Calls
    BY <1>2, RoundAssumptions DEF Round
  <2>2. chip' \in [Round -> {"called", "none", "ok", "error", "raised"}]
    <3>1. /\ chip \in [Round -> {"called", "none", "ok", "error", "raised"}]
          /\ result[shown'] \in {"none", "ok", "error", "raised"}
      BY <1>2 DEF RoundInv, TypeOK
    <3> QED
      BY <1>1, <3>1
  <2>3. UNCHANGED <<version, present, free, held, dead, question, stage, at, retried, rows,
                    newest, result, cites, stale, refused, troubles>>
    BY <1>1 DEF tables, pool, progress, payload, history
  <2>4. TypeOK'
    BY <2>1, <2>2, <2>3 DEF RoundInv, TypeOK
  <2>5. PoolIsWhole' /\ \A c \in Round : newest'[c] <= version'
    BY <2>3 DEF RoundInv, PoolIsWhole
  <2> QED
    BY <2>4, <2>5 DEF RoundInv
<1>4. (\A c \in Round : CallInv(c)') /\ ShownInv'
  <2>1. Plan' = Plan
    BY <1>1 DEF Plan
  <2> QED
    BY <1>1, <2>1 DEF CallsInv, CallInv, ShownInv, progress, payload, history
<1>5. NothingBeyondVintage' /\ OneFailureIsHidden'
  BY <1>1 DEF Promises, NothingBeyondVintage, OneFailureIsHidden, progress, payload, history
<1>6. ChipsTellTheirResult'
  <2> SUFFICES ASSUME NEW b \in Round, NEW c \in Round, FirstOfTool(b, c)
               PROVE  chip'[c] = IF b <= shown' THEN result[b] ELSE "called"
    BY <1>1 DEF ChipsTellTheirResult, FirstOfTool, payload
  <2>1. chip[c] = IF b <= shown THEN result[b] ELSE "called"
    BY DEF Promises, ChipsTellTheirResult
  <2>2. question[c].tool = question[b].tool /\ \A a \in 1 .. (b - 1) : question[a].tool # question[c].tool
    BY DEF FirstOfTool
  <2>3. result[b] # "called"
    BY DEF RoundInv, TypeOK
  <2>4. b \in Nat /\ shown' \in Nat \ {0} /\ shown' = shown + 1
    BY <1>1, <1>2 DEF Round
  <2>5. CASE b < shown'
    BY <1>1, <1>2, <2>1, <2>3, <2>4, <2>5
  <2>6. CASE b = shown'
    BY <1>1, <1>2, <2>1, <2>2, <2>6
  <2>7. CASE shown' < b
    <3>1. shown' \in 1 .. (b - 1)
      BY <2>4, <2>7
    <3>2. question[c].tool # question[shown'].tool
      BY <2>2, <3>1
    <3> QED
      BY <1>1, <1>2, <2>1, <2>4, <2>7, <3>2
  <2> QED
    BY <2>4, <2>5, <2>6, <2>7
<1> QED
  BY <1>3, <1>4, <1>5, <1>6 DEF CallsInv, Promises

LEMMA CancelStep ==
  ASSUME IInv, Cancel
  PROVE  IInv'
<1> USE DEF IInv
<1>1. /\ stage' = [c \in Round |-> "cancelled"] /\ \E c \in Round : stage[c] # "answered"
      /\ free' = free + Cardinality(held) /\ held' = {} /\ dead' = {}
      /\ UNCHANGED <<tables, question, at, retried, rows, newest, payload, history, browser, troubles>>
  BY DEF Cancel
<1>2. RoundInv'
  <2>1. free' = PoolSize /\ free' \in Nat /\ Cardinality(held') = 0
    BY <1>1, FS_EmptySet, RoundAssumptions DEF RoundInv, PoolIsWhole
  <2> QED
    BY <1>1, <2>1 DEF RoundInv, TypeOK, PoolIsWhole, tables, payload, history, browser
<1>3. CallsInv'
  <2>1. Plan' = Plan /\ shown' = 0
    BY <1>1 DEF Plan, CallsInv, ShownInv, RoundInv, TypeOK, browser
  <2> QED
    BY <1>1, <2>1 DEF CallsInv, CallInv, ShownInv, payload, history
<1>4. Promises'
  BY <1>1 DEF Promises, NothingBeyondVintage, OneFailureIsHidden, ChipsTellTheirResult,
              FirstOfTool, payload, history, browser
<1> QED
  BY <1>2, <1>3, <1>4

\* The rest: connections taken and killed, loads.
LEMMA OtherSteps ==
  ASSUME IInv, (\E c \in Round : Connect(c)) \/ Kill \/ LoadCore \/ LoadT25 \/ UNCHANGED roundVars
  PROVE  IInv'
<1> USE DEF IInv
<1>1. CASE \E c \in Round : Connect(c)
  <2>1. RoundInv'
    BY <1>1, TakeOne
  <2>2. UNCHANGED <<version, question, progress, payload, history, browser>>
    BY <1>1 DEF Connect, tables
  <2> QED
    BY <2>1, <2>2, PoolApart
<1>2. CASE Kill
  <2>1. RoundInv'
    BY <1>2, RoundAssumptions DEF Kill, Trouble, RoundInv, TypeOK, PoolIsWhole, tables, progress, payload, history, browser
  <2>2. UNCHANGED <<version, question, progress, payload, history, browser>>
    BY <1>2 DEF Kill, tables
  <2> QED
    BY <2>1, <2>2, PoolApart
<1>3. CASE LoadCore
  <2>1. RoundInv'
    BY <1>3 DEF LoadCore, RoundInv, TypeOK, PoolIsWhole, pool, progress, payload, history, browser
  <2>2. UNCHANGED <<question, progress, payload, history, browser>>
    BY <1>3 DEF LoadCore
  <2>3. CallsInv' /\ Promises'
    <3>1. Plan' = Plan
      BY <2>2 DEF Plan
    <3> QED
      BY <2>2, <3>1 DEF CallsInv, CallInv, ShownInv, Promises, NothingBeyondVintage,
        OneFailureIsHidden, ChipsTellTheirResult, FirstOfTool, progress, payload, history,
        browser
  <2> QED
    BY <2>1, <2>3
<1>4. CASE LoadT25
  <2>1. RoundInv'
    BY <1>4 DEF LoadT25, RoundInv, TypeOK, PoolIsWhole, pool, progress, payload, history, browser
  <2>2. UNCHANGED <<version, question, progress, payload, history, browser>>
    BY <1>4 DEF LoadT25
  <2> QED
    BY <2>1, <2>2, PoolApart
<1>5. CASE UNCHANGED roundVars
  <2>1. RoundInv'
    BY <1>5 DEF roundVars, RoundInv, TypeOK, PoolIsWhole, tables, pool, progress, payload, history, browser
  <2>2. UNCHANGED <<version, question, progress, payload, history, browser>>
    BY <1>5 DEF roundVars, tables
  <2> QED
    BY <2>1, <2>2, PoolApart
<1> QED
  BY <1>1, <1>2, <1>3, <1>4, <1>5

LEMMA RoundStep ==
  ASSUME IInv, [Next]_roundVars
  PROVE  IInv'
<1>1. ASSUME NEW c \in Round, Begin(c) PROVE IInv'
  BY <1>1, BeginStep
<1>2. ASSUME NEW c \in Round, Select(c) PROVE IInv'
  BY <1>2, SelectStep
<1>3. ASSUME NEW c \in Round, Terminated(c) PROVE IInv'
  <2>1. stage[c] \in AtWork /\ troubles' \in 0 .. MaxTroubles
    BY <1>3 DEF Terminated, IInv, RoundInv, TypeOK, PoolIsWhole
  <2> QED
    BY <1>3, <2>1, StaleErrorStep DEF Terminated
<1>4. ASSUME NEW c \in Round, TimesOut(c) PROVE IInv'
  <2>1. troubles' \in 0 .. MaxTroubles
    BY <1>4, RoundAssumptions DEF TimesOut, Trouble, IInv, RoundInv, TypeOK
  <2> QED
    BY <1>4, <2>1, StaleErrorStep DEF TimesOut
<1>5. ASSUME NEW c \in Round, FeedAnswers(c) PROVE IInv'
  BY <1>5, FeedStep
<1>6. CASE Show
  BY <1>6, ShowStep
<1>7. CASE Cancel
  BY <1>7, CancelStep
<1> QED
  BY <1>1, <1>2, <1>3, <1>4, <1>5, <1>6, <1>7, OtherSteps DEF Next, Step

LEMMA RoundInit == Init => IInv
<1> SUFFICES ASSUME Init PROVE IInv
  OBVIOUS
<1>1. RoundInv
  <2>1. Cardinality({}) = 0
    BY FS_EmptySet
  <2> QED
    BY <2>1, RoundAssumptions DEF Init, RoundInv, TypeOK, PoolIsWhole
<1>2. CallsInv
  BY DEF Init, CallsInv, CallInv, ShownInv
<1>3. Promises
  BY DEF Init, Promises, NothingBeyondVintage, OneFailureIsHidden, ChipsTellTheirResult, Round
<1> QED
  BY <1>1, <1>2, <1>3 DEF IInv

LEMMA RoundInvariants == Spec => []IInv
BY RoundInit, RoundStep, PTL DEF Spec

----------------------------------------------------------------------------
(* Which rows a call has, and which it cannot do without.                   *)

Need(c) == {i \in DOMAIN Plan[question[c]] : Plan[question[c]][i] \notin Optional[question[c]]}

\* Without a row it needs, an argument that was refused, or no tool: a reason for an error.
Excused(c) ==
  Need(c) \subseteq rows[c] /\ question[c].tool # "unknown" /\ question[c].args = "good"
    => question[c].tool = "investment_context" /\ rows[c] \subseteq Need(c)

SourceInv(c) ==
  /\ stage[c] = "called" => rows[c] = {}
  /\ stage[c] = "data" => /\ rows[c] \subseteq 1 .. (at[c] - 1)
                          /\ Need(c) \intersect 1 .. (at[c] - 1) \subseteq rows[c]
  /\ stage[c] \in {"vintage", "feed"} \/ result[c] = "ok" => Need(c) \subseteq rows[c]
  /\ stage[c] = "excuse" \/ result[c] = "error" => Excused(c)

LEMMA SourcesApart ==
  ASSUME NEW c \in Round, SourceInv(c), question' = question, at'[c] = at[c], rows'[c] = rows[c],
         result'[c] = result[c], stage'[c] \in {stage[c], "cancelled"}
  PROVE  SourceInv(c)'
<1>1. Plan' = Plan /\ Optional' = Optional
  BY DEF Plan, Optional
<1>2. Need(c)' = Need(c) /\ Excused(c)' = Excused(c)
  BY <1>1 DEF Need, Excused
<1> QED
  BY <1>2 DEF SourceInv

SourcesInv == \A c \in Round : SourceInv(c)

\* A data statement that is over: rows for those it needs so far, or a reason.
LEMMA DataKeepsSources ==
  ASSUME IInv, NEW c \in Round, NEW found \in BOOLEAN, SourceInv(c), stage[c] = "data",
         DataEnds(c, found), question' = question
  PROVE  SourceInv(c)'
<1> DEFINE q == question[c]
           n == Len(Plan[q])
           got == IF found THEN rows[c] \union {at[c]} ELSE rows[c]
<1>1. /\ q \in Questions /\ n \in Nat /\ DOMAIN Plan[q] = 1 .. n
      /\ at[c] \in 1 .. n /\ result[c] = "none"
  <2>1. q \in Questions /\ q.tool \in Tools \union {"unknown"}
    BY ToolOfQuestion DEF IInv, RoundInv
  <2>2. at[c] \in Nat \ {0} /\ at[c] <= n /\ result[c] = "none"
    BY DEF IInv, RoundInv, TypeOK, CallsInv, CallInv
  <2>3. n \in Nat /\ DOMAIN Plan[q] = 1 .. n
    BY <2>1, PlanLength
  <2> QED
    BY <2>1, <2>2, <2>3
<1>2. Plan' = Plan /\ Optional' = Optional
  BY DEF Plan, Optional
<1>3. Need(c)' = Need(c) /\ Need(c) \subseteq 1 .. n
  BY <1>1, <1>2 DEF Need
<1>4. rows'[c] = got /\ result'[c] = "none"
  BY <1>1 DEF DataEnds, payload, IInv, RoundInv, TypeOK
<1>5. rows[c] \subseteq 1 .. (at[c] - 1) /\ Need(c) \intersect 1 .. (at[c] - 1) \subseteq rows[c]
  BY DEF SourceInv
<1>6. at[c] \in Need(c) <=> ~Tolerated(c)
  BY <1>1 DEF Need, Tolerated, Now
<1>7. CASE ~found /\ ~Tolerated(c)
  <2>1. stage'[c] = "excuse" /\ at[c] \notin rows'[c]
    BY <1>1, <1>4, <1>5, <1>7 DEF DataEnds, Goto, IInv, RoundInv, TypeOK
  <2> QED
    BY <1>3, <1>4, <1>6, <1>7, <2>1 DEF SourceInv, Excused
<1>8. ASSUME found \/ Tolerated(c)
      PROVE  got \subseteq 1 .. at[c] /\ Need(c) \intersect 1 .. at[c] \subseteq got
  BY <1>1, <1>5, <1>6, <1>8
<1>9. CASE (found \/ Tolerated(c)) /\ at[c] < n
  <2>1. stage'[c] = "data" /\ at'[c] = at[c] + 1
    BY <1>9 DEF DataEnds, IInv, RoundInv, TypeOK
  <2>2. at'[c] - 1 = at[c]
    BY <1>1, <2>1
  <2> QED
    BY <1>3, <1>4, <1>8, <1>9, <2>1, <2>2 DEF SourceInv
<1>10. CASE (found \/ Tolerated(c)) /\ at[c] = n
  <2> DEFINE none == {i \in got : Plan[q][i] \in Optional[q]} = {}
  <2>1. stage'[c] = IF q.tool = "faa_live_status" THEN "feed"
                    ELSE IF q.tool = "investment_context" /\ none THEN "excuse" ELSE "vintage"
    BY <1>1, <1>10 DEF DataEnds, Goto, IInv, RoundInv, TypeOK
  <2>2. got \subseteq 1 .. n /\ Need(c) \subseteq got
    BY <1>3, <1>8, <1>10
  <2>3. none => got \subseteq Need(c)
    BY <1>1, <2>2 DEF Need
  <2>4. stage'[c] = "excuse" => Excused(c)'
    BY <1>3, <1>4, <2>1, <2>3 DEF Excused
  <2>5. stage'[c] \in {"feed", "excuse", "vintage"}
    BY <2>1
  <2> QED
    BY <1>3, <1>4, <2>2, <2>4, <2>5 DEF SourceInv
<1> QED
  BY <1>1, <1>7, <1>9, <1>10

LEMMA StatementKeepsSources ==
  ASSUME IInv, NEW c \in Round, NEW found \in BOOLEAN, \A b \in Round : SourceInv(b),
         StatementEnds(c, found), UNCHANGED <<tables, question>>
  PROVE  \A b \in Round : SourceInv(b)'
<1>1. ASSUME NEW b \in Round \ {c} PROVE SourceInv(b)'
  <2>1. stage'[b] = stage[b] /\ at'[b] = at[b] /\ result'[b] = result[b]
    BY StatementTypes DEF IInv
  <2>2. rows'[b] = rows[b]
    BY DEF StatementEnds, DataEnds, IInv, RoundInv, TypeOK
  <2> QED
    BY <2>1, <2>2, SourcesApart
<1>2. CASE stage[c] = "data"
  <2>1. DataEnds(c, found) /\ question' = question /\ SourceInv(c)
    BY <1>2 DEF StatementEnds
  <2>2. SourceInv(c)'
    BY <1>2, <2>1, DataKeepsSources
  <2> QED
    BY <1>1, <2>2
<1>3. CASE stage[c] # "data"
  <2>1. /\ UNCHANGED <<at, rows>> /\ stage'[c] = "answered"
        /\ result'[c] = "ok" => stage[c] = "vintage"
        /\ result'[c] = "error" => stage[c] = "excuse"
    BY <1>3 DEF StatementEnds, Answer, Goto, IInv, RoundInv, TypeOK
  <2>2. Plan' = Plan /\ Optional' = Optional
    BY DEF Plan, Optional
  <2>3. Need(c)' = Need(c) /\ Excused(c)' = Excused(c)
    BY <2>1, <2>2 DEF Need, Excused
  <2>4. SourceInv(c)'
    BY <2>1, <2>3 DEF SourceInv
  <2> QED
    BY <1>1, <2>4
<1> QED
  BY <1>1, <1>2, <1>3

LEMMA BeginKeepsSources ==
  ASSUME IInv, NEW c \in Round, \A b \in Round : SourceInv(b), Begin(c)
  PROVE  \A b \in Round : SourceInv(b)'
<1> DEFINE q == question[c]
<1>1. stage[c] = "called" /\ result[c] = "none" /\ at[c] = 1 /\ rows[c] = {}
  BY DEF Begin, IInv, RoundInv, TypeOK, CallsInv, CallInv, SourceInv
<1>2. UNCHANGED <<question, at, rows>>
  BY DEF Begin
<1>3. ASSUME NEW b \in Round \ {c} PROVE SourceInv(b)'
  <2>1. stage'[b] = stage[b] /\ result'[b] = result[b]
    BY DEF Begin, Answer, Goto, payload, IInv, RoundInv, TypeOK
  <2> QED
    BY <1>2, <2>1, SourcesApart
<1>4. \/ stage'[c] = "answered" /\ result'[c] = "error" /\ q.tool = "unknown"
      \/ stage'[c] = "excuse" /\ result'[c] = "none" /\ q.args # "good"
      \/ stage'[c] = "answered" /\ result'[c] = "raised"
      \/ stage'[c] = "feed" /\ result'[c] = "none" /\ Plan[q] = <<>>
      \/ stage'[c] = "data" /\ result'[c] = "none"
  BY <1>1 DEF Begin, Answer, Goto, payload, IInv, RoundInv, TypeOK
<1>5. Plan' = Plan /\ Optional' = Optional
  BY DEF Plan, Optional
<1>6. Need(c)' = Need(c) /\ rows'[c] = {} /\ at'[c] - 1 = 0
  BY <1>1, <1>2, <1>5 DEF Need
<1>7. Plan[q] = <<>> => Need(c) = {}
  BY DEF Need
<1>8. SourceInv(c)'
  BY <1>2, <1>4, <1>6, <1>7 DEF SourceInv, Excused
<1> QED
  BY <1>3, <1>8

LEMMA SourcesStep ==
  ASSUME IInv, \A c \in Round : SourceInv(c), [Next]_roundVars
  PROVE  \A c \in Round : SourceInv(c)'
<1>1. ASSUME NEW c \in Round, Begin(c) PROVE \A b \in Round : SourceInv(b)'
  BY <1>1, BeginKeepsSources
<1>2. ASSUME NEW c \in Round, Select(c) PROVE \A b \in Round : SourceInv(b)'
  BY <1>2, StatementKeepsSources DEF Select
<1>3. ASSUME NEW c \in Round, StaleError(c) PROVE \A b \in Round : SourceInv(b)'
  <2>1. CASE retried[c]
    BY <1>3, <2>1, StatementKeepsSources DEF StaleError
  <2>2. CASE ~retried[c]
    BY <1>3, <2>2, SourcesApart DEF StaleError, payload
  <2> QED
    BY <2>1, <2>2
<1>4. ASSUME NEW c \in Round, FeedAnswers(c) PROVE \A b \in Round : SourceInv(b)'
  <2>1. /\ stage' = [stage EXCEPT ![c] = "answered"] /\ result' = [result EXCEPT ![c] = "ok"]
        /\ UNCHANGED <<question, at, rows>> /\ stage[c] = "feed"
    BY <1>4 DEF FeedAnswers, Answer, Goto
  <2>2. ASSUME NEW b \in Round \ {c} PROVE SourceInv(b)'
    BY <2>1, SourcesApart DEF IInv, RoundInv, TypeOK
  <2>3. Plan' = Plan /\ Optional' = Optional
    BY DEF Plan, Optional
  <2>4. Need(c)' = Need(c) /\ Need(c) \subseteq rows[c]
    BY <2>1, <2>3 DEF Need, SourceInv
  <2>5. SourceInv(c)'
    BY <2>1, <2>4 DEF SourceInv, IInv, RoundInv, TypeOK
  <2> QED
    BY <2>2, <2>5
<1>5. CASE Cancel
  BY <1>5, SourcesApart DEF Cancel, payload
<1>6. CASE (\E c \in Round : Connect(c)) \/ Kill \/ LoadCore \/ LoadT25 \/ Show \/ UNCHANGED roundVars
  <2>1. UNCHANGED <<question, progress, payload>>
    BY <1>6 DEF Connect, Kill, LoadCore, LoadT25, Show, roundVars
  <2> QED
    BY <2>1, SourcesApart DEF progress, payload
<1> QED
  BY <1>1, <1>2, <1>3, <1>4, <1>5, <1>6 DEF Next, Step, Terminated, TimesOut

LEMMA SourcesInit == Init => SourcesInv
BY DEF Init, SourcesInv, SourceInv

----------------------------------------------------------------------------
\* Every connection is free or with one call at a statement, and comes back whatever was
\* killed, retried, timed out or cancelled; rows come from tables that exist.
THEOREM RoundInvariant == Spec => []RoundInv
BY RoundInvariants, PTL DEF IInv

\* A payload holds no row newer than the vintage it states, wherever a load commits.
THEOREM VintageCoversRows == Spec => []NothingBeyondVintage
BY RoundInvariants, PTL DEF IInv, Promises

\* The first dead connection or timeout of a call is never what fails it.
THEOREM FirstFailureHidden == Spec => []OneFailureIsHidden
BY RoundInvariants, PTL DEF IInv, Promises

\* Each call shows what became of the first call to its tool: of itself, if asked once.
THEOREM ChipsAreTrue == Spec => []ChipsTellTheirResult
BY RoundInvariants, PTL DEF IInv, Promises

\* A missing source costs a call what depends on it and nothing more: an answer has all it
\* needs, and an error payload is due to a row it needs, a refusal, or no source at all.
THEOREM SourcesAlone == Spec => []SourcesFailAlone
<1>1. SourcesInv => SourcesFailAlone
  BY DEF SourcesInv, SourceInv, SourcesFailAlone, Need, Excused
<1>2. IInv /\ SourcesInv /\ [Next]_roundVars => SourcesInv'
  BY SourcesStep DEF SourcesInv
<1> QED
  BY <1>1, <1>2, RoundInvariants, SourcesInit, PTL DEF Spec

----------------------------------------------------------------------------
(* How long a round can last, and that it never stands still.               *)

\* The steps left of the statement c is at: two attempts, on a connection each.
Attempts(c) == 4 - (IF retried[c] THEN 2 ELSE 0) - (IF c \in held THEN 1 ELSE 0)

PlanLen(c) == Len(Plan[question[c]])

\* The steps left of c: its statements, then the vintage or the excuse.
CallRank(c) ==
  CASE stage[c] = "called" -> 4 * PlanLen(c) + 5
    [] stage[c] = "data" -> 4 * (PlanLen(c) - at[c]) + 4 + Attempts(c)
    [] stage[c] \in {"vintage", "excuse"} -> Attempts(c)
    [] stage[c] = "feed" -> 1
    [] OTHER -> 0

\* A step of a call uses up some of the round; nothing gives anything back to it.
RoundGoesOn ==
  /\ \A c \in Round : CallRank(c)' <= CallRank(c)
  /\ \A c \in Round : Step(c) \/ TimesOut(c) => CallRank(c)' < CallRank(c)

LEMMA CallRankType ==
  ASSUME RoundInv, CallsInv, NEW c \in Round
  PROVE  /\ Attempts(c) \in 1 .. 4 /\ PlanLen(c) \in Nat
         /\ CallRank(c) \in 0 .. (4 * PlanLen(c) + 5)
         /\ stage[c] = "data" => at[c] \in 1 .. PlanLen(c)
<1>1. Attempts(c) \in 1 .. 4
  BY DEF Attempts
<1>2. PlanLen(c) \in Nat
  BY PlanLength, ToolOfQuestion DEF PlanLen, RoundInv
<1>3. stage[c] = "data" => at[c] \in 1 .. PlanLen(c)
  BY <1>2 DEF RoundInv, TypeOK, CallsInv, CallInv, PlanLen
<1>4. CallRank(c) \in 0 .. (4 * PlanLen(c) + 5)
  <2> DEFINE left == Attempts(c)
             n == PlanLen(c)
  <2>1. CASE stage[c] = "called"
    BY <1>2, <2>1 DEF CallRank
  <2>2. CASE stage[c] = "data"
    <3>1. CallRank(c) = 4 * (n - at[c]) + 4 + left
      BY <2>2 DEF CallRank
    <3>2. left \in 1 .. 4 /\ n \in Nat /\ at[c] \in 1 .. n
      BY <1>1, <1>2, <1>3, <2>2
    <3> HIDE DEF left, n
    <3>3. CallRank(c) \in 0 .. (4 * n + 5)
      BY <3>1, <3>2
    <3> QED
      BY <3>3 DEF n
  <2>3. CASE stage[c] \in {"vintage", "excuse"}
    <3>1. CallRank(c) = left
      BY <2>3 DEF CallRank
    <3> HIDE DEF left
    <3> QED
      BY <1>1, <1>2, <3>1 DEF left
  <2>4. CASE stage[c] \notin {"called", "data", "vintage", "excuse"}
    <3>1. CallRank(c) \in {0, 1}
      BY <2>4 DEF CallRank
    <3> QED
      BY <1>2, <3>1
  <2> QED
    BY <2>1, <2>2, <2>3, <2>4
<1> QED
  BY <1>1, <1>2, <1>3, <1>4

\* A call keeps what is left of it while others move.
LEMMA CallApart ==
  ASSUME NEW c \in Round, stage'[c] = stage[c], at'[c] = at[c], retried'[c] = retried[c],
         question' = question, c \in held' <=> c \in held
  PROVE  CallRank(c)' = CallRank(c)
<1>1. PlanLen(c)' = PlanLen(c)
  BY DEF PlanLen, Plan, Coerce
<1> QED
  BY <1>1 DEF CallRank, Attempts

\* Only c moves, and has less left.
LEMMA OneNearer ==
  ASSUME RoundInv, CallsInv, NEW c \in Round, CallRank(c)' < CallRank(c), CallRank(c)' \in Int,
         question' = question,
         \A b \in Round \ {c} : /\ stage'[b] = stage[b] /\ at'[b] = at[b]
                                /\ retried'[b] = retried[b] /\ (b \in held' <=> b \in held)
  PROVE  \A b \in Round : CallRank(b)' <= CallRank(b)
<1>1. ASSUME NEW b \in Round \ {c} PROVE CallRank(b)' <= CallRank(b)
  <2>1. CallRank(b)' = CallRank(b)
    BY <1>1, CallApart
  <2>2. CallRank(b) \in Nat
    BY CallRankType
  <2> QED
    BY <2>1, <2>2
<1>2. CallRank(c) \in Nat
  BY CallRankType
<1> QED
  BY <1>1, <1>2

\* The end of a statement, with the connection given back.
LEMMA StatementNearer ==
  ASSUME RoundInv, CallsInv, NEW c \in Round, NEW found \in BOOLEAN, stage[c] \in AtWork,
         StatementEnds(c, found), GiveBack(c), question' = question
  PROVE  CallRank(c)' < CallRank(c) /\ CallRank(c)' \in Nat
<1>0. /\ stage \in [Round -> Stages] /\ at \in [Round -> Nat \ {0}]
      /\ retried \in [Round -> BOOLEAN]
  BY DEF RoundInv, TypeOK, Stages
<1>1. c \notin held' /\ PlanLen(c)' = PlanLen(c)
  BY DEF GiveBack, pool, PlanLen, Plan, Coerce
<1>2. /\ Attempts(c) \in 1 .. 4 /\ PlanLen(c) \in Nat
      /\ stage[c] = "data" => at[c] \in 1 .. PlanLen(c)
  BY CallRankType
<1>3. CASE stage[c] = "data"
  <2>1. retried'[c] = FALSE
    BY <1>0, <1>3 DEF StatementEnds, DataEnds
  <2>2. Attempts(c)' = 4
    BY <1>1, <2>1 DEF Attempts
  <2>3. \/ stage'[c] \in {"feed", "vintage", "excuse"}
        \/ stage'[c] = "data" /\ at'[c] = at[c] + 1 /\ at[c] < PlanLen(c)
    BY <1>0, <1>3 DEF StatementEnds, DataEnds, Goto, PlanLen
  <2> DEFINE n == PlanLen(c)
             left == Attempts(c)
  <2>4. CallRank(c) = 4 * (n - at[c]) + 4 + left
    BY <1>3 DEF CallRank
  <2>5. n \in Nat /\ at[c] \in 1 .. n /\ left \in 1 .. 4
    BY <1>2, <1>3
  <2>6. CASE stage'[c] \in {"feed", "vintage", "excuse"}
    <3>1. CallRank(c)' \in {1, 4}
      BY <2>2, <2>6 DEF CallRank
    <3> HIDE DEF n, left
    <3> QED
      BY <2>4, <2>5, <3>1
  <2>7. CASE stage'[c] = "data" /\ at'[c] = at[c] + 1 /\ at[c] < n
    <3>1. CallRank(c)' = 4 * (n - (at[c] + 1)) + 4 + 4
      BY <1>1, <2>2, <2>7 DEF CallRank
    <3> HIDE DEF n, left
    <3> QED
      BY <2>4, <2>5, <2>7, <3>1
  <2> QED
    BY <2>3, <2>6, <2>7
<1>4. CASE stage[c] \in {"vintage", "excuse"}
  <2>1. stage'[c] = "answered"
    BY <1>0, <1>4 DEF StatementEnds, Answer, Goto
  <2>2. CallRank(c)' = 0
    BY <2>1 DEF CallRank
  <2>3. CallRank(c) = Attempts(c)
    BY <1>4 DEF CallRank
  <2> QED
    BY <1>2, <2>2, <2>3
<1> QED
  BY <1>3, <1>4 DEF AtWork

\* What the steps of c leave to the other calls.
OthersStay(c) ==
  /\ question' = question
  /\ \A b \in Round \ {c} : /\ stage'[b] = stage[b] /\ at'[b] = at[b]
                            /\ retried'[b] = retried[b] /\ (b \in held' <=> b \in held)

LEMMA BeginNearer ==
  ASSUME RoundInv, CallsInv, NEW c \in Round, Begin(c)
  PROVE  CallRank(c)' < CallRank(c) /\ CallRank(c)' \in Nat /\ OthersStay(c)
<1>0. /\ stage \in [Round -> Stages] /\ at \in [Round -> Nat \ {0}]
  BY DEF RoundInv, TypeOK, Stages
<1>1. /\ stage[c] = "called" /\ UNCHANGED <<question, at, retried, held>>
      /\ \E to \in {"answered", "excuse", "feed", "data"} :
           /\ Goto(c, to)
           /\ to = "data" => Plan[question[c]] # <<>>
  BY DEF Begin, Answer, Goto, pool
<1>2. PICK to \in {"answered", "excuse", "feed", "data"} :
        /\ Goto(c, to) /\ (to = "data" => Plan[question[c]] # <<>>)
  BY <1>1
<1>3. stage'[c] = to /\ \A b \in Round \ {c} : stage'[b] = stage[b]
  BY <1>0, <1>2 DEF Goto
<1>4. /\ PlanLen(c) \in Nat /\ PlanLen(c)' = PlanLen(c) /\ CallRank(c) = 4 * PlanLen(c) + 5
      /\ Attempts(c) \in 1 .. 4 /\ Attempts(c)' = Attempts(c)
  <2>1. PlanLen(c)' = PlanLen(c) /\ Attempts(c)' = Attempts(c)
    BY <1>1 DEF PlanLen, Plan, Coerce, Attempts
  <2> QED
    BY <1>1, <2>1, CallRankType DEF CallRank
<1>5. CallRank(c)' < CallRank(c) /\ CallRank(c)' \in Nat
  <2>1. CASE to \in {"answered", "feed"}
    <3>1. CallRank(c)' \in {0, 1}
      BY <1>3, <2>1 DEF CallRank
    <3> QED
      BY <1>4, <3>1
  <2>2. CASE to = "excuse"
    <3>1. CallRank(c)' = Attempts(c)
      BY <1>3, <1>4, <2>2 DEF CallRank
    <3> QED
      BY <1>4, <3>1
  <2>3. CASE to = "data"
    <3>1. at'[c] = 1 /\ PlanLen(c) >= 1
      BY <1>1, <1>2, <2>3, PlanLength, ToolOfQuestion
         DEF CallsInv, CallInv, RoundInv, PlanLen
    <3> DEFINE n == PlanLen(c)
               left == Attempts(c)
    <3>2. CallRank(c)' = 4 * (n - 1) + 4 + left
      BY <1>3, <1>4, <2>3, <3>1 DEF CallRank
    <3>3. n \in Nat /\ n >= 1 /\ left \in 1 .. 4 /\ CallRank(c) = 4 * n + 5
      BY <1>4, <3>1
    <3> HIDE DEF n, left
    <3> QED
      BY <3>2, <3>3
  <2> QED
    BY <2>1, <2>2, <2>3
<1> QED
  BY <1>1, <1>3, <1>5 DEF OthersStay

LEMMA ConnectNearer ==
  ASSUME RoundInv, CallsInv, NEW c \in Round, Connect(c)
  PROVE  CallRank(c)' < CallRank(c) /\ CallRank(c)' \in Nat /\ OthersStay(c)
<1>1. /\ stage[c] \in AtWork /\ c \notin held /\ held' = held \union {c}
      /\ UNCHANGED <<question, stage, at, retried>>
  BY DEF Connect, progress
<1>2. PlanLen(c)' = PlanLen(c) /\ Attempts(c) \in {2, 4} /\ Attempts(c)' = Attempts(c) - 1
  BY <1>1 DEF PlanLen, Plan, Coerce, Attempts
<1>3. PlanLen(c) \in Nat /\ (stage[c] = "data" => at[c] \in 1 .. PlanLen(c))
  BY CallRankType
<1>4. CASE stage[c] = "data"
  <2> DEFINE n == PlanLen(c)
             left == Attempts(c)
  <2>1. /\ CallRank(c) = 4 * (n - at[c]) + 4 + left
        /\ CallRank(c)' = 4 * (n - at[c]) + 4 + (left - 1)
    BY <1>1, <1>2, <1>4 DEF CallRank
  <2>2. n \in Nat /\ at[c] \in 1 .. n /\ left \in {2, 4}
    BY <1>2, <1>3, <1>4
  <2> HIDE DEF n, left
  <2>3. CallRank(c)' < CallRank(c) /\ CallRank(c)' \in Nat
    BY <2>1, <2>2
  <2> QED
    BY <1>1, <2>3 DEF OthersStay
<1>5. CASE stage[c] \in {"vintage", "excuse"}
  <2>1. CallRank(c) = Attempts(c) /\ CallRank(c)' = Attempts(c) - 1
    BY <1>1, <1>2, <1>5 DEF CallRank
  <2>2. CallRank(c)' < CallRank(c) /\ CallRank(c)' \in Nat
    BY <1>2, <2>1
  <2> QED
    BY <1>1, <2>2 DEF OthersStay
<1> QED
  BY <1>1, <1>4, <1>5 DEF AtWork

\* A statement is over, one way or the other.
LEMMA StatementStep ==
  ASSUME RoundInv, CallsInv, NEW c \in Round, NEW found \in BOOLEAN, stage[c] \in AtWork,
         StatementEnds(c, found), GiveBack(c), UNCHANGED <<tables, question>>
  PROVE  CallRank(c)' < CallRank(c) /\ CallRank(c)' \in Nat /\ OthersStay(c)
<1>1. CallRank(c)' < CallRank(c) /\ CallRank(c)' \in Nat
  BY StatementNearer
<1>2. /\ retried' = retried \/ retried' = [retried EXCEPT ![c] = FALSE]
      /\ \A b \in Round \ {c} : stage'[b] = stage[b] /\ at'[b] = at[b]
  BY StatementTypes
<1>3. \A b \in Round \ {c} : retried'[b] = retried[b]
  BY <1>2 DEF RoundInv, TypeOK
<1>4. \A b \in Round \ {c} : b \in held' <=> b \in held
  BY DEF GiveBack, pool
<1> QED
  BY <1>1, <1>2, <1>3, <1>4 DEF OthersStay

\* The first dead connection or timeout of a statement costs an attempt, the second ends it.
LEMMA StaleNearer ==
  ASSUME RoundInv, CallsInv, NEW c \in Round, stage[c] \in AtWork, StaleError(c)
  PROVE  CallRank(c)' < CallRank(c) /\ CallRank(c)' \in Nat /\ OthersStay(c)
<1>1. GiveBack(c) /\ UNCHANGED <<tables, question>>
  BY DEF StaleError
<1>2. CASE retried[c]
  BY <1>1, <1>2, StatementStep DEF StaleError
<1>3. CASE ~retried[c]
  <2>1. retried' = [retried EXCEPT ![c] = TRUE] /\ UNCHANGED <<stage, at>>
    BY <1>3 DEF StaleError
  <2>2. /\ retried'[c] = TRUE /\ \A b \in Round \ {c} : retried'[b] = retried[b]
        /\ c \notin held' /\ \A b \in Round \ {c} : b \in held' <=> b \in held
    BY <1>1, <2>1 DEF RoundInv, TypeOK, GiveBack, pool
  <2>3. Attempts(c) \in {3, 4} /\ Attempts(c)' = 2 /\ PlanLen(c)' = PlanLen(c)
    BY <1>1, <1>3, <2>2 DEF Attempts, PlanLen, Plan, Coerce
  <2>4. PlanLen(c) \in Nat /\ (stage[c] = "data" => at[c] \in 1 .. PlanLen(c))
    BY CallRankType
  <2>5. CASE stage[c] = "data"
    <3> DEFINE n == PlanLen(c)
               left == Attempts(c)
    <3>1. /\ CallRank(c) = 4 * (n - at[c]) + 4 + left
          /\ CallRank(c)' = 4 * (n - at[c]) + 4 + 2
      BY <2>1, <2>3, <2>5 DEF CallRank
    <3>2. n \in Nat /\ at[c] \in 1 .. n /\ left \in {3, 4}
      BY <2>3, <2>4, <2>5
    <3> HIDE DEF n, left
    <3>3. CallRank(c)' < CallRank(c) /\ CallRank(c)' \in Nat
      BY <3>1, <3>2
    <3> QED
      BY <1>1, <2>1, <2>2, <3>3 DEF OthersStay
  <2>6. CASE stage[c] \in {"vintage", "excuse"}
    <3>1. CallRank(c) = Attempts(c) /\ CallRank(c)' = 2
      BY <2>1, <2>3, <2>6 DEF CallRank
    <3>2. CallRank(c)' < CallRank(c) /\ CallRank(c)' \in Nat
      BY <2>3, <3>1
    <3> QED
      BY <1>1, <2>1, <2>2, <3>2 DEF OthersStay
  <2> QED
    BY <2>5, <2>6 DEF AtWork
<1> QED
  BY <1>2, <1>3

LEMMA CallNearer ==
  ASSUME RoundInv, CallsInv, NEW c \in Round, Step(c) \/ TimesOut(c)
  PROVE  CallRank(c)' < CallRank(c) /\ CallRank(c)' \in Nat /\ OthersStay(c)
<1>1. CASE Select(c)
  <2>1. /\ stage[c] \in AtWork /\ GiveBack(c) /\ UNCHANGED <<tables, question>>
        /\ \E found \in BOOLEAN : StatementEnds(c, found)
    BY <1>1 DEF Select
  <2> QED
    BY <2>1, StatementStep
<1>2. CASE Terminated(c)
  <2>1. c \in held /\ stage[c] \in AtWork
    BY <1>2 DEF Terminated, RoundInv, TypeOK, PoolIsWhole
  <2> QED
    BY <1>2, <2>1, StaleNearer DEF Terminated
<1>3. CASE TimesOut(c)
  BY <1>3, StaleNearer DEF TimesOut
<1>4. CASE FeedAnswers(c)
  <2>1. /\ stage[c] = "feed" /\ Goto(c, "answered") /\ UNCHANGED <<question, at, retried, held>>
    BY <1>4 DEF FeedAnswers, Answer, pool
  <2>2. stage'[c] = "answered" /\ \A b \in Round \ {c} : stage'[b] = stage[b]
    BY <2>1 DEF Goto, RoundInv, TypeOK
  <2>3. CallRank(c) = 1 /\ CallRank(c)' = 0
    BY <2>1, <2>2 DEF CallRank
  <2> QED
    BY <2>1, <2>2, <2>3 DEF OthersStay
<1> QED
  BY <1>1, <1>2, <1>3, <1>4, BeginNearer, ConnectNearer DEF Step

LEMMA CancelNearer ==
  ASSUME RoundInv, CallsInv, Cancel, NEW c \in Round
  PROVE  CallRank(c)' <= CallRank(c)
<1>1. stage'[c] = "cancelled"
  BY DEF Cancel
<1>2. CallRank(c)' = 0
  BY <1>1 DEF CallRank
<1>3. CallRank(c) \in Nat
  BY CallRankType
<1> QED
  BY <1>2, <1>3

LEMMA RoundGoesOnStep ==
  ASSUME RoundInv, CallsInv, [Next]_roundVars
  PROVE  \A c \in Round : CallRank(c)' <= CallRank(c)
<1>1. ASSUME NEW c \in Round, Step(c) \/ TimesOut(c)
      PROVE  \A b \in Round : CallRank(b)' <= CallRank(b)
  <2>1. CallRank(c)' < CallRank(c) /\ CallRank(c)' \in Nat /\ OthersStay(c)
    BY <1>1, CallNearer
  <2> QED
    BY <2>1, OneNearer DEF OthersStay
<1>2. ASSUME UNCHANGED <<question, progress, held>>, NEW c \in Round
      PROVE  CallRank(c)' <= CallRank(c)
  <2>1. CallRank(c)' = CallRank(c)
    BY <1>2, CallApart DEF progress
  <2> QED
    BY <2>1, CallRankType
<1>3. CASE Kill \/ LoadCore \/ LoadT25 \/ Show \/ UNCHANGED roundVars
  BY <1>2, <1>3 DEF Kill, LoadCore, LoadT25, Show, roundVars, pool
<1> QED
  BY <1>1, <1>3, CancelNearer DEF Next

\* Every step of a call, and every timeout of one, uses up some of the at most
\* 4 * Len(plan) + 5 steps it has; loads, kills and the steps of other calls give none of
\* them back. A call cannot be kept busy for ever by retries.
THEOREM CallsRunOut ==
  Spec => /\ [](\A c \in Round : CallRank(c) \in 0 .. (4 * PlanLen(c) + 5))
          /\ [][RoundGoesOn]_roundVars
<1>1. IInv => \A c \in Round : CallRank(c) \in 0 .. (4 * PlanLen(c) + 5)
  BY CallRankType DEF IInv
<1>2. IInv /\ [Next]_roundVars => [RoundGoesOn]_roundVars
  <2> SUFFICES ASSUME IInv, [Next]_roundVars PROVE RoundGoesOn
    OBVIOUS
  <2>1. \A c \in Round : Step(c) \/ TimesOut(c) => CallRank(c)' < CallRank(c)
    BY CallNearer DEF IInv
  <2> QED
    BY <2>1, RoundGoesOnStep DEF IInv, RoundGoesOn
<1> QED
  BY <1>1, <1>2, RoundInvariants, PTL DEF Spec

\* Of some calls, one comes first.
LEMMA FirstOfThem ==
  ASSUME NEW S \in SUBSET Nat, S # {}
  PROVE  \E b \in S : \A d \in S : b <= d
<1> DEFINE Less == OpToRel(<, Nat)
<1>1. \A a, b \in Nat : a < b => <<a, b>> \in Less
  BY DEF OpToRel
<1>2. IsWellFoundedOn(Less, Nat)
  BY NatLessThanWellFounded, Zenon
<1> HIDE DEF Less
<1>3. PICK b \in S : \A d \in S : ~(<<d, b>> \in Less)
  BY <1>2, WFMin
<1>4. \A d \in S : ~(d < b)
  BY <1>1, <1>3
<1> QED
  BY <1>4

\* What a step of c waits for (the guards of Step): its turn to start, or a connection.
CanStep(c) ==
  \/ stage[c] = "called" /\ \A b \in 1 .. (c - 1) : stage[b] # "called"
  \/ stage[c] = "feed"
  \/ stage[c] \in AtWork /\ (c \in held \/ free > 0)

NoStandstill ==
  (\E c \in Round : stage[c] \notin {"answered", "cancelled"}) => \E c \in Round : CanStep(c)

\* Never does every open call of the round wait for another one: when no connection is
\* free, the calls that hold one are at a statement and wait for nobody.
THEOREM NeverStandsStill == Spec => []NoStandstill
<1>1. IInv => NoStandstill
  <2> SUFFICES ASSUME IInv, NEW c \in Round, stage[c] \notin {"answered", "cancelled"}
               PROVE  \E b \in Round : CanStep(b)
    BY DEF NoStandstill
  <2>0. Round \subseteq Nat /\ stage[c] \in AtWork \union {"called", "feed"}
    BY RoundAssumptions DEF IInv, RoundInv, TypeOK, Round
  <2>1. CASE stage[c] = "feed"
    BY <2>1 DEF CanStep
  <2>2. CASE stage[c] = "called"
    <3> DEFINE late == {b \in Round : stage[b] = "called"}
    <3>1. late \subseteq Nat /\ late # {}
      BY <2>0, <2>2
    <3> HIDE DEF late
    <3>2. PICK b \in late : \A d \in late : b <= d
      BY <3>1, FirstOfThem
    <3> USE DEF late
    <3>3. \A d \in 1 .. (b - 1) : d \in Round /\ d < b
      BY <3>2, RoundAssumptions DEF Round
    <3>4. \A d \in 1 .. (b - 1) : stage[d] # "called"
      <4>1. SUFFICES ASSUME NEW d \in 1 .. (b - 1), stage[d] = "called" PROVE FALSE
        OBVIOUS
      <4>2. d \in late /\ d < b /\ d \in Nat /\ b \in Nat
        BY <2>0, <3>3, <4>1
      <4> QED
        BY <3>2, <4>2
    <3> QED
      BY <3>2, <3>4 DEF CanStep
  <2>3. CASE stage[c] \in AtWork
    <3>1. CASE free > 0
      BY <2>3, <3>1 DEF CanStep
    <3>2. CASE ~(free > 0)
      <4>1. free = 0 /\ held # {}
        BY <3>2, RoundAssumptions, FS_EmptySet DEF IInv, RoundInv, TypeOK, PoolIsWhole
      <4>2. PICK b \in held : TRUE
        BY <4>1
      <4>3. b \in Round /\ stage[b] \in AtWork
        BY <4>2 DEF IInv, RoundInv, TypeOK, PoolIsWhole
      <4> QED
        BY <4>2, <4>3 DEF CanStep
    <3> QED
      BY <3>1, <3>2
  <2> QED
    BY <2>0, <2>1, <2>2, <2>3
<1> QED
  BY <1>1, RoundInvariants, PTL
============================================================================
