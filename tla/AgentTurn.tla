----------------------------- MODULE AgentTurn -----------------------------
(***************************************************************************)
(* The turns of one conversation thread: POST /chat with stream=true       *)
(* (services/agent/main.py: chat, _events, _graph_events), the agent graph *)
(* it drives (services/agent/graph.py), the checkpoint of the thread and   *)
(* the query-log row of each turn. Turns may overlap: two tabs, or a chip  *)
(* clicked while an answer still streams.                                  *)
(*                                                                         *)
(* LangGraph and its Postgres saver are external: a run loads the thread's *)
(* checkpoint once, and each of its steps replaces it by the run's own     *)
(* message list. A message is its kind and its turn; one tool_call stands  *)
(* for the calls of a round, one token for the tokens of a reply.          *)
(***************************************************************************)
EXTENDS Integers, FiniteSets, SequencesExt

CONSTANTS
  Turns,       \* the questions asked on the thread
  MaxRounds,   \* settings.max_tool_iterations
  MaxTroubles  \* bound: failures, timeouts, disconnects, restarts

ASSUME TurnAssumptions ==
  /\ MaxRounds \in Nat \ {0}
  /\ MaxTroubles \in Nat

VARIABLES
  thread,      \* the checkpoint: the messages the thread remembers
  stage,       \* stage[r]: what turn r does next, once its outbox is empty
  mine,        \* mine[r]: the messages the graph run of r works on
  steps,       \* steps[r]: graph steps r has taken
  outbox,      \* outbox[r]: events yielded and not yet handed to the client
  wire,        \* wire[r]: the events the client has received
  failure,     \* failure[r]: why r failed ("none": it has not)
  row,         \* row[r]: the error column of r's row in `queries` ("none": no row)
  overlapped,  \* history - overlapped[r]: another turn of the thread ran together with r
  troubles     \* troubles so far

run == <<mine, steps>>
turnVars == <<thread, stage, run, outbox, wire, failure, row, overlapped, troubles>>

Stages == {"new", "opened", "agent", "tools", "finish", "record", "closed"}
Kinds == {"human", "calls", "results", "prose"}
Events == {"start", "token", "tool_call", "tool_result", "assumptions", "done", "error"}
Message(kind, r) == [kind |-> kind, turn |-> r]
InGraph == {"agent", "tools"}

\* Mutant: the live outage graph.py describes, tool rounds of the whole thread.
RoundsOfThread(msgs) == Cardinality({i \in DOMAIN msgs : msgs[i].kind = "calls"})

\* _tool_rounds: walking backwards, stop at the newest human message.
ToolRounds(msgs) ==
  Cardinality({i \in DOMAIN msgs :
    msgs[i].kind = "calls" /\ \A j \in i .. Len(msgs) : msgs[j].kind # "human"})

Capped(msgs) == ToolRounds(msgs) >= MaxRounds

\* Mutant: no room for the final answer.
RecursionLimitTight == MaxRounds * 2

RecursionLimit == MaxRounds * 2 + 4

\* Mutant: the cap ends the run instead of forcing an answer.
RouteCapEnds(msgs) == IF Last(msgs).kind = "calls" /\ ~Capped(msgs) THEN "tools" ELSE "finish"

Route(msgs) == IF Last(msgs).kind = "calls" THEN "tools" ELSE "finish"

Init ==
  /\ thread = <<>>
  /\ stage = [r \in Turns |-> "new"]
  /\ mine = [r \in Turns |-> <<>>]
  /\ steps = [r \in Turns |-> 0]
  /\ outbox = [r \in Turns |-> <<>>]
  /\ wire = [r \in Turns |-> <<>>]
  /\ failure = [r \in Turns |-> "none"]
  /\ row = [r \in Turns |-> "none"]
  /\ overlapped = [r \in Turns |-> FALSE]
  /\ troubles = 0

----------------------------------------------------------------------------
Goto(r, next) == stage' = [stage EXCEPT ![r] = next]
Yield(r, events) == outbox' = [outbox EXCEPT ![r] = events]

\* Stage `at` of turn r is reached and everything yielded before has been sent.
Ready(r, at) == stage[r] = at /\ outbox[r] = <<>>

\* The consumer of the generators takes the next event and sends it.
Send(r) ==
  /\ outbox[r] # <<>>
  /\ wire' = [wire EXCEPT ![r] = Append(@, Head(outbox[r]))]
  /\ Yield(r, Tail(outbox[r]))
  /\ UNCHANGED <<thread, stage, run, failure, row, overlapped, troubles>>

\* chat and _events up to their first yield.
Open(r) ==
  /\ stage[r] = "new"
  /\ Goto(r, "opened")
  /\ Yield(r, <<"start">>)
  /\ UNCHANGED <<thread, run, wire, failure, row, overlapped, troubles>>

\* History: r and the turns whose graph is at work now run together.
MarkOverlap(r) ==
  LET others == {q \in Turns \ {r} : stage[q] \in InGraph}
  IN overlapped' = [q \in Turns |-> overlapped[q] \/ q \in others \/ (q = r /\ others # {})]

\* Mutant: the run starts from the question alone.
LoadNothing(r) ==
  /\ Ready(r, "opened")
  /\ mine' = [mine EXCEPT ![r] = <<Message("human", r)>>]
  /\ thread' = mine'[r]
  /\ Goto(r, "agent")
  /\ MarkOverlap(r)
  /\ UNCHANGED <<steps, outbox, wire, failure, row, troubles>>

\* The run loads the thread, adds the question and writes its first checkpoint.
Load(r) ==
  /\ Ready(r, "opened")
  /\ mine' = [mine EXCEPT ![r] = Append(thread, Message("human", r))]
  /\ thread' = mine'[r]
  /\ Goto(r, "agent")
  /\ MarkOverlap(r)
  /\ UNCHANGED <<steps, outbox, wire, failure, row, troubles>>

\* A graph step of r ends with a message of this kind and is checkpointed. At the limit
\* LangGraph raises instead of taking a step; here the turn just goes no further, and
\* HealthyTurnsAnswer says that no turn gets there.
GraphStep(r, kind) ==
  /\ steps[r] < RecursionLimit
  /\ steps' = [steps EXCEPT ![r] = @ + 1]
  /\ mine' = [mine EXCEPT ![r] = Append(@, Message(kind, r))]
  /\ thread' = mine'[r]

\* agent_node while the model streams.
Token(r) ==
  /\ Ready(r, "agent") /\ Last(wire[r]) # "token"
  /\ Yield(r, <<"token">>)
  /\ UNCHANGED <<thread, stage, run, wire, failure, row, overlapped, troubles>>

\* agent_node returns: tool calls, which a capped model is not given, or an answer.
AgentStep(r) ==
  /\ Ready(r, "agent")
  /\ \/ ~Capped(mine[r]) /\ GraphStep(r, "calls") /\ Yield(r, <<"tool_call">>)
     \/ GraphStep(r, "prose") /\ UNCHANGED outbox
  /\ Goto(r, Route(mine'[r]))
  /\ UNCHANGED <<wire, failure, row, overlapped, troubles>>

\* tools_node: every call is answered, a failing tool by an error result.
ToolsStep(r) ==
  /\ Ready(r, "tools")
  /\ GraphStep(r, "results")
  /\ Yield(r, <<"tool_result">>)
  /\ Goto(r, "agent")
  /\ UNCHANGED <<wire, failure, row, overlapped, troubles>>

\* The stream of the graph is exhausted: assumptions, if a tool reported any, and done.
Finish(r) ==
  /\ Ready(r, "finish")
  /\ \/ Yield(r, <<"done">>)
     \/ Contains(wire[r], "tool_result") /\ Yield(r, <<"assumptions", "done">>)
  /\ Goto(r, "record")
  /\ UNCHANGED <<thread, run, wire, failure, row, overlapped, troubles>>

Trouble == troubles < MaxTroubles /\ troubles' = troubles + 1

\* Mutant: a failure inside the graph falls through to the answer.
FailFallsThrough(r) ==
  /\ stage[r] \in {"opened", "agent", "tools"} /\ outbox[r] = <<>>
  /\ Trouble
  /\ Goto(r, "finish")
  /\ UNCHANGED <<thread, run, outbox, wire, failure, row, overlapped>>

\* The model or the checkpointer fails, or request_timeout_seconds is over, while the
\* graph is at work. Finished steps stay checkpointed, the interrupted one does not.
Fail(r) ==
  /\ stage[r] \in {"opened", "agent", "tools"} /\ outbox[r] = <<>>
  /\ Trouble
  /\ failure' = [failure EXCEPT ![r] = "graph"]
  /\ Goto(r, "record")
  /\ UNCHANGED <<thread, run, outbox, wire, row, overlapped>>

\* Mutant: the row is written without looking at the failure.
RecordSuccess(r) ==
  /\ Ready(r, "record")
  /\ Goto(r, "closed")
  /\ Yield(r, IF failure[r] = "graph" THEN <<"error">> ELSE <<>>)
  /\ row' = [row EXCEPT ![r] = "null"]
  /\ UNCHANGED <<thread, run, wire, failure, overlapped, troubles>>

\* _events' finally writes the row (query_log.record swallows its own failure), then
\* gen turns the exception, if there was one, into the error event. After a disconnect
\* the write may be cancelled like everything else.
Record(r) ==
  /\ Ready(r, "record")
  /\ Goto(r, "closed")
  /\ Yield(r, IF failure[r] = "graph" THEN <<"error">> ELSE <<>>)
  /\ \/ /\ row' = [row EXCEPT ![r] = IF failure[r] = "none" THEN "null" ELSE "error"]
        /\ UNCHANGED troubles
     \/ /\ IF failure[r] = "cut" THEN UNCHANGED troubles ELSE Trouble
        /\ UNCHANGED row
  /\ UNCHANGED <<thread, run, wire, failure, overlapped>>

\* The client disconnects, or the request timeout cancels the task while it is sending:
\* nothing more is sent. `start` is yielded outside the try that leads to the row, and a
\* row being written when the client goes is lost.
Cut(r) ==
  /\ stage[r] \notin {"new", "closed"} \/ outbox[r] # <<>>
  /\ Trouble
  /\ Yield(r, <<>>)
  /\ IF stage[r] = "closed" \/ Ready(r, "record")
     THEN Goto(r, "closed") /\ UNCHANGED failure
     ELSE /\ failure' = [failure EXCEPT ![r] = "cut"]
          /\ Goto(r, IF stage[r] = "opened" /\ outbox[r] # <<>> THEN "closed" ELSE "record")
  /\ UNCHANGED <<thread, run, wire, row, overlapped>>

\* The instance is stopped with every turn it serves; the checkpoint is in Postgres.
Restart ==
  /\ Trouble
  /\ LET lost == {r \in Turns : stage[r] \notin {"new", "closed"} \/ outbox[r] # <<>>}
     IN /\ lost # {}
        /\ stage' = [r \in Turns |-> IF r \in lost THEN "closed" ELSE stage[r]]
        /\ outbox' = [r \in Turns |-> <<>>]
        /\ failure' = [r \in Turns |-> IF r \in lost THEN "killed" ELSE failure[r]]
  /\ UNCHANGED <<thread, run, wire, row, overlapped>>

Step(r) ==
  \/ Send(r) \/ Open(r) \/ Load(r) \/ Token(r) \/ AgentStep(r) \/ ToolsStep(r)
  \/ Finish(r) \/ Record(r)

Next ==
  \/ \E r \in Turns : Step(r) \/ Fail(r) \/ Cut(r)
  \/ Restart

Spec == Init /\ [][Next]_turnVars

\* The event loop keeps running every request; model and tool calls end (their timeouts).
FairSpec == Spec /\ \A r \in Turns : WF_turnVars(Step(r))

----------------------------------------------------------------------------
TypeOK ==
  /\ thread \in Seq([kind : Kinds, turn : Turns])
  /\ stage \in [Turns -> Stages]
  /\ mine \in [Turns -> Seq([kind : Kinds, turn : Turns])]
  /\ steps \in [Turns -> 0 .. (2 * MaxRounds + 1)]
  /\ outbox \in [Turns -> Seq(Events)]
  /\ wire \in [Turns -> Seq(Events)]
  /\ failure \in [Turns -> {"none", "graph", "cut", "killed"}]
  /\ row \in [Turns -> {"none", "null", "error"}]
  /\ overlapped \in [Turns -> BOOLEAN]
  /\ troubles \in 0 .. MaxTroubles

Count(event, events) == Cardinality({i \in DOMAIN events : events[i] = event})

\* The wire format README.md promises ("SSE event types, in order"): start comes first,
\* no result before its call, assumptions only ahead of done, nothing after done or
\* error, and no done while a tool call on the wire has no result.
StreamGrammar ==
  \A r \in Turns :
    LET w == wire[r] IN
    /\ \A i \in DOMAIN w :
         /\ w[i] = "start" <=> i = 1
         /\ w[i] \in {"done", "error"} => i = Len(w)
         /\ w[i] = "assumptions" /\ i < Len(w) => w[i + 1] = "done"
         /\ LET sent == SubSeq(w, 1, i) IN
              Count("tool_call", sent) - Count("tool_result", sent) \in 0 .. 1
    /\ Contains(w, "done") => Count("tool_call", w) = Count("tool_result", w)

\* The audit row and the stream agree (_events' except and finally): a row without an
\* error means the client was handed `done`, and a client told `error` has no such row.
RowAgreesWithStream ==
  \A r \in Turns :
    /\ row[r] = "null" => Contains(wire[r], "done")
    /\ Contains(wire[r], "error") => row[r] # "null"

\* The tool cap is per turn, whatever the thread has been through: a turn is capped only
\* after MaxRounds rounds of its own (_tool_rounds' docstring: the live outage).
CapIsPerTurn ==
  \A r \in Turns : stage[r] = "agent" =>
    (Capped(mine[r]) <=>
       Cardinality({i \in DOMAIN mine[r] : mine[r][i] = Message("calls", r)}) = MaxRounds)

\* A thread whose turns never overlapped only grows: no question, answer or tool result
\* is lost by a later turn, a failure or a restart.
HistoryGrows ==
  [][(\A r \in Turns : ~overlapped'[r]) => IsPrefix(thread, thread')]_turnVars

\* A tool call stays unanswered in the checkpoint (history a model provider rejects)
\* only while its turn is at its tools, or when that turn failed or overlapped.
DanglingCallsHaveACause ==
  \A i \in DOMAIN thread :
    LET r == thread[i].turn IN
    /\ thread[i].kind = "calls"
    /\ i = Len(thread) \/ thread[i + 1] # Message("results", r)
    => \/ i = Len(thread) /\ stage[r] = "tools"
       \/ failure[r] # "none" \/ overlapped[r]

\* What the client is told is done is in the thread for the next turn to build on,
\* unless a turn that ran together with this one wrote its own history over it.
DoneIsRemembered ==
  \A r \in Turns : Contains(wire[r], "done") /\ ~overlapped[r] =>
    \E i \in DOMAIN thread : thread[i] = Message("prose", r)

\* Every turn the model, the database and the client do not break ends in `done`: the cap
\* forces an answer before the recursion limit, where a turn would go no further.
HealthyTurnsAnswer ==
  \A r \in Turns : stage[r] = "opened" ~>
    Contains(wire[r], "done") \/ failure[r] \in {"graph", "cut", "killed"}
============================================================================
