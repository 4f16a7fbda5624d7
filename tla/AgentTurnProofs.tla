-------------------------- MODULE AgentTurnProofs --------------------------
(***************************************************************************)
(* Theorems about AgentTurn for any number of turns, tool rounds and       *)
(* troubles: what the audit row, the client and the thread say of a turn.  *)
(***************************************************************************)
EXTENDS AgentTurn, FiniteSetTheorems, SequenceTheorems, TLAPS

Msg == [kind : Kinds, turn : Turns]

\* What the proofs need of the types; TypeOK's bound on steps is CapIsPerTurn's matter.
ShapeInv ==
  /\ thread \in Seq(Msg) /\ mine \in [Turns -> Seq(Msg)]
  /\ stage \in [Turns -> Stages]
  /\ outbox \in [Turns -> Seq(Events)] /\ wire \in [Turns -> Seq(Events)]
  /\ failure \in [Turns -> {"none", "graph", "cut", "killed"}]
  /\ row \in [Turns -> {"none", "null", "error"}]
  /\ overlapped \in [Turns -> BOOLEAN]

\* The client has been handed event e of turn r, or is about to be.
Told(r, e) == Contains(wire[r], e) \/ Contains(outbox[r], e)

\* The row comes last: a turn whose row is still to come has `done` on its way unless it
\* failed, and `error` is told only once the row has been decided.
RowInv ==
  \A r \in Turns :
    /\ row[r] # "none" => stage[r] = "closed"
    /\ row[r] = "null" => Contains(wire[r], "done")
    /\ Told(r, "error") => stage[r] = "closed" /\ row[r] # "null"
    /\ stage[r] = "record" /\ failure[r] = "none" => Told(r, "done")

\* Turns whose graphs run together know it.
Alone ==
  \A r, q \in Turns : r # q /\ stage[r] \in InGraph /\ stage[q] \in InGraph => overlapped[r]

\* Without an overlap, the run at work has the thread in its hands.
InStep ==
  (\A q \in Turns : ~overlapped[q]) => \A r \in Turns : stage[r] \in InGraph => mine[r] = thread

Holds(msgs, r) == \E i \in DOMAIN msgs : msgs[i] = Message("prose", r)

\* An answer that no other run overlapped is in the thread, and in the copy of every run
\* that may still overwrite the thread.
Remembered ==
  \A r \in Turns : ~overlapped[r] /\ (stage[r] = "finish" \/ Told(r, "done")) =>
    Holds(thread, r) /\ \A q \in Turns : stage[q] \in InGraph => Holds(mine[q], r)

TurnInv == ShapeInv /\ RowInv /\ Alone /\ InStep /\ Remembered

----------------------------------------------------------------------------
(* Sequences of events and messages.                                        *)

LEMMA AppendFacts ==
  ASSUME NEW S, NEW s \in Seq(S), NEW x \in S
  PROVE  /\ Append(s, x) \in Seq(S) /\ DOMAIN Append(s, x) = 1 .. (Len(s) + 1)
         /\ Len(s) \in Nat /\ DOMAIN s = 1 .. Len(s)
         /\ \A i \in DOMAIN s : Append(s, x)[i] = s[i]
         /\ Append(s, x)[Len(s) + 1] = x
OBVIOUS

LEMMA ContainsAppend ==
  ASSUME NEW S, NEW s \in Seq(S), NEW x \in S, NEW e
  PROVE  Contains(Append(s, x), e) <=> Contains(s, e) \/ x = e
BY DEF Contains

LEMMA ContainsHeadTail ==
  ASSUME NEW S, NEW s \in Seq(S), s # <<>>, NEW e
  PROVE  /\ Head(s) \in S /\ Tail(s) \in Seq(S)
         /\ Contains(s, e) <=> Head(s) = e \/ Contains(Tail(s), e)
<1>1. Head(s) \in S /\ Tail(s) \in Seq(S) /\ Len(s) \in Nat \ {0} /\ Len(Tail(s)) = Len(s) - 1
  OBVIOUS
<1>2. Head(s) = s[1] /\ \A i \in 1 .. Len(Tail(s)) : Tail(s)[i] = s[i + 1]
  OBVIOUS
<1>3. ASSUME Contains(s, e) PROVE Head(s) = e \/ Contains(Tail(s), e)
  <2>1. PICK i \in 1 .. Len(s) : s[i] = e
    BY <1>3 DEF Contains
  <2>2. CASE i = 1
    BY <1>2, <2>1, <2>2
  <2>3. CASE i # 1
    <3>1. i - 1 \in 1 .. Len(Tail(s)) /\ Tail(s)[i - 1] = e
      BY <1>1, <1>2, <2>1, <2>3
    <3> QED
      BY <3>1 DEF Contains
  <2> QED
    BY <2>2, <2>3
<1>4. ASSUME Head(s) = e \/ Contains(Tail(s), e) PROVE Contains(s, e)
  <2>1. CASE Head(s) = e
    BY <1>1, <1>2, <2>1 DEF Contains
  <2>2. CASE Contains(Tail(s), e)
    <3>1. PICK i \in 1 .. Len(Tail(s)) : Tail(s)[i] = e
      BY <2>2 DEF Contains
    <3>2. i + 1 \in 1 .. Len(s) /\ s[i + 1] = e
      BY <1>1, <1>2, <3>1
    <3> QED
      BY <3>2 DEF Contains
  <2> QED
    BY <1>4, <2>1, <2>2
<1> QED
  BY <1>1, <1>3, <1>4

\* Messages at the end of a list leave what it holds, and make it a prefix.
LEMMA HoldsAppend ==
  ASSUME NEW msgs \in Seq(Msg), NEW m \in Msg, NEW r
  PROVE  /\ Append(msgs, m) \in Seq(Msg) /\ IsPrefix(msgs, Append(msgs, m))
         /\ Holds(msgs, r) => Holds(Append(msgs, m), r)
         /\ m = Message("prose", r) => Holds(Append(msgs, m), r)
         /\ Last(Append(msgs, m)) = m
<1>1. /\ Append(msgs, m) \in Seq(Msg) /\ DOMAIN Append(msgs, m) = 1 .. (Len(msgs) + 1)
      /\ Len(msgs) \in Nat /\ DOMAIN msgs = 1 .. Len(msgs)
      /\ \A i \in DOMAIN msgs : Append(msgs, m)[i] = msgs[i]
      /\ Append(msgs, m)[Len(msgs) + 1] = m
  BY AppendFacts
<1>2. Len(Append(msgs, m)) = Len(msgs) + 1
  OBVIOUS
<1>3. IsPrefix(msgs, Append(msgs, m))
  BY <1>1, <1>2 DEF IsPrefix
<1> QED
  BY <1>1, <1>2, <1>3 DEF Holds, Last

LEMMA PrefixOfItself ==
  ASSUME NEW msgs \in Seq(Msg)
  PROVE  IsPrefix(msgs, msgs)
BY DEF IsPrefix

LEMMA MessageType ==
  ASSUME NEW kind \in Kinds, NEW r \in Turns
  PROVE  Message(kind, r) \in Msg /\ Message(kind, r).kind = kind
BY DEF Message, Msg

----------------------------------------------------------------------------
(* Steps that leave the thread to itself.                                   *)

\* Nobody starts a run, and `done` is told of no turn that was not at its end before.
LEMMA GraphApart ==
  ASSUME TurnInv, UNCHANGED <<thread, mine, overlapped>>,
         \A r \in Turns : /\ stage'[r] \in InGraph => stage[r] \in InGraph
                          /\ stage'[r] = "finish" \/ Told(r, "done")' =>
                               stage[r] = "finish" \/ Told(r, "done")
  PROVE  Alone' /\ InStep' /\ Remembered'
<1>1. Alone' /\ InStep'
  BY DEF TurnInv, Alone, InStep
<1>2. Remembered'
  BY DEF TurnInv, Remembered, Holds
<1> QED
  BY <1>1, <1>2

LEMMA SendStep ==
  ASSUME TurnInv, NEW r \in Turns, Send(r)
  PROVE  TurnInv'
<1> DEFINE w == Append(wire[r], Head(outbox[r]))
           o == Tail(outbox[r])
<1>1. /\ outbox[r] # <<>> /\ wire' = [wire EXCEPT ![r] = w] /\ outbox' = [outbox EXCEPT ![r] = o]
      /\ UNCHANGED <<thread, stage, mine, failure, row, overlapped>>
  BY DEF Send, Yield, run
<1>2. /\ wire[r] \in Seq(Events) /\ outbox[r] \in Seq(Events)
      /\ Head(outbox[r]) \in Events /\ o \in Seq(Events) /\ w \in Seq(Events)
  BY <1>1, ContainsHeadTail, AppendFacts DEF TurnInv, ShapeInv
<1>3. \A e : /\ Contains(w, e) <=> Contains(wire[r], e) \/ Head(outbox[r]) = e
             /\ Contains(outbox[r], e) <=> Head(outbox[r]) = e \/ Contains(o, e)
  BY <1>1, <1>2, ContainsAppend, ContainsHeadTail
<1> HIDE DEF w, o
<1>4. /\ wire'[r] = w /\ outbox'[r] = o
      /\ \A q \in Turns \ {r} : wire'[q] = wire[q] /\ outbox'[q] = outbox[q]
  BY <1>1 DEF TurnInv, ShapeInv
<1>5. \A q \in Turns : /\ Told(q, "done")' <=> Told(q, "done")
                       /\ Told(q, "error")' <=> Told(q, "error")
                       /\ Contains(wire[q], "done") => Contains(wire'[q], "done")
  <2>1. \A q \in Turns \ {r} : /\ Told(q, "done")' <=> Told(q, "done")
                               /\ Told(q, "error")' <=> Told(q, "error")
                               /\ Contains(wire[q], "done") => Contains(wire'[q], "done")
    BY <1>4 DEF Told
  <2>2. ASSUME NEW e
        PROVE  /\ Told(r, e)' <=> Told(r, e)
               /\ Contains(wire[r], e) => Contains(wire'[r], e)
    BY <1>3, <1>4 DEF Told
  <2> QED
    BY <2>1, <2>2
<1>6. ShapeInv'
  BY <1>1, <1>2 DEF TurnInv, ShapeInv
<1>7. RowInv'
  <2>1. stage' = stage /\ row' = row /\ failure' = failure
    BY <1>1
  <2> QED
    BY <1>5, <2>1 DEF TurnInv, RowInv
<1>8. Alone' /\ InStep' /\ Remembered'
  BY <1>1, <1>5, GraphApart
<1> QED
  BY <1>6, <1>7, <1>8 DEF TurnInv

\* What a turn does between its graph steps: it yields other events than `done` or
\* `error`, or drops what it was to send, and goes on outside the graph or not at all.
LEMMA YieldStep ==
  ASSUME TurnInv, NEW r \in Turns, NEW events \in Seq(Events), Yield(r, events),
         UNCHANGED <<thread, mine, wire, row, overlapped>>,
         stage[r] # "closed" \/ events = <<>>,
         ~Contains(events, "done") \/ stage[r] = "finish", ~Contains(events, "error"),
         stage' \in [Turns -> Stages], \A q \in Turns \ {r} : stage'[q] = stage[q],
         stage'[r] \in InGraph \union {"finish"} => stage'[r] = stage[r],
         stage[r] = "closed" => stage'[r] = "closed",
         failure' \in [Turns -> {"none", "graph", "cut", "killed"}],
         \A q \in Turns \ {r} : failure'[q] = failure[q],
         stage'[r] = "record" => failure'[r] # "none" \/ Contains(events, "done")
  PROVE  TurnInv'
<1>1. /\ outbox'[r] = events /\ \A q \in Turns \ {r} : outbox'[q] = outbox[q]
      /\ outbox' \in [Turns -> Seq(Events)]
  BY DEF Yield, TurnInv, ShapeInv
<1>2. ShapeInv'
  BY <1>1 DEF TurnInv, ShapeInv
<1>3. \A q \in Turns \ {r} : \A e : Told(q, e)' <=> Told(q, e)
  BY <1>1 DEF Told
<1>4. /\ Told(r, "error")' => Told(r, "error")
      /\ Told(r, "done")' => Told(r, "done") \/ stage[r] = "finish"
      /\ Contains(events, "done") => Told(r, "done")'
  BY <1>1 DEF Told
<1>5. RowInv'
  <2>1. ASSUME NEW q \in Turns \ {r}
        PROVE  /\ row'[q] # "none" => stage'[q] = "closed"
               /\ row'[q] = "null" => Contains(wire'[q], "done")
               /\ Told(q, "error")' => stage'[q] = "closed" /\ row'[q] # "null"
               /\ stage'[q] = "record" /\ failure'[q] = "none" => Told(q, "done")'
    BY <1>3 DEF TurnInv, RowInv
  <2>2. /\ row'[r] # "none" => stage'[r] = "closed"
        /\ row'[r] = "null" => Contains(wire'[r], "done")
        /\ Told(r, "error")' => stage'[r] = "closed" /\ row'[r] # "null"
        /\ stage'[r] = "record" /\ failure'[r] = "none" => Told(r, "done")'
    BY <1>4 DEF TurnInv, RowInv
  <2> QED
    BY <2>1, <2>2 DEF RowInv
<1>6. Alone' /\ InStep' /\ Remembered'
  <2>1. \A q \in Turns : /\ stage'[q] \in InGraph => stage[q] \in InGraph
                         /\ stage'[q] = "finish" \/ Told(q, "done")' =>
                              stage[q] = "finish" \/ Told(q, "done")
    BY <1>3, <1>4 DEF InGraph
  <2> QED
    BY <2>1, GraphApart
<1> QED
  BY <1>2, <1>5, <1>6 DEF TurnInv

LEMMA EventLists ==
  /\ <<>> \in Seq(Events) /\ <<"start">> \in Seq(Events) /\ <<"token">> \in Seq(Events)
  /\ <<"done">> \in Seq(Events) /\ <<"assumptions", "done">> \in Seq(Events)
  /\ <<"error">> \in Seq(Events)
  /\ \A e : ~Contains(<<>>, e)
  /\ \A e : Contains(<<"start">>, e) => e = "start"
  /\ \A e : Contains(<<"token">>, e) => e = "token"
  /\ \A e : Contains(<<"done">>, e) <=> e = "done"
  /\ \A e : Contains(<<"error">>, e) <=> e = "error"
  /\ \A e : Contains(<<"assumptions", "done">>, e) <=> e \in {"assumptions", "done"}
<1>1. /\ <<>> \in Seq(Events) /\ <<"start">> \in Seq(Events) /\ <<"token">> \in Seq(Events)
      /\ <<"done">> \in Seq(Events) /\ <<"assumptions", "done">> \in Seq(Events)
      /\ <<"error">> \in Seq(Events)
  BY DEF Events
<1>2. \A e : ~Contains(<<>>, e)
  BY DEF Contains
<1>3. \A x, e : Contains(<<x>>, e) <=> e = x
  BY DEF Contains
<1>4. \A e : Contains(<<"assumptions", "done">>, e) <=> e \in {"assumptions", "done"}
  <2>1. \A i : i \in 1 .. 2 <=> i = 1 \/ i = 2
    OBVIOUS
  <2> QED
    BY <2>1 DEF Contains
<1> QED
  BY <1>1, <1>2, <1>3, <1>4

LEMMA OpenTokenStep ==
  ASSUME TurnInv, NEW r \in Turns, Open(r) \/ Token(r)
  PROVE  TurnInv'
<1>1. CASE Open(r)
  <2>1. /\ stage[r] = "new" /\ stage' = [stage EXCEPT ![r] = "opened"] /\ Yield(r, <<"start">>)
        /\ UNCHANGED <<thread, mine, wire, failure, row, overlapped>>
    BY <1>1 DEF Open, Goto, run
  <2>2. /\ stage' \in [Turns -> Stages] /\ \A q \in Turns \ {r} : stage'[q] = stage[q]
        /\ stage'[r] = "opened"
    BY <2>1 DEF TurnInv, ShapeInv, Stages
  <2>3. <<"start">> \in Seq(Events) /\ ~Contains(<<"start">>, "done") /\ ~Contains(<<"start">>, "error")
    BY EventLists
  <2> QED
    BY <2>1, <2>2, <2>3, YieldStep DEF TurnInv, ShapeInv, InGraph
<1>2. CASE Token(r)
  <2>1. /\ stage[r] = "agent" /\ Yield(r, <<"token">>)
        /\ UNCHANGED <<thread, stage, mine, wire, failure, row, overlapped>>
    BY <1>2 DEF Token, Ready, run
  <2>2. <<"token">> \in Seq(Events) /\ ~Contains(<<"token">>, "done") /\ ~Contains(<<"token">>, "error")
    BY EventLists
  <2> QED
    BY <2>1, <2>2, YieldStep DEF TurnInv, ShapeInv
<1> QED
  BY <1>1, <1>2

LEMMA FinishStep ==
  ASSUME TurnInv, NEW r \in Turns, Finish(r)
  PROVE  TurnInv'
<1>1. PICK events \in {<<"done">>, <<"assumptions", "done">>} : Yield(r, events)
  BY DEF Finish
<1>2. /\ stage[r] = "finish" /\ stage' = [stage EXCEPT ![r] = "record"]
      /\ UNCHANGED <<thread, mine, wire, failure, row, overlapped>>
  BY DEF Finish, Ready, Goto, run
<1>3. /\ stage' \in [Turns -> Stages] /\ \A q \in Turns \ {r} : stage'[q] = stage[q]
      /\ stage'[r] = "record"
  BY <1>2 DEF TurnInv, ShapeInv, Stages
<1>4. events \in Seq(Events) /\ Contains(events, "done") /\ ~Contains(events, "error")
  BY EventLists
<1> QED
  BY <1>1, <1>2, <1>3, <1>4, YieldStep DEF TurnInv, ShapeInv, InGraph

LEMMA FailCutStep ==
  ASSUME TurnInv, NEW r \in Turns, Fail(r) \/ Cut(r)
  PROVE  TurnInv'
<1>0. <<>> \in Seq(Events) /\ ~Contains(<<>>, "done") /\ ~Contains(<<>>, "error")
  BY EventLists
<1>1. CASE Fail(r)
  <2>1. /\ stage[r] \in {"opened", "agent", "tools"} /\ outbox[r] = <<>>
        /\ stage' = [stage EXCEPT ![r] = "record"] /\ failure' = [failure EXCEPT ![r] = "graph"]
        /\ UNCHANGED <<thread, mine, outbox, wire, row, overlapped>>
    BY <1>1 DEF Fail, Goto, run
  <2>2. /\ stage' \in [Turns -> Stages] /\ \A q \in Turns \ {r} : stage'[q] = stage[q]
        /\ stage'[r] = "record"
        /\ failure' \in [Turns -> {"none", "graph", "cut", "killed"}]
        /\ failure'[r] = "graph" /\ \A q \in Turns \ {r} : failure'[q] = failure[q]
    BY <2>1 DEF TurnInv, ShapeInv, Stages
  <2>3. Yield(r, <<>>)
    BY <2>1 DEF Yield, TurnInv, ShapeInv
  <2> QED
    BY <1>0, <2>1, <2>2, <2>3, YieldStep DEF InGraph
<1>2. CASE Cut(r)
  <2>1. /\ Yield(r, <<>>) /\ UNCHANGED <<thread, mine, wire, row, overlapped>>
        /\ \/ stage' = [stage EXCEPT ![r] = "closed"] /\ UNCHANGED failure
           \/ /\ failure' = [failure EXCEPT ![r] = "cut"] /\ stage[r] # "closed"
              /\ \E next \in {"closed", "record"} : stage' = [stage EXCEPT ![r] = next]
    BY <1>2 DEF Cut, Goto, run
  <2>2. /\ stage' \in [Turns -> Stages] /\ \A q \in Turns \ {r} : stage'[q] = stage[q]
        /\ stage'[r] \in {"closed", "record"}
        /\ failure' \in [Turns -> {"none", "graph", "cut", "killed"}]
        /\ \A q \in Turns \ {r} : failure'[q] = failure[q]
        /\ stage'[r] = "closed" \/ (failure'[r] = "cut" /\ stage[r] # "closed")
    <3>1. /\ stage \in [Turns -> Stages] /\ {"closed", "record"} \subseteq Stages
          /\ failure \in [Turns -> {"none", "graph", "cut", "killed"}]
      BY DEF TurnInv, ShapeInv, Stages
    <3>2. CASE stage' = [stage EXCEPT ![r] = "closed"] /\ UNCHANGED failure
      BY <3>1, <3>2
    <3>3. ASSUME failure' = [failure EXCEPT ![r] = "cut"], stage[r] # "closed",
                 NEW next \in {"closed", "record"}, stage' = [stage EXCEPT ![r] = next]
          PROVE  /\ stage' \in [Turns -> Stages] /\ stage'[r] = next /\ failure'[r] = "cut"
                 /\ failure' \in [Turns -> {"none", "graph", "cut", "killed"}]
                 /\ \A q \in Turns \ {r} : stage'[q] = stage[q] /\ failure'[q] = failure[q]
      BY <3>1, <3>3
    <3> QED
      BY <2>1, <3>2, <3>3
  <2>3. /\ stage'[r] \notin InGraph \union {"finish"}
        /\ stage[r] = "closed" => stage'[r] = "closed"
        /\ stage'[r] = "record" => failure'[r] # "none"
    BY <2>2 DEF InGraph
  <2> QED
    BY <1>0, <2>1, <2>2, <2>3, YieldStep, Zenon
<1> QED
  BY <1>1, <1>2

LEMMA RestartStep ==
  ASSUME TurnInv, Restart
  PROVE  TurnInv'
<1> DEFINE lost == {r \in Turns : stage[r] \notin {"new", "closed"} \/ outbox[r] # <<>>}
<1>1. /\ stage' = [r \in Turns |-> IF r \in lost THEN "closed" ELSE stage[r]]
      /\ outbox' = [r \in Turns |-> <<>>]
      /\ failure' = [r \in Turns |-> IF r \in lost THEN "killed" ELSE failure[r]]
      /\ UNCHANGED <<thread, mine, wire, row, overlapped>>
  BY DEF Restart, run
<1>2. \A r \in Turns : /\ stage'[r] \in {"new", "closed"}
                       /\ stage[r] = "closed" => stage'[r] = "closed"
                       /\ outbox'[r] = <<>> /\ wire'[r] = wire[r]
  BY <1>1
<1>3. ShapeInv'
  <2>1. <<>> \in Seq(Events) /\ "closed" \in Stages
    BY EventLists DEF Stages
  <2> QED
    BY <1>1, <2>1 DEF TurnInv, ShapeInv
<1>4. \A r \in Turns : \A e : Told(r, e)' => Told(r, e)
  BY <1>2, EventLists DEF Told
<1>5. RowInv'
  BY <1>1, <1>2, <1>4 DEF TurnInv, RowInv
<1>6. Alone' /\ InStep' /\ Remembered'
  BY <1>1, <1>2, <1>4, GraphApart DEF InGraph
<1> QED
  BY <1>3, <1>5, <1>6 DEF TurnInv

\* The row of r is written, or lost; an error is told only after a row that says so.
LEMMA RecordStep ==
  ASSUME TurnInv, NEW r \in Turns, Record(r)
  PROVE  TurnInv'
<1>1. /\ stage[r] = "record" /\ outbox[r] = <<>> /\ stage' = [stage EXCEPT ![r] = "closed"]
      /\ outbox' = [outbox EXCEPT ![r] = IF failure[r] = "graph" THEN <<"error">> ELSE <<>>]
      /\ \/ row' = [row EXCEPT ![r] = IF failure[r] = "none" THEN "null" ELSE "error"]
         \/ UNCHANGED row
      /\ UNCHANGED <<thread, mine, wire, failure, overlapped>>
  BY DEF Record, Ready, Goto, Yield, run
<1>2. /\ stage'[r] = "closed" /\ \A q \in Turns \ {r} : stage'[q] = stage[q]
      /\ outbox'[r] = IF failure[r] = "graph" THEN <<"error">> ELSE <<>>
      /\ \A q \in Turns \ {r} : outbox'[q] = outbox[q] /\ row'[q] = row[q]
      /\ row'[r] = (IF failure[r] = "none" THEN "null" ELSE "error") \/ row'[r] = row[r]
  BY <1>1 DEF TurnInv, ShapeInv
<1>3. ShapeInv'
  BY <1>1, EventLists DEF TurnInv, ShapeInv, Stages
<1>4. /\ row[r] = "none" /\ ~Told(r, "error")
      /\ failure[r] = "none" => Contains(wire[r], "done")
  BY <1>1, EventLists DEF TurnInv, RowInv, ShapeInv, Told
<1>5. \A q \in Turns \ {r} : \A e : Told(q, e)' <=> Told(q, e)
  BY <1>1, <1>2 DEF Told
<1>6. /\ Told(r, "done")' => Told(r, "done")
      /\ Told(r, "error")' => failure[r] = "graph"
  BY <1>1, <1>2, <1>4, EventLists DEF Told
<1>7. RowInv'
  <2>1. ASSUME NEW q \in Turns \ {r}
        PROVE  /\ row'[q] # "none" => stage'[q] = "closed"
               /\ row'[q] = "null" => Contains(wire'[q], "done")
               /\ Told(q, "error")' => stage'[q] = "closed" /\ row'[q] # "null"
               /\ stage'[q] = "record" /\ failure'[q] = "none" => Told(q, "done")'
    BY <1>1, <1>2, <1>5 DEF TurnInv, RowInv
  <2>2. /\ row'[r] = "null" => Contains(wire'[r], "done")
        /\ Told(r, "error")' => row'[r] # "null"
    BY <1>1, <1>2, <1>4, <1>6
  <2> QED
    BY <1>2, <2>1, <2>2 DEF RowInv
<1>8. Alone' /\ InStep' /\ Remembered'
  BY <1>1, <1>2, <1>5, <1>6, GraphApart DEF InGraph
<1> QED
  BY <1>3, <1>7, <1>8 DEF TurnInv

----------------------------------------------------------------------------
(* Steps of the graph: the thread becomes the run's own list.               *)

\* A run that starts: the thread, and one message more.
LEMMA LoadStep ==
  ASSUME TurnInv, NEW r \in Turns, Load(r)
  PROVE  TurnInv' /\ IsPrefix(thread, thread')
<1> DEFINE m == Message("human", r)
           others == {q \in Turns \ {r} : stage[q] \in InGraph}
<1>1. /\ stage[r] = "opened" /\ stage' = [stage EXCEPT ![r] = "agent"]
      /\ mine' = [mine EXCEPT ![r] = Append(thread, m)] /\ thread' = mine'[r]
      /\ overlapped' = [q \in Turns |-> overlapped[q] \/ q \in others \/ (q = r /\ others # {})]
      /\ UNCHANGED <<outbox, wire, failure, row>>
  BY DEF Load, Ready, Goto, MarkOverlap
<1>2. m \in Msg /\ thread \in Seq(Msg)
  BY MessageType DEF Kinds, TurnInv, ShapeInv
<1>3. /\ Append(thread, m) \in Seq(Msg) /\ IsPrefix(thread, Append(thread, m))
      /\ \A q : Holds(thread, q) => Holds(Append(thread, m), q)
  BY <1>2, HoldsAppend
<1> HIDE DEF m
<1>4. /\ thread' = Append(thread, m) /\ mine'[r] = thread'
      /\ \A q \in Turns \ {r} : mine'[q] = mine[q] /\ stage'[q] = stage[q]
      /\ stage'[r] = "agent" /\ mine' \in [Turns -> Seq(Msg)]
      /\ stage' \in [Turns -> Stages] /\ overlapped' \in [Turns -> BOOLEAN]
  BY <1>1, <1>3 DEF TurnInv, ShapeInv, Stages
<1>5. /\ \A q \in Turns : overlapped[q] => overlapped'[q]
      /\ \A q \in Turns \ {r} : stage[q] \in InGraph => overlapped'[q] /\ overlapped'[r]
  BY <1>1
<1> HIDE DEF others
<1>6. ShapeInv'
  BY <1>1, <1>3, <1>4 DEF TurnInv, ShapeInv
<1>7. RowInv'
  <2>1. \A q \in Turns : /\ Told(q, "done")' <=> Told(q, "done")
                         /\ Told(q, "error")' <=> Told(q, "error")
                         /\ wire'[q] = wire[q] /\ row'[q] = row[q] /\ failure'[q] = failure[q]
    BY <1>1 DEF Told
  <2> QED
    BY <1>1, <1>4, <2>1 DEF TurnInv, RowInv
<1>8. Alone'
  BY <1>4, <1>5 DEF TurnInv, Alone
<1>9. InStep'
  BY <1>4, <1>5 DEF InStep
<1>10. Remembered'
  <2>1. SUFFICES ASSUME NEW q \in Turns, ~overlapped'[q], stage'[q] = "finish" \/ Told(q, "done")'
                 PROVE  Holds(thread, q)' /\ \A p \in Turns : stage'[p] \in InGraph => Holds(mine[p], q)'
    BY DEF Remembered
  <2>2. ~overlapped[q] /\ (stage[q] = "finish" \/ Told(q, "done"))
    BY <1>1, <1>4, <1>5, <2>1 DEF Told
  <2>3. Holds(thread, q) /\ \A p \in Turns : stage[p] \in InGraph => Holds(mine[p], q)
    BY <2>2 DEF TurnInv, Remembered
  <2>4. Holds(thread', q)
    BY <1>3, <1>4, <2>3
  <2>5. ASSUME NEW p \in Turns, stage'[p] \in InGraph PROVE Holds(mine'[p], q)
    BY <1>4, <2>3, <2>4, <2>5
  <2> QED
    BY <2>4, <2>5 DEF Holds
<1> QED
  BY <1>3, <1>4, <1>6, <1>7, <1>8, <1>9, <1>10 DEF TurnInv

\* A step of a run at work: its list, one message longer, becomes the thread; the run ends
\* with prose and goes on with anything else.
LEMMA GraphStepKeeps ==
  ASSUME TurnInv, NEW r \in Turns, NEW kind \in Kinds, NEW next \in {"agent", "tools", "finish"},
         stage[r] \in InGraph, GraphStep(r, kind), Goto(r, next), next = "finish" => kind = "prose",
         UNCHANGED <<wire, failure, row, overlapped>>,
         outbox' \in [Turns -> Seq(Events)],
         \A q \in Turns : /\ Told(q, "done")' <=> Told(q, "done")
                          /\ Told(q, "error")' <=> Told(q, "error")
  PROVE  TurnInv' /\ ((\A q \in Turns : ~overlapped[q]) => IsPrefix(thread, thread'))
<1> DEFINE m == Message(kind, r)
<1>1. mine' = [mine EXCEPT ![r] = Append(mine[r], m)] /\ thread' = mine'[r]
  BY DEF GraphStep
<1>2. m \in Msg /\ mine[r] \in Seq(Msg)
  BY MessageType DEF TurnInv, ShapeInv
<1>3. /\ Append(mine[r], m) \in Seq(Msg) /\ IsPrefix(mine[r], Append(mine[r], m))
      /\ \A q : Holds(mine[r], q) => Holds(Append(mine[r], m), q)
      /\ kind = "prose" => Holds(Append(mine[r], m), r)
  BY <1>2, HoldsAppend
<1> HIDE DEF m
<1>4. /\ thread' = Append(mine[r], m) /\ mine'[r] = thread'
      /\ \A q \in Turns \ {r} : mine'[q] = mine[q] /\ stage'[q] = stage[q]
      /\ stage'[r] = next /\ mine' \in [Turns -> Seq(Msg)] /\ stage' \in [Turns -> Stages]
  BY <1>1, <1>3 DEF Goto, TurnInv, ShapeInv, Stages
<1>5. \A q \in Turns \ {r} : stage[q] \in InGraph => overlapped[r] /\ overlapped[q]
  BY DEF TurnInv, Alone
<1>6. ShapeInv'
  BY <1>3, <1>4 DEF TurnInv, ShapeInv
<1>7. RowInv'
  <2>1. stage[r] # "closed" /\ stage[r] # "record" /\ stage'[r] # "record"
    BY <1>4 DEF InGraph
  <2> QED
    BY <1>4, <2>1 DEF TurnInv, RowInv
<1>8. Alone'
  BY <1>4, <1>5 DEF TurnInv, Alone
<1>9. InStep'
  BY <1>4, <1>5 DEF InStep
<1>10. Remembered'
  <2>1. SUFFICES ASSUME NEW q \in Turns, ~overlapped[q], stage'[q] = "finish" \/ Told(q, "done")
                 PROVE  Holds(thread, q)' /\ \A p \in Turns : stage'[p] \in InGraph => Holds(mine[p], q)'
    BY DEF Remembered
  <2>2. CASE Told(q, "done") \/ (q # r /\ stage'[q] = "finish")
    <3>1. Holds(thread, q) /\ \A p \in Turns : stage[p] \in InGraph => Holds(mine[p], q)
      BY <1>4, <2>1, <2>2 DEF TurnInv, Remembered
    <3>2. Holds(thread', q)
      BY <1>3, <1>4, <3>1
    <3>3. ASSUME NEW p \in Turns, stage'[p] \in InGraph PROVE Holds(mine'[p], q)
      BY <1>4, <3>1, <3>2, <3>3
    <3> QED
      BY <3>2, <3>3 DEF Holds
  <2>3. CASE q = r /\ stage'[r] = "finish"
    <3>1. Holds(thread', q)
      BY <1>3, <1>4, <2>3
    <3>2. ASSUME NEW p \in Turns, stage'[p] \in InGraph PROVE FALSE
      BY <1>4, <1>5, <2>1, <2>3, <3>2 DEF InGraph
    <3> QED
      BY <3>1, <3>2 DEF Holds
  <2> QED
    BY <2>1, <2>2, <2>3
<1>11. (\A q \in Turns : ~overlapped[q]) => IsPrefix(thread, thread')
  BY <1>3, <1>4 DEF TurnInv, InStep
<1> QED
  BY <1>6, <1>7, <1>8, <1>9, <1>10, <1>11 DEF TurnInv

\* Calls and results yield an event of their own, a reply none.
LEMMA OneEvent ==
  ASSUME TurnInv, NEW r \in Turns, outbox[r] = <<>>, NEW e \in {"tool_call", "tool_result"},
         UNCHANGED wire, Yield(r, <<e>>) \/ UNCHANGED outbox
  PROVE  /\ outbox' \in [Turns -> Seq(Events)]
         /\ \A q \in Turns : /\ Told(q, "done")' <=> Told(q, "done")
                             /\ Told(q, "error")' <=> Told(q, "error")
<1>1. <<e>> \in Seq(Events) /\ ~Contains(<<e>>, "done") /\ ~Contains(<<e>>, "error")
  BY DEF Events, Contains
<1>2. ~Contains(<<>>, "done") /\ ~Contains(<<>>, "error")
  BY EventLists
<1>3. CASE UNCHANGED outbox
  BY <1>3 DEF Told, TurnInv, ShapeInv
<1>4. CASE Yield(r, <<e>>)
  <2>1. /\ outbox' \in [Turns -> Seq(Events)] /\ outbox'[r] = <<e>>
        /\ \A q \in Turns \ {r} : outbox'[q] = outbox[q]
    BY <1>1, <1>4 DEF Yield, TurnInv, ShapeInv
  <2> QED
    BY <1>1, <1>2, <2>1 DEF Told
<1> QED
  BY <1>3, <1>4

LEMMA NodeStep ==
  ASSUME TurnInv, NEW r \in Turns, AgentStep(r) \/ ToolsStep(r)
  PROVE  TurnInv' /\ ((\A q \in Turns : ~overlapped[q]) => IsPrefix(thread, thread'))
<1>1. CASE AgentStep(r)
  <2>1. /\ stage[r] = "agent" /\ outbox[r] = <<>> /\ Goto(r, Route(mine'[r]))
        /\ UNCHANGED <<wire, failure, row, overlapped>>
        /\ \/ GraphStep(r, "calls") /\ Yield(r, <<"tool_call">>)
           \/ GraphStep(r, "prose") /\ UNCHANGED outbox
    BY <1>1 DEF AgentStep, Ready
  <2>2. ASSUME NEW kind \in {"calls", "prose"}, GraphStep(r, kind)
        PROVE  Route(mine'[r]) = IF kind = "calls" THEN "tools" ELSE "finish"
    <3>1. mine'[r] = Append(mine[r], Message(kind, r)) /\ mine[r] \in Seq(Msg)
      BY <2>2 DEF GraphStep, TurnInv, ShapeInv
    <3>2. Message(kind, r) \in Msg /\ Message(kind, r).kind = kind
      BY MessageType DEF Kinds
    <3>3. Last(mine'[r]) = Message(kind, r)
      BY <3>1, <3>2, HoldsAppend
    <3> QED
      BY <3>2, <3>3 DEF Route
  <2>3. /\ outbox' \in [Turns -> Seq(Events)]
        /\ \A q \in Turns : /\ Told(q, "done")' <=> Told(q, "done")
                            /\ Told(q, "error")' <=> Told(q, "error")
    BY <2>1, OneEvent
  <2>4. PICK kind \in {"calls", "prose"} : GraphStep(r, kind)
    BY <2>1
  <2>5. Goto(r, IF kind = "calls" THEN "tools" ELSE "finish")
    BY <2>1, <2>2, <2>4
  <2>6. CASE kind = "calls"
    BY <2>1, <2>3, <2>4, <2>5, <2>6, GraphStepKeeps DEF Kinds, InGraph
  <2>7. CASE kind = "prose"
    BY <2>1, <2>3, <2>4, <2>5, <2>7, GraphStepKeeps DEF Kinds, InGraph
  <2> QED
    BY <2>6, <2>7
<1>2. CASE ToolsStep(r)
  <2>1. /\ stage[r] = "tools" /\ outbox[r] = <<>> /\ Goto(r, "agent") /\ GraphStep(r, "results")
        /\ Yield(r, <<"tool_result">>) /\ UNCHANGED <<wire, failure, row, overlapped>>
    BY <1>2 DEF ToolsStep, Ready
  <2>2. /\ outbox' \in [Turns -> Seq(Events)]
        /\ \A q \in Turns : /\ Told(q, "done")' <=> Told(q, "done")
                            /\ Told(q, "error")' <=> Told(q, "error")
    BY <2>1, OneEvent
  <2> QED
    BY <2>1, <2>2, GraphStepKeeps DEF Kinds, InGraph
<1> QED
  BY <1>1, <1>2

----------------------------------------------------------------------------
\* Every step, and what it makes of the thread when no turns overlapped.
LEMMA TurnStep ==
  ASSUME TurnInv, [Next]_turnVars
  PROVE  TurnInv' /\ ((\A q \in Turns : ~overlapped'[q]) => IsPrefix(thread, thread'))
<1>0. thread' = thread => IsPrefix(thread, thread')
  BY PrefixOfItself DEF TurnInv, ShapeInv
<1>1. ASSUME NEW r \in Turns, Load(r) PROVE TurnInv' /\ IsPrefix(thread, thread')
  BY <1>1, LoadStep
<1>2. ASSUME NEW r \in Turns, AgentStep(r) \/ ToolsStep(r)
      PROVE  TurnInv' /\ ((\A q \in Turns : ~overlapped'[q]) => IsPrefix(thread, thread'))
  <2>1. overlapped' = overlapped
    BY <1>2 DEF AgentStep, ToolsStep
  <2> QED
    BY <1>2, <2>1, NodeStep
<1>3. ASSUME NEW r \in Turns, \/ Send(r) \/ Open(r) \/ Token(r) \/ Finish(r)
                              \/ Fail(r) \/ Cut(r) \/ Record(r)
      PROVE  TurnInv' /\ thread' = thread
  <2>1. TurnInv'
    BY <1>3, SendStep, OpenTokenStep, FinishStep, FailCutStep, RecordStep
  <2>2. thread' = thread
    BY <1>3 DEF Send, Open, Token, Finish, Fail, Cut, Record
  <2> QED
    BY <2>1, <2>2
<1>4. CASE Restart
  <2>1. thread' = thread
    BY <1>4 DEF Restart
  <2> QED
    BY <1>0, <1>4, <2>1, RestartStep
<1>5. CASE UNCHANGED turnVars
  <2>1. UNCHANGED <<thread, stage, mine, outbox, wire, failure, row, overlapped>>
    BY <1>5 DEF turnVars, run
  <2>2. ShapeInv' /\ Alone' /\ InStep'
    BY <2>1 DEF TurnInv, ShapeInv, Alone, InStep
  <2>3. RowInv' /\ Remembered'
    BY <2>1 DEF TurnInv, RowInv, Remembered, Told, Holds
  <2> QED
    BY <1>0, <2>1, <2>2, <2>3 DEF TurnInv
<1> QED
  BY <1>0, <1>1, <1>2, <1>3, <1>4, <1>5 DEF Next, Step

LEMMA TurnInit == Init => TurnInv
<1> SUFFICES ASSUME Init PROVE TurnInv
  OBVIOUS
<1>1. <<>> \in Seq(Msg) /\ <<>> \in Seq(Events)
  <2>1. \A S : <<>> \in Seq(S)
    OBVIOUS
  <2> QED
    BY <2>1
<1>2. ShapeInv
  BY <1>1 DEF Init, ShapeInv, Stages
<1>3. \A r \in Turns : ~Told(r, "done") /\ ~Told(r, "error")
  BY EventLists DEF Init, Told
<1>4. RowInv /\ Alone /\ InStep /\ Remembered
  BY <1>3 DEF Init, RowInv, Alone, InStep, Remembered, InGraph
<1> QED
  BY <1>2, <1>4 DEF TurnInv

LEMMA TurnInvariant == Spec => []TurnInv
<1>1. TurnInv /\ [Next]_turnVars => TurnInv'
  BY TurnStep
<1> QED
  BY <1>1, TurnInit, PTL DEF Spec

\* The audit row and the stream agree: a row without an error means the client was handed
\* `done`, and a client told `error` has no such row.
THEOREM RowAgrees == Spec => []RowAgreesWithStream
<1>1. TurnInv => RowAgreesWithStream
  BY DEF TurnInv, RowInv, RowAgreesWithStream, Told
<1> QED
  BY <1>1, TurnInvariant, PTL

\* A thread whose turns never overlapped only grows, whatever fails or restarts.
THEOREM ThreadGrows == Spec => HistoryGrows
<1>1. TurnInv /\ [Next]_turnVars =>
        [(\A r \in Turns : ~overlapped'[r]) => IsPrefix(thread, thread')]_turnVars
  BY TurnStep
<1> QED
  BY <1>1, TurnInvariant, PTL DEF Spec, HistoryGrows

\* What the client is told is done is in the thread, unless another turn ran together
\* with this one.
THEOREM DoneRemembered == Spec => []DoneIsRemembered
<1>1. TurnInv => DoneIsRemembered
  BY DEF TurnInv, Remembered, DoneIsRemembered, Told, Holds
<1> QED
  BY <1>1, TurnInvariant, PTL

----------------------------------------------------------------------------
(* The list of a run: what it found in the thread, its question, and what it *)
(* has added since.                                                         *)

\* The k-th message is r's question, no other before is r's, all behind are.
Question(msgs, r, k) ==
  /\ msgs[k] = Message("human", r)
  /\ \A i \in 1 .. (k - 1) : msgs[i].turn # r
  /\ \A i \in (k + 1) .. Len(msgs) : msgs[i].turn = r /\ msgs[i].kind # "human"

Silent(msgs, r) == \A i \in DOMAIN msgs : msgs[i].turn # r

OwnCalls(msgs, r) == {i \in DOMAIN msgs : msgs[i] = Message("calls", r)}

\* A turn that has not loaded the thread is in nobody's list; one that has, once, and its
\* rounds are within the cap.
ListInv ==
  /\ \A r \in Turns : stage[r] \in {"new", "opened"} =>
       Silent(thread, r) /\ \A q \in Turns : Silent(mine[q], r)
  /\ \A r \in Turns : stage[r] \in InGraph =>
       /\ \E k \in DOMAIN mine[r] : Question(mine[r], r, k)
       /\ Cardinality(OwnCalls(mine[r], r)) <= MaxRounds

\* Walking back to the newest question counts the rounds of r alone.
LEMMA RoundsAreOwn ==
  ASSUME NEW msgs \in Seq(Msg), NEW r \in Turns, NEW k \in DOMAIN msgs, Question(msgs, r, k)
  PROVE  ToolRounds(msgs) = Cardinality(OwnCalls(msgs, r))
<1>1. /\ DOMAIN msgs = 1 .. Len(msgs) /\ Len(msgs) \in Nat /\ k \in 1 .. Len(msgs)
      /\ \A i \in DOMAIN msgs : msgs[i] \in Msg
  OBVIOUS
<1>2. msgs[k].kind = "human" /\ msgs[k].turn = r
  BY DEF Question, Message
<1>3. ASSUME NEW i \in DOMAIN msgs
      PROVE  (msgs[i].kind = "calls" /\ \A j \in i .. Len(msgs) : msgs[j].kind # "human")
               <=> msgs[i] = Message("calls", r)
  <2>1. CASE i <= k
    <3>1. ~(\A j \in i .. Len(msgs) : msgs[j].kind # "human")
      BY <1>1, <1>2, <2>1
    <3>2. msgs[i] # Message("calls", r)
      <4>1. CASE i = k
        BY <1>2, <4>1 DEF Message
      <4>2. CASE i # k
        <5>1. i \in 1 .. (k - 1)
          BY <1>1, <2>1, <4>2
        <5> QED
          BY <5>1 DEF Question, Message
      <4> QED
        BY <4>1, <4>2
    <3> QED
      BY <3>1, <3>2
  <2>2. CASE i > k
    <3>1. \A j \in i .. Len(msgs) : msgs[j].turn = r /\ msgs[j].kind # "human"
      BY <1>1, <2>2 DEF Question
    <3>2. msgs[i].turn = r /\ msgs[i] \in Msg
      BY <1>1, <3>1
    <3>3. msgs[i].kind = "calls" <=> msgs[i] = Message("calls", r)
      BY <3>2 DEF Msg, Message
    <3> QED
      BY <3>1, <3>3
  <2> QED
    BY <1>1, <2>1, <2>2
<1>4. {i \in DOMAIN msgs : msgs[i].kind = "calls" /\ \A j \in i .. Len(msgs) : msgs[j].kind # "human"}
        = OwnCalls(msgs, r)
  BY <1>3 DEF OwnCalls
<1> QED
  BY <1>4 DEF ToolRounds

\* A list grows by one message of its run.
LEMMA QuestionAppend ==
  ASSUME NEW msgs \in Seq(Msg), NEW r \in Turns, NEW kind \in Kinds \ {"human"},
         NEW k \in DOMAIN msgs, Question(msgs, r, k)
  PROVE  /\ k \in DOMAIN Append(msgs, Message(kind, r))
         /\ Question(Append(msgs, Message(kind, r)), r, k)
<1> DEFINE m == Message(kind, r)
<1>1. m \in Msg /\ m.kind = kind /\ m.turn = r
  BY DEF Message, Msg
<1> HIDE DEF m
<1>2. /\ DOMAIN Append(msgs, m) = 1 .. (Len(msgs) + 1) /\ Len(Append(msgs, m)) = Len(msgs) + 1
      /\ Len(msgs) \in Nat /\ DOMAIN msgs = 1 .. Len(msgs)
      /\ \A i \in 1 .. Len(msgs) : Append(msgs, m)[i] = msgs[i]
      /\ Append(msgs, m)[Len(msgs) + 1] = m
  BY <1>1
<1>3. k \in DOMAIN Append(msgs, m) /\ Append(msgs, m)[k] = msgs[k]
  BY <1>2
<1>4. \A i \in 1 .. (k - 1) : Append(msgs, m)[i].turn # r
  BY <1>2 DEF Question
<1>5. \A i \in (k + 1) .. (Len(msgs) + 1) : Append(msgs, m)[i].turn = r /\ Append(msgs, m)[i].kind # "human"
  <2>1. SUFFICES ASSUME NEW i \in (k + 1) .. (Len(msgs) + 1)
                 PROVE  Append(msgs, m)[i].turn = r /\ Append(msgs, m)[i].kind # "human"
    OBVIOUS
  <2>2. CASE i = Len(msgs) + 1
    BY <1>1, <1>2, <2>2
  <2>3. CASE i # Len(msgs) + 1
    BY <1>2, <2>3 DEF Question
  <2> QED
    BY <2>2, <2>3
<1>6. Question(Append(msgs, m), r, k)
  BY <1>2, <1>3, <1>4, <1>5 DEF Question
<1> QED
  BY <1>3, <1>6 DEF m

\* ... and its rounds by one at most.
LEMMA OwnCallsAppend ==
  ASSUME NEW msgs \in Seq(Msg), NEW r \in Turns, NEW m \in Msg
  PROVE  /\ Cardinality(OwnCalls(msgs, r)) \in Nat
         /\ Cardinality(OwnCalls(Append(msgs, m), r)) =
              IF m = Message("calls", r) THEN Cardinality(OwnCalls(msgs, r)) + 1
              ELSE Cardinality(OwnCalls(msgs, r))
<1> DEFINE own == OwnCalls(msgs, r)
           n == Len(msgs) + 1
<1>1. /\ DOMAIN Append(msgs, m) = 1 .. n /\ Len(msgs) \in Nat /\ DOMAIN msgs = 1 .. Len(msgs)
      /\ \A i \in 1 .. Len(msgs) : Append(msgs, m)[i] = msgs[i]
      /\ Append(msgs, m)[n] = m
  OBVIOUS
<1>2. OwnCalls(Append(msgs, m), r) = IF m = Message("calls", r) THEN own \union {n} ELSE own
  BY <1>1 DEF OwnCalls
<1>3. IsFiniteSet(own) /\ Cardinality(own) \in Nat /\ n \notin own
  <2>1. own \in SUBSET (1 .. Len(msgs)) /\ n \notin own
    BY <1>1 DEF OwnCalls
  <2>2. IsFiniteSet(1 .. Len(msgs))
    BY <1>1, FS_Interval
  <2> QED
    BY <2>1, <2>2, FS_Subset, FS_CardinalityType
<1>4. Cardinality(own \union {n}) = Cardinality(own) + 1
  BY <1>3, FS_AddElement
<1> QED
  BY <1>2, <1>3, <1>4

\* What a step does to the lists: a run starts, a run adds a message, or none of both.
NodeMoves(r) ==
  \E kind \in {"calls", "results", "prose"} :
    /\ stage[r] \in InGraph /\ GraphStep(r, kind)
    /\ kind = "calls" => stage[r] = "agent" /\ ~Capped(mine[r])
    /\ kind = "results" <=> stage[r] = "tools"
    /\ Goto(r, IF kind = "calls" THEN "tools" ELSE IF kind = "results" THEN "agent" ELSE "finish")
    /\ UNCHANGED <<failure, overlapped>>

ListsStay ==
  /\ UNCHANGED <<thread, mine, steps, overlapped>>
  /\ \A q \in Turns :
       /\ stage'[q] \in InGraph => stage'[q] = stage[q]
       /\ stage'[q] \in {"new", "opened"} => stage[q] \in {"new", "opened"}
       /\ failure[q] # "none" => failure'[q] # "none"
       /\ stage[q] = "tools" => stage'[q] = "tools" \/ failure'[q] # "none"

LEMMA StepKinds ==
  ASSUME TurnInv, [Next]_turnVars
  PROVE  (\E r \in Turns : Load(r) \/ NodeMoves(r)) \/ ListsStay
<1>0. /\ stage \in [Turns -> Stages] /\ failure \in [Turns -> {"none", "graph", "cut", "killed"}]
      /\ mine \in [Turns -> Seq(Msg)]
  BY DEF TurnInv, ShapeInv
<1>1. ASSUME NEW r \in Turns, AgentStep(r) PROVE NodeMoves(r)
  <2>1. PICK kind \in {"calls", "prose"} :
          /\ stage[r] = "agent" /\ GraphStep(r, kind) /\ (kind = "calls" => ~Capped(mine[r]))
          /\ Goto(r, Route(mine'[r])) /\ UNCHANGED <<failure, overlapped>>
    BY <1>1 DEF AgentStep, Ready
  <2>2. Route(mine'[r]) = IF kind = "calls" THEN "tools" ELSE "finish"
    <3>1. mine'[r] = Append(mine[r], Message(kind, r)) /\ mine[r] \in Seq(Msg)
      BY <1>0, <2>1 DEF GraphStep
    <3>2. Message(kind, r) \in Msg /\ Message(kind, r).kind = kind
      BY MessageType DEF Kinds
    <3>3. Last(mine'[r]) = Message(kind, r)
      BY <3>1, <3>2, HoldsAppend
    <3> QED
      BY <3>2, <3>3 DEF Route
  <2>3. Goto(r, IF kind = "calls" THEN "tools" ELSE IF kind = "results" THEN "agent" ELSE "finish")
    BY <2>1, <2>2
  <2>4. stage[r] \in InGraph /\ kind # "results" /\ stage[r] # "tools"
    BY <2>1 DEF InGraph
  <2> QED
    BY <2>1, <2>3, <2>4, Zenon DEF NodeMoves
<1>2. ASSUME NEW r \in Turns, ToolsStep(r) PROVE NodeMoves(r)
  BY <1>2 DEF ToolsStep, Ready, NodeMoves, InGraph
<1>3. ASSUME NEW r \in Turns, Send(r) \/ Token(r) PROVE ListsStay
  BY <1>3 DEF Send, Token, ListsStay, run
<1>4. ASSUME NEW r \in Turns, NEW to \in {"opened", "record", "closed"}, Goto(r, to),
             UNCHANGED <<thread, mine, steps, overlapped>>,
             to = "opened" => stage[r] = "new",
             \/ UNCHANGED failure /\ stage[r] # "tools"
             \/ \E why \in {"graph", "cut"} : failure' = [failure EXCEPT ![r] = why]
      PROVE  ListsStay
  <2>1. stage'[r] = to /\ \A q \in Turns \ {r} : stage'[q] = stage[q]
    BY <1>0, <1>4 DEF Goto
  <2>2. /\ \A q \in Turns \ {r} : failure'[q] = failure[q]
        /\ failure[r] # "none" => failure'[r] # "none"
        /\ stage[r] = "tools" => failure'[r] # "none"
    BY <1>0, <1>4
  <2> QED
    BY <1>4, <2>1, <2>2 DEF ListsStay, InGraph
<1>5. ASSUME NEW r \in Turns, Open(r) \/ Finish(r) \/ Record(r) PROVE ListsStay
  BY <1>4, <1>5 DEF Open, Finish, Record, Ready, run
<1>6. ASSUME NEW r \in Turns, Fail(r) PROVE ListsStay
  BY <1>4, <1>6 DEF Fail, run
<1>7. ASSUME NEW r \in Turns, Cut(r) PROVE ListsStay
  BY <1>4, <1>7 DEF Cut, Ready, run
<1>8. CASE Restart
  BY <1>0, <1>8 DEF Restart, run, ListsStay, InGraph
<1>9. CASE UNCHANGED turnVars
  BY <1>9 DEF turnVars, run, ListsStay
<1> QED
  BY <1>1, <1>2, <1>3, <1>5, <1>6, <1>7, <1>8, <1>9 DEF Next, Step

LEMMA SilentAppend ==
  ASSUME NEW msgs \in Seq(Msg), NEW m \in Msg, NEW r, Silent(msgs, r), m.turn # r
  PROVE  Silent(Append(msgs, m), r)
<1>1. /\ DOMAIN Append(msgs, m) = 1 .. (Len(msgs) + 1) /\ DOMAIN msgs = 1 .. Len(msgs)
      /\ \A i \in DOMAIN msgs : Append(msgs, m)[i] = msgs[i]
      /\ Append(msgs, m)[Len(msgs) + 1] = m /\ Len(msgs) \in Nat
  BY AppendFacts
<1> QED
  BY <1>1 DEF Silent

\* A run that starts on a thread that knows nothing of it.
LEMMA QuestionLoaded ==
  ASSUME NEW msgs \in Seq(Msg), NEW r \in Turns, Silent(msgs, r)
  PROVE  LET list == Append(msgs, Message("human", r)) IN
         /\ \E k \in DOMAIN list : Question(list, r, k)
         /\ Cardinality(OwnCalls(list, r)) = 0
<1> DEFINE m == Message("human", r)
           list == Append(msgs, m)
           n == Len(msgs) + 1
<1>1. m \in Msg /\ m # Message("calls", r)
  BY DEF Msg, Message, Kinds
<1>2. /\ DOMAIN list = 1 .. n /\ Len(list) = n /\ Len(msgs) \in Nat /\ DOMAIN msgs = 1 .. Len(msgs)
      /\ list[n] = m /\ \A i \in 1 .. Len(msgs) : list[i] = msgs[i]
  BY <1>1
<1>3. n \in DOMAIN list /\ Question(list, r, n)
  <2>1. \A i \in 1 .. (n - 1) : list[i].turn # r
    BY <1>2 DEF Silent
  <2>2. \A i \in (n + 1) .. Len(list) : FALSE
    BY <1>2
  <2> QED
    BY <1>2, <2>1, <2>2 DEF Question
<1>4. OwnCalls(list, r) = {}
  <2>1. SUFFICES ASSUME NEW i \in 1 .. n, list[i] = Message("calls", r) PROVE FALSE
    BY <1>2 DEF OwnCalls
  <2>2. CASE i = n
    BY <1>1, <1>2, <2>1, <2>2
  <2>3. CASE i # n
    <3>1. i \in 1 .. Len(msgs)
      BY <1>2, <2>3
    <3>2. msgs[i].turn = r
      BY <1>2, <2>1, <3>1 DEF Message
    <3> QED
      BY <1>2, <3>1, <3>2 DEF Silent
  <2> QED
    BY <2>2, <2>3
<1> QED
  BY <1>3, <1>4, FS_EmptySet

\* The list that becomes the thread says nothing of turns yet to start.
LEMMA ListStep ==
  ASSUME TurnInv, ListInv, [Next]_turnVars
  PROVE  ListInv'
<1>0. /\ stage \in [Turns -> Stages] /\ mine \in [Turns -> Seq(Msg)] /\ thread \in Seq(Msg)
  BY DEF TurnInv, ShapeInv
<1>1. ASSUME NEW r \in Turns, Load(r) PROVE ListInv'
  <2> DEFINE m == Message("human", r)
  <2>1. /\ stage[r] = "opened" /\ stage' = [stage EXCEPT ![r] = "agent"]
        /\ mine' = [mine EXCEPT ![r] = Append(thread, m)] /\ thread' = mine'[r]
    BY <1>1 DEF Load, Ready, Goto
  <2>2. /\ thread' = Append(thread, m) /\ mine'[r] = Append(thread, m) /\ stage'[r] = "agent"
        /\ \A q \in Turns \ {r} : mine'[q] = mine[q] /\ stage'[q] = stage[q]
    BY <1>0, <2>1
  <2>3. m \in Msg /\ m.turn = r
    BY DEF m, Message, Msg, Kinds
  <2>4. ASSUME NEW s \in Turns, stage'[s] \in {"new", "opened"}
        PROVE  Silent(thread', s) /\ \A q \in Turns : Silent(mine'[q], s)
    <3>1. s # r /\ stage[s] \in {"new", "opened"}
      BY <2>2, <2>4
    <3>2. Silent(thread, s) /\ \A q \in Turns : Silent(mine[q], s)
      BY <3>1 DEF ListInv
    <3>3. Silent(Append(thread, m), s)
      BY <1>0, <2>3, <3>1, <3>2, SilentAppend
    <3> QED
      BY <2>2, <3>2, <3>3
  <2>5. ASSUME NEW s \in Turns, stage'[s] \in InGraph
        PROVE  /\ \E k \in DOMAIN mine'[s] : Question(mine'[s], s, k)
               /\ Cardinality(OwnCalls(mine'[s], s)) <= MaxRounds
    <3>1. CASE s = r
      <4>1. Silent(thread, r)
        BY <2>1 DEF ListInv
      <4>2. /\ \E k \in DOMAIN mine'[r] : Question(mine'[r], r, k)
            /\ Cardinality(OwnCalls(mine'[r], r)) = 0
        BY <1>0, <2>2, <4>1, QuestionLoaded
      <4> QED
        BY <3>1, <4>2, TurnAssumptions
    <3>2. CASE s # r
      BY <2>2, <2>5, <3>2 DEF ListInv
    <3> QED
      BY <3>1, <3>2
  <2> QED
    BY <2>4, <2>5 DEF ListInv, Silent
<1>2. ASSUME NEW r \in Turns, NodeMoves(r) PROVE ListInv'
  <2>1. PICK kind \in {"calls", "results", "prose"} :
          /\ stage[r] \in InGraph /\ GraphStep(r, kind) /\ (kind = "calls" => ~Capped(mine[r]))
          /\ Goto(r, IF kind = "calls" THEN "tools" ELSE IF kind = "results" THEN "agent" ELSE "finish")
    BY <1>2 DEF NodeMoves
  <2> DEFINE m == Message(kind, r)
  <2>2. /\ thread' = Append(mine[r], m) /\ mine'[r] = Append(mine[r], m)
        /\ stage'[r] \notin {"new", "opened"}
        /\ \A q \in Turns \ {r} : mine'[q] = mine[q] /\ stage'[q] = stage[q]
    BY <1>0, <2>1 DEF GraphStep, Goto
  <2>3. m \in Msg /\ m.turn = r /\ (m = Message("calls", r) <=> kind = "calls") /\ kind \in Kinds \ {"human"}
    BY DEF Message, Msg, Kinds
  <2>4. ASSUME NEW s \in Turns, stage'[s] \in {"new", "opened"}
        PROVE  Silent(thread', s) /\ \A q \in Turns : Silent(mine'[q], s)
    <3>1. s # r /\ stage[s] \in {"new", "opened"}
      BY <2>2, <2>4
    <3>2. \A q \in Turns : Silent(mine[q], s)
      BY <3>1 DEF ListInv
    <3>3. Silent(Append(mine[r], m), s)
      BY <1>0, <2>3, <3>1, <3>2, SilentAppend
    <3> QED
      BY <2>2, <3>2, <3>3
  <2>5. /\ \E k \in DOMAIN mine'[r] : Question(mine'[r], r, k)
        /\ Cardinality(OwnCalls(mine'[r], r)) <= MaxRounds
    <3>1. PICK k \in DOMAIN mine[r] : Question(mine[r], r, k)
      BY <2>1 DEF ListInv
    <3>2. k \in DOMAIN mine'[r] /\ Question(mine'[r], r, k)
      BY <1>0, <2>2, <2>3, <3>1, QuestionAppend
    <3>3. ToolRounds(mine[r]) = Cardinality(OwnCalls(mine[r], r))
      BY <1>0, <3>1, RoundsAreOwn
    <3>4. /\ Cardinality(OwnCalls(mine[r], r)) \in Nat
          /\ Cardinality(OwnCalls(mine'[r], r)) =
               IF kind = "calls" THEN Cardinality(OwnCalls(mine[r], r)) + 1
               ELSE Cardinality(OwnCalls(mine[r], r))
      BY <1>0, <2>2, <2>3, OwnCallsAppend
    <3>5. Cardinality(OwnCalls(mine[r], r)) <= MaxRounds
      BY <2>1 DEF ListInv
    <3>6. kind = "calls" => Cardinality(OwnCalls(mine[r], r)) < MaxRounds
      BY <2>1, <3>3, <3>4, TurnAssumptions DEF Capped
    <3>7. Cardinality(OwnCalls(mine'[r], r)) <= MaxRounds
      BY <3>4, <3>5, <3>6, TurnAssumptions
    <3> QED
      BY <3>2, <3>7
  <2>6. ASSUME NEW s \in Turns \ {r}, stage'[s] \in InGraph
        PROVE  /\ \E k \in DOMAIN mine'[s] : Question(mine'[s], s, k)
               /\ Cardinality(OwnCalls(mine'[s], s)) <= MaxRounds
    BY <2>2, <2>6 DEF ListInv
  <2> QED
    BY <2>4, <2>5, <2>6 DEF ListInv, Silent
<1>3. CASE ListsStay
  <2>1. /\ thread' = thread /\ mine' = mine
        /\ \A q \in Turns : stage'[q] \in InGraph => stage[q] \in InGraph
        /\ \A q \in Turns : stage'[q] \in {"new", "opened"} => stage[q] \in {"new", "opened"}
    BY <1>3 DEF ListsStay
  <2>2. \A s \in Turns : stage'[s] \in {"new", "opened"} =>
          Silent(thread', s) /\ \A q \in Turns : Silent(mine'[q], s)
    BY <2>1 DEF ListInv
  <2>3. \A s \in Turns : stage'[s] \in InGraph =>
          /\ \E k \in DOMAIN mine'[s] : Question(mine'[s], s, k)
          /\ Cardinality(OwnCalls(mine'[s], s)) <= MaxRounds
    BY <2>1 DEF ListInv
  <2> QED
    BY <2>2, <2>3 DEF ListInv
<1> QED
  BY <1>1, <1>2, <1>3, StepKinds

LEMMA ListInit == Init => ListInv
<1> SUFFICES ASSUME Init PROVE ListInv
  OBVIOUS
<1>1. \A r : Silent(<<>>, r)
  BY DEF Silent
<1>2. thread = <<>> /\ \A q \in Turns : mine[q] = <<>> /\ stage[q] = "new"
  BY DEF Init
<1> QED
  BY <1>1, <1>2 DEF ListInv, InGraph

\* The tool cap is per turn: a turn is capped only after MaxRounds rounds of its own,
\* whatever the thread has been through before.
THEOREM CapPerTurn == Spec => []CapIsPerTurn
<1>1. TurnInv /\ ListInv /\ [Next]_turnVars => (TurnInv /\ ListInv)'
  BY TurnStep, ListStep
<1>2. TurnInv /\ ListInv => CapIsPerTurn
  <2> SUFFICES ASSUME TurnInv, ListInv, NEW r \in Turns, stage[r] = "agent"
               PROVE  Capped(mine[r]) <=> Cardinality(OwnCalls(mine[r], r)) = MaxRounds
    BY DEF CapIsPerTurn, OwnCalls
  <2>1. mine[r] \in Seq(Msg) /\ stage[r] \in InGraph
    BY DEF TurnInv, ShapeInv, InGraph
  <2>2. PICK k \in DOMAIN mine[r] : Question(mine[r], r, k)
    BY <2>1 DEF ListInv
  <2>3. ToolRounds(mine[r]) = Cardinality(OwnCalls(mine[r], r))
    BY <2>1, <2>2, RoundsAreOwn
  <2>4. /\ Cardinality(OwnCalls(mine[r], r)) <= MaxRounds
        /\ Cardinality(OwnCalls(mine[r], r)) \in Nat
    <3>1. Message("human", r) \in Msg
      BY DEF Msg, Message, Kinds
    <3> QED
      BY <2>1, <3>1, OwnCallsAppend DEF ListInv
  <2> QED
    BY <2>3, <2>4, TurnAssumptions DEF Capped
<1> QED
  BY <1>1, <1>2, TurnInit, ListInit, PTL DEF Spec

----------------------------------------------------------------------------
(* Tool calls nobody answered.                                              *)

Dangles(msgs, i) ==
  msgs[i].kind = "calls" /\ (i = Len(msgs) \/ msgs[i + 1] # Message("results", msgs[i].turn))

Excused == {r \in Turns : failure[r] # "none" \/ overlapped[r]}

\* Every list that may become the thread, and the thread, hold none without a cause.
DangleInv ==
  /\ \A i \in DOMAIN thread : Dangles(thread, i) =>
       thread[i].turn \in Excused \/ (i = Len(thread) /\ stage[thread[i].turn] = "tools")
  /\ \A q \in Turns : stage[q] \in InGraph =>
       \A i \in DOMAIN mine[q] : Dangles(mine[q], i) =>
         \/ mine[q][i].turn \in Excused
         \/ i = Len(mine[q]) /\ mine[q][i].turn = q /\ stage[q] = "tools"

\* A message more settles the last call or leaves it open; the rest is as before.
LEMMA DanglesAppend ==
  ASSUME NEW msgs \in Seq(Msg), NEW m \in Msg, NEW i \in DOMAIN Append(msgs, m),
         Dangles(Append(msgs, m), i)
  PROVE  \/ i = Len(msgs) + 1 /\ m.kind = "calls" /\ Append(msgs, m)[i] = m
         \/ /\ i \in DOMAIN msgs /\ Dangles(msgs, i) /\ Append(msgs, m)[i] = msgs[i]
            /\ i = Len(msgs) => m # Message("results", msgs[i].turn)
<1> DEFINE list == Append(msgs, m)
           n == Len(msgs)
<1>1. /\ DOMAIN list = 1 .. (n + 1) /\ n \in Nat /\ DOMAIN msgs = 1 .. n /\ Len(list) = n + 1
      /\ \A j \in 1 .. n : list[j] = msgs[j]
      /\ list[n + 1] = m
  BY AppendFacts
<1>2. i \in DOMAIN list /\ Dangles(list, i) /\ Len(msgs) = n
  OBVIOUS
<1> HIDE DEF list, n
<1>3. /\ i \in 1 .. (n + 1) /\ list[i].kind = "calls"
      /\ i = n + 1 \/ list[i + 1] # Message("results", list[i].turn)
  BY <1>1, <1>2 DEF Dangles
<1>4. CASE i = n + 1
  <2>1. m.kind = "calls" /\ list[i] = m
    BY <1>1, <1>3, <1>4
  <2> QED
    BY <1>2, <1>4, <2>1 DEF list
<1>5. CASE i # n + 1
  <2>1. i \in 1 .. n /\ list[i] = msgs[i]
    BY <1>1, <1>3, <1>5
  <2>2. msgs[i].kind = "calls" /\ list[i + 1] # Message("results", msgs[i].turn)
    BY <1>3, <1>5, <2>1
  <2>3. i = n => m # Message("results", msgs[i].turn)
    BY <1>1, <2>2
  <2>4. i # n => list[i + 1] = msgs[i + 1]
    BY <1>1, <2>1
  <2>5. i \in DOMAIN msgs /\ Dangles(msgs, i)
    BY <1>1, <1>2, <2>1, <2>2, <2>4, Zenon DEF Dangles
  <2> QED
    BY <1>2, <2>1, <2>3, <2>5, Zenon DEF list
<1> QED
  BY <1>4, <1>5

LEMMA TurnOfMessage ==
  ASSUME NEW msgs \in Seq(Msg), NEW i \in DOMAIN msgs
  PROVE  msgs[i].turn \in Turns
<1>1. msgs[i] \in Msg
  OBVIOUS
<1> QED
  BY <1>1 DEF Msg

LEMMA DangleStep ==
  ASSUME TurnInv, DangleInv, [Next]_turnVars
  PROVE  DangleInv'
<1>0. /\ stage \in [Turns -> Stages] /\ mine \in [Turns -> Seq(Msg)] /\ thread \in Seq(Msg)
      /\ overlapped \in [Turns -> BOOLEAN]
  BY DEF TurnInv, ShapeInv
<1>1. ASSUME NEW r \in Turns, Load(r) PROVE DangleInv'
  <2> DEFINE m == Message("human", r)
  <2>1. /\ stage[r] = "opened" /\ stage' = [stage EXCEPT ![r] = "agent"]
        /\ mine' = [mine EXCEPT ![r] = Append(thread, m)] /\ thread' = mine'[r] /\ failure' = failure
        /\ MarkOverlap(r)
    BY <1>1 DEF Load, Ready, Goto
  <2>2. /\ thread' = Append(thread, m) /\ mine'[r] = Append(thread, m) /\ stage'[r] = "agent"
        /\ \A q \in Turns \ {r} : mine'[q] = mine[q] /\ stage'[q] = stage[q]
    BY <1>0, <2>1
  <2>3. /\ \A q \in Turns : overlapped[q] => overlapped'[q]
        /\ \A q \in Turns : stage[q] = "tools" => overlapped'[q]
    BY <1>0, <2>1 DEF MarkOverlap, InGraph
  <2>4. \A q \in Turns : q \in Excused => q \in Excused'
    BY <2>1, <2>3 DEF Excused
  <2>5. m \in Msg /\ m.kind = "human"
    BY DEF Message, Msg, Kinds
  <2>6. ASSUME NEW i \in DOMAIN thread', Dangles(thread', i) PROVE thread'[i].turn \in Excused'
    <3>1. i \in DOMAIN thread /\ Dangles(thread, i) /\ thread'[i] = thread[i]
      BY <1>0, <2>2, <2>5, <2>6, DanglesAppend
    <3>2. thread[i].turn \in Excused \/ stage[thread[i].turn] = "tools"
      BY <3>1 DEF DangleInv
    <3>3. thread[i].turn \in Turns
      BY <1>0, <3>1, TurnOfMessage
    <3> QED
      BY <2>3, <2>4, <3>1, <3>2, <3>3 DEF Excused
  <2>7. ASSUME NEW q \in Turns \ {r}, stage'[q] \in InGraph, NEW i \in DOMAIN mine'[q], Dangles(mine'[q], i)
        PROVE  \/ mine'[q][i].turn \in Excused'
               \/ i = Len(mine'[q]) /\ mine'[q][i].turn = q /\ stage'[q] = "tools"
    <3>1. mine'[q] = mine[q] /\ stage'[q] = stage[q] /\ mine[q][i].turn \in Turns
      BY <1>0, <2>2, <2>7, TurnOfMessage
    <3>2. mine[q][i].turn \in Excused \/ (i = Len(mine[q]) /\ mine[q][i].turn = q /\ stage[q] = "tools")
      BY <2>7, <3>1 DEF DangleInv
    <3> QED
      BY <2>4, <3>1, <3>2
  <2>8. ASSUME NEW q \in Turns, stage'[q] \in InGraph, NEW i \in DOMAIN mine'[q], Dangles(mine'[q], i)
        PROVE  \/ mine'[q][i].turn \in Excused'
               \/ i = Len(mine'[q]) /\ mine'[q][i].turn = q /\ stage'[q] = "tools"
    <3>1. CASE q = r
      BY <2>2, <2>6, <2>8, <3>1
    <3>2. CASE q # r
      BY <2>7, <2>8, <3>2
    <3> QED
      BY <3>1, <3>2
  <2> QED
    BY <2>6, <2>8 DEF DangleInv, Dangles
<1>2. ASSUME NEW r \in Turns, NodeMoves(r) PROVE DangleInv'
  <2>1. PICK kind \in {"calls", "results", "prose"} :
          /\ stage[r] \in InGraph /\ GraphStep(r, kind)
          /\ (kind = "results" <=> stage[r] = "tools")
          /\ Goto(r, IF kind = "calls" THEN "tools" ELSE IF kind = "results" THEN "agent" ELSE "finish")
          /\ UNCHANGED <<failure, overlapped>>
    BY <1>2 DEF NodeMoves
  <2> DEFINE m == Message(kind, r)
  <2>2. /\ thread' = Append(mine[r], m) /\ mine'[r] = Append(mine[r], m)
        /\ stage'[r] = IF kind = "calls" THEN "tools" ELSE IF kind = "results" THEN "agent" ELSE "finish"
        /\ \A q \in Turns \ {r} : mine'[q] = mine[q] /\ stage'[q] = stage[q]
    BY <1>0, <2>1 DEF GraphStep, Goto
  <2>3. m \in Msg /\ m.turn = r /\ m.kind = kind
    BY DEF Message, Msg, Kinds
  <2>4. ASSUME NEW i \in DOMAIN mine'[r], Dangles(mine'[r], i)
        PROVE  /\ mine'[r][i].turn \in Turns
               /\ \/ mine'[r][i].turn \in Excused
                  \/ i = Len(mine'[r]) /\ mine'[r][i].turn = r /\ stage'[r] = "tools"
    <3>1. CASE i = Len(mine[r]) + 1 /\ kind = "calls" /\ mine'[r][i] = m
      <4>1. Len(mine'[r]) = Len(mine[r]) + 1
        BY <1>0, <2>2, <2>3
      <4> QED
        BY <2>2, <2>3, <3>1, <4>1
    <3>2. CASE /\ i \in DOMAIN mine[r] /\ Dangles(mine[r], i) /\ mine'[r][i] = mine[r][i]
               /\ i = Len(mine[r]) => m # Message("results", mine[r][i].turn)
      <4>1. mine[r][i].turn \in Turns
        BY <1>0, <3>2, TurnOfMessage
      <4>2. \/ mine[r][i].turn \in Excused
            \/ i = Len(mine[r]) /\ mine[r][i].turn = r /\ stage[r] = "tools"
        BY <2>1, <3>2 DEF DangleInv
      <4>3. mine[r][i].turn \in Excused
        BY <2>1, <3>2, <4>2
      <4> QED
        BY <3>2, <4>1, <4>3
    <3> QED
      BY <1>0, <2>2, <2>3, <2>4, <3>1, <3>2, DanglesAppend
  <2>5. \A q \in Turns : q \in Excused' <=> q \in Excused
    BY <2>1 DEF Excused
  <2>6. ASSUME NEW i \in DOMAIN thread', Dangles(thread', i)
        PROVE  thread'[i].turn \in Excused' \/ (i = Len(thread') /\ stage'[thread'[i].turn] = "tools")
    <3>1. thread' = mine'[r]
      BY <2>2
    <3>2. /\ mine'[r][i].turn \in Turns
          /\ \/ mine'[r][i].turn \in Excused
             \/ i = Len(mine'[r]) /\ mine'[r][i].turn = r /\ stage'[r] = "tools"
      BY <2>4, <2>6, <3>1
    <3> QED
      BY <2>5, <3>1, <3>2
  <2>7. ASSUME NEW q \in Turns, stage'[q] \in InGraph, NEW i \in DOMAIN mine'[q], Dangles(mine'[q], i)
        PROVE  \/ mine'[q][i].turn \in Excused'
               \/ i = Len(mine'[q]) /\ mine'[q][i].turn = q /\ stage'[q] = "tools"
    <3>1. CASE q = r
      BY <2>4, <2>5, <2>7, <3>1
    <3>2. CASE q # r
      <4>1. mine'[q] = mine[q] /\ stage'[q] = stage[q] /\ mine[q][i].turn \in Turns
        BY <1>0, <2>2, <2>7, <3>2, TurnOfMessage
      <4>2. mine[q][i].turn \in Excused \/ (i = Len(mine[q]) /\ mine[q][i].turn = q /\ stage[q] = "tools")
        BY <2>7, <4>1 DEF DangleInv
      <4> QED
        BY <2>5, <4>1, <4>2
    <3> QED
      BY <3>1, <3>2
  <2> QED
    BY <2>6, <2>7 DEF DangleInv, Dangles
<1>3. CASE ListsStay
  <2>1. /\ thread' = thread /\ mine' = mine /\ overlapped' = overlapped
        /\ \A q \in Turns : stage'[q] \in InGraph => stage'[q] = stage[q]
        /\ \A q \in Turns : failure[q] # "none" => failure'[q] # "none"
        /\ \A q \in Turns : stage[q] = "tools" => stage'[q] = "tools" \/ failure'[q] # "none"
    BY <1>3 DEF ListsStay
  <2>2. \A q \in Turns : q \in Excused => q \in Excused'
    BY <2>1 DEF Excused
  <2>3. ASSUME NEW i \in DOMAIN thread, Dangles(thread, i)
        PROVE  thread[i].turn \in Excused' \/ (i = Len(thread) /\ stage'[thread[i].turn] = "tools")
    <3>1. thread[i].turn \in Turns
      BY <1>0, <2>3, TurnOfMessage
    <3>2. thread[i].turn \in Excused \/ (i = Len(thread) /\ stage[thread[i].turn] = "tools")
      BY <2>3 DEF DangleInv
    <3> QED
      BY <2>1, <2>2, <3>1, <3>2 DEF Excused
  <2>4. ASSUME NEW q \in Turns, stage'[q] \in InGraph, NEW i \in DOMAIN mine[q], Dangles(mine[q], i)
        PROVE  \/ mine[q][i].turn \in Excused'
               \/ i = Len(mine[q]) /\ mine[q][i].turn = q /\ stage'[q] = "tools"
    <3>1. mine[q][i].turn \in Turns /\ stage'[q] = stage[q]
      BY <1>0, <2>1, <2>4, TurnOfMessage
    <3>2. mine[q][i].turn \in Excused \/ (i = Len(mine[q]) /\ mine[q][i].turn = q /\ stage[q] = "tools")
      BY <2>4, <3>1 DEF DangleInv
    <3> QED
      BY <2>2, <3>1, <3>2
  <2> QED
    BY <2>1, <2>3, <2>4 DEF DangleInv, Dangles
<1> QED
  BY <1>1, <1>2, <1>3, StepKinds

\* A tool call stays unanswered in the checkpoint only while its turn is at its tools, or
\* when that turn failed or ran together with another one.
THEOREM DanglingCaused == Spec => []DanglingCallsHaveACause
<1>1. Init => DangleInv
  BY DEF Init, DangleInv, InGraph
<1>2. TurnInv /\ DangleInv /\ [Next]_turnVars => DangleInv'
  BY DangleStep
<1>3. DangleInv => DanglingCallsHaveACause
  BY DEF DangleInv, DanglingCallsHaveACause, Dangles, Excused
<1> QED
  BY <1>1, <1>2, <1>3, TurnInvariant, PTL DEF Spec

----------------------------------------------------------------------------
(* The stream of a turn: what is on the wire followed by what is yielded.   *)

Balance(s) == Count("tool_call", s) - Count("tool_result", s)

Grammar(w) ==
  /\ \A i \in DOMAIN w :
       /\ w[i] = "start" <=> i = 1
       /\ w[i] \in {"done", "error"} => i = Len(w)
       /\ w[i] = "assumptions" /\ i < Len(w) => w[i + 1] = "done"
       /\ Balance(SubSeq(w, 1, i)) \in 0 .. 1
  /\ Contains(w, "done") => Count("tool_call", w) = Count("tool_result", w)

\* A stream that has begun and may go on in any way.
Live(w) == w # <<>> /\ \A e \in {"done", "error", "assumptions"} : ~Contains(w, e)

Whole(r) == wire[r] \o outbox[r]

\* Until a turn is at its end, its stream is live and a call is open only at the tools.
StreamOf(r) ==
  /\ Grammar(Whole(r))
  /\ stage[r] = "new" => Whole(r) = <<>>
  /\ stage[r] \in {"opened", "agent", "tools", "finish"} =>
       Live(Whole(r)) /\ Balance(Whole(r)) = IF stage[r] = "tools" THEN 1 ELSE 0
  /\ stage[r] \notin {"record", "closed"} => failure[r] = "none"
  /\ stage[r] = "record" /\ failure[r] = "graph" => Live(Whole(r))

StreamInv == \A r \in Turns : StreamOf(r)

LEMMA CountAppend ==
  ASSUME NEW s \in Seq(Events), NEW x \in Events, NEW e
  PROVE  /\ Count(e, s) \in Nat
         /\ Count(e, Append(s, x)) = IF x = e THEN Count(e, s) + 1 ELSE Count(e, s)
<1> DEFINE these == {i \in DOMAIN s : s[i] = e}
           n == Len(s) + 1
<1>1. /\ DOMAIN Append(s, x) = 1 .. n /\ Len(s) \in Nat /\ DOMAIN s = 1 .. Len(s)
      /\ \A i \in 1 .. Len(s) : Append(s, x)[i] = s[i]
      /\ Append(s, x)[n] = x
  OBVIOUS
<1>2. {i \in DOMAIN Append(s, x) : Append(s, x)[i] = e} = IF x = e THEN these \union {n} ELSE these
  BY <1>1
<1>3. IsFiniteSet(these) /\ Cardinality(these) \in Nat /\ n \notin these
  <2>1. these \in SUBSET (1 .. Len(s)) /\ n \notin these
    BY <1>1
  <2>2. IsFiniteSet(1 .. Len(s))
    BY <1>1, FS_Interval
  <2> QED
    BY <2>1, <2>2, FS_Subset, FS_CardinalityType
<1>4. Cardinality(these \union {n}) = Cardinality(these) + 1
  BY <1>3, FS_AddElement
<1> QED
  BY <1>2, <1>3, <1>4 DEF Count

LEMMA BalanceAppend ==
  ASSUME NEW s \in Seq(Events), NEW x \in Events
  PROVE  /\ Balance(s) \in Int
         /\ Balance(Append(s, x)) = CASE x = "tool_call" -> Balance(s) + 1
                                      [] x = "tool_result" -> Balance(s) - 1
                                      [] OTHER -> Balance(s)
<1>1. /\ Count("tool_call", s) \in Nat /\ Count("tool_result", s) \in Nat
      /\ Count("tool_call", Append(s, x)) =
           IF x = "tool_call" THEN Count("tool_call", s) + 1 ELSE Count("tool_call", s)
      /\ Count("tool_result", Append(s, x)) =
           IF x = "tool_result" THEN Count("tool_result", s) + 1 ELSE Count("tool_result", s)
  BY CountAppend
<1> QED
  BY <1>1 DEF Balance

\* What has been sent of a stream that keeps the grammar keeps it.
LEMMA GrammarPrefix ==
  ASSUME NEW w \in Seq(Events), NEW o \in Seq(Events), Grammar(w \o o)
  PROVE  Grammar(w)
<1> DEFINE v == w \o o
<1>1. /\ v \in Seq(Events) /\ DOMAIN v = 1 .. Len(v) /\ Len(v) = Len(w) + Len(o)
      /\ DOMAIN w = 1 .. Len(w) /\ Len(w) \in Nat /\ Len(o) \in Nat
      /\ \A i \in 1 .. Len(w) : v[i] = w[i]
  OBVIOUS
<1>2. \A i \in 1 .. Len(w) : SubSeq(v, 1, i) = SubSeq(w, 1, i)
  BY <1>1
<1>3. Grammar(v) /\ (o = <<>> => v = w)
  OBVIOUS
<1> HIDE DEF v
<1>4. ASSUME Contains(w, "done") PROVE v = w
  <2>1. PICK i \in 1 .. Len(w) : v[i] = "done"
    BY <1>1, <1>4 DEF Contains
  <2>2. i = Len(v)
    <3>1. i \in DOMAIN v
      BY <1>1, <2>1
    <3> QED
      BY <1>3, <2>1, <3>1, Zenon DEF Grammar
  <2>3. Len(o) = 0
    BY <1>1, <2>1, <2>2
  <2>4. o = <<>>
    BY <2>3
  <2> QED
    BY <1>3, <2>4
<1>5. Contains(w, "done") => Count("tool_call", w) = Count("tool_result", w)
  BY <1>4, <1>3 DEF Grammar
<1>6. ASSUME NEW i \in DOMAIN w
      PROVE  /\ w[i] = "start" <=> i = 1
             /\ w[i] \in {"done", "error"} => i = Len(w)
             /\ w[i] = "assumptions" /\ i < Len(w) => w[i + 1] = "done"
             /\ Balance(SubSeq(w, 1, i)) \in 0 .. 1
  <2>1. i \in DOMAIN v /\ i \in 1 .. Len(w) /\ v[i] = w[i]
    BY <1>1
  <2>2. /\ w[i] = "start" <=> i = 1
        /\ w[i] \in {"done", "error"} => i = Len(v)
        /\ w[i] = "assumptions" /\ i < Len(v) => v[i + 1] = "done"
        /\ Balance(SubSeq(v, 1, i)) \in 0 .. 1
    BY <1>3, <2>1 DEF Grammar
  <2>3. i < Len(w) => v[i + 1] = w[i + 1]
    BY <1>1, <2>1
  <2>4. (i = Len(v) => i = Len(w)) /\ (i < Len(w) => i < Len(v))
    <3>1. i \in Nat /\ i <= Len(w) /\ Len(w) <= Len(v) /\ Len(v) \in Nat /\ Len(w) \in Nat
      BY <1>1, <2>1
    <3> QED
      BY <3>1
  <2>5. SubSeq(v, 1, i) = SubSeq(w, 1, i)
    BY <1>2, <2>1
  <2> QED
    BY <2>2, <2>3, <2>4, <2>5, Zenon
<1> QED
  BY <1>5, <1>6 DEF Grammar

\* The events a stream may go on with.
LEMMA GrammarAppend ==
  ASSUME NEW w \in Seq(Events), NEW e \in Events \ {"start"}, w # <<>>, Grammar(w),
         ~Contains(w, "done"), ~Contains(w, "error"),
         w[Len(w)] = "assumptions" => e = "done",
         Balance(Append(w, e)) \in 0 .. 1, e = "done" => Balance(w) = 0
  PROVE  Grammar(Append(w, e))
<1> DEFINE v == Append(w, e)
           n == Len(w) + 1
<1>1. /\ v \in Seq(Events) /\ DOMAIN v = 1 .. n /\ Len(v) = n /\ v[n] = e
      /\ DOMAIN w = 1 .. Len(w) /\ Len(w) \in Nat \ {0}
      /\ \A i \in 1 .. Len(w) : v[i] = w[i]
  OBVIOUS
<1>2. SubSeq(v, 1, n) = v /\ \A i \in 1 .. Len(w) : SubSeq(v, 1, i) = SubSeq(w, 1, i)
  BY <1>1
<1>3. \A i \in 1 .. Len(w) : w[i] # "done" /\ w[i] # "error"
  BY <1>1 DEF Contains
<1>4. Balance(v) \in 0 .. 1 /\ n \in Nat /\ n > 1
  BY <1>1
<1>5. ASSUME NEW i \in 1 .. n
      PROVE  /\ v[i] = "start" <=> i = 1
             /\ v[i] \in {"done", "error"} => i = n
             /\ v[i] = "assumptions" /\ i < n => v[i + 1] = "done"
             /\ Balance(SubSeq(v, 1, i)) \in 0 .. 1
  <2>1. CASE i = n
    <3> HIDE DEF v, n
    <3>1. v[i] = e /\ SubSeq(v, 1, i) = v
      BY <1>1, <1>2, <2>1
    <3>2. i # 1 /\ ~(i < n)
      BY <1>4, <2>1
    <3> QED
      BY <1>4, <2>1, <3>1, <3>2
  <2>2. CASE i # n
    <3>1. i \in DOMAIN w /\ i \in 1 .. Len(w) /\ v[i] = w[i] /\ SubSeq(v, 1, i) = SubSeq(w, 1, i)
      BY <1>1, <1>2, <2>2
    <3>2. /\ w[i] = "start" <=> i = 1
          /\ w[i] = "assumptions" /\ i < Len(w) => w[i + 1] = "done"
          /\ Balance(SubSeq(w, 1, i)) \in 0 .. 1
      BY <3>1 DEF Grammar
    <3>3. v[i] = "assumptions" => v[i + 1] = "done"
      <4>1. CASE i = Len(w)
        BY <1>1, <3>1, <4>1
      <4>2. CASE i # Len(w)
        <5>1. i < Len(w) /\ i + 1 \in 1 .. Len(w)
          BY <1>1, <3>1, <4>2
        <5> QED
          BY <1>1, <3>1, <3>2, <5>1
      <4> QED
        BY <4>1, <4>2
    <3> QED
      BY <1>3, <3>1, <3>2, <3>3
  <2> QED
    BY <2>1, <2>2
<1>6. Contains(v, "done") => Count("tool_call", v) = Count("tool_result", v)
  <2>1. Contains(v, "done") => e = "done"
    BY ContainsAppend
  <2>2. e = "done" => Balance(v) = 0
    BY BalanceAppend
  <2>3. Count("tool_call", v) \in Nat /\ Count("tool_result", v) \in Nat
    BY <1>1, CountAppend
  <2> QED
    BY <2>1, <2>2, <2>3 DEF Balance
<1> QED
  BY <1>1, <1>5, <1>6 DEF Grammar

LEMMA GrammarBalance ==
  ASSUME NEW w \in Seq(Events), w # <<>>, Grammar(w)
  PROVE  Balance(w) \in 0 .. 1
<1>1. Len(w) \in DOMAIN w /\ SubSeq(w, 1, Len(w)) = w
  BY SubSeqFull
<1> QED
  BY <1>1 DEF Grammar

LEMMA StartStream == Grammar(<<"start">>) /\ Live(<<"start">>) /\ Balance(<<"start">>) = 0
<1> DEFINE w == <<"start">>
<1>1. \A e : Contains(w, e) => e = "start"
  BY EventLists
<1>2. w \in Seq(Events) /\ w # <<>> /\ Len(w) = 1 /\ w[1] = "start"
  BY EventLists
<1>3. DOMAIN w = {1}
  OBVIOUS
<1> HIDE DEF w
<1>4. SubSeq(w, 1, 1) = w
  BY <1>2, SubSeqFull
<1>5. Count("tool_call", w) = 0 /\ Count("tool_result", w) = 0
  <2>1. {i \in DOMAIN w : w[i] = "tool_call"} = {} /\ {i \in DOMAIN w : w[i] = "tool_result"} = {}
    BY <1>2, <1>3
  <2> QED
    BY <2>1, FS_EmptySet DEF Count
<1>6. Balance(w) = 0
  BY <1>5 DEF Balance
<1>7. Grammar(w)
  <2>1. ASSUME NEW i \in DOMAIN w
        PROVE  /\ w[i] = "start" <=> i = 1
               /\ w[i] \in {"done", "error"} => i = Len(w)
               /\ w[i] = "assumptions" /\ i < Len(w) => w[i + 1] = "done"
               /\ Balance(SubSeq(w, 1, i)) \in 0 .. 1
    <3>1. i = 1 /\ w[i] = "start"
      BY <1>2, <1>3
    <3>2. Balance(SubSeq(w, 1, i)) = 0
      BY <1>4, <1>6, <3>1
    <3> QED
      BY <3>1, <3>2
  <2> QED
    BY <1>5, <2>1 DEF Grammar
<1>8. Live(w)
  BY <1>1, <1>2 DEF Live
<1> QED
  BY <1>6, <1>7, <1>8 DEF w

LEMMA LiveAppend ==
  ASSUME NEW w \in Seq(Events), Grammar(w), Live(w), NEW e \in Events \ {"start"},
         Balance(Append(w, e)) \in 0 .. 1, e = "done" => Balance(w) = 0
  PROVE  /\ Append(w, e) \in Seq(Events) /\ Grammar(Append(w, e))
         /\ e \in {"token", "tool_call", "tool_result"} => Live(Append(w, e))
<1>1. w[Len(w)] # "assumptions"
  BY DEF Live, Contains
<1>2. Grammar(Append(w, e))
  BY <1>1, GrammarAppend DEF Live
<1>3. \A x : Contains(Append(w, e), x) <=> Contains(w, x) \/ e = x
  BY ContainsAppend
<1>4. Append(w, e) \in Seq(Events) /\ Append(w, e) # <<>>
  OBVIOUS
<1> QED
  BY <1>2, <1>3, <1>4 DEF Live

LEMMA ConcatOneTwo ==
  ASSUME NEW S, NEW w \in Seq(S), NEW x \in S, NEW y \in S
  PROVE  w \o <<x>> = Append(w, x) /\ w \o <<x, y>> = Append(Append(w, x), y)
<1> DEFINE v == Append(Append(w, x), y)
           u == w \o <<x, y>>
<1>1. w \o <<x>> = Append(w, x)
  OBVIOUS
<1>2. /\ <<x, y>> \in Seq(S) /\ Len(<<x, y>>) = 2 /\ <<x, y>>[1] = x /\ <<x, y>>[2] = y
      /\ Len(w) \in Nat
  OBVIOUS
<1>3. /\ u \in Seq(S) /\ Len(u) = Len(w) + 2 /\ \A i \in 1 .. Len(w) : u[i] = w[i]
      /\ u[Len(w) + 1] = x /\ u[Len(w) + 2] = y
  BY <1>2
<1>4. Append(w, x) \in Seq(S) /\ Len(Append(w, x)) = Len(w) + 1
  OBVIOUS
<1>5. /\ v \in Seq(S) /\ Len(v) = Len(w) + 2 /\ \A i \in 1 .. Len(w) : v[i] = w[i]
      /\ v[Len(w) + 1] = x /\ v[Len(w) + 2] = y
  BY <1>2, <1>4
<1>6. \A i \in 1 .. (Len(w) + 2) : i \in 1 .. Len(w) \/ i = Len(w) + 1 \/ i = Len(w) + 2
  BY <1>2
<1> HIDE DEF u, v
<1>7. Len(u) = Len(v) /\ \A i \in 1 .. Len(u) : u[i] = v[i]
  BY <1>3, <1>5, <1>6
<1>8. u = v
  BY <1>3, <1>5, <1>7, SeqEqual
<1> QED
  BY <1>1, <1>8 DEF u, v

\* The end of an answer, with its assumptions or without.
LEMMA DoneAppend ==
  ASSUME NEW w \in Seq(Events), Grammar(w), Live(w), Balance(w) = 0
  PROVE  Grammar(w \o <<"done">>) /\ Grammar(w \o <<"assumptions", "done">>)
<1> DEFINE v == Append(w, "assumptions")
<1>1. /\ "done" \in Events \ {"start"} /\ "assumptions" \in Events \ {"start"}
      /\ "assumptions" # "done"
  BY DEF Events
<1>2. v \in Seq(Events) /\ Grammar(v) /\ Balance(v) = 0
  BY <1>1, BalanceAppend, LiveAppend
<1>3. Grammar(Append(w, "done"))
  BY <1>1, BalanceAppend, LiveAppend
<1>4. Grammar(Append(v, "done"))
  <2>1. ~Contains(v, "done") /\ ~Contains(v, "error") /\ v # <<>>
    BY <1>1, ContainsAppend DEF Live
  <2> HIDE DEF v
  <2>2. Balance(Append(v, "done")) = 0
    BY <1>1, <1>2, BalanceAppend
  <2> QED
    BY <1>1, <1>2, <2>1, <2>2, GrammarAppend
<1>5. w \o <<"done">> = Append(w, "done") /\ w \o <<"assumptions", "done">> = Append(v, "done")
  BY ConcatOneTwo
<1> HIDE DEF v
<1> QED
  BY <1>3, <1>4, <1>5, Zenon

LEMMA StreamApart ==
  ASSUME NEW q \in Turns, StreamOf(q), stage'[q] = stage[q], failure'[q] = failure[q],
         Whole(q)' = Whole(q)
  PROVE  StreamOf(q)'
BY DEF StreamOf

\* Sending moves the head of what is yielded to the end of the wire.
LEMMA SendWhole ==
  ASSUME NEW w \in Seq(Events), NEW o \in Seq(Events), o # <<>>
  PROVE  Append(w, Head(o)) \o Tail(o) = w \o o
OBVIOUS

\* A turn that is ready for its next stage yields its events behind those it has sent.
LEMMA YieldWhole ==
  ASSUME TurnInv, NEW r \in Turns, outbox[r] = <<>>, NEW events \in Seq(Events),
         Yield(r, events), wire' = wire
  PROVE  /\ Whole(r)' = Whole(r) \o events /\ Whole(r) \in Seq(Events)
         /\ \A q \in Turns \ {r} : Whole(q)' = Whole(q)
<1>1. wire[r] \in Seq(Events) /\ outbox \in [Turns -> Seq(Events)]
  BY DEF TurnInv, ShapeInv
<1>2. Whole(r) = wire[r]
  BY <1>1 DEF Whole
<1>3. outbox'[r] = events /\ \A q \in Turns \ {r} : outbox'[q] = outbox[q]
  BY <1>1 DEF Yield
<1> QED
  BY <1>1, <1>2, <1>3 DEF Whole

\* A turn that is ready yields nothing, or one event its stream may go on with.
LEMMA StreamGoesOn ==
  ASSUME TurnInv, StreamInv, NEW r \in Turns, stage[r] \in {"opened", "agent", "tools"},
         outbox[r] = <<>>, wire' = wire, failure' = failure,
         NEW next \in {"agent", "tools", "finish"}, Goto(r, next),
         \/ (outbox' = outbox \/ Yield(r, <<"token">>)) /\ (stage[r] = "tools" <=> next = "tools")
         \/ Yield(r, <<"tool_call">>) /\ stage[r] # "tools" /\ next = "tools"
         \/ Yield(r, <<"tool_result">>) /\ stage[r] = "tools" /\ next # "tools"
  PROVE  StreamInv'
<1> DEFINE w == Whole(r)
<1>1. /\ w \in Seq(Events) /\ stage'[r] = next /\ \A q \in Turns \ {r} : stage'[q] = stage[q]
      /\ wire[r] \in Seq(Events) /\ w = wire[r]
  BY DEF TurnInv, ShapeInv, Goto, Whole
<1>2. /\ Grammar(w) /\ Live(w) /\ Balance(w) = (IF stage[r] = "tools" THEN 1 ELSE 0)
      /\ failure[r] = "none"
  BY DEF StreamInv, StreamOf
<1>3. CASE outbox' = outbox /\ (stage[r] = "tools" <=> next = "tools")
  <2>1. \A q \in Turns : Whole(q)' = Whole(q)
    BY <1>3 DEF Whole
  <2>2. StreamOf(r)'
    BY <1>1, <1>2, <1>3, <2>1 DEF StreamOf
  <2> QED
    BY <1>1, <2>1, <2>2, StreamApart DEF StreamInv
<1>4. ASSUME NEW e \in {"token", "tool_call", "tool_result"}, Yield(r, <<e>>),
             CASE e = "tool_call" -> stage[r] # "tools" /\ next = "tools"
               [] e = "tool_result" -> stage[r] = "tools" /\ next # "tools"
               [] OTHER -> stage[r] = "tools" <=> next = "tools"
      PROVE  StreamInv'
  <2>1. e \in Events \ {"start"} /\ <<e>> \in Seq(Events) /\ e # "done"
    BY DEF Events
  <2>2. Whole(r)' = w \o <<e>> /\ \A q \in Turns \ {r} : Whole(q)' = Whole(q)
    BY <1>4, <2>1, YieldWhole
  <2>3. w \o <<e>> = Append(w, e)
    BY <1>1, <2>1, ConcatOneTwo
  <2> HIDE DEF w
  <2>4. Balance(Append(w, e)) = IF next = "tools" THEN 1 ELSE 0
    <3>1. Balance(Append(w, e)) = CASE e = "tool_call" -> Balance(w) + 1
                                     [] e = "tool_result" -> Balance(w) - 1
                                     [] OTHER -> Balance(w)
      BY <1>1, <2>1, BalanceAppend
    <3> QED
      BY <1>2, <1>4, <3>1
  <2>5. Grammar(Append(w, e)) /\ Live(Append(w, e))
    BY <1>1, <1>2, <2>1, <2>4, LiveAppend
  <2>6. StreamOf(r)'
    BY <1>1, <1>2, <2>2, <2>3, <2>4, <2>5 DEF StreamOf
  <2> QED
    BY <1>1, <2>2, <2>6, StreamApart DEF StreamInv
<1> QED
  BY <1>3, <1>4

\* A turn that is over has told what it told: nothing more, a prefix of it, or its end.
LEMMA StreamEnds ==
  ASSUME TurnInv, StreamInv, NEW r \in Turns, wire' = wire,
         outbox' \in [Turns -> Seq(Events)], \A q \in Turns \ {r} : outbox'[q] = outbox[q],
         NEW over \in {"record", "closed"}, Goto(r, over),
         \A q \in Turns \ {r} : failure'[q] = failure[q],
         Grammar(Whole(r)'),
         over = "record" /\ failure'[r] = "graph" => Live(Whole(r)')
  PROVE  StreamInv'
<1>1. stage'[r] = over /\ \A q \in Turns \ {r} : stage'[q] = stage[q]
  BY DEF TurnInv, ShapeInv, Goto
<1>2. \A q \in Turns \ {r} : Whole(q)' = Whole(q)
  BY DEF Whole
<1>3. StreamOf(r)'
  BY <1>1 DEF StreamOf
<1> QED
  BY <1>1, <1>2, <1>3, StreamApart DEF StreamInv

LEMMA StreamStep ==
  ASSUME TurnInv, StreamInv, [Next]_turnVars
  PROVE  StreamInv'
<1>0. /\ stage \in [Turns -> Stages] /\ outbox \in [Turns -> Seq(Events)]
      /\ wire \in [Turns -> Seq(Events)]
      /\ failure \in [Turns -> {"none", "graph", "cut", "killed"}]
  BY DEF TurnInv, ShapeInv
<1>1. ASSUME NEW r \in Turns, Send(r) PROVE StreamInv'
  <2>1. /\ outbox[r] # <<>> /\ wire' = [wire EXCEPT ![r] = Append(wire[r], Head(outbox[r]))]
        /\ outbox' = [outbox EXCEPT ![r] = Tail(outbox[r])] /\ UNCHANGED <<stage, failure>>
    BY <1>1 DEF Send, Yield
  <2>2. Whole(r)' = Whole(r)
    BY <1>0, <2>1, SendWhole DEF Whole
  <2>3. \A q \in Turns \ {r} : Whole(q)' = Whole(q)
    BY <1>0, <2>1 DEF Whole
  <2> QED
    BY <2>1, <2>2, <2>3, StreamApart DEF StreamInv
<1>2. ASSUME NEW r \in Turns, Open(r) PROVE StreamInv'
  <2>1. /\ stage[r] = "new" /\ stage' = [stage EXCEPT ![r] = "opened"]
        /\ outbox' = [outbox EXCEPT ![r] = <<"start">>] /\ UNCHANGED <<wire, failure>>
    BY <1>2 DEF Open, Goto, Yield
  <2>2. wire[r] = <<>>
    <3>1. wire[r] \o outbox[r] = <<>>
      BY <2>1 DEF StreamInv, StreamOf, Whole
    <3> QED
      BY <1>0, <3>1, ConcatEqualIffEmpty
  <2>3. Whole(r)' = <<"start">>
    BY <1>0, <2>1, <2>2 DEF Whole
  <2>4. stage'[r] = "opened" /\ failure'[r] = "none"
    BY <1>0, <2>1 DEF StreamInv, StreamOf
  <2>5. StreamOf(r)'
    BY <2>3, <2>4, StartStream DEF StreamOf
  <2>6. \A q \in Turns \ {r} : Whole(q)' = Whole(q) /\ stage'[q] = stage[q]
    BY <1>0, <2>1 DEF Whole
  <2> QED
    BY <2>1, <2>5, <2>6, StreamApart DEF StreamInv
<1>3. ASSUME NEW r \in Turns, Load(r) PROVE StreamInv'
  BY <1>3, StreamGoesOn DEF Load, Ready
<1>4. ASSUME NEW r \in Turns, Token(r) PROVE StreamInv'
  <2>1. stage[r] = "agent" /\ outbox[r] = <<>> /\ Yield(r, <<"token">>) /\ UNCHANGED <<stage, wire, failure>>
    BY <1>4 DEF Token, Ready
  <2>2. Goto(r, "agent")
    BY <1>0, <2>1 DEF Goto
  <2> QED
    BY <2>1, <2>2, StreamGoesOn
<1>5. ASSUME NEW r \in Turns, AgentStep(r) PROVE StreamInv'
  <2>1. PICK kind \in {"calls", "prose"} :
          /\ stage[r] = "agent" /\ outbox[r] = <<>> /\ GraphStep(r, kind)
          /\ Goto(r, Route(mine'[r])) /\ UNCHANGED <<wire, failure>>
          /\ IF kind = "calls" THEN Yield(r, <<"tool_call">>) ELSE UNCHANGED outbox
    BY <1>5 DEF AgentStep, Ready
  <2>2. Route(mine'[r]) = IF kind = "calls" THEN "tools" ELSE "finish"
    <3>1. mine'[r] = Append(mine[r], Message(kind, r)) /\ mine[r] \in Seq(Msg)
      BY <2>1 DEF GraphStep, TurnInv, ShapeInv
    <3>2. Message(kind, r) \in Msg /\ Message(kind, r).kind = kind
      BY MessageType DEF Kinds
    <3>3. Last(mine'[r]) = Message(kind, r)
      BY <3>1, <3>2, HoldsAppend
    <3> QED
      BY <3>2, <3>3 DEF Route
  <2>3. CASE kind = "calls"
    BY <2>1, <2>2, <2>3, StreamGoesOn
  <2>4. CASE kind = "prose"
    BY <2>1, <2>2, <2>4, StreamGoesOn
  <2> QED
    BY <2>3, <2>4
<1>6. ASSUME NEW r \in Turns, ToolsStep(r) PROVE StreamInv'
  BY <1>6, StreamGoesOn DEF ToolsStep, Ready
<1>7. ASSUME NEW r \in Turns, Finish(r) PROVE StreamInv'
  <2>1. PICK events \in {<<"done">>, <<"assumptions", "done">>} : Yield(r, events)
    BY <1>7 DEF Finish
  <2>2. /\ stage[r] = "finish" /\ outbox[r] = <<>> /\ Goto(r, "record") /\ UNCHANGED <<wire, failure>>
    BY <1>7 DEF Finish, Ready
  <2>3. events \in Seq(Events)
    BY EventLists
  <2>4. Whole(r)' = Whole(r) \o events /\ Whole(r) \in Seq(Events)
    BY <2>1, <2>2, <2>3, YieldWhole
  <2>5. Grammar(Whole(r)') /\ failure'[r] = "none"
    <3>1. Grammar(Whole(r)) /\ Live(Whole(r)) /\ Balance(Whole(r)) = 0 /\ failure'[r] = "none"
      BY <2>2 DEF StreamInv, StreamOf
    <3>2. Grammar(Whole(r) \o events)
      BY <2>4, <3>1, DoneAppend
    <3> QED
      BY <2>4, <3>1, <3>2
  <2>6. outbox' \in [Turns -> Seq(Events)] /\ \A q \in Turns \ {r} : outbox'[q] = outbox[q]
    BY <1>0, <2>1, <2>3 DEF Yield
  <2> QED
    BY <2>2, <2>5, <2>6, StreamEnds
<1>8. ASSUME NEW r \in Turns, Fail(r) PROVE StreamInv'
  <2>1. /\ stage[r] \in {"opened", "agent", "tools"} /\ Goto(r, "record")
        /\ failure' = [failure EXCEPT ![r] = "graph"] /\ UNCHANGED <<outbox, wire>>
    BY <1>8 DEF Fail
  <2>2. Whole(r)' = Whole(r)
    BY <2>1 DEF Whole
  <2>3. Grammar(Whole(r)') /\ Live(Whole(r)')
    BY <2>1, <2>2 DEF StreamInv, StreamOf
  <2> QED
    BY <1>0, <2>1, <2>3, StreamEnds
<1>9. ASSUME NEW r \in Turns, Record(r) PROVE StreamInv'
  <2>1. /\ stage[r] = "record" /\ outbox[r] = <<>> /\ Goto(r, "closed") /\ UNCHANGED <<wire, failure>>
        /\ Yield(r, IF failure[r] = "graph" THEN <<"error">> ELSE <<>>)
    BY <1>9 DEF Record, Ready
  <2> DEFINE events == IF failure[r] = "graph" THEN <<"error">> ELSE <<>>
  <2>2. events \in Seq(Events) /\ "error" \in Events \ {"start"} /\ "error" # "done"
    BY EventLists DEF Events
  <2>3. Whole(r)' = Whole(r) \o events /\ Whole(r) \in Seq(Events)
    BY <2>1, <2>2, YieldWhole
  <2>4. Grammar(Whole(r)')
    <3>1. Grammar(Whole(r)) /\ (failure[r] = "graph" => Live(Whole(r)))
      BY <2>1 DEF StreamInv, StreamOf
    <3>2. CASE failure[r] = "graph"
      <4>1. Whole(r) # <<>> /\ Balance(Whole(r)) \in 0 .. 1
        BY <2>3, <3>1, <3>2, GrammarBalance DEF Live
      <4>2. Balance(Append(Whole(r), "error")) = Balance(Whole(r))
        BY <2>2, <2>3, BalanceAppend
      <4>3. Grammar(Append(Whole(r), "error"))
        BY <2>2, <2>3, <3>1, <3>2, <4>1, <4>2, LiveAppend
      <4>4. Whole(r) \o <<"error">> = Append(Whole(r), "error")
        BY <2>2, <2>3, ConcatOneTwo
      <4> QED
        BY <2>3, <3>2, <4>3, <4>4
    <3>3. CASE failure[r] # "graph"
      <4>1. Whole(r) \o <<>> = Whole(r)
        BY <2>3
      <4> QED
        BY <2>3, <3>1, <3>3, <4>1
    <3> QED
      BY <3>2, <3>3
  <2>5. outbox' \in [Turns -> Seq(Events)] /\ \A q \in Turns \ {r} : outbox'[q] = outbox[q]
    BY <1>0, <2>1, <2>2 DEF Yield
  <2> QED
    BY <2>1, <2>4, <2>5, StreamEnds
<1>10. ASSUME NEW r \in Turns, Cut(r) PROVE StreamInv'
  <2>1. PICK over \in {"record", "closed"} : Goto(r, over) /\ (over = "record" => failure'[r] = "cut")
    BY <1>0, <1>10 DEF Cut
  <2>2. /\ outbox' = [outbox EXCEPT ![r] = <<>>] /\ wire' = wire
        /\ \A q \in Turns \ {r} : failure'[q] = failure[q]
    BY <1>0, <1>10 DEF Cut, Yield
  <2>3. Whole(r)' = wire[r]
    BY <1>0, <2>2 DEF Whole
  <2>4. Grammar(wire[r])
    BY <1>0, GrammarPrefix DEF StreamInv, StreamOf, Whole
  <2>5. outbox' \in [Turns -> Seq(Events)] /\ \A q \in Turns \ {r} : outbox'[q] = outbox[q]
    BY <1>0, <2>2, EventLists
  <2> QED
    BY <2>1, <2>2, <2>3, <2>4, <2>5, StreamEnds
<1>11. CASE Restart
  <2> SUFFICES ASSUME NEW r \in Turns PROVE StreamOf(r)'
    BY DEF StreamInv
  <2>1. /\ wire' = wire /\ outbox' = [q \in Turns |-> <<>>]
        /\ \/ stage'[r] = "closed"
           \/ stage'[r] = stage[r] /\ failure'[r] = failure[r] /\ outbox[r] = <<>>
    BY <1>0, <1>11 DEF Restart
  <2>2. Whole(r)' = wire[r]
    BY <1>0, <2>1 DEF Whole
  <2>3. CASE stage'[r] = "closed"
    <3>1. Grammar(wire[r])
      BY <1>0, GrammarPrefix DEF StreamInv, StreamOf, Whole
    <3> QED
      BY <2>2, <2>3, <3>1 DEF StreamOf
  <2>4. CASE stage'[r] = stage[r] /\ failure'[r] = failure[r] /\ outbox[r] = <<>>
    <3>1. Whole(r) = wire[r]
      BY <1>0, <2>4 DEF Whole
    <3> QED
      BY <2>2, <2>4, <3>1, StreamApart DEF StreamInv
  <2> QED
    BY <2>1, <2>3, <2>4
<1>12. CASE UNCHANGED turnVars
  BY <1>12, StreamApart DEF StreamInv, turnVars, Whole
<1> QED
  BY <1>1, <1>2, <1>3, <1>4, <1>5, <1>6, <1>7, <1>8, <1>9, <1>10, <1>11, <1>12 DEF Next, Step

LEMMA StreamInit == Init => StreamInv
<1> SUFFICES ASSUME Init, NEW r \in Turns PROVE StreamOf(r)
  BY DEF StreamInv
<1>1. Whole(r) = <<>> /\ stage[r] = "new" /\ failure[r] = "none"
  BY DEF Init, Whole
<1>2. Grammar(<<>>)
  BY DEF Grammar, Contains
<1> QED
  BY <1>1, <1>2 DEF StreamOf

\* The wire format: start first, no result before its call, assumptions only ahead of done,
\* nothing after done or error, no done while a call has no result - however many turns
\* overlap, fail, are cut off or restarted.
THEOREM StreamKeepsGrammar == Spec => []StreamGrammar
<1>1. TurnInv /\ StreamInv /\ [Next]_turnVars => (TurnInv /\ StreamInv)'
  BY TurnStep, StreamStep
<1>2. TurnInv /\ StreamInv => StreamGrammar
  <2> SUFFICES ASSUME TurnInv, StreamInv, NEW r \in Turns PROVE Grammar(wire[r])
    BY DEF StreamGrammar, Grammar, Balance
  <2> QED
    BY GrammarPrefix DEF TurnInv, ShapeInv, StreamInv, StreamOf, Whole
<1> QED
  BY <1>1, <1>2, TurnInit, StreamInit, PTL DEF Spec

----------------------------------------------------------------------------
(* How long a turn can last.                                                *)

Rounds(r) == Cardinality(OwnCalls(mine[r], r))

\* A run has taken two graph steps for each of its rounds, one if it is at its tools. A
\* run that has ended took one more at most.
StepsInv ==
  \A r \in Turns :
    /\ steps[r] \in 0 .. (2 * MaxRounds + 1)
    /\ stage[r] \in {"new", "opened"} => steps[r] = 0
    /\ stage[r] = "agent" => steps[r] = 2 * Rounds(r)
    /\ stage[r] = "tools" => steps[r] = 2 * Rounds(r) - 1

\* The end of a turn nothing disturbed has been told to the client.
EndsInv ==
  \A r \in Turns : stage[r] = "closed" /\ failure[r] = "none" => Contains(wire[r], "done")

\* The counters of TypeOK.
CountInv == steps \in [Turns -> Int] /\ troubles \in 0 .. MaxTroubles

\* What is true of a turn before any other step of it stays true.
LEMMA StepsApart ==
  ASSUME TurnInv, StepsInv, CountInv, UNCHANGED <<mine, steps>>,
         \A r \in Turns : /\ stage'[r] \in InGraph => stage'[r] = stage[r]
                          /\ stage'[r] \in {"new", "opened"} => stage[r] \in {"new", "opened"}
  PROVE  StepsInv'
BY DEF StepsInv, Rounds, OwnCalls, InGraph

LEMMA LoadSteps ==
  ASSUME TurnInv, ListInv, StepsInv, CountInv, NEW r \in Turns, Load(r)
  PROVE  StepsInv'
<1>1. /\ stage[r] = "opened" /\ stage' = [stage EXCEPT ![r] = "agent"]
      /\ mine' = [mine EXCEPT ![r] = Append(thread, Message("human", r))] /\ steps' = steps
  BY DEF Load, Ready, Goto
<1>2. /\ stage'[r] = "agent" /\ mine'[r] = Append(thread, Message("human", r))
      /\ \A q \in Turns \ {r} : mine'[q] = mine[q] /\ stage'[q] = stage[q]
  BY <1>1 DEF TurnInv, ShapeInv
<1>3. Cardinality(OwnCalls(mine'[r], r)) = 0
  <2>1. Silent(thread, r) /\ thread \in Seq(Msg)
    BY <1>1 DEF ListInv, TurnInv, ShapeInv
  <2> QED
    BY <1>2, <2>1, QuestionLoaded
<1>4. steps[r] = 0
  BY <1>1 DEF StepsInv
<1>5. /\ steps'[r] \in 0 .. (2 * MaxRounds + 1)
      /\ stage'[r] \in {"new", "opened"} => steps'[r] = 0
      /\ stage'[r] = "agent" => steps'[r] = 2 * Rounds(r)'
      /\ stage'[r] = "tools" => steps'[r] = 2 * Rounds(r)' - 1
  BY <1>1, <1>2, <1>3, <1>4, TurnAssumptions DEF Rounds
<1>6. ASSUME NEW q \in Turns \ {r}
      PROVE  /\ steps'[q] \in 0 .. (2 * MaxRounds + 1)
             /\ stage'[q] \in {"new", "opened"} => steps'[q] = 0
             /\ stage'[q] = "agent" => steps'[q] = 2 * Rounds(q)'
             /\ stage'[q] = "tools" => steps'[q] = 2 * Rounds(q)' - 1
  <2>1. Rounds(q)' = Rounds(q)
    BY <1>2 DEF Rounds, OwnCalls
  <2> QED
    BY <1>1, <1>2, <2>1 DEF StepsInv
<1> QED
  BY <1>5, <1>6 DEF StepsInv

\* A graph step is one of a round that fits the cap, or the last of its run.
LEMMA NodeSteps ==
  ASSUME TurnInv, ListInv, StepsInv, CountInv, NEW r \in Turns, NodeMoves(r)
  PROVE  StepsInv' /\ steps[r] <= 2 * MaxRounds
<1>1. PICK kind \in {"calls", "results", "prose"} :
        /\ stage[r] \in InGraph /\ GraphStep(r, kind)
        /\ kind = "calls" => stage[r] = "agent" /\ ~Capped(mine[r])
        /\ kind = "results" <=> stage[r] = "tools"
        /\ Goto(r, IF kind = "calls" THEN "tools" ELSE IF kind = "results" THEN "agent" ELSE "finish")
  BY DEF NodeMoves
<1> DEFINE m == Message(kind, r)
<1>2. /\ steps' = [steps EXCEPT ![r] = steps[r] + 1] /\ mine' = [mine EXCEPT ![r] = Append(mine[r], m)]
      /\ mine[r] \in Seq(Msg)
  BY <1>1 DEF GraphStep, TurnInv, ShapeInv
<1>3. /\ steps'[r] = steps[r] + 1 /\ mine'[r] = Append(mine[r], m)
      /\ stage'[r] = IF kind = "calls" THEN "tools" ELSE IF kind = "results" THEN "agent" ELSE "finish"
      /\ \A q \in Turns \ {r} : steps'[q] = steps[q] /\ mine'[q] = mine[q] /\ stage'[q] = stage[q]
  BY <1>1, <1>2 DEF CountInv, Goto, TurnInv, ShapeInv
<1>4. m \in Msg /\ (m = Message("calls", r) <=> kind = "calls")
  BY DEF Message, Msg, Kinds
<1>5. /\ Rounds(r) \in Nat
      /\ Rounds(r)' = IF kind = "calls" THEN Rounds(r) + 1 ELSE Rounds(r)
  BY <1>2, <1>3, <1>4, OwnCallsAppend DEF Rounds
<1>6. Rounds(r) <= MaxRounds /\ (kind = "calls" => Rounds(r) < MaxRounds)
  <2>1. PICK k \in DOMAIN mine[r] : Question(mine[r], r, k)
    BY <1>1 DEF ListInv
  <2>2. ToolRounds(mine[r]) = Rounds(r)
    BY <1>2, <2>1, RoundsAreOwn DEF Rounds
  <2>3. Rounds(r) <= MaxRounds
    BY <1>1 DEF ListInv, Rounds
  <2> QED
    BY <1>1, <1>5, <2>2, <2>3, TurnAssumptions DEF Capped
<1>7. steps[r] = IF stage[r] = "tools" THEN 2 * Rounds(r) - 1 ELSE 2 * Rounds(r)
  BY <1>1 DEF StepsInv, InGraph
<1>8. steps[r] \in 0 .. (2 * MaxRounds + 1)
  BY DEF StepsInv
<1>9. /\ steps[r] <= 2 * MaxRounds /\ steps'[r] \in 0 .. (2 * MaxRounds + 1)
      /\ stage'[r] \in {"new", "opened"} => steps'[r] = 0
      /\ stage'[r] = "agent" => steps'[r] = 2 * Rounds(r)'
      /\ stage'[r] = "tools" => steps'[r] = 2 * Rounds(r)' - 1
  <2>1. MaxRounds \in Nat
    BY TurnAssumptions
  <2>2. CASE kind = "calls"
    <3>1. /\ steps[r] = 2 * Rounds(r) /\ Rounds(r) < MaxRounds /\ Rounds(r)' = Rounds(r) + 1
          /\ steps'[r] = steps[r] + 1 /\ stage'[r] = "tools"
      BY <1>1, <1>3, <1>5, <1>6, <1>7, <2>2
    <3> QED
      BY <1>5, <2>1, <3>1
  <2>3. CASE kind = "results"
    BY <1>1, <1>3, <1>5, <1>6, <1>7, <1>8, <2>1, <2>3
  <2>4. CASE kind = "prose"
    BY <1>1, <1>3, <1>5, <1>6, <1>7, <1>8, <2>1, <2>4
  <2> QED
    BY <2>2, <2>3, <2>4
<1>10. ASSUME NEW q \in Turns \ {r}
       PROVE  /\ steps'[q] \in 0 .. (2 * MaxRounds + 1)
              /\ stage'[q] \in {"new", "opened"} => steps'[q] = 0
              /\ stage'[q] = "agent" => steps'[q] = 2 * Rounds(q)'
              /\ stage'[q] = "tools" => steps'[q] = 2 * Rounds(q)' - 1
  <2>1. Rounds(q)' = Rounds(q)
    BY <1>3 DEF Rounds, OwnCalls
  <2> QED
    BY <1>3, <2>1 DEF StepsInv
<1> QED
  BY <1>9, <1>10 DEF StepsInv

LEMMA StepsStep ==
  ASSUME TurnInv, ListInv, StepsInv, CountInv, [Next]_turnVars
  PROVE  StepsInv'
<1>1. ASSUME ListsStay PROVE StepsInv'
  <2>1. /\ UNCHANGED <<mine, steps>>
        /\ \A q \in Turns : stage'[q] \in InGraph => stage'[q] = stage[q]
        /\ \A q \in Turns : stage'[q] \in {"new", "opened"} => stage[q] \in {"new", "opened"}
    BY <1>1 DEF ListsStay
  <2> QED
    BY <2>1, StepsApart
<1> QED
  BY <1>1, StepKinds, LoadSteps, NodeSteps

LEMMA CountStep ==
  ASSUME CountInv, [Next]_turnVars
  PROVE  CountInv'
<1>1. ASSUME NEW r \in Turns, AgentStep(r) \/ ToolsStep(r) PROVE CountInv'
  BY <1>1 DEF AgentStep, ToolsStep, GraphStep, CountInv
<1>2. ASSUME steps' = steps, troubles' = troubles \/ Trouble PROVE CountInv'
  BY <1>2, TurnAssumptions DEF CountInv, Trouble
<1>3. ASSUME NEW r \in Turns, Send(r) \/ Open(r) \/ Load(r) \/ Token(r) \/ Finish(r)
      PROVE  CountInv'
  BY <1>2, <1>3 DEF Send, Open, Load, Token, Finish, run
<1>4. ASSUME NEW r \in Turns, Record(r) \/ Fail(r) \/ Cut(r) \/ Restart PROVE CountInv'
  BY <1>2, <1>4 DEF Record, Fail, Cut, Restart, run
<1>5. CASE Restart
  BY <1>2, <1>5 DEF Restart, run
<1>6. CASE UNCHANGED turnVars
  BY <1>2, <1>6 DEF turnVars, run
<1> QED
  BY <1>1, <1>3, <1>4, <1>5, <1>6 DEF Next, Step

LEMMA EndsStep ==
  ASSUME TurnInv, StreamInv, EndsInv, [Next]_turnVars
  PROVE  EndsInv'
<1>0. /\ stage \in [Turns -> Stages] /\ outbox \in [Turns -> Seq(Events)]
      /\ wire \in [Turns -> Seq(Events)]
      /\ failure \in [Turns -> {"none", "graph", "cut", "killed"}]
  BY DEF TurnInv, ShapeInv
<1>1. ASSUME NEW r \in Turns, Send(r) PROVE EndsInv'
  <2>1. /\ wire' = [wire EXCEPT ![r] = Append(wire[r], Head(outbox[r]))] /\ outbox[r] # <<>>
        /\ UNCHANGED <<stage, failure>>
    BY <1>1 DEF Send
  <2>2. \A q \in Turns : Contains(wire[q], "done") => Contains(wire'[q], "done")
    BY <1>0, <2>1, ContainsHeadTail, ContainsAppend
  <2> QED
    BY <2>1, <2>2 DEF EndsInv
<1>2. ASSUME NEW r \in Turns, wire' = wire, NEW to \in Stages, Goto(r, to),
             \A q \in Turns \ {r} : failure'[q] = failure[q],
             to = "closed" /\ failure'[r] = "none" => Contains(wire[r], "done")
      PROVE  EndsInv'
  BY <1>0, <1>2 DEF Goto, EndsInv
<1>3. ASSUME NEW r \in Turns, \/ Open(r) \/ Load(r) \/ Finish(r) \/ Fail(r)
      PROVE  EndsInv'
  <2>1. /\ wire' = wire /\ \A q \in Turns \ {r} : failure'[q] = failure[q]
        /\ \E to \in {"opened", "agent", "record"} : Goto(r, to)
    BY <1>0, <1>3 DEF Open, Load, Finish, Fail
  <2>2. {"opened", "agent", "record"} \subseteq Stages /\ "closed" \notin {"opened", "agent", "record"}
    BY DEF Stages
  <2> QED
    BY <1>2, <2>1, <2>2
<1>4. ASSUME NEW r \in Turns, AgentStep(r) \/ ToolsStep(r) PROVE EndsInv'
  <2>1. /\ wire' = wire /\ failure' = failure
        /\ \E to \in {"agent", "tools", "finish"} : Goto(r, to)
    BY <1>4 DEF AgentStep, ToolsStep, Route
  <2>2. {"agent", "tools", "finish"} \subseteq Stages /\ "closed" \notin {"agent", "tools", "finish"}
    BY DEF Stages
  <2> QED
    BY <1>2, <2>1, <2>2
<1>5. ASSUME NEW r \in Turns, Ready(r, "record"), failure[r] = "none"
      PROVE  Contains(wire[r], "done")
  BY <1>5, EventLists DEF TurnInv, RowInv, Told, Ready
<1>6. ASSUME NEW r \in Turns, Record(r) PROVE EndsInv'
  <2>1. wire' = wire /\ failure' = failure /\ Goto(r, "closed") /\ Ready(r, "record")
    BY <1>6 DEF Record
  <2>2. "closed" \in Stages
    BY DEF Stages
  <2> QED
    BY <1>2, <1>5, <2>1, <2>2
<1>7. ASSUME NEW r \in Turns, Cut(r) PROVE EndsInv'
  <2>1. CASE stage[r] = "closed" \/ Ready(r, "record")
    <3>1. wire' = wire /\ failure' = failure /\ Goto(r, "closed")
      BY <1>7, <2>1 DEF Cut
    <3>2. "closed" \in Stages /\ (failure[r] = "none" => Contains(wire[r], "done"))
      BY <1>5, <2>1 DEF Stages, EndsInv
    <3> QED
      BY <1>2, <3>1, <3>2
  <2>2. CASE ~(stage[r] = "closed" \/ Ready(r, "record"))
    <3>1. /\ wire' = wire /\ failure' = [failure EXCEPT ![r] = "cut"]
          /\ \E to \in {"closed", "record"} : Goto(r, to)
      BY <1>7, <2>2 DEF Cut
    <3>2. failure'[r] = "cut" /\ \A q \in Turns \ {r} : failure'[q] = failure[q]
      BY <1>0, <3>1
    <3>3. {"closed", "record"} \subseteq Stages
      BY DEF Stages
    <3> QED
      BY <1>2, <3>1, <3>2, <3>3
  <2> QED
    BY <2>1, <2>2
<1>8. CASE Restart
  <2> DEFINE lost == {r \in Turns : stage[r] \notin {"new", "closed"} \/ outbox[r] # <<>>}
  <2>1. /\ stage' = [r \in Turns |-> IF r \in lost THEN "closed" ELSE stage[r]]
        /\ failure' = [r \in Turns |-> IF r \in lost THEN "killed" ELSE failure[r]]
        /\ wire' = wire
    BY <1>8 DEF Restart
  <2> QED
    BY <2>1 DEF EndsInv
<1>9. CASE UNCHANGED turnVars \/ \E r \in Turns : Token(r)
  BY <1>9 DEF turnVars, Token, EndsInv
<1> QED
  BY <1>1, <1>3, <1>4, <1>6, <1>7, <1>8, <1>9 DEF Next, Step

AllInv == TurnInv /\ ListInv /\ StreamInv /\ StepsInv /\ CountInv /\ EndsInv

LEMMA AllStep ==
  ASSUME AllInv, [Next]_turnVars
  PROVE  AllInv'
BY TurnStep, ListStep, StreamStep, StepsStep, CountStep, EndsStep DEF AllInv

LEMMA AllInit == Init => AllInv
<1> SUFFICES ASSUME Init PROVE AllInv
  OBVIOUS
<1>1. /\ steps = [r \in Turns |-> 0] /\ troubles = 0
      /\ \A r \in Turns : stage[r] = "new"
  BY DEF Init
<1>2. StepsInv /\ CountInv /\ EndsInv
  BY <1>1, TurnAssumptions DEF StepsInv, CountInv, EndsInv
<1> QED
  BY <1>2, TurnInit, ListInit, StreamInit DEF AllInv

LEMMA AllInvariant == Spec => []AllInv
BY AllInit, AllStep, PTL DEF Spec

\* Every variable keeps its type; no run takes more than two steps a round and a last one.
THEOREM TurnTypes == Spec => []TypeOK
<1>1. AllInv => TypeOK
  <2> SUFFICES ASSUME AllInv PROVE TypeOK
    OBVIOUS
  <2>1. steps \in [Turns -> 0 .. (2 * MaxRounds + 1)]
    BY DEF AllInv, CountInv, StepsInv
  <2> QED
    BY <2>1 DEF AllInv, TurnInv, ShapeInv, CountInv, TypeOK, Msg
<1> QED
  BY <1>1, AllInvariant, PTL

\* The tool cap ends a run before recursion_limit does (main.py: max_tool_iterations * 2
\* + 4): wherever the graph is, LangGraph lets it take its next three steps.
LimitFarOff == \A r \in Turns : stage[r] \in InGraph => steps[r] + 4 <= RecursionLimit

THEOREM LimitNeverReached == Spec => []LimitFarOff
<1>1. AllInv => LimitFarOff
  <2> SUFFICES ASSUME AllInv, NEW r \in Turns, stage[r] \in InGraph
               PROVE  steps[r] + 4 <= RecursionLimit
    BY DEF LimitFarOff
  <2>1. mine[r] \in Seq(Msg) /\ Message("human", r) \in Msg
    BY DEF AllInv, TurnInv, ShapeInv, Message, Msg, Kinds
  <2>2. Rounds(r) \in Nat /\ Rounds(r) <= MaxRounds
    BY <2>1, OwnCallsAppend DEF AllInv, ListInv, Rounds
  <2>3. steps[r] = 2 * Rounds(r) \/ steps[r] = 2 * Rounds(r) - 1
    BY DEF AllInv, StepsInv, InGraph
  <2> QED
    BY <2>2, <2>3, TurnAssumptions DEF RecursionLimit
<1> QED
  BY <1>1, AllInvariant, PTL

\* A turn that is over and met no failure, no disconnect and no restart was answered.
EndedMeansAnswered ==
  \A r \in Turns : stage[r] = "closed" => Contains(wire[r], "done") \/ failure[r] # "none"

THEOREM HealthyEndsAnswered == Spec => []EndedMeansAnswered
<1>1. AllInv => EndedMeansAnswered
  BY DEF AllInv, EndsInv, EndedMeansAnswered
<1> QED
  BY <1>1, AllInvariant, PTL

----------------------------------------------------------------------------
(* Every step uses up some turn.                                            *)

\* A model that is asked for its first token may still stream one.
Speaks(r) == stage[r] = "agent" /\ Last(Whole(r)) # "token"

Weight(at) ==
  CASE at = "new" -> 30 [] at = "opened" -> 25 [] at \in {"agent", "tools"} -> 15
    [] at = "finish" -> 10 [] at = "record" -> 5 [] OTHER -> 0

\* What is left of turn r: stages, graph steps, events to hand over, a token to stream.
Rank(r) ==
  Weight(stage[r]) + 10 * (2 * MaxRounds + 1 - steps[r]) + 2 * Len(outbox[r])
    + (IF Speaks(r) THEN 3 ELSE 0)

\* The most steps any turn can take, whatever happens to it.
MaxSteps == 20 * MaxRounds + 40

RankFalls == \E r \in Turns : Rank(r)' < Rank(r) /\ \A q \in Turns \ {r} : Rank(q)' <= Rank(q)

LEMMA RankType ==
  ASSUME AllInv, NEW r \in Turns
  PROVE  /\ Rank(r) \in Nat /\ steps[r] \in Nat /\ steps[r] <= 2 * MaxRounds + 1
         /\ outbox[r] \in Seq(Events) /\ MaxRounds \in Nat
<1> DEFINE w == Weight(stage[r])
           s == 10 * (2 * MaxRounds + 1 - steps[r])
           o == 2 * Len(outbox[r])
           t == IF Speaks(r) THEN 3 ELSE 0
<1>1. steps[r] \in 0 .. (2 * MaxRounds + 1) /\ outbox[r] \in Seq(Events) /\ MaxRounds \in Nat
  BY TurnAssumptions DEF AllInv, StepsInv, TurnInv, ShapeInv
<1>2. w \in Nat
  BY DEF Weight
<1>3. s \in Nat
  BY <1>1
<1>4. o \in Nat
  BY <1>1
<1>5. t \in Nat
  OBVIOUS
<1>6. Rank(r) = w + s + o + t
  BY DEF Rank
<1>7. steps[r] \in Nat /\ steps[r] <= 2 * MaxRounds + 1
  BY <1>1
<1> HIDE DEF w, s, o, t
<1> QED
  BY <1>1, <1>2, <1>3, <1>4, <1>5, <1>6, <1>7

\* One turn moves, the others keep what they have.
LEMMA RankApart ==
  ASSUME AllInv, NEW r \in Turns, Rank(r)' < Rank(r),
         \A q \in Turns \ {r} : /\ stage'[q] = stage[q] /\ steps'[q] = steps[q]
                                /\ outbox'[q] = outbox[q] /\ wire'[q] = wire[q]
  PROVE  RankFalls
<1>1. ASSUME NEW q \in Turns \ {r} PROVE Rank(q)' <= Rank(q)
  <2>1. Rank(q)' = Rank(q)
    BY <1>1 DEF Rank, Speaks, Whole
  <2> QED
    BY <2>1, RankType
<1> QED
  BY <1>1 DEF RankFalls

\* A turn goes to a stage, is handed some events, and may be asked for a token.
Moves(r, to, events) ==
  /\ Goto(r, to) /\ outbox' = [outbox EXCEPT ![r] = events]
  /\ steps' = steps /\ wire' = wire

Lighter(r, to, events) ==
  2 * Len(events) + (IF to = "agent" THEN 3 ELSE 0) + Weight(to)
    < Weight(stage[r]) + 2 * Len(outbox[r])

LEMMA StageFalls ==
  ASSUME AllInv, NEW r \in Turns, NEW to \in Stages, NEW events \in Seq(Events),
         Moves(r, to, events), Lighter(r, to, events)
  PROVE  RankFalls
<1>0. steps' = steps /\ wire' = wire
  BY DEF Moves
<1>1. /\ stage'[r] = to /\ outbox'[r] = events
      /\ \A q \in Turns \ {r} : stage'[q] = stage[q] /\ outbox'[q] = outbox[q]
  BY DEF AllInv, TurnInv, ShapeInv, Goto, Moves
<1>2. /\ Weight(to) \in Nat /\ Weight(stage[r]) \in Nat /\ Len(events) \in Nat
      /\ Len(outbox[r]) \in Nat /\ steps[r] \in Nat /\ MaxRounds \in Nat
  BY RankType DEF Weight
<1>3. (IF Speaks(r) THEN 3 ELSE 0)' <= (IF to = "agent" THEN 3 ELSE 0)
  BY <1>1 DEF Speaks
<1>4. Rank(r)' = Weight(to) + 10 * (2 * MaxRounds + 1 - steps[r]) + 2 * Len(events)
                   + (IF Speaks(r) THEN 3 ELSE 0)'
  BY <1>0, <1>1 DEF Rank
<1>5. Rank(r)' < Rank(r)
  <2> DEFINE old == IF Speaks(r) THEN 3 ELSE 0
             new == (IF Speaks(r) THEN 3 ELSE 0)'
             most == IF to = "agent" THEN 3 ELSE 0
             here == Weight(stage[r])
             there == Weight(to)
             room == 10 * (2 * MaxRounds + 1 - steps[r])
             had == 2 * Len(outbox[r])
             has == 2 * Len(events)
  <2>1. old \in Nat /\ new \in Nat /\ most \in Nat /\ new <= most
    BY <1>3
  <2>2. here \in Nat /\ there \in Nat /\ room \in Int /\ had \in Nat /\ has \in Nat
    BY <1>2
  <2>3. has + most + there < here + had
    BY DEF Lighter
  <2>4. Rank(r) = here + room + had + old /\ Rank(r)' = there + room + has + new
    BY <1>4 DEF Rank
  <2> HIDE DEF old, new, most, here, there, room, had, has
  <2> QED
    BY <2>1, <2>2, <2>3, <2>4
<1> QED
  BY <1>0, <1>1, <1>5, RankApart

LEMMA EventCounts ==
  /\ Len(<<>>) = 0 /\ Len(<<"start">>) = 1 /\ Len(<<"done">>) = 1 /\ Len(<<"error">>) = 1
  /\ Len(<<"assumptions", "done">>) = 2
OBVIOUS

LEMMA Weights ==
  /\ Weight("new") = 30 /\ Weight("opened") = 25 /\ Weight("agent") = 15 /\ Weight("tools") = 15
  /\ Weight("finish") = 10 /\ Weight("record") = 5 /\ Weight("closed") = 0
BY DEF Weight

\* The stages on the way: opened, under way, at its end, written down.
LEMMA StageSteps ==
  ASSUME AllInv, NEW r \in Turns, Open(r) \/ Load(r) \/ Finish(r) \/ Fail(r) \/ Record(r)
  PROVE  RankFalls
<1>0. /\ stage \in [Turns -> Stages] /\ outbox \in [Turns -> Seq(Events)]
      /\ {"opened", "agent", "record", "closed"} \subseteq Stages
      /\ Len(outbox[r]) \in Nat
  BY DEF AllInv, TurnInv, ShapeInv, Stages
<1>1. CASE Open(r)
  <2>1. stage[r] = "new" /\ Moves(r, "opened", <<"start">>)
    BY <1>1 DEF Open, Yield, run, Moves
  <2>2. Lighter(r, "opened", <<"start">>)
    BY <1>0, <2>1, EventCounts, Weights DEF Lighter
  <2> QED
    BY <1>0, <2>1, <2>2, EventLists, StageFalls
<1>2. CASE Load(r)
  <2>1. stage[r] = "opened" /\ Moves(r, "agent", <<>>)
    BY <1>0, <1>2 DEF Load, Ready, Moves
  <2>2. Lighter(r, "agent", <<>>)
    BY <1>0, <2>1, EventCounts, Weights DEF Lighter
  <2> QED
    BY <1>0, <2>1, <2>2, EventLists, StageFalls
<1>3. CASE Finish(r)
  <2>1. stage[r] = "finish" /\ (Moves(r, "record", <<"done">>) \/ Moves(r, "record", <<"assumptions", "done">>))
    BY <1>3 DEF Finish, Ready, Yield, run, Moves
  <2>2. CASE Moves(r, "record", <<"done">>)
    <3>1. Lighter(r, "record", <<"done">>)
      BY <1>0, <2>1, EventCounts, Weights DEF Lighter
    <3> QED
      BY <1>0, <2>2, <3>1, EventLists, StageFalls
  <2>3. CASE Moves(r, "record", <<"assumptions", "done">>)
    <3>1. Lighter(r, "record", <<"assumptions", "done">>)
      BY <1>0, <2>1, EventCounts, Weights DEF Lighter
    <3> QED
      BY <1>0, <2>3, <3>1, EventLists, StageFalls
  <2> QED
    BY <2>1, <2>2, <2>3
<1>4. CASE Fail(r)
  <2>1. stage[r] \in {"opened", "agent", "tools"} /\ Moves(r, "record", <<>>)
    BY <1>0, <1>4 DEF Fail, run, Moves
  <2>2. Lighter(r, "record", <<>>)
    BY <1>0, <2>1, EventCounts, Weights DEF Lighter
  <2> QED
    BY <1>0, <2>1, <2>2, EventLists, StageFalls
<1>5. CASE Record(r)
  <2>1. stage[r] = "record" /\ (Moves(r, "closed", <<"error">>) \/ Moves(r, "closed", <<>>))
    BY <1>5 DEF Record, Ready, Yield, run, Moves
  <2>2. CASE Moves(r, "closed", <<"error">>)
    <3>1. Lighter(r, "closed", <<"error">>)
      BY <1>0, <2>1, EventCounts, Weights DEF Lighter
    <3> QED
      BY <1>0, <2>2, <3>1, EventLists, StageFalls
  <2>3. CASE Moves(r, "closed", <<>>)
    <3>1. Lighter(r, "closed", <<>>)
      BY <1>0, <2>1, EventCounts, Weights DEF Lighter
    <3> QED
      BY <1>0, <2>3, <3>1, EventLists, StageFalls
  <2> QED
    BY <2>1, <2>2, <2>3
<1> QED
  BY <1>1, <1>2, <1>3, <1>4, <1>5

LEMMA CutFalls ==
  ASSUME AllInv, NEW r \in Turns, Cut(r)
  PROVE  RankFalls
<1>0. /\ stage[r] \in Stages /\ outbox[r] \in Seq(Events) /\ {"record", "closed"} \subseteq Stages
      /\ Len(outbox[r]) \in Nat /\ (outbox[r] # <<>> => Len(outbox[r]) > 0)
  BY DEF AllInv, TurnInv, ShapeInv, Stages
<1>1. PICK to \in {"closed", "record"} :
        /\ Moves(r, to, <<>>)
        /\ to = "record" => stage[r] # "closed" /\ ~Ready(r, "record")
  BY DEF Cut, Yield, run, Moves
<1>2. stage[r] \notin {"new", "closed"} \/ outbox[r] # <<>>
  BY DEF Cut
<1>3. Lighter(r, to, <<>>)
  <2>1. to = "closed" =>
          stage[r] \in {"opened", "agent", "tools", "finish", "record"} \/ Len(outbox[r]) > 0
    BY <1>0, <1>2 DEF Stages
  <2>2. to = "record" =>
          \/ stage[r] \in {"opened", "agent", "tools", "finish"}
          \/ stage[r] \in {"new", "record"} /\ Len(outbox[r]) > 0
    BY <1>0, <1>1, <1>2 DEF Stages, Ready
  <2>3. Weight(stage[r]) \in Nat
    BY <1>0, Weights DEF Stages
  <2>4. CASE to = "closed"
    BY <1>0, <2>1, <2>3, <2>4, EventCounts, Weights DEF Lighter
  <2>5. CASE to = "record"
    BY <1>0, <2>2, <2>3, <2>5, EventCounts, Weights DEF Lighter
  <2> QED
    BY <2>4, <2>5
<1> QED
  BY <1>0, <1>1, <1>3, EventLists, StageFalls

\* The pieces of a rank are numbers.
LEMMA RankPieces ==
  ASSUME AllInv, NEW r \in Turns
  PROVE  /\ Weight(stage[r]) \in Nat /\ Len(outbox[r]) \in Nat
         /\ 10 * (2 * MaxRounds + 1 - steps[r]) \in Nat
         /\ (IF Speaks(r) THEN 3 ELSE 0) \in {0, 3}
<1>1. Weight(stage[r]) \in Nat
  BY DEF Weight
<1> QED
  BY <1>1, RankType

LEMMA SendFalls ==
  ASSUME AllInv, NEW r \in Turns, Send(r)
  PROVE  RankFalls
<1> DEFINE t == IF Speaks(r) THEN 3 ELSE 0
           ahead == Weight(stage[r]) + 10 * (2 * MaxRounds + 1 - steps[r])
<1>1. /\ outbox[r] # <<>> /\ outbox' = [outbox EXCEPT ![r] = Tail(outbox[r])]
      /\ wire' = [wire EXCEPT ![r] = Append(wire[r], Head(outbox[r]))]
      /\ stage' = stage /\ steps' = steps
  BY DEF Send, Yield, run
<1>2. /\ outbox \in [Turns -> Seq(Events)] /\ wire \in [Turns -> Seq(Events)]
      /\ outbox[r] \in Seq(Events) /\ wire[r] \in Seq(Events)
  BY DEF AllInv, TurnInv, ShapeInv
<1>3. /\ outbox'[r] = Tail(outbox[r]) /\ wire'[r] = Append(wire[r], Head(outbox[r]))
      /\ \A q \in Turns \ {r} : outbox'[q] = outbox[q] /\ wire'[q] = wire[q]
  BY <1>1, <1>2
<1>4. Len(outbox[r]) \in Nat \ {0} /\ Len(Tail(outbox[r])) = Len(outbox[r]) - 1
  BY <1>1, <1>2
<1>5. Whole(r)' = Whole(r)
  BY <1>1, <1>2, <1>3, SendWhole DEF Whole
<1>6. Rank(r) = ahead + 2 * Len(outbox[r]) + t /\ Rank(r)' = ahead + 2 * Len(outbox'[r]) + t
  BY <1>1, <1>5 DEF Rank, Speaks
<1>7. ahead \in Nat /\ t \in Nat
  BY RankPieces
<1> HIDE DEF t, ahead
<1>8. Rank(r)' < Rank(r)
  BY <1>3, <1>4, <1>6, <1>7
<1> QED
  BY <1>1, <1>3, <1>8, RankApart

LEMMA TokenFalls ==
  ASSUME AllInv, NEW r \in Turns, Token(r)
  PROVE  RankFalls
<1> DEFINE ahead == Weight(stage[r]) + 10 * (2 * MaxRounds + 1 - steps[r])
<1>1. /\ stage[r] = "agent" /\ outbox[r] = <<>> /\ Last(wire[r]) # "token"
      /\ Yield(r, <<"token">>) /\ wire' = wire /\ stage' = stage /\ steps' = steps
  BY DEF Token, Ready, run
<1>2. /\ outbox \in [Turns -> Seq(Events)] /\ wire[r] \in Seq(Events)
      /\ "token" \in Events /\ <<"token">> \in Seq(Events)
  BY DEF AllInv, TurnInv, ShapeInv, Events
<1>3. outbox'[r] = <<"token">> /\ \A q \in Turns \ {r} : outbox'[q] = outbox[q]
  BY <1>1, <1>2 DEF Yield
<1>4. Whole(r) = wire[r] /\ Whole(r)' = Append(wire[r], "token")
  BY <1>1, <1>2, <1>3, ConcatOneTwo DEF Whole
<1>5. Last(Append(wire[r], "token")) = "token"
  BY <1>2 DEF Last
<1>6. Speaks(r) /\ ~Speaks(r)'
  BY <1>1, <1>4, <1>5 DEF Speaks
<1>7. Len(outbox[r]) = 0 /\ Len(outbox'[r]) = 1
  BY <1>1, <1>3
<1>8. Rank(r) = ahead + 2 * Len(outbox[r]) + 3 /\ Rank(r)' = ahead + 2 * Len(outbox'[r]) + 0
  BY <1>1, <1>6 DEF Rank
<1>9. ahead \in Nat
  BY RankPieces
<1> HIDE DEF ahead
<1>10. Rank(r)' < Rank(r)
  BY <1>7, <1>8, <1>9
<1> QED
  BY <1>1, <1>3, <1>10, RankApart

\* A graph step costs more than the event and the token it may bring.
LEMMA NodeFalls ==
  ASSUME AllInv, NEW r \in Turns, AgentStep(r) \/ ToolsStep(r)
  PROVE  RankFalls
<1>1. /\ stage[r] \in InGraph /\ outbox[r] = <<>> /\ wire' = wire
      /\ \E kind \in Kinds : GraphStep(r, kind)
      /\ \E to \in {"agent", "tools", "finish"} : Goto(r, to)
      /\ outbox' = outbox \/ Yield(r, <<"tool_call">>) \/ Yield(r, <<"tool_result">>)
  BY DEF AgentStep, ToolsStep, Ready, Route, InGraph, Kinds
<1>2. /\ stage \in [Turns -> Stages] /\ outbox \in [Turns -> Seq(Events)]
      /\ steps \in [Turns -> Int]
  BY DEF AllInv, TurnInv, ShapeInv, CountInv
<1>3. /\ steps'[r] = steps[r] + 1 /\ stage'[r] \in {"agent", "tools", "finish"}
      /\ \A q \in Turns \ {r} : /\ steps'[q] = steps[q] /\ stage'[q] = stage[q]
                                /\ outbox'[q] = outbox[q] /\ wire'[q] = wire[q]
  BY <1>1, <1>2 DEF GraphStep, Goto, Yield
<1>4. outbox'[r] = <<>> \/ outbox'[r] = <<"tool_call">> \/ outbox'[r] = <<"tool_result">>
  BY <1>1, <1>2 DEF Yield
<1>5. Len(outbox[r]) = 0 /\ Len(outbox'[r]) \in {0, 1}
  <2>1. Len(<<>>) = 0 /\ Len(<<"tool_call">>) = 1 /\ Len(<<"tool_result">>) = 1
    OBVIOUS
  <2> QED
    BY <1>1, <1>4, <2>1
<1>6. Weight(stage[r]) = 15 /\ Weight(stage'[r]) \in {10, 15}
  BY <1>1, <1>3, Weights DEF InGraph
<1>7. Rank(r)' < Rank(r)
  <2> DEFINE old == IF Speaks(r) THEN 3 ELSE 0
             new == (IF Speaks(r) THEN 3 ELSE 0)'
             has == Len(outbox'[r])
             there == Weight(stage'[r])
  <2>1. old \in {0, 3} /\ new \in {0, 3} /\ has \in {0, 1} /\ there \in {10, 15}
    BY <1>5, <1>6
  <2>2. MaxRounds \in Nat /\ steps[r] \in Nat
    BY RankType
  <2>3. /\ Rank(r) = 15 + 10 * (2 * MaxRounds + 1 - steps[r]) + 2 * 0 + old
        /\ Rank(r)' = there + 10 * (2 * MaxRounds + 1 - (steps[r] + 1)) + 2 * has + new
    BY <1>3, <1>5, <1>6 DEF Rank
  <2> HIDE DEF old, new, has, there
  <2> QED
    BY <2>1, <2>2, <2>3
<1> QED
  BY <1>3, <1>7, RankApart

\* A restart ends every turn it finds.
LEMMA RestartFalls ==
  ASSUME AllInv, Restart
  PROVE  RankFalls
<1> DEFINE lost == {r \in Turns : stage[r] \notin {"new", "closed"} \/ outbox[r] # <<>>}
<1>1. /\ lost # {} /\ stage' = [r \in Turns |-> IF r \in lost THEN "closed" ELSE stage[r]]
      /\ outbox' = [r \in Turns |-> <<>>] /\ wire' = wire /\ steps' = steps
  BY DEF Restart, run
<1>2. ASSUME NEW q \in Turns, q \notin lost PROVE Rank(q)' = Rank(q)
  <2>1. stage'[q] = stage[q] /\ outbox'[q] = outbox[q] /\ wire'[q] = wire[q]
    BY <1>1, <1>2
  <2> QED
    BY <1>1, <2>1 DEF Rank, Speaks, Whole
<1>3. ASSUME NEW q \in Turns, q \in lost PROVE Rank(q)' < Rank(q)
  <2> DEFINE room == 10 * (2 * MaxRounds + 1 - steps[q])
             t == IF Speaks(q) THEN 3 ELSE 0
             w == Weight(stage[q])
             o == Len(outbox[q])
  <2>1. stage'[q] = "closed" /\ outbox'[q] = <<>> /\ ~Speaks(q)'
    BY <1>1, <1>3 DEF Speaks
  <2>2. Rank(q)' = 0 + room + 2 * 0 + 0 /\ Rank(q) = w + room + 2 * o + t
    BY <1>1, <2>1, EventCounts, Weights DEF Rank
  <2>3. room \in Nat /\ t \in Nat /\ w \in Nat /\ o \in Nat
    BY RankPieces
  <2>4. w > 0 \/ o > 0
    <3>1. CASE outbox[q] # <<>>
      BY <3>1, RankType
    <3>2. CASE outbox[q] = <<>>
      <4>1. stage[q] \in {"opened", "agent", "tools", "finish", "record"}
        BY <1>3, <3>2 DEF AllInv, TurnInv, ShapeInv, Stages
      <4> QED
        BY <4>1, Weights
    <3> QED
      BY <3>1, <3>2
  <2> HIDE DEF room, t, w, o
  <2> QED
    BY <2>2, <2>3, <2>4
<1>4. ASSUME NEW q \in Turns PROVE Rank(q)' <= Rank(q)
  <2>1. Rank(q) \in Nat
    BY RankType
  <2>2. Rank(q)' \in Nat
    <3>1. steps'[q] = steps[q] /\ outbox'[q] = <<>> /\ Weight(stage'[q]) \in Nat
      BY <1>1 DEF Weight
    <3>2. 10 * (2 * MaxRounds + 1 - steps'[q]) \in Nat /\ Len(outbox'[q]) = 0
      BY <3>1, RankPieces, EventCounts
    <3> QED
      BY <3>1, <3>2 DEF Rank
  <2> QED
    BY <1>2, <1>3, <2>1, <2>2
<1>5. PICK r \in Turns : r \in lost
  BY <1>1
<1> QED
  BY <1>3, <1>4, <1>5 DEF RankFalls

LEMMA EveryStepFalls ==
  ASSUME AllInv, Next
  PROVE  RankFalls
BY StageSteps, CutFalls, SendFalls, TokenFalls, NodeFalls, RestartFalls DEF Next, Step

\* The thread comes to rest: every step of a turn, of a failing one too, brings some turn
\* nearer to its end and takes none further away, and a turn is never more than MaxSteps
\* steps away from it. So nothing in the loop of the graph, the stream or the cap can keep
\* a turn busy for ever.
THEOREM TurnsRunOut ==
  Spec => /\ [](\A r \in Turns : Rank(r) \in 0 .. MaxSteps)
          /\ [][RankFalls]_turnVars
<1> DEFINE Bounded == \A r \in Turns : Rank(r) <= MaxSteps
           Natural == \A r \in Turns : Rank(r) \in Nat
<1>1. Init => Bounded
  <2> SUFFICES ASSUME Init, NEW r \in Turns PROVE Rank(r) <= MaxSteps
    OBVIOUS
  <2>1. stage[r] = "new" /\ steps[r] = 0 /\ outbox[r] = <<>> /\ ~Speaks(r)
    BY DEF Init, Speaks
  <2>2. Rank(r) = 30 + 10 * (2 * MaxRounds + 1 - 0) + 2 * 0 + 0
    BY <2>1, Weights, EventCounts DEF Rank
  <2> QED
    BY <2>2, TurnAssumptions DEF MaxSteps
<1>2. AllInv /\ [Next]_turnVars => [RankFalls]_turnVars
  BY EveryStepFalls
<1>3. AllInv /\ Natural' /\ Bounded /\ [Next]_turnVars => Bounded'
  <2> SUFFICES ASSUME AllInv, Natural', Bounded, [Next]_turnVars, NEW r \in Turns
               PROVE  Rank(r)' <= MaxSteps
    OBVIOUS
  <2>1. Rank(r) \in Nat /\ Rank(r) <= MaxSteps /\ MaxSteps \in Nat
    BY RankType, TurnAssumptions DEF MaxSteps
  <2>2. Rank(r)' \in Nat
    OBVIOUS
  <2>3. CASE UNCHANGED turnVars
    <3>1. Rank(r)' = Rank(r)
      BY <2>3 DEF turnVars, run, Rank, Speaks, Whole
    <3> QED
      BY <2>1, <3>1
  <2>4. CASE Next
    <3>1. Rank(r)' < Rank(r) \/ Rank(r)' <= Rank(r)
      BY <2>4, EveryStepFalls DEF RankFalls
    <3> QED
      BY <2>1, <2>2, <3>1
  <2> QED
    BY <2>3, <2>4
<1>4. AllInv /\ Bounded => \A r \in Turns : Rank(r) \in 0 .. MaxSteps
  BY RankType, TurnAssumptions DEF MaxSteps
<1>5. AllInv => Natural
  BY RankType
<1> QED
  BY <1>1, <1>2, <1>3, <1>4, <1>5, AllInvariant, PTL DEF Spec
============================================================================
