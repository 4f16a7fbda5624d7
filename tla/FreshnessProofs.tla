-------------------------- MODULE FreshnessProofs --------------------------
(***************************************************************************)
(* Theorems about Freshness for any number of refreshes, any period after  *)
(* which a running row is given up, and a clock that runs as far as it     *)
(* likes: what the ledger's two queries may be trusted with.               *)
(***************************************************************************)
EXTENDS Freshness, WellFoundedInduction, TLAPS

Row == [status : Statuses, started : Nat, finished : Nat, period : Nat]
Steps == {"open", "probe", "load", "load25", "note_success", "note_no_change", "over", "dead",
          "close_success", "close_no_change", "close_failed"}

\* TypeOK without the bounds of an instance: no stamp is ahead of the clock.
ClockInv ==
  /\ now \in Nat \ {0} /\ period \in Nat /\ overtaken \in [Jobs -> BOOLEAN]
  /\ pc \in [Jobs -> Steps] /\ noted \in [Jobs -> Nat]
  /\ row \in [Jobs -> Row]
  /\ good \in [finished : Nat, period : Nat, at : Nat] /\ good.at <= now
  /\ \A j \in Jobs : row[j].started <= now /\ row[j].finished <= now

\* A row is running from open_run to close_run, and a row that closed well belongs to a
\* refresh that is over.
LedgerInv ==
  \A j \in Jobs :
    /\ pc[j] = "open" => row[j].status = "none"
    /\ pc[j] \notin {"open", "over", "dead"} => row[j].status = "running"
    /\ row[j].status \in GoodStatus => pc[j] = "over"

\* The period a refresh has read is still that of the data, and so is the one in its row,
\* until another refresh loads: no load of its own is still to come once it has read it.
\* It carries QuietRunTellsVintage from the read to the row.
VintageInv ==
  \A j \in Jobs : ~overtaken[j] =>
    /\ pc[j] \in {"close_success", "close_no_change"} => noted[j] = period
    /\ row[j].status \in GoodStatus => row[j].period = period

\* What a reader holds between its queries was the newest when he read it.
ReaderInv ==
  good # Idle =>
    \A j \in Jobs : row[j].status \in GoodStatus /\ row[j].finished <= good.at =>
      row[j].finished <= good.finished

FreshInv == ClockInv /\ LedgerInv /\ VintageInv /\ ReaderInv

----------------------------------------------------------------------------
(* The queries: ORDER BY ... DESC LIMIT 1.                                  *)

LEMMA Newest ==
  ASSUME NEW S \in SUBSET Nat, S # {}, NEW n \in Nat, \A x \in S : x <= n
  PROVE  \E m \in S : \A x \in S : x <= m
<1> DEFINE T == {n - x : x \in S}
<1>1. T \subseteq Nat /\ T # {}
  <2>1. \A x \in S : n - x \in Nat
    OBVIOUS
  <2> QED
    BY <2>1
<1>2. PICK least \in T : \A t \in T : <<t, least>> \notin OpToRel(<, Nat)
  BY <1>1, NatLessThanWellFounded, WFMin, Zenon
<1>3. \A t \in T : ~(t < least)
  BY <1>1, <1>2 DEF OpToRel
<1>4. PICK m \in S : least = n - m
  OBVIOUS
<1>5. ASSUME NEW x \in S PROVE x <= m
  <2>1. ~(n - x < n - m)
    BY <1>3, <1>4
  <2> QED
    BY <2>1
<1> QED
  BY <1>5

\* Q_LAST_SUCCESSFUL_REFRESH finds a row of a refresh that closed well, none newer.
LEMMA LatestGoodIsNewest ==
  ASSUME ClockInv, LedgerInv
  PROVE  \/ LatestGood = NoRow /\ \A j \in Jobs : row[j].status \notin GoodStatus
         \/ \E k \in Jobs : /\ LatestGood = row[k] /\ row[k].status \in GoodStatus
                            /\ \A j \in Jobs : row[j].status \in GoodStatus =>
                                 row[j].finished <= row[k].finished
<1> DEFINE rows == {row[j] : j \in {k \in Jobs : row[k].status \in GoodStatus}}
<1>1. CASE rows = {}
  BY <1>1 DEF LatestGood
<1>2. CASE rows # {}
  <2>1. LatestGood = CHOOSE r \in rows : \A q \in rows : q.finished <= r.finished
    BY <1>2 DEF LatestGood
  <2>2. \A r \in rows : r \in Row /\ r.finished \in Nat /\ r.finished <= now
    BY DEF ClockInv, Row
  <2> DEFINE stamps == {r.finished : r \in rows}
  <2>3. stamps \in SUBSET Nat /\ stamps # {} /\ now \in Nat /\ \A x \in stamps : x <= now
    BY <1>2, <2>2 DEF ClockInv
  <2>4. \E m \in stamps : \A x \in stamps : x <= m
    BY <2>3, Newest
  <2>5. \E r \in rows : \A q \in rows : q.finished <= r.finished
    BY <2>4
  <2>6. LatestGood \in rows /\ \A q \in rows : q.finished <= LatestGood.finished
    BY <2>1, <2>5
  <2> QED
    BY <2>6
<1> QED
  BY <1>1, <1>2

\* Q_LAST_REFRESH_RUN finds a row that is visible, and none that started later.
LEMMA LatestRunIsNewest ==
  ASSUME ClockInv
  PROVE  \/ LatestRun = NoRow /\ \A j \in Jobs : ~Visible(row[j])
         \/ \E k \in Jobs : /\ LatestRun = row[k] /\ Visible(row[k])
                            /\ \A j \in Jobs : Visible(row[j]) => row[j].started <= row[k].started
<1> DEFINE rows == {row[j] : j \in {k \in Jobs : Visible(row[k])}}
<1>1. CASE rows = {}
  BY <1>1 DEF LatestRun
<1>2. CASE rows # {}
  <2>1. LatestRun = CHOOSE r \in rows : \A q \in rows : q.started <= r.started
    BY <1>2 DEF LatestRun
  <2>2. \A r \in rows : r \in Row /\ r.started \in Nat /\ r.started <= now
    BY DEF ClockInv, Row
  <2> DEFINE stamps == {r.started : r \in rows}
  <2>3. stamps \in SUBSET Nat /\ stamps # {} /\ now \in Nat /\ \A x \in stamps : x <= now
    BY <1>2, <2>2 DEF ClockInv
  <2>4. \E m \in stamps : \A x \in stamps : x <= m
    BY <2>3, Newest
  <2>5. \E r \in rows : \A q \in rows : q.started <= r.started
    BY <2>4
  <2>6. LatestRun \in rows /\ \A q \in rows : q.started <= LatestRun.started
    BY <2>1, <2>5
  <2> QED
    BY <2>6
<1> QED
  BY <1>1, <1>2

----------------------------------------------------------------------------
(* The steps of a refresh and of a reader.                                  *)

\* What the invariant looks at stays: enough for a step that writes neither ledger nor data.
LEMMA QuietStep ==
  ASSUME FreshInv, UNCHANGED <<period, row>>, now' \in Nat, now' >= now,
         good' = good, pc' \in [Jobs -> Steps], noted' \in [Jobs -> Nat],
         overtaken' \in [Jobs -> BOOLEAN],
         \A j \in Jobs :
           /\ pc'[j] = "open" => pc[j] = "open"
           /\ pc'[j] \notin {"open", "over", "dead"} => pc[j] \notin {"open", "over", "dead"}
           /\ pc[j] = "over" => pc'[j] = "over"
           /\ pc'[j] \in {"close_success", "close_no_change"} =>
                noted'[j] = period \/ (pc[j] = pc'[j] /\ noted'[j] = noted[j])
           /\ overtaken'[j] = overtaken[j] \/ (noted'[j] = period /\ pc'[j] # "over")
  PROVE  FreshInv'
<1>1. ClockInv'
  BY DEF FreshInv, ClockInv, Row
<1>2. LedgerInv'
  BY DEF FreshInv, LedgerInv
<1>3. VintageInv'
  BY DEF FreshInv, LedgerInv, VintageInv
<1>4. ReaderInv'
  BY DEF FreshInv, ReaderInv
<1> QED
  BY <1>1, <1>2, <1>3, <1>4 DEF FreshInv

\* One field of a row replaced by another value of its type.
LEMMA FieldReplaced ==
  ASSUME NEW r \in Row
  PROVE  /\ \A v \in Statuses : [r EXCEPT !.status = v] =
              [status |-> v, started |-> r.started, finished |-> r.finished, period |-> r.period]
         /\ \A v \in Nat : [r EXCEPT !.started = v] =
              [status |-> r.status, started |-> v, finished |-> r.finished, period |-> r.period]
         /\ \A v \in Nat : [r EXCEPT !.finished = v] =
              [status |-> r.status, started |-> r.started, finished |-> v, period |-> r.period]
         /\ \A v \in Nat : [r EXCEPT !.period = v] =
              [status |-> r.status, started |-> r.started, finished |-> r.finished, period |-> v]
BY DEF Row

\* The rows open_run and close_run write.
LEMMA NewRow ==
  ASSUME NEW t \in Nat
  PROVE  [NoRow EXCEPT !.status = "running", !.started = t]
           = [status |-> "running", started |-> t, finished |-> 0, period |-> 0]
<1>1. NoRow \in Row /\ NoRow.started = 0 /\ NoRow.finished = 0 /\ NoRow.period = 0
  BY DEF NoRow, None, Row, Statuses
<1> DEFINE a == [status |-> "running", started |-> 0, finished |-> 0, period |-> 0]
<1>2. [NoRow EXCEPT !.status = "running"] = a
  BY <1>1, FieldReplaced DEF Statuses
<1>3. a \in Row
  BY DEF Row, Statuses
<1>4. [a EXCEPT !.started = t] = [status |-> "running", started |-> t, finished |-> 0, period |-> 0]
  BY <1>3, FieldReplaced
<1>5. [NoRow EXCEPT !.status = "running", !.started = t]
        = [[NoRow EXCEPT !.status = "running"] EXCEPT !.started = t]
  OBVIOUS
<1> QED
  BY <1>2, <1>4, <1>5

LEMMA ClosedRow ==
  ASSUME NEW r \in Row, NEW v \in Statuses, NEW f \in Nat, NEW p \in Nat
  PROVE  [r EXCEPT !.status = v, !.finished = f, !.period = p]
           = [status |-> v, started |-> r.started, finished |-> f, period |-> p]
<1> DEFINE a == [status |-> v, started |-> r.started, finished |-> r.finished, period |-> r.period]
           b == [status |-> v, started |-> r.started, finished |-> f, period |-> r.period]
<1>1. r.started \in Nat /\ r.finished \in Nat /\ r.period \in Nat
  BY DEF Row
<1>2. a \in Row /\ b \in Row
  BY <1>1 DEF Row
<1>3. [r EXCEPT !.status = v] = a
  BY FieldReplaced
<1>4. [a EXCEPT !.finished = f] = b
  BY <1>2, FieldReplaced
<1>5. [b EXCEPT !.period = p] = [status |-> v, started |-> r.started, finished |-> f, period |-> p]
  BY <1>2, FieldReplaced
<1>6. [r EXCEPT !.status = v, !.finished = f, !.period = p]
        = [[[r EXCEPT !.status = v] EXCEPT !.finished = f] EXCEPT !.period = p]
  OBVIOUS
<1> QED
  BY <1>3, <1>4, <1>5, <1>6

LEMMA OpenStep ==
  ASSUME FreshInv, NEW j \in Jobs, OpenRun(j)
  PROVE  FreshInv'
<1> DEFINE new == [status |-> "running", started |-> now + 1, finished |-> 0, period |-> 0]
<1>1. /\ now' = now + 1 /\ pc[j] = "open" /\ pc' = [pc EXCEPT ![j] = "probe"]
      /\ row' = [row EXCEPT ![j] = new]
      /\ UNCHANGED <<period, noted, good, shown, overtaken>>
  <2>1. now + 1 \in Nat
    BY DEF FreshInv, ClockInv
  <2> QED
    BY <2>1, NewRow DEF OpenRun, Stamp, Goto
<1>2. new \in Row /\ new.status = "running" /\ new.started = now + 1 /\ new.finished = 0
  BY DEF FreshInv, ClockInv, Statuses, Row
<1>3. /\ row' \in [Jobs -> Row] /\ row'[j] = new /\ \A k \in Jobs \ {j} : row'[k] = row[k]
      /\ pc' \in [Jobs -> Steps] /\ pc'[j] = "probe" /\ \A k \in Jobs \ {j} : pc'[k] = pc[k]
  BY <1>1, <1>2 DEF FreshInv, ClockInv, Steps
<1> HIDE DEF new
<1>4. ClockInv'
  <2>1. \A k \in Jobs : row[k].started \in Nat /\ row[k].finished \in Nat
    BY DEF FreshInv, ClockInv, Row
  <2>2. \A k \in Jobs : row'[k].started <= now' /\ row'[k].finished <= now'
    BY <1>1, <1>2, <1>3, <2>1 DEF FreshInv, ClockInv
  <2> QED
    BY <1>1, <1>3, <2>2 DEF FreshInv, ClockInv
<1>5. LedgerInv'
  BY <1>2, <1>3 DEF FreshInv, LedgerInv, GoodStatus
<1>6. VintageInv'
  BY <1>1, <1>2, <1>3 DEF FreshInv, VintageInv, GoodStatus
<1>7. ReaderInv'
  BY <1>1, <1>2, <1>3 DEF FreshInv, ReaderInv, GoodStatus
<1> QED
  BY <1>4, <1>5, <1>6, <1>7 DEF FreshInv

LEMMA LoadCoreStep ==
  ASSUME FreshInv, NEW j \in Jobs, LoadCore(j)
  PROVE  FreshInv'
<1>1. /\ now' = now + 1 /\ overtaken' = [k \in Jobs |-> overtaken[k] \/ k # j] /\ pc[j] = "load" /\ pc' = [pc EXCEPT ![j] = "load25"]
      /\ period' \in Nat /\ UNCHANGED <<noted, row, good, shown>>
  BY DEF LoadCore, Stamp, Goto, FreshInv, ClockInv
<1>2. /\ pc' \in [Jobs -> Steps] /\ pc'[j] = "load25" /\ \A k \in Jobs \ {j} : pc'[k] = pc[k]
      /\ \A k \in Jobs : row[k].started \in Nat /\ row[k].finished \in Nat
  BY <1>1 DEF FreshInv, ClockInv, Steps, Row
<1>3. ClockInv'
  BY <1>1, <1>2 DEF FreshInv, ClockInv
<1>4. LedgerInv'
  BY <1>1, <1>2 DEF FreshInv, LedgerInv
<1>5. VintageInv'
  <2>1. \A k \in Jobs : k # j => overtaken'[k]
    BY <1>1
  <2>2. row'[j].status \notin GoodStatus
    BY <1>1 DEF FreshInv, LedgerInv
  <2> QED
    BY <1>2, <2>1, <2>2 DEF VintageInv
<1>6. ReaderInv'
  BY <1>1 DEF FreshInv, ReaderInv
<1> QED
  BY <1>3, <1>4, <1>5, <1>6 DEF FreshInv

LEMMA CloseStep ==
  ASSUME FreshInv, NEW j \in Jobs, CloseRun(j)
  PROVE  FreshInv'
<1> DEFINE closed == [status |-> Closing[pc[j]], started |-> row[j].started,
                      finished |-> now + 1, period |-> noted[j]]
<1>1. /\ now' = now + 1 /\ pc' = [pc EXCEPT ![j] = "over"]
      /\ pc[j] \in {"close_success", "close_no_change", "close_failed"}
      /\ row' = [row EXCEPT ![j] = closed]
      /\ UNCHANGED <<period, noted, good, shown, overtaken>>
  <2>1. row[j] \in Row
    BY DEF FreshInv, ClockInv
  <2>2. row' = [row EXCEPT ![j] = [row[j] EXCEPT !.status = Closing[pc[j]], !.finished = now',
                                                 !.period = noted[j]]]
    BY DEF CloseRun
  <2>3. now' = now + 1
    BY DEF CloseRun, Stamp
  <2>4. Closing[pc[j]] \in Statuses /\ now' \in Nat /\ noted[j] \in Nat
    BY <2>3 DEF CloseRun, Closing, Statuses, FreshInv, ClockInv
  <2>5. [row[j] EXCEPT !.status = Closing[pc[j]], !.finished = now', !.period = noted[j]] = closed
    <3>1. [row[j] EXCEPT !.status = Closing[pc[j]], !.finished = now', !.period = noted[j]]
            = [status |-> Closing[pc[j]], started |-> row[j].started,
               finished |-> now', period |-> noted[j]]
      <4>1. \A r \in Row, v \in Statuses, f \in Nat, p \in Nat :
              [r EXCEPT !.status = v, !.finished = f, !.period = p]
                = [status |-> v, started |-> r.started, finished |-> f, period |-> p]
        BY ClosedRow, Zenon
      <4>2. \A v \in Statuses, f \in Nat, p \in Nat :
              [row[j] EXCEPT !.status = v, !.finished = f, !.period = p]
                = [status |-> v, started |-> row[j].started, finished |-> f, period |-> p]
        BY <2>1, <4>1, Zenon
      <4> QED
        BY <2>4, <4>2, Zenon
    <3> QED
      BY <2>3, <3>1, Zenon
  <2> QED
    BY <2>2, <2>3, <2>5 DEF CloseRun, Goto, Closing
<1>2. /\ row[j] \in Row /\ noted[j] \in Nat /\ Closing[pc[j]] \in {"success", "no_change", "failed"}
      /\ Closing[pc[j]] = "failed" <=> pc[j] = "close_failed"
  BY <1>1 DEF Closing, FreshInv, ClockInv
<1>3. /\ closed \in Row /\ closed.status = Closing[pc[j]] /\ closed.finished = now + 1
      /\ closed.period = noted[j] /\ closed.started = row[j].started
  <2>1. Closing[pc[j]] \in Statuses /\ now + 1 \in Nat /\ row[j].started \in Nat
    BY <1>2 DEF FreshInv, ClockInv, Statuses, Row
  <2> QED
    BY <1>2, <2>1 DEF Row
<1>4. /\ row' \in [Jobs -> Row] /\ row'[j] = closed /\ \A k \in Jobs \ {j} : row'[k] = row[k]
      /\ pc' \in [Jobs -> Steps] /\ pc'[j] = "over" /\ \A k \in Jobs \ {j} : pc'[k] = pc[k]
      /\ \A k \in Jobs : row[k].started \in Nat /\ row[k].finished \in Nat
  <2>1. \A k \in Jobs : row[k].started \in Nat /\ row[k].finished \in Nat
    BY DEF FreshInv, ClockInv, Row
  <2> QED
    BY <1>1, <1>3, <2>1 DEF FreshInv, ClockInv, Steps
<1> HIDE DEF closed
<1>5. ClockInv'
  <2>1. \A k \in Jobs : row'[k].started <= now' /\ row'[k].finished <= now'
    BY <1>1, <1>3, <1>4 DEF FreshInv, ClockInv
  <2> QED
    BY <1>1, <1>4, <2>1 DEF FreshInv, ClockInv
<1>6. LedgerInv'
  BY <1>1, <1>2, <1>3, <1>4 DEF FreshInv, LedgerInv, GoodStatus
<1>7. VintageInv'
  BY <1>1, <1>2, <1>3, <1>4 DEF FreshInv, VintageInv, GoodStatus
<1>8. ReaderInv'
  <2>1. ~(row'[j].finished <= good.at)
    BY <1>3, <1>4 DEF FreshInv, ClockInv
  <2> QED
    BY <1>1, <1>4, <2>1 DEF FreshInv, ReaderInv
<1> QED
  BY <1>5, <1>6, <1>7, <1>8 DEF FreshInv

LEMMA ReadGoodStep ==
  ASSUME FreshInv, ReadGood
  PROVE  FreshInv'
<1>1. /\ good' = [finished |-> LatestGood.finished, period |-> LatestGood.period, at |-> now]
      /\ UNCHANGED <<now, period, pc, noted, row, shown, overtaken>>
  BY DEF ReadGood
<1>2. /\ LatestGood \in Row
      /\ \A j \in Jobs : row[j].status \in GoodStatus => row[j].finished <= LatestGood.finished
  BY LatestGoodIsNewest DEF FreshInv, ClockInv, NoRow, None, Row, Statuses
<1>3. ClockInv'
  BY <1>1, <1>2 DEF FreshInv, ClockInv, Row
<1>4. LedgerInv' /\ VintageInv'
  BY <1>1 DEF FreshInv, LedgerInv, VintageInv
<1>5. ReaderInv'
  BY <1>1, <1>2 DEF ReaderInv
<1> QED
  BY <1>3, <1>4, <1>5 DEF FreshInv

LEMMA ReadEndStep ==
  ASSUME FreshInv, good' = Idle, UNCHANGED <<now, period, pc, noted, row, overtaken>>
  PROVE  FreshInv'
<1>1. ClockInv'
  BY DEF FreshInv, ClockInv, Idle, None
<1>2. LedgerInv' /\ VintageInv' /\ ReaderInv'
  BY DEF FreshInv, LedgerInv, VintageInv, ReaderInv
<1> QED
  BY <1>1, <1>2 DEF FreshInv

LEMMA FreshStep ==
  ASSUME FreshInv, [Next]_freshVars
  PROVE  FreshInv'
<1>0. /\ pc \in [Jobs -> Steps] /\ noted \in [Jobs -> Nat] /\ now \in Nat /\ period \in Nat
      /\ overtaken \in [Jobs -> BOOLEAN]
  BY DEF FreshInv, ClockInv
<1>1. CASE Tick
  <2>1. now' = now + 1 /\ UNCHANGED <<period, pc, noted, row, good, overtaken>>
    BY <1>1 DEF Tick, Stamp
  <2> QED
    BY <1>0, <2>1, QuietStep
<1>2. ASSUME NEW j \in Jobs, OpenRun(j) PROVE FreshInv'
  BY <1>2, OpenStep
<1>3. ASSUME NEW j \in Jobs, Probe(j) PROVE FreshInv'
  <2>1. PICK next \in {"load", "note_no_change", "close_failed"} : pc' = [pc EXCEPT ![j] = next]
    BY <1>3 DEF Probe, Goto
  <2>2. pc[j] = "probe" /\ UNCHANGED <<now, period, noted, row, good, overtaken>>
    BY <1>3 DEF Probe
  <2> QED
    BY <1>0, <2>1, <2>2, QuietStep DEF Steps
<1>4. ASSUME NEW j \in Jobs, LoadCore(j) PROVE FreshInv'
  BY <1>4, LoadCoreStep
<1>5. ASSUME NEW j \in Jobs, LoadT25(j) PROVE FreshInv'
  <2>1. PICK next \in {"note_success", "close_failed"} : pc' = [pc EXCEPT ![j] = next]
    BY <1>5 DEF LoadT25, Goto
  <2>2. pc[j] = "load25" /\ UNCHANGED <<now, period, noted, row, good, overtaken>>
    BY <1>5 DEF LoadT25
  <2> QED
    BY <1>0, <2>1, <2>2, QuietStep DEF Steps
<1>6. ASSUME NEW j \in Jobs, NotePeriod(j) PROVE FreshInv'
  <2>1. PICK next \in {"close_success", "close_no_change"} : pc' = [pc EXCEPT ![j] = next]
    BY <1>6 DEF NotePeriod, Goto
  <2>2. /\ pc[j] \in {"note_success", "note_no_change"} /\ noted' = [noted EXCEPT ![j] = period]
        /\ overtaken' = [overtaken EXCEPT ![j] = FALSE]
        /\ UNCHANGED <<now, period, row, good>>
    BY <1>6 DEF NotePeriod
  <2>3. /\ pc' \in [Jobs -> Steps] /\ noted' \in [Jobs -> Nat] /\ overtaken' \in [Jobs -> BOOLEAN]
        /\ pc'[j] = next /\ noted'[j] = period /\ overtaken'[j] = FALSE
        /\ \A k \in Jobs : k # j =>
             pc'[k] = pc[k] /\ noted'[k] = noted[k] /\ overtaken'[k] = overtaken[k]
    BY <1>0, <2>1, <2>2 DEF Steps
  <2>4. \A k \in Jobs :
          /\ pc'[k] = "open" => pc[k] = "open"
          /\ pc'[k] \notin {"open", "over", "dead"} => pc[k] \notin {"open", "over", "dead"}
          /\ pc[k] = "over" => pc'[k] = "over"
          /\ pc'[k] \in {"close_success", "close_no_change"} =>
               noted'[k] = period \/ (pc[k] = pc'[k] /\ noted'[k] = noted[k])
          /\ overtaken'[k] = overtaken[k] \/ (noted'[k] = period /\ pc'[k] # "over")
    BY <2>2, <2>3
  <2>5. UNCHANGED <<period, row>> /\ now' \in Nat /\ now' >= now /\ good' = good
    BY <1>0, <2>2
  <2> QED
    BY <2>3, <2>4, <2>5, QuietStep
<1>7. ASSUME NEW j \in Jobs, CloseRun(j) PROVE FreshInv'
  BY <1>7, CloseStep
<1>8. ASSUME NEW j \in Jobs, Die(j) PROVE FreshInv'
  <2>1. /\ pc[j] \notin {"open", "over", "dead"} /\ pc' = [pc EXCEPT ![j] = "dead"]
        /\ UNCHANGED <<now, period, noted, row, good, overtaken>>
    BY <1>8 DEF Die, Goto
  <2> QED
    BY <1>0, <2>1, QuietStep DEF Steps
<1>9. CASE ReadGood
  BY <1>9, ReadGoodStep
<1>10. CASE ReadLast \/ ReadFails
  BY <1>10, ReadEndStep DEF ReadLast, ReadFails
<1>11. CASE UNCHANGED freshVars
  BY <1>0, <1>11, QuietStep DEF freshVars
<1> QED
  BY <1>1, <1>2, <1>3, <1>4, <1>5, <1>6, <1>7, <1>8, <1>9, <1>10, <1>11 DEF Next

LEMMA FreshInit == Init => FreshInv
<1> SUFFICES ASSUME Init PROVE FreshInv
  OBVIOUS
<1>1. ClockInv
  BY DEF Init, ClockInv, Steps, NoRow, Idle, None, Row, Statuses
<1>2. LedgerInv /\ VintageInv /\ ReaderInv
  BY DEF Init, LedgerInv, VintageInv, ReaderInv, NoRow, GoodStatus, None
<1> QED
  BY <1>1, <1>2 DEF FreshInv

LEMMA FreshInvariant == Spec => []FreshInv
BY FreshInit, FreshStep, PTL DEF Spec

\* The newest row that closed well names the data's newest month, until another refresh
\* loads after that row's run read it: with or without a load of its own, whatever failed
\* or died before.
THEOREM QuietRunTells == Spec => []QuietRunTellsVintage
<1>1. FreshInv => QuietRunTellsVintage
  BY LatestGoodIsNewest DEF FreshInv, VintageInv, QuietRunTellsVintage
<1> QED
  BY <1>1, FreshInvariant, PTL

\* The step of a reader that hands out a body.
LEMMA BodyStep ==
  ASSUME FreshInv, [Next]_freshVars, good # Idle, good' = Idle, shown' # Unknown
  PROVE  /\ shown'.success = good.finished /\ shown'.started = LatestRun.started
         /\ shown'.status = IF LatestRun = NoRow THEN "unknown" ELSE LatestRun.status
<1>1. ReadLast \/ ReadFails
  BY DEF Next, Tick, OpenRun, Probe, LoadCore, LoadT25, NotePeriod, CloseRun, Die, ReadGood, freshVars
<1>2. ReadLast
  BY <1>1 DEF ReadFails
<1> QED
  BY <1>2 DEF ReadLast

LEMMA SuccessStep ==
  ASSUME FreshInv, [Next]_freshVars, good # Idle, good' = Idle, shown' # Unknown,
         NEW j \in Jobs, row[j].status \in GoodStatus, row[j].finished <= good.at
  PROVE  row[j].finished <= shown'.success
BY BodyStep DEF FreshInv, ReaderInv

\* No refresh that had closed well when a body was asked for is missing from it.
THEOREM SuccessCurrent == Spec => SuccessIsCurrent
<1>1. FreshInv /\ [Next]_freshVars =>
        [good # Idle /\ good' = Idle /\ shown' # Unknown =>
           \A j \in Jobs : row[j].status \in GoodStatus /\ row[j].finished <= good.at =>
             row[j].finished <= shown'.success]_freshVars
  BY SuccessStep
<1> QED
  BY <1>1, FreshInvariant, PTL DEF Spec, SuccessIsCurrent

LEMMA RunStep ==
  ASSUME FreshInv, [Next]_freshVars, good # Idle, good' = Idle, shown' # Unknown
  PROVE  /\ shown'.status = "running" => now < shown'.started + Stale
         /\ \A j \in Jobs : row[j].status \in GoodStatus \union {"failed"} =>
              row[j].started <= shown'.started
         /\ \A j \in Jobs : pc[j] \notin {"open", "over", "dead"} /\ now < row[j].started + Stale =>
              row[j].started <= shown'.started
<1>1. /\ shown'.started = LatestRun.started
      /\ shown'.status = IF LatestRun = NoRow THEN "unknown" ELSE LatestRun.status
  BY BodyStep
<1>2. ASSUME NEW j \in Jobs, Visible(row[j]) PROVE row[j].started <= LatestRun.started
  BY <1>2, LatestRunIsNewest DEF FreshInv
<1>3. /\ now \in Nat /\ Stale \in Nat
      /\ \A j \in Jobs : row[j].started \in Nat
  BY FreshnessAssumptions DEF FreshInv, ClockInv, Row
<1>4. shown'.status = "running" => now < shown'.started + Stale
  BY <1>1, <1>3, LatestRunIsNewest DEF FreshInv, Visible
<1>5. \A j \in Jobs : row[j].status \in GoodStatus \union {"failed"} => Visible(row[j])
  BY DEF Visible, GoodStatus
<1>6. \A j \in Jobs : pc[j] \notin {"open", "over", "dead"} /\ now < row[j].started + Stale => Visible(row[j])
  BY <1>3 DEF FreshInv, LedgerInv, Visible
<1> QED
  BY <1>1, <1>2, <1>4, <1>5, <1>6

\* A dead run is forgotten in time and shadows nothing; a run at work is never hidden.
THEOREM RunCurrent == Spec => RunShownIsCurrent
<1>1. FreshInv /\ [Next]_freshVars =>
        [good # Idle /\ good' = Idle /\ shown' # Unknown =>
           /\ shown'.status = "running" => now < shown'.started + Stale
           /\ \A j \in Jobs : row[j].status \in GoodStatus \union {"failed"} =>
                row[j].started <= shown'.started
           /\ \A j \in Jobs : pc[j] \notin {"open", "over", "dead"} /\ now < row[j].started + Stale =>
                row[j].started <= shown'.started]_freshVars
  BY RunStep
<1> QED
  BY <1>1, FreshInvariant, PTL DEF Spec, RunShownIsCurrent

----------------------------------------------------------------------------
(* Types, with the bounds of an instance.                                   *)

TypedRow == [status : Statuses, started : Stamps, finished : Stamps, period : Periods]

LEMMA NoRowTyped ==
  /\ NoRow \in TypedRow /\ 1 \in Stamps /\ 0 \in Stamps /\ 1 \in Periods /\ 0 \in Periods
  /\ Stamps \subseteq Nat /\ Periods \subseteq Nat
BY FreshnessAssumptions DEF NoRow, TypedRow, None, Statuses, Stamps, Periods

LEMMA TypeInit == Init => TypeOK
<1> SUFFICES ASSUME Init PROVE TypeOK
  OBVIOUS
<1>1. now \in Stamps /\ overtaken \in [Jobs -> BOOLEAN] /\ period \in Periods
  BY NoRowTyped DEF Init
<1>2. row \in [Jobs -> TypedRow] /\ noted \in [Jobs -> Periods]
  BY NoRowTyped DEF Init, None
<1>3. good \in [finished : Stamps, period : Periods, at : Stamps]
  BY NoRowTyped DEF Init, Idle, None
<1>4. shown \in [success : Stamps, period : Periods, started : Stamps,
                 status : (Statuses \ {"none"}) \union {"unknown"}]
  BY NoRowTyped DEF Init, Unknown, None
<1> QED
  BY <1>1, <1>2, <1>3, <1>4 DEF TypeOK, TypedRow, Init

LEMMA StampTyped ==
  ASSUME TypeOK, Stamp
  PROVE  now' \in Stamps
BY FreshnessAssumptions DEF Stamp, TypeOK, Stamps

LEMMA ReaderTyped ==
  ASSUME FreshInv, TypeOK, ReadGood \/ ReadLast \/ ReadFails
  PROVE  TypeOK'
<1>1. CASE ReadGood
  <2>1. LatestGood \in TypedRow
    BY LatestGoodIsNewest, NoRowTyped DEF FreshInv, TypeOK, TypedRow
  <2>2. good' \in [finished : Stamps, period : Periods, at : Stamps]
    BY <1>1, <2>1 DEF ReadGood, TypedRow, TypeOK
  <2> QED
    BY <1>1, <2>2 DEF ReadGood, TypeOK
<1>2. CASE ReadLast
  <2>1. \/ LatestRun = NoRow
        \/ LatestRun \in TypedRow /\ LatestRun.status # "none"
    BY LatestRunIsNewest DEF FreshInv, TypeOK, TypedRow, Visible
  <2>2. LatestRun.started \in Stamps /\ (LatestRun # NoRow => LatestRun.status \in Statuses \ {"none"})
    BY <2>1, NoRowTyped DEF TypedRow
  <2>3. shown' \in [success : Stamps, period : Periods, started : Stamps,
                    status : (Statuses \ {"none"}) \union {"unknown"}]
    BY <1>2, <2>2 DEF ReadLast, TypeOK
  <2>4. good' \in [finished : Stamps, period : Periods, at : Stamps]
    BY <1>2, NoRowTyped DEF ReadLast, Idle, None
  <2> QED
    BY <1>2, <2>3, <2>4 DEF ReadLast, TypeOK
<1>3. CASE ReadFails
  <2>1. /\ good' \in [finished : Stamps, period : Periods, at : Stamps]
        /\ shown' \in [success : Stamps, period : Periods, started : Stamps,
                       status : (Statuses \ {"none"}) \union {"unknown"}]
    BY <1>3, NoRowTyped DEF ReadFails, Idle, Unknown, None
  <2> QED
    BY <1>3, <2>1 DEF ReadFails, TypeOK
<1> QED
  BY <1>1, <1>2, <1>3

LEMMA RefreshTyped ==
  ASSUME TypeOK, NEW j \in Jobs,
         OpenRun(j) \/ Probe(j) \/ LoadCore(j) \/ LoadT25(j) \/ NotePeriod(j) \/ CloseRun(j) \/ Die(j)
  PROVE  TypeOK'
<1>0. /\ now' \in Stamps
      /\ row \in [Jobs -> TypedRow]
  BY StampTyped DEF TypeOK, TypedRow, OpenRun, Probe, LoadCore, LoadT25, NotePeriod, CloseRun, Die
<1>1. pc' \in [Jobs -> {"open", "probe", "load", "load25", "note_success", "note_no_change",
                        "over", "dead"} \union DOMAIN Closing]
  BY DEF TypeOK, Closing, Goto, OpenRun, Probe, LoadCore, LoadT25, NotePeriod, CloseRun, Die
<1>2. period' \in Periods /\ overtaken' \in [Jobs -> BOOLEAN]
  <2>1. CASE LoadCore(j)
    BY <1>0, <2>1, FreshnessAssumptions DEF LoadCore, TypeOK, Periods
  <2>2. CASE ~LoadCore(j)
    BY <2>2 DEF TypeOK, OpenRun, Probe, LoadT25, NotePeriod, CloseRun, Die
  <2> QED
    BY <2>1, <2>2
<1>3. noted' \in [Jobs -> Periods]
  BY DEF TypeOK, OpenRun, Probe, LoadCore, LoadT25, NotePeriod, CloseRun, Die
<1>4. row' \in [Jobs -> TypedRow]
  <2>1. CASE OpenRun(j)
    <3>1. [NoRow EXCEPT !.status = "running", !.started = now'] \in TypedRow
      BY <1>0, NoRowTyped DEF TypedRow, Statuses
    <3> QED
      BY <1>0, <2>1, <3>1 DEF OpenRun
  <2>2. CASE CloseRun(j)
    <3>1. Closing[pc[j]] \in Statuses
      BY <2>2 DEF CloseRun, Closing, Statuses
    <3>2. [row[j] EXCEPT !.status = Closing[pc[j]], !.finished = now', !.period = noted[j]] \in TypedRow
      BY <1>0, <3>1 DEF TypedRow, TypeOK
    <3> QED
      BY <1>0, <2>2, <3>2 DEF CloseRun
  <2>3. CASE ~OpenRun(j) /\ ~CloseRun(j)
    BY <1>0, <2>3 DEF Probe, LoadCore, LoadT25, NotePeriod, Die
  <2> QED
    BY <2>1, <2>2, <2>3
<1>5. UNCHANGED <<good, shown>>
  BY DEF OpenRun, Probe, LoadCore, LoadT25, NotePeriod, CloseRun, Die
<1> QED
  BY <1>0, <1>1, <1>2, <1>3, <1>4, <1>5 DEF TypeOK, TypedRow

\* Every variable keeps its type: no stamp beyond the clock's end, no period that was not
\* published, and a body never tells a status no row has.
THEOREM FreshTypes == Spec => []TypeOK
<1>1. FreshInv /\ TypeOK /\ [Next]_freshVars => TypeOK'
  <2> SUFFICES ASSUME FreshInv, TypeOK, [Next]_freshVars PROVE TypeOK'
    OBVIOUS
  <2>1. CASE Tick
    BY <2>1, StampTyped DEF Tick, TypeOK
  <2>2. CASE UNCHANGED freshVars
    BY <2>2 DEF freshVars, TypeOK
  <2> QED
    BY <2>1, <2>2, ReaderTyped, RefreshTyped DEF Next
<1> QED
  BY <1>1, TypeInit, FreshInvariant, PTL DEF Spec
============================================================================
