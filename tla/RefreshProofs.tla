--------------------------- MODULE RefreshProofs ---------------------------
(***************************************************************************)
(* Proofs about Refresh, for any number of jobs, any tables and any bound  *)
(* on lost connections and kills.                                          *)
(***************************************************************************)
EXTENDS Refresh, TLAPS

USE DEF Calls, Ended, Terminal, Inserts

\* A job's part of the invariant.
JobInv(j) == StageInv(j) /\ RetryInv(j) /\ LedgerInv(j) /\ TablesInv(j)

\* A job's part of the two invariants about rows.
RowInv(j) ==
  /\ \A k \in Inserts :
       /\ ledger[<<j, k>>] = "success" => committed[j] = {"core", "t25"}
       /\ ledger[<<j, k>>] = "no_change" => committed[j] = {}
  /\ pc[j] = "exit0" => ledger[OwnRow(j)] \in {"success", "no_change"}
  /\ pc[j] = "exit1" /\ rid[j] # 0 /\ drops[j] <= 2 => ledger[OwnRow(j)] = "failed"
  /\ pc[j] \in {"exit0", "exit1"} /\ drops[j] = 0 =>
       \A k \in Inserts : ledger[<<j, k>>] # "running"

\* RefreshInv, job by job.
LEMMA InvByJob ==
  RefreshInv <=> TypeOK /\ \A j \in Jobs : RowInv(j) /\ JobInv(j)
BY DEF RefreshInv, RowsTellWhatCommitted, ExitAgreesWithRow, RowInv, JobInv

LEMMA InvByJobNext ==
  RefreshInv' <=> TypeOK' /\ \A j \in Jobs : RowInv(j)' /\ JobInv(j)'
BY DEF RefreshInv, RowsTellWhatCommitted, ExitAgreesWithRow, RowInv, JobInv

\* TypeOK, for one job.
LEMMA JobTypes ==
  ASSUME TypeOK, NEW j \in Jobs
  PROVE  /\ tries[j] \in Nat
         /\ rid[j] \in {0} \union Inserts
         /\ intent[j] \in Terminal
         /\ \A t \in Tables : built[j][t] \in Nat
<1>1. /\ tries \in [Jobs -> 0 .. 2]
      /\ rid \in [Jobs -> {0} \union Inserts]
      /\ intent \in [Jobs -> Terminal]
      /\ built \in [Jobs -> [Tables -> RowCounts]]
  BY Zenon DEF TypeOK
<1>2. tries[j] \in Nat
  BY <1>1
<1>3. rid[j] \in {0} \union Inserts /\ intent[j] \in Terminal
  BY <1>1
<1>4. ASSUME NEW t \in Tables PROVE built[j][t] \in Nat
  BY <1>1, TableAssumptions
<1>5. QED BY <1>2, <1>3, <1>4

LEMMA NothingCounted ==
  (\E t \in Tables : Unread[t] = Absent) /\ (\A t \in Tables : Unread[t] = Absent)
BY JobAssumptions DEF Unread, Tables

LEMMA InitInv == Init => RefreshInv
<1> SUFFICES ASSUME Init PROVE RefreshInv
  OBVIOUS
<1>1. TypeOK
  BY TableAssumptions, JobAssumptions DEF Init, TypeOK, Unread, Tables
<1>2. ASSUME NEW j \in Jobs PROVE RowInv(j) /\ JobInv(j)
  BY <1>2 DEF Init, RowInv, JobInv, StageInv, RetryInv, LedgerInv, TablesInv, Attempts, OwnRow
<1>3. QED BY <1>1, <1>2, InvByJob

\* A step of another job leaves a job's part alone, whether it loads or not.
LEMMA OtherJob ==
  ASSUME NEW j \in Jobs, RowInv(j), JobInv(j), rid[j] \in {0} \union Inserts,
         pc'[j] = pc[j], tries'[j] = tries[j], drops'[j] = drops[j], rid'[j] = rid[j],
         intent'[j] = intent[j], handler'[j] = handler[j], before'[j] = before[j],
         built'[j] = built[j], committed'[j] = committed[j],
         \A k \in Inserts : ledger'[<<j, k>>] = ledger[<<j, k>>],
         \/ overlapped'[j] = overlapped[j] /\ rows' = rows /\ views' = views
         \/ overlapped'[j] = TRUE
  PROVE  RowInv(j)' /\ JobInv(j)'
<1>1. rid[j] # 0 => ledger'[OwnRow(j)'] = ledger[OwnRow(j)]
  BY DEF OwnRow
<1>2. pc[j] = "exit0" => rid[j] # 0
  BY DEF JobInv, StageInv
<1>3. RowInv(j)'
  BY <1>1, <1>2 DEF RowInv
<1>4. StageInv(j)' /\ RetryInv(j)'
  BY DEF JobInv, StageInv, RetryInv
<1>5. LedgerInv(j)'
  BY <1>1 DEF JobInv, StageInv, LedgerInv
<1>6. TablesInv(j)'
  BY DEF JobInv, TablesInv
<1>7. QED BY <1>3, <1>4, <1>5, <1>6 DEF JobInv

\* What losing a connection does to a job: it tries again, it ends, or its raise is
\* caught by run's outer handler.
TriesAgain(i) ==
  /\ tries[i] + 1 < Attempts(pc[i])
  /\ tries' = [tries EXCEPT ![i] = tries[i] + 1]
  /\ UNCHANGED <<pc, intent, handler>>

EndsJob(i) ==
  /\ pc[i] \in {"schema", "open"} \/ handler[i] = "outer"
  /\ pc' = [pc EXCEPT ![i] = "exit1"]
  /\ tries' = [tries EXCEPT ![i] = 0]
  /\ UNCHANGED <<intent, handler>>

IsCaught(i) ==
  /\ pc[i] \notin {"schema", "open"} /\ handler[i] # "outer"
  /\ pc' = [pc EXCEPT ![i] = "close"]
  /\ tries' = [tries EXCEPT ![i] = 0]
  /\ intent' = [intent EXCEPT ![i] = "failed"]
  /\ handler' = [handler EXCEPT ![i] = "outer"]

LEMMA RaiseCases == ASSUME NEW i \in Jobs, Raise(i) PROVE EndsJob(i) \/ IsCaught(i)
BY DEF Raise, Goto, EndsJob, IsCaught

LEMMA DroppedCases ==
  ASSUME TypeOK, NEW i \in Jobs, Dropped(i)
  PROVE  /\ drops[i] < MaxDrops
         /\ drops' = [drops EXCEPT ![i] = drops[i] + 1]
         /\ drops' \in [Jobs -> 0 .. MaxDrops]
         /\ \/ TriesAgain(i)
            \/ tries[i] + 1 >= Attempts(pc[i]) /\ EndsJob(i)
            \/ tries[i] + 1 >= Attempts(pc[i]) /\ IsCaught(i)
<1>1. tries[i] \in 0 .. 2 /\ Attempts(pc[i]) \in 1 .. 3 /\ drops[i] \in Nat
  BY JobAssumptions DEF TypeOK, Attempts
<1>2. drops[i] < MaxDrops /\ drops' = [drops EXCEPT ![i] = drops[i] + 1]
  BY DEF Dropped
<1>3. drops' \in [Jobs -> 0 .. MaxDrops]
  BY <1>2, JobAssumptions DEF TypeOK
<1>4. CASE tries[i] + 1 < Attempts(pc[i])
  BY <1>1, <1>2, <1>3, <1>4 DEF Dropped, TriesAgain
<1>5. CASE ~(tries[i] + 1 < Attempts(pc[i]))
  <2>1. tries[i] + 1 >= Attempts(pc[i])
    BY <1>1, <1>5
  <2>2. Raise(i)
    BY <1>5 DEF Dropped
  <2>3. QED BY <1>2, <1>3, <2>1, <2>2, RaiseCases
<1>6. QED BY <1>4, <1>5

\* Control stays well-typed however a call fails.
LEMMA FailTypes ==
  ASSUME TypeOK, NEW i \in Jobs, TriesAgain(i) \/ EndsJob(i) \/ IsCaught(i)
  PROVE  /\ pc' \in [Jobs -> Calls \union Ended] /\ tries' \in [Jobs -> 0 .. 2]
         /\ intent' \in [Jobs -> Terminal] /\ handler' \in [Jobs -> {"body", "outer"}]
<1>1. CASE TriesAgain(i)
  <2>1. tries[i] \in 0 .. 2 /\ Attempts(pc[i]) \in 1 .. 3
    BY DEF TypeOK, Attempts
  <2>2. tries[i] + 1 \in 0 .. 2
    BY <1>1, <2>1 DEF TriesAgain
  <2>3. QED BY <1>1, <2>2 DEF TriesAgain, TypeOK
<1>2. CASE EndsJob(i)
  BY <1>2 DEF EndsJob, TypeOK
<1>3. CASE IsCaught(i)
  BY <1>3 DEF IsCaught, TypeOK
<1>4. QED BY <1>1, <1>2, <1>3

LEMMA ApplySchemaInv ==
  ASSUME RefreshInv, NEW i \in Jobs, ApplySchema(i)
  PROVE  RefreshInv'
<1> USE DEF ApplySchema, Goto, tables
<1>1. TypeOK /\ \A j \in Jobs : RowInv(j) /\ JobInv(j)
  BY InvByJob
<1>2. TypeOK'
  BY <1>1 DEF TypeOK
<1>3. ASSUME NEW j \in Jobs, j # i PROVE RowInv(j)' /\ JobInv(j)'
  BY <1>1, <1>3, OtherJob DEF TypeOK
<1>4. RowInv(i)' /\ JobInv(i)'
  <2>1. /\ pc'[i] = "open" /\ tries'[i] = 0 /\ drops[i] \in Nat /\ rid[i] = 0 /\ RowInv(i) /\ JobInv(i)
    BY <1>1, JobAssumptions DEF TypeOK, JobInv, StageInv
  <2>2. RowInv(i)' /\ StageInv(i)' /\ RetryInv(i)'
    BY <2>1 DEF RowInv, JobInv, StageInv, RetryInv, Attempts
  <2>3. LedgerInv(i)' /\ TablesInv(i)'
    BY <2>1 DEF JobInv, LedgerInv, TablesInv
  <2>4. QED BY <2>2, <2>3 DEF JobInv
<1>5. QED BY <1>2, <1>3, <1>4, InvByJobNext

LEMMA OpenRunInv ==
  ASSUME RefreshInv, NEW i \in Jobs, OpenRun(i)
  PROVE  RefreshInv'
<1> USE DEF tables
<1>1. TypeOK /\ RowInv(i) /\ JobInv(i) /\ \A j \in Jobs : RowInv(j) /\ JobInv(j)
  BY InvByJob
<1>2. /\ pc[i] = "open" /\ rid[i] = 0 /\ intent[i] = "failed" /\ handler[i] = "body"
      /\ tries[i] \in 0 .. 1 /\ drops[i] \in Nat /\ tries[i] <= drops[i]
  BY <1>1, JobAssumptions DEF OpenRun, JobInv, StageInv, RetryInv, Attempts, TypeOK
<1>3. /\ ledger' = [ledger EXCEPT ![<<i, tries[i] + 1>>] = "running"]
      /\ UNCHANGED <<crashes, before, built, tables>>
  BY DEF OpenRun
<1>4. ledger' \in [Jobs \X Inserts -> {"none", "running"} \union Terminal]
  BY <1>1, <1>3 DEF TypeOK
<1>5. \A k \in Inserts : /\ ledger[<<i, k>>] \in {"none", "running"}
                         /\ drops[i] = 0 => ledger[<<i, k>>] = "none"
  BY <1>1, <1>2 DEF JobInv, LedgerInv
<1>6. \A k \in Inserts : /\ ledger'[<<i, k>>] \in {"none", "running"}
                         /\ drops[i] = 0 /\ k # tries[i] + 1 => ledger'[<<i, k>>] = "none"
  BY <1>1, <1>2, <1>3, <1>5 DEF TypeOK
<1>7. CASE /\ rid' = [rid EXCEPT ![i] = tries[i] + 1]
           /\ Goto(i, "counts")
           /\ UNCHANGED <<intent, handler, drops>>
  <2>1. TypeOK'
    BY <1>1, <1>2, <1>3, <1>4, <1>7 DEF TypeOK, Goto
  <2>2. ASSUME NEW j \in Jobs, j # i PROVE RowInv(j)' /\ JobInv(j)'
    BY <1>1, <1>3, <1>7, <2>2, OtherJob DEF TypeOK, Goto
  <2>3. /\ pc'[i] = "counts" /\ tries'[i] = 0 /\ drops'[i] = drops[i] /\ rid'[i] = tries[i] + 1
        /\ intent'[i] = "failed" /\ handler'[i] = "body" /\ ledger'[<<i, rid'[i]>>] = "running"
    BY <1>1, <1>2, <1>3, <1>7 DEF TypeOK, Goto
  <2>4. RowInv(i)' /\ LedgerInv(i)'
    BY <1>6, <2>3 DEF RowInv, LedgerInv, OwnRow
  <2>5. StageInv(i)' /\ RetryInv(i)' /\ TablesInv(i)'
    BY <1>1, <1>2, <1>3, <2>3, NothingCounted DEF JobInv, StageInv, RetryInv, TablesInv, Attempts
  <2>6. QED BY <2>1, <2>2, <2>4, <2>5, InvByJobNext DEF JobInv
<1>8. CASE Dropped(i) /\ UNCHANGED rid
  <2>1. /\ drops' = [drops EXCEPT ![i] = drops[i] + 1] /\ drops' \in [Jobs -> 0 .. MaxDrops]
        /\ TriesAgain(i) \/ EndsJob(i)
    BY <1>1, <1>2, <1>8, DroppedCases DEF IsCaught
  <2>2. TypeOK'
    BY <1>1, <1>3, <1>4, <1>8, <2>1, FailTypes DEF TypeOK
  <2>3. ASSUME NEW j \in Jobs, j # i PROVE RowInv(j)' /\ JobInv(j)'
    BY <1>1, <1>3, <1>8, <2>1, <2>3, OtherJob DEF TypeOK, TriesAgain, EndsJob
  <2>4. /\ rid'[i] = 0 /\ drops'[i] = drops[i] + 1
        /\ pc'[i] \in {"open", "exit1"} /\ intent'[i] = "failed" /\ handler'[i] = "body"
    BY <1>1, <1>2, <1>8, <2>1 DEF TypeOK, TriesAgain, EndsJob
  <2>5. RowInv(i)' /\ LedgerInv(i)'
    BY <1>2, <1>6, <2>4 DEF RowInv, LedgerInv
  <2>6. StageInv(i)' /\ TablesInv(i)'
    <3>1. before'[i] = Unread /\ committed'[i] = {}
      BY <1>1, <1>2, <1>3 DEF JobInv, StageInv
    <3>2. StageInv(i)'
      BY <2>4, <3>1 DEF StageInv
    <3>3. TablesInv(i)'
      BY <2>4 DEF TablesInv
    <3>4. QED BY <3>2, <3>3
  <2>7. RetryInv(i)'
    BY <1>1, <1>2, <2>1, <2>4 DEF TypeOK, RetryInv, TriesAgain, EndsJob, Attempts
  <2>8. QED BY <2>2, <2>3, <2>5, <2>6, <2>7, InvByJobNext DEF JobInv
<1>9. QED BY <1>7, <1>8 DEF OpenRun

\* A call that failed for good inside run's try: run's outer handler takes over.
LEMMA CaughtInv ==
  ASSUME NEW i \in Jobs, TypeOK, RowInv(i), JobInv(i), IsCaught(i), pc[i] \in Calls,
         drops'[i] \in Nat, drops'[i] >= drops[i], rid'[i] = rid[i],
         \A k \in Inserts : k # rid[i] => ledger'[<<i, k>>] = ledger[<<i, k>>],
         \/ ledger'[OwnRow(i)] \in {"running", "failed"}
         \/ /\ drops'[i] >= 3 /\ committed'[i] = committed[i]
            /\ pc[i] = "close" /\ ledger'[OwnRow(i)] = intent[i]
  PROVE  RowInv(i)' /\ JobInv(i)'
<1>1. /\ pc'[i] = "close" /\ tries'[i] = 0 /\ intent'[i] = "failed" /\ handler'[i] = "outer"
      /\ rid[i] \in Inserts /\ rid'[i] = rid[i] /\ drops[i] \in Nat
  BY JobAssumptions DEF TypeOK, IsCaught, JobInv, StageInv
<1>2. \A k \in Inserts : k # rid[i] =>
        /\ ledger'[<<i, k>>] \in {"none", "running"}
        /\ drops'[i] = 0 => ledger'[<<i, k>>] = "none"
  BY <1>1 DEF JobInv, LedgerInv
<1>3. OwnRow(i)' = OwnRow(i) /\ OwnRow(i) = <<i, rid[i]>>
  BY <1>1 DEF OwnRow
<1>4. RowInv(i)'
  <2>1. \A k \in Inserts :
          /\ ledger'[<<i, k>>] = "success" => committed'[i] = {"core", "t25"}
          /\ ledger'[<<i, k>>] = "no_change" => committed'[i] = {}
    BY <1>1, <1>2, <1>3 DEF JobInv, StageInv
  <2>2. QED BY <1>1, <2>1 DEF RowInv
<1>5. StageInv(i)' /\ RetryInv(i)'
  BY <1>1 DEF StageInv, RetryInv, Attempts
<1>6. LedgerInv(i)'
  BY <1>1, <1>2, <1>3 DEF LedgerInv
<1>7. TablesInv(i)'
  BY <1>1 DEF TablesInv
<1>8. QED BY <1>4, <1>5, <1>6, <1>7 DEF JobInv

\* A close_run out of attempts has lost its third connection.
LEMMA LastCloseAttempt ==
  ASSUME NEW i \in Jobs, TypeOK, JobInv(i), pc[i] = "close", tries[i] + 1 >= Attempts(pc[i])
  PROVE  drops[i] \in Nat /\ drops[i] >= 2
<1>1. tries[i] \in 0 .. 2 /\ tries[i] <= drops[i] /\ drops[i] \in Nat
  BY JobAssumptions DEF TypeOK, JobInv, RetryInv
<1>2. Attempts(pc[i]) = 3
  BY DEF Attempts
<1>3. QED BY <1>1, <1>2

\* A call that failed for good outside it: the job exits with 1.
LEMMA EndsInv ==
  ASSUME NEW i \in Jobs, TypeOK, RowInv(i), JobInv(i), EndsJob(i), pc[i] \in Calls,
         tries[i] + 1 >= Attempts(pc[i]), drops'[i] = drops[i] + 1, rid'[i] = rid[i],
         committed'[i] = committed[i],
         \A k \in Inserts : k # rid[i] => ledger'[<<i, k>>] = ledger[<<i, k>>],
         rid[i] # 0 => ledger'[OwnRow(i)] \in {ledger[OwnRow(i)], "failed"}
  PROVE  RowInv(i)' /\ JobInv(i)'
<1>1. /\ pc'[i] = "exit1" /\ tries'[i] = 0 /\ intent'[i] = intent[i] /\ handler'[i] = handler[i]
      /\ rid[i] \in {0} \union Inserts /\ drops[i] \in Nat /\ OwnRow(i)' = OwnRow(i)
  BY JobAssumptions DEF TypeOK, EndsJob, OwnRow
<1>2. rid[i] # 0 => drops'[i] >= 3
  <2>1. rid[i] # 0 => pc[i] \notin {"schema", "open"} /\ handler[i] = "outer"
    BY DEF EndsJob, JobInv, StageInv
  <2>2. rid[i] # 0 => pc[i] = "close"
    BY <2>1 DEF JobInv, StageInv
  <2>3. QED BY <1>1, <2>2, LastCloseAttempt
<1>3. \A k \in Inserts :
        /\ ledger'[<<i, k>>] \in {ledger[<<i, k>>], "failed"}
        /\ k # rid[i] => ledger'[<<i, k>>] \in {"none", "running"}
  BY <1>1 DEF OwnRow, JobInv, LedgerInv
<1>4. RowInv(i)'
  BY <1>1, <1>2, <1>3 DEF RowInv
<1>5. StageInv(i)' /\ RetryInv(i)'
  BY <1>1 DEF StageInv, RetryInv, JobInv
<1>6. LedgerInv(i)' /\ TablesInv(i)'
  BY <1>1, <1>3 DEF LedgerInv, TablesInv
<1>7. QED BY <1>4, <1>5, <1>6 DEF JobInv

\* A call that failed and will be tried again.
LEMMA AgainInv ==
  ASSUME NEW i \in Jobs, TypeOK, RowInv(i), JobInv(i), TriesAgain(i), pc[i] \in Calls,
         drops'[i] = drops[i] + 1, UNCHANGED <<rid, built, tables>>,
         before'[i] = before[i] \/ (pc[i] = "counts" /\ before'[i] = Unread),
         \A k \in Inserts : k # rid[i] => ledger'[<<i, k>>] = ledger[<<i, k>>],
         rid[i] # 0 => \/ ledger'[OwnRow(i)] = ledger[OwnRow(i)]
                       \/ pc[i] = "close" /\ ledger'[OwnRow(i)] = intent[i]
  PROVE  RowInv(i)' /\ JobInv(i)'
<1>1. /\ pc'[i] = pc[i] /\ tries'[i] = tries[i] + 1 /\ intent'[i] = intent[i] /\ handler'[i] = handler[i]
      /\ rid'[i] = rid[i] /\ built'[i] = built[i] /\ committed'[i] = committed[i]
      /\ rows' = rows /\ views' = views /\ overlapped'[i] = overlapped[i]
      /\ rid[i] \in {0} \union Inserts /\ drops[i] \in Nat /\ OwnRow(i)' = OwnRow(i)
      /\ tries[i] \in 0 .. 2 /\ tries[i] <= drops[i] /\ tries[i] + 1 < Attempts(pc[i])
  BY JobAssumptions DEF TypeOK, TriesAgain, OwnRow, tables, JobInv, RetryInv
<1>2. RowInv(i)'
  BY <1>1 DEF RowInv, OwnRow, JobInv, StageInv
<1>3. StageInv(i)' /\ RetryInv(i)'
  BY <1>1, NothingCounted DEF StageInv, RetryInv, JobInv
<1>4. LedgerInv(i)'
  BY <1>1 DEF LedgerInv, JobInv, StageInv
<1>5. TablesInv(i)'
  BY <1>1, NothingCounted DEF TablesInv, JobInv
<1>6. QED BY <1>2, <1>3, <1>4, <1>5 DEF JobInv

LEMMA DropInv ==
  ASSUME RefreshInv, NEW i \in Jobs, Drop(i)
  PROVE  RefreshInv'
<1> USE DEF tables
<1>1. TypeOK /\ RowInv(i) /\ JobInv(i) /\ \A j \in Jobs : RowInv(j) /\ JobInv(j)
  BY InvByJob
<1>2. /\ UNCHANGED <<crashes, rid, ledger, built, tables>>
      /\ pc[i] \in Calls /\ Dropped(i)
      /\ before'[i] = before[i] \/ (pc[i] = "counts" /\ before'[i] = Unread)
      /\ \A j \in Jobs : j # i => before'[j] = before[j]
      /\ before' \in [Jobs -> [Tables -> RowCounts \union {Absent}]]
  <2>1. before \in [Jobs -> [Tables -> RowCounts \union {Absent}]]
    BY <1>1 DEF TypeOK
  <2>2. Unread \in [Tables -> RowCounts \union {Absent}]
    BY DEF Unread
  <2>3. before' = IF pc[i] = "counts" THEN [before EXCEPT ![i] = Unread] ELSE before
    BY DEF Drop
  <2>4. /\ UNCHANGED <<crashes, rid, ledger, built, tables>>
        /\ pc[i] \in Calls /\ Dropped(i)
    BY DEF Drop, Connecting
  <2> QED BY <2>1, <2>2, <2>3, <2>4
<1>3. /\ drops' = [drops EXCEPT ![i] = drops[i] + 1] /\ drops' \in [Jobs -> 0 .. MaxDrops]
      /\ \/ TriesAgain(i)
         \/ tries[i] + 1 >= Attempts(pc[i]) /\ EndsJob(i)
         \/ tries[i] + 1 >= Attempts(pc[i]) /\ IsCaught(i)
  BY <1>1, <1>2, DroppedCases
<1>4. TypeOK'
  BY <1>1, <1>2, <1>3, FailTypes DEF TypeOK
<1>5. ASSUME NEW j \in Jobs, j # i PROVE RowInv(j)' /\ JobInv(j)'
  BY <1>1, <1>2, <1>3, <1>5, OtherJob DEF TypeOK, TriesAgain, EndsJob, IsCaught
<1>6. drops'[i] = drops[i] + 1 /\ drops[i] \in Nat
  BY <1>1, <1>3, JobAssumptions DEF TypeOK
<1>7. CASE TriesAgain(i)
  <2>1. RowInv(i)' /\ JobInv(i)'
    BY <1>1, <1>2, <1>6, <1>7, AgainInv
  <2>2. QED BY <1>4, <1>5, <2>1, InvByJobNext
<1>8. CASE tries[i] + 1 >= Attempts(pc[i]) /\ EndsJob(i)
  <2>1. RowInv(i)' /\ JobInv(i)'
    BY <1>1, <1>2, <1>6, <1>8, EndsInv
  <2>2. QED BY <1>4, <1>5, <2>1, InvByJobNext
<1>9. CASE tries[i] + 1 >= Attempts(pc[i]) /\ IsCaught(i)
  <2>1. /\ \/ ledger'[OwnRow(i)] \in {"running", "failed"}
           \/ drops'[i] >= 3 /\ pc[i] = "close" /\ ledger'[OwnRow(i)] = intent[i]
        /\ rid[i] \in {0} \union Inserts
    <3>1. pc[i] \notin {"schema", "open"} /\ handler[i] = "body"
      BY <1>1, <1>9 DEF IsCaught, TypeOK
    <3>2. CASE pc[i] # "close"
      BY <1>1, <1>2, <3>1, <3>2 DEF JobInv, LedgerInv, TypeOK
    <3>3. CASE pc[i] = "close"
      <4>1. drops'[i] >= 3
        BY <1>1, <1>6, <1>9, <3>3, LastCloseAttempt
      <4>2. ledger'[OwnRow(i)] \in {"running", intent[i]}
        BY <1>1, <1>2, <3>1, <3>3 DEF JobInv, LedgerInv
      <4>3. QED BY <1>1, <3>3, <4>1, <4>2 DEF TypeOK
    <3>4. QED BY <3>2, <3>3
  <2>2. drops'[i] \in Nat /\ drops'[i] >= drops[i]
    BY <1>6
  <2>3. RowInv(i)' /\ JobInv(i)'
    BY <1>1, <1>2, <1>9, <2>1, <2>2, CaughtInv
  <2>4. QED BY <1>4, <1>5, <2>3, InvByJobNext
<1>10. QED BY <1>3, <1>7, <1>8, <1>9

\* One SELECT COUNT(*): a table that is missing, or one more count, the last or not.
LEMMA CountTablesInv ==
  ASSUME RefreshInv, NEW i \in Jobs, CountTables(i)
  PROVE  RefreshInv'
<1> USE DEF tables
<1>1. TypeOK /\ RowInv(i) /\ JobInv(i) /\ \A j \in Jobs : RowInv(j) /\ JobInv(j)
  BY InvByJob
<1>2. /\ UNCHANGED <<drops, crashes, rid, ledger, built, rows, views, committed>>
      /\ pc[i] = "counts"
  BY DEF CountTables
<1>3. /\ drops[i] \in Nat /\ handler[i] = "body" /\ rid[i] \in Inserts
      /\ ledger[OwnRow(i)] = "running" /\ intent[i] = "failed" /\ committed[i] = {}
      /\ OwnRow(i)' = OwnRow(i)
  BY <1>1, <1>2, JobAssumptions DEF TypeOK, JobInv, StageInv, LedgerInv, OwnRow
<1>4. PICK t \in Tables :
        /\ before[i][t] = Absent
        /\ \/ /\ rows[t] = Absent
              /\ Raise(i)
              /\ before' = [before EXCEPT ![i] = Unread]
              /\ UNCHANGED overlapped
           \/ /\ rows[t] # Absent
              /\ before' = [before EXCEPT ![i][t] = rows[t]]
              /\ overlapped' = [overlapped EXCEPT ![i] = before[i] # Unread /\ overlapped[i]]
              /\ IF \E u \in Tables \ {t} : before[i][u] = Absent
                 THEN UNCHANGED <<pc, tries>> ELSE Goto(i, "probe")
              /\ UNCHANGED <<intent, handler>>
  BY DEF CountTables
<1>5. CASE /\ Raise(i)
           /\ before' = [before EXCEPT ![i] = Unread]
           /\ UNCHANGED overlapped
  <2>1. IsCaught(i)
    BY <1>2, <1>3, <1>5, RaiseCases DEF EndsJob
  <2>2. before' \in [Jobs -> [Tables -> RowCounts \union {Absent}]]
    BY <1>1, <1>5 DEF TypeOK, Unread
  <2>3. TypeOK'
    BY <1>1, <1>2, <1>5, <2>1, <2>2, FailTypes DEF TypeOK
  <2>4. ASSUME NEW j \in Jobs, j # i PROVE RowInv(j)' /\ JobInv(j)'
    BY <1>1, <1>2, <1>5, <2>1, <2>4, OtherJob DEF TypeOK, IsCaught
  <2>5. RowInv(i)' /\ JobInv(i)'
    <3>1. drops'[i] = drops[i] /\ ledger'[OwnRow(i)] = "running"
      BY <1>2, <1>3
    <3>2. QED BY <1>1, <1>2, <1>3, <2>1, <3>1, CaughtInv
  <2>6. QED BY <2>3, <2>4, <2>5, InvByJobNext
<1>6. CASE /\ rows[t] # Absent
           /\ before' = [before EXCEPT ![i][t] = rows[t]]
           /\ overlapped' = [overlapped EXCEPT ![i] = before[i] # Unread /\ overlapped[i]]
           /\ IF \E u \in Tables \ {t} : before[i][u] = Absent
              THEN UNCHANGED <<pc, tries>> ELSE Goto(i, "probe")
           /\ UNCHANGED <<intent, handler>>
  <2>1. /\ before[i] \in [Tables -> RowCounts \union {Absent}] /\ rows[t] \in RowCounts
        /\ before'[i] = [before[i] EXCEPT ![t] = rows[t]]
        /\ before' \in [Jobs -> [Tables -> RowCounts \union {Absent}]]
    BY <1>1, <1>6 DEF TypeOK
  <2>2. overlapped' \in [Jobs -> BOOLEAN] /\ (~overlapped'[i] => before[i] = Unread \/ ~overlapped[i])
    BY <1>1, <1>6 DEF TypeOK
  \* What has been counted is still there, unless another job loaded.
  <2>3. ~overlapped'[i] => \A u \in Tables : before'[i][u] \in {Absent, rows[u]}
    <3>1. ~overlapped'[i] => \A u \in Tables : before[i][u] \in {Absent, rows[u]}
      BY <1>1, <1>2, <2>2 DEF JobInv, TablesInv, Unread
    <3>2. QED BY <2>1, <3>1
  <2>4. ASSUME NEW j \in Jobs, j # i
        PROVE  before'[j] = before[j] /\ overlapped'[j] = overlapped[j]
    BY <1>1, <1>6, <2>4 DEF TypeOK
  <2>5. CASE UNCHANGED <<pc, tries>> /\ \E u \in Tables \ {t} : before[i][u] = Absent
    <3>1. TypeOK'
      BY <1>1, <1>2, <1>6, <2>1, <2>2, <2>5 DEF TypeOK
    <3>2. ASSUME NEW j \in Jobs, j # i PROVE RowInv(j)' /\ JobInv(j)'
      <4>1. rid[j] \in {0} \union Inserts
        BY <1>1 DEF TypeOK
      <4> QED BY <1>1, <1>2, <1>6, <2>4, <2>5, <3>2, <4>1, OtherJob
    <3>3. RowInv(i)' /\ LedgerInv(i)' /\ RetryInv(i)'
      BY <1>1, <1>2, <1>3, <1>6, <2>5 DEF RowInv, JobInv, LedgerInv, RetryInv
    <3>4. StageInv(i)' /\ TablesInv(i)'
      <4>1. pc'[i] = "counts" /\ \E u \in Tables : before'[i][u] = Absent
        BY <1>2, <2>1, <2>5
      <4> QED BY <1>2, <1>3, <1>6, <2>3, <4>1 DEF StageInv, TablesInv
    <3> QED BY <3>1, <3>2, <3>3, <3>4, InvByJobNext DEF JobInv
  <2>6. CASE Goto(i, "probe") /\ \A u \in Tables \ {t} : before[i][u] # Absent
    <3>1. TypeOK'
      BY <1>1, <1>2, <1>6, <2>1, <2>2, <2>6 DEF TypeOK, Goto
    <3>2. ASSUME NEW j \in Jobs, j # i PROVE RowInv(j)' /\ JobInv(j)'
      <4>1. rid[j] \in {0} \union Inserts /\ pc'[j] = pc[j] /\ tries'[j] = tries[j]
        BY <1>1, <2>6, <3>2 DEF TypeOK, Goto
      <4> QED BY <1>1, <1>2, <1>6, <2>4, <3>2, <4>1, OtherJob
    <3>3. pc'[i] = "probe" /\ tries'[i] = 0
      BY <1>1, <2>6 DEF TypeOK, Goto
    <3>4. before'[i] \in [Tables -> RowCounts] /\ (~overlapped'[i] => rows = before'[i])
      <4>1. \A u \in Tables : before'[i][u] \in RowCounts
        BY <2>1, <2>6
      <4>2. before'[i] \in [Tables -> RowCounts]
        BY <2>1, <4>1
      <4>3. \A u \in Tables : before'[i][u] # Absent
        BY <4>1, TableAssumptions
      <4>4. rows \in [Tables -> RowCounts \union {Absent}]
        BY <1>1 DEF TypeOK
      <4> QED BY <2>3, <4>2, <4>3, <4>4
    <3>5. RowInv(i)' /\ LedgerInv(i)'
      BY <1>1, <1>2, <1>3, <1>6, <3>3 DEF RowInv, JobInv, LedgerInv
    <3>6. StageInv(i)' /\ RetryInv(i)' /\ TablesInv(i)'
      BY <1>2, <1>3, <1>6, <3>3, <3>4 DEF StageInv, RetryInv, TablesInv, Attempts
    <3> QED BY <3>1, <3>2, <3>5, <3>6, InvByJobNext DEF JobInv
  <2> QED BY <1>6, <2>5, <2>6
<1> QED BY <1>4, <1>5, <1>6

\* Steps that only move the job on: its row stays running, the tables stay as they are.
LEMMA MovesOn ==
  ASSUME RefreshInv, NEW i \in Jobs, NEW call \in Calls \ {"schema", "open", "counts"},
         pc[i] \in Calls \ {"schema", "open", "counts", "close"},
         Goto(i, call), UNCHANGED <<handler, drops, crashes, rid, ledger, before, tables>>,
         intent' \in [Jobs -> Terminal], built' \in [Jobs -> [Tables -> RowCounts]],
         \A j \in Jobs : j # i => intent'[j] = intent[j] /\ built'[j] = built[j],
         StageInv(i)', TablesInv(i)'
  PROVE  RefreshInv'
<1> USE DEF tables, Goto
<1>1. TypeOK /\ RowInv(i) /\ JobInv(i) /\ \A j \in Jobs : RowInv(j) /\ JobInv(j)
  BY InvByJob
<1>2. TypeOK'
  BY <1>1 DEF TypeOK
<1>3. ASSUME NEW j \in Jobs, j # i PROVE RowInv(j)' /\ JobInv(j)'
  BY <1>1, <1>3, OtherJob DEF TypeOK
<1>4. /\ pc'[i] = call /\ tries'[i] = 0 /\ drops[i] \in Nat /\ OwnRow(i)' = OwnRow(i)
      /\ ledger[OwnRow(i)] = "running"
  BY <1>1, JobAssumptions DEF TypeOK, OwnRow, JobInv, LedgerInv
<1>5. RowInv(i)' /\ RetryInv(i)'
  BY <1>1, <1>4 DEF RowInv, RetryInv, Attempts
<1>6. LedgerInv(i)'
  BY <1>1, <1>4 DEF JobInv, LedgerInv
<1>7. QED BY <1>2, <1>3, <1>5, <1>6, InvByJobNext DEF JobInv

LEMMA ProbeInv ==
  ASSUME RefreshInv, NEW i \in Jobs, Probe(i)
  PROVE  RefreshInv'
<1>1. TypeOK /\ JobInv(i)
  BY InvByJob
<1>2. /\ pc[i] = "probe" /\ UNCHANGED <<handler, drops, crashes, rid, ledger, before, built, tables>>
      /\ rid[i] # 0 /\ handler[i] = "body" /\ intent[i] = "failed" /\ committed[i] = {}
      /\ before[i] \in [Tables -> RowCounts] /\ (~overlapped[i] => rows = before[i])
  BY <1>1 DEF Probe, JobInv, StageInv, TablesInv
<1>3. CASE Goto(i, "build") /\ UNCHANGED intent
  <2>1. pc'[i] = "build"
    BY <1>1, <1>3 DEF Goto, TypeOK
  <2>2. StageInv(i)' /\ TablesInv(i)'
    BY <1>2, <1>3, <2>1 DEF StageInv, TablesInv, tables
  <2>3. QED BY <1>1, <1>2, <1>3, <2>2, MovesOn DEF TypeOK
<1>4. CASE intent' = [intent EXCEPT ![i] = "no_change"] /\ Goto(i, "period")
  <2>1. pc'[i] = "period" /\ intent'[i] = "no_change"
    BY <1>1, <1>4 DEF Goto, TypeOK
  <2>2. StageInv(i)' /\ TablesInv(i)'
    BY <1>2, <2>1 DEF StageInv, TablesInv, tables
  <2>3. QED BY <1>1, <1>2, <1>4, <2>2, MovesOn DEF TypeOK
<1>5. QED BY <1>3, <1>4 DEF Probe

LEMMA BuildInv ==
  ASSUME RefreshInv, NEW i \in Jobs, Build(i)
  PROVE  RefreshInv'
<1>1. TypeOK /\ JobInv(i)
  BY InvByJob
<1>2. /\ pc[i] = "build" /\ UNCHANGED <<intent, handler, drops, crashes, rid, ledger, before, tables>>
      /\ rid[i] # 0 /\ handler[i] = "body" /\ intent[i] = "failed" /\ committed[i] = {}
      /\ before[i] \in [Tables -> RowCounts] /\ (~overlapped[i] => rows = before[i])
  BY <1>1 DEF Build, JobInv, StageInv, TablesInv
<1>3. /\ built' \in [Jobs -> [Tables -> RowCounts]]
      /\ \A j \in Jobs : j # i => built'[j] = built[j]
  BY <1>1 DEF Build, TypeOK
<1>4. PICK call \in {"validate", "close"} : Goto(i, call)
  BY DEF Build
<1>5. pc'[i] = call
  BY <1>1, <1>4 DEF Goto, TypeOK
<1>6. StageInv(i)' /\ TablesInv(i)'
  BY <1>2, <1>5 DEF StageInv, TablesInv, tables
<1>7. QED BY <1>1, <1>2, <1>3, <1>4, <1>6, MovesOn DEF TypeOK

LEMMA ValidateInv ==
  ASSUME RefreshInv, NEW i \in Jobs, Validate(i)
  PROVE  RefreshInv'
<1>1. TypeOK /\ JobInv(i)
  BY InvByJob
<1>2. /\ pc[i] = "validate"
      /\ UNCHANGED <<intent, handler, drops, crashes, rid, ledger, before, built, tables>>
      /\ rid[i] # 0 /\ handler[i] = "body" /\ intent[i] = "failed" /\ committed[i] = {}
      /\ before[i] \in [Tables -> RowCounts] /\ (~overlapped[i] => rows = before[i])
  BY <1>1 DEF Validate, JobInv, StageInv, TablesInv
<1>3. PICK call \in {"load", "close"} : Goto(i, call) /\ (call = "load" => ClearsFloor(built[i], before[i]))
  BY DEF Validate
<1>4. pc'[i] = call
  BY <1>1, <1>3 DEF Goto, TypeOK
<1>5. StageInv(i)'
  BY <1>2, <1>4 DEF StageInv, tables
<1>6. ClearsFloor(built[i], before[i])' <=> ClearsFloor(built[i], before[i])
  BY <1>2 DEF ClearsFloor
<1>7. TablesInv(i)'
  BY <1>2, <1>3, <1>4, <1>6 DEF TablesInv, tables
<1>8. QED BY <1>1, <1>2, <1>3, <1>5, <1>7, MovesOn DEF TypeOK

LEMMA RecountInv ==
  ASSUME RefreshInv, NEW i \in Jobs, Recount(i)
  PROVE  RefreshInv'
<1>1. TypeOK /\ JobInv(i)
  BY InvByJob
<1>2. /\ pc[i] = "recount" /\ Goto(i, "period") /\ intent' = [intent EXCEPT ![i] = "success"]
      /\ UNCHANGED <<handler, drops, crashes, rid, ledger, before, built, tables>>
  BY DEF Recount
<1>3. pc'[i] = "period" /\ intent'[i] = "success"
  BY <1>1, <1>2 DEF Goto, TypeOK
<1>4. StageInv(i)' /\ TablesInv(i)'
  BY <1>1, <1>2, <1>3 DEF JobInv, StageInv, TablesInv, tables
<1>5. QED BY <1>1, <1>2, <1>4, MovesOn DEF TypeOK

LEMMA ReadPeriodInv ==
  ASSUME RefreshInv, NEW i \in Jobs, ReadPeriod(i)
  PROVE  RefreshInv'
<1>1. TypeOK /\ JobInv(i)
  BY InvByJob
<1>2. /\ pc[i] = "period" /\ Goto(i, "close")
      /\ UNCHANGED <<intent, handler, drops, crashes, rid, ledger, before, built, tables>>
  BY DEF ReadPeriod
<1>3. pc'[i] = "close"
  BY <1>1, <1>2 DEF Goto, TypeOK
<1>4. StageInv(i)' /\ TablesInv(i)'
  BY <1>1, <1>2, <1>3 DEF JobInv, StageInv, TablesInv, tables
<1>5. QED BY <1>1, <1>2, <1>4, MovesOn DEF TypeOK

LEMMA FaultInv ==
  ASSUME RefreshInv, NEW i \in Jobs, Fault(i)
  PROVE  RefreshInv'
<1> USE DEF tables
<1>1. TypeOK /\ RowInv(i) /\ JobInv(i) /\ \A j \in Jobs : RowInv(j) /\ JobInv(j)
  BY InvByJob
<1>2. /\ UNCHANGED <<drops, crashes, rid, ledger, before, built, tables>>
      /\ pc[i] \in {"probe", "build", "validate", "load", "load25"} /\ Raise(i)
  BY DEF Fault
<1>3. drops[i] \in Nat /\ handler[i] = "body" /\ rid[i] \in Inserts /\ ledger[OwnRow(i)] = "running"
  BY <1>1, <1>2, JobAssumptions DEF TypeOK, JobInv, StageInv, LedgerInv
<1>4. IsCaught(i)
  BY <1>2, <1>3, RaiseCases DEF EndsJob
<1>5. TypeOK'
  BY <1>1, <1>2, <1>4, FailTypes DEF TypeOK
<1>6. ASSUME NEW j \in Jobs, j # i PROVE RowInv(j)' /\ JobInv(j)'
  BY <1>1, <1>2, <1>4, <1>6, OtherJob DEF TypeOK, IsCaught
<1>7. drops'[i] = drops[i] /\ ledger'[OwnRow(i)] = "running"
  BY <1>2, <1>3
<1>8. RowInv(i)' /\ JobInv(i)'
  BY <1>1, <1>2, <1>3, <1>4, <1>7, CaughtInv
<1>9. QED BY <1>5, <1>6, <1>8, InvByJobNext

\* A load transaction: the tables change, every other job's view of them is outdated.
LEMMA CommitInv ==
  ASSUME RefreshInv, NEW i \in Jobs, NEW load \in {"core", "t25"}, NEW T,
         NEW next \in Calls \ {"schema", "open", "counts"},
         pc[i] \in {"load", "load25"}, Commit(i, load, T, next), views' \in BOOLEAN,
         Goto(i, next) /\ UNCHANGED <<intent, handler, drops>>
           => StageInv(i)' /\ TablesInv(i)' /\ next # "close"
  PROVE  RefreshInv'
<1>1. TypeOK /\ RowInv(i) /\ JobInv(i) /\ \A j \in Jobs : RowInv(j) /\ JobInv(j)
  BY InvByJob
<1>2. /\ rows' = Replace(rows, T, built[i])
      /\ committed' = [committed EXCEPT ![i] = committed[i] \union {load}]
      /\ overlapped' = [k \in Jobs |-> overlapped[k] \/ k # i]
      /\ UNCHANGED <<crashes, rid, ledger, before, built>>
  BY DEF Commit
<1>3. /\ drops[i] \in Nat /\ handler[i] = "body" /\ rid[i] \in Inserts
      /\ ledger[OwnRow(i)] = "running" /\ pc[i] \in Calls \ {"schema", "open"}
      /\ pc[i] # "close" /\ OwnRow(i)' = OwnRow(i)
  BY <1>1, <1>2, JobAssumptions DEF TypeOK, JobInv, StageInv, LedgerInv, OwnRow
<1>4. rows' \in [Tables -> RowCounts \union {Absent}]
  BY <1>1, <1>2 DEF TypeOK, Replace
<1>5. committed' \in [Jobs -> SUBSET {"core", "t25"}] /\ overlapped' \in [Jobs -> BOOLEAN]
  <2>1. overlapped' \in [Jobs -> BOOLEAN]
    BY <1>2
  <2>2. committed' \in [Jobs -> SUBSET {"core", "t25"}]
    BY <1>1, <1>2 DEF TypeOK
  <2>3. QED BY <2>1, <2>2
<1>6. ASSUME NEW j \in Jobs, j # i PROVE overlapped'[j] = TRUE
  BY <1>2, <1>6
<1>7. CASE Goto(i, next) /\ UNCHANGED <<intent, handler, drops>>
  <2>1. TypeOK'
    BY <1>1, <1>2, <1>4, <1>5, <1>7 DEF TypeOK, Goto
  <2>2. ASSUME NEW j \in Jobs, j # i PROVE RowInv(j)' /\ JobInv(j)'
    BY <1>1, <1>2, <1>6, <1>7, <2>2, OtherJob DEF TypeOK, Goto
  <2>3. pc'[i] = next /\ tries'[i] = 0
    BY <1>1, <1>7 DEF TypeOK, Goto
  <2>4. RowInv(i)'
    <3>1. \A k \in Inserts : ledger'[<<i, k>>] \notin {"success", "no_change"}
      BY <1>1, <1>2, <1>3 DEF JobInv, LedgerInv, OwnRow
    <3>2. QED BY <2>3, <3>1 DEF RowInv
  <2>5. RetryInv(i)'
    BY <1>3, <1>7, <2>3 DEF RetryInv, Attempts
  <2>6. LedgerInv(i)'
    BY <1>1, <1>2, <1>3, <1>7, <2>3 DEF JobInv, LedgerInv
  <2>7. QED BY <1>7, <2>1, <2>2, <2>4, <2>5, <2>6, InvByJobNext DEF JobInv
<1>8. CASE Dropped(i)
  <2>1. /\ drops' = [drops EXCEPT ![i] = drops[i] + 1] /\ drops' \in [Jobs -> 0 .. MaxDrops]
        /\ IsCaught(i)
    <3>1. Attempts(pc[i]) = 1
      BY <1>1 DEF Attempts
    <3>2. ~ TriesAgain(i)
      <4>1. tries[i] \in 0 .. 2
        BY <1>1 DEF TypeOK
      <4>2. ~(tries[i] + 1 < 1)
        BY <4>1
      <4>3. QED BY <3>1, <4>2 DEF TriesAgain
    <3>3. ~ EndsJob(i)
      BY <1>3 DEF EndsJob
    <3>4. QED BY <1>1, <1>8, <3>2, <3>3, DroppedCases
  <2>2. TypeOK'
    BY <1>1, <1>2, <1>4, <1>5, <2>1, FailTypes DEF TypeOK
  <2>3. ASSUME NEW j \in Jobs, j # i PROVE RowInv(j)' /\ JobInv(j)'
    BY <1>1, <1>2, <1>6, <2>1, <2>3, OtherJob DEF TypeOK, IsCaught
  <2>4. drops'[i] \in Nat /\ drops'[i] >= drops[i] /\ ledger'[OwnRow(i)] = "running"
    BY <1>1, <1>2, <1>3, <2>1 DEF TypeOK
  <2>5. RowInv(i)' /\ JobInv(i)'
    BY <1>1, <1>2, <1>3, <2>1, <2>4, CaughtInv
  <2>6. QED BY <2>2, <2>3, <2>5, InvByJobNext
<1>9. QED BY <1>7, <1>8 DEF Commit

LEMMA LoadCoreInv ==
  ASSUME RefreshInv, NEW i \in Jobs, LoadCore(i)
  PROVE  RefreshInv'
<1>1. TypeOK /\ JobInv(i) /\ pc[i] = "load" /\ Commit(i, "core", CoreTables, "load25") /\ views' = FALSE
  BY InvByJob DEF LoadCore
<1>2. ASSUME Goto(i, "load25"), UNCHANGED <<intent, handler, drops>>
      PROVE  StageInv(i)' /\ TablesInv(i)'
  <2>1. /\ pc'[i] = "load25" /\ rid'[i] = rid[i] /\ committed'[i] = committed[i] \union {"core"}
        /\ before'[i] = before[i] /\ built'[i] = built[i]
        /\ rows' = Replace(rows, CoreTables, built[i]) /\ (overlapped'[i] = overlapped[i])
    BY <1>1, <1>2 DEF Commit, Goto, TypeOK
  <2>2. StageInv(i)'
    BY <1>1, <1>2, <2>1 DEF JobInv, StageInv
  <2>3. TablesInv(i)'
    BY <1>1, <2>1 DEF JobInv, TablesInv, ClearsFloor
  <2>4. QED BY <2>2, <2>3
<1>3. QED BY <1>1, <1>2, CommitInv

LEMMA LoadT25Inv ==
  ASSUME RefreshInv, NEW i \in Jobs, LoadT25(i)
  PROVE  RefreshInv'
<1>1. TypeOK /\ JobInv(i) /\ pc[i] = "load25" /\ Commit(i, "t25", T25Tables, "recount") /\ views' = TRUE
  BY InvByJob DEF LoadT25
<1>2. ASSUME Goto(i, "recount"), UNCHANGED <<intent, handler, drops>>
      PROVE  StageInv(i)' /\ TablesInv(i)'
  <2>1. /\ pc'[i] = "recount" /\ rid'[i] = rid[i] /\ committed'[i] = committed[i] \union {"t25"}
        /\ before'[i] = before[i] /\ built'[i] = built[i]
        /\ rows' = Replace(rows, T25Tables, built[i]) /\ (overlapped'[i] = overlapped[i])
    BY <1>1, <1>2 DEF Commit, Goto, TypeOK
  <2>2. StageInv(i)'
    BY <1>1, <1>2, <2>1 DEF JobInv, StageInv
  <2>3. ~overlapped[i] => rows' = built[i]
    <3>1. built[i] \in [Tables -> RowCounts]
      BY <1>1 DEF TypeOK
    <3>2. ~overlapped[i] => rows = Replace(before[i], CoreTables, built[i])
      BY <1>1 DEF JobInv, TablesInv
    <3>3. QED BY <2>1, <3>1, <3>2 DEF Replace, Tables
  <2>4. TablesInv(i)'
    BY <1>1, <2>1, <2>3 DEF JobInv, TablesInv
  <2>5. QED BY <2>2, <2>4
<1>3. QED BY <1>1, <1>2, CommitInv

LEMMA CloseRunInv ==
  ASSUME RefreshInv, NEW i \in Jobs, CloseRun(i)
  PROVE  RefreshInv'
<1> USE DEF tables
<1>1. TypeOK /\ RowInv(i) /\ JobInv(i) /\ \A j \in Jobs : RowInv(j) /\ JobInv(j)
  BY InvByJob
<1>2. /\ pc[i] = "close" /\ ledger' = [ledger EXCEPT ![OwnRow(i)] = intent[i]]
      /\ UNCHANGED <<crashes, rid, before, built, tables>>
  BY DEF CloseRun
<1>3. /\ drops[i] \in Nat /\ rid[i] \in Inserts /\ intent[i] \in Terminal /\ OwnRow(i)' = OwnRow(i)
      /\ OwnRow(i) = <<i, rid[i]>> /\ handler[i] \in {"body", "outer"}
  BY <1>1, <1>2, JobAssumptions DEF TypeOK, JobInv, StageInv, OwnRow
<1>4. /\ ledger' \in [Jobs \X Inserts -> {"none", "running"} \union Terminal]
      /\ ledger'[OwnRow(i)] = intent[i]
      /\ \A k \in Inserts : k # rid[i] => ledger'[<<i, k>>] = ledger[<<i, k>>]
      /\ \A j \in Jobs, k \in Inserts : j # i => ledger'[<<j, k>>] = ledger[<<j, k>>]
  BY <1>1, <1>2, <1>3 DEF TypeOK
<1>5. CASE /\ Goto(i, IF intent[i] = "failed" THEN "exit1" ELSE "exit0")
           /\ UNCHANGED <<intent, handler, drops>>
  <2>1. TypeOK'
    BY <1>1, <1>2, <1>4, <1>5 DEF TypeOK, Goto
  <2>2. ASSUME NEW j \in Jobs, j # i PROVE RowInv(j)' /\ JobInv(j)'
    <3>1. /\ pc'[j] = pc[j] /\ tries'[j] = tries[j] /\ rid[j] \in {0} \union Inserts
          /\ \A k \in Inserts : ledger'[<<j, k>>] = ledger[<<j, k>>]
      BY <1>1, <1>4, <1>5, <2>2 DEF TypeOK, Goto
    <3>2. QED BY <1>1, <1>2, <1>5, <3>1, OtherJob
  <2>3. /\ pc'[i] = IF intent[i] = "failed" THEN "exit1" ELSE "exit0"
        /\ tries'[i] = 0 /\ drops'[i] = drops[i] /\ rid'[i] = rid[i]
        /\ handler'[i] = handler[i] /\ intent'[i] = intent[i]
    BY <1>1, <1>2, <1>5 DEF TypeOK, Goto
  <2>4. \A k \in Inserts : k # rid[i] => /\ ledger'[<<i, k>>] \in {"none", "running"}
                                         /\ drops[i] = 0 => ledger'[<<i, k>>] = "none"
    BY <1>1, <1>4 DEF JobInv, LedgerInv
  <2>5. RowInv(i)'
    BY <1>1, <1>2, <1>3, <1>4, <2>3, <2>4 DEF RowInv, JobInv, StageInv
  <2>6. StageInv(i)' /\ RetryInv(i)'
    BY <1>1, <1>3, <2>3 DEF JobInv, StageInv, RetryInv
  <2>7. LedgerInv(i)' /\ TablesInv(i)'
    BY <2>3, <2>4 DEF LedgerInv, TablesInv
  <2>8. QED BY <2>1, <2>2, <2>5, <2>6, <2>7, InvByJobNext DEF JobInv
<1>6. CASE Dropped(i)
  <2>1. /\ drops' = [drops EXCEPT ![i] = drops[i] + 1] /\ drops' \in [Jobs -> 0 .. MaxDrops]
        /\ \/ TriesAgain(i)
           \/ tries[i] + 1 >= Attempts(pc[i]) /\ EndsJob(i)
           \/ tries[i] + 1 >= Attempts(pc[i]) /\ IsCaught(i)
    BY <1>1, <1>6, DroppedCases
  <2>2. TypeOK'
    BY <1>1, <1>2, <1>4, <2>1, FailTypes DEF TypeOK
  <2>3. ASSUME NEW j \in Jobs, j # i PROVE RowInv(j)' /\ JobInv(j)'
    <3>1. /\ pc'[j] = pc[j] /\ tries'[j] = tries[j] /\ drops'[j] = drops[j]
          /\ intent'[j] = intent[j] /\ handler'[j] = handler[j]
      BY <1>1, <2>1, <2>3 DEF TypeOK, TriesAgain, EndsJob, IsCaught
    <3>2. rid[j] \in {0} \union Inserts /\ \A k \in Inserts : ledger'[<<j, k>>] = ledger[<<j, k>>]
      BY <1>1, <1>4, <2>3 DEF TypeOK
    <3>3. QED BY <1>1, <1>2, <3>1, <3>2, OtherJob
  <2>4. drops'[i] = drops[i] + 1 /\ rid'[i] = rid[i] /\ committed'[i] = committed[i]
    BY <1>1, <1>2, <2>1 DEF TypeOK
  <2>5. CASE TriesAgain(i)
    <3>1. RowInv(i)' /\ JobInv(i)'
      <4>1. before'[i] = before[i] \/ (pc[i] = "counts" /\ before'[i] = Unread)
        BY <1>2
      <4> QED BY <1>1, <1>2, <1>4, <2>4, <2>5, <4>1, AgainInv
    <3>2. QED BY <2>2, <2>3, <3>1, InvByJobNext
  <2>6. CASE tries[i] + 1 >= Attempts(pc[i]) /\ EndsJob(i)
    <3>1. ledger'[OwnRow(i)] = "failed"
      BY <1>1, <1>2, <1>4, <2>6 DEF EndsJob, JobInv, StageInv
    <3>2. RowInv(i)' /\ JobInv(i)'
      BY <1>1, <1>2, <1>4, <2>4, <2>6, <3>1, EndsInv
    <3>3. QED BY <2>2, <2>3, <3>2, InvByJobNext
  <2>7. CASE tries[i] + 1 >= Attempts(pc[i]) /\ IsCaught(i)
    <3>1. drops'[i] \in Nat /\ drops'[i] >= drops[i] /\ drops'[i] >= 3
      BY <1>1, <1>2, <2>4, <2>7, LastCloseAttempt
    <3>2. RowInv(i)' /\ JobInv(i)'
      BY <1>1, <1>2, <1>4, <2>4, <2>7, <3>1, CaughtInv
    <3>3. QED BY <2>2, <2>3, <3>2, InvByJobNext
  <2>8. QED BY <2>1, <2>5, <2>6, <2>7
<1>7. QED BY <1>5, <1>6 DEF CloseRun

LEMMA CrashInv ==
  ASSUME RefreshInv, NEW i \in Jobs, Crash(i)
  PROVE  RefreshInv'
<1> USE DEF tables
<1>1. TypeOK /\ RowInv(i) /\ JobInv(i) /\ \A j \in Jobs : RowInv(j) /\ JobInv(j)
  BY InvByJob
<1>2. /\ pc' = [pc EXCEPT ![i] = "killed"] /\ tries' = [tries EXCEPT ![i] = 0]
      /\ crashes < MaxCrashes /\ crashes' = crashes + 1
      /\ UNCHANGED <<intent, handler, drops, rid, ledger, before, built, tables>>
  BY DEF Crash, Goto
<1>3. TypeOK'
  BY <1>1, <1>2, JobAssumptions DEF TypeOK
<1>4. ASSUME NEW j \in Jobs, j # i PROVE RowInv(j)' /\ JobInv(j)'
  BY <1>1, <1>2, <1>4, OtherJob DEF TypeOK
<1>5. pc'[i] = "killed" /\ tries'[i] = 0 /\ drops[i] \in Nat
  BY <1>1, <1>2, JobAssumptions DEF TypeOK
<1>6. RowInv(i)' /\ StageInv(i)' /\ RetryInv(i)'
  BY <1>1, <1>2, <1>5 DEF RowInv, JobInv, StageInv, RetryInv
<1>7. LedgerInv(i)' /\ TablesInv(i)'
  BY <1>1, <1>2, <1>5 DEF JobInv, LedgerInv, TablesInv
<1>8. QED BY <1>3, <1>4, <1>6, <1>7, InvByJobNext DEF JobInv
LEMMA NextInv == RefreshInv /\ [Next]_refreshVars => RefreshInv'
<1> SUFFICES ASSUME RefreshInv, [Next]_refreshVars PROVE RefreshInv'
  OBVIOUS
<1>1. CASE UNCHANGED refreshVars
  <2>1. TypeOK' /\ RowsTellWhatCommitted' /\ ExitAgreesWithRow'
    BY <1>1 DEF refreshVars, control, tables, RefreshInv, TypeOK, RowsTellWhatCommitted,
                ExitAgreesWithRow, OwnRow
  <2>2. ASSUME NEW j \in Jobs PROVE StageInv(j)' /\ RetryInv(j)' /\ LedgerInv(j)' /\ TablesInv(j)'
    BY <1>1 DEF refreshVars, control, tables, RefreshInv, StageInv, RetryInv, LedgerInv,
                TablesInv, OwnRow
  <2>3. QED BY <2>1, <2>2 DEF RefreshInv
<1>2. ASSUME NEW i \in Jobs, Step(i) PROVE RefreshInv'
  BY <1>2, ApplySchemaInv, OpenRunInv, CountTablesInv, ProbeInv, BuildInv, ValidateInv,
     LoadCoreInv, LoadT25Inv, RecountInv, ReadPeriodInv, CloseRunInv, DropInv, FaultInv DEF Step
<1>3. ASSUME NEW i \in Jobs, Crash(i) PROVE RefreshInv'
  BY <1>3, CrashInv
<1>4. QED BY <1>1, <1>2, <1>3 DEF Next

----------------------------------------------------------------------------
\* Every reachable state satisfies the inductive invariant: a job's stage, its row and
\* the tables it loaded agree, whatever is retried, lost, overlapped or killed.
THEOREM RefreshInvariant == Spec => []RefreshInv
BY InitInv, NextInv, PTL DEF Spec

\* Every variable of the job keeps its type (refresh.py's locals and the run ledger).
THEOREM TypeCorrect == Spec => []TypeOK
<1>1. RefreshInv => TypeOK
  BY DEF RefreshInv
<1>2. QED BY <1>1, RefreshInvariant, PTL

\* A row recorded `success` or `no_change` (close_run) never lies about the loads.
THEOREM RowsAreTrue == Spec => []RowsTellWhatCommitted
<1>1. RefreshInv => RowsTellWhatCommitted
  BY DEF RefreshInv
<1>2. QED BY <1>1, RefreshInvariant, PTL

\* The exit code of run_and_exit_code and the row close_run left agree.
THEOREM ExitIsTrue == Spec => []ExitAgreesWithRow
<1>1. RefreshInv => ExitAgreesWithRow
  BY DEF RefreshInv
<1>2. QED BY <1>1, RefreshInvariant, PTL

----------------------------------------------------------------------------
\* Only open_run and close_run write the ledger; everything else leaves rows alone.
LEMMA LedgerSteps ==
  ASSUME [Next]_refreshVars
  PROVE  \/ ledger' = ledger
         \/ \E i \in Jobs : OpenRun(i) \/ CloseRun(i)
BY DEF Next, Step, refreshVars, control, tables, ApplySchema, CountTables, Probe, Build, Validate,
       LoadCore, LoadT25, Commit, Recount, ReadPeriod, Drop, Fault, Crash

\* Only the two loads write the tables.
LEMMA TableSteps ==
  ASSUME [Next]_refreshVars
  PROVE  \/ rows' = rows
         \/ \E i \in Jobs : LoadCore(i) \/ LoadT25(i)
BY DEF Next, Step, refreshVars, control, tables, ApplySchema, OpenRun, CountTables, Probe, Build,
       Validate, Recount, ReadPeriod, CloseRun, Drop, Fault, Crash

\* What a close_run attempt writes, and where.
LEMMA CloseWrites ==
  ASSUME TypeOK, NEW i \in Jobs, JobInv(i), CloseRun(i)
  PROVE  /\ pc[i] = "close" /\ rid[i] \in Inserts /\ OwnRow(i) = <<i, rid[i]>>
         /\ drops[i] \in Nat /\ drops'[i] \in Nat /\ drops'[i] >= drops[i]
         /\ \A j \in Jobs, k \in Inserts :
              ledger'[<<j, k>>] = IF j = i /\ k = rid[i] THEN intent[i] ELSE ledger[<<j, k>>]
         /\ ledger'[<<i, rid[i]>>] = intent[i]
<1>1. pc[i] = "close" /\ rid[i] \in Inserts /\ OwnRow(i) = <<i, rid[i]>>
  BY DEF CloseRun, TypeOK, JobInv, StageInv, OwnRow
<1>2. ledger' = [ledger EXCEPT ![<<i, rid[i]>>] = intent[i]]
  BY <1>1 DEF CloseRun
<1>3. \A j \in Jobs, k \in Inserts :
        ledger'[<<j, k>>] = IF j = i /\ k = rid[i] THEN intent[i] ELSE ledger[<<j, k>>]
  BY <1>1, <1>2 DEF TypeOK
<1>4. drops[i] \in Nat /\ drops'[i] \in Nat /\ drops'[i] >= drops[i]
  <2>1. drops[i] \in Nat
    BY JobAssumptions DEF TypeOK
  <2>2. drops' = drops \/ drops' = [drops EXCEPT ![i] = drops[i] + 1]
    BY DEF CloseRun, Dropped
  <2>3. QED BY <2>1, <2>2 DEF TypeOK
<1>5. ledger'[<<i, rid[i]>>] = intent[i]
  BY <1>1, <1>2 DEF TypeOK
<1>6. QED BY <1>1, <1>3, <1>4, <1>5

\* What an open_run attempt writes: a row of its own, never one that has a verdict.
LEMMA OpenWrites ==
  ASSUME TypeOK, NEW i \in Jobs, JobInv(i), OpenRun(i)
  PROVE  /\ \A k \in Inserts : ledger[<<i, k>>] \notin Terminal /\ ledger'[<<i, k>>] \notin Terminal
         /\ \A j \in Jobs, k \in Inserts : j # i => ledger'[<<j, k>>] = ledger[<<j, k>>]
<1>1. pc[i] = "open" /\ rid[i] = 0
  BY DEF OpenRun, JobInv, StageInv
<1>2. \A k \in Inserts : ledger[<<i, k>>] \in {"none", "running"}
  BY <1>1 DEF JobInv, LedgerInv
<1>3. ledger' = [ledger EXCEPT ![<<i, tries[i] + 1>>] = "running"]
  BY DEF OpenRun
<1>4. QED BY <1>2, <1>3 DEF TypeOK

LEMMA FactsStayStep ==
  ASSUME RefreshInv, [Next]_refreshVars, NEW j \in Jobs, NEW k \in Inserts,
         ledger[<<j, k>>] \in Terminal, drops'[j] <= 2
  PROVE  ledger'[<<j, k>>] = ledger[<<j, k>>]
<1>1. TypeOK /\ \A i \in Jobs : JobInv(i)
  BY InvByJob
<1>2. ASSUME NEW i \in Jobs, OpenRun(i) PROVE ledger'[<<j, k>>] = ledger[<<j, k>>]
  BY <1>1, <1>2, OpenWrites
<1>3. ASSUME NEW i \in Jobs, CloseRun(i) PROVE ledger'[<<j, k>>] = ledger[<<j, k>>]
  <2> JobInv(i)
    BY <1>1
  <2>0. /\ pc[i] = "close" /\ OwnRow(i) = <<i, rid[i]>>
        /\ drops[i] \in Nat /\ drops'[i] \in Nat /\ drops'[i] >= drops[i]
        /\ \A l \in Jobs, m \in Inserts :
             ledger'[<<l, m>>] = IF l = i /\ m = rid[i] THEN intent[i] ELSE ledger[<<l, m>>]
    BY <1>1, <1>3, CloseWrites
  <2>1. CASE j # i \/ k # rid[i]
    BY <2>0, <2>1
  <2>2. CASE j = i /\ k = rid[i]
    <3>0. drops'[i] <= 2
      BY <2>2
    <3>1. /\ ledger'[<<j, k>>] = intent[i] /\ ~(drops[i] >= 3) /\ pc[i] = "close"
          /\ OwnRow(i) = <<j, k>>
      <4>1. ledger'[<<i, rid[i]>>] = intent[i]
        BY <1>1, <1>3, CloseWrites
      <4>2. ledger'[<<j, k>>] = intent[i] /\ OwnRow(i) = <<j, k>>
        BY <2>0, <2>2, <4>1
      <4>3. QED BY <2>0, <3>0, <4>2
    <3>2. ledger[<<j, k>>] \in {"running", intent[i]}
      BY <1>1, <3>1 DEF JobInv, LedgerInv
    <3>3. QED BY <3>1, <3>2
  <2>3. QED BY <2>1, <2>2
<1>4. QED BY <1>2, <1>3, LedgerSteps

\* A status once recorded in data_refresh_runs is never changed by its job, unless that
\* job lost three connections ("can never roll back an already-recorded fact").
THEOREM FactsStay == Spec => RecordedFactsStay
<1>1. RefreshInv /\ [Next]_refreshVars =>
        [\A j \in Jobs, k \in Inserts :
           ledger[<<j, k>>] \in Terminal /\ drops'[j] <= 2
             => ledger'[<<j, k>>] = ledger[<<j, k>>]]_refreshVars
  BY FactsStayStep
<1>2. QED BY <1>1, RefreshInvariant, PTL DEF Spec, RecordedFactsStay

LEMMA ServedStep ==
  ASSUME RefreshInv, [Next]_refreshVars, NEW j \in Jobs, NEW k \in Inserts,
         ledger[<<j, k>>] # "success", ledger'[<<j, k>>] = "success", ~overlapped[j]
  PROVE  views /\ rows = built[j]
<1>1. TypeOK /\ \A i \in Jobs : JobInv(i)
  BY InvByJob
<1>2. ASSUME NEW i \in Jobs, OpenRun(i) PROVE FALSE
  BY <1>1, <1>2, OpenWrites
<1>3. ASSUME NEW i \in Jobs, CloseRun(i) PROVE views /\ rows = built[j]
  <2> JobInv(i)
    BY <1>1
  <2>0. /\ pc[i] = "close"
        /\ \A l \in Jobs, m \in Inserts :
             ledger'[<<l, m>>] = IF l = i /\ m = rid[i] THEN intent[i] ELSE ledger[<<l, m>>]
    BY <1>1, <1>3, CloseWrites
  <2>1. j = i /\ intent[i] = "success" /\ pc[i] = "close"
    BY <2>0
  <2>2. QED BY <1>1, <2>1 DEF JobInv, TablesInv
<1>4. QED BY <1>2, <1>3, LedgerSteps

\* When close_run records `success` Postgres serves exactly what the job built, with the
\* T2.5 views, if no other job loaded since it began to count.
THEOREM SuccessServed == Spec => SuccessIsServed
<1>1. RefreshInv /\ [Next]_refreshVars =>
        [\A j \in Jobs, k \in Inserts :
           ledger[<<j, k>>] # "success" /\ ledger'[<<j, k>>] = "success" /\ ~overlapped[j]
             => views /\ rows = built[j]]_refreshVars
  BY ServedStep
<1>2. QED BY <1>1, RefreshInvariant, PTL DEF Spec, SuccessIsServed

LEMMA FloorBelow == ASSUME NEW n \in Nat PROVE Floor(n) \in Nat /\ Floor(n) <= n
BY DEF Floor

LEMMA FloorStep ==
  ASSUME RefreshInv, [Next]_refreshVars, NEW t \in Tables,
         rows[t] # Absent, rows'[t] < Floor(rows[t])
  PROVE  \E j \in Jobs : overlapped[j] /\ committed'[j] # committed[j]
<1>1. TypeOK /\ \A i \in Jobs : JobInv(i)
  BY InvByJob
<1>2. rows[t] \in Nat /\ rows'[t] # rows[t]
  <2>1. rows[t] \in Nat
    BY <1>1, TableAssumptions DEF TypeOK
  <2>2. QED BY <2>1, FloorBelow
<1>3. ASSUME NEW i \in Jobs, LoadCore(i) PROVE overlapped[i] /\ committed'[i] # committed[i]
  <2>1. /\ pc[i] = "load" /\ rows' = Replace(rows, CoreTables, built[i])
        /\ committed' = [committed EXCEPT ![i] = committed[i] \union {"core"}]
    BY <1>3 DEF LoadCore, Commit
  <2>2. committed'[i] # committed[i]
    <3>1. committed[i] = {}
      BY <1>1, <2>1 DEF JobInv, StageInv
    <3>2. committed'[i] = {} \union {"core"}
      BY <1>1, <2>1, <3>1 DEF TypeOK
    <3>3. QED BY <3>1, <3>2
  <2>3. rows'[t] = built[i][t]
    BY <1>2, <2>1 DEF Replace
  <2>4. ASSUME ~overlapped[i] PROVE FALSE
    <3>1. rows = before[i] /\ built[i][t] >= Floor(before[i][t])
      BY <1>1, <2>1, <2>4 DEF JobInv, TablesInv, ClearsFloor
    <3>2. built[i][t] \in Nat
      BY <1>1, JobTypes
    <3>3. Floor(rows[t]) \in Nat
      BY <1>2, FloorBelow
    <3>4. QED BY <2>3, <3>1, <3>2, <3>3
  <2>5. QED BY <2>2, <2>4
<1>4. ASSUME NEW i \in Jobs, LoadT25(i) PROVE overlapped[i] /\ committed'[i] # committed[i]
  <2>1. /\ pc[i] = "load25" /\ rows' = Replace(rows, T25Tables, built[i])
        /\ committed' = [committed EXCEPT ![i] = committed[i] \union {"t25"}]
    BY <1>4 DEF LoadT25, Commit
  <2>2. committed'[i] # committed[i]
    <3>1. committed[i] = {"core"}
      BY <1>1, <2>1 DEF JobInv, StageInv
    <3>2. committed'[i] = {"core"} \union {"t25"}
      BY <1>1, <2>1, <3>1 DEF TypeOK
    <3>3. "t25" \in committed'[i] /\ "t25" \notin committed[i]
      BY <3>1, <3>2
    <3>4. QED BY <3>3
  <2>3. rows'[t] = built[i][t] /\ t \in T25Tables
    BY <1>2, <2>1 DEF Replace
  <2>4. ASSUME ~overlapped[i] PROVE FALSE
    <3>1. rows = Replace(before[i], CoreTables, built[i]) /\ built[i][t] >= Floor(before[i][t])
      BY <1>1, <2>1, <2>4 DEF JobInv, TablesInv, ClearsFloor
    <3>2. rows[t] = before[i][t]
      BY <2>3, <3>1, TableAssumptions DEF Replace
    <3>3. built[i][t] \in Nat
      BY <1>1, JobTypes
    <3>4. Floor(rows[t]) \in Nat
      BY <1>2, FloorBelow
    <3>5. QED BY <2>3, <3>1, <3>2, <3>3, <3>4
  <2>5. QED BY <2>2, <2>4
<1>5. QED BY <1>2, <1>3, <1>4, TableSteps

\* No load drops a table below validate_outputs' floor of what it held just before,
\* unless another job loaded in between.
THEOREM FloorHolds == Spec => FloorHoldsAlone
<1>1. RefreshInv /\ [Next]_refreshVars =>
        [\A t \in Tables :
           rows[t] # Absent /\ rows'[t] < Floor(rows[t])
             => \E j \in Jobs : overlapped[j] /\ committed'[j] # committed[j]]_refreshVars
  BY FloorStep
<1>2. QED BY <1>1, RefreshInvariant, PTL DEF Spec, FloorHoldsAlone

----------------------------------------------------------------------------
(* The job implements its contract (module RefreshContract).               *)

LEMMA InitContract == Init => Contract!ContractInit
<1> SUFFICES ASSUME Init PROVE Contract!ContractInit
  OBVIOUS
<1>1. Verdict = [j \in Jobs |-> "pending"]
  BY DEF Init, Verdict
<1>2. built \in [Jobs -> [Tables -> RowCounts]]
  BY TableAssumptions DEF Init
<1>3. QED BY <1>1, <1>2 DEF Init, Contract!ContractInit, Contract!Unread, Contract!Tables, Unread, Tables

LEMMA VerdictFrame == rid' = rid /\ ledger' = ledger => Verdict' = Verdict
BY DEF Verdict, OwnRow

LEMMA VerdictOf ==
  ASSUME NEW j \in Jobs
  PROVE  Verdict[j] = IF rid[j] # 0 /\ ledger[OwnRow(j)] \in Terminal THEN ledger[OwnRow(j)] ELSE "pending"
BY DEF Verdict

\* Until close_run, a job's verdict is pending.
LEMMA StillPending ==
  ASSUME NEW j \in Jobs, JobInv(j), pc[j] \in Calls \ {"close"}
  PROVE  Verdict[j] = "pending"
<1>1. CASE rid[j] = 0
  BY <1>1, VerdictOf
<1>2. CASE rid[j] # 0
  <2>1. pc[j] \in Calls \ {"schema", "open", "close"}
    BY <1>2 DEF JobInv, StageInv
  <2>2. ledger[OwnRow(j)] = "running"
    BY <2>1 DEF JobInv, LedgerInv
  <2>3. QED BY <2>2, VerdictOf
<1>3. QED BY <1>1, <1>2

\* Steps that leave tables and verdicts alone are stutters of the contract.
LEMMA QuietStep ==
  ASSUME rows' = rows, before' = before, built' = built, committed' = committed, Verdict' = Verdict
  PROVE  UNCHANGED Contract!contractVars
BY DEF Contract!contractVars

LEMMA OpenRunContract ==
  ASSUME TypeOK, NEW i \in Jobs, JobInv(i), OpenRun(i)
  PROVE  UNCHANGED Contract!contractVars
<1>1. /\ rid[i] = 0 /\ ledger' = [ledger EXCEPT ![<<i, tries[i] + 1>>] = "running"]
      /\ tries[i] \in Nat /\ UNCHANGED <<before, built, tables>>
  <2>1. pc[i] = "open" /\ ledger' = [ledger EXCEPT ![<<i, tries[i] + 1>>] = "running"]
    BY Zenon DEF OpenRun
  <2>2. UNCHANGED <<before, built, tables>>
    BY DEF OpenRun
  <2>3. rid[i] = 0
    BY <2>1 DEF JobInv, StageInv
  <2>4. QED BY <2>1, <2>2, <2>3, JobTypes
<1>2. rid' = rid \/ rid' = [rid EXCEPT ![i] = tries[i] + 1]
  BY DEF OpenRun
<1>3. ASSUME NEW j \in Jobs, j # i PROVE rid'[j] = rid[j] /\ ledger'[<<j, rid[j]>>] = ledger[<<j, rid[j]>>]
  BY <1>1, <1>2, <1>3 DEF TypeOK
<1>4. \A k \in Inserts : ledger'[<<i, k>>] \notin Terminal
  BY OpenWrites
<1>5. rid'[i] \in {0} \union Inserts
  <2>1. pc[i] = "open" /\ Attempts(pc[i]) = 2 /\ tries[i] < Attempts(pc[i])
    BY DEF OpenRun, JobInv, RetryInv, Attempts
  <2>2. tries[i] + 1 \in Inserts
    BY <1>1, <2>1
  <2>3. QED BY <1>1, <1>2, <2>2 DEF TypeOK
<1>6. ASSUME NEW j \in Jobs
      PROVE  (IF rid'[j] # 0 /\ ledger'[<<j, rid'[j]>>] \in Terminal THEN ledger'[<<j, rid'[j]>>] ELSE "pending")
             = (IF rid[j] # 0 /\ ledger[<<j, rid[j]>>] \in Terminal THEN ledger[<<j, rid[j]>>] ELSE "pending")
  <2>1. CASE j # i
    BY <1>3, <2>1
  <2>2. CASE j = i
    BY <1>1, <1>4, <1>5, <2>2
  <2>3. QED BY <2>1, <2>2
<1>7. Verdict' = Verdict
  BY <1>6 DEF Verdict, OwnRow
<1>8. QED BY <1>1, <1>7, QuietStep DEF tables

\* A count is one the contract observes; one that raises forgets those before it.
LEMMA CountTablesContract ==
  ASSUME TypeOK, NEW i \in Jobs, JobInv(i), CountTables(i)
  PROVE  Contract!ContractNext
<1>1. pc[i] = "counts" /\ committed[i] = {} /\ Verdict[i] = "pending"
  BY StillPending DEF CountTables, JobInv, StageInv
<1>2. Verdict' = Verdict /\ UNCHANGED <<rows, built, committed>>
  BY VerdictFrame DEF CountTables
<1>3. PICK t \in Tables :
        /\ before[i][t] = Absent
        /\ \/ before' = [before EXCEPT ![i] = Unread]
           \/ rows[t] # Absent /\ before' = [before EXCEPT ![i][t] = rows[t]]
  BY DEF CountTables
<1>4. CASE before' = [before EXCEPT ![i] = Unread]
  <2>1. Contract!Forget(i)
    BY <1>1, <1>2, <1>3, <1>4 DEF Contract!Forget, Contract!Unread, Contract!Tables, Unread, Tables
  <2>2. QED BY <2>1 DEF Contract!ContractNext
<1>5. CASE rows[t] # Absent /\ before' = [before EXCEPT ![i][t] = rows[t]]
  <2>1. Contract!Observe(i, t)
    BY <1>1, <1>2, <1>3, <1>5 DEF Contract!Observe
  <2>2. QED BY <2>1 DEF Contract!ContractNext, Contract!Tables, Tables
<1>6. QED BY <1>3, <1>4, <1>5

\* A connection lost while counting forgets the counts; lost elsewhere it is a stutter.
LEMMA DropContract ==
  ASSUME TypeOK, NEW i \in Jobs, JobInv(i), Drop(i)
  PROVE  Contract!ContractNext \/ UNCHANGED Contract!contractVars
<1>1. Verdict' = Verdict /\ UNCHANGED <<rows, built, committed>>
  BY VerdictFrame DEF Drop, tables
<1>2. CASE pc[i] # "counts"
  BY <1>1, <1>2, QuietStep DEF Drop
<1>3. CASE pc[i] = "counts"
  <2>1. before' = [before EXCEPT ![i] = Unread] /\ committed[i] = {} /\ Verdict[i] = "pending"
    BY <1>3, StillPending DEF Drop, JobInv, StageInv
  <2>2. CASE \E t \in Tables : before[i][t] = Absent
    <3>1. Contract!Forget(i)
      BY <1>1, <2>1, <2>2 DEF Contract!Forget, Contract!Unread, Contract!Tables, Unread, Tables
    <3>2. QED BY <3>1 DEF Contract!ContractNext
  <2>3. \E t \in Tables : before[i][t] = Absent
    BY <1>3 DEF JobInv, StageInv
  <2>4. QED BY <2>2, <2>3
<1>4. QED BY <1>2, <1>3

LEMMA BuildContract ==
  ASSUME NEW i \in Jobs, JobInv(i), Build(i)
  PROVE  Contract!ContractNext
<1>1. pc[i] = "build" /\ committed[i] = {} /\ Verdict[i] = "pending"
  BY StillPending DEF Build, JobInv, StageInv
<1>2. Verdict' = Verdict /\ UNCHANGED <<rows, before, committed>>
  BY VerdictFrame DEF Build, tables
<1>3. Contract!ChooseFiles(i)
  BY <1>1, <1>2 DEF Build, Contract!ChooseFiles, Contract!Tables, Tables
<1>4. QED BY <1>3 DEF Contract!ContractNext

LEMMA LoadCoreContract ==
  ASSUME TypeOK, NEW i \in Jobs, JobInv(i), LoadCore(i)
  PROVE  Contract!ContractNext
<1>1. pc[i] = "load" /\ committed[i] = {} /\ Verdict[i] = "pending"
  BY StillPending DEF LoadCore, JobInv, StageInv
<1>2. before[i] \in [Tables -> RowCounts] /\ ClearsFloor(built[i], before[i])
  BY <1>1 DEF JobInv, TablesInv
<1>3. \A t \in Tables : before[i][t] # Absent
  BY <1>2, TableAssumptions
<1>4. /\ Verdict' = Verdict /\ UNCHANGED <<before, built>> /\ rows' = Replace(rows, CoreTables, built[i])
      /\ committed' = [committed EXCEPT ![i] = committed[i] \union {"core"}]
  BY VerdictFrame DEF LoadCore, Commit
<1>5. committed' = [committed EXCEPT ![i] = {"core"}]
  BY <1>1, <1>4
<1>6. Contract!ReplaceCore(i)
  BY <1>1, <1>2, <1>3, <1>4, <1>5
  DEF Contract!ReplaceCore, Contract!Tables, Contract!ClearsFloor, Contract!Floor,
      Contract!Replace, Tables, ClearsFloor, Floor, Replace
<1>7. QED BY <1>6 DEF Contract!ContractNext

LEMMA LoadT25Contract ==
  ASSUME TypeOK, NEW i \in Jobs, JobInv(i), LoadT25(i)
  PROVE  Contract!ContractNext
<1>1. pc[i] = "load25" /\ committed[i] = {"core"} /\ Verdict[i] = "pending"
  BY StillPending DEF LoadT25, JobInv, StageInv
<1>2. /\ Verdict' = Verdict /\ UNCHANGED <<before, built>> /\ rows' = Replace(rows, T25Tables, built[i])
      /\ committed' = [committed EXCEPT ![i] = committed[i] \union {"t25"}]
  <2>1. UNCHANGED <<rid, ledger, before, built>>
    BY DEF LoadT25, Commit
  <2>2. /\ rows' = Replace(rows, T25Tables, built[i])
        /\ committed' = [committed EXCEPT ![i] = committed[i] \union {"t25"}]
    BY DEF LoadT25, Commit
  <2>3. QED BY <2>1, <2>2, VerdictFrame
<1>3. {"core"} \union {"t25"} = {"core", "t25"}
  OBVIOUS
<1>4. committed' = [committed EXCEPT ![i] = {"core", "t25"}]
  BY <1>1, <1>2, <1>3
<1>5. Contract!ReplaceT25(i)
  BY <1>1, <1>2, <1>4 DEF Contract!ReplaceT25, Contract!Tables, Contract!Replace, Tables, Replace
<1>6. QED BY <1>5 DEF Contract!ContractNext

\* close_run concludes the job, or repeats a conclusion whose acknowledgement was lost.
LEMMA CloseRunContract ==
  ASSUME TypeOK, NEW i \in Jobs, JobInv(i), CloseRun(i)
  PROVE  Contract!ContractNext \/ UNCHANGED Contract!contractVars
<1>1. /\ pc[i] = "close" /\ rid[i] \in Inserts /\ OwnRow(i) = <<i, rid[i]>> /\ intent[i] \in Terminal
      /\ \A j \in Jobs, k \in Inserts :
           ledger'[<<j, k>>] = IF j = i /\ k = rid[i] THEN intent[i] ELSE ledger[<<j, k>>]
  BY CloseWrites, JobTypes
<1>2. rid' = rid /\ UNCHANGED <<rows, before, built, committed>>
  BY DEF CloseRun, tables
<1>3. Verdict' = [Verdict EXCEPT ![i] = intent[i]]
  <2>1. ASSUME NEW j \in Jobs
        PROVE  (IF rid'[j] # 0 /\ ledger'[<<j, rid'[j]>>] \in Terminal THEN ledger'[<<j, rid'[j]>>] ELSE "pending")
               = IF j = i THEN intent[i] ELSE Verdict[j]
    <3>1. CASE j = i
      <4>1. ledger'[<<i, rid[i]>>] = intent[i] /\ rid[i] # 0 /\ rid'[i] = rid[i]
        BY <1>1, <1>2, CloseWrites
      <4>2. QED BY <1>1, <3>1, <4>1
    <3>2. CASE j # i
      <4>1. rid[j] \in {0} \union Inserts
        BY DEF TypeOK
      <4>2. rid[j] # 0 => ledger'[<<j, rid[j]>>] = ledger[<<j, rid[j]>>]
        BY <1>1, <3>2, <4>1
      <4>3. Verdict[j] = IF rid[j] # 0 /\ ledger[<<j, rid[j]>>] \in Terminal
                         THEN ledger[<<j, rid[j]>>] ELSE "pending"
        BY VerdictOf DEF OwnRow
      <4>4. rid'[j] = rid[j]
        BY <1>2
      <4>5. CASE rid[j] = 0
        BY <3>2, <4>3, <4>4, <4>5
      <4>6. CASE rid[j] # 0
        <5>1. ledger'[<<j, rid'[j]>>] = ledger[<<j, rid[j]>>]
          BY <4>2, <4>4, <4>6
        <5>2. QED BY <3>2, <4>3, <4>4, <4>6, <5>1
      <4>7. QED BY <4>5, <4>6
    <3>3. QED BY <3>1, <3>2
  <2>2. Verdict' = [j \in Jobs |-> IF j = i THEN intent[i] ELSE Verdict[j]]
    BY <2>1 DEF Verdict, OwnRow
  <2>3. Verdict = [j \in Jobs |-> Verdict[j]]
    BY DEF Verdict
  <2>4. QED BY <2>2, <2>3
<1>4. /\ intent[i] = "success" => committed[i] = {"core", "t25"}
      /\ intent[i] = "no_change" => committed[i] = {}
      /\ handler[i] = "outer" => intent[i] = "failed"
  BY <1>1 DEF JobInv, StageInv
<1>5. CASE ledger[OwnRow(i)] = intent[i]
  <2>1. Verdict[i] = intent[i]
    BY <1>1, <1>5, VerdictOf
  <2>2. Verdict' = Verdict
    BY <1>3, <2>1 DEF Verdict
  <2>3. QED BY <1>2, <2>2, QuietStep
<1>6. CASE ledger[OwnRow(i)] # intent[i]
  <2>1. Verdict[i] = "pending" \/ intent[i] = "failed"
    <3>1. ledger[OwnRow(i)] = "running" \/ handler[i] = "outer"
      BY <1>1, <1>6 DEF JobInv, LedgerInv
    <3>2. QED BY <1>4, <3>1, VerdictOf
  <2>2. Contract!Conclude(i, intent[i])
    BY <1>2, <1>3, <1>4, <2>1 DEF Contract!Conclude
  <2>3. QED BY <1>1, <2>2 DEF Contract!ContractNext
<1>7. QED BY <1>5, <1>6

LEMMA StepContract ==
  RefreshInv /\ [Next]_refreshVars => [Contract!ContractNext]_(Contract!contractVars)
<1> SUFFICES ASSUME RefreshInv, [Next]_refreshVars
             PROVE  Contract!ContractNext \/ UNCHANGED Contract!contractVars
  OBVIOUS
<1>1. TypeOK /\ \A i \in Jobs : JobInv(i)
  BY InvByJob
<1>2. CASE UNCHANGED refreshVars
  BY <1>2, VerdictFrame, QuietStep DEF refreshVars, control, tables
<1>3. ASSUME NEW i \in Jobs,
             \/ ApplySchema(i) \/ Probe(i) \/ Validate(i) \/ Recount(i) \/ ReadPeriod(i)
             \/ Fault(i) \/ Crash(i)
      PROVE  UNCHANGED Contract!contractVars
  <2>1. rows' = rows /\ before' = before /\ built' = built /\ committed' = committed
        /\ rid' = rid /\ ledger' = ledger
    BY <1>3 DEF ApplySchema, Probe, Validate, Recount, ReadPeriod, Fault, Crash, tables
  <2>2. QED BY <2>1, VerdictFrame, QuietStep
<1>4. ASSUME NEW i \in Jobs, Step(i) \/ Crash(i)
      PROVE  Contract!ContractNext \/ UNCHANGED Contract!contractVars
  BY <1>1, <1>3, <1>4, OpenRunContract, CountTablesContract, BuildContract, LoadCoreContract,
     LoadT25Contract, CloseRunContract, DropContract DEF Step
<1>5. QED BY <1>2, <1>4 DEF Next

\* Every execution of refresh.run, with whatever retries, lost connections and kills, is
\* an execution of the contract: validate before load, core first, true verdicts.
THEOREM Refines == Spec => ImplementsContract
BY InitContract, RefreshInvariant, StepContract, PTL DEF Spec, ImplementsContract, Contract!ContractSpec

----------------------------------------------------------------------------
(* How far a job is from its end: what RunTerminates rests on beside fairness. *)

\* A job counted one more table and stays where it was.
CountsOne(i) ==
  /\ pc[i] = "counts"
  /\ \E t \in Tables :
       /\ before[i][t] = Absent /\ rows[t] # Absent
       /\ before' = [before EXCEPT ![i][t] = rows[t]]
  /\ UNCHANGED <<pc, tries, handler>>

\* The tables a job has still to count.
Uncounted(j) == {t \in Tables : before[j][t] = Absent}

\* The calls between this one and the end of the job, itself included.
CallsLeft(call) ==
  CASE call = "schema" -> 11 [] call = "open" -> 10 [] call = "counts" -> 9
    [] call = "probe" -> 8 [] call = "build" -> 7 [] call = "validate" -> 6
    [] call = "load" -> 5 [] call = "load25" -> 4 [] call = "recount" -> 3
    [] call = "period" -> 2 [] call = "close" -> 1 [] OTHER -> 0

\* Three attempts of each call, and one way back: into run's outer handler.
Rank(j) == 3 * CallsLeft(pc[j]) + (2 - tries[j]) + (IF handler[j] = "body" THEN 6 ELSE 0)

MaxRank == 41

LEMMA CallsLeftRange ==
  /\ \A call \in Calls : CallsLeft(call) \in 1 .. 11
  /\ \A end \in Ended : CallsLeft(end) = 0
BY DEF CallsLeft

LEMMA RankRange ==
  ASSUME TypeOK, NEW j \in Jobs
  PROVE  Rank(j) \in 0 .. MaxRank
<1>1. pc[j] \in Calls \union Ended /\ tries[j] \in 0 .. 2
  BY DEF TypeOK
<1>2. CallsLeft(pc[j]) \in 0 .. 11
  BY <1>1, CallsLeftRange
<1> HIDE DEF Calls, Ended
<1> QED
  BY <1>1, <1>2 DEF Rank, MaxRank

\* A call that returns hands over to a later one.
Forward(i) ==
  \E call \in Calls \union Ended :
    /\ CallsLeft(call) < CallsLeft(pc[i])
    /\ pc' = [pc EXCEPT ![i] = call]
    /\ tries' = [tries EXCEPT ![i] = 0]
    /\ UNCHANGED handler

LEMMA GoesForward ==
  ASSUME NEW i \in Jobs, NEW call \in Calls \union Ended, Goto(i, call),
         CallsLeft(call) < CallsLeft(pc[i]), UNCHANGED handler
  PROVE  Forward(i)
BY DEF Goto, Forward

\* Whatever a job does, it counts a table, goes on to a later call, tries again, ends or
\* is caught.
LEMMA StepShapes ==
  ASSUME TypeOK, NEW i \in Jobs, Step(i) \/ Crash(i)
  PROVE  /\ pc[i] \in Calls
         /\ CountsOne(i) \/ Forward(i) \/ TriesAgain(i) \/ EndsJob(i) \/ IsCaught(i)
<1>1. /\ \A call \in Calls : CallsLeft(call) \in 1 .. 11
      /\ \A end \in Ended : CallsLeft(end) = 0
  BY CallsLeftRange
<1>2. ASSUME Dropped(i) PROVE TriesAgain(i) \/ EndsJob(i) \/ IsCaught(i)
  BY <1>2, DroppedCases
<1>3. CASE ApplySchema(i)
  <2>1. CallsLeft("open") < CallsLeft("schema")
    BY DEF CallsLeft
  <2> QED
    BY <1>3, <2>1, GoesForward DEF ApplySchema
<1>4. CASE OpenRun(i)
  <2>1. CallsLeft("counts") < CallsLeft("open")
    BY DEF CallsLeft
  <2> QED
    BY <1>2, <1>4, <2>1, GoesForward DEF OpenRun
<1>5. CASE CountTables(i)
  <2>1. CallsLeft("probe") < CallsLeft("counts")
    BY DEF CallsLeft
  <2> QED
    BY <1>5, <2>1, GoesForward, RaiseCases DEF CountTables, CountsOne
<1>6. CASE Probe(i)
  <2>1. CallsLeft("build") < CallsLeft("probe") /\ CallsLeft("period") < CallsLeft("probe")
    BY DEF CallsLeft
  <2> QED
    BY <1>6, <2>1, GoesForward DEF Probe
<1>7. CASE Build(i)
  <2>1. CallsLeft("validate") < CallsLeft("build") /\ CallsLeft("close") < CallsLeft("build")
    BY DEF CallsLeft
  <2> QED
    BY <1>7, <2>1, GoesForward DEF Build
<1>8. CASE Validate(i)
  <2>1. CallsLeft("load") < CallsLeft("validate") /\ CallsLeft("close") < CallsLeft("validate")
    BY DEF CallsLeft
  <2> QED
    BY <1>8, <2>1, GoesForward DEF Validate
<1>9. CASE LoadCore(i)
  <2>1. CallsLeft("load25") < CallsLeft("load")
    BY DEF CallsLeft
  <2> QED
    BY <1>2, <1>9, <2>1, GoesForward DEF LoadCore, Commit
<1>10. CASE LoadT25(i)
  <2>1. CallsLeft("recount") < CallsLeft("load25")
    BY DEF CallsLeft
  <2> QED
    BY <1>2, <1>10, <2>1, GoesForward DEF LoadT25, Commit
<1>11. CASE Recount(i)
  <2>1. CallsLeft("period") < CallsLeft("recount")
    BY DEF CallsLeft
  <2> QED
    BY <1>11, <2>1, GoesForward DEF Recount
<1>12. CASE ReadPeriod(i)
  <2>1. CallsLeft("close") < CallsLeft("period")
    BY DEF CallsLeft
  <2> QED
    BY <1>12, <2>1, GoesForward DEF ReadPeriod
<1>13. CASE CloseRun(i)
  <2>1. CallsLeft("exit0") < CallsLeft("close") /\ CallsLeft("exit1") < CallsLeft("close")
    BY DEF CallsLeft
  <2> QED
    BY <1>2, <1>13, <2>1, GoesForward DEF CloseRun
<1>14. CASE Drop(i)
  BY <1>2, <1>14 DEF Drop, Connecting
<1>15. CASE Fault(i)
  BY <1>15, RaiseCases DEF Fault
<1>16. CASE Crash(i)
  <2>1. pc[i] \in Calls /\ CallsLeft("killed") < CallsLeft(pc[i])
    BY <1>1, <1>16 DEF Crash
  <2> QED
    BY <1>16, <2>1, GoesForward DEF Crash
<1> QED
  BY <1>3, <1>4, <1>5, <1>6, <1>7, <1>8, <1>9, <1>10, <1>11, <1>12, <1>13, <1>14, <1>15, <1>16
  DEF Step

\* Each of the five brings it nearer its end; the handler of a raise is entered once.
Nearer(i) ==
  \/ Rank(i)' < Rank(i)
  \/ Rank(i)' = Rank(i) /\ Uncounted(i)' \subseteq Uncounted(i) /\ Uncounted(i)' # Uncounted(i)

LEMMA RankFalls ==
  ASSUME RefreshInv, NEW i \in Jobs, Step(i) \/ Crash(i)
  PROVE  Nearer(i) /\ \A k \in Jobs \ {i} : Rank(k)' = Rank(k)
<1>1. TypeOK /\ StageInv(i)
  BY DEF RefreshInv
<1>2. /\ pc[i] \in Calls
      /\ CountsOne(i) \/ Forward(i) \/ TriesAgain(i) \/ EndsJob(i) \/ IsCaught(i)
  BY <1>1, StepShapes
<1>3. /\ tries[i] \in 0 .. 2 /\ CallsLeft(pc[i]) \in 1 .. 11 /\ handler[i] \in {"body", "outer"}
      /\ CallsLeft("exit1") = 0 /\ CallsLeft("close") = 1
  <2>1. tries[i] \in 0 .. 2 /\ handler[i] \in {"body", "outer"}
    BY <1>1 DEF TypeOK
  <2> QED
    BY <1>2, <2>1, CallsLeftRange DEF CallsLeft
<1>4. CASE Forward(i)
  <2>1. PICK call \in Calls \union Ended :
          /\ CallsLeft(call) < CallsLeft(pc[i])
          /\ pc' = [pc EXCEPT ![i] = call]
          /\ tries' = [tries EXCEPT ![i] = 0]
          /\ UNCHANGED handler
    BY <1>4 DEF Forward
  <2>2. CallsLeft(call) \in 0 .. 11 /\ pc'[i] = call /\ tries'[i] = 0
    BY <1>1, <2>1, CallsLeftRange DEF TypeOK
  <2>3. Rank(i)' < Rank(i)
    BY <1>3, <2>1, <2>2 DEF Rank
  <2>4. \A k \in Jobs \ {i} : pc'[k] = pc[k] /\ tries'[k] = tries[k] /\ handler'[k] = handler[k]
    BY <1>1, <2>1 DEF TypeOK
  <2> QED
    BY <2>3, <2>4 DEF Rank, Nearer
<1>5. CASE TriesAgain(i)
  <2>1. pc' = pc /\ handler' = handler /\ tries'[i] = tries[i] + 1
    BY <1>1, <1>5 DEF TriesAgain, TypeOK
  <2>2. Rank(i)' < Rank(i)
    BY <1>3, <2>1 DEF Rank
  <2>3. \A k \in Jobs \ {i} : tries'[k] = tries[k]
    BY <1>1, <1>5 DEF TriesAgain, TypeOK
  <2> QED
    BY <2>1, <2>2, <2>3 DEF Rank, Nearer
<1>6. CASE EndsJob(i)
  <2>1. pc'[i] = "exit1" /\ tries'[i] = 0 /\ handler' = handler
    BY <1>1, <1>6 DEF EndsJob, TypeOK
  <2>2. Rank(i)' < Rank(i)
    BY <1>3, <2>1 DEF Rank
  <2>3. \A k \in Jobs \ {i} : pc'[k] = pc[k] /\ tries'[k] = tries[k]
    BY <1>1, <1>6 DEF EndsJob, TypeOK
  <2> QED
    BY <2>1, <2>2, <2>3 DEF Rank, Nearer
<1>7. CASE IsCaught(i)
  <2>1. pc'[i] = "close" /\ tries'[i] = 0 /\ handler'[i] = "outer" /\ handler[i] = "body"
    BY <1>1, <1>3, <1>7 DEF IsCaught, TypeOK
  <2>2. Rank(i)' < Rank(i)
    BY <1>3, <2>1 DEF Rank
  <2>3. \A k \in Jobs \ {i} : pc'[k] = pc[k] /\ tries'[k] = tries[k] /\ handler'[k] = handler[k]
    BY <1>1, <1>7 DEF IsCaught, TypeOK
  <2> QED
    BY <2>2, <2>3 DEF Rank, Nearer
<1>8. CASE CountsOne(i)
  <2>1. PICK t \in Tables :
          /\ before[i][t] = Absent /\ rows[t] # Absent
          /\ before' = [before EXCEPT ![i][t] = rows[t]]
    BY <1>8 DEF CountsOne
  <2>2. before'[i] = [before[i] EXCEPT ![t] = rows[t]]
    BY <1>1, <2>1 DEF TypeOK
  <2>3. before[i] \in [Tables -> RowCounts \union {Absent}]
    BY <1>1 DEF TypeOK
  <2>4. \A u \in Tables : before'[i][u] = IF u = t THEN rows[t] ELSE before[i][u]
    BY <2>2, <2>3
  <2>5. Uncounted(i)' \subseteq Uncounted(i)
    BY <2>1, <2>4 DEF Uncounted
  <2>6. t \in Uncounted(i) /\ t \notin Uncounted(i)'
    BY <2>1, <2>4 DEF Uncounted
  <2>7. \A k \in Jobs : Rank(k)' = Rank(k)
    BY <1>8 DEF CountsOne, Rank
  <2> QED
    BY <2>5, <2>6, <2>7 DEF Nearer
<1> QED
  BY <1>2, <1>4, <1>5, <1>6, <1>7, <1>8

\* No loop and no handler that re-enters itself: every step of any job, a retry, a raise
\* or a kill included, brings that job nearer its end and moves no other. Its distance
\* falls at most MaxRank times, and between two falls it counts each table at most once.
THEOREM JobsRunOut ==
  Spec => /\ [](\A j \in Jobs : Rank(j) \in 0 .. MaxRank)
          /\ [][\E i \in Jobs : Nearer(i) /\ \A k \in Jobs \ {i} : Rank(k)' = Rank(k)]_refreshVars
<1>1. RefreshInv => \A j \in Jobs : Rank(j) \in 0 .. MaxRank
  BY RankRange, Zenon DEF RefreshInv
<1>2. RefreshInv /\ [Next]_refreshVars =>
        [\E i \in Jobs : Nearer(i) /\ \A k \in Jobs \ {i} : Rank(k)' = Rank(k)]_refreshVars
  BY RankFalls DEF Next
<1> QED
  BY <1>1, <1>2, RefreshInvariant, PTL DEF Spec
=============================================================================
