----------------------------- MODULE YearsProofs -----------------------------
(***************************************************************************)
(* Theorems about RefreshYears for any number of years, parts of a year    *)
(* and faults: a load shrinks a year only in a run that met a fault. TLC   *)
(* shows on three years that the runs catch up after faults; why nothing   *)
(* is lost on the way there is proved here.                                *)
(*                                                                         *)
(* Theorems about YearWindow, for every date and any length of calendar,   *)
(* and that its month arithmetic is what moves the windows of RefreshYears.*)
(***************************************************************************)
EXTENDS RefreshYears, YearWindow, TLAPS

----------------------------------------------------------------------------
\* The job over the years.
HasFiles == phase \in {"validate", "load", "load25"}

\* The files a run has built hold no less than the tables, unless it met a fault.
FilesCoverTables ==
  HasFiles /\ ~faulty => \A s \in Sources, y \in Years : neon[s][y] <= csv[s][y]

\* Tables and files hold what was published, of years that were due. It makes
\* FilesCoverTables inductive: a build without a fault takes all that is published of
\* every year of the window, and nothing in the tables is beyond that.
OnlyPublished ==
  \A s \in Sources, y \in Years :
    /\ neon[s][y] <= posted[s][y] /\ csv[s][y] <= posted[s][y]
    /\ y > due[s] => neon[s][y] = 0 /\ csv[s][y] = 0

\* The builders were told of no year that is not due, and of every year that is in a table
\* they are about to replace: the window may have moved since, but never back.
EnvCoversTables ==
  /\ \A s \in Sources : env[s] \subseteq Window(s)
  /\ phase \in {"probe", "build"} => \A s \in Sources, y \in Years : y \in env[s] \/ neon[s][y] = 0

\* bts_year_window is one window for the two BTS tables.
Together == due["t100"] = due["ontime"]

YearsInv == TypeOK /\ Together /\ OnlyPublished /\ EnvCoversTables /\ FilesCoverTables

LEMMA PartsType == Parts \subseteq Nat /\ 0 \in Parts /\ Years \subseteq Nat
BY YearAssumptions DEF Parts, Years

LEMMA SourcesAre == Sources = {"t100", "ontime", "faa"} /\ Bts \subseteq Sources
BY DEF Sources, Bts

\* A table of counts of parts: each is a number, and stays one when an entry is replaced.
LEMMA PartsTable ==
  ASSUME NEW table \in [Sources -> [Years -> Parts]]
  PROVE  /\ \A s \in Sources, y \in Years : table[s][y] \in Parts /\ table[s][y] \in Nat
         /\ \A r \in Sources, x \in Years, n \in Parts :
              LET replaced == [table EXCEPT ![r][x] = n] IN
              /\ replaced \in [Sources -> [Years -> Parts]]
              /\ replaced[r][x] = n
              /\ \A s \in Sources, y \in Years :
                   s # r \/ y # x => replaced[s][y] = table[s][y]
<1>1. \A s \in Sources : table[s] \in [Years -> Parts]
  OBVIOUS
<1>2. \A s \in Sources, y \in Years : table[s][y] \in Parts
  BY <1>1
<1>3. \A s \in Sources, y \in Years : table[s][y] \in Nat
  BY <1>2, PartsType
<1>4. ASSUME NEW r \in Sources, NEW x \in Years, NEW n \in Parts
      PROVE  LET replaced == [table EXCEPT ![r][x] = n] IN
             /\ replaced \in [Sources -> [Years -> Parts]]
             /\ replaced[r][x] = n
             /\ \A s \in Sources, y \in Years : s # r \/ y # x => replaced[s][y] = table[s][y]
  <2>1. [table[r] EXCEPT ![x] = n] \in [Years -> Parts]
    BY <1>1
  <2>2. [table EXCEPT ![r][x] = n] = [table EXCEPT ![r] = [table[r] EXCEPT ![x] = n]]
    OBVIOUS
  <2> QED
    BY <1>1, <2>1, <2>2
<1> QED
  BY <1>2, <1>3, <1>4

LEMMA Counts ==
  ASSUME TypeOK
  PROVE  \A s \in Sources, y \in Years :
           posted[s][y] \in Nat /\ neon[s][y] \in Nat /\ csv[s][y] \in Nat /\ due[s] \in Nat /\ y \in Nat
<1>1. \A s \in Sources : due[s] \in Nat
  BY YearAssumptions DEF TypeOK
<1>2. \A y \in Years : y \in Nat
  BY PartsType
<1> QED
  BY <1>1, <1>2, PartsTable DEF TypeOK

LEMMA CountsNext ==
  ASSUME TypeOK'
  PROVE  \A s \in Sources : due'[s] \in Nat
BY YearAssumptions DEF TypeOK

\* Time and publishers move on: windows and publications only grow.
LEMMA CalendarStep ==
  ASSUME YearsInv, January \/ March
  PROVE  YearsInv'
<1>1. /\ due' \in [Sources -> 0 .. LastYear]
      /\ \A s \in Sources : due'[s] >= due[s]
      /\ Together'
  <2>1. /\ due \in [Sources -> 0 .. LastYear] /\ LastYear \in Nat
        /\ \A s \in Sources : due[s] \in 0 .. LastYear
    BY YearAssumptions DEF YearsInv, TypeOK
  <2>2. CASE January
    <3>1. due["faa"] + 1 \in 0 .. LastYear
      BY <2>1, <2>2, SourcesAre DEF January
    <3>2. due' = [due EXCEPT !["faa"] = due["faa"] + 1]
      BY <2>2 DEF January
    <3> QED
      BY <2>1, <3>1, <3>2, SourcesAre DEF YearsInv, Together
  <2>3. CASE March
    <3>1. due["ontime"] + 1 \in 0 .. LastYear /\ due["faa"] = due["ontime"]
      BY <2>1, <2>3, SourcesAre DEF March
    <3>2. due' = [s \in Sources |-> IF s \in Bts THEN due[s] + 1 ELSE due[s]]
      BY <2>3 DEF March
    <3>3. \A s \in Bts : due[s] + 1 \in 0 .. LastYear
      BY <2>1, <2>3, <3>1, SourcesAre DEF March, Bts, YearsInv, Together
    <3>4. Together'
      BY <3>2, SourcesAre DEF Bts, YearsInv, Together
    <3> QED
      BY <2>1, <3>2, <3>3, <3>4
  <2> QED
    BY <2>2, <2>3
<1>2. UNCHANGED <<posted, neon, csv, views, env, phase, outcome, faults, faulty>>
  BY DEF January, March
<1>3. TypeOK' /\ FilesCoverTables'
  BY <1>1, <1>2 DEF YearsInv, TypeOK, FilesCoverTables, HasFiles
<1>4. OnlyPublished'
  <2>1. \A s \in Sources, y \in Years : due[s] \in Nat /\ due'[s] \in Nat /\ y \in Nat
    BY <1>3, Counts, CountsNext DEF YearsInv
  <2> QED
    BY <1>1, <1>2, <2>1 DEF YearsInv, OnlyPublished
<1>5. EnvCoversTables'
  <2>1. \A s \in Sources, y \in Years : due[s] \in Nat /\ due'[s] \in Nat /\ y \in Nat
    BY <1>3, Counts, CountsNext DEF YearsInv
  <2>2. \A s \in Sources : Window(s) \subseteq Window(s)'
    BY <1>1, <2>1 DEF Window
  <2> QED
    BY <1>2, <2>2 DEF YearsInv, EnvCoversTables
<1> QED
  BY <1>1, <1>3, <1>4, <1>5 DEF YearsInv

LEMMA PublishStep ==
  ASSUME YearsInv, NEW s \in Sources, NEW y \in Years, Publish(s, y)
  PROVE  YearsInv'
<1>1. /\ posted' = [posted EXCEPT ![s][y] = @ + 1] /\ posted[s][y] < FullYear
      /\ UNCHANGED <<due, neon, csv, views, env, phase, outcome, faults, faulty>>
  BY DEF Publish
<1>2. posted[s][y] + 1 \in Parts
  BY <1>1, YearAssumptions DEF YearsInv, TypeOK, Parts
<1>3. /\ posted' \in [Sources -> [Years -> Parts]]
      /\ \A r \in Sources, x \in Years : posted'[r][x] >= posted[r][x]
  <2>1. posted' = [posted EXCEPT ![s][y] = posted[s][y] + 1]
    BY <1>1
  <2>2. /\ posted' \in [Sources -> [Years -> Parts]] /\ posted'[s][y] = posted[s][y] + 1
        /\ \A r \in Sources, x \in Years : r # s \/ x # y => posted'[r][x] = posted[r][x]
    BY <1>2, <2>1, PartsTable DEF YearsInv, TypeOK
  <2>3. \A r \in Sources, x \in Years : posted[r][x] \in Nat
    BY Counts DEF YearsInv
  <2> QED
    BY <2>2, <2>3
<1>4. TypeOK' /\ FilesCoverTables' /\ Together' /\ EnvCoversTables'
  BY <1>1, <1>3 DEF YearsInv, TypeOK, FilesCoverTables, HasFiles, Together, EnvCoversTables, Window
<1>5. OnlyPublished'
  <2>1. \A r \in Sources, x \in Years : /\ posted[r][x] \in Nat /\ posted'[r][x] \in Nat
                                        /\ neon[r][x] \in Nat /\ csv[r][x] \in Nat
    BY <1>3, Counts, PartsTable DEF YearsInv
  <2>2. ASSUME NEW r \in Sources, NEW x \in Years
        PROVE  neon[r][x] <= posted'[r][x] /\ csv[r][x] <= posted'[r][x]
    BY <1>3, <2>1 DEF YearsInv, OnlyPublished
  <2> QED
    BY <1>1, <2>2 DEF YearsInv, OnlyPublished
<1> QED
  BY <1>4, <1>5 DEF YearsInv

\* A run that ends, however, has its files thrown away and the tables left alone.
LEMMA EndStep ==
  ASSUME YearsInv, NEW status \in {"success", "no_change", "failed"}, End(status),
         UNCHANGED <<due, posted, neon, views>>, faults' \in 0 .. MaxFaults
  PROVE  YearsInv'
<1>1. csv' \in [Sources -> [Years -> Parts]] /\ \A s \in Sources, y \in Years : csv'[s][y] = 0
  BY PartsType DEF End, NoFiles
<1>2. TypeOK' /\ FilesCoverTables' /\ Together' /\ EnvCoversTables'
  BY <1>1 DEF End, NoYears, YearsInv, TypeOK, FilesCoverTables, HasFiles, Together, EnvCoversTables
<1>3. OnlyPublished'
  <2>1. \A s \in Sources, y \in Years : posted[s][y] \in Nat
    BY Counts DEF YearsInv
  <2> QED
    BY <1>1, <2>1 DEF YearsInv, OnlyPublished
<1> QED
  BY <1>2, <1>3 DEF YearsInv

LEMMA FaultType ==
  ASSUME YearsInv, Fault \/ NoFault
  PROVE  faults' \in 0 .. MaxFaults
BY YearAssumptions DEF YearsInv, TypeOK, Fault, NoFault

LEMMA StartStep ==
  ASSUME YearsInv, StartRun
  PROVE  YearsInv'
<1>1. /\ phase' = "probe" /\ UNCHANGED <<due, posted, neon, csv, views, outcome, faults, faulty>>
      /\ \A s \in Sources : env'[s] = Window(s) /\ Window(s) \subseteq Years
      /\ env' \in [Sources -> SUBSET Years]
  BY DEF StartRun, Window
<1>2. TypeOK' /\ OnlyPublished' /\ FilesCoverTables' /\ Together'
  BY <1>1 DEF YearsInv, TypeOK, OnlyPublished, FilesCoverTables, HasFiles, Together
<1>3. EnvCoversTables'
  <2>1. \A s \in Sources, y \in Years : due[s] \in Nat /\ y \in Nat
    BY Counts DEF YearsInv
  <2>2. \A s \in Sources, y \in Years : y \in Window(s) \/ neon[s][y] = 0
    BY <2>1 DEF YearsInv, OnlyPublished, Window
  <2>3. \A s \in Sources : Window(s)' = Window(s)
    BY <1>1 DEF Window
  <2> QED
    BY <1>1, <2>2, <2>3 DEF EnvCoversTables
<1> QED
  BY <1>2, <1>3 DEF YearsInv

LEMMA ProbeStep ==
  ASSUME YearsInv, Probe
  PROVE  YearsInv'
<1>1. /\ UNCHANGED <<due, posted, neon, views>> /\ (Fault \/ NoFault) /\ phase = "probe"
      /\ \/ phase' = "build" /\ faulty' \in BOOLEAN /\ UNCHANGED <<csv, env, outcome>>
         \/ End("no_change")
  BY DEF Probe
<1>2. faults' \in 0 .. MaxFaults
  BY <1>1, FaultType
<1>3. CASE phase' = "build" /\ faulty' \in BOOLEAN /\ UNCHANGED <<csv, env, outcome>>
  <2>1. TypeOK'
    BY <1>1, <1>2, <1>3 DEF YearsInv, TypeOK
  <2>2. OnlyPublished' /\ FilesCoverTables' /\ Together' /\ EnvCoversTables'
    BY <1>1, <1>3 DEF YearsInv, OnlyPublished, FilesCoverTables, HasFiles, Together,
                      EnvCoversTables, Window
  <2> QED
    BY <2>1, <2>2 DEF YearsInv
<1>4. CASE End("no_change")
  BY <1>1, <1>2, <1>4, EndStep
<1> QED
  BY <1>1, <1>3, <1>4

\* A failing download takes parts away, and adds none.
LEMMA ShortfallType ==
  ASSUME YearsInv, NEW c \in {posted} \union OntimeShortfalls \union T100Shortfalls,
         \A y \in Years : c["ontime"][y] <= posted["ontime"][y]
  PROVE  /\ c \in [Sources -> [Years -> Parts]]
         /\ \A s \in Sources, y \in Years : c[s][y] <= posted[s][y]
<1>1. /\ posted \in [Sources -> [Years -> Parts]]
      /\ \A s \in Sources, y \in Years : posted[s][y] \in Nat
  BY Counts DEF YearsInv, TypeOK
<1>2. CASE c = posted
  BY <1>1, <1>2
<1>3. CASE c \in OntimeShortfalls
  <2>1. PICK x \in env["ontime"], n \in Parts : c = [posted EXCEPT !["ontime"][x] = n]
    BY <1>3 DEF OntimeShortfalls
  <2>2. x \in Years /\ "ontime" \in Sources
    BY SourcesAre DEF YearsInv, TypeOK
  <2>3. /\ c \in [Sources -> [Years -> Parts]]
        /\ \A s \in Sources, y \in Years : s # "ontime" => c[s][y] = posted[s][y]
    BY <1>1, <2>1, <2>2, PartsTable
  <2> QED
    BY <1>1, <2>3
<1>4. CASE c \in T100Shortfalls
  <2>1. PICK x \in env["t100"] : c = [posted EXCEPT !["t100"][x] = 0]
    BY <1>4 DEF T100Shortfalls
  <2>2. x \in Years /\ "t100" \in Sources /\ 0 \in Parts
    BY SourcesAre, PartsType DEF YearsInv, TypeOK
  <2>3. /\ c \in [Sources -> [Years -> Parts]] /\ c["t100"][x] = 0
        /\ \A s \in Sources, y \in Years : s # "t100" \/ y # x => c[s][y] = posted[s][y]
    BY <1>1, <2>1, <2>2, PartsTable
  <2> QED
    BY <1>1, <2>3
<1> QED
  BY <1>2, <1>3, <1>4

LEMMA BuildStep ==
  ASSUME YearsInv, Build
  PROVE  YearsInv'
<1>1. UNCHANGED <<due, posted, neon, views>>
  BY DEF Build
<1>2. CASE End("failed") /\ NoFault
  BY <1>1, <1>2, EndStep, FaultType
<1>3. ASSUME NEW c \in {posted} \union OntimeShortfalls \union T100Shortfalls,
             \A y \in Years : c["ontime"][y] <= posted["ontime"][y],
             IF c = posted THEN NoFault /\ UNCHANGED faulty ELSE Fault /\ faulty' = TRUE,
             csv' = [s \in Sources |-> [y \in Years |-> IF y \in env[s] THEN c[s][y] ELSE 0]],
             phase' = "validate", UNCHANGED <<env, outcome>>
      PROVE  YearsInv'
  <2>1. /\ c \in [Sources -> [Years -> Parts]]
        /\ \A s \in Sources, y \in Years : c[s][y] <= posted[s][y]
    BY <1>3, ShortfallType
  <2>2. faulty' \in BOOLEAN /\ faults' \in 0 .. MaxFaults /\ (c = posted \/ faulty')
    <3>1. faults' \in 0 .. MaxFaults
      BY <1>3, FaultType
    <3> QED
      BY <1>3, <3>1 DEF YearsInv, TypeOK
  <2>3. \A s \in Sources, y \in Years : csv'[s][y] = IF y \in env[s] THEN c[s][y] ELSE 0
    BY <1>3
  <2>4. csv' \in [Sources -> [Years -> Parts]]
    BY <1>3, <2>1, PartsType
  <2>5. TypeOK'
    BY <1>1, <1>3, <2>2, <2>4 DEF YearsInv, TypeOK
  <2>6. OnlyPublished'
    <3>1. \A s \in Sources, y \in Years : posted[s][y] \in Nat /\ due[s] \in Nat /\ y \in Nat
      BY Counts DEF YearsInv
    <3>2. \A s \in Sources : \A y \in env[s] : y <= due[s]
      BY DEF YearsInv, EnvCoversTables, Window
    <3> QED
      BY <1>1, <2>1, <2>3, <3>1, <3>2 DEF YearsInv, OnlyPublished
  <2>7. FilesCoverTables'
    <3>1. /\ phase = "build"
          /\ \A s \in Sources, y \in Years : y \in env[s] \/ neon[s][y] = 0
      BY DEF Build, YearsInv, EnvCoversTables
    <3>2. ASSUME ~faulty', NEW s \in Sources, NEW y \in Years PROVE neon'[s][y] <= csv'[s][y]
      BY <1>1, <2>2, <2>3, <3>1, <3>2 DEF YearsInv, OnlyPublished
    <3> QED
      BY <3>2 DEF FilesCoverTables
  <2>8. EnvCoversTables'
    BY <1>1, <1>3 DEF YearsInv, EnvCoversTables, Window
  <2> QED
    BY <1>1, <2>5, <2>6, <2>7, <2>8 DEF YearsInv, Together
<1> QED
  BY <1>2, <1>3 DEF Build

LEMMA ValidateStep ==
  ASSUME YearsInv, Validate
  PROVE  YearsInv'
<1>1. UNCHANGED <<due, posted, neon, views, faults>> /\ phase = "validate"
  BY DEF Validate
<1>2. CASE phase' = "load" /\ UNCHANGED <<outcome, csv, env, faulty>>
  BY <1>1, <1>2 DEF YearsInv, TypeOK, OnlyPublished, FilesCoverTables, HasFiles, Together,
                    EnvCoversTables, Window
<1>3. CASE End("failed")
  <2>1. faults' \in 0 .. MaxFaults
    BY <1>1 DEF YearsInv, TypeOK
  <2> QED
    BY <1>1, <1>3, <2>1, EndStep
<1> QED
  BY <1>2, <1>3 DEF Validate

LEMMA LoadCoreStep ==
  ASSUME YearsInv, LoadCore
  PROVE  YearsInv'
<1>1. /\ phase = "load" /\ phase' = "load25" /\ views' = FALSE
      /\ UNCHANGED <<due, posted, csv, env, outcome, faults, faulty>>
      /\ \A s \in Sources : neon'[s] = IF s \in Bts THEN csv[s] ELSE neon[s]
      /\ neon' \in [Sources -> [Years -> Parts]]
  BY DEF LoadCore, YearsInv, TypeOK
<1>2. TypeOK'
  BY <1>1 DEF YearsInv, TypeOK
<1>3. OnlyPublished'
  BY <1>1 DEF YearsInv, OnlyPublished
<1>4. FilesCoverTables'
  <2>1. \A s \in Sources, y \in Years : csv[s][y] <= csv[s][y]
    <3>1. \A s \in Sources, y \in Years : csv[s][y] \in Nat
      BY Counts DEF YearsInv
    <3> QED
      BY <3>1
  <2> QED
    BY <1>1, <2>1 DEF YearsInv, FilesCoverTables, HasFiles
<1>5. EnvCoversTables'
  BY <1>1 DEF YearsInv, EnvCoversTables, Window
<1> QED
  BY <1>1, <1>2, <1>3, <1>4, <1>5 DEF YearsInv, Together

LEMMA LoadT25Step ==
  ASSUME YearsInv, LoadT25
  PROVE  YearsInv'
<1>1. /\ End("success") /\ UNCHANGED <<due, posted, faults>> /\ views' = TRUE
      /\ neon' = [neon EXCEPT !["faa"] = csv["faa"]]
  BY DEF LoadT25
<1>2. /\ neon' \in [Sources -> [Years -> Parts]]
      /\ \A s \in Sources : neon'[s] = neon[s] \/ neon'[s] = csv[s]
  BY <1>1 DEF YearsInv, TypeOK
<1>3. csv' \in [Sources -> [Years -> Parts]] /\ \A s \in Sources, y \in Years : csv'[s][y] = 0
  BY <1>1, PartsType DEF End, NoFiles
<1>4. TypeOK' /\ FilesCoverTables' /\ Together' /\ EnvCoversTables'
  BY <1>1, <1>2, <1>3 DEF End, NoYears, Together, YearsInv, TypeOK, FilesCoverTables, HasFiles,
                          EnvCoversTables
<1>5. OnlyPublished'
  <2>1. \A s \in Sources, y \in Years : posted[s][y] \in Nat
    BY Counts DEF YearsInv
  <2>2. ASSUME NEW s \in Sources, NEW y \in Years
        PROVE  neon'[s][y] = neon[s][y] \/ neon'[s][y] = csv[s][y]
    BY <1>2
  <2> QED
    BY <1>1, <1>3, <2>1, <2>2 DEF YearsInv, OnlyPublished
<1> QED
  BY <1>4, <1>5 DEF YearsInv

LEMMA YearsStep ==
  ASSUME YearsInv, [Next]_yearsVars
  PROVE  YearsInv'
<1>1. CASE January \/ March
  BY <1>1, CalendarStep
<1>2. ASSUME NEW s \in Sources, NEW y \in Years, Publish(s, y) PROVE YearsInv'
  BY <1>2, PublishStep
<1>3. CASE WeeklyRun
  BY <1>3, StartStep, ProbeStep, BuildStep, ValidateStep, LoadCoreStep, LoadT25Step DEF WeeklyRun
<1>4. CASE Abort
  BY <1>4, EndStep, FaultType DEF Abort
<1>5. CASE UNCHANGED yearsVars
  BY <1>5 DEF yearsVars, YearsInv, Together, TypeOK, OnlyPublished, FilesCoverTables, HasFiles,
              EnvCoversTables, Window
<1> QED
  BY <1>1, <1>2, <1>3, <1>4, <1>5 DEF Next

LEMMA YearsInit == Init => YearsInv
<1> SUFFICES ASSUME Init PROVE YearsInv
  OBVIOUS
<1>1. /\ due \in [Sources -> 1 .. 2] /\ 0 \in Parts /\ FullYear \in Parts /\ FullYear - 1 \in Parts
  BY YearAssumptions DEF Init, Parts, Sources
<1>2. /\ posted \in [Sources -> [Years -> Parts]] /\ neon \in [Sources -> [Years -> Parts]]
      /\ csv \in [Sources -> [Years -> Parts]]
  BY <1>1 DEF Init, NoFiles
<1>3. TypeOK
  <2>1. 0 \in 0 .. MaxFaults /\ \A n \in 1 .. 2 : n \in 0 .. LastYear
    BY YearAssumptions
  <2>2. due \in [Sources -> 0 .. LastYear]
    BY <1>1, <2>1
  <2> QED
    BY <1>2, <2>1, <2>2 DEF Init, NoYears, TypeOK
<1>4. ASSUME NEW s \in Sources, NEW y \in Years
      PROVE  /\ neon[s][y] <= posted[s][y] /\ csv[s][y] <= posted[s][y]
             /\ y > due[s] => neon[s][y] = 0 /\ csv[s][y] = 0
  <2>1. neon[s][y] = IF y <= due[s] THEN FullYear ELSE 0
    BY DEF Init
  <2>2. posted[s][y] = IF y <= due[s] THEN FullYear ELSE IF s = "faa" THEN 0 ELSE FullYear - 1
    BY DEF Init
  <2>3. csv[s][y] = 0 /\ due[s] \in Nat /\ y \in Nat
    BY <1>1, PartsType DEF Init, NoFiles
  <2> QED
    BY <2>1, <2>2, <2>3, YearAssumptions
<1>5. FilesCoverTables
  BY DEF Init, FilesCoverTables, HasFiles
<1>6. Together
  BY SourcesAre DEF Init, Together
<1>7. EnvCoversTables
  BY DEF Init, NoYears, EnvCoversTables
<1> QED
  BY <1>3, <1>4, <1>5, <1>6, <1>7 DEF YearsInv, OnlyPublished

\* Types, what tables and files may hold, and that files of an undisturbed run cover the
\* tables they replace, in every state of the job.
THEOREM YearsInvariant == Spec => []YearsInv
BY YearsInit, YearsStep, PTL DEF Spec

\* A load that shrinks a year of a source belongs to a run that met a fault.
LEMMA LossStep ==
  ASSUME YearsInv, [Next]_yearsVars, NEW s \in Sources, NEW y \in Years, neon'[s][y] < neon[s][y]
  PROVE  faulty
<1> SUFFICES ASSUME ~faulty PROVE FALSE
  OBVIOUS
<1>1. neon[s][y] \in Nat /\ csv[s][y] \in Nat
  BY Counts DEF YearsInv
<1>2. LoadCore \/ LoadT25
  <2>1. neon' # neon
    BY <1>1
  <2> QED
    BY <2>1 DEF Next, January, March, Publish, WeeklyRun, StartRun, Probe, Build, Validate, Abort, yearsVars
<1>3. neon'[s][y] = neon[s][y] \/ neon'[s][y] = csv[s][y]
  BY <1>2 DEF LoadCore, LoadT25, YearsInv, TypeOK
<1>4. neon[s][y] <= csv[s][y]
  BY <1>2 DEF LoadCore, LoadT25, YearsInv, FilesCoverTables, HasFiles
<1> QED
  BY <1>1, <1>3, <1>4

\* No year that is in a table gets smaller, whatever is published, due or refused, in a
\* run whose downloads, HEADs and statements worked.
THEOREM LossesAreFaults == Spec => LossNeedsFault
<1>1. YearsInv /\ [Next]_yearsVars
        => [\A s \in Sources, y \in Years : neon'[s][y] < neon[s][y] => faulty]_yearsVars
  BY LossStep
<1> QED
  BY <1>1, YearsInvariant, PTL DEF Spec, LossNeedsFault

----------------------------------------------------------------------------
\* The windows of a date.
Dates == [year : StartYear .. EndYear, month : Months]

\* Three months back from March or later is still this year or its December ago.
LEMMA NewestByMonth ==
  ASSUME NEW y \in Nat, NEW m \in Months
  PROVE  NewestComplete(Month(y, m)) = IF m >= 3 THEN y - 1 ELSE y - 2
<1>1. ShiftMonths(Month(y, m), -BtsLagMonths)
      = Month((y * 12 + (m - 1) - 3) \div 12, ((y * 12 + (m - 1) - 3) % 12) + 1)
  <2>1. Month(y, m).year = y /\ Month(y, m).month = m
    BY DEF Month
  <2>2. y * 12 + (m - 1) + (-3) = y * 12 + (m - 1) - 3
    BY DEF Months
  <2>3. QED BY <2>1, <2>2 DEF ShiftMonths, BtsLagMonths
<1>2. CASE m >= 4
  <2>1. (y * 12 + (m - 1) - 3) \div 12 = y /\ (y * 12 + (m - 1) - 3) % 12 = m - 4
    BY <1>2 DEF Months
  <2>2. QED BY <1>1, <1>2, <2>1 DEF NewestComplete, Month, Months
<1>3. CASE m < 4
  <2>1. (y * 12 + (m - 1) - 3) \div 12 = y - 1 /\ (y * 12 + (m - 1) - 3) % 12 = m + 8
    BY <1>3 DEF Months
  <2>2. QED BY <1>1, <1>3, <2>1 DEF NewestComplete, Month, Months
<1>4. QED BY <1>2, <1>3 DEF Months

\* bts_year_window is its reference: the years whose March after has come.
LEMMA BtsReference ==
  ASSUME NEW y \in Nat, NEW m \in Months, NEW x \in Nat
  PROVE  x \in BtsYears(Month(y, m))
         <=> FirstYear <= x /\ NotBefore(Month(y, m), Month(x + 1, 3))
<1>1. NewestComplete(Month(y, m)) = IF m >= 3 THEN y - 1 ELSE y - 2
  BY NewestByMonth
<1>2. x \in BtsYears(Month(y, m)) <=> FirstYear <= x /\ x <= NewestComplete(Month(y, m))
  BY <1>1 DEF BtsYears, FirstYear
<1>3. NotBefore(Month(y, m), Month(x + 1, 3)) <=> y > x + 1 \/ (y = x + 1 /\ m >= 3)
  BY DEF NotBefore, Month
<1>4. QED BY <1>1, <1>2, <1>3 DEF Months

\* faa_year_window is its reference: the fiscal years that are two years back.
LEMMA FaaReference ==
  ASSUME NEW y \in Nat, NEW m \in Months, NEW x \in Nat
  PROVE  x \in FaaYears(Month(y, m))
         <=> FirstYear <= x /\ NotBefore(Month(y, m), Month(x + 2, 1))
BY DEF FaaYears, FaaLagYears, FirstYear, NotBefore, Month, Months

LEMMA DateOf == ASSUME NEW d \in Dates PROVE d = Month(d.year, d.month) /\ d.year \in Nat /\ d.month \in Months
BY CalendarAssumptions DEF Dates, Month

LEMMA CandidatesAreNat == \A x \in CandidateYears : x \in Nat
BY CalendarAssumptions DEF CandidateYears, FirstYear

\* A window computed today holds exactly the years that are due today.
LEMMA WindowIsDue ==
  ASSUME today \in Dates, NEW x \in CandidateYears
  PROVE  (x \in BtsYears(today) <=> BtsDue(x)) /\ (x \in FaaYears(today) <=> FaaDue(x))
<1>1. x \in Nat /\ today = Month(today.year, today.month) /\ today.year \in Nat /\ today.month \in Months
  BY DateOf, CandidatesAreNat
<1>2. QED BY <1>1, BtsReference, FaaReference DEF BtsDue, FaaDue

LEMMA InitDates == WindowInit => today \in Dates
BY CalendarAssumptions DEF WindowInit, Dates, Month, Months

LEMMA TickForward ==
  ASSUME today \in Dates, Tick
  PROVE  /\ today' \in Dates
         /\ \A x \in CandidateYears : (BtsDue(x) => BtsDue(x)') /\ (FaaDue(x) => FaaDue(x)')
<1>1. today.year \in Nat /\ today.month \in Months /\ today.year \in StartYear .. EndYear
  BY CalendarAssumptions DEF Dates
<1>2. \/ today.month < 12 /\ today' = [today EXCEPT !.month = today.month + 1]
      \/ today.month = 12 /\ today.year < EndYear /\ today' = Month(today.year + 1, 1)
  BY DEF Tick
<1>3. \/ today'.year = today.year /\ today'.month = today.month + 1 /\ today.month < 12
      \/ today'.year = today.year + 1 /\ today'.month = 1 /\ today.year < EndYear
  BY <1>2 DEF Month, Dates
<1>4. today' \in Dates
  BY <1>1, <1>2, CalendarAssumptions DEF Dates, Month, Months
<1>5. ASSUME NEW x \in CandidateYears
      PROVE  (BtsDue(x) => BtsDue(x)') /\ (FaaDue(x) => FaaDue(x)')
  <2>1. x \in Nat
    BY CandidatesAreNat
  <2>2. QED BY <1>1, <1>3, <2>1 DEF BtsDue, FaaDue, NotBefore, Month, Months
<1>6. QED BY <1>4, <1>5

LEMMA NextNeverEarly ==
  today \in Dates /\ NeverEarly /\ [WindowNext]_windowVars => (today \in Dates /\ NeverEarly)'
<1> SUFFICES ASSUME today \in Dates, NeverEarly, [WindowNext]_windowVars
             PROVE  today' \in Dates /\ NeverEarly'
  OBVIOUS
<1>1. CASE UNCHANGED windowVars
  BY <1>1 DEF windowVars, NeverEarly, BtsDue, FaaDue
<1>2. CASE Tick
  BY <1>2, TickForward DEF NeverEarly, Tick
<1>3. CASE ApplyYearWindows
  <2>1. today' = today /\ bts' = BtsYears(today) /\ faa' = FaaYears(today)
    BY <1>3 DEF ApplyYearWindows
  <2>2. \A x \in CandidateYears : (BtsDue(x)' <=> BtsDue(x)) /\ (FaaDue(x)' <=> FaaDue(x))
    BY <2>1 DEF BtsDue, FaaDue
  <2>3. QED BY <2>1, <2>2, WindowIsDue DEF NeverEarly
<1>4. QED BY <1>1, <1>2, <1>3 DEF WindowNext

\* However long ago the last run was, the years it published are all due: the windows of
\* bts_year_window and faa_year_window never run ahead of the calendar.
THEOREM WindowsNeverEarly == WindowSpec => []NeverEarly
<1>1. WindowInit => today \in Dates /\ NeverEarly
  BY InitDates, WindowIsDue DEF WindowInit, NeverEarly
<1>2. QED BY <1>1, NextNeverEarly, PTL DEF WindowSpec

\* The two windows of a day: ranges that end a year apart at most.
LEMMA WindowsOfToday ==
  ASSUME today \in Dates
  PROVE  /\ BtsYears(today) = {x \in CandidateYears : BtsDue(x)}
         /\ FaaYears(today) = {x \in CandidateYears : FaaDue(x)}
         /\ FaaYears(today) \subseteq BtsYears(today)
         /\ \A x \in BtsYears(today) : x - 1 \in FaaYears(today) \/ x = FirstYear
<1> DEFINE y == today.year
           newest == NewestComplete(today)
<1>1. y \in StartYear .. EndYear /\ y \in Nat /\ newest \in {y - 2, y - 1}
  <2>1. today = Month(y, today.month) /\ y \in Nat /\ today.month \in Months
    BY DateOf
  <2>2. newest = IF today.month >= 3 THEN y - 1 ELSE y - 2
    BY <2>1, NewestByMonth
  <2> QED
    BY <2>1, <2>2 DEF Dates
<1>2. BtsYears(today) = FirstYear .. newest /\ FaaYears(today) = FirstYear .. (y - 2)
  BY DEF BtsYears, FaaYears, FaaLagYears
<1> HIDE DEF y, newest
<1>3. BtsYears(today) \subseteq CandidateYears /\ FaaYears(today) \subseteq CandidateYears
  BY <1>1, <1>2, CalendarAssumptions DEF CandidateYears, FirstYear
<1>4. /\ FaaYears(today) \subseteq BtsYears(today)
      /\ \A x \in BtsYears(today) : x - 1 \in FaaYears(today) \/ x = FirstYear
  BY <1>1, <1>2, CalendarAssumptions DEF FirstYear
<1> QED
  BY <1>3, <1>4, WindowIsDue

\* A run publishes exactly the years that are due by then, and the two windows never
\* drift more than a year apart.
THEOREM PublishesAllDue == WindowSpec => RunPublishesAllDue
<1>1. today \in Dates /\ [WindowNext]_windowVars => (today \in Dates)'
  BY TickForward DEF WindowNext, ApplyYearWindows, windowVars
<1>2. today \in Dates /\ [WindowNext]_windowVars =>
        [bts' # bts \/ faa' # faa =>
           /\ bts' = {y \in CandidateYears : BtsDue(y)}
           /\ faa' = {y \in CandidateYears : FaaDue(y)}
           /\ faa' \subseteq bts' /\ \A y \in bts' : y - 1 \in faa' \/ y = FirstYear]_windowVars
  <2> SUFFICES ASSUME today \in Dates, [WindowNext]_windowVars, bts' # bts \/ faa' # faa
               PROVE  /\ bts' = {y \in CandidateYears : BtsDue(y)}
                      /\ faa' = {y \in CandidateYears : FaaDue(y)}
                      /\ faa' \subseteq bts' /\ \A y \in bts' : y - 1 \in faa' \/ y = FirstYear
    OBVIOUS
  <2>1. bts' = BtsYears(today) /\ faa' = FaaYears(today)
    BY DEF WindowNext, Tick, ApplyYearWindows, windowVars
  <2> QED
    BY <2>1, WindowsOfToday
<1> QED
  BY <1>1, <1>2, InitDates, PTL DEF WindowSpec, RunPublishesAllDue

\* A year that was published stays published: a run never tells its builders less than an
\* earlier one did, so no table it replaces was built from a year it does not know.
WindowsGrow == bts \subseteq bts' /\ faa \subseteq faa'

THEOREM WindowsOnlyGrow == WindowSpec => [][WindowsGrow]_windowVars
<1> DEFINE Inv == /\ today \in Dates /\ NeverEarly
                  /\ bts \subseteq CandidateYears /\ faa \subseteq CandidateYears
<1>1. WindowInit => Inv
  <2> SUFFICES ASSUME WindowInit PROVE Inv
    OBVIOUS
  <2>1. today \in Dates /\ bts = BtsYears(today) /\ faa = FaaYears(today)
    BY InitDates DEF WindowInit
  <2> QED
    BY <2>1, WindowIsDue, WindowsOfToday DEF NeverEarly
<1>2. Inv /\ [WindowNext]_windowVars => Inv' /\ [WindowsGrow]_windowVars
  <2> SUFFICES ASSUME Inv, [WindowNext]_windowVars PROVE Inv' /\ WindowsGrow
    OBVIOUS
  <2>1. today' \in Dates /\ NeverEarly'
    BY NextNeverEarly
  <2>2. CASE ApplyYearWindows
    <3>1. bts' = {x \in CandidateYears : BtsDue(x)} /\ faa' = {x \in CandidateYears : FaaDue(x)}
      BY <2>2, WindowsOfToday DEF ApplyYearWindows
    <3>2. bts \subseteq bts' /\ faa \subseteq faa' /\ bts' \subseteq CandidateYears /\ faa' \subseteq CandidateYears
      BY <3>1 DEF NeverEarly
    <3> QED
      BY <2>1, <3>2 DEF WindowsGrow, CandidateYears
  <2>3. CASE Tick \/ UNCHANGED windowVars
    <3>1. bts' = bts /\ faa' = faa
      BY <2>3 DEF Tick, windowVars
    <3> QED
      BY <2>1, <3>1 DEF WindowsGrow, CandidateYears
  <2> QED
    BY <2>2, <2>3 DEF WindowNext
<1> HIDE DEF Inv
<1> QED
  BY <1>1, <1>2, PTL DEF WindowSpec

----------------------------------------------------------------------------
\* The job runs by the calendar: years are numbered from FirstYear, and what is due in
\* RefreshYears is what the two windows of YearWindow reach to.
Numbered(years) == {y - FirstYear + 1 : y \in years}

DueOn(d) ==
  [s \in Sources |-> (IF s = "faa" THEN d.year - FaaLagYears ELSE NewestComplete(d)) - FirstYear + 1]

LEMMA DueOnDate ==
  ASSUME NEW d \in Dates
  PROVE  /\ d.year \in Nat /\ d.month \in Months /\ d.year <= EndYear /\ FirstYear < d.year
         /\ DueOn(d)["faa"] = d.year - FirstYear - 1
         /\ \A s \in Bts : DueOn(d)[s] = IF d.month >= 3 THEN d.year - FirstYear ELSE d.year - FirstYear - 1
         /\ \A s \in Bts : DueOn(d)[s] = NewestComplete(d) - FirstYear + 1
<1>1. /\ d.year \in Nat /\ d.month \in Months /\ d.year <= EndYear /\ FirstYear < d.year
      /\ d = Month(d.year, d.month)
  BY DateOf, CalendarAssumptions DEF Dates, FirstYear
<1>2. NewestComplete(d) = IF d.month >= 3 THEN d.year - 1 ELSE d.year - 2
  BY <1>1, NewestByMonth
<1>3. /\ DueOn(d)["faa"] = d.year - 2 - FirstYear + 1
      /\ \A s \in Bts : DueOn(d)[s] = NewestComplete(d) - FirstYear + 1
  BY SourcesAre DEF DueOn, FaaLagYears, Bts
<1> QED
  BY <1>1, <1>2, <1>3 DEF FirstYear

\* The window RefreshYears works with, "every year up to the newest due", is what
\* bts_year_window and faa_year_window return on that day, and what a run that starts then
\* tells its builders is what apply_year_windows publishes.
THEOREM RunIsToldTheWindow ==
  ASSUME EndYear - FirstYear = LastYear, today \in Dates, due = DueOn(today)
  PROVE  /\ Window("faa") = Numbered(FaaYears(today))
         /\ \A s \in Bts : Window(s) = Numbered(BtsYears(today))
         /\ ApplyYearWindows /\ StartRun =>
              env'["faa"] = Numbered(faa') /\ \A s \in Bts : env'[s] = Numbered(bts')
<1>1. /\ today.year \in Nat /\ today.month \in Months /\ today.year <= EndYear
      /\ FirstYear < today.year /\ due["faa"] = today.year - FirstYear - 1
      /\ \A s \in Bts : due[s] = IF today.month >= 3 THEN today.year - FirstYear ELSE today.year - FirstYear - 1
      /\ \A s \in Bts : due[s] = NewestComplete(today) - FirstYear + 1
  BY DueOnDate
<1>2. EndYear \in Nat /\ FirstYear = 2023 /\ LastYear \in Nat
  BY CalendarAssumptions, YearAssumptions DEF FirstYear
<1>3. ASSUME NEW newest \in Int, newest < EndYear
      PROVE  Numbered(FirstYear .. newest) = {y \in Years : y <= newest - FirstYear + 1}
  <2>1. \A y \in FirstYear .. newest : y - FirstYear + 1 \in {x \in Years : x <= newest - FirstYear + 1}
    BY <1>2, <1>3 DEF Years
  <2>2. ASSUME NEW x \in Years, x <= newest - FirstYear + 1
        PROVE  x \in Numbered(FirstYear .. newest)
    <3>1. x + FirstYear - 1 \in FirstYear .. newest /\ x = (x + FirstYear - 1) - FirstYear + 1
      BY <1>2, <2>2 DEF Years
    <3> QED
      BY <3>1 DEF Numbered
  <2> QED
    BY <2>1, <2>2 DEF Numbered
<1>4. Window("faa") = Numbered(FaaYears(today))
  <2>1. today.year - 2 \in Int /\ today.year - 2 < EndYear
        /\ today.year - 2 - FirstYear + 1 = due["faa"]
    BY <1>1, <1>2
  <2> QED
    BY <1>3, <2>1 DEF Window, FaaYears, FaaLagYears
<1>5. ASSUME NEW s \in Bts PROVE Window(s) = Numbered(BtsYears(today))
  <2>1. NewestComplete(today) \in Int /\ NewestComplete(today) < EndYear
        /\ NewestComplete(today) - FirstYear + 1 = due[s]
    <3>1. NewestComplete(today) = IF today.month >= 3 THEN today.year - 1 ELSE today.year - 2
      BY DateOf, NewestByMonth
    <3> QED
      BY <1>1, <1>2, <3>1
  <2> QED
    BY <1>3, <2>1 DEF Window, BtsYears
<1>6. ApplyYearWindows /\ StartRun =>
        env'["faa"] = Numbered(faa') /\ \A s \in Bts : env'[s] = Numbered(bts')
  BY <1>4, <1>5, SourcesAre DEF ApplyYearWindows, StartRun
<1> QED
  BY <1>4, <1>5, <1>6

\* The months that move a window are January, for a fiscal year, and March, for the BTS
\* year that ended in December: RefreshYears' two calendar steps, with their guards.
THEOREM CalendarMovesDue ==
  ASSUME EndYear - FirstYear = LastYear
  PROVE  WindowSpec /\ [](due = DueOn(today)) =>
           [][UNCHANGED <<posted, neon, csv, views, env, phase, outcome, faults, faulty>>
                => January \/ March]_due
<1>1. ASSUME today \in Dates, [WindowNext]_windowVars, due = DueOn(today), due' = DueOn(today)', due' # due,
             UNCHANGED <<posted, neon, csv, views, env, phase, outcome, faults, faulty>>
      PROVE  January \/ March
  <2>1. Tick
    BY <1>1 DEF WindowNext, ApplyYearWindows, windowVars
  <2>2. today' \in Dates
    BY <1>1, <2>1, TickForward
  <2>3. \/ today'.year = today.year /\ today'.month = today.month + 1 /\ today.month < 12
        \/ today'.year = today.year + 1 /\ today'.month = 1 /\ today.month = 12
    BY <1>1, <2>1 DEF Tick, Month, Dates
  <2>4. /\ today.year \in Nat /\ today.month \in Months /\ today.year <= EndYear /\ FirstYear < today.year
        /\ due["faa"] = today.year - FirstYear - 1
        /\ \A s \in Bts : due[s] = IF today.month >= 3 THEN today.year - FirstYear ELSE today.year - FirstYear - 1
    BY <1>1, DueOnDate
  <2>5. /\ due' = DueOn(today') /\ today'.year \in Nat /\ today'.month \in Months
        /\ due'["faa"] = today'.year - FirstYear - 1
        /\ \A s \in Bts : due'[s] = IF today'.month >= 3 THEN today'.year - FirstYear ELSE today'.year - FirstYear - 1
    <3>1. due' = DueOn(today')
      BY <1>1, Zenon DEF DueOn, NewestComplete, ShiftMonths
    <3> DEFINE d == today'
    <3>2. d \in Dates
      BY <2>2
    <3> HIDE DEF d
    <3>3. /\ d.year \in Nat /\ d.month \in Months /\ DueOn(d)["faa"] = d.year - FirstYear - 1
          /\ \A s \in Bts : DueOn(d)[s] = IF d.month >= 3 THEN d.year - FirstYear ELSE d.year - FirstYear - 1
      BY <3>2, DueOnDate
    <3> QED
      BY <3>1, <3>3 DEF d
  <2>6. /\ due = [s \in Sources |-> due[s]] /\ due' = [s \in Sources |-> due'[s]]
        /\ Sources = {"faa"} \union Bts /\ "ontime" \in Bts /\ "faa" \notin Bts
    BY <1>1, <2>5 DEF DueOn, Sources, Bts
  <2>7. FirstYear = 2023 /\ EndYear \in Nat
    BY CalendarAssumptions DEF FirstYear
  <2>8. CASE today'.year = today.year + 1 /\ today'.month = 1 /\ today.month = 12
    <3>1. due["faa"] < due["ontime"] /\ due'["faa"] = due["faa"] + 1 /\ \A s \in Bts : due'[s] = due[s]
      BY <2>4, <2>5, <2>6, <2>7, <2>8
    <3>2. due' = [due EXCEPT !["faa"] = due["faa"] + 1]
      BY <2>6, <3>1
    <3> QED
      BY <1>1, <3>1, <3>2 DEF January
  <2>9. CASE today'.year = today.year /\ today'.month = today.month + 1 /\ today.month < 12
    <3>1. today.month = 2 /\ due'["faa"] = due["faa"]
      <4>1. due'["faa"] = due["faa"]
        BY <2>4, <2>5, <2>9
      <4>2. today.month # 2 => \A s \in Bts : due'[s] = due[s]
        BY <2>4, <2>5, <2>9 DEF Months
      <4>3. today.month # 2 => due' = due
        BY <2>6, <4>1, <4>2
      <4> QED
        BY <1>1, <4>1, <4>3
    <3>2. /\ due["faa"] = due["ontime"] /\ due["ontime"] < LastYear
          /\ \A s \in Bts : due'[s] = due[s] + 1
      BY <2>4, <2>5, <2>6, <2>7, <2>9, <3>1
    <3>3. due' = [s \in Sources |-> IF s \in Bts THEN due[s] + 1 ELSE due[s]]
      BY <2>6, <3>1, <3>2
    <3> QED
      BY <1>1, <3>2, <3>3 DEF March
  <2> QED
    BY <2>3, <2>8, <2>9
<1>2. today \in Dates /\ [WindowNext]_windowVars => (today \in Dates)'
  BY TickForward DEF WindowNext, ApplyYearWindows, windowVars
<1>3. today \in Dates /\ [WindowNext]_windowVars /\ due = DueOn(today) /\ (due = DueOn(today))' =>
        [UNCHANGED <<posted, neon, csv, views, env, phase, outcome, faults, faulty>>
           => January \/ March]_due
  BY <1>1
<1> QED
  BY <1>2, <1>3, InitDates, PTL DEF WindowSpec

\* RefreshYears begins, two BTS years due and one or two fiscal ones, in the twelve months
\* from March of the third year on.
THEOREM StartsInTheThirdYear ==
  ASSUME NEW d \in Dates, \/ d.year = FirstYear + 2 /\ d.month >= 3
                          \/ d.year = FirstYear + 3 /\ d.month < 3
  PROVE  \E n \in {1, 2} : DueOn(d) = [s \in Sources |-> IF s = "faa" THEN n ELSE 2]
<1> DEFINE w == DueOn(d)
<1>1. /\ w["faa"] = d.year - FirstYear - 1 /\ d.month \in Months /\ FirstYear = 2023
      /\ \A s \in Bts : w[s] = IF d.month >= 3 THEN d.year - FirstYear ELSE d.year - FirstYear - 1
  BY DueOnDate DEF FirstYear
<1>2. w = [s \in Sources |-> w[s]]
  BY DEF DueOn
<1> HIDE DEF w
<1>3. w["faa"] \in {1, 2} /\ \A s \in Bts : w[s] = 2
  BY <1>1 DEF Months
<1>4. \A s \in Sources : w[s] = IF s = "faa" THEN w["faa"] ELSE 2
  BY <1>3 DEF Sources, Bts
<1>5. w = [s \in Sources |-> IF s = "faa" THEN w["faa"] ELSE 2]
  BY <1>2, <1>4
<1> QED
  BY <1>3, <1>5 DEF w
=============================================================================
