------------------------- MODULE ChatThreadsProofs -------------------------
(***************************************************************************)
(* Theorems about ChatThreads for any number of questions and threads.     *)
(***************************************************************************)
EXTENDS ChatThreads, TLAPS

\* The part of the type invariant the proofs rest on: which thread a thing belongs to.
OwnersInv ==
  /\ active \in Threads
  /\ origin \in [Turns -> Threads]
  /\ stage \in [Turns -> Open \union {"unasked", "cut", "over"}]

\* Every step keeps the owners: a thread id comes from Threads, a turn keeps its origin
\* from the moment it is asked in the active thread.
LEMMA OwnersStep ==
  ASSUME OwnersInv, [Next]_chatVars
  PROVE  OwnersInv'
<1> USE DEF OwnersInv, Open
<1>1. ASSUME NEW r \in Turns, Ask(r) PROVE OwnersInv'
  BY <1>1 DEF Ask
<1>2. ASSUME NEW r \in Turns, Connect(r) PROVE OwnersInv'
  BY <1>2 DEF Connect
<1>3. ASSUME NEW r \in Turns, EndEvent(r) PROVE OwnersInv'
  BY <1>3 DEF EndEvent, FinalizeWith
<1>4. ASSUME NEW r \in Turns, StreamEnds(r) PROVE OwnersInv'
  BY <1>4 DEF StreamEnds, Closed
<1>5. ASSUME NEW r \in Turns, NetworkFails(r) PROVE OwnersInv'
  BY <1>5 DEF NetworkFails, FinalizeWith
<1>6. CASE Health
  BY <1>6 DEF Health
<1>7. CASE NewThread
  BY <1>7 DEF NewThread, Unused
<1>8. CASE Reload
  BY <1>8 DEF Reload, Unused, Closed
<1>9. ASSUME NEW t \in Threads, SelectThread(t) PROVE OwnersInv'
  BY <1>9 DEF SelectThread
<1>10. CASE UNCHANGED chatVars
  BY <1>10 DEF chatVars
<1> QED
  BY <1>1, <1>2, <1>3, <1>4, <1>5, <1>6, <1>7, <1>8, <1>9, <1>10 DEF Next

\* A step that leaves the input disabled leaves an answer on its way, or the banner up.
LEMMA UnlockStep ==
  ASSUME OwnersInv, InputUnlocks, [Next]_chatVars
  PROVE  InputUnlocks'
<1> USE DEF OwnersInv, InputUnlocks, InputDisabled, BannerShown, Open
<1>1. ASSUME NEW r \in Turns, Ask(r) PROVE InputUnlocks'
  BY <1>1 DEF Ask
<1>2. ASSUME NEW r \in Turns, Connect(r) PROVE InputUnlocks'
  BY <1>2 DEF Connect
<1>3. ASSUME NEW r \in Turns, EndEvent(r) PROVE InputUnlocks'
  BY <1>3 DEF EndEvent
<1>4. ASSUME NEW r \in Turns, StreamEnds(r) PROVE InputUnlocks'
  BY <1>4 DEF StreamEnds, Closed
<1>5. ASSUME NEW r \in Turns, NetworkFails(r) PROVE InputUnlocks'
  BY <1>5 DEF NetworkFails
<1>6. CASE Health
  BY <1>6 DEF Health
<1>7. CASE NewThread
  BY <1>7 DEF NewThread
<1>8. CASE Reload
  BY <1>8 DEF Reload
<1>9. ASSUME NEW t \in Threads, SelectThread(t) PROVE InputUnlocks'
  BY <1>9 DEF SelectThread
<1>10. CASE UNCHANGED chatVars
  BY <1>10 DEF chatVars
<1> QED
  BY <1>1, <1>2, <1>3, <1>4, <1>5, <1>6, <1>7, <1>8, <1>9, <1>10 DEF Next

\* The input is disabled only while an answer is on its way or, when none is, under the
\* banner with its retry: no end of a stream, switch or reload locks the user out silently.
THEOREM InputUnlocked == Spec => []InputUnlocks
<1>1. Init => OwnersInv /\ InputUnlocks
  BY DEF Init, OwnersInv, Open, InputUnlocks, InputDisabled, BannerShown
<1>2. OwnersInv /\ InputUnlocks /\ [Next]_chatVars => (OwnersInv /\ InputUnlocks)'
  BY OwnersStep, UnlockStep
<1> QED
  BY <1>1, <1>2, PTL DEF Spec

----------------------------------------------------------------------------
(* The transcripts.                                                         *)

\* Of sequences in general: members, and the empty one.
LEMMA SeqMembers ==
  ASSUME NEW S, NEW q \in Seq(S)
  PROVE  DOMAIN q = 1 .. Len(q) /\ Len(q) \in Nat /\ \A i \in DOMAIN q : q[i] \in S
OBVIOUS

LEMMA EmptyTranscript == <<>> \in Transcript
<1>1. \A S : <<>> \in Seq(S)
  OBVIOUS
<1> QED
  BY <1>1, Zenon DEF Transcript

LEMMA MadeSequence ==
  ASSUME NEW S, NEW n \in Nat, NEW q \in [1 .. n -> S]
  PROVE  q \in Seq(S)
OBVIOUS

\* A bubble in a new status leaves the transcript its length and its turns.
LEMMA UpdatedKeepsTurns ==
  ASSUME TypeOK, NEW r \in Turns, NEW status \in Status
  PROVE  /\ Updated(r, status) \in Transcript
         /\ DOMAIN Updated(r, status) = DOMAIN screen
         /\ \A i \in DOMAIN screen : /\ Updated(r, status)[i].turn = screen[i].turn
                                     /\ screen[i].turn # r => Updated(r, status)[i] = screen[i]
                                     /\ screen[i].turn = r => Updated(r, status)[i].status = status
<1>1. screen \in Seq([turn : Turns, status : Status])
  BY DEF TypeOK, Transcript
<1>2. Entry(r, status) \in [turn : Turns, status : Status]
  BY DEF Entry
<1>3. /\ DOMAIN screen = 1 .. Len(screen) /\ Len(screen) \in Nat
      /\ \A i \in DOMAIN screen : screen[i] \in [turn : Turns, status : Status]
  BY <1>1, SeqMembers, Zenon
<1>4. \A i \in DOMAIN screen :
        (IF screen[i].turn = r THEN Entry(r, status) ELSE screen[i]) \in [turn : Turns, status : Status]
  BY <1>2, <1>3
<1>5. Updated(r, status) \in [1 .. Len(screen) -> [turn : Turns, status : Status]]
  BY <1>3, <1>4 DEF Updated
<1>6. Updated(r, status) \in Transcript
  BY <1>3, <1>5, MadeSequence, Zenon DEF Transcript
<1> QED
  BY <1>6 DEF Updated, Entry

\* Persisting an ended answer keeps the types.
LEMMA FinalizeTypes ==
  ASSUME TypeOK, NEW r \in Turns, NEW status \in Status, FinalizeWith(r, status)
  PROVE  screen' \in Transcript /\ store' \in [Threads -> Transcript] /\ misfiled' \subseteq Threads
<1>1. screen' \in Transcript
  BY UpdatedKeepsTurns DEF FinalizeWith
<1>2. store' \in [Threads -> Transcript]
  BY <1>1 DEF FinalizeWith, TypeOK
<1> QED
  BY <1>1, <1>2 DEF FinalizeWith, TypeOK

LEMMA TypeStep ==
  ASSUME TypeOK, [Next]_chatVars
  PROVE  TypeOK'
<1>1. ASSUME NEW r \in Turns, Ask(r) PROVE TypeOK'
  <2>1. Entry(r, "streaming") \in [turn : Turns, status : Status]
    BY DEF Entry, Status
  <2>2. screen' \in Transcript
    BY <1>1, <2>1 DEF Ask, TypeOK, Transcript
  <2> QED
    BY <1>1, <2>2 DEF Ask, TypeOK, Open
<1>2. ASSUME NEW r \in Turns, Connect(r) PROVE TypeOK'
  BY <1>2 DEF Connect, TypeOK, Open
<1>3. ASSUME NEW r \in Turns, EndEvent(r) PROVE TypeOK'
  <2>1. PICK status \in Status : FinalizeWith(r, status)
    BY <1>3 DEF EndEvent, Status
  <2> QED
    BY <1>3, <2>1, FinalizeTypes DEF EndEvent, TypeOK, Open
<1>4. ASSUME NEW r \in Turns, StreamEnds(r) PROVE TypeOK'
  <2>1. Closed[stage[r]] \in {"cut", "over"}
    BY <1>4 DEF StreamEnds, Closed
  <2> QED
    BY <1>4, <2>1 DEF StreamEnds, TypeOK, Open
<1>5. ASSUME NEW r \in Turns, NetworkFails(r) PROVE TypeOK'
  <2>1. FinalizeWith(r, "errored") /\ "errored" \in Status
    BY <1>5 DEF NetworkFails, Status
  <2> QED
    BY <1>5, <2>1, FinalizeTypes DEF NetworkFails, TypeOK, Open
<1>6. CASE Health
  BY <1>6 DEF Health, TypeOK
<1>7. CASE NewThread
  BY <1>7, EmptyTranscript DEF NewThread, Unused, TypeOK
<1>8. CASE Reload
  <2>1. \A r \in Turns : stage[r] \in Open => Closed[stage[r]] \in {"cut", "over"}
    BY DEF Open, Closed
  <2> QED
    BY <1>8, <2>1, EmptyTranscript DEF Reload, Unused, TypeOK, Open
<1>9. ASSUME NEW t \in Threads, SelectThread(t) PROVE TypeOK'
  BY <1>9 DEF SelectThread, TypeOK
<1>10. CASE UNCHANGED chatVars
  BY <1>10 DEF chatVars, TypeOK
<1> QED
  BY <1>1, <1>2, <1>3, <1>4, <1>5, <1>6, <1>7, <1>8, <1>9, <1>10 DEF Next

\* The inductive invariant: every persist writes the screen, so what is promised of
\* storage rests on the screen, and what is on the screen on whose questions it holds.
ChatInv == TypeOK /\ ScreenIsStored /\ TranscriptsAreWhole /\ AnswersSettle

\* A thread no answer was misfiled in has no bubble of another thread's turn, and the
\* record of a thread nothing was asked in is empty.
LEMMA NoStrangers ==
  ASSUME ChatInv, NEW t \in Threads \ misfiled
  PROVE  /\ \A i \in DOMAIN store[t] : /\ store[t][i].turn \in Turns
                                       /\ origin[store[t][i].turn] = t
                                       /\ stage[store[t][i].turn] # "unasked"
         /\ t \notin Listed => store[t] = <<>>
<1>1. Recorded(t) = Asked(t)
  BY DEF ChatInv, TranscriptsAreWhole
<1>2. \A i \in DOMAIN store[t] : store[t][i].turn \in Asked(t)
  BY <1>1 DEF Recorded
<1>3. t \notin Listed => DOMAIN store[t] = {}
  BY <1>2 DEF Asked, Listed
<1>4. DOMAIN store[t] = 1 .. Len(store[t]) /\ Len(store[t]) \in Nat
      /\ store[t] \in Seq([turn : Turns, status : Status])
  <2>1. store[t] \in Seq([turn : Turns, status : Status])
    BY DEF ChatInv, TypeOK, Transcript
  <2> QED
    BY <2>1, SeqMembers, Zenon
<1>5. t \notin Listed => Len(store[t]) = 0
  BY <1>3, <1>4
<1>6. t \notin Listed => store[t] = <<>>
  BY <1>4, <1>5
<1> QED
  BY <1>2, <1>6 DEF Asked

\* An answer that ends persists its own thread, with the same questions in it, or misfiles;
\* the other threads and their screen it leaves alone.
LEMMA FinalizeKeepsTranscripts ==
  ASSUME ChatInv, NEW r \in Turns, NEW status \in {"done", "errored"}, FinalizeWith(r, status),
         UNCHANGED <<active, origin>>, stage[r] \in Open,
         \E next \in {"settled", "over"} : stage' = [stage EXCEPT ![r] = next]
  PROVE  ScreenIsStored' /\ TranscriptsAreWhole' /\ AnswersSettle'
<1>1. /\ active \in Threads /\ origin[r] \in Threads /\ stage \in [Turns -> Open \union {"unasked", "cut", "over"}]
      /\ screen' = Updated(r, status) /\ store' = [store EXCEPT ![origin[r]] = Updated(r, status)]
      /\ misfiled' = misfiled \union ({origin[r]} \ {active})
      /\ store \in [Threads -> Transcript]
  BY DEF FinalizeWith, ChatInv, TypeOK
<1>2. /\ DOMAIN Updated(r, status) = DOMAIN screen
      /\ \A i \in DOMAIN screen : /\ Updated(r, status)[i].turn = screen[i].turn
                                  /\ screen[i].turn # r => Updated(r, status)[i] = screen[i]
                                  /\ screen[i].turn = r => Updated(r, status)[i].status = status
  BY UpdatedKeepsTurns DEF ChatInv, Status
<1>3. ASSUME NEW t \in Threads \ misfiled'
      PROVE  /\ t \notin misfiled /\ DOMAIN store'[t] = DOMAIN store[t]
             /\ \A i \in DOMAIN store[t] : /\ store'[t][i].turn = store[t][i].turn
                                           /\ store[t][i].turn # r => store'[t][i] = store[t][i]
                                           /\ store[t][i].turn = r => store'[t][i].status = status
  <2>1. t \notin misfiled
    BY <1>1
  <2>2. CASE t = origin[r]
    <3>1. t = active /\ screen = store[t] /\ store'[t] = Updated(r, status)
      BY <1>1, <2>1, <2>2 DEF ChatInv, ScreenIsStored
    <3> QED
      BY <1>2, <2>1, <3>1
  <2>3. CASE t # origin[r]
    BY <1>1, <2>1, <2>3, NoStrangers
  <2> QED
    BY <2>2, <2>3
<1>4. ScreenIsStored'
  <2>1. SUFFICES ASSUME active \notin misfiled' PROVE screen' = store'[active]
    BY DEF ScreenIsStored
  <2>2. CASE origin[r] = active
    BY <1>1, <2>2
  <2>3. CASE origin[r] # active
    <3>1. active \notin misfiled /\ screen = store[active] /\ store'[active] = store[active]
      BY <1>1, <2>1, <2>3 DEF ChatInv, ScreenIsStored
    <3>2. \A i \in DOMAIN screen : screen[i].turn # r
      BY <1>1, <2>3, <3>1, NoStrangers
    <3>3. Updated(r, status) = [i \in DOMAIN screen |-> screen[i]]
      BY <3>2 DEF Updated
    <3>4. screen = [i \in DOMAIN screen |-> screen[i]]
      <4>1. screen \in Seq([turn : Turns, status : Status])
        BY DEF ChatInv, TypeOK, Transcript
      <4> QED
        BY <4>1
    <3> QED
      BY <1>1, <3>1, <3>3, <3>4
  <2> QED
    BY <2>2, <2>3
<1>5. \A t \in Threads : Asked(t)' = Asked(t)
  BY <1>1 DEF Asked, Open
<1>6. TranscriptsAreWhole'
  <2>1. ASSUME NEW t \in Threads \ misfiled' PROVE Recorded(t)' = Asked(t)'
    <3>1. Recorded(t)' = Recorded(t)
      BY <1>3 DEF Recorded
    <3> QED
      BY <1>3, <1>5, <3>1 DEF ChatInv, TranscriptsAreWhole
  <2>2. ASSUME NEW t \in Threads \ misfiled', NEW i \in DOMAIN store'[t], NEW j \in DOMAIN store'[t],
               store'[t][i].turn = store'[t][j].turn
        PROVE  i = j
    BY <1>3, <2>2 DEF ChatInv, TranscriptsAreWhole
  <2> QED
    BY <2>1, <2>2 DEF TranscriptsAreWhole
<1>7. AnswersSettle'
  <2>1. SUFFICES ASSUME NEW b \in Turns, origin[b] \notin misfiled', stage'[b] \notin Unsettled,
                        NEW i \in DOMAIN store'[origin[b]], store'[origin[b]][i].turn = b
                 PROVE  store'[origin[b]][i].status # "streaming"
    BY DEF AnswersSettle
  <2>2. origin[b] \in Threads \ misfiled'
    BY <2>1 DEF ChatInv, TypeOK
  <2>3. CASE b = r
    BY <1>3, <2>1, <2>2, <2>3
  <2>4. CASE b # r
    <3>1. stage[b] \notin Unsettled
      BY <1>1, <2>1, <2>4
    <3>2. i \in DOMAIN store[origin[b]] /\ store'[origin[b]][i] = store[origin[b]][i]
      BY <1>3, <2>1, <2>2, <2>4
    <3> QED
      BY <1>3, <2>1, <2>2, <3>1, <3>2 DEF ChatInv, AnswersSettle
  <2> QED
    BY <2>3, <2>4
<1> QED
  BY <1>4, <1>6, <1>7

\* A new question is recorded once, in the thread on screen.
LEMMA AskKeepsTranscripts ==
  ASSUME ChatInv, NEW r \in Turns, Ask(r)
  PROVE  ScreenIsStored' /\ TranscriptsAreWhole' /\ AnswersSettle'
<1>1. /\ active \in Threads /\ active' = active /\ misfiled' = misfiled
      /\ screen' = Append(screen, Entry(r, "streaming")) /\ screen \in Seq([turn : Turns, status : Status])
      /\ store' = [store EXCEPT ![active] = screen'] /\ store \in [Threads -> Transcript]
  BY DEF Ask, ChatInv, TypeOK, Transcript
<1>2. /\ store'[active] = screen'
      /\ \A t \in Threads \ {active} : store'[t] = store[t]
  BY <1>1
<1>3. /\ stage[r] = "unasked" /\ stage' = [stage EXCEPT ![r] = "asking"]
      /\ origin' = [origin EXCEPT ![r] = active]
      /\ stage \in [Turns -> Open \union {"unasked", "cut", "over"}] /\ origin \in [Turns -> Threads]
  BY DEF Ask, ChatInv, TypeOK
<1>4. ScreenIsStored'
  BY <1>1, <1>2 DEF ScreenIsStored
<1>5. /\ Asked(active)' = Asked(active) \union {r}
      /\ \A t \in Threads \ {active} : Asked(t)' = Asked(t)
  <2>1. ASSUME NEW t \in Threads, NEW b \in Turns \ {r} PROVE b \in Asked(t)' <=> b \in Asked(t)
    BY <1>3 DEF Asked
  <2>2. ASSUME NEW t \in Threads PROVE r \in Asked(t)' <=> t = active
    BY <1>3 DEF Asked
  <2>3. ASSUME NEW t \in Threads PROVE r \notin Asked(t) /\ Asked(t) \subseteq Turns /\ Asked(t)' \subseteq Turns
    BY <1>3 DEF Asked
  <2>4. Asked(active)' = Asked(active) \union {r}
    BY <1>1, <2>1, <2>2, <2>3
  <2>5. ASSUME NEW t \in Threads \ {active} PROVE Asked(t)' = Asked(t)
    BY <2>1, <2>2, <2>3
  <2> QED
    BY <2>4, <2>5
\* What the thread on screen becomes, unless an answer was misfiled in it.
<1> DEFINE last == Len(store[active]) + 1
<1>6. ASSUME active \notin misfiled
      PROVE  /\ DOMAIN store'[active] = DOMAIN store[active] \union {last}
             /\ last \notin DOMAIN store[active]
             /\ \A i \in DOMAIN store[active] : store'[active][i] = store[active][i] /\ store[active][i].turn # r
             /\ store'[active][last] = Entry(r, "streaming")
  <2>1. screen = store[active]
    BY <1>6 DEF ChatInv, ScreenIsStored
  <2>2. \A i \in DOMAIN store[active] : store[active][i].turn # r
    BY <1>1, <1>3, <1>6, NoStrangers
  <2> QED
    BY <1>1, <1>2, <2>1, <2>2
<1> HIDE DEF last
<1>7. TranscriptsAreWhole'
  <2>1. ASSUME active \notin misfiled PROVE Recorded(active)' = Asked(active)'
    <3>1. Entry(r, "streaming").turn = r
      BY DEF Entry
    <3>2. Recorded(active)' = {store'[active][i].turn : i \in DOMAIN store'[active]}
      BY <1>1 DEF Recorded
    <3>3. Recorded(active)' = {store[active][i].turn : i \in DOMAIN store[active]} \union {r}
      BY <1>6, <2>1, <3>1, <3>2
    <3> QED
      BY <1>1, <1>5, <2>1, <3>3 DEF Recorded, ChatInv, TranscriptsAreWhole
  <2>2. ASSUME active \notin misfiled, NEW i \in DOMAIN store'[active], NEW j \in DOMAIN store'[active],
               store'[active][i].turn = store'[active][j].turn
        PROVE  i = j
    BY <1>1, <1>6, <2>2 DEF Entry, ChatInv, TranscriptsAreWhole
  <2>3. ASSUME NEW t \in Threads \ misfiled, t # active
        PROVE  /\ Recorded(t)' = Asked(t)'
               /\ \A i, j \in DOMAIN store'[t] : store'[t][i].turn = store'[t][j].turn => i = j
    BY <1>2, <1>5, <2>3 DEF Recorded, ChatInv, TranscriptsAreWhole
  <2> QED
    BY <1>1, <2>1, <2>2, <2>3 DEF TranscriptsAreWhole
<1>8. AnswersSettle'
  <2>1. SUFFICES ASSUME NEW b \in Turns, origin'[b] \notin misfiled, stage'[b] \notin Unsettled,
                        NEW i \in DOMAIN store'[origin'[b]], store'[origin'[b]][i].turn = b
                 PROVE  store'[origin'[b]][i].status # "streaming"
    BY <1>1 DEF AnswersSettle
  <2>2. b # r /\ stage[b] \notin Unsettled /\ origin'[b] = origin[b] /\ origin[b] \in Threads
    BY <1>3, <2>1 DEF Unsettled
  <2>3. i \in DOMAIN store[origin[b]] /\ store'[origin[b]][i] = store[origin[b]][i]
    BY <1>2, <1>6, <2>1, <2>2 DEF Entry
  <2> QED
    BY <2>1, <2>2, <2>3 DEF ChatInv, AnswersSettle
<1> QED
  BY <1>4, <1>7, <1>8

\* The other steps write no transcript, and turn no answer settled.
LEMMA OthersKeepTranscripts ==
  ASSUME ChatInv, UNCHANGED <<store, origin, misfiled>>,
         \A r \in Turns : /\ stage'[r] = "unasked" <=> stage[r] = "unasked"
                          /\ stage[r] \in Unsettled => stage'[r] \in Unsettled
  PROVE  TranscriptsAreWhole' /\ AnswersSettle'
<1>1. \A t \in Threads : Asked(t)' = Asked(t) /\ Recorded(t)' = Recorded(t)
  BY DEF Asked, Recorded
<1> QED
  BY <1>1 DEF ChatInv, TranscriptsAreWhole, AnswersSettle

LEMMA TranscriptStep ==
  ASSUME ChatInv, [Next]_chatVars
  PROVE  ScreenIsStored' /\ TranscriptsAreWhole' /\ AnswersSettle'
<1> DEFINE Goal == ScreenIsStored' /\ TranscriptsAreWhole' /\ AnswersSettle'
<1>0. /\ stage \in [Turns -> Open \union {"unasked", "cut", "over"}]
      /\ ScreenIsStored
      /\ \A t \in Unused : t \in misfiled \/ store[t] = <<>>
  BY NoStrangers DEF ChatInv, TypeOK, Unused
<1>1. ASSUME NEW r \in Turns, Ask(r) PROVE Goal
  BY <1>1, AskKeepsTranscripts
<1>2. ASSUME NEW r \in Turns, Connect(r) PROVE Goal
  BY <1>0, <1>2, OthersKeepTranscripts DEF Connect, Unsettled, ScreenIsStored
<1>3. ASSUME NEW r \in Turns, EndEvent(r) PROVE Goal
  <2>1. PICK status \in {"done", "errored"} : FinalizeWith(r, status)
    BY <1>3 DEF EndEvent
  <2> QED
    BY <1>3, <2>1, FinalizeKeepsTranscripts DEF EndEvent, Open
<1>4. ASSUME NEW r \in Turns, StreamEnds(r) PROVE Goal
  BY <1>0, <1>4, OthersKeepTranscripts DEF StreamEnds, Closed, Unsettled, ScreenIsStored
<1>5. ASSUME NEW r \in Turns, NetworkFails(r) PROVE Goal
  BY <1>5, FinalizeKeepsTranscripts DEF NetworkFails
<1>6. CASE Health
  BY <1>0, <1>6, OthersKeepTranscripts DEF Health, ScreenIsStored
<1>7. CASE NewThread
  BY <1>0, <1>7, OthersKeepTranscripts DEF NewThread, ScreenIsStored
<1>8. CASE Reload
  BY <1>0, <1>8, OthersKeepTranscripts DEF Reload, Open, Closed, Unsettled, ScreenIsStored
<1>9. ASSUME NEW t \in Threads, SelectThread(t) PROVE Goal
  BY <1>0, <1>9, OthersKeepTranscripts DEF SelectThread, ScreenIsStored
<1>10. CASE UNCHANGED chatVars
  BY <1>0, <1>10, OthersKeepTranscripts DEF chatVars, ScreenIsStored
<1> QED
  BY <1>1, <1>2, <1>3, <1>4, <1>5, <1>6, <1>7, <1>8, <1>9, <1>10 DEF Next

LEMMA ChatInvariants == Spec => []ChatInv
<1>1. Init => ChatInv
  <2> SUFFICES ASSUME Init PROVE ChatInv
    OBVIOUS
  <2>1. TypeOK /\ ScreenIsStored
    BY ChatAssumptions, EmptyTranscript DEF Init, TypeOK, ScreenIsStored, Open
  <2>2. TranscriptsAreWhole /\ AnswersSettle
    BY DEF Init, TranscriptsAreWhole, AnswersSettle, Asked, Recorded
  <2> QED
    BY <2>1, <2>2 DEF ChatInv
<1>2. ChatInv /\ [Next]_chatVars => ChatInv'
  <2> SUFFICES ASSUME ChatInv, [Next]_chatVars PROVE ChatInv'
    OBVIOUS
  <2>1. TypeOK'
    BY TypeStep DEF ChatInv
  <2> QED
    BY <2>1, TranscriptStep DEF ChatInv
<1> QED
  BY <1>1, <1>2, PTL DEF Spec

\* localStorage has all the questions of a thread, each once and no others, however answers
\* overlap and wherever other threads' answers end, unless an answer of that very thread
\* ended while another was on screen.
THEOREM TranscriptsWhole == Spec => []TranscriptsAreWhole
BY ChatInvariants, PTL DEF ChatInv

\* What is on screen is what localStorage has of the active thread, unless an answer of
\* that thread ended while another was on screen.
THEOREM ScreenStored == Spec => []ScreenIsStored
BY ChatInvariants, PTL DEF ChatInv

\* An answer that came to its end event or failed has left its typing dots in storage for
\* good, in every thread whose answers all ended on its own screen.
THEOREM AnswersSettled == Spec => []AnswersSettle
BY ChatInvariants, PTL DEF ChatInv
============================================================================
