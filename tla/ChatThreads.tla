---------------------------- MODULE ChatThreads ----------------------------
(***************************************************************************)
(* The chat page of the web app: one browser tab, its screen, the threads  *)
(* it keeps in localStorage and the answers that stream into it            *)
(* (apps/web/src/components/chat/ChatApp.tsx, lib/threads.ts, streamChat   *)
(* in lib/api.ts). Streams go on while the user switches threads, and the  *)
(* suggestion chips send while another answer still streams.               *)
(*                                                                         *)
(* A question and the bubble of its answer are one entry of a transcript:  *)
(* the turn and how far its answer is. Text, tool activity and assumptions *)
(* of a bubble are left out.                                               *)
(***************************************************************************)
EXTENDS Naturals, SequencesExt

CONSTANTS
  Turns,   \* the questions asked
  Threads  \* bound: thread ids the tab comes to use

ASSUME ChatAssumptions == Threads # {}

VARIABLES
  active,     \* threadId: the thread on screen
  screen,     \* messages: the transcript on screen
  store,      \* store[t]: the messages of thread t in localStorage, none if it has no record
  sending,    \* is the input disabled because an answer is on its way
  backendOk,  \* the last verdict on the backend: "unknown", "up", "down"
  stage,      \* stage[r]: where the stream of turn r is
  origin,     \* origin[r]: activeThreadId, the thread r was asked in
  misfiled    \* history: the threads an answer of which ended under another thread's screen

chatVars == <<active, screen, store, sending, backendOk, stage, origin, misfiled>>

Status == {"streaming", "done", "errored"}
Open == {"asking", "streaming", "settled"}
\* No end event and no failure has reached the bubble: the stream is on, or was cut off.
Unsettled == {"asking", "streaming", "cut"}
Entry(r, status) == [turn |-> r, status |-> status]

Init ==
  /\ active \in Threads
  /\ screen = <<>>
  /\ store = [t \in Threads |-> <<>>]
  /\ sending = FALSE
  /\ backendOk = "unknown"
  /\ stage = [r \in Turns |-> "unasked"]
  /\ origin = [r \in Turns |-> active]
  /\ misfiled = {}

----------------------------------------------------------------------------
\* ChatInput's `disabled`.
InputDisabled == sending \/ backendOk = "down"

\* BackendDownBanner, whose retry is probeHealth.
BannerShown == backendOk = "down"

\* The input box, or a chip: those of the empty screen, or under an answer.
CanAsk ==
  \/ ~InputDisabled
  \/ screen = <<>>
  \/ \E i \in DOMAIN screen : screen[i].status = "done"

\* send, up to its await: the question and a placeholder go on screen and into storage.
Ask(r) ==
  /\ stage[r] = "unasked"
  /\ CanAsk
  /\ stage' = [stage EXCEPT ![r] = "asking"]
  /\ origin' = [origin EXCEPT ![r] = active]
  /\ screen' = Append(screen, Entry(r, "streaming"))
  /\ store' = [store EXCEPT ![active] = screen']
  /\ sending' = TRUE
  /\ UNCHANGED <<active, backendOk, misfiled>>

\* The session token is there, the POST is accepted and streams.
Connect(r) ==
  /\ stage[r] = "asking"
  /\ stage' = [stage EXCEPT ![r] = "streaming"]
  /\ UNCHANGED <<active, screen, store, sending, backendOk, origin, misfiled>>

\* The screen with the bubble of r, if it is there, in this status.
Updated(r, status) ==
  [i \in DOMAIN screen |-> IF screen[i].turn = r THEN Entry(r, status) ELSE screen[i]]

\* Mutant: the transcript as it was when r was asked, captured by its closure.
FinalizeWithCaptured(r, status) ==
  /\ screen' = SelectSeq(Updated(r, status), LAMBDA m : m.turn = r \/ m.status # "streaming")
  /\ store' = [store EXCEPT ![origin[r]] = screen']
  /\ misfiled' = misfiled \union ({origin[r]} \ {active})

\* Mutant: the screen is updated and not persisted.
FinalizeWithoutPersist(r, status) ==
  /\ screen' = Updated(r, status)
  /\ misfiled' = misfiled \union ({origin[r]} \ {active})
  /\ UNCHANGED store

\* finalizeWith: whatever is on screen is persisted as the thread r was asked in.
FinalizeWith(r, status) ==
  /\ screen' = Updated(r, status)
  /\ store' = [store EXCEPT ![origin[r]] = screen']
  /\ misfiled' = misfiled \union ({origin[r]} \ {active})

\* The done event, or the error event; a refused POST counts as an error event.
EndEvent(r) ==
  /\ \/ stage[r] = "streaming" /\ \E status \in {"done", "errored"} : FinalizeWith(r, status)
     \/ stage[r] = "asking" /\ FinalizeWith(r, "errored")
  /\ stage' = [stage EXCEPT ![r] = "settled"]
  /\ UNCHANGED <<active, sending, backendOk, origin>>

\* What a stream is once nothing more comes of it.
Closed == [asking |-> "cut", streaming |-> "cut", settled |-> "over"]

\* Mutant: the input is given back only after an end event.
StreamEndsSettled(r) ==
  /\ stage[r] \in {"streaming", "settled"}
  /\ stage' = [stage EXCEPT ![r] = Closed[stage[r]]]
  /\ sending' = (stage[r] = "streaming")
  /\ UNCHANGED <<active, screen, store, backendOk, origin, misfiled>>

\* The response body ends, with or without an end event; send's finally.
StreamEnds(r) ==
  /\ stage[r] \in {"streaming", "settled"}
  /\ stage' = [stage EXCEPT ![r] = Closed[stage[r]]]
  /\ sending' = FALSE
  /\ UNCHANGED <<active, screen, store, backendOk, origin, misfiled>>

\* The token, the fetch or a read of the body fails: send's catch and finally.
NetworkFails(r) ==
  /\ stage[r] \in Open
  /\ FinalizeWith(r, "errored")
  /\ stage' = [stage EXCEPT ![r] = "over"]
  /\ backendOk' = "down"
  /\ sending' = FALSE
  /\ UNCHANGED <<active, origin>>

\* checkHealth answers, on mount or after the banner's retry.
Health ==
  /\ backendOk' \in {"up", "down"} /\ backendOk' # backendOk
  /\ UNCHANGED <<active, screen, store, sending, stage, origin, misfiled>>

\* The threads with a record in localStorage: the first question asked in one makes it.
Listed == {origin[r] : r \in {q \in Turns : stage[q] # "unasked"}}

\* uuidv4: an id of no thread so far.
Unused == Threads \ (Listed \union {active})

\* handleNewThread: a fresh id and an empty screen.
NewThread ==
  /\ active' \in Unused
  /\ screen' = <<>>
  /\ UNCHANGED <<store, sending, backendOk, stage, origin, misfiled>>

\* Mutant: the thread changes under the screen that is there.
SelectThreadOnly(t) ==
  /\ t \in Listed
  /\ active' = t
  /\ UNCHANGED <<screen, store, sending, backendOk, stage, origin, misfiled>>

\* handleSelectThread: what localStorage has of a thread goes on screen.
SelectThread(t) ==
  /\ t \in Listed
  /\ active' = t
  /\ screen' = store[t]
  /\ UNCHANGED <<store, sending, backendOk, stage, origin, misfiled>>

\* The page is reloaded: its streams are gone, localStorage is not.
Reload ==
  /\ active' \in Unused
  /\ screen' = <<>>
  /\ sending' = FALSE
  /\ backendOk' = "unknown"
  /\ stage' = [r \in Turns |-> IF stage[r] \in Open THEN Closed[stage[r]] ELSE stage[r]]
  /\ UNCHANGED <<store, origin, misfiled>>

Next ==
  \/ \E r \in Turns : Ask(r) \/ Connect(r) \/ EndEvent(r) \/ StreamEnds(r) \/ NetworkFails(r)
  \/ Health \/ NewThread \/ Reload
  \/ \E t \in Threads : SelectThread(t)

Spec == Init /\ [][Next]_chatVars

----------------------------------------------------------------------------
Transcript == Seq([turn : Turns, status : Status])

TypeOK ==
  /\ active \in Threads
  /\ screen \in Transcript
  /\ store \in [Threads -> Transcript]
  /\ sending \in BOOLEAN
  /\ backendOk \in {"unknown", "up", "down"}
  /\ stage \in [Turns -> Open \union {"unasked", "cut", "over"}]
  /\ origin \in [Turns -> Threads]
  /\ misfiled \subseteq Threads

Asked(t) == {r \in Turns : stage[r] # "unasked" /\ origin[r] = t}
Recorded(t) == {store[t][i].turn : i \in DOMAIN store[t]}

\* localStorage has the questions of a thread, all of them, each once and none of another
\* thread, however answers overlap and wherever other threads' answers end: only an answer
\* of its own that ends while another thread is on screen can spoil it.
TranscriptsAreWhole ==
  \A t \in Threads \ misfiled :
    /\ Recorded(t) = Asked(t)
    /\ \A i, j \in DOMAIN store[t] : store[t][i].turn = store[t][j].turn => i = j

\* The screen is what is stored of the thread it shows, unless an answer of that thread
\* has ended while another was on screen: an answer of another thread that ends now
\* (ChatApp's finalizeWith) changes neither.
ScreenIsStored == active \notin misfiled => screen = store[active]

\* An answer that came to its end event, or failed, is not left as typing dots in storage,
\* nor turned back into them by what is asked or ends later, in a thread whose answers
\* all ended on its own screen. A body that is cut off without an end event is "cut",
\* not settled: its dots do stay.
AnswersSettle ==
  \A r \in Turns : origin[r] \notin misfiled /\ stage[r] \notin Unsettled =>
    \A i \in DOMAIN store[origin[r]] :
      store[origin[r]][i].turn = r => store[origin[r]][i].status # "streaming"

\* The input is disabled only while some answer is on its way or, when none is, under the
\* banner that says the backend is down and offers to try again: no way a stream ends,
\* and no switch or reload, locks the user out without a word (send's finally).
InputUnlocks ==
  InputDisabled => (\E r \in Turns : stage[r] \in Open) \/ (BannerShown /\ ~sending)

\* "a thread's local cache is what lets switching back to it show a transcript instantly"
\* (apps/web/README.md:31-32), so it holds that thread's questions, wherever streams end.
SwitchingBackShowsTranscript == \A t \in Threads : Recorded(t) = Asked(t)
============================================================================
