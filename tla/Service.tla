------------------------------ MODULE Service ------------------------------
(***************************************************************************)
(* The instances of the agent service, what each decides once when it      *)
(* boots (services/agent/main.py: lifespan, _build_checkpointer;           *)
(* query_log.py: ensure_table) and what the turns of one thread keep in    *)
(* their hands afterwards (checkpointer.py, db.py: with_stale_retry;       *)
(* query_log.py: record). Turns follow each other, AgentTurn is about what *)
(* happens inside one and about turns that overlap.                        *)
(*                                                                         *)
(* External: Cloud Run starts and stops instances and sends a turn to any; *)
(* Neon is reachable or not, a statement may lose its connection before or *)
(* after it took effect; the savers of LangGraph key a checkpoint by its   *)
(* id, so that a second put of it changes nothing. Pools open without a    *)
(* connection (db_pool_min_size = 0), so an instance boots either way.     *)
(***************************************************************************)
EXTENDS Naturals, Sequences, SequencesExt

CONSTANTS
  Instances,   \* --max-instances
  Turns,       \* how many questions the thread gets
  MaxTroubles  \* bound: outages, dropped connections, stopped instances

ASSUME ServiceAssumptions ==
  /\ Turns \in Nat \ {0} /\ MaxTroubles \in Nat
  /\ "postgres" \notin Instances /\ "nobody" \notin Instances /\ "gone" \notin Instances

VARIABLES
  up,        \* Neon is reachable
  stored,    \* the thread's checkpoints in Postgres: the turns, in order
  audit,     \* audit[t]: rows of turn t in `queries`
  stage,     \* stage[i]: "down", boot steps "saver" and "log", or "serving"
  saver,     \* saver[i]: checkpointer_kind
  logging,   \* logging[i]: query_log.enabled
  ram,       \* ram[i]: the thread in the MemorySaver of i
  turn,      \* the question at hand
  at,        \* "asked", "load", "save", "log", and "end" after the last
  on,        \* the instance that serves it
  retried,   \* the checkpoint operation is on its second attempt
  keeper,    \* history - keeper[t]: who keeps answered turn t: "postgres", an instance
             \* in its memory, or "gone" with it; "nobody": not answered
  forgot,    \* history - <<keeper of a turn, keeper now>> when an answered turn was missing
  unlogged,  \* history - the answered turns whose row had an excuse to be missing
  listing,   \* an alist of the thread's checkpoints: on a snapshot, up to a place
  troubles

boot == <<stage, saver, logging, ram>>
serve == <<turn, at, on, retried>>
history == <<keeper, forgot, unlogged>>
serviceVars == <<up, stored, audit, boot, serve, history, listing, troubles>>

T == 1 .. Turns
NoListing == [snapshot |-> <<>>, next |-> 1, got |-> <<>>, state |-> "over"]

Init ==
  /\ up = TRUE /\ stored = <<>>
  /\ audit = [t \in T |-> 0]
  /\ stage = [i \in Instances |-> "down"]
  /\ saver = [i \in Instances |-> "memory"]
  /\ logging = [i \in Instances |-> FALSE]
  /\ ram = [i \in Instances |-> <<>>]
  /\ turn = 1 /\ at = "asked" /\ on = "nobody" /\ retried = FALSE
  /\ keeper = [t \in T |-> "nobody"] /\ forgot = {} /\ unlogged = {}
  /\ listing = NoListing
  /\ troubles = 0

Trouble == troubles < MaxTroubles /\ troubles' = troubles + 1

\* One statement: it took effect, and the caller knows. A connection that drops leaves
\* either open; with Neon out of reach neither is the case.
Attempt(applied, known) ==
  \/ up /\ applied /\ known /\ UNCHANGED troubles
  \/ up /\ ~known /\ Trouble
  \/ ~up /\ ~applied /\ ~known /\ UNCHANGED troubles

----------------------------------------------------------------------------
\* lifespan up to the pools, which open lazily.
Start(i) ==
  /\ stage[i] = "down"
  /\ stage' = [stage EXCEPT ![i] = "saver"]
  /\ UNCHANGED <<up, stored, audit, saver, logging, ram, serve, history, listing, troubles>>

\* _build_checkpointer: setup works, or this instance keeps its threads in memory.
BuildSaver(i) ==
  /\ stage[i] = "saver"
  /\ \E applied, known \in BOOLEAN :
       /\ Attempt(applied, known)
       /\ saver' = [saver EXCEPT ![i] = IF known THEN "postgres" ELSE "memory"]
  /\ stage' = [stage EXCEPT ![i] = "log"]
  /\ UNCHANGED <<up, stored, audit, logging, ram, serve, history, listing>>

\* ensure_table: the table is there, or this instance logs nothing as long as it lives.
EnsureTable(i) ==
  /\ stage[i] = "log"
  /\ \E applied, known \in BOOLEAN :
       Attempt(applied, known) /\ logging' = [logging EXCEPT ![i] = known]
  /\ stage' = [stage EXCEPT ![i] = "serving"]
  /\ UNCHANGED <<up, stored, audit, saver, ram, serve, history, listing>>

\* The next question, or the end of the conversation.
NextTurn ==
  /\ on' = "nobody" /\ retried' = FALSE
  /\ IF turn < Turns THEN turn' = turn + 1 /\ at' = "asked"
     ELSE UNCHANGED turn /\ at' = "end"

Ask(i) ==
  /\ at = "asked" /\ stage[i] = "serving"
  /\ on' = i /\ at' = "load"
  /\ UNCHANGED <<up, stored, audit, boot, turn, retried, history, listing, troubles>>

\* The turn gets this history. History: which answered turns it lacks.
Loads(i, thread, by) ==
  /\ forgot' = forgot \union
       {<<keeper[t], by>> : t \in {s \in 1 .. (turn - 1) : keeper[s] # "nobody" /\ ~Contains(thread, s)}}
  /\ at' = "save" /\ retried' = FALSE
  /\ UNCHANGED <<turn, on, keeper, unlogged>>

\* The second attempt fails, too: the turn ends in an error, and in a row that says so.
TurnFails == at' = "log" /\ retried' = FALSE /\ UNCHANGED <<turn, on, history>>

\* Mutant: the history is asked for until it comes.
LoadUntilItComes ==
  /\ at = "load"
  /\ IF saver[on] = "memory"
     THEN Loads(on, ram[on], on) /\ UNCHANGED troubles
     ELSE \E applied \in BOOLEAN :
            Attempt(applied, TRUE) /\ Loads(on, stored, "postgres")
  /\ UNCHANGED <<up, stored, audit, boot, listing>>

\* aget_tuple, with its retry.
Load ==
  /\ at = "load"
  /\ IF saver[on] = "memory"
     THEN Loads(on, ram[on], on) /\ UNCHANGED troubles
     ELSE \E applied, known \in BOOLEAN :
            /\ Attempt(applied, known)
            /\ IF known THEN Loads(on, stored, "postgres")
               ELSE IF retried THEN TurnFails
               ELSE retried' = TRUE /\ UNCHANGED <<turn, at, on, history>>
  /\ UNCHANGED <<up, stored, audit, boot, listing>>

\* The turn is answered and kept here.
Answered(by) ==
  /\ keeper' = [keeper EXCEPT ![turn] = by]
  /\ at' = "log" /\ retried' = FALSE
  /\ UNCHANGED <<turn, on, forgot, unlogged>>

Put(thread) == IF Contains(thread, turn) THEN thread ELSE Append(thread, turn)

\* Mutant: a checkpoint that cannot be written does not fail the answer.
SaveBestEffort ==
  /\ at = "save"
  /\ IF saver[on] = "memory"
     THEN ram' = [ram EXCEPT ![on] = Put(@)] /\ Answered(on) /\ UNCHANGED <<stored, troubles>>
     ELSE /\ \E applied, known \in BOOLEAN :
               /\ Attempt(applied, known)
               /\ stored' = IF applied THEN Put(stored) ELSE stored
          /\ Answered("postgres") /\ UNCHANGED ram
  /\ UNCHANGED <<up, audit, stage, saver, logging, listing>>

\* aput and aput_writes, with their retry: a second put of what took effect changes nothing.
Save ==
  /\ at = "save"
  /\ IF saver[on] = "memory"
     THEN ram' = [ram EXCEPT ![on] = Put(@)] /\ Answered(on) /\ UNCHANGED <<stored, troubles>>
     ELSE /\ \E applied, known \in BOOLEAN :
               /\ Attempt(applied, known)
               /\ stored' = IF applied THEN Put(stored) ELSE stored
               /\ IF known THEN Answered("postgres")
                  ELSE IF retried THEN TurnFails
                  ELSE retried' = TRUE /\ UNCHANGED <<turn, at, on, history>>
          /\ UNCHANGED ram
  /\ UNCHANGED <<up, audit, stage, saver, logging, listing>>

\* Mutant: the INSERT is repeated like a read.
RecordTwice ==
  /\ at = "log"
  /\ \E applied, known \in BOOLEAN :
       /\ Attempt(applied, known)
       /\ audit' = [audit EXCEPT ![turn] = @ + (IF applied THEN 1 ELSE 0)]
       /\ IF known \/ retried
          THEN NextTurn /\ unlogged' = IF known THEN unlogged ELSE unlogged \union {turn}
          ELSE retried' = TRUE /\ UNCHANGED <<turn, at, on, unlogged>>
  /\ UNCHANGED <<up, stored, boot, keeper, forgot, listing>>

\* record: one attempt, and an answer never fails because of it.
Record ==
  /\ at = "log"
  /\ IF logging[on]
     THEN \E applied, known \in BOOLEAN :
            /\ Attempt(applied, known)
            /\ audit' = [audit EXCEPT ![turn] = @ + (IF applied THEN 1 ELSE 0)]
            /\ unlogged' = IF known THEN unlogged ELSE unlogged \union {turn}
     ELSE UNCHANGED <<audit, troubles>> /\ unlogged' = unlogged \union {turn}
  /\ NextTurn
  /\ UNCHANGED <<up, stored, boot, keeper, forgot, listing>>

\* The instance is stopped, with its memory and the turn it serves.
Stop(i) ==
  /\ stage[i] # "down" /\ Trouble
  /\ stage' = [stage EXCEPT ![i] = "down"]
  /\ ram' = [ram EXCEPT ![i] = <<>>]
  /\ keeper' = [t \in T |-> IF keeper[t] = i THEN "gone" ELSE keeper[t]]
  /\ IF on = i THEN NextTurn /\ unlogged' = unlogged \union {turn}
     ELSE UNCHANGED <<serve, unlogged>>
  /\ UNCHANGED <<up, stored, audit, saver, logging, forgot, listing>>

Outage == up /\ Trouble /\ up' = FALSE
          /\ UNCHANGED <<stored, audit, boot, serve, history, listing>>

Return == ~up /\ up' = TRUE
          /\ UNCHANGED <<stored, audit, boot, serve, history, listing, troubles>>

\* alist: a SELECT of the checkpoints, consumed one by one.
List ==
  /\ listing.state = "over" /\ up
  /\ listing' = [snapshot |-> stored, next |-> 1, got |-> <<>>, state |-> "first"]
  /\ UNCHANGED <<up, stored, audit, boot, serve, history, troubles>>

ListItem ==
  /\ listing.state \in {"first", "second"} /\ up
  /\ LET l == listing IN
       listing' = IF l.next <= Len(l.snapshot)
                  THEN [l EXCEPT !.next = @ + 1, !.got = Append(@, l.snapshot[l.next])]
                  ELSE [l EXCEPT !.state = "over"]
  /\ UNCHANGED <<up, stored, audit, boot, serve, history, troubles>>

\* Mutant: restarted whatever the caller already has.
MayRestartAnyway == listing.state = "first"

\* Nothing was yielded yet.
MayRestart == listing.state = "first" /\ listing.got = <<>>

\* The connection of the listing dies: restarted once, or the caller gets the error.
ListDies ==
  /\ listing.state \in {"first", "second"}
  /\ IF up THEN Trouble ELSE UNCHANGED troubles
  /\ listing' = IF MayRestart /\ up
                THEN [listing EXCEPT !.snapshot = stored, !.next = 1, !.state = "second"]
                ELSE [listing EXCEPT !.state = "over"]
  /\ UNCHANGED <<up, stored, audit, boot, serve, history>>

Proceed(i) == Start(i) \/ BuildSaver(i) \/ EnsureTable(i) \/ Ask(i)
Serve == Load \/ Save \/ Record

Next ==
  \/ \E i \in Instances : Proceed(i) \/ Stop(i)
  \/ Serve \/ Outage \/ Return \/ List \/ ListItem \/ ListDies

Spec == Init /\ [][Next]_serviceVars

\* Cloud Run starts an instance for a question that waits, and requests are served.
FairSpec == Spec /\ \A i \in Instances : WF_serviceVars(Proceed(i)) /\ WF_serviceVars(Serve)

----------------------------------------------------------------------------
TypeOK ==
  /\ up \in BOOLEAN /\ stored \in Seq(T) /\ audit \in [T -> Nat]
  /\ stage \in [Instances -> {"down", "saver", "log", "serving"}]
  /\ saver \in [Instances -> {"memory", "postgres"}]
  /\ logging \in [Instances -> BOOLEAN] /\ ram \in [Instances -> Seq(T)]
  /\ turn \in T /\ at \in {"asked", "load", "save", "log", "end"}
  /\ on \in Instances \union {"nobody"} /\ retried \in BOOLEAN
  /\ keeper \in [T -> Instances \union {"postgres", "gone", "nobody"}]
  /\ forgot \subseteq (Instances \union {"postgres", "gone"}) \X (Instances \union {"postgres"})
  /\ unlogged \subseteq T /\ troubles \in 0 .. MaxTroubles

\* A question builds on every answered one before it, through restarts, outages and lost
\* acknowledgements, unless one of the two was kept by an instance that fell back to memory
\* ("crash-safe state persistence", docs/design.md).
OnlyMemoryForgets == \A p \in forgot : p[1] # p[2]

\* The audit trail: an answered turn has one row, never two, and none only when its
\* instance could not log or the one attempt failed (query_log.py).
OneRowPerAnswer ==
  /\ \A t \in T : audit[t] <= 1
  /\ \A t \in T : keeper[t] # "nobody" /\ (t < turn \/ at = "end") =>
       audit[t] = 1 \/ t \in unlogged

\* A listing hands out no checkpoint twice ("restarting a partly-consumed stream would
\* duplicate history", checkpointer.py).
ListingNeverReplays == IsInjective(listing.got)

\* Whatever is down: every question of the thread comes to its end.
ConversationEnds == <>(at = "end")
============================================================================
