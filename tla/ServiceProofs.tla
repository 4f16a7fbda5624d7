---------------------------- MODULE ServiceProofs ----------------------------
(***************************************************************************)
(* Theorems about Service for any number of instances, questions and       *)
(* troubles: what is forgotten was in somebody's memory, an answer has one *)
(* row in the audit trail, and a listing replays nothing.                  *)
(***************************************************************************)
EXTENDS Service, TLAPS

Busy == at \in {"load", "save", "log"}

\* A turn under way is on an instance that serves, and no other turn is anywhere.
ServingInv ==
  /\ Busy => on \in Instances /\ stage[on] = "serving"
  /\ ~Busy => on = "nobody"

\* Whoever is said to keep an answered turn has it.
KeptInv ==
  \A t \in T :
    /\ keeper[t] = "postgres" => Contains(stored, t)
    /\ keeper[t] \in Instances => Contains(ram[keeper[t]], t)

\* A turn has no row before it is recorded and no answer before it is saved.
RowsInv ==
  /\ \A t \in T : t > turn => audit[t] = 0 /\ keeper[t] = "nobody"
  /\ at # "end" => audit[turn] = 0
  /\ at \notin {"log", "end"} => keeper[turn] = "nobody"
  /\ OneRowPerAnswer

\* A listing has got the beginning of its snapshot, and the keys of a snapshot are unique.
ListingInv ==
  /\ listing.snapshot \in Seq(T) /\ listing.got \in Seq(T)
  /\ listing.next \in Nat \ {0}
  /\ listing = [snapshot |-> listing.snapshot, next |-> listing.next,
                got |-> listing.got, state |-> listing.state]
  /\ IsInjective(stored) /\ IsInjective(listing.snapshot)
  /\ Len(listing.got) = listing.next - 1 /\ Len(listing.got) <= Len(listing.snapshot)
  /\ \A n \in 1 .. Len(listing.got) : listing.got[n] = listing.snapshot[n]

\* What the turns of the thread rest on; the listing looks at it from outside.
ThreadInv == TypeOK /\ ServingInv /\ KeptInv /\ RowsInv /\ OnlyMemoryForgets

ServiceInv == ThreadInv /\ ListingInv

LEMMA TurnNumbers == T \subseteq Nat /\ 1 \in T /\ \A t \in T : t < Turns => t + 1 \in T
BY ServiceAssumptions DEF T

----------------------------------------------------------------------------
\* A put keeps what is there, adds the turn and never adds it twice.
LEMMA PutAdds ==
  ASSUME NEW thread \in Seq(T), turn \in T
  PROVE  /\ Put(thread) \in Seq(T)
         /\ Contains(Put(thread), turn)
         /\ \A t \in T : Contains(thread, t) => Contains(Put(thread), t)
         /\ IsInjective(thread) => IsInjective(Put(thread))
<1>1. CASE Contains(thread, turn)
  BY <1>1 DEF Put
<1>2. CASE ~Contains(thread, turn)
  <2> DEFINE longer == Append(thread, turn)
  <2>1. Put(thread) = longer
    BY <1>2 DEF Put
  <2>2. /\ longer \in Seq(T) /\ Len(longer) = Len(thread) + 1
        /\ longer[Len(thread) + 1] = turn
        /\ \A n \in 1 .. Len(thread) : longer[n] = thread[n]
    OBVIOUS
  <2>3. Len(thread) \in Nat /\ DOMAIN longer = 1 .. (Len(thread) + 1)
        /\ DOMAIN thread = 1 .. Len(thread)
    BY <2>2
  <2>4. \A n \in 1 .. Len(thread) : thread[n] # turn
    BY <1>2 DEF Contains
  <2> HIDE DEF longer
  <2>5. Contains(longer, turn)
    BY <2>2, <2>3 DEF Contains
  <2>6. \A t \in T : Contains(thread, t) => Contains(longer, t)
    BY <2>2, <2>3 DEF Contains
  <2>7. IsInjective(thread) => IsInjective(longer)
    BY <2>2, <2>3, <2>4 DEF IsInjective
  <2> QED
    BY <2>1, <2>2, <2>5, <2>6, <2>7
<1> QED
  BY <1>1, <1>2

\* Who knows that a statement took effect is right; troubles stay within their bound.
LEMMA AttemptTells ==
  ASSUME TypeOK, NEW applied \in BOOLEAN, NEW known \in BOOLEAN, Attempt(applied, known)
  PROVE  (known => applied) /\ troubles' \in 0 .. MaxTroubles
BY ServiceAssumptions DEF TypeOK, Attempt, Trouble

\* After a turn comes the next one, which has no row and no answer yet.
LEMMA NextTurnFacts ==
  ASSUME TypeOK, NextTurn
  PROVE  /\ turn' \in T /\ at' \in {"asked", "end"} /\ on' = "nobody" /\ retried' = FALSE
         /\ at' = "asked" => turn' = turn + 1
         /\ at' = "end" => turn' = turn /\ turn = Turns
BY TurnNumbers, ServiceAssumptions DEF TypeOK, NextTurn, T

\* The rows survive a step to the next turn that leaves the finished one with at most one
\* row, and with an excuse if it was answered and has none.
LEMMA NextTurnRows ==
  ASSUME TypeOK, RowsInv, NextTurn, at # "end",
         audit' \in [T -> Nat], audit'[turn] <= 1,
         \A t \in T \ {turn} : audit'[t] = audit[t],
         \A t \in T : keeper'[t] # "nobody" <=> keeper[t] # "nobody",
         unlogged \subseteq unlogged',
         audit'[turn] = 1 \/ turn \in unlogged'
  PROVE  RowsInv'
<1>1. /\ turn' \in T /\ at' \in {"asked", "end"}
      /\ at' = "asked" => turn' = turn + 1
      /\ at' = "end" => turn' = turn /\ turn = Turns
  BY NextTurnFacts
<1>2. turn \in T /\ \A t \in T : t \in Nat /\ t <= Turns
  BY DEF TypeOK, T
<1>3. ASSUME NEW t \in T, t > turn'
      PROVE  audit'[t] = 0 /\ keeper'[t] = "nobody"
  BY <1>1, <1>2, <1>3 DEF RowsInv
<1>4. at' # "end" => audit'[turn'] = 0 /\ keeper'[turn'] = "nobody"
  BY <1>1, <1>2 DEF RowsInv
<1>5. \A t \in T : audit'[t] <= 1
  BY <1>2 DEF RowsInv, OneRowPerAnswer
<1>6. ASSUME NEW t \in T, keeper'[t] # "nobody", t < turn' \/ at' = "end"
      PROVE  audit'[t] = 1 \/ t \in unlogged'
  <2>1. CASE t = turn
    BY <2>1
  <2>2. CASE t # turn
    <3>1. t < turn
      BY <1>1, <1>2, <1>6, <2>2
    <3> QED
      BY <1>6, <2>2, <3>1 DEF RowsInv, OneRowPerAnswer
  <2> QED
    BY <2>1, <2>2
<1> QED
  BY <1>1, <1>3, <1>4, <1>5, <1>6 DEF RowsInv, OneRowPerAnswer

----------------------------------------------------------------------------
\* Steps of an instance that boots, of Neon and of a listing leave the turns alone.
LEMMA TurnsAlone ==
  ASSUME ThreadInv, UNCHANGED <<stored, audit, ram, serve, history>>,
         up' \in BOOLEAN, troubles' \in 0 .. MaxTroubles,
         saver' \in [Instances -> {"memory", "postgres"}],
         logging' \in [Instances -> BOOLEAN],
         stage' \in [Instances -> {"down", "saver", "log", "serving"}],
         \A i \in Instances : stage[i] = "serving" => stage'[i] = "serving"
  PROVE  ThreadInv'
<1> USE DEF ThreadInv, serve, history
<1>1. TypeOK'
  BY DEF TypeOK
<1>2. ServingInv'
  BY DEF ServingInv, Busy
<1>3. KeptInv'
  BY DEF KeptInv
<1>4. RowsInv'
  BY DEF RowsInv, OneRowPerAnswer
<1>5. OnlyMemoryForgets'
  BY DEF OnlyMemoryForgets
<1> QED
  BY <1>1, <1>2, <1>3, <1>4, <1>5

LEMMA BootStep ==
  ASSUME ThreadInv, NEW i \in Instances, Start(i) \/ BuildSaver(i) \/ EnsureTable(i)
  PROVE  ThreadInv'
<1>1. CASE Start(i)
  <2>1. /\ stage' \in [Instances -> {"down", "saver", "log", "serving"}]
        /\ \A k \in Instances : stage[k] = "serving" => stage'[k] = "serving"
    BY <1>1 DEF Start, ThreadInv, TypeOK
  <2> QED
    BY <1>1, <2>1, TurnsAlone DEF Start, ThreadInv, TypeOK
<1>2. CASE BuildSaver(i)
  <2>1. PICK applied \in BOOLEAN, known \in BOOLEAN :
          /\ Attempt(applied, known)
          /\ saver' = [saver EXCEPT ![i] = IF known THEN "postgres" ELSE "memory"]
    BY <1>2 DEF BuildSaver
  <2>2. saver' \in [Instances -> {"memory", "postgres"}]
    BY <2>1 DEF ThreadInv, TypeOK
  <2>3. troubles' \in 0 .. MaxTroubles
    BY <2>1, AttemptTells DEF ThreadInv
  <2>4. /\ stage' \in [Instances -> {"down", "saver", "log", "serving"}]
        /\ \A k \in Instances : stage[k] = "serving" => stage'[k] = "serving"
    BY <1>2 DEF BuildSaver, ThreadInv, TypeOK
  <2> QED
    BY <1>2, <2>2, <2>3, <2>4, TurnsAlone DEF BuildSaver, ThreadInv, TypeOK
<1>3. CASE EnsureTable(i)
  <2>1. PICK applied \in BOOLEAN, known \in BOOLEAN :
          Attempt(applied, known) /\ logging' = [logging EXCEPT ![i] = known]
    BY <1>3 DEF EnsureTable
  <2>2. logging' \in [Instances -> BOOLEAN]
    BY <2>1 DEF ThreadInv, TypeOK
  <2>3. troubles' \in 0 .. MaxTroubles
    BY <2>1, AttemptTells DEF ThreadInv
  <2>4. /\ stage' \in [Instances -> {"down", "saver", "log", "serving"}]
        /\ \A k \in Instances : stage[k] = "serving" => stage'[k] = "serving"
    BY <1>3 DEF EnsureTable, ThreadInv, TypeOK
  <2> QED
    BY <1>3, <2>2, <2>3, <2>4, TurnsAlone DEF EnsureTable, ThreadInv, TypeOK
<1> QED
  BY <1>1, <1>2, <1>3

\* Outage, Return, and the steps of a listing.
LEMMA AroundStep ==
  ASSUME ThreadInv, Outage \/ Return \/ List \/ ListItem \/ ListDies \/ UNCHANGED serviceVars
  PROVE  ThreadInv'
<1>1. /\ UNCHANGED <<stored, audit, stage, saver, logging, ram, serve, history>>
      /\ up' \in BOOLEAN
      /\ troubles' = troubles \/ Trouble
  BY DEF ThreadInv, TypeOK, Outage, Return, List, ListItem, ListDies, serviceVars, boot
<1>2. troubles' \in 0 .. MaxTroubles
  BY <1>1, ServiceAssumptions DEF ThreadInv, TypeOK, Trouble
<1> QED
  BY <1>1, <1>2, TurnsAlone DEF ThreadInv, TypeOK

LEMMA AskStep ==
  ASSUME ThreadInv, NEW i \in Instances, Ask(i)
  PROVE  ThreadInv'
<1> USE DEF ThreadInv, Ask, boot, history
<1>1. TypeOK'
  BY DEF TypeOK
<1>2. ServingInv'
  BY DEF ServingInv, Busy
<1>3. KeptInv'
  BY DEF KeptInv
<1>4. RowsInv'
  BY DEF RowsInv, OneRowPerAnswer
<1>5. OnlyMemoryForgets'
  BY DEF OnlyMemoryForgets
<1> QED
  BY <1>1, <1>2, <1>3, <1>4, <1>5

----------------------------------------------------------------------------
\* A history that a keeper hands out has everything he is said to keep.
LEMMA LoadsForgets ==
  ASSUME ThreadInv, NEW by \in Instances \union {"postgres"}, NEW thread, at = "load",
         Loads(on, thread, by),
         \A t \in T : keeper[t] = by => Contains(thread, t)
  PROVE  /\ OnlyMemoryForgets'
         /\ forgot' \subseteq (Instances \union {"postgres", "gone"}) \X (Instances \union {"postgres"})
<1> DEFINE missing == {s \in 1 .. (turn - 1) : keeper[s] # "nobody" /\ ~Contains(thread, s)}
<1>1. \A p \in forgot' : p \in forgot \/ \E t \in missing : p = <<keeper[t], by>>
  BY DEF Loads
<1>2. \A t \in missing : t \in T
  BY ServiceAssumptions DEF ThreadInv, TypeOK, T
<1>3. ASSUME NEW t \in missing
      PROVE  keeper[t] # by /\ keeper[t] \in Instances \union {"postgres", "gone"}
  <2>1. t \in T /\ keeper[t] # "nobody" /\ ~Contains(thread, t)
    BY <1>2
  <2> QED
    BY <2>1 DEF ThreadInv, TypeOK
<1> HIDE DEF missing
<1>4. \A p \in forgot' \ forgot :
         /\ p[1] # p[2]
         /\ p \in (Instances \union {"postgres", "gone"}) \X (Instances \union {"postgres"})
  BY <1>1, <1>3
<1> QED
  BY <1>4 DEF ThreadInv, TypeOK, OnlyMemoryForgets

LEMMA LoadStep ==
  ASSUME ThreadInv, Load
  PROVE  ThreadInv'
<1>1. /\ at = "load" /\ UNCHANGED <<up, stored, audit, stage, saver, logging, ram>>
      /\ on \in Instances /\ stage[on] = "serving"
  BY DEF ThreadInv, ServingInv, Busy, Load, boot
<1>2. troubles' \in 0 .. MaxTroubles
  BY AttemptTells DEF Load, ThreadInv, TypeOK
<1>3. /\ UNCHANGED <<turn, on, keeper, unlogged>> /\ at' \in {"load", "save", "log"}
      /\ retried' \in BOOLEAN
  BY <1>1 DEF Load, Loads, TurnFails, history
<1>4. /\ OnlyMemoryForgets'
      /\ forgot' \subseteq (Instances \union {"postgres", "gone"}) \X (Instances \union {"postgres"})
  <2>1. CASE Loads(on, ram[on], on)
    <3>1. \A t \in T : keeper[t] = on => Contains(ram[on], t)
      BY <1>1 DEF ThreadInv, KeptInv
    <3> QED
      BY <1>1, <2>1, <3>1, LoadsForgets
  <2>2. CASE Loads(on, stored, "postgres")
    <3>1. \A t \in T : keeper[t] = "postgres" => Contains(stored, t)
      BY DEF ThreadInv, KeptInv
    <3> QED
      BY <1>1, <2>2, <3>1, LoadsForgets
  <2>3. CASE forgot' = forgot
    BY <2>3 DEF ThreadInv, TypeOK, OnlyMemoryForgets
  <2> QED
    BY <2>1, <2>2, <2>3 DEF Load, TurnFails, history
<1>5. TypeOK'
  BY <1>1, <1>2, <1>3, <1>4 DEF ThreadInv, TypeOK
<1>6. ServingInv'
  BY <1>1, <1>3 DEF ServingInv, Busy
<1>7. KeptInv'
  BY <1>1, <1>3 DEF ThreadInv, KeptInv
<1>8. RowsInv'
  BY <1>1, <1>3 DEF ThreadInv, RowsInv, OneRowPerAnswer
<1> QED
  BY <1>4, <1>5, <1>6, <1>7, <1>8 DEF ThreadInv

----------------------------------------------------------------------------
\* A put into one place or the other loses nothing that is there.
LEMMA SaveKeeps ==
  ASSUME ThreadInv, Save
  PROVE  /\ stored' \in Seq(T) /\ ram' \in [Instances -> Seq(T)]
         /\ \A t \in T : Contains(stored, t) => Contains(stored', t)
         /\ \A i \in Instances, t \in T : Contains(ram[i], t) => Contains(ram'[i], t)
         /\ IsInjective(stored) => IsInjective(stored')
<1>1. stored \in Seq(T) /\ ram \in [Instances -> Seq(T)] /\ turn \in T /\ on \in Instances
  BY DEF ThreadInv, TypeOK, Save, ServingInv, Busy
<1>2. stored' = stored \/ stored' = Put(stored)
  BY DEF Save
<1>3. ram' = ram \/ ram' = [ram EXCEPT ![on] = Put(ram[on])]
  BY DEF Save
<1>4. /\ stored' \in Seq(T)
      /\ \A t \in T : Contains(stored, t) => Contains(stored', t)
      /\ IsInjective(stored) => IsInjective(stored')
  BY <1>1, <1>2, PutAdds
<1>5. ram[on] \in Seq(T)
  BY <1>1
<1>6. Put(ram[on]) \in Seq(T) /\ \A t \in T : Contains(ram[on], t) => Contains(Put(ram[on]), t)
  BY <1>1, <1>5, PutAdds
<1>7. /\ ram' \in [Instances -> Seq(T)]
      /\ \A i \in Instances, t \in T : Contains(ram[i], t) => Contains(ram'[i], t)
  BY <1>1, <1>3, <1>6
<1> QED
  BY <1>4, <1>7

\* An answered turn is kept by the one who is said to: the put took effect.
LEMMA SaveAnswers ==
  ASSUME ThreadInv, Save
  PROVE  \/ keeper' = keeper /\ at' \in {"save", "log"}
         \/ /\ keeper' = [keeper EXCEPT ![turn] = on] /\ at' = "log"
            /\ Contains(ram'[on], turn)
         \/ /\ keeper' = [keeper EXCEPT ![turn] = "postgres"] /\ at' = "log"
            /\ Contains(stored', turn)
<1>1. stored \in Seq(T) /\ ram \in [Instances -> Seq(T)] /\ turn \in T /\ on \in Instances
  BY DEF ThreadInv, TypeOK, Save, ServingInv, Busy
<1>2. CASE saver[on] = "memory"
  <2>1. ram' = [ram EXCEPT ![on] = Put(ram[on])] /\ Answered(on)
    BY <1>2 DEF Save
  <2>2. ram[on] \in Seq(T)
    BY <1>1
  <2>3. Contains(Put(ram[on]), turn)
    BY <1>1, <2>2, PutAdds
  <2> QED
    BY <1>1, <2>1, <2>3 DEF Answered
<1>3. CASE saver[on] # "memory"
  <2>1. PICK applied \in BOOLEAN, known \in BOOLEAN :
          /\ Attempt(applied, known)
          /\ stored' = IF applied THEN Put(stored) ELSE stored
          /\ IF known THEN Answered("postgres")
             ELSE IF retried THEN TurnFails
             ELSE retried' = TRUE /\ UNCHANGED <<turn, at, on, history>>
    BY <1>3 DEF Save
  <2>2. CASE known
    <3>1. stored' = Put(stored)
      BY <2>1, <2>2, AttemptTells DEF ThreadInv
    <3>2. Contains(stored', turn)
      BY <1>1, <3>1, PutAdds
    <3> QED
      BY <2>1, <2>2, <3>2 DEF Answered
  <2>3. CASE ~known
    BY <2>1, <2>3 DEF TurnFails, history, Save
  <2> QED
    BY <2>2, <2>3
<1> QED
  BY <1>2, <1>3

LEMMA SaveStep ==
  ASSUME ThreadInv, Save
  PROVE  ThreadInv'
<1>1. /\ at = "save" /\ UNCHANGED <<up, audit, stage, saver, logging>>
      /\ on \in Instances /\ stage[on] = "serving" /\ turn \in T
  BY DEF ThreadInv, TypeOK, ServingInv, Busy, Save
<1>2. troubles' \in 0 .. MaxTroubles
  BY AttemptTells DEF Save, ThreadInv, TypeOK
<1>3. /\ UNCHANGED <<turn, on, forgot, unlogged>> /\ at' \in {"save", "log"} /\ retried' \in BOOLEAN
  BY <1>1 DEF Save, Answered, TurnFails, history
<1>4. TypeOK'
  BY <1>1, <1>2, <1>3, SaveKeeps, SaveAnswers DEF ThreadInv, TypeOK
<1>5. ServingInv'
  BY <1>1, <1>3 DEF ServingInv, Busy
<1>6. KeptInv'
  <2> SUFFICES ASSUME NEW t \in T
               PROVE  /\ keeper'[t] = "postgres" => Contains(stored', t)
                      /\ keeper'[t] \in Instances => Contains(ram'[keeper'[t]], t)
    BY DEF KeptInv
  <2>1. CASE keeper'[t] = keeper[t]
    BY <2>1, SaveKeeps DEF ThreadInv, KeptInv
  <2>2. CASE keeper'[t] # keeper[t]
    <3>1. \/ t = turn /\ keeper'[t] = on /\ Contains(ram'[on], t)
          \/ t = turn /\ keeper'[t] = "postgres" /\ Contains(stored', t)
      BY <2>2, SaveAnswers DEF ThreadInv, TypeOK
    <3> QED
      BY <1>1, <3>1, ServiceAssumptions
  <2> QED
    BY <2>1, <2>2
<1>7. RowsInv'
  <2>1. \A t \in T : t # turn => keeper'[t] = keeper[t]
    BY SaveAnswers DEF ThreadInv, TypeOK
  <2>2. at' = "save" => keeper' = keeper
    BY SaveAnswers
  <2>3. \A t \in T : t \in Nat
    BY TurnNumbers
  <2> QED
    BY <1>1, <1>3, <2>1, <2>2, <2>3 DEF ThreadInv, RowsInv, OneRowPerAnswer
<1>8. OnlyMemoryForgets'
  BY <1>3 DEF ThreadInv, OnlyMemoryForgets
<1> QED
  BY <1>4, <1>5, <1>6, <1>7, <1>8 DEF ThreadInv

----------------------------------------------------------------------------
\* One attempt: one row, or an excuse.
LEMMA RecordRows ==
  ASSUME ThreadInv, Record
  PROVE  /\ audit' \in [T -> Nat] /\ audit'[turn] <= 1
         /\ \A t \in T \ {turn} : audit'[t] = audit[t]
         /\ unlogged \subseteq unlogged' /\ unlogged' \subseteq T
         /\ audit'[turn] = 1 \/ turn \in unlogged'
         /\ troubles' \in 0 .. MaxTroubles
<1>1. /\ audit \in [T -> Nat] /\ unlogged \subseteq T /\ turn \in T /\ audit[turn] = 0
      /\ troubles \in 0 .. MaxTroubles
  BY DEF ThreadInv, TypeOK, RowsInv, Record
<1>2. CASE logging[on]
  <2>1. PICK applied \in BOOLEAN, known \in BOOLEAN :
          /\ Attempt(applied, known)
          /\ audit' = [audit EXCEPT ![turn] = @ + (IF applied THEN 1 ELSE 0)]
          /\ unlogged' = IF known THEN unlogged ELSE unlogged \union {turn}
    BY <1>2 DEF Record
  <2>2. (known => applied) /\ troubles' \in 0 .. MaxTroubles
    BY <2>1, AttemptTells DEF ThreadInv
  <2>3. audit'[turn] = IF applied THEN 1 ELSE 0
    BY <1>1, <2>1
  <2>4. audit' \in [T -> Nat] /\ \A t \in T \ {turn} : audit'[t] = audit[t]
    BY <1>1, <2>1
  <2> QED
    BY <1>1, <2>1, <2>2, <2>3, <2>4
<1>3. CASE ~logging[on]
  BY <1>1, <1>3 DEF Record
<1> QED
  BY <1>2, <1>3

LEMMA RecordStep ==
  ASSUME ThreadInv, Record
  PROVE  ThreadInv'
<1>1. /\ at = "log" /\ NextTurn
      /\ UNCHANGED <<up, stored, stage, saver, logging, ram, keeper, forgot>>
  BY DEF Record, boot
<1>2. /\ turn' \in T /\ at' \in {"asked", "end"} /\ on' = "nobody" /\ retried' = FALSE
  BY <1>1, NextTurnFacts DEF ThreadInv
<1>3. TypeOK'
  BY <1>1, <1>2, RecordRows DEF ThreadInv, TypeOK
<1>4. ServingInv'
  BY <1>2 DEF ServingInv, Busy
<1>5. KeptInv'
  BY <1>1 DEF ThreadInv, KeptInv
<1>6. RowsInv'
  BY <1>1, RecordRows, NextTurnRows DEF ThreadInv
<1>7. OnlyMemoryForgets'
  BY <1>1 DEF ThreadInv, OnlyMemoryForgets
<1> QED
  BY <1>3, <1>4, <1>5, <1>6, <1>7 DEF ThreadInv

\* An instance that stops takes its memory along, and with it what it kept: such a turn
\* is kept by nobody who could forget it again.
LEMMA StopStep ==
  ASSUME ThreadInv, NEW i \in Instances, Stop(i)
  PROVE  ThreadInv'
<1>1. /\ stage' = [stage EXCEPT ![i] = "down"] /\ ram' = [ram EXCEPT ![i] = <<>>]
      /\ keeper' = [t \in T |-> IF keeper[t] = i THEN "gone" ELSE keeper[t]]
      /\ UNCHANGED <<up, stored, audit, saver, logging, forgot>>
      /\ Trouble
  BY DEF Stop
<1>2. troubles' \in 0 .. MaxTroubles
  BY <1>1, ServiceAssumptions DEF ThreadInv, TypeOK, Trouble
<1>3. \A t \in T : keeper'[t] # "nobody" <=> keeper[t] # "nobody"
  BY <1>1, ServiceAssumptions
<1>4. /\ stage' \in [Instances -> {"down", "saver", "log", "serving"}]
      /\ ram' \in [Instances -> Seq(T)]
      /\ keeper' \in [T -> Instances \union {"postgres", "gone", "nobody"}]
  BY <1>1 DEF ThreadInv, TypeOK
<1>5. KeptInv'
  <2> SUFFICES ASSUME NEW t \in T
               PROVE  /\ keeper'[t] = "postgres" => Contains(stored, t)
                      /\ keeper'[t] \in Instances => Contains(ram'[keeper'[t]], t)
    BY <1>1 DEF KeptInv
  <2>1. CASE keeper[t] = i
    BY <1>1, <2>1, ServiceAssumptions
  <2>2. CASE keeper[t] # i
    BY <1>1, <2>2 DEF ThreadInv, TypeOK, KeptInv
  <2> QED
    BY <2>1, <2>2
<1>6. OnlyMemoryForgets'
  BY <1>1 DEF ThreadInv, OnlyMemoryForgets
<1>7. CASE on = i
  <2>1. NextTurn /\ unlogged' = unlogged \union {turn}
    BY <1>7 DEF Stop
  <2>2. turn' \in T /\ at' \in {"asked", "end"} /\ on' = "nobody" /\ retried' = FALSE
    BY <2>1, NextTurnFacts DEF ThreadInv
  <2>3. TypeOK'
    BY <1>1, <1>2, <1>4, <2>1, <2>2 DEF ThreadInv, TypeOK
  <2>4. ServingInv'
    BY <2>2 DEF ServingInv, Busy
  <2>5. RowsInv'
    <3>1. at # "end"
      BY <1>7, ServiceAssumptions DEF ThreadInv, ServingInv, Busy
    <3>2. audit' \in [T -> Nat] /\ audit'[turn] <= 1 /\ \A t \in T \ {turn} : audit'[t] = audit[t]
      BY <1>1, <3>1 DEF ThreadInv, TypeOK, RowsInv
    <3> QED
      BY <1>3, <2>1, <3>1, <3>2, NextTurnRows DEF ThreadInv
  <2> QED
    BY <1>5, <1>6, <2>3, <2>4, <2>5 DEF ThreadInv
<1>8. CASE on # i
  <2>1. UNCHANGED <<turn, at, on, retried, unlogged>>
    BY <1>8 DEF Stop, serve
  <2>2. TypeOK'
    BY <1>1, <1>2, <1>4, <2>1 DEF ThreadInv, TypeOK
  <2>3. ServingInv'
    BY <1>1, <1>8, <2>1 DEF ThreadInv, TypeOK, ServingInv, Busy
  <2>4. RowsInv'
    BY <1>1, <1>3, <2>1 DEF ThreadInv, TypeOK, RowsInv, OneRowPerAnswer
  <2> QED
    BY <1>5, <1>6, <2>2, <2>3, <2>4 DEF ThreadInv
<1> QED
  BY <1>7, <1>8

----------------------------------------------------------------------------
LEMMA ThreadInit == Init => ThreadInv
<1> SUFFICES ASSUME Init PROVE ThreadInv
  OBVIOUS
<1> USE DEF Init
<1>1. TypeOK
  <2>1. /\ stored \in Seq(T) /\ audit \in [T -> Nat] /\ turn \in T
        /\ keeper \in [T -> Instances \union {"postgres", "gone", "nobody"}]
    BY TurnNumbers
  <2>2. /\ stage \in [Instances -> {"down", "saver", "log", "serving"}]
        /\ saver \in [Instances -> {"memory", "postgres"}]
        /\ logging \in [Instances -> BOOLEAN]
    OBVIOUS
  <2>3. ram \in [Instances -> Seq(T)]
    <3>1. <<>> \in Seq(T)
      OBVIOUS
    <3> HIDE DEF T
    <3> QED
      BY <3>1
  <2>4. /\ up \in BOOLEAN /\ at \in {"asked", "load", "save", "log", "end"}
        /\ on \in Instances \union {"nobody"} /\ retried \in BOOLEAN
        /\ forgot = {} /\ unlogged = {} /\ troubles = 0
    OBVIOUS
  <2>5. 0 \in 0 .. MaxTroubles
    BY ServiceAssumptions
  <2> QED
    BY <2>1, <2>2, <2>3, <2>4, <2>5 DEF TypeOK
<1>2. ServingInv
  BY DEF ServingInv, Busy
<1>3. KeptInv
  BY ServiceAssumptions DEF KeptInv
<1>4. RowsInv
  BY TurnNumbers DEF RowsInv, OneRowPerAnswer
<1>5. OnlyMemoryForgets
  BY DEF OnlyMemoryForgets
<1> QED
  BY <1>1, <1>2, <1>3, <1>4, <1>5 DEF ThreadInv

LEMMA ThreadStep ==
  ASSUME ThreadInv, [Next]_serviceVars
  PROVE  ThreadInv'
<1>1. ASSUME NEW i \in Instances, Proceed(i) PROVE ThreadInv'
  BY <1>1, BootStep, AskStep DEF Proceed
<1>2. ASSUME NEW i \in Instances, Stop(i) PROVE ThreadInv'
  BY <1>2, StopStep
<1>3. CASE Serve
  BY <1>3, LoadStep, SaveStep, RecordStep DEF Serve
<1>4. CASE Outage \/ Return \/ List \/ ListItem \/ ListDies \/ UNCHANGED serviceVars
  BY <1>4, AroundStep
<1> QED
  BY <1>1, <1>2, <1>3, <1>4 DEF Next

\* Types, one instance per turn, every keeper has what it keeps, and rows that agree
\* with the turns, through boots, outages, lost acknowledgements and stopped instances.
THEOREM ThreadInvariant == Spec => []ThreadInv
BY ThreadInit, ThreadStep, PTL DEF Spec

\* A question builds on every answered one before it, however many instances there are and
\* whatever fails, unless one of the two was kept by an instance in its memory.
THEOREM OnlyMemoryLoses == Spec => []OnlyMemoryForgets
<1>1. ThreadInv => OnlyMemoryForgets
  BY DEF ThreadInv
<1> QED
  BY <1>1, ThreadInvariant, PTL

\* An answered turn has one row in the audit trail, or none and an excuse, never two.
THEOREM RowPerAnswer == Spec => []OneRowPerAnswer
<1>1. ThreadInv => OneRowPerAnswer
  BY DEF ThreadInv, RowsInv
<1> QED
  BY <1>1, ThreadInvariant, PTL

----------------------------------------------------------------------------
\* Other steps than those of a listing leave it alone and keep the keys unique.
LEMMA ListingAlone ==
  ASSUME ListingInv, UNCHANGED listing, IsInjective(stored')
  PROVE  ListingInv'
BY DEF ListingInv

\* A listing is (re)started on a snapshot with nothing handed out, ...
LEMMA ListingStarts ==
  ASSUME ListingInv, stored \in Seq(T), UNCHANGED stored, NEW state,
         listing' = [snapshot |-> stored, next |-> 1, got |-> <<>>, state |-> state]
  PROVE  ListingInv'
BY DEF ListingInv

\* ... hands out the checkpoint at its place ...
LEMMA ListingGoesOn ==
  ASSUME ListingInv, ListItem
  PROVE  ListingInv'
<1> DEFINE l == listing
<1>1. UNCHANGED stored /\ IsInjective(stored)
  BY DEF ListItem, ListingInv
<1>2. CASE l.next > Len(l.snapshot)
  BY <1>1, <1>2 DEF ListItem, ListingInv
<1>3. CASE l.next <= Len(l.snapshot)
  <2> DEFINE item == l.snapshot[l.next]
  <2>1. /\ l.snapshot \in Seq(T) /\ l.got \in Seq(T) /\ l.next \in Nat \ {0}
        /\ Len(l.got) = l.next - 1
        /\ \A n \in 1 .. Len(l.got) : l.got[n] = l.snapshot[n]
    BY DEF ListingInv
  <2>2. item \in T
    BY <1>3, <2>1
  <2>3. listing' = [listing EXCEPT !.next = l.next + 1, !.got = Append(l.got, item)]
    BY <1>3 DEF ListItem
  <2>4. /\ listing'.snapshot = l.snapshot /\ listing'.next = l.next + 1
        /\ listing'.got = Append(l.got, item)
        /\ listing' = [snapshot |-> listing'.snapshot, next |-> listing'.next,
                       got |-> listing'.got, state |-> listing'.state]
    BY <2>3 DEF ListingInv
  <2>5. /\ Append(l.got, item) \in Seq(T) /\ Len(Append(l.got, item)) = l.next
        /\ Append(l.got, item)[l.next] = item
        /\ \A n \in 1 .. Len(l.got) : Append(l.got, item)[n] = l.got[n]
    BY <2>1, <2>2
  <2>6. \A n \in 1 .. l.next : Append(l.got, item)[n] = l.snapshot[n]
    BY <2>1, <2>5
  <2> QED
    BY <1>1, <1>3, <2>1, <2>4, <2>5, <2>6 DEF ListingInv
<1> QED
  BY <1>2, <1>3 DEF ListingInv

\* ... and is restarted, if it dies, before it has handed out anything.
LEMMA ListingRestarts ==
  ASSUME ListingInv, stored \in Seq(T), ListDies
  PROVE  ListingInv'
<1>1. CASE listing' = [listing EXCEPT !.snapshot = stored, !.next = 1, !.state = "second"] /\ MayRestart
  <2>1. listing.got = <<>>
    BY <1>1 DEF MayRestart
  <2>2. listing' = [snapshot |-> stored, next |-> 1, got |-> <<>>, state |-> "second"]
    BY <1>1, <2>1 DEF ListingInv
  <2> QED
    BY <2>2, ListingStarts DEF ListDies
<1>2. CASE listing' = [listing EXCEPT !.state = "over"]
  BY <1>2 DEF ListDies, ListingInv
<1> QED
  BY <1>1, <1>2 DEF ListDies

LEMMA ListingStep ==
  ASSUME ThreadInv, ListingInv, [Next]_serviceVars
  PROVE  ListingInv'
<1>1. stored \in Seq(T) /\ IsInjective(stored)
  BY DEF ThreadInv, TypeOK, ListingInv
<1>2. CASE Save
  BY <1>1, <1>2, SaveKeeps, ListingAlone DEF Save
<1>3. CASE List
  BY <1>1, <1>3, ListingStarts DEF List
<1>4. CASE ListItem
  BY <1>4, ListingGoesOn
<1>5. CASE ListDies
  BY <1>1, <1>5, ListingRestarts
<1>6. CASE UNCHANGED <<stored, listing>>
  BY <1>1, <1>6, ListingAlone
<1>7. Save \/ List \/ ListItem \/ ListDies \/ UNCHANGED <<stored, listing>>
  BY DEF Next, Proceed, Serve, Start, BuildSaver, EnsureTable, Ask, Stop, Load, Record,
         Outage, Return, serviceVars
<1> QED
  BY <1>2, <1>3, <1>4, <1>5, <1>6, <1>7

LEMMA ListingInit == Init => ListingInv
BY DEF Init, NoListing, ListingInv, IsInjective

THEOREM ServiceInvariant == Spec => []ServiceInv
<1>1. Init => ServiceInv
  BY ThreadInit, ListingInit DEF ServiceInv
<1>2. ServiceInv /\ [Next]_serviceVars => ServiceInv'
  BY ThreadStep, ListingStep DEF ServiceInv
<1> QED
  BY <1>1, <1>2, PTL DEF Spec

\* A listing hands out no checkpoint twice, through writes to the thread, outages and its
\* one restart.
THEOREM NeverReplays == Spec => []ListingNeverReplays
<1>1. ServiceInv => ListingNeverReplays
  <2> SUFFICES ASSUME ListingInv, NEW a \in DOMAIN listing.got, NEW b \in DOMAIN listing.got,
                      listing.got[a] = listing.got[b]
               PROVE  a = b
    BY DEF ServiceInv, ListingNeverReplays, IsInjective
  <2>1. /\ a \in 1 .. Len(listing.got) /\ b \in 1 .. Len(listing.got)
        /\ Len(listing.got) <= Len(listing.snapshot)
        /\ Len(listing.got) \in Nat /\ Len(listing.snapshot) \in Nat
        /\ DOMAIN listing.snapshot = 1 .. Len(listing.snapshot)
    BY DEF ListingInv
  <2>2. listing.snapshot[a] = listing.snapshot[b]
    BY <2>1 DEF ListingInv
  <2> QED
    BY <2>1, <2>2 DEF ListingInv, IsInjective
<1> QED
  BY <1>1, ServiceInvariant, PTL

----------------------------------------------------------------------------
(* How long a conversation can last.                                        *)

\* Attempts and stages left of the question at hand.
Left ==
  CASE at = "asked" -> 6 [] at = "load" -> IF retried THEN 4 ELSE 5
    [] at = "save" -> IF retried THEN 2 ELSE 3 [] at = "log" -> 1 [] OTHER -> 0

\* ... and of the conversation.
Remaining == 6 * (Turns - turn) + Left

\* What serves the conversation brings it on; nothing else takes it back.
ConversationGoesOn ==
  /\ Remaining' <= Remaining
  /\ Serve \/ (\E i \in Instances : Ask(i)) => Remaining' < Remaining

LEMMA RemainingType ==
  ASSUME TypeOK
  PROVE  Remaining \in 0 .. (6 * Turns) /\ Remaining \in Nat /\ Left \in 0 .. 6
<1>1. Left \in 0 .. 6
  BY DEF Left
<1>2. turn \in Nat /\ turn >= 1 /\ turn <= Turns /\ Turns \in Nat
  BY ServiceAssumptions DEF TypeOK, T
<1> QED
  BY <1>1, <1>2 DEF Remaining

LEMMA NextTurnNearer ==
  ASSUME TypeOK, NextTurn, at # "asked", at # "end"
  PROVE  Remaining' < Remaining
<1>1. at' \in {"asked", "end"} /\ (at' = "asked" => turn' = turn + 1) /\ (at' = "end" => turn' = turn)
  BY NextTurnFacts
<1>2. turn \in Nat /\ Turns \in Nat
  BY ServiceAssumptions DEF TypeOK, T
<1>3. Left \in 1 .. 5
  BY DEF Left, TypeOK
<1>4. CASE at' = "asked"
  <2>1. turn' = turn + 1 /\ Left' = 6
    BY <1>1, <1>4 DEF Left
  <2> QED
    BY <1>2, <1>3, <2>1 DEF Remaining
<1>5. CASE at' = "end"
  <2>1. turn' = turn /\ Left' = 0
    BY <1>1, <1>5 DEF Left
  <2> QED
    BY <1>2, <1>3, <2>1 DEF Remaining
<1> QED
  BY <1>1, <1>4, <1>5

\* Within a question: the same turn, less of it left.
LEMMA LeftNearer ==
  ASSUME TypeOK, turn' = turn, NEW old \in Nat, NEW new \in Nat, Left = old, Left' = new, new < old
  PROVE  Remaining' < Remaining
<1>1. turn \in Nat /\ Turns \in Nat
  BY ServiceAssumptions DEF TypeOK, T
<1> QED
  BY <1>1 DEF Remaining

LEMMA ServeNearer ==
  ASSUME TypeOK, Serve \/ \E i \in Instances : Ask(i)
  PROVE  Remaining' < Remaining
<1>0. retried \in BOOLEAN
  BY DEF TypeOK
<1>1. CASE \E i \in Instances : Ask(i)
  <2>1. at = "asked" /\ at' = "load" /\ turn' = turn /\ retried' = retried
    BY <1>1 DEF Ask
  <2>2. Left = 6 /\ Left' \in {4, 5}
    BY <2>1 DEF Left
  <2> QED
    BY <2>1, <2>2, LeftNearer
<1>2. CASE Load
  <2>1. /\ at = "load" /\ turn' = turn
        /\ \/ at' \in {"save", "log"} /\ retried' = FALSE
           \/ ~retried /\ at' = at /\ retried' = TRUE
    BY <1>2 DEF Load, Loads, TurnFails
  <2>2. CASE at' \in {"save", "log"} /\ retried' = FALSE
    <3>1. Left \in {4, 5} /\ Left' \in {1, 3}
      BY <2>1, <2>2 DEF Left
    <3> QED
      BY <2>1, <3>1, LeftNearer
  <2>3. CASE ~retried /\ at' = at /\ retried' = TRUE
    <3>1. Left = 5 /\ Left' = 4
      BY <2>1, <2>3 DEF Left
    <3> QED
      BY <2>1, <3>1, LeftNearer
  <2> QED
    BY <2>1, <2>2, <2>3
<1>3. CASE Save
  <2>1. /\ at = "save" /\ turn' = turn
        /\ \/ at' = "log" /\ retried' = FALSE
           \/ ~retried /\ at' = at /\ retried' = TRUE
    BY <1>3 DEF Save, Answered, TurnFails
  <2>2. CASE at' = "log" /\ retried' = FALSE
    <3>1. Left \in {2, 3} /\ Left' = 1
      BY <2>1, <2>2 DEF Left
    <3> QED
      BY <2>1, <3>1, LeftNearer
  <2>3. CASE ~retried /\ at' = at /\ retried' = TRUE
    <3>1. Left = 3 /\ Left' = 2
      BY <2>1, <2>3 DEF Left
    <3> QED
      BY <2>1, <3>1, LeftNearer
  <2> QED
    BY <2>1, <2>2, <2>3
<1>4. CASE Record
  <2>1. at = "log" /\ NextTurn
    BY <1>4 DEF Record
  <2> QED
    BY <2>1, NextTurnNearer
<1> QED
  BY <1>1, <1>2, <1>3, <1>4 DEF Serve

LEMMA ConversationStep ==
  ASSUME ThreadInv, [Next]_serviceVars
  PROVE  [ConversationGoesOn]_serviceVars
<1>0. TypeOK /\ Remaining \in Nat
  BY RemainingType DEF ThreadInv
<1>1. CASE Serve \/ \E i \in Instances : Ask(i)
  <2>1. Remaining' < Remaining
    BY <1>0, <1>1, ServeNearer
  <2>2. Remaining' \in Int
    <3>1. turn' \in Nat /\ Turns \in Nat
      BY <1>1, TurnNumbers, NextTurnFacts, ServiceAssumptions
         DEF ThreadInv, TypeOK, T, Serve, Ask, Load, Loads, TurnFails, Save, Answered, Record
    <3>2. Left' \in 0 .. 6
      BY DEF Left
    <3> QED
      BY <3>1, <3>2 DEF Remaining
  <2> QED
    BY <1>0, <2>1, <2>2 DEF ConversationGoesOn
<1>2. CASE ~(Serve \/ \E i \in Instances : Ask(i))
  <2>1. ASSUME NEW i \in Instances, Stop(i), on = i PROVE Remaining' < Remaining
    <3>1. NextTurn /\ at \in {"load", "save", "log"}
      BY <2>1, ServiceAssumptions DEF Stop, ThreadInv, ServingInv, Busy
    <3> QED
      BY <1>0, <3>1, NextTurnNearer
  <2>2. ASSUME UNCHANGED serve PROVE Remaining' = Remaining
    BY <2>2 DEF serve, Remaining, Left
  <2>3. ASSUME Next PROVE UNCHANGED serve \/ \E i \in Instances : Stop(i) /\ on = i
    BY <1>2, <2>3 DEF Next, Proceed, Start, BuildSaver, EnsureTable, Stop, Outage, Return,
                      List, ListItem, ListDies
  <2>4. ASSUME Next PROVE Remaining' <= Remaining
    <3>1. CASE UNCHANGED serve
      BY <1>0, <2>2, <3>1
    <3>2. ASSUME NEW i \in Instances, Stop(i), on = i PROVE Remaining' <= Remaining
      <4>1. Remaining' < Remaining
        BY <2>1, <3>2
      <4>2. NextTurn
        BY <3>2 DEF Stop
      <4>3. turn' \in Nat /\ Turns \in Nat /\ Left' \in 0 .. 6
        BY <1>0, <4>2, NextTurnFacts, TurnNumbers, ServiceAssumptions DEF Left
      <4>4. Remaining' \in Int
        BY <4>3 DEF Remaining
      <4> QED
        BY <1>0, <4>1, <4>4
    <3> QED
      BY <2>3, <2>4, <3>1, <3>2
  <2> QED
    BY <1>2, <2>4 DEF ConversationGoesOn
<1> QED
  BY <1>1, <1>2

\* No retry, outage, lost acknowledgement, restart or failed turn makes the conversation
\* longer: a question is given at most six steps of service, and each of them is used up.
THEOREM ConversationRunsOut ==
  Spec => [](Remaining \in 0 .. (6 * Turns)) /\ [][ConversationGoesOn]_serviceVars
<1>1. ThreadInv => Remaining \in 0 .. (6 * Turns)
  BY RemainingType DEF ThreadInv
<1>2. ThreadInv /\ [Next]_serviceVars => [ConversationGoesOn]_serviceVars
  BY ConversationStep
<1> QED
  BY <1>1, <1>2, ThreadInvariant, PTL DEF Spec
============================================================================
