--------------------------- MODULE FaaCacheProofs ---------------------------
(***************************************************************************)
(* Proofs about FaaCache for any number of askers and airports and any     *)
(* time to live. FaaInv is inductive; the lock, the line of waiters and    *)
(* the bound on what an asker sits through hold together or not at all.    *)
(***************************************************************************)
EXTENDS FaaCache, FiniteSetTheorems, WellFoundedInduction, TLAPS

\* A part of S that misses x has room for x.
LEMMA RoomForOne ==
  ASSUME NEW S, IsFiniteSet(S), NEW x \in S, NEW T \in SUBSET (S \ {x})
  PROVE  IsFiniteSet(T) /\ Cardinality(T) \in Nat /\ Cardinality(T) + 1 <= Cardinality(S)
<1>1. IsFiniteSet(S \ {x}) /\ Cardinality(S \ {x}) = Cardinality(S) - 1
  BY FS_RemoveElement
<1>2. IsFiniteSet(T) /\ Cardinality(T) <= Cardinality(S \ {x})
  BY <1>1, FS_Subset
<1>3. Cardinality(S) \in Nat /\ Cardinality(T) \in Nat
  BY <1>2, FS_CardinalityType
<1> QED
  BY <1>1, <1>2, <1>3

\* airport_status builds a reply.
LEMMA StatusType ==
  ASSUME NEW code, NEW document, NEW stale \in BOOLEAN, NEW recent \in BOOLEAN
  PROVE  Status(code, document, stale, recent) \in Replies
BY DEF Status, Says, Replies

LEMMA ReplyConstants == NoReply \in Replies /\ Unavailable \in Replies
BY DEF NoReply, Unavailable, Says, Replies

\* What FreshOrMarked remembers of a document from the cache.
LEMMA HeardStatus ==
  ASSUME TypeOK, NEW code, NEW stale \in BOOLEAN
  PROVE  Status(code, doc, stale, heard < Ttl) \in Replies
<1>1. (heard < Ttl) \in BOOLEAN
  BY FaaAssumptions DEF TypeOK
<1> QED
  BY <1>1, StatusType, Zenon

LEMMA InitInv == Init => FaaInv /\ FreshOrMarked
<1> SUFFICES ASSUME Init PROVE FaaInv /\ FreshOrMarked
  OBVIOUS
<1>1. TypeOK
  <2>1. reply \in [Askers -> Replies]
    BY ReplyConstants DEF Init
  <2>2. known \in BOOLEAN /\ doc \in SUBSET Airports
    BY Zenon DEF Init
  <2>3. /\ age \in 0 .. Ttl /\ heard \in 0 .. Ttl
        /\ since \in [Askers -> 0 .. Ttl] /\ calls \in [Askers -> Nat]
    BY FaaAssumptions DEF Init
  <2> QED
    BY <2>1, <2>2, <2>3 DEF Init, TypeOK
<1>2. LockInv /\ LineInv /\ AgeInv /\ CallsInv
  BY FaaAssumptions DEF Init, LockInv, LineInv, Line, AgeInv, CallsInv, Waiting
<1>3. FreshOrMarked
  BY DEF Init, FreshOrMarked, NoReply
<1> QED
  BY <1>1, <1>2, <1>3 DEF FaaInv

\* A line stays a line when someone in it, or out of it, steps out.
LEMMA LineCloses ==
  ASSUME NEW w \in SUBSET Askers, NEW f, NEW g, NEW a \in Askers, Line(w, f),
         \A b \in Askers : g[b] = IF b = a THEN {} ELSE f[b] \ {a}
  PROVE  Line(w \ {a}, g)
<1> SUFFICES ASSUME NEW b \in Askers
             PROVE  /\ g[b] \subseteq (w \ {a}) \ {b}
                    /\ b \notin w \ {a} => g[b] = {}
                    /\ \A c \in w \ {a} : b \in w \ {a} /\ b # c => (c \in g[b] <=> b \notin g[c])
                    /\ \A c \in g[b] : g[c] \subseteq g[b]
  BY DEF Line
<1>1. /\ f[b] \subseteq w \ {b}
      /\ b \notin w => f[b] = {}
      /\ \A c \in w : b \in w /\ b # c => (c \in f[b] <=> b \notin f[c])
      /\ \A c \in f[b] : f[c] \subseteq f[b]
  BY DEF Line
<1>2. CASE b = a
  BY <1>2
<1>3. CASE b # a
  <2>1. g[b] = f[b] \ {a}
    BY <1>3
  <2>2. ASSUME NEW c \in w \ {a}, b \in w \ {a}, b # c
        PROVE  c \in g[b] <=> b \notin g[c]
    BY <1>1, <2>1, <2>2
  <2>3. ASSUME NEW c \in g[b]
        PROVE  g[c] \subseteq g[b]
    BY <1>1, <2>1, <2>3
  <2> QED
    BY <1>1, <2>1, <2>2, <2>3
<1> QED
  BY <1>2, <1>3

\* A line stays a line when someone joins it at its end.
LEMMA LineGrows ==
  ASSUME NEW w \in SUBSET Askers, NEW f, NEW g, NEW a \in Askers, a \notin w, Line(w, f),
         g[a] = w, \A b \in Askers : b # a => g[b] = f[b]
  PROVE  Line(w \union {a}, g)
<1> SUFFICES ASSUME NEW b \in Askers
             PROVE  /\ g[b] \subseteq (w \union {a}) \ {b}
                    /\ b \notin w \union {a} => g[b] = {}
                    /\ \A c \in w \union {a} :
                         b \in w \union {a} /\ b # c => (c \in g[b] <=> b \notin g[c])
                    /\ \A c \in g[b] : g[c] \subseteq g[b]
  BY DEF Line
<1>1. \A d \in Askers :
        /\ f[d] \subseteq w \ {d}
        /\ d \notin w => f[d] = {}
        /\ \A c \in w : d \in w /\ d # c => (c \in f[d] <=> d \notin f[c])
        /\ \A c \in f[d] : f[c] \subseteq f[d]
  BY DEF Line
<1>2. CASE b = a
  BY <1>1, <1>2
<1>3. CASE b # a
  <2>1. g[b] = f[b] /\ a \notin f[b] /\ g[a] = w
    BY <1>1, <1>3
  <2> QED
    BY <1>1, <1>3, <2>1
<1> QED
  BY <1>2, <1>3

\* Whoever leaves closes the line behind him.
LEMMA Leaving ==
  ASSUME FaaInv, NEW a \in Askers, NEW r \in Replies, Leave(a, r)
  PROVE  /\ stage' \in [Askers -> {"idle", "waiting", "fetching"}]
         /\ ahead' \in [Askers -> SUBSET Askers]
         /\ since' \in [Askers -> 0 .. Ttl]
         /\ reply' \in [Askers -> Replies]
         /\ calls' \in [Askers -> Nat]
         /\ LineInv' /\ CallsInv'
<1> USE DEF FaaInv
<1>1. /\ stage' \in [Askers -> {"idle", "waiting", "fetching"}]
      /\ ahead' \in [Askers -> SUBSET Askers]
      /\ since' \in [Askers -> 0 .. Ttl]
      /\ reply' \in [Askers -> Replies]
      /\ calls' \in [Askers -> Nat]
  BY FaaAssumptions DEF Leave, TypeOK
<1>2. /\ \A b \in Askers : stage'[b] = IF b = a THEN "idle" ELSE stage[b]
      /\ \A b \in Askers : ahead'[b] = IF b = a THEN {} ELSE ahead[b] \ {a}
      /\ \A b \in Askers : calls'[b] = IF b = a THEN 0 ELSE calls[b]
      /\ Waiting' = Waiting \ {a}
  BY DEF Leave, TypeOK, Waiting
<1>3. LineInv'
  <2>1. Waiting \in SUBSET Askers /\ Line(Waiting, ahead)
    BY DEF Waiting, LineInv
  <2>2. \A b \in Askers : ahead'[b] = IF b = a THEN {} ELSE ahead[b] \ {a}
    BY <1>2
  <2>3. Line(Waiting \ {a}, ahead')
    BY <2>1, <2>2, LineCloses, Zenon
  <2> QED
    BY <1>2, <2>3 DEF LineInv
<1>4. CallsInv'
  <2> SUFFICES ASSUME NEW b \in Askers
               PROVE  /\ stage'[b] = "idle" => calls'[b] = 0
                      /\ stage'[b] = "waiting" => calls'[b] + Cardinality(ahead'[b]) + 1 <= Cardinality(Askers)
                      /\ stage'[b] = "fetching" => calls'[b] <= Cardinality(Askers)
    BY DEF CallsInv
  <2>1. CASE b = a
    BY <2>1, <1>2
  <2>2. CASE b # a
    <3>1. ahead[b] \in SUBSET Askers /\ ahead'[b] \in SUBSET ahead[b]
      BY <2>2, <1>2 DEF TypeOK
    <3>2. IsFiniteSet(ahead[b])
      BY <3>1, FaaAssumptions, FS_Subset
    <3>3. Cardinality(ahead'[b]) <= Cardinality(ahead[b])
      BY <3>1, <3>2, FS_Subset
    <3>4. Cardinality(ahead[b]) \in Nat /\ Cardinality(ahead'[b]) \in Nat /\ Cardinality(Askers) \in Nat
      BY <3>1, <3>2, FaaAssumptions, FS_Subset, FS_CardinalityType
    <3>5. stage'[b] = stage[b] /\ calls'[b] = calls[b] /\ calls[b] \in Nat
      BY <2>2, <1>2 DEF TypeOK
    <3> QED
      BY <3>3, <3>4, <3>5 DEF CallsInv
  <2> QED
    BY <2>1, <2>2
<1> QED
  BY <1>1, <1>3, <1>4

\* Whoever leaves without having held the lock, and touches nothing else.
LEMMA LeaveAlone ==
  ASSUME FaaInv, NEW a \in Askers, NEW r \in Replies, Leave(a, r), stage[a] # "fetching",
         UNCHANGED <<cache, heard>>
  PROVE  FaaInv'
<1> USE DEF FaaInv, cache
<1>1. TypeOK'
  BY Leaving DEF TypeOK
<1>2. LockInv'
  BY DEF LockInv, Leave, TypeOK
<1>3. AgeInv'
  BY DEF AgeInv
<1> QED
  BY <1>1, <1>2, <1>3, Leaving

\* Whoever calls the feed was first in line, or there was no line.
LEMMA Calling ==
  ASSUME FaaInv, NEW a \in Askers, CallFeed(a), holder = None,
         \/ stage[a] = "idle" /\ Waiting = {}
         \/ stage[a] = "waiting" /\ ahead[a] = {}
  PROVE  FaaInv'
<1> USE DEF FaaInv
<1>1. TypeOK'
  BY FaaAssumptions, ReplyConstants DEF CallFeed, TypeOK
<1>2. /\ \A b \in Askers : stage'[b] = IF b = a THEN "fetching" ELSE stage[b]
      /\ \A b \in Askers : ahead'[b] = IF b = a THEN {} ELSE ahead[b] \ {a}
      /\ \A b \in Askers : calls'[b] = IF b = a \/ stage[b] = "waiting" THEN calls[b] + 1 ELSE calls[b]
      /\ Waiting' = Waiting \ {a}
      /\ holder' = a /\ known' = known /\ heard' = heard /\ age' = age
  BY DEF CallFeed, TypeOK, Waiting
<1>3. LockInv'
  BY <1>2, FaaAssumptions DEF LockInv
<1>4. LineInv'
  <2>1. Waiting \in SUBSET Askers /\ Line(Waiting, ahead)
    BY DEF Waiting, LineInv
  <2>2. \A b \in Askers : ahead'[b] = IF b = a THEN {} ELSE ahead[b] \ {a}
    BY <1>2
  <2>3. Line(Waiting \ {a}, ahead')
    BY <2>1, <2>2, LineCloses, Zenon
  <2> QED
    BY <1>2, <2>3 DEF LineInv
<1>5. AgeInv'
  BY <1>2 DEF AgeInv
<1>6. CallsInv'
  <2> SUFFICES ASSUME NEW b \in Askers
               PROVE  /\ stage'[b] = "idle" => calls'[b] = 0
                      /\ stage'[b] = "waiting" => calls'[b] + Cardinality(ahead'[b]) + 1 <= Cardinality(Askers)
                      /\ stage'[b] = "fetching" => calls'[b] <= Cardinality(Askers)
    BY DEF CallsInv
  <2>1. Cardinality(Askers) \in Nat /\ calls[b] \in Nat
    BY FaaAssumptions, FS_CardinalityType DEF TypeOK
  <2>2. CASE b = a
    <3>1. Cardinality({}) = 0
      BY FS_EmptySet
    <3>2. {} \in SUBSET (Askers \ {a})
      OBVIOUS
    <3>3. 1 <= Cardinality(Askers)
      BY <3>1, <3>2, FaaAssumptions, RoomForOne
    <3>4. calls[a] + 1 <= Cardinality(Askers)
      <4>1. CASE stage[a] = "idle"
        BY <4>1, <3>3, <2>1, <2>2 DEF CallsInv
      <4>2. CASE stage[a] = "waiting" /\ ahead[a] = {}
        <5>1. calls[a] + Cardinality({}) + 1 <= Cardinality(Askers)
          BY <4>2 DEF CallsInv
        <5> QED
          BY <5>1, <3>1, <2>1, <2>2
      <4> QED
        BY <4>1, <4>2
    <3> QED
      BY <3>4, <1>2, <2>2
  <2>3. CASE b # a /\ stage[b] = "waiting"
    <3>1. a \in ahead[b]
      BY <2>3 DEF LineInv, Line, Waiting
    <3>2. ahead[b] \in SUBSET Askers
      BY DEF TypeOK
    <3>3. IsFiniteSet(ahead[b])
      BY <3>2, FaaAssumptions, FS_Subset
    <3>4. Cardinality(ahead[b] \ {a}) = Cardinality(ahead[b]) - 1 /\ Cardinality(ahead[b]) \in Nat
      BY <3>1, <3>3, FS_RemoveElement, FS_CardinalityType
    <3>5. calls[b] + Cardinality(ahead[b]) + 1 <= Cardinality(Askers)
      BY <2>3 DEF CallsInv
    <3>6. stage'[b] = "waiting" /\ ahead'[b] = ahead[b] \ {a} /\ calls'[b] = calls[b] + 1
      BY <2>3, <1>2
    <3>7. calls'[b] + Cardinality(ahead'[b]) + 1 <= Cardinality(Askers)
      BY <3>4, <3>5, <3>6, <2>1
    <3> QED
      BY <3>6, <3>7
  <2>4. CASE b # a /\ stage[b] # "waiting"
    <3>1. stage'[b] = stage[b] /\ calls'[b] = calls[b]
      BY <2>4, <1>2
    <3>2. /\ stage[b] = "idle" => calls[b] = 0
          /\ stage[b] = "fetching" => calls[b] <= Cardinality(Askers)
      BY DEF CallsInv
    <3> QED
      BY <3>1, <3>2, <2>4
  <2> QED
    BY <2>2, <2>3, <2>4
<1> QED
  BY <1>1, <1>3, <1>4, <1>5, <1>6

LEMMA AskInv == ASSUME FaaInv, NEW a \in Askers, Ask(a) PROVE FaaInv'
<1> USE DEF FaaInv
<1>1. CASE /\ Fresh /\ stage[a] # "fetching"
           /\ \E code \in Airports : Leave(a, Status(code, doc, FALSE, heard < Ttl))
           /\ UNCHANGED <<cache, heard>>
  <2>1. PICK code \in Airports : Leave(a, Status(code, doc, FALSE, heard < Ttl))
    BY <1>1
  <2>2. Status(code, doc, FALSE, heard < Ttl) \in Replies
    BY HeardStatus
  <2> QED
    BY <1>1, <2>1, <2>2, LeaveAlone
<1>2. CASE ~Fresh /\ holder = None /\ Waiting = {} /\ CallFeed(a)
  BY <1>2, Calling DEF Ask
<1>3. CASE /\ ~Fresh /\ (holder # None \/ Waiting # {})
           /\ stage' = [stage EXCEPT ![a] = "waiting"]
           /\ ahead' = [ahead EXCEPT ![a] = Waiting]
           /\ calls' = [calls EXCEPT ![a] = IF holder = None THEN 0 ELSE 1]
           /\ reply' = [reply EXCEPT ![a] = NoReply]
           /\ UNCHANGED <<cache, since, heard>>
  <2>1. stage[a] = "idle" /\ a \notin Waiting /\ Waiting \in SUBSET Askers
    BY DEF Ask, Waiting
  <2>2. TypeOK'
    BY <1>3, <2>1, ReplyConstants DEF TypeOK, cache
  <2>3. /\ \A b \in Askers : stage'[b] = IF b = a THEN "waiting" ELSE stage[b]
        /\ \A b \in Askers : ahead'[b] = IF b = a THEN Waiting ELSE ahead[b]
        /\ \A b \in Askers : b # a => calls'[b] = calls[b]
        /\ calls'[a] = IF holder = None THEN 0 ELSE 1
        /\ Waiting' = Waiting \union {a}
        /\ holder' = holder /\ known' = known /\ heard' = heard /\ age' = age
    BY <1>3 DEF TypeOK, Waiting, cache
  <2>4. LockInv' /\ AgeInv'
    BY <2>1, <2>3 DEF LockInv, AgeInv
  <2>5. LineInv'
    <3>1. Line(Waiting, ahead)
      BY DEF LineInv
    <3>2. ahead'[a] = Waiting /\ \A b \in Askers : b # a => ahead'[b] = ahead[b]
      BY <2>3
    <3>3. a \notin Waiting
      BY <2>1
    <3>5. Waiting \in SUBSET Askers
      BY <2>1
    <3>4. Line(Waiting \union {a}, ahead')
      BY <3>1, <3>2, <3>3, <3>5, LineGrows, Zenon
    <3> QED
      BY <2>3, <3>4 DEF LineInv
  <2>6. CallsInv'
    <3>1. calls'[a] + Cardinality(Waiting) + 1 <= Cardinality(Askers)
      <4>1. CASE holder = None
        <5>1. Waiting \in SUBSET (Askers \ {a})
          BY <2>1
        <5>2. Cardinality(Waiting) \in Nat /\ Cardinality(Waiting) + 1 <= Cardinality(Askers)
          BY <5>1, FaaAssumptions, RoomForOne
        <5> QED
          BY <4>1, <5>2, <2>3
      <4>2. CASE holder # None
        <5>1. holder \in Askers /\ stage[holder] = "fetching"
          BY <4>2 DEF TypeOK, LockInv
        <5>2. holder # a /\ holder \notin Waiting
          BY <5>1, <2>1 DEF Waiting
        <5>3. IsFiniteSet(Askers \ {a}) /\ Cardinality(Askers \ {a}) + 1 <= Cardinality(Askers)
              /\ Cardinality(Askers \ {a}) \in Nat
          BY FaaAssumptions, RoomForOne
        <5>4. Waiting \in SUBSET ((Askers \ {a}) \ {holder})
          BY <5>2, <2>1
        <5>5. Cardinality(Waiting) \in Nat /\ Cardinality(Waiting) + 1 <= Cardinality(Askers \ {a})
          BY <5>1, <5>2, <5>3, <5>4, RoomForOne
        <5>6. Cardinality(Askers) \in Nat
          BY FaaAssumptions, FS_CardinalityType
        <5> QED
          BY <4>2, <5>3, <5>5, <5>6, <2>3
      <4> QED
        BY <4>1, <4>2
    <3> SUFFICES ASSUME NEW b \in Askers
                 PROVE  /\ stage'[b] = "idle" => calls'[b] = 0
                        /\ stage'[b] = "waiting" => calls'[b] + Cardinality(ahead'[b]) + 1 <= Cardinality(Askers)
                        /\ stage'[b] = "fetching" => calls'[b] <= Cardinality(Askers)
      BY DEF CallsInv
    <3>2. CASE b = a
      <4>1. stage'[b] = "waiting" /\ ahead'[b] = Waiting
        BY <3>2, <2>3
      <4> QED
        BY <3>1, <3>2, <4>1
    <3>3. CASE b # a
      <4>1. stage'[b] = stage[b] /\ ahead'[b] = ahead[b] /\ calls'[b] = calls[b]
        BY <3>3, <2>3
      <4> QED
        BY <4>1 DEF CallsInv
    <3> QED
      BY <3>2, <3>3
  <2> QED
    BY <2>2, <2>4, <2>5, <2>6
<1> QED
  BY <1>1, <1>2, <1>3 DEF Ask

LEMMA TakeLockInv == ASSUME FaaInv, NEW a \in Askers, TakeLock(a) PROVE FaaInv'
<1> USE DEF FaaInv
<1>1. CASE Fresh
  <2>1. PICK code \in Airports : Leave(a, Status(code, doc, FALSE, heard < Ttl))
    BY <1>1 DEF TakeLock
  <2>2. Status(code, doc, FALSE, heard < Ttl) \in Replies
    BY HeardStatus
  <2>3. UNCHANGED <<cache, heard>>
    BY <1>1 DEF TakeLock
  <2>4. stage[a] # "fetching"
    BY DEF TakeLock, Granted
  <2> QED
    BY <2>1, <2>2, <2>3, <2>4, LeaveAlone
<1>2. CASE ~Fresh
  BY <1>2, Calling DEF TakeLock, Granted
<1> QED
  BY <1>1, <1>2

LEMMA FetchOkInv == ASSUME FaaInv, NEW a \in Askers, FetchOk(a) PROVE FaaInv'
<1> USE DEF FaaInv
<1>1. PICK rows \in Documents, code \in Airports :
        known' = TRUE /\ doc' = Parse(rows) /\ Leave(a, Status(code, Parse(rows), FALSE, TRUE))
  BY DEF FetchOk
<1>2. Status(code, Parse(rows), FALSE, TRUE) \in Replies
  BY StatusType
<1>3. Parse(rows) \in SUBSET Airports
  BY DEF Parse, Documents, Rows
<1>4. age' = since[a] /\ heard' = 0 /\ holder' = None /\ holder = a
  BY DEF FetchOk, LockInv
<1>5. TypeOK'
  <2>1. known' \in BOOLEAN /\ doc' \in SUBSET Airports
    BY <1>1, <1>3, Zenon
  <2>2. age' \in 0 .. Ttl /\ heard' \in 0 .. Ttl /\ holder' \in Askers \union {None}
    BY <1>4, FaaAssumptions DEF TypeOK
  <2> QED
    BY <1>1, <1>2, <2>1, <2>2, Leaving DEF TypeOK
<1>6. LockInv'
  BY <1>1, <1>4, FaaAssumptions DEF LockInv, Leave, TypeOK
<1>7. AgeInv'
  BY <1>4, FaaAssumptions DEF AgeInv, TypeOK
<1> QED
  BY <1>1, <1>2, <1>5, <1>6, <1>7, Leaving

\* Whoever gives the lock back without touching the document.
LEMMA LockBack ==
  ASSUME FaaInv, NEW a \in Askers, NEW r \in Replies, Leave(a, r),
         holder' = IF holder = a THEN None ELSE holder, UNCHANGED <<known, doc, age, heard>>
  PROVE  FaaInv'
<1> USE DEF FaaInv
<1>1. TypeOK'
  BY Leaving DEF TypeOK
<1>2. LockInv'
  BY FaaAssumptions DEF LockInv, Leave, TypeOK
<1>3. AgeInv'
  BY DEF AgeInv
<1> QED
  BY <1>1, <1>2, <1>3, Leaving

LEMMA FetchFailsInv == ASSUME FaaInv, NEW a \in Askers, FetchFails(a) PROVE FaaInv'
<1>1. PICK code \in Airports :
        Leave(a, IF known THEN Status(code, doc, TRUE, heard < Ttl) ELSE Unavailable)
  BY DEF FetchFails
<1>2. (IF known THEN Status(code, doc, TRUE, heard < Ttl) ELSE Unavailable) \in Replies
  BY HeardStatus, ReplyConstants DEF FaaInv
<1>3. holder' = (IF holder = a THEN None ELSE holder) /\ UNCHANGED <<known, doc, age, heard>>
  BY DEF FetchFails, FaaInv, LockInv
<1> QED
  BY <1>1, <1>2, <1>3, LockBack

LEMMA CancelInv == ASSUME FaaInv, NEW a \in Askers, Cancel(a) PROVE FaaInv'
BY ReplyConstants, LockBack DEF Cancel

LEMMA TickInv == ASSUME FaaInv, Tick PROVE FaaInv'
<1> USE DEF FaaInv
<1>1. TypeOK'
  BY FaaAssumptions DEF Tick, TypeOK, Older
<1>2. LockInv' /\ LineInv' /\ CallsInv'
  BY DEF Tick, LockInv, LineInv, Line, CallsInv, Waiting
<1>3. AgeInv'
  BY FaaAssumptions DEF Tick, AgeInv, TypeOK, Older
<1> QED
  BY <1>1, <1>2, <1>3

\* The lock has one holder at most, waiters form a line, and what an asker of the FAA
\* status has sat through and those in front of him fit into one round (_Cache.get).
THEOREM CacheInvariant == Spec => []FaaInv
<1>1. FaaInv /\ [Next]_faaVars => FaaInv'
  <2> SUFFICES ASSUME FaaInv, [Next]_faaVars PROVE FaaInv'
    OBVIOUS
  <2>1. CASE Tick
    BY <2>1, TickInv
  <2>2. ASSUME NEW a \in Askers, Ask(a) \/ Proceed(a) \/ Cancel(a) PROVE FaaInv'
    BY <2>2, AskInv, TakeLockInv, FetchOkInv, FetchFailsInv, CancelInv DEF Proceed
  <2>3. CASE UNCHANGED faaVars
    BY <2>3 DEF faaVars, cache, FaaInv, TypeOK, LockInv, LineInv, Line, AgeInv, CallsInv, Waiting
  <2> QED
    BY <2>1, <2>2, <2>3 DEF Next
<1> QED
  BY <1>1, InitInv, PTL DEF Spec

\* Nobody sits through more calls of the feed than there are askers.
THEOREM WaitBounded == Spec => []WaitIsBounded
<1>1. FaaInv => WaitIsBounded
  <2> SUFFICES ASSUME FaaInv, NEW a \in Askers PROVE calls[a] <= Cardinality(Askers)
    BY DEF WaitIsBounded
  <2>1. stage[a] \in {"idle", "waiting", "fetching"} /\ calls[a] \in Nat
    BY DEF FaaInv, TypeOK
  <2>2. ahead[a] \in SUBSET Askers
    BY DEF FaaInv, TypeOK
  <2>3. Cardinality(Askers) \in Nat /\ Cardinality(ahead[a]) \in Nat
    BY <2>2, FaaAssumptions, FS_Subset, FS_CardinalityType
  <2> QED
    BY <2>1, <2>3 DEF FaaInv, CallsInv
<1> QED
  BY <1>1, CacheInvariant, PTL

\* A call of the feed starts while no other is on its way and no document is fresh.
THEOREM FeedSpared == Spec => FeedIsSpared
<1> DEFINE Spared ==
      \A a \in Askers : stage[a] # "fetching" /\ stage'[a] = "fetching" =>
        /\ \A b \in Askers : stage[b] # "fetching"
        /\ ~known \/ age = Ttl
<1>1. FaaInv /\ [Next]_faaVars => Spared
  <2> SUFFICES ASSUME FaaInv, [Next]_faaVars, NEW a \in Askers,
                      stage[a] # "fetching", stage'[a] = "fetching"
               PROVE  (\A b \in Askers : stage[b] # "fetching") /\ (~known \/ age = Ttl)
    OBVIOUS
  <2>1. holder = None /\ ~Fresh => /\ \A b \in Askers : stage[b] # "fetching"
                                   /\ ~known \/ age = Ttl
    BY FaaAssumptions DEF FaaInv, TypeOK, LockInv, Fresh
  <2>2. ASSUME NEW c \in Askers, NEW r, Leave(c, r) PROVE FALSE
    <3>1. stage'[a] = IF a = c THEN "idle" ELSE stage[a]
      BY <2>2 DEF Leave, FaaInv, TypeOK
    <3> QED
      BY <3>1
  <2>3. CASE Tick
    BY <2>3 DEF Tick
  <2>4. ASSUME NEW c \in Askers, Ask(c) PROVE holder = None /\ ~Fresh
    <3>1. ~\E code \in Airports : Leave(c, Status(code, doc, FALSE, heard < Ttl))
      BY <2>2
    <3>2. CASE stage' = [stage EXCEPT ![c] = "waiting"]
      BY <3>2 DEF FaaInv, TypeOK
    <3> QED
      BY <2>4, <3>1, <3>2 DEF Ask
  <2>5. ASSUME NEW c \in Askers, TakeLock(c) PROVE holder = None /\ ~Fresh
    BY <2>2, <2>5 DEF TakeLock, Granted
  <2>6. ASSUME NEW c \in Askers, FetchOk(c) \/ FetchFails(c) \/ Cancel(c) PROVE FALSE
    BY <2>2, <2>6 DEF FetchOk, FetchFails, Cancel
  <2>7. CASE UNCHANGED faaVars
    BY <2>7 DEF faaVars
  <2> QED
    BY <2>1, <2>3, <2>4, <2>5, <2>6, <2>7 DEF Next, Proceed
<1> QED
  BY <1>1, CacheInvariant, PTL DEF Spec, FeedIsSpared

\* The reply r, if it bears no mark, is what the feed said less than a TTL ago.
Sound(r) == r.says \in {"normal operations", "impacts"} /\ ~r.stale => r.recent

LEMMA CacheIsRecent == ASSUME FaaInv, Fresh PROVE heard < Ttl
BY FaaAssumptions DEF FaaInv, TypeOK, AgeInv, Fresh

LEMMA LeaveSound ==
  ASSUME FaaInv, FreshOrMarked, NEW a \in Askers, NEW r, Sound(r), Leave(a, r)
  PROVE  FreshOrMarked'
<1> SUFFICES ASSUME NEW b \in Askers PROVE Sound(reply'[b])
  BY DEF FreshOrMarked, Sound
<1>1. reply'[b] = IF b = a THEN r ELSE reply[b]
  BY DEF Leave, FaaInv, TypeOK
<1>2. Sound(reply[b])
  BY DEF FreshOrMarked, Sound
<1> QED
  BY <1>1, <1>2

LEMMA ResetSound ==
  ASSUME FaaInv, FreshOrMarked, NEW a \in Askers, reply' = [reply EXCEPT ![a] = NoReply]
  PROVE  FreshOrMarked'
<1> SUFFICES ASSUME NEW b \in Askers PROVE Sound(reply'[b])
  BY DEF FreshOrMarked, Sound
<1>1. reply'[b] = IF b = a THEN NoReply ELSE reply[b]
  BY DEF FaaInv, TypeOK
<1>2. Sound(reply[b]) /\ Sound(NoReply)
  BY DEF FreshOrMarked, Sound, NoReply
<1> QED
  BY <1>1, <1>2

\* A live status without the stale mark is never older than the TTL (_Cache.get).
THEOREM StatusIsFresh == Spec => []FreshOrMarked
<1>1. FaaInv /\ FreshOrMarked /\ [Next]_faaVars => FreshOrMarked'
  <2> SUFFICES ASSUME FaaInv, FreshOrMarked, [Next]_faaVars PROVE FreshOrMarked'
    OBVIOUS
  <2>1. ASSUME NEW a \in Askers, Fresh,
               \E code \in Airports : Leave(a, Status(code, doc, FALSE, heard < Ttl))
        PROVE  FreshOrMarked'
    <3>1. PICK code \in Airports : Leave(a, Status(code, doc, FALSE, heard < Ttl))
      BY <2>1
    <3>2. Sound(Status(code, doc, FALSE, heard < Ttl))
      BY <2>1, CacheIsRecent DEF Sound, Status
    <3> QED
      BY <3>1, <3>2, LeaveSound
  <2>2. ASSUME NEW a \in Askers, CallFeed(a) PROVE FreshOrMarked'
    BY <2>2, ResetSound DEF CallFeed
  <2>3. ASSUME NEW a \in Askers, Ask(a) PROVE FreshOrMarked'
    BY <2>1, <2>2, <2>3, ResetSound DEF Ask
  <2>4. ASSUME NEW a \in Askers, TakeLock(a) PROVE FreshOrMarked'
    BY <2>1, <2>2, <2>4 DEF TakeLock
  <2>5. ASSUME NEW a \in Askers, FetchOk(a) PROVE FreshOrMarked'
    <3>1. PICK rows \in Documents, code \in Airports : Leave(a, Status(code, Parse(rows), FALSE, TRUE))
      BY <2>5 DEF FetchOk
    <3>2. Sound(Status(code, Parse(rows), FALSE, TRUE))
      BY DEF Sound, Status
    <3> QED
      BY <3>1, <3>2, LeaveSound
  <2>6. ASSUME NEW a \in Askers, FetchFails(a) PROVE FreshOrMarked'
    <3>1. PICK code \in Airports :
            Leave(a, IF known THEN Status(code, doc, TRUE, heard < Ttl) ELSE Unavailable)
      BY <2>6 DEF FetchFails
    <3>2. Sound(IF known THEN Status(code, doc, TRUE, heard < Ttl) ELSE Unavailable)
      BY DEF Sound, Status, Unavailable
    <3> QED
      BY <3>1, <3>2, LeaveSound
  <2>7. ASSUME NEW a \in Askers, Cancel(a) PROVE FreshOrMarked'
    <3>1. Sound(NoReply)
      BY DEF Sound, NoReply
    <3> QED
      BY <2>7, <3>1, LeaveSound DEF Cancel
  <2>8. CASE Tick \/ UNCHANGED faaVars
    BY <2>8 DEF Tick, faaVars, FreshOrMarked
  <2> QED
    BY <2>3, <2>4, <2>5, <2>6, <2>7, <2>8 DEF Next, Proceed
<1> QED
  BY <1>1, InitInv, CacheInvariant, PTL DEF Spec

----------------------------------------------------------------------------
(* How long an asker can wait, and that the line never stands still.        *)

\* The steps between an asker and its answer: for each call in front of it, and its own,
\* the lock is taken and given back.
AskerRank(a) ==
  CASE stage[a] = "waiting" -> 2 * Cardinality(ahead[a]) + (IF holder = None THEN 2 ELSE 3)
    [] stage[a] = "fetching" -> 1
    [] OTHER -> 0

\* A lock taken, a call that ends and a hit after the wait bring every open question nearer
\* to its answer; no question, cancelled request or passing of time puts one back.
AskersGoOn ==
  \A a \in Askers : stage[a] # "idle" =>
    /\ AskerRank(a)' <= AskerRank(a)
    /\ (\E b \in Askers : Proceed(b)) => AskerRank(a)' < AskerRank(a)

LEMMA AheadType ==
  ASSUME FaaInv, NEW a \in Askers
  PROVE  /\ IsFiniteSet(ahead[a]) /\ Cardinality(ahead[a]) \in Nat
         /\ Cardinality(ahead[a]) + 1 <= Cardinality(Askers) /\ Cardinality(Askers) \in Nat
         /\ AskerRank(a) \in 0 .. (2 * Cardinality(Askers) + 1)
<1>1. ahead[a] \in SUBSET (Askers \ {a})
  BY DEF FaaInv, LineInv, Line, TypeOK
<1>2. /\ IsFiniteSet(ahead[a]) /\ Cardinality(ahead[a]) \in Nat
      /\ Cardinality(ahead[a]) + 1 <= Cardinality(Askers) /\ Cardinality(Askers) \in Nat
  BY <1>1, RoomForOne, FaaAssumptions, FS_CardinalityType
<1> DEFINE front == Cardinality(ahead[a])
           all == Cardinality(Askers)
<1>3. AskerRank(a) \in {0, 1, 2 * front + 2, 2 * front + 3}
  BY DEF AskerRank
<1>4. front \in Nat /\ all \in Nat /\ front + 1 <= all
  BY <1>2
<1>5. AskerRank(a) \in 0 .. (2 * all + 1)
  <2> HIDE DEF front, all
  <2> QED
    BY <1>3, <1>4
<1> QED
  BY <1>2, <1>5

\* A waiter who stays in line, with fewer in front or a lock that came back.
LEMMA WaiterStays ==
  ASSUME FaaInv, NEW a \in Askers, stage[a] = "waiting", stage'[a] = "waiting",
         ahead'[a] \subseteq ahead[a], holder' = holder \/ holder' = None
  PROVE  /\ AskerRank(a)' <= AskerRank(a)
         /\ holder # None /\ holder' = None => AskerRank(a)' < AskerRank(a)
<1> DEFINE old == Cardinality(ahead[a])
           new == Cardinality(ahead'[a])
<1>1. old \in Nat /\ new \in Nat /\ new <= old
  BY AheadType, FS_Subset, FS_CardinalityType
<1>2. /\ AskerRank(a) = 2 * old + (IF holder = None THEN 2 ELSE 3)
      /\ AskerRank(a)' = 2 * new + (IF holder' = None THEN 2 ELSE 3)
  BY DEF AskerRank
<1> HIDE DEF old, new
<1> QED
  BY <1>1, <1>2

\* ... and one before whom the first in line takes the lock.
LEMMA WaiterMovesUp ==
  ASSUME FaaInv, NEW a \in Askers, stage[a] = "waiting", stage'[a] = "waiting", holder = None,
         NEW b \in ahead[a], ahead'[a] = ahead[a] \ {b}
  PROVE  AskerRank(a)' < AskerRank(a)
<1> DEFINE old == Cardinality(ahead[a])
           new == Cardinality(ahead'[a])
<1>1. old \in Nat /\ new = old - 1
  BY AheadType, FS_RemoveElement
<1>2. /\ AskerRank(a) = 2 * old + 2
      /\ AskerRank(a)' \in {2 * new + 2, 2 * new + 3}
  BY DEF AskerRank
<1> HIDE DEF old, new
<1> QED
  BY <1>1, <1>2

LEMMA AskNearer ==
  ASSUME FaaInv, NEW b \in Askers, Ask(b), NEW a \in Askers, stage[a] # "idle"
  PROVE  AskerRank(a)' <= AskerRank(a)
<1>0. /\ stage \in [Askers -> {"idle", "waiting", "fetching"}] /\ ahead \in [Askers -> SUBSET Askers]
      /\ a # b /\ stage[b] = "idle"
  BY DEF FaaInv, TypeOK, Ask
<1>1. ASSUME NEW r, Leave(b, r), holder' = holder PROVE AskerRank(a)' <= AskerRank(a)
  <2>1. stage'[a] = stage[a] /\ ahead'[a] \subseteq ahead[a]
    BY <1>0, <1>1 DEF Leave
  <2>2. CASE stage[a] = "waiting"
    BY <1>1, <2>1, <2>2, WaiterStays
  <2>3. CASE stage[a] = "fetching"
    BY <2>1, <2>3 DEF AskerRank
  <2> QED
    BY <1>0, <2>2, <2>3
<1>2. CASE holder = None /\ Waiting = {}
  <2>1. stage[a] # "waiting" /\ stage[a] # "fetching"
    BY <1>2, FaaAssumptions DEF Waiting, FaaInv, LockInv
  <2> QED
    BY <1>0, <2>1
<1>3. ASSUME stage' = [stage EXCEPT ![b] = "waiting"], ahead' = [ahead EXCEPT ![b] = Waiting],
             UNCHANGED cache
      PROVE  AskerRank(a)' <= AskerRank(a)
  <2>1. stage'[a] = stage[a] /\ ahead'[a] = ahead[a] /\ holder' = holder
    BY <1>0, <1>3 DEF cache
  <2>2. AskerRank(a)' = AskerRank(a) /\ AskerRank(a) \in Nat
    BY <2>1, AheadType DEF AskerRank
  <2> QED
    BY <2>2
<1> QED
  BY <1>1, <1>2, <1>3 DEF Ask, cache

LEMMA ProceedNearer ==
  ASSUME FaaInv, NEW b \in Askers, Proceed(b), NEW a \in Askers, stage[a] # "idle"
  PROVE  AskerRank(a)' < AskerRank(a)
<1>0. /\ stage \in [Askers -> {"idle", "waiting", "fetching"}] /\ ahead \in [Askers -> SUBSET Askers]
      /\ None \notin Askers
  BY FaaAssumptions DEF FaaInv, TypeOK
<1>1. CASE TakeLock(b)
  <2>1. holder = None /\ stage[b] = "waiting" /\ ahead[b] = {}
    BY <1>1 DEF TakeLock, Granted
  <2>2. stage[a] = "waiting"
    BY <1>0, <2>1 DEF FaaInv, LockInv
  <2>3. /\ \A x \in Askers : x # b => stage'[x] = stage[x] /\ ahead'[x] = ahead[x] \ {b}
        /\ stage'[b] \in {"idle", "fetching"}
    BY <1>0, <1>1 DEF TakeLock, Leave, CallFeed
  <2>4. CASE a = b
    <3>1. AskerRank(a) = 2
      BY <2>1, <2>4, FS_EmptySet DEF AskerRank
    <3>2. AskerRank(a)' \in {0, 1}
      BY <2>3, <2>4 DEF AskerRank
    <3> QED
      BY <3>1, <3>2
  <2>5. CASE a # b
    <3>1. b \in ahead[a]
      BY <2>1, <2>2, <2>5 DEF FaaInv, LineInv, Line, Waiting
    <3> QED
      BY <2>1, <2>2, <2>3, <2>5, <3>1, WaiterMovesUp
  <2> QED
    BY <2>4, <2>5
<1>2. CASE FetchOk(b) \/ FetchFails(b)
  <2>1. stage[b] = "fetching" /\ holder' = None /\ \E r : Leave(b, r)
    BY <1>2 DEF FetchOk, FetchFails
  <2>2. holder = b /\ holder # None
    BY <1>0, <2>1 DEF FaaInv, LockInv
  <2>3. /\ stage'[b] = "idle"
        /\ \A x \in Askers : x # b => stage'[x] = stage[x] /\ ahead'[x] \subseteq ahead[x]
    BY <1>0, <2>1 DEF Leave
  <2>4. CASE a = b
    BY <2>1, <2>3, <2>4 DEF AskerRank
  <2>5. CASE a # b
    <3>1. stage[a] = "waiting"
      BY <1>0, <2>2, <2>5 DEF FaaInv, LockInv
    <3> QED
      BY <2>1, <2>2, <2>3, <2>5, <3>1, WaiterStays
  <2> QED
    BY <2>4, <2>5
<1> QED
  BY <1>1, <1>2 DEF Proceed

LEMMA CancelNearer ==
  ASSUME FaaInv, NEW b \in Askers, Cancel(b), NEW a \in Askers, stage[a] # "idle"
  PROVE  AskerRank(a)' <= AskerRank(a)
<1>0. /\ stage \in [Askers -> {"idle", "waiting", "fetching"}] /\ ahead \in [Askers -> SUBSET Askers]
  BY DEF FaaInv, TypeOK
<1>1. /\ stage'[b] = "idle" /\ (holder' = holder \/ holder' = None)
      /\ \A x \in Askers : x # b => stage'[x] = stage[x] /\ ahead'[x] \subseteq ahead[x]
  BY <1>0 DEF Cancel, Leave
<1>2. CASE a = b
  <2>1. AskerRank(a)' = 0 /\ AskerRank(a) \in Nat
    BY <1>1, <1>2, AheadType DEF AskerRank
  <2> QED
    BY <2>1
<1>3. CASE a # b /\ stage[a] = "waiting"
  BY <1>1, <1>3, WaiterStays
<1>4. CASE a # b /\ stage[a] = "fetching"
  BY <1>1, <1>4 DEF AskerRank
<1> QED
  BY <1>0, <1>2, <1>3, <1>4

\* Nobody waits for ever behind the lock: every lock taken and every call that ends brings
\* everyone who waits nearer to his answer, at most 2 * Cardinality(Askers) + 1 such steps
\* away, however many more ask, fail or are cancelled.
THEOREM AskersGetNearer ==
  Spec => /\ [](\A a \in Askers : AskerRank(a) \in 0 .. (2 * Cardinality(Askers) + 1))
          /\ [][AskersGoOn]_faaVars
<1>1. FaaInv => \A a \in Askers : AskerRank(a) \in 0 .. (2 * Cardinality(Askers) + 1)
  BY AheadType
<1>2. FaaInv /\ [Next]_faaVars => [AskersGoOn]_faaVars
  <2> SUFFICES ASSUME FaaInv, Next, NEW a \in Askers, stage[a] # "idle"
               PROVE  /\ AskerRank(a)' <= AskerRank(a)
                      /\ (\E b \in Askers : Proceed(b)) => AskerRank(a)' < AskerRank(a)
    BY DEF AskersGoOn
  <2>1. AskerRank(a) \in Nat
    BY AheadType
  <2>2. CASE \E b \in Askers : Proceed(b)
    <3>1. AskerRank(a)' < AskerRank(a)
      BY <2>2, ProceedNearer
    <3>2. AskerRank(a)' \in Int
      <4>1. IsFiniteSet(ahead'[a])
        <5>0. PICK b \in Askers : Proceed(b)
          BY <2>2
        <5>2. ahead' = [x \in Askers |-> IF x = b THEN {} ELSE ahead[x] \ {b}]
          <6>1. CASE TakeLock(b)
            BY <6>1 DEF TakeLock, Leave, CallFeed
          <6>2. CASE FetchOk(b)
            BY <6>2 DEF FetchOk, Leave
          <6>3. CASE FetchFails(b)
            BY <6>3 DEF FetchFails, Leave
          <6> QED
            BY <5>0, <6>1, <6>2, <6>3 DEF Proceed
        <5>1. ahead'[a] \subseteq ahead[a]
          BY <5>2
        <5> QED
          BY <5>1, AheadType, FS_Subset
      <4>2. Cardinality(ahead'[a]) \in Nat
        BY <4>1, FS_CardinalityType
      <4> QED
        BY <4>2 DEF AskerRank
    <3> QED
      BY <2>1, <3>1, <3>2
  <2>3. CASE ~(\E b \in Askers : Proceed(b))
    <3>1. CASE Tick
      <4>1. AskerRank(a)' = AskerRank(a)
        BY <3>1 DEF Tick, AskerRank
      <4> QED
        BY <2>1, <2>3, <4>1
    <3> QED
      BY <2>3, <3>1, AskNearer, CancelNearer DEF Next
  <2> QED
    BY <2>2, <2>3
<1> QED
  BY <1>1, <1>2, CacheInvariant, PTL DEF Spec

\* The line of waiters has a first: one of them with the fewest in front.
LEMMA FirstInLine ==
  ASSUME FaaInv, NEW a \in Waiting
  PROVE  \E b \in Waiting : ahead[b] = {}
<1> DEFINE Less == OpToRel(<, Nat)
           lengths == {Cardinality(ahead[x]) : x \in Waiting}
<1>1. \A m, n \in Nat : m < n => <<m, n>> \in Less
  BY DEF OpToRel
<1>2. IsWellFoundedOn(Less, Nat)
  BY NatLessThanWellFounded, Zenon
<1> HIDE DEF Less
<1>3. Waiting \subseteq Askers
  BY DEF Waiting
<1>4. \A x \in Waiting : Cardinality(ahead[x]) \in Nat
  BY <1>3, AheadType
<1>5. lengths \in SUBSET Nat /\ lengths # {}
  BY <1>4
<1>6. PICK n \in lengths : \A m \in lengths : ~(<<m, n>> \in Less)
  <2> HIDE DEF lengths
  <2> QED
    BY <1>2, <1>5, WFMin
<1>7. PICK b \in Waiting : n = Cardinality(ahead[b])
  BY <1>6
<1>8. ASSUME NEW d \in ahead[b] PROVE FALSE
  <2>1. d \in Waiting /\ ahead[d] \subseteq ahead[b] \ {d}
    BY <1>3, <1>7 DEF FaaInv, LineInv, Line
  <2>2. IsFiniteSet(ahead[b]) /\ Cardinality(ahead[b]) \in Nat
    BY <1>3, <1>7, AheadType
  <2>3. Cardinality(ahead[d]) + 1 <= Cardinality(ahead[b])
    BY <2>1, <2>2, RoomForOne
  <2>4. Cardinality(ahead[d]) \in lengths /\ Cardinality(ahead[d]) \in Nat
    BY <1>4, <2>1
  <2>5. Cardinality(ahead[d]) < n
    BY <1>7, <2>2, <2>3, <2>4
  <2> QED
    BY <1>1, <1>5, <1>6, <2>4, <2>5
<1> QED
  BY <1>7, <1>8

\* While a question is open somebody is at a call of the feed, which ends, or is next to
\* take the lock that nobody holds: what guards Proceed.
NoStandstill ==
  (\E a \in Askers : stage[a] # "idle") =>
     \E b \in Askers : stage[b] = "fetching" \/ Granted(b)

\* The lock is never lost and the line never headless: whoever was cancelled with the lock
\* in his hands or in the middle of the line, someone can go on.
THEOREM NeverStandsStill == Spec => []NoStandstill
<1>1. FaaInv => NoStandstill
  <2> SUFFICES ASSUME FaaInv, NEW a \in Askers, stage[a] # "idle"
               PROVE  \E b \in Askers : stage[b] = "fetching" \/ Granted(b)
    BY DEF NoStandstill
  <2>1. CASE holder # None
    <3>1. holder \in Askers /\ stage[holder] = "fetching"
      BY <2>1 DEF FaaInv, TypeOK, LockInv
    <3> QED
      BY <3>1
  <2>2. CASE holder = None
    <3>1. a \in Waiting
      BY <2>2, FaaAssumptions DEF FaaInv, TypeOK, LockInv, Waiting
    <3>2. PICK b \in Waiting : ahead[b] = {}
      BY <3>1, FirstInLine
    <3>3. b \in Askers /\ Granted(b)
      BY <2>2, <3>2 DEF Granted, Waiting
    <3> QED
      BY <3>3
  <2> QED
    BY <2>1, <2>2
<1> QED
  BY <1>1, CacheInvariant, PTL
============================================================================
