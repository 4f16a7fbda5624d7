------------------------------ MODULE FaaCache ------------------------------
(***************************************************************************)
(* The one document the service keeps of the FAA status feed               *)
(* (services/agent/faa.py: _Cache, _fetch, parse, airport_status): a time  *)
(* to live, a lock, and an expired document served with a mark while the   *)
(* feed is down. An asker is a call of faa_live_status, again and again;   *)
(* its request may be cancelled (request timeout, disconnect) at any await.*)
(*                                                                         *)
(* asyncio.Lock is external: waiters are served in order, a waiter is      *)
(* passed over by nobody, and `async with` releases on cancellation too.   *)
(* Clocks are ages, which stop at Ttl: older than that makes no difference.*)
(***************************************************************************)
EXTENDS Naturals, FiniteSets

CONSTANTS
  Askers,    \* calls of faa_live_status that may be under way together
  Airports,  \* airports asked about
  Ttl,       \* settings.faa_cache_seconds
  None       \* no holder, no airport code

ASSUME FaaAssumptions ==
  /\ IsFiniteSet(Askers)
  /\ Ttl \in Nat \ {0}
  /\ None \notin Askers /\ None \notin Airports

VARIABLES
  known,   \* _doc is not None
  doc,     \* _doc: the airports it lists
  age,     \* now - _at
  holder,  \* the asker inside `async with self._lock`
  stage,   \* stage[a]: "idle", "waiting" for the lock, or "fetching" under it
  ahead,   \* ahead[a]: the waiters in front of a
  since,   \* since[a]: how long ago a read `now` under the lock
  reply,   \* reply[a]: what a was told to its last question
  heard,   \* history - how long ago the feed itself gave the document
  calls    \* history - calls[a]: calls of the feed a has had to sit through so far

cache == <<known, doc, age, holder>>
faaVars == <<cache, stage, ahead, since, reply, heard, calls>>

\* The four sections parse dispatches on; anything else in the document is skipped.
Sections == {"ground_stops", "ground_delays", "delays", "closures"}

\* What the feed publishes: a row of a known section or of another, with or without a code.
Rows == [section : {"ground_stops", "other"}, iata : Airports \union {None}]
Documents == {{row} : row \in Rows}

\* parse and _entry: rows of a known section that name an airport.
Parse(rows) ==
  {row.iata : row \in {r \in rows : r.section \in Sections /\ r.iata # None}}

\* airport_status. History - `recent`: the feed itself said so less than a TTL ago.
Says == {"nothing", "unavailable", "normal operations", "impacts"}
Replies == [says : Says, stale : BOOLEAN, recent : BOOLEAN]
Status(code, document, stale, recent) ==
  [says |-> IF code \in document THEN "impacts" ELSE "normal operations",
   stale |-> stale, recent |-> recent]
NoReply == [says |-> "nothing", stale |-> FALSE, recent |-> FALSE]
Unavailable == [says |-> "unavailable", stale |-> FALSE, recent |-> FALSE]

Waiting == {a \in Askers : stage[a] = "waiting"}

\* _doc is not None and now - _at < ttl.
Fresh == known /\ age < Ttl

Init ==
  /\ known = FALSE /\ doc = {} /\ age = Ttl /\ holder = None
  /\ stage = [a \in Askers |-> "idle"]
  /\ ahead = [a \in Askers |-> {}]
  /\ since = [a \in Askers |-> 0]
  /\ reply = [a \in Askers |-> NoReply]
  /\ heard = Ttl
  /\ calls = [a \in Askers |-> 0]

----------------------------------------------------------------------------
\* a leaves with this reply, from wherever it stands.
Leave(a, r) ==
  /\ stage' = [stage EXCEPT ![a] = "idle"]
  /\ ahead' = [b \in Askers |-> IF b = a THEN {} ELSE ahead[b] \ {a}]
  /\ since' = [since EXCEPT ![a] = 0]
  /\ reply' = [reply EXCEPT ![a] = r]
  /\ calls' = [calls EXCEPT ![a] = 0]

\* a, now holding the lock, calls the feed: a and all who wait sit through it.
CallFeed(a) ==
  /\ holder' = a
  /\ stage' = [stage EXCEPT ![a] = "fetching"]
  /\ ahead' = [b \in Askers |-> IF b = a THEN {} ELSE ahead[b] \ {a}]
  /\ since' = [since EXCEPT ![a] = 0]
  /\ calls' = [b \in Askers |-> IF b = a \/ stage[b] = "waiting" THEN calls[b] + 1 ELSE calls[b]]
  /\ reply' = [reply EXCEPT ![a] = NoReply]
  /\ UNCHANGED <<known, doc, age, heard>>

\* get, up to the lock, which it takes at once when nobody holds it or waits for it.
Ask(a) ==
  /\ stage[a] = "idle"
  /\ \/ /\ Fresh
        /\ \E code \in Airports : Leave(a, Status(code, doc, FALSE, heard < Ttl))
        /\ UNCHANGED <<cache, heard>>
     \/ /\ ~Fresh /\ holder = None /\ Waiting = {}
        /\ CallFeed(a)
     \/ /\ ~Fresh /\ (holder # None \/ Waiting # {})
        /\ stage' = [stage EXCEPT ![a] = "waiting"]
        /\ ahead' = [ahead EXCEPT ![a] = Waiting]
        /\ calls' = [calls EXCEPT ![a] = IF holder = None THEN 0 ELSE 1]
        /\ reply' = [reply EXCEPT ![a] = NoReply]
        /\ UNCHANGED <<cache, since, heard>>

\* The lock is free and a is first in line.
Granted(a) == holder = None /\ stage[a] = "waiting" /\ ahead[a] = {}

\* Mutant: the document is not looked at again under the lock.
TakeLockAndCall(a) == Granted(a) /\ CallFeed(a)

\* The lock is a's: another request may have refreshed the document while a waited.
TakeLock(a) ==
  /\ Granted(a)
  /\ \/ /\ Fresh
        /\ \E code \in Airports : Leave(a, Status(code, doc, FALSE, heard < Ttl))
        /\ UNCHANGED <<cache, heard>>
     \/ ~Fresh /\ CallFeed(a)

\* _fetch got and parsed a document. It is as old as the call: _at is `now` from before.
FetchOk(a) ==
  /\ stage[a] = "fetching"
  /\ \E rows \in Documents, code \in Airports :
       /\ known' = TRUE /\ doc' = Parse(rows)
       /\ Leave(a, Status(code, Parse(rows), FALSE, TRUE))
  /\ age' = since[a] /\ heard' = 0 /\ holder' = None

\* Mutant: a failed call spares the feed for another TTL.
FetchFailsAndWaits(a) ==
  /\ stage[a] = "fetching"
  /\ \E code \in Airports :
       Leave(a, IF known THEN Status(code, doc, TRUE, heard < Ttl) ELSE Unavailable)
  /\ age' = 0 /\ holder' = None
  /\ UNCHANGED <<known, doc, heard>>

\* Mutant: the call is made again until the feed answers.
FetchFailsAndRetries(a) == stage[a] = "fetching" /\ CallFeed(a)

\* _fetch got an error, a timeout, a body over the cap or no XML: it never raises. The
\* last good document, marked, is better than nothing; the mark is on a copy.
FetchFails(a) ==
  /\ stage[a] = "fetching"
  /\ \E code \in Airports :
       Leave(a, IF known THEN Status(code, doc, TRUE, heard < Ttl) ELSE Unavailable)
  /\ holder' = None
  /\ UNCHANGED <<known, doc, age, heard>>

\* Mutant: lock.acquire() and lock.release() without a finally.
CancelKeepsLock(a) ==
  /\ stage[a] # "idle"
  /\ Leave(a, NoReply)
  /\ UNCHANGED <<cache, heard>>

\* The request of a is cancelled while it waits or fetches.
Cancel(a) ==
  /\ stage[a] # "idle"
  /\ Leave(a, NoReply)
  /\ holder' = IF holder = a THEN None ELSE holder
  /\ UNCHANGED <<known, doc, age, heard>>

Older(n) == IF n < Ttl THEN n + 1 ELSE Ttl

\* Time passes.
Tick ==
  /\ age' = Older(age) /\ heard' = Older(heard)
  /\ since' = [a \in Askers |-> IF stage[a] = "fetching" THEN Older(since[a]) ELSE since[a]]
  /\ UNCHANGED <<known, doc, holder, stage, ahead, reply, calls>>

\* What the event loop and the timeouts of httpx bring about.
Proceed(a) == TakeLock(a) \/ FetchOk(a) \/ FetchFails(a)

Next == Tick \/ \E a \in Askers : Ask(a) \/ Proceed(a) \/ Cancel(a)

Spec == Init /\ [][Next]_faaVars

\* The event loop runs every task, and a call of the feed ends.
FairSpec == Spec /\ \A a \in Askers : WF_faaVars(Proceed(a))

----------------------------------------------------------------------------
TypeOK ==
  /\ known \in BOOLEAN /\ doc \in SUBSET Airports
  /\ age \in 0 .. Ttl
  /\ holder \in Askers \union {None}
  /\ stage \in [Askers -> {"idle", "waiting", "fetching"}]
  /\ ahead \in [Askers -> SUBSET Askers]
  /\ since \in [Askers -> 0 .. Ttl]
  /\ reply \in [Askers -> Replies]
  /\ heard \in 0 .. Ttl
  /\ calls \in [Askers -> Nat]

\* Whatever fails, waits or is cancelled in between: a status without the stale mark is
\* one the feed itself gave less than a TTL ago.
FreshOrMarked ==
  \A a \in Askers : reply[a].says \in {"normal operations", "impacts"} /\ ~reply[a].stale
                      => reply[a].recent

\* "without it, N concurrent questions on a cold cache become N calls to a public government
\* feed" (_Cache's docstring): a call starts only while no other is on its way, and never
\* within a TTL of the start of a call that succeeded.
FeedIsSpared ==
  [][\A a \in Askers : stage[a] # "fetching" /\ stage'[a] = "fetching" =>
       /\ \A b \in Askers : stage[b] # "fetching"
       /\ ~known \/ age = Ttl]_faaVars

\* While the feed is down everyone behind the lock calls it for himself, one after the
\* other: nobody sits through more calls than there are askers, his own included.
WaitIsBounded == \A a \in Askers : calls[a] <= Cardinality(Askers)

\* Every question is answered, however many were cancelled with the lock in their hands.
EveryAskerIsAnswered == \A a \in Askers : stage[a] # "idle" ~> stage[a] = "idle"

----------------------------------------------------------------------------
(* The inductive invariant behind these properties.                         *)

\* The lock is held exactly while its holder calls the feed.
LockInv == \A a \in Askers : stage[a] = "fetching" <=> holder = a

\* The waiters w form a line: each is in front of or behind each other, never both.
Line(w, front) ==
  \A a \in Askers :
    /\ front[a] \subseteq w \ {a}
    /\ a \notin w => front[a] = {}
    /\ \A b \in w : a \in w /\ a # b => (b \in front[a] <=> a \notin front[b])
    /\ \A b \in front[a] : front[b] \subseteq front[a]
LineInv == Line(Waiting, ahead)

\* The document is at least as recent as the code takes it to be.
AgeInv == known => heard <= age

\* What an asker has sat through and those still in front of him fit into one round.
CallsInv ==
  \A a \in Askers :
    /\ stage[a] = "idle" => calls[a] = 0
    /\ stage[a] = "waiting" => calls[a] + Cardinality(ahead[a]) + 1 <= Cardinality(Askers)
    /\ stage[a] = "fetching" => calls[a] <= Cardinality(Askers)

FaaInv == TypeOK /\ LockInv /\ LineInv /\ AgeInv /\ CallsInv
=============================================================================
