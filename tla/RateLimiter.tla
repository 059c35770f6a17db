----------------------------- MODULE RateLimiter -----------------------------
(***************************************************************************)
(* gateway.RateLimiter: a map of buckets under one mutex, touched by       *)
(* allow() for every request and by evictLoop in the background.  Time is  *)
(* relative: a bucket keeps the ticks left until its resetAt, 0 when       *)
(* resetAt is now and -1 for every moment after it (now.After(resetAt)).   *)
(***************************************************************************)
EXTENDS Integers

CONSTANTS
  Clients,
  Limit,        \* limit
  Window,       \* window, in ticks
  MinSweep      \* the 10 seconds below which evictLoop's interval never goes

\* loadConfig accepts positive values only.
ASSUME LimiterAssumption ==
  Limit \in Nat \ {0} /\ Window \in Nat \ {0} /\ MinSweep \in Nat \ {0}

VARIABLES
  buckets,  \* per client: its bucket, NoBucket when the map has none
  sweep,    \* ticks until evictLoop's ticker fires
  answer    \* the last answer of allow()

lvars == <<buckets, sweep, answer>>

NoBucket == [count |-> 0, left |-> -1]

Bucket == [count: 1..Limit, left: -1..Window]

Interval == IF 2 * Window < MinSweep THEN MinSweep ELSE 2 * Window

LInit ==
  /\ buckets = [c \in Clients |-> NoBucket]
  /\ sweep = Interval
  /\ \E c \in Clients : answer = [client |-> c, ok |-> TRUE]

----------------------------------------------------------------------------
\* !ok || now.After(b.resetAt): allow() makes a new bucket.
Fresh(c) == buckets[c].left < 0

Renew(c) == [buckets EXCEPT ![c] = [count |-> 1, left |-> Window]]

Take(c) ==
  [buckets EXCEPT ![c] = [count |-> buckets[c].count + 1, left |-> buckets[c].left]]

AllowFirst(c) ==
  /\ Fresh(c)
  /\ buckets' = Renew(c)
  /\ answer' = [client |-> c, ok |-> TRUE]
  /\ UNCHANGED sweep

\* Mutant of AllowMore: one request too many.
AllowOneMore(c) ==
  /\ ~Fresh(c)
  /\ buckets[c].count <= Limit
  /\ buckets' = Take(c)
  /\ answer' = [client |-> c, ok |-> TRUE]
  /\ UNCHANGED sweep

AllowMore(c) ==
  /\ ~Fresh(c)
  /\ buckets[c].count < Limit
  /\ buckets' = Take(c)
  /\ answer' = [client |-> c, ok |-> TRUE]
  /\ UNCHANGED sweep

Refused(c) == ~Fresh(c) /\ buckets[c].count >= Limit

\* Mutant of Refuse: a refused request starts the window again.
RefuseProlongs(c) ==
  /\ Refused(c)
  /\ buckets' = [buckets EXCEPT ![c] = [count |-> buckets[c].count, left |-> Window]]
  /\ answer' = [client |-> c, ok |-> FALSE]
  /\ UNCHANGED sweep

Refuse(c) ==
  /\ Refused(c)
  /\ answer' = [client |-> c, ok |-> FALSE]
  /\ UNCHANGED <<buckets, sweep>>

\* Mutants of Evict: the test for expiry is left out, or the wrong way round.
EvictAll ==
  /\ sweep = 0
  /\ buckets' = [c \in Clients |-> NoBucket]
  /\ sweep' = Interval
  /\ UNCHANGED answer

EvictLive ==
  /\ sweep = 0
  /\ buckets' = [c \in Clients |-> IF buckets[c].left < 0 THEN buckets[c] ELSE NoBucket]
  /\ sweep' = Interval
  /\ UNCHANGED answer

\* The ticker fires and, under the mutex, every expired bucket is deleted.
Evict ==
  /\ sweep = 0
  /\ buckets' = [c \in Clients |-> IF buckets[c].left < 0 THEN NoBucket ELSE buckets[c]]
  /\ sweep' = Interval
  /\ UNCHANGED answer

Older(n) == IF n >= 0 THEN n - 1 ELSE -1

\* Time passes.  The eviction may be late: it waits for the mutex and the
\* scheduler while the ticker stays due.
Tick ==
  /\ buckets' = [c \in Clients |->
                   [count |-> buckets[c].count, left |-> Older(buckets[c].left)]]
  /\ sweep' = IF sweep > 0 THEN sweep - 1 ELSE 0
  /\ UNCHANGED answer

LNext ==
  \/ \E c \in Clients : AllowFirst(c) \/ AllowMore(c) \/ Refuse(c)
  \/ Evict
  \/ Tick

Limiter == LInit /\ [][LNext]_lvars

----------------------------------------------------------------------------
\* A bucket in the map has counted at least the request that made it and never
\* more than limit; timers stay in their range.
LimiterTypeOK ==
  /\ buckets \in [Clients -> Bucket \cup {NoBucket}]
  /\ sweep \in 0..Interval
  /\ answer \in [client: Clients, ok: BOOLEAN]

\* The documented limiter, seen through the map.
Documented == INSTANCE FixedWindow WITH
  used <- [c \in Clients |-> IF Fresh(c) THEN 0 ELSE buckets[c].count],
  left <- [c \in Clients |-> buckets[c].left]

\* allow() answers as a fixed-window limiter that keeps every client's window
\* exactly: an eviction never forgets a window that is still open, a refused
\* request neither uses nor prolongs it, and no client is refused early.
ImplementsFixedWindow == Documented!Windows

\* A client that has used up its window gets out of it however often it asks.
RefusalEnds == \A c \in Clients : Refused(c) ~> Fresh(c)

\* A bucket whose window is over does not stay in the map: evictLoop deletes it
\* unless the client comes back ("to prevent unbounded memory growth").
BucketsReclaimed ==
  \A c \in Clients :
    (buckets[c] # NoBucket /\ Fresh(c)) ~> (buckets[c] = NoBucket \/ ~Fresh(c))
=============================================================================
