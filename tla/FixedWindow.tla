----------------------------- MODULE FixedWindow -----------------------------
(***************************************************************************)
(* "fixed-window per-client-IP rate limiting" (internal/gateway/           *)
(* middleware.go:60), as a machine with no map and no eviction: a client's *)
(* first request opens a window of Window ticks, up to Limit requests      *)
(* are answered yes until it ends, the others no, and what was used is     *)
(* forgotten the moment it ends.  RateLimiter.tla states under which       *)
(* mapping the code implements it.                                         *)
(***************************************************************************)
EXTENDS Integers

CONSTANTS Clients, Limit, Window

VARIABLES
  used,     \* per client: requests answered yes in its open window
  left,     \* per client: ticks to the end of its window, -1 when none is open
  answer    \* the last answer: to whom, and whether it was yes

wvars == <<used, left, answer>>

FInit ==
  /\ used = [c \in Clients |-> 0]
  /\ left = [c \in Clients |-> -1]
  /\ \E c \in Clients : answer = [client |-> c, ok |-> TRUE]

Open(c) ==
  /\ left[c] = -1
  /\ used' = [used EXCEPT ![c] = 1]
  /\ left' = [left EXCEPT ![c] = Window]
  /\ answer' = [client |-> c, ok |-> TRUE]

Use(c) ==
  /\ left[c] >= 0
  /\ used[c] < Limit
  /\ used' = [used EXCEPT ![c] = @ + 1]
  /\ answer' = [client |-> c, ok |-> TRUE]
  /\ UNCHANGED left

Deny(c) ==
  /\ left[c] >= 0
  /\ used[c] = Limit
  /\ answer' = [client |-> c, ok |-> FALSE]
  /\ UNCHANGED <<used, left>>

Pass ==
  /\ used' = [c \in Clients |-> IF left[c] > 0 THEN used[c] ELSE 0]
  /\ left' = [c \in Clients |-> IF left[c] > 0 THEN left[c] - 1 ELSE -1]
  /\ UNCHANGED answer

FNext == Pass \/ \E c \in Clients : Open(c) \/ Use(c) \/ Deny(c)

Windows == FInit /\ [][FNext]_wvars
=============================================================================
