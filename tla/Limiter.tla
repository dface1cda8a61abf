------------------------------ MODULE Limiter ------------------------------
(***************************************************************************)
(* The fixed-window rate limiter of the login, registration and upload     *)
(* routes: one counter per bucket and identity in the memory of the        *)
(* process, opened by the first request after the window before, and       *)
(* removed in passing when there are too many.                             *)
(*                                                                         *)
(* consumeRateLimit runs to its end without waiting for anything.          *)
(***************************************************************************)
EXTENDS Integers, FiniteSets

CONSTANTS
  Clients,      \* bucket and identity: the keys of the store
  limit,        \* requests in a window
  windowMs,     \* length of a window
  MaxStore,     \* entries above which the store is cleaned up: 10 000
  LastTick,     \* bounds the clock
  MaxBurst      \* requests of a client in an instant: bounds them

ASSUME LimiterConstants ==
  /\ limit \in Nat /\ windowMs \in Nat \ {0} /\ MaxStore \in Nat
  /\ LastTick \in Nat /\ MaxBurst \in Nat

VARIABLES
  tick,     \* Date.now()
  store,    \* the entry of each client, or NoEntry
  passed,   \* history: requests of each client let through: instant and number
  burst     \* requests of this instant

limiterVars == <<tick, store, passed, burst>>

NoEntry == [count |-> 0, resetAt |-> 0]
Kept(s) == {c \in Clients : s[c] # NoEntry}

LimiterTypeOK ==
  /\ tick \in 0..LastTick
  /\ \A c \in Kept(store) : /\ store[c].count \in 1..(MaxBurst * (LastTick + 1))
                            /\ store[c].resetAt \in windowMs..(LastTick + windowMs)
  /\ passed \in [Clients -> SUBSET ((0..LastTick) \X (1..MaxBurst))]
  /\ burst \in [Clients -> 0..MaxBurst]

LimiterInit ==
  /\ tick = 0
  /\ store = [c \in Clients |-> NoEntry]
  /\ passed = [c \in Clients |-> {}]
  /\ burst = [c \in Clients |-> 0]

TickPasses ==
  /\ tick < LastTick
  /\ tick' = tick + 1 /\ burst' = [c \in Clients |-> 0]
  /\ UNCHANGED <<store, passed>>

\* A request of client c counted: the first of a window opens it.
Counted(c) ==
  IF store[c] = NoEntry \/ store[c].resetAt <= tick
  THEN [store EXCEPT ![c] = [count |-> 1, resetAt |-> tick + windowMs]]
  ELSE [store EXCEPT ![c].count = @ + 1]

\* The cleanup would empty the store.
CleanedOut(s) == IF Cardinality(Kept(s)) > MaxStore THEN [c \in Clients |-> NoEntry] ELSE s

\* A store that is too large loses the entries whose window is over.
CleanedUp(s) ==
  IF Cardinality(Kept(s)) > MaxStore
  THEN [c \in Clients |-> IF s[c].resetAt <= tick THEN NoEntry ELSE s[c]]
  ELSE s

\* Allowed by the count as it was before the cleanup.
consumeRateLimit(c) ==
  /\ burst[c] < MaxBurst
  /\ burst' = [burst EXCEPT ![c] = @ + 1]
  /\ store' = CleanedUp(Counted(c))
  /\ passed' = IF Counted(c)[c].count <= limit
               THEN [passed EXCEPT ![c] = @ \cup {<<tick, burst[c] + 1>>}] ELSE passed
  /\ UNCHANGED tick

LimiterNext == TickPasses \/ \E c \in Clients : consumeRateLimit(c)

LimiterSpec == LimiterInit /\ [][LimiterNext]_limiterVars
-----------------------------------------------------------------------------
Through(c, from, to) == Cardinality({p \in passed[c] : p[1] \in from..to})

\* Whatever the others send and whenever the store is cleaned up: the window a
\* client is in let through no more than the limit, and any stretch of time as
\* long as a window no more than twice the limit.
LimitHolds ==
  \A c \in Clients :
    /\ store[c] # NoEntry =>
         Through(c, store[c].resetAt - windowMs, store[c].resetAt - 1) <= limit
    /\ \A t \in 0..LastTick : Through(c, t, t + windowMs - 1) <= 2 * limit
=============================================================================
