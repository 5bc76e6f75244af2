---------------------------- MODULE FloodBucket ----------------------------
(***************************************************************************)
(* The token bucket that limits a registered client's messages             *)
(* (irc-server/src/flood.rs), with the read loop around it: a message that *)
(* finds no token ends the connection (connection.rs process_message).     *)
(*                                                                         *)
(* Time runs in ticks of 1/Q second and tokens are counted in units of 1/Q *)
(* token, so that a tick refills exactly Rate units and a message costs Q. *)
(* The code computes the same sums in f64; its rounding is not modelled.   *)
(***************************************************************************)
EXTENDS Integers

CONSTANTS Q,        \* ticks per second, units per token
          Rate,     \* limits.messages_per_second
          Burst,    \* limits.messages_burst
          MaxTime   \* bound on the clock

ASSUME FloodAssumption ==
    /\ Q \in Nat \ {0}
    /\ Rate \in Nat
    /\ Burst \in Nat
    /\ MaxTime \in Nat

VARIABLES now,          \* Instant::now()
          tokens,       \* the bucket, as of last_refill
          last_refill,
          open,         \* the connection is still being read
          winStart,     \* start of an arbitrary observation window ...
          winCount,     \* ... and the messages let through since then
          fullAt,       \* last time the refill reached the cap ...
          sinceFull     \* ... and the messages let through since then

bucket == <<tokens, last_refill, open>>
history == <<winStart, winCount, fullAt, sinceFull>>
vars == <<now, bucket, history>>

Cap == Burst * Q

Init ==
    /\ now = 0
    /\ tokens = Cap
    /\ last_refill = 0
    /\ open = TRUE
    /\ winStart = 0
    /\ winCount = 0
    /\ fullAt = 0
    /\ sinceFull = 0

Tick ==
    /\ now < MaxTime
    /\ now' = now + 1
    /\ UNCHANGED <<bucket, history>>

\* Seeded fault: an idle client saves up more than a burst.
RefilledUncapped(t) == t + (now - last_refill) * Rate

\* elapsed.mul_add(refill_rate, tokens).min(max_tokens)
Refilled(t) ==
    LET credit == t + (now - last_refill) * Rate
    IN  IF credit < Cap THEN credit ELSE Cap

\* Seeded fault: the last whole token is never handed out.
AffordableStrict(t) == t > Q

Affordable(t) == t >= Q

\* Seeded fault: the time already paid for is paid for again.
ConsumeWithoutStamp ==
    /\ open
    /\ Affordable(Refilled(tokens))
    /\ tokens' = Refilled(tokens) - Q
    /\ UNCHANGED <<now, last_refill, open, winStart, fullAt>>
    /\ winCount' = winCount + 1
    /\ sinceFull' = sinceFull + 1

Consume ==
    /\ open
    /\ Affordable(Refilled(tokens))
    /\ tokens' = Refilled(tokens) - Q
    /\ last_refill' = now
    /\ winCount' = winCount + 1
    /\ IF Refilled(tokens) = Cap
       THEN fullAt' = now /\ sinceFull' = 1
       ELSE fullAt' = fullAt /\ sinceFull' = sinceFull + 1
    /\ UNCHANGED <<now, open, winStart>>

\* No token: the client gets ERROR and the read loop ends.
Kick ==
    /\ open
    /\ ~Affordable(Refilled(tokens))
    /\ tokens' = Refilled(tokens)
    /\ last_refill' = now
    /\ open' = FALSE
    /\ IF Refilled(tokens) = Cap
       THEN fullAt' = now /\ sinceFull' = 0
       ELSE UNCHANGED <<fullAt, sinceFull>>
    /\ UNCHANGED <<now, winStart, winCount>>

\* The observer starts a new window; the program does not notice.
Observe ==
    /\ open
    /\ winStart' = now
    /\ winCount' = 0
    /\ UNCHANGED <<now, bucket, fullAt, sinceFull>>

Next == Tick \/ Consume \/ Kick \/ Observe

Spec == Init /\ [][Next]_vars
-----------------------------------------------------------------------------
TypeOK ==
    /\ now \in Nat
    /\ last_refill \in 0..now
    /\ tokens \in 0..Cap
    /\ open \in BOOLEAN
    /\ winStart \in 0..now
    /\ winCount \in Nat
    /\ fullAt \in 0..last_refill
    /\ sinceFull \in Nat

\* In no window of time, wherever it starts, does a client get more messages
\* through than a burst and the refill of that window (flood.rs: "allows
\* burst messages immediately and refills at rate_per_sec").
WindowBound == winCount * Q <= Cap + (now - winStart) * Rate

\* A client is only cut off for a message that really was too many: since
\* the bucket was last full, that message and the ones before it exceed a
\* burst and the refill (connection.rs disconnects on the first refusal).
NoFalseKick ==
    ~open => (sinceFull + 1) * Q > Cap + (last_refill - fullAt) * Rate
-----------------------------------------------------------------------------
\* The inductive invariant: what the window has used and what is left never
\* exceed a burst and the window's refill; since the bucket was last full
\* nothing was cut off by the cap, so the account is exact.
WindowAccount ==
    winCount * Q + Refilled(tokens) <= Cap + (now - winStart) * Rate
ExactAccount ==
    tokens + sinceFull * Q = Cap + (last_refill - fullAt) * Rate
IInv ==
    /\ TypeOK
    /\ WindowAccount
    /\ ExactAccount
    /\ ~open => tokens < Q
=============================================================================
