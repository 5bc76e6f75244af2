------------------------- MODULE FloodBucketProofs -------------------------
(***************************************************************************)
(* Proofs about the token bucket for every rate, burst and resolution of   *)
(* time.  Everything is linear once products with the constants have been  *)
(* taken apart, which the two arithmetic lemmas do.                        *)
(***************************************************************************)
EXTENDS FloodBucket, TLAPS

LEMMA TimesAdd == \A a, b, k \in Int : (a + b) * k = a * k + b * k
OBVIOUS

LEMMA TimesNat == \A a, k \in Nat : a * k \in Nat
OBVIOUS

\* A refill never takes tokens away and never exceeds the cap, which is why
\* try_consume can subtract a whole token after it has compared (flood.rs).
LEMMA RefillBounds ==
    ASSUME TypeOK
    PROVE  /\ Cap \in Nat
           /\ Refilled(tokens) \in Nat
           /\ Refilled(tokens) <= Cap
           /\ Refilled(tokens) <= tokens + (now - last_refill) * Rate
           /\ Refilled(tokens) < Cap =>
                Refilled(tokens) = tokens + (now - last_refill) * Rate
<1>1. Cap \in Nat BY FloodAssumption, TimesNat DEF FloodAssumption, Cap
<1>2. now - last_refill \in Nat BY DEF TypeOK
<1>3. (now - last_refill) * Rate \in Nat
  BY <1>2, FloodAssumption, TimesNat DEF FloodAssumption
<1> QED BY <1>1, <1>3 DEF Refilled, TypeOK

LEMMA FloodInit == Init => IInv
<1> SUFFICES ASSUME Init PROVE IInv OBVIOUS
<1> USE FloodAssumption DEF FloodAssumption
<1>1. Cap \in Nat BY TimesNat DEF Cap
<1>2. TypeOK BY <1>1 DEF Init, TypeOK
<1>3. 0 * Q = 0 /\ (0 - 0) * Rate = 0 OBVIOUS
<1>4. WindowAccount BY <1>1, <1>3 DEF Init, WindowAccount, Refilled
<1>5. ExactAccount BY <1>1, <1>3 DEF Init, ExactAccount
<1> QED BY <1>2, <1>4, <1>5 DEF IInv, Init

LEMMA FloodStep == IInv /\ [Next]_vars => IInv'
<1> SUFFICES ASSUME IInv, [Next]_vars PROVE IInv' OBVIOUS
<1> USE FloodAssumption DEF FloodAssumption
<1> DEFINE r == Refilled(tokens)
<1>0. TypeOK /\ WindowAccount /\ ExactAccount /\ (~open => tokens < Q)
  BY DEF IInv
<1>a. /\ Cap \in Nat /\ r \in Nat /\ r <= Cap
      /\ r <= tokens + (now - last_refill) * Rate
      /\ r < Cap => r = tokens + (now - last_refill) * Rate
  BY <1>0, RefillBounds
<1>b. /\ winCount * Q \in Nat /\ sinceFull * Q \in Nat
      /\ (now - winStart) * Rate \in Nat
      /\ (now - last_refill) * Rate \in Nat
      /\ (last_refill - fullAt) * Rate \in Nat
  <2>1. now - winStart \in Nat /\ now - last_refill \in Nat
        /\ last_refill - fullAt \in Nat
    BY <1>0 DEF TypeOK
  <2> QED BY <1>0, <2>1, TimesNat DEF TypeOK
<1>c. (now - fullAt) * Rate
        = (now - last_refill) * Rate + (last_refill - fullAt) * Rate
  <2>1. now - fullAt = (now - last_refill) + (last_refill - fullAt)
    BY <1>0 DEF TypeOK
  <2>2. now - last_refill \in Int /\ last_refill - fullAt \in Int
    BY <1>0 DEF TypeOK
  <2> QED BY <2>1, <2>2, TimesAdd
<1>1. CASE Tick
  <2>1. TypeOK' BY <1>0, <1>1 DEF TypeOK, Tick, bucket, history
  <2>2. /\ (now' - winStart) * Rate = (now - winStart) * Rate + Rate
        /\ (now' - last_refill) * Rate = (now - last_refill) * Rate + Rate
    <3>1. /\ now' - winStart = (now - winStart) + 1
          /\ now' - last_refill = (now - last_refill) + 1
      BY <1>0, <1>1 DEF TypeOK, Tick
    <3>2. now - winStart \in Int /\ now - last_refill \in Int
      BY <1>0 DEF TypeOK
    <3>3. \A a \in Int : (a + 1) * Rate = a * Rate + Rate
      <4>1. 1 * Rate = Rate OBVIOUS
      <4> QED BY <4>1, TimesAdd
    <3> QED BY <3>1, <3>2, <3>3
  <2>3. Refilled(tokens)' <= r + Rate
    BY <1>0, <1>1, <1>a, <1>b, <2>2
       DEF TypeOK, Refilled, Tick, bucket
  <2>4. Refilled(tokens)' \in Nat
    BY <2>1, <1>0, <1>1, <1>a, <1>b, <2>2
       DEF TypeOK, Refilled, Tick, bucket
  <2>5. WindowAccount'
    BY <1>0, <1>1, <1>a, <1>b, <2>2, <2>3, <2>4
       DEF WindowAccount, Tick, bucket, history
  <2>6. ExactAccount' BY <1>0, <1>1 DEF ExactAccount, Tick, bucket, history
  <2> QED BY <1>0, <1>1, <2>1, <2>5, <2>6 DEF IInv, Tick, bucket, history
<1>2. CASE Consume
  <2>1. /\ open /\ r >= Q /\ tokens' = r - Q /\ last_refill' = now
        /\ winCount' = winCount + 1 /\ now' = now /\ open' = open
        /\ winStart' = winStart
    BY <1>2 DEF Consume, Affordable
  <2>2. TypeOK' BY <1>0, <1>2, <1>a, <2>1 DEF TypeOK, Consume
  <2>3. winCount' * Q = winCount * Q + Q
    <3>1. 1 * Q = Q OBVIOUS
    <3> QED BY <1>0, <2>1, <3>1, TimesAdd DEF TypeOK
  <2>4. Refilled(tokens)' = r - Q
    <3>1. (now' - last_refill') * Rate = 0 BY <1>0, <2>1 DEF TypeOK
    <3> QED BY <1>a, <2>1, <3>1 DEF Refilled
  <2>5. WindowAccount' BY <1>0, <1>a, <1>b, <2>1, <2>3, <2>4 DEF WindowAccount
  <2>6. ExactAccount'
    <3>1. CASE r = Cap /\ fullAt' = now /\ sinceFull' = 1
      <4>1. (last_refill' - fullAt') * Rate = 0 /\ sinceFull' * Q = Q
        BY <1>0, <2>1, <3>1 DEF TypeOK
      <4> QED BY <1>a, <2>1, <3>1, <4>1 DEF ExactAccount
    <3>2. CASE r # Cap /\ fullAt' = fullAt /\ sinceFull' = sinceFull + 1
      <4>1. sinceFull' * Q = sinceFull * Q + Q
        <5>1. 1 * Q = Q OBVIOUS
        <5> QED BY <1>0, <3>2, <5>1, TimesAdd DEF TypeOK
      <4>2. (last_refill' - fullAt') * Rate
              = (now - last_refill) * Rate + (last_refill - fullAt) * Rate
        BY <1>c, <2>1, <3>2
      <4>3. r = tokens + (now - last_refill) * Rate BY <1>a, <3>2
      <4>4. tokens \in Nat /\ tokens' \in Nat /\ Q \in Nat
        BY <1>0, <2>2 DEF TypeOK
      <4> QED BY <1>0, <1>a, <1>b, <2>1, <4>1, <4>2, <4>3, <4>4
              DEF ExactAccount
    <3> QED BY <1>2, <3>1, <3>2 DEF Consume
  <2> QED BY <2>1, <2>2, <2>5, <2>6 DEF IInv
<1>3. CASE Kick
  <2>1. /\ open' = FALSE /\ r < Q /\ tokens' = r /\ last_refill' = now
        /\ winCount' = winCount /\ now' = now /\ winStart' = winStart
    BY <1>3, <1>a DEF Kick, Affordable
  <2>2. TypeOK'
    <3>1. fullAt' \in 0..now /\ sinceFull' \in Nat
      BY <1>0, <1>3 DEF TypeOK, Kick
    <3>2. open' \in BOOLEAN BY <2>1
    <3>3. last_refill' \in 0..now' /\ tokens' \in 0..Cap /\ now' \in Nat
      BY <1>0, <1>a, <2>1 DEF TypeOK
    <3>4. winStart' \in 0..now' /\ winCount' \in Nat BY <1>0, <2>1 DEF TypeOK
    <3>5. Cap' = Cap BY DEF Cap
    <3> QED BY <2>1, <3>1, <3>2, <3>3, <3>4, <3>5 DEF TypeOK
  <2>3. Refilled(tokens)' = r
    <3>1. (now' - last_refill') * Rate = 0 BY <1>0, <2>1 DEF TypeOK
    <3> QED BY <1>a, <2>1, <3>1 DEF Refilled
  <2>4. WindowAccount' BY <1>0, <1>a, <1>b, <2>1, <2>3 DEF WindowAccount
  <2>5. ExactAccount'
    <3>1. CASE r = Cap /\ fullAt' = now /\ sinceFull' = 0
      <4>1. (last_refill' - fullAt') * Rate = 0 /\ sinceFull' * Q = 0
        BY <1>0, <2>1, <3>1 DEF TypeOK
      <4> QED BY <1>a, <2>1, <3>1, <4>1 DEF ExactAccount
    <3>2. CASE r # Cap /\ fullAt' = fullAt /\ sinceFull' = sinceFull
      <4>1. (last_refill' - fullAt') * Rate
              = (now - last_refill) * Rate + (last_refill - fullAt) * Rate
        BY <1>c, <2>1, <3>2
      <4>2. r = tokens + (now - last_refill) * Rate BY <1>a, <3>2
      <4>3. tokens \in Nat BY <1>0 DEF TypeOK
      <4> QED BY <1>0, <1>a, <1>b, <2>1, <3>2, <4>1, <4>2, <4>3
              DEF ExactAccount
    <3> QED BY <1>3, <3>1, <3>2 DEF Kick
  <2> QED BY <2>1, <2>2, <2>4, <2>5 DEF IInv
<1>4. CASE Observe
  <2>1. /\ winStart' = now /\ winCount' = 0 /\ now' = now
        /\ tokens' = tokens /\ last_refill' = last_refill /\ open' = open
        /\ fullAt' = fullAt /\ sinceFull' = sinceFull
    BY <1>4 DEF Observe, bucket
  <2>2. TypeOK' BY <1>0, <2>1 DEF TypeOK
  <2>3. Refilled(tokens)' = r BY <2>1 DEF Refilled
  <2>4. winCount' * Q = 0 /\ (now' - winStart') * Rate = 0
    BY <1>0, <2>1 DEF TypeOK
  <2>5. WindowAccount' BY <1>a, <2>3, <2>4 DEF WindowAccount
  <2>6. ExactAccount' BY <1>0, <2>1 DEF ExactAccount
  <2> QED BY <1>0, <2>1, <2>2, <2>5, <2>6 DEF IInv
<1>5. CASE UNCHANGED vars
  BY <1>0, <1>5
     DEF IInv, TypeOK, WindowAccount, ExactAccount, Refilled, vars, bucket,
         history
<1> QED BY <1>1, <1>2, <1>3, <1>4, <1>5 DEF Next

LEMMA FloodInv == Spec => []IInv
BY FloodInit, FloodStep, PTL DEF Spec

\* The tokens stay between none and a burst (FloodBucket, flood.rs).
THEOREM BucketTyped == Spec => []TypeOK
<1>1. IInv => TypeOK BY DEF IInv
<1> QED BY <1>1, FloodInv, PTL

\* For every rate and burst, no window of time lets more messages through
\* than a burst and its refill (FloodBucket::try_consume, flood.rs).
THEOREM FloodLimit == Spec => []WindowBound
<1>1. IInv => WindowBound
  <2> SUFFICES ASSUME IInv PROVE WindowBound OBVIOUS
  <2> USE FloodAssumption DEF FloodAssumption
  <2>1. TypeOK /\ WindowAccount BY DEF IInv
  <2>2. Refilled(tokens) \in Nat /\ Cap \in Nat BY <2>1, RefillBounds
  <2>3. now - winStart \in Nat BY <2>1 DEF TypeOK
  <2>4. winCount * Q \in Nat /\ (now - winStart) * Rate \in Nat
    BY <2>1, <2>3, TimesNat DEF TypeOK
  <2> QED BY <2>1, <2>2, <2>4 DEF WindowAccount, WindowBound
<1> QED BY <1>1, FloodInv, PTL

\* For every rate and burst, a client that is disconnected for flooding did
\* exceed a burst and the refill since its bucket was last full
\* (process_message and disconnect_flooding, connection.rs).
THEOREM KicksAreDeserved == Spec => []NoFalseKick
<1>1. IInv => NoFalseKick
  <2> SUFFICES ASSUME IInv, ~open
               PROVE  (sinceFull + 1) * Q > Cap + (last_refill - fullAt) * Rate
    BY DEF NoFalseKick
  <2> USE FloodAssumption DEF FloodAssumption
  <2>1. TypeOK /\ ExactAccount /\ tokens < Q BY DEF IInv
  <2>2. (sinceFull + 1) * Q = sinceFull * Q + Q
    <3>1. 1 * Q = Q OBVIOUS
    <3> QED BY <2>1, <3>1, TimesAdd DEF TypeOK
  <2>3. Cap \in Nat /\ sinceFull * Q \in Nat BY <2>1, RefillBounds, TimesNat DEF TypeOK
  <2>4. (last_refill - fullAt) * Rate \in Nat
    <3>1. last_refill - fullAt \in Nat BY <2>1 DEF TypeOK
    <3> QED BY <3>1, TimesNat
  <2> QED BY <2>1, <2>2, <2>3, <2>4 DEF ExactAccount, TypeOK
<1> QED BY <1>1, FloodInv, PTL
=============================================================================
