---------------------------- MODULE LockupProofs ----------------------------
(***************************************************************************)
(* Theorems about Lockup, for every value of its constants: the accounting *)
(* of a stream, its schedule, the books of the contract and the refinement *)
(* of LockupPromise.                                                       *)
(***************************************************************************)
EXTENDS Lockup, LedgerProofs, TLAPS

USE DEF Wallets, Ids

-----------------------------------------------------------------------------
(* Arithmetic *)

LEMMA ProductMonotone ==
    ASSUME NEW a \in Int, NEW b \in Int, NEW g \in Nat, a <= b
    PROVE  a * g <= b * g /\ a * g \in Int /\ b * g \in Int
  OBVIOUS

LEMMA ProductNat ==
    ASSUME NEW a \in Nat, NEW b \in Nat
    PROVE  a * b \in Nat
  OBVIOUS

LEMMA QuotientType ==
    ASSUME NEW a \in Nat, NEW g \in Nat \ {0}
    PROVE  /\ a \div g \in Nat
           /\ (a \div g) * g <= a
           /\ a < (a \div g) * g + g
  OBVIOUS

(* Division rounds a larger number to no smaller a quotient. *)
LEMMA QuotientMonotone ==
    ASSUME NEW a \in Nat, NEW b \in Nat, NEW g \in Nat \ {0}, a <= b
    PROVE  a \div g <= b \div g
<1> DEFINE p == a \div g
           q == b \div g
<1>1. /\ p \in Nat /\ p * g <= a
      /\ q \in Nat /\ b < q * g + g
  BY QuotientType
<1> HIDE DEF p, q
<1>2. ASSUME q < p PROVE FALSE
  <2>1. (q + 1) * g <= p * g
    BY <1>1, <1>2, ProductMonotone
  <2>2. (q + 1) * g = q * g + g /\ q * g \in Int /\ p * g \in Int
    BY <1>1
  <2>. QED  BY <1>1, <2>1, <2>2
<1>. QED  BY <1>1, <1>2 DEF p, q

-----------------------------------------------------------------------------
(* The schedule *)

(* What create accepts, and no operation changes. *)
Scheduled(s) ==
    /\ s.start_time < s.end_time
    /\ s.cliff_time > 0 => (s.start_time < s.cliff_time /\ s.cliff_time < s.end_time)
    /\ UnlockSum(s) <= s.total_amount

LEMMA RecordTypes ==
    ASSUME NEW s \in LockupStream
    PROVE  /\ s.total_amount \in Nat \ {0} /\ s.total_amount <= MaxI128
           /\ s.withdrawn_amount \in Nat /\ s.refunded_amount \in Nat
           /\ s.start_unlock_amount \in Nat /\ s.cliff_unlock_amount \in Nat
           /\ s.start_time \in Nat /\ s.end_time \in Nat /\ s.cliff_time \in Nat
           /\ s.granularity \in Nat \ {0}
           /\ s.token \in Tokens /\ s.recipient \in Accounts /\ s.sender \in Accounts
           /\ s.cancelable \in BOOLEAN /\ s.was_canceled \in BOOLEAN
           /\ s.is_depleted \in BOOLEAN
  BY LockupAssumption DEF LockupStream

LEMMA ClampedType ==
    ASSUME NEW s \in LockupStream, NEW v \in Int, NEW w \in Int, v <= w
    PROVE  /\ Clamped(s, v) \in Nat /\ Clamped(s, v) <= s.total_amount
           /\ Clamped(s, v) <= Clamped(s, w)
           /\ v \in 0..s.total_amount => Clamped(s, v) = v
  BY RecordTypes DEF Clamped

(* Whole steps are counted from the reference time on, which precedes the end. *)
LEMMA ElapsedType ==
    ASSUME NEW s \in LockupStream, Scheduled(s), NEW t \in Nat, NEW u \in Nat,
           reference_time(s) <= t, t <= u
    PROVE  /\ discrete_elapsed(s, t) \in Nat /\ discrete_elapsed(s, u) \in Nat
           /\ discrete_elapsed(s, t) <= discrete_elapsed(s, u)
           /\ s.end_time - reference_time(s) \in Nat \ {0}
<1> DEFINE a == t - reference_time(s)
           b == u - reference_time(s)
           g == s.granularity
<1>1. /\ a \in Nat /\ b \in Nat /\ a <= b /\ g \in Nat \ {0}
      /\ s.end_time - reference_time(s) \in Nat \ {0}
  BY RecordTypes DEF Scheduled, reference_time
<1>2. discrete_elapsed(s, t) = (a \div g) * g /\ discrete_elapsed(s, u) = (b \div g) * g
  BY DEF discrete_elapsed
<1> HIDE DEF a, b, g
<1>3. a \div g \in Nat /\ b \div g \in Nat /\ a \div g <= b \div g
  BY <1>1, QuotientType, QuotientMonotone
<1>4. (a \div g) * g <= (b \div g) * g
  BY <1>1, <1>3, ProductMonotone
<1>. QED  BY <1>1, <1>2, <1>3, <1>4, ProductNat

(* The linear part grows from the unlocks to the whole amount, also where   *)
(* the product of time and amount leaves an i128.                           *)
LEMMA LinearGrows ==
    ASSUME NEW s \in LockupStream, Scheduled(s), NEW t \in Nat, NEW u \in Nat,
           reference_time(s) <= t, t <= u
    PROVE  /\ VestedLinearly(s, t) \in Nat /\ VestedLinearly(s, t) <= s.total_amount
           /\ VestedLinearly(s, t) <= VestedLinearly(s, u)
           /\ Clamped(s, s.start_unlock_amount) <= VestedLinearly(s, t)
<1> DEFINE unlock == UnlockSum(s)
           amount == s.total_amount - unlock
           span == s.end_time - reference_time(s)
           p == discrete_elapsed(s, t) * amount
           q == discrete_elapsed(s, u) * amount
<1>1. /\ unlock \in Nat /\ s.start_unlock_amount <= unlock
      /\ s.start_unlock_amount \in Nat
      /\ s.total_amount \in Nat
      /\ amount \in Nat
  BY RecordTypes DEF UnlockSum, Scheduled
<1>2. /\ discrete_elapsed(s, t) \in Nat /\ discrete_elapsed(s, u) \in Nat
      /\ discrete_elapsed(s, t) <= discrete_elapsed(s, u)
      /\ span \in Nat \ {0}
  BY ElapsedType
<1>3. VestedLinearly(s, t) = IF unlock >= s.total_amount \/ p > MaxI128
                             THEN s.total_amount
                             ELSE Clamped(s, unlock + p \div span)
  BY DEF VestedLinearly
<1>4. VestedLinearly(s, u) = IF unlock >= s.total_amount \/ q > MaxI128
                             THEN s.total_amount
                             ELSE Clamped(s, unlock + q \div span)
  BY DEF VestedLinearly
<1> HIDE DEF unlock, amount, span
<1>5. p \in Nat /\ q \in Nat /\ p <= q
  BY <1>1, <1>2, ProductMonotone, ProductNat
<1> HIDE DEF p, q
<1>6. p \div span \in Nat /\ q \div span \in Nat /\ p \div span <= q \div span
  BY <1>2, <1>5, QuotientType, QuotientMonotone
<1> DEFINE x == p \div span
           y == q \div span
<1>7. /\ Clamped(s, unlock + x) \in Nat /\ Clamped(s, unlock + x) <= s.total_amount
      /\ Clamped(s, unlock + x) <= Clamped(s, unlock + y)
      /\ Clamped(s, s.start_unlock_amount) <= Clamped(s, unlock + x)
      /\ Clamped(s, s.start_unlock_amount) <= s.total_amount
  <2>1. /\ unlock + x \in Int /\ unlock + y \in Int /\ unlock + x <= unlock + y
        /\ s.start_unlock_amount \in Int /\ s.start_unlock_amount <= unlock + x
    BY <1>1, <1>6
  <2> HIDE DEF x, y
  <2>. QED  BY <2>1, ClampedType
<1> HIDE DEF x, y
<1>8. /\ VestedLinearly(s, t) \in {s.total_amount, Clamped(s, unlock + x)}
      /\ \/ VestedLinearly(s, u) = s.total_amount
         \/ /\ VestedLinearly(s, u) = Clamped(s, unlock + y)
            /\ VestedLinearly(s, t) = Clamped(s, unlock + x)
  BY <1>1, <1>3, <1>4, <1>5, LockupAssumption DEF x, y
<1>. QED  BY <1>1, <1>7, <1>8

(* Time only adds to what the schedule has unlocked. *)
LEMMA VestedGrows ==
    ASSUME NEW s \in LockupStream, Scheduled(s), NEW t \in Nat, NEW u \in Nat, t <= u
    PROVE  /\ Vested(s, t) \in Nat /\ Vested(s, t) <= s.total_amount
           /\ Vested(s, t) <= Vested(s, u)
<1> DEFINE unlocked == Clamped(s, s.start_unlock_amount)
<1>1. /\ s.total_amount \in Nat /\ s.start_time \in Nat /\ s.end_time \in Nat
      /\ s.cliff_time \in Nat
      /\ unlocked \in Nat /\ unlocked <= s.total_amount
  BY RecordTypes, ClampedType
<1>2. ASSUME NEW v \in Nat, v >= s.start_time, v >= s.cliff_time
      PROVE  reference_time(s) <= v
  BY <1>2 DEF reference_time
<1>3. ASSUME NEW v \in Nat, v >= s.start_time, v >= s.cliff_time
      PROVE  /\ VestedLinearly(s, v) \in Nat /\ VestedLinearly(s, v) <= s.total_amount
             /\ unlocked <= VestedLinearly(s, v)
    BY <1>2, <1>3, LinearGrows
<1>4. (t >= s.start_time /\ t >= s.cliff_time) =>
            VestedLinearly(s, t) <= VestedLinearly(s, u)
  BY <1>2, LinearGrows
<1> HIDE DEF unlocked
<1>5. Vested(s, t) \in Nat /\ Vested(s, t) <= s.total_amount
  BY <1>1, <1>3 DEF Vested, unlocked
<1>6. Vested(s, t) <= Vested(s, u)
  <2>1. CASE t < s.start_time \/ u >= s.end_time
    BY <1>1, <1>3, <1>5, <2>1 DEF Vested, unlocked
  <2>2. CASE t >= s.start_time /\ u < s.end_time /\ t < s.cliff_time
    BY <1>1, <1>3, <2>2 DEF Vested, unlocked
  <2>3. CASE t >= s.start_time /\ u < s.end_time /\ t >= s.cliff_time
    BY <1>1, <1>3, <1>4, <2>3 DEF Vested, unlocked
  <2>. QED  BY <1>1, <2>1, <2>2, <2>3
<1>. QED  BY <1>5, <1>6

-----------------------------------------------------------------------------
(* The accounting of one stream *)

(* The security invariants of internal.rs with what they rest on: the       *)
(* schedule is a valid one, and only a canceled stream was refunded.        *)
Sound(s, t) ==
    /\ Scheduled(s)
    /\ s.withdrawn_amount <= streamed_amount_of(s, t)
    /\ streamed_amount_of(s, t) <= s.total_amount - s.refunded_amount
    /\ s.is_depleted <=> Remaining(s) = 0
    /\ ~s.was_canceled => s.refunded_amount = 0

LEMMA StreamedType ==
    ASSUME NEW s \in LockupStream, Scheduled(s), NEW t \in Nat
    PROVE  streamed_amount_of(s, t) \in Nat /\ streamed_amount_of(s, t) <= s.total_amount
<1>1. Vested(s, t) \in Nat /\ Vested(s, t) <= s.total_amount
  BY VestedGrows
<1>2. \A v \in Int : Clamped(s, v) \in Nat /\ Clamped(s, v) <= s.total_amount
  BY ClampedType
<1>3. s.withdrawn_amount \in Int /\ s.total_amount - s.refunded_amount \in Int
  BY RecordTypes
<1>. QED  BY <1>1, <1>2, <1>3 DEF streamed_amount_of

(* Time only adds to the streamed amount, and disturbs no stream. *)
LEMMA StreamedGrows ==
    ASSUME NEW s \in LockupStream, NEW t \in Nat, NEW u \in Nat, t <= u, Sound(s, t)
    PROVE  Sound(s, u) /\ streamed_amount_of(s, t) <= streamed_amount_of(s, u)
<1>1. /\ streamed_amount_of(s, t) \in Nat /\ streamed_amount_of(s, u) \in Nat
      /\ streamed_amount_of(s, u) <= s.total_amount
      /\ s.total_amount \in Nat /\ s.withdrawn_amount \in Nat
      /\ s.is_depleted \in BOOLEAN /\ s.was_canceled \in BOOLEAN
  BY StreamedType, RecordTypes DEF Sound
<1>2. CASE s.is_depleted \/ s.was_canceled
  BY <1>1, <1>2 DEF Sound, streamed_amount_of
<1>3. CASE ~(s.is_depleted \/ s.was_canceled)
  <2>1. streamed_amount_of(s, t) <= streamed_amount_of(s, u)
    BY <1>3, VestedGrows DEF Sound, streamed_amount_of
  <2>. QED  BY <1>1, <1>3, <2>1 DEF Sound
<1>. QED  BY <1>2, <1>3

(* Vesting depends on the deposit and the schedule only. *)
LEMMA SameSchedule ==
    ASSUME NEW s, NEW n,
           n.total_amount = s.total_amount,
           n.start_time = s.start_time, n.end_time = s.end_time,
           n.cliff_time = s.cliff_time, n.granularity = s.granularity,
           n.start_unlock_amount = s.start_unlock_amount,
           n.cliff_unlock_amount = s.cliff_unlock_amount
    PROVE  /\ Scheduled(n) <=> Scheduled(s)
           /\ \A t : Vested(n, t) = Vested(s, t)
           /\ \A v : Clamped(n, v) = Clamped(s, v)
<1>1. Scheduled(n) <=> Scheduled(s)
  BY DEF Scheduled, UnlockSum
<1>2. /\ UnlockSum(n) = UnlockSum(s) /\ reference_time(n) = reference_time(s)
      /\ \A v : Clamped(n, v) = Clamped(s, v)
      /\ \A t : discrete_elapsed(n, t) = discrete_elapsed(s, t)
  BY DEF UnlockSum, reference_time, Clamped, discrete_elapsed
<1>3. ASSUME NEW t PROVE VestedLinearly(n, t) = VestedLinearly(s, t)
  BY <1>2 DEF VestedLinearly
<1>4. ASSUME NEW t PROVE Vested(n, t) = Vested(s, t)
  BY <1>2, <1>3 DEF Vested
<1>. QED  BY <1>1, <1>2, <1>4

LEMMA BookedType ==
    ASSUME NEW s \in LockupStream, NEW withdrawn \in 0..MaxI128,
           NEW refunded \in 0..MaxI128, NEW cancelable \in BOOLEAN,
           NEW canceled \in BOOLEAN, NEW depleted \in BOOLEAN
    PROVE  Booked(s, withdrawn, refunded, cancelable, canceled, depleted) \in LockupStream
  BY DEF Booked, LockupStream

(* A withdrawal takes the amount from what remains and nothing from what is *)
(* vested; the last one depletes the stream.                                *)
LEMMA WithdrawnSound ==
    ASSUME NEW s \in LockupStream, NEW t \in Nat, Sound(s, t), ~s.is_depleted,
           NEW amount \in Nat \ {0}, amount <= withdrawable_amount_of(s, t)
    PROVE  LET n == Withdrawn(s, amount)
           IN  /\ n \in LockupStream /\ Sound(n, t)
               /\ n.token = s.token /\ n.recipient = s.recipient
               /\ amount <= Remaining(s)
               /\ Remaining(n) = Remaining(s) - amount
               /\ n.withdrawn_amount = s.withdrawn_amount + amount
               /\ n.refunded_amount = s.refunded_amount
               /\ n.was_canceled = s.was_canceled
               /\ n.is_depleted <=> amount = Remaining(s)
               /\ n.cancelable <=> (s.cancelable /\ amount < Remaining(s))
               /\ streamed_amount_of(n, t) = streamed_amount_of(s, t)
<1> DEFINE withdrawn == s.withdrawn_amount + amount
           depleted == withdrawn >= s.total_amount - s.refunded_amount
           n == Withdrawn(s, amount)
           streamed == streamed_amount_of(s, t)
<1>1. /\ s.total_amount \in Nat /\ s.total_amount <= MaxI128
      /\ s.withdrawn_amount \in Nat /\ s.refunded_amount \in Nat
      /\ s.refunded_amount \in 0..MaxI128
      /\ s.cancelable \in BOOLEAN /\ s.was_canceled \in BOOLEAN
      /\ MaxI128 \in Nat
  BY RecordTypes, LockupAssumption DEF LockupStream
<1>2. streamed \in Nat /\ streamed <= s.total_amount
  BY StreamedType DEF Sound
<1>3. /\ withdrawn <= streamed /\ streamed <= s.total_amount - s.refunded_amount
      /\ withdrawn \in Nat /\ withdrawn \in 0..MaxI128
  BY <1>1, <1>2 DEF withdrawable_amount_of, Sound
<1>4. n = Booked(s, withdrawn, s.refunded_amount, s.cancelable /\ ~depleted,
                 s.was_canceled, depleted)
  BY DEF Withdrawn
<1>5. depleted \in BOOLEAN /\ (s.cancelable /\ ~depleted) \in BOOLEAN
  OBVIOUS
<1>6. depleted => withdrawn = streamed
  BY <1>1, <1>2, <1>3
<1> HIDE DEF n, streamed
<1>7. n \in LockupStream
  <2> HIDE DEF depleted, withdrawn
  <2>. QED  BY <1>1, <1>3, <1>4, <1>5, BookedType
<1>8. /\ n.withdrawn_amount = withdrawn /\ n.refunded_amount = s.refunded_amount
      /\ n.was_canceled = s.was_canceled /\ n.total_amount = s.total_amount
      /\ n.is_depleted = depleted /\ n.cancelable = (s.cancelable /\ ~depleted)
      /\ n.token = s.token /\ n.recipient = s.recipient
  BY <1>4 DEF Booked
<1>9. /\ Scheduled(n) <=> Scheduled(s)
      /\ Vested(n, t) = Vested(s, t)
      /\ \A v : Clamped(n, v) = Clamped(s, v)
  BY <1>4, SameSchedule DEF Booked
<1>10. amount <= Remaining(s) /\ (depleted <=> amount = Remaining(s))
  BY <1>1, <1>2, <1>3 DEF Remaining
<1>11. Remaining(n) = Remaining(s) - amount
  BY <1>1, <1>8 DEF Remaining
<1>12. streamed_amount_of(n, t) = streamed
  <2>1. CASE depleted
    <3>1. streamed_amount_of(n, t) = Clamped(s, withdrawn)
      BY <1>8, <1>9, <2>1 DEF streamed_amount_of
    <3>2. withdrawn \in 0..s.total_amount
      BY <1>1, <1>2, <1>3
    <3>3. Clamped(s, withdrawn) = withdrawn
      BY <1>1, <3>2 DEF Clamped
    <3>. QED  BY <1>6, <2>1, <3>1, <3>3
  <2>2. CASE ~depleted
    BY <1>8, <1>9, <2>2 DEF streamed_amount_of, streamed
  <2>. QED  BY <2>1, <2>2
<1>13. Sound(n, t)
  <2>1. n.is_depleted <=> Remaining(n) = 0
    <3>1. Remaining(n) = 0 <=> amount = Remaining(s)
      BY <1>1, <1>11 DEF Remaining
    <3>. QED  BY <1>8, <1>10, <3>1, Zenon
  <2>. QED  BY <1>3, <1>8, <1>9, <1>12, <2>1 DEF Sound, streamed
<1>14. n.cancelable <=> (s.cancelable /\ amount < Remaining(s))
  <2>1. amount < Remaining(s) <=> ~(amount = Remaining(s))
    BY <1>1, <1>10 DEF Remaining
  <2>. QED  BY <1>8, <1>10, <2>1, Zenon
<1>. QED  BY <1>7, <1>8, <1>10, <1>11, <1>12, <1>13, <1>14 DEF n, streamed

(* What cancel pays the sender is what is not vested: the cap at what is    *)
(* left never bites, since nobody has taken more than was vested.           *)
LEMMA SenderAmountIsUnvested ==
    ASSUME now \in Nat, NEW s \in LockupStream, Sound(s, now)
    PROVE  /\ SenderAmount(s) = s.total_amount - streamed_amount_of(s, now)
           /\ SenderAmount(s) \in Nat /\ RecipientAmount(s) \in Nat
           /\ RecipientAmount(s) + SenderAmount(s) = s.total_amount - s.withdrawn_amount
<1>1. /\ s.total_amount \in Nat /\ s.withdrawn_amount \in Nat
      /\ streamed_amount_of(s, now) \in Nat
      /\ streamed_amount_of(s, now) <= s.total_amount
      /\ s.withdrawn_amount <= streamed_amount_of(s, now)
  BY StreamedType, RecordTypes DEF Sound
<1>. QED  BY <1>1 DEF SenderAmount, RecipientAmount

(* A cancellation freezes what is vested and takes all the rest. *)
LEMMA CanceledSound ==
    ASSUME now \in Nat, NEW s \in LockupStream, Sound(s, now), is_cancelable(s)
    PROVE  LET n == Canceled(s)
           IN  /\ n \in LockupStream /\ Sound(n, now)
               /\ n.token = s.token /\ n.recipient = s.recipient
               /\ SenderAmount(s) <= Remaining(s)
               /\ Remaining(n) = Remaining(s) - SenderAmount(s)
               /\ n.withdrawn_amount = s.withdrawn_amount
               /\ n.was_canceled /\ ~n.cancelable
               /\ streamed_amount_of(n, now) = streamed_amount_of(s, now)
<1> DEFINE n == Canceled(s)
           streamed == streamed_amount_of(s, now)
           refunded == SenderAmount(s)
           depleted == RecipientAmount(s) = 0
<1>1. /\ s.total_amount \in Nat /\ s.total_amount <= MaxI128
      /\ s.withdrawn_amount \in Nat /\ s.withdrawn_amount \in 0..MaxI128
      /\ s.withdrawn_amount <= streamed
      /\ streamed \in Nat /\ streamed <= s.total_amount
      /\ s.refunded_amount = 0 /\ ~s.was_canceled /\ ~s.is_depleted
      /\ MaxI128 \in Nat
  BY StreamedType, RecordTypes, LockupAssumption DEF Sound, is_cancelable, LockupStream
<1>2. /\ refunded = s.total_amount - streamed
      /\ refunded \in 0..MaxI128
      /\ RecipientAmount(s) = streamed - s.withdrawn_amount
  <2>1. refunded = s.total_amount - streamed
    BY SenderAmountIsUnvested
  <2>. QED  BY <1>1, <2>1 DEF RecipientAmount
<1>3. n = Booked(s, s.withdrawn_amount, refunded, FALSE, TRUE, depleted)
  BY DEF Canceled
<1> HIDE DEF n, streamed, refunded
<1>4. /\ n.withdrawn_amount = s.withdrawn_amount /\ n.refunded_amount = refunded
      /\ n.was_canceled = TRUE /\ n.cancelable = FALSE /\ n.is_depleted = depleted
      /\ n.total_amount = s.total_amount /\ n.token = s.token
      /\ n.recipient = s.recipient
  BY <1>3 DEF Booked
<1>5. /\ Scheduled(n) <=> Scheduled(s)
      /\ \A v : Clamped(n, v) = Clamped(s, v)
  BY <1>3, SameSchedule DEF Booked
<1>6. n \in LockupStream
  <2>1. depleted \in BOOLEAN
    OBVIOUS
  <2> HIDE DEF depleted
  <2>. QED  BY <1>1, <1>2, <1>3, <2>1, BookedType
<1>7. Remaining(s) = s.total_amount - s.withdrawn_amount
  BY <1>1 DEF Remaining
<1>8. Remaining(n) = Remaining(s) - refunded /\ refunded <= Remaining(s)
  BY <1>1, <1>2, <1>4, <1>7 DEF Remaining
<1>9. Remaining(n) = 0 <=> depleted
  BY <1>1, <1>2, <1>7, <1>8
<1>10. /\ Clamped(s, s.withdrawn_amount) = s.withdrawn_amount
       /\ Clamped(s, s.total_amount - refunded) = streamed
  BY <1>1, <1>2 DEF Clamped
<1>11. streamed_amount_of(n, now) = streamed
  <2>1. CASE depleted
    <3>1. s.withdrawn_amount = streamed
      BY <1>1, <1>2, <2>1
    <3>. QED  BY <1>4, <1>5, <1>10, <2>1, <3>1 DEF streamed_amount_of
  <2>2. CASE ~depleted
    BY <1>4, <1>5, <1>10, <2>2 DEF streamed_amount_of
  <2>. QED  BY <2>1, <2>2
<1>12. Sound(n, now)
  <2>1. n.is_depleted <=> Remaining(n) = 0
    BY <1>4, <1>9, Zenon
  <2>2. streamed <= s.total_amount - refunded
    BY <1>1, <1>2
  <2>. QED  BY <1>1, <1>4, <1>5, <1>11, <2>1, <2>2 DEF Sound
<1>. QED  BY <1>4, <1>6, <1>8, <1>11, <1>12 DEF n, streamed, refunded

(* Renouncing changes nothing but the right to cancel. *)
LEMMA RenouncedSound ==
    ASSUME NEW t \in Nat, NEW s \in LockupStream, Sound(s, t)
    PROVE  LET n == Renounced(s)
           IN  /\ n \in LockupStream /\ Sound(n, t)
               /\ n.token = s.token /\ n.recipient = s.recipient
               /\ Remaining(n) = Remaining(s)
               /\ n.withdrawn_amount = s.withdrawn_amount
               /\ n.was_canceled = s.was_canceled /\ n.is_depleted = s.is_depleted
               /\ ~n.cancelable
               /\ streamed_amount_of(n, t) = streamed_amount_of(s, t)
<1> DEFINE n == Renounced(s)
<1>1. n = Booked(s, s.withdrawn_amount, s.refunded_amount, FALSE, s.was_canceled,
                 s.is_depleted)
  BY DEF Renounced
<1>2. n \in LockupStream
  <2>1. /\ s.withdrawn_amount \in 0..MaxI128 /\ s.refunded_amount \in 0..MaxI128
        /\ s.was_canceled \in BOOLEAN /\ s.is_depleted \in BOOLEAN /\ FALSE \in BOOLEAN
    BY DEF LockupStream
  <2>. QED  BY <1>1, <2>1, BookedType
<1> HIDE DEF n
<1>3. /\ n.withdrawn_amount = s.withdrawn_amount /\ n.refunded_amount = s.refunded_amount
      /\ n.was_canceled = s.was_canceled /\ n.cancelable = FALSE
      /\ n.is_depleted = s.is_depleted
      /\ n.total_amount = s.total_amount /\ n.token = s.token
      /\ n.recipient = s.recipient
  BY <1>1 DEF Booked
<1>4. /\ Scheduled(n) <=> Scheduled(s)
      /\ Vested(n, t) = Vested(s, t)
      /\ \A v : Clamped(n, v) = Clamped(s, v)
  BY <1>1, SameSchedule DEF Booked
<1>5. Remaining(n) = Remaining(s)
  BY <1>3 DEF Remaining
<1>6. streamed_amount_of(n, t) = streamed_amount_of(s, t)
  BY <1>3, <1>4 DEF streamed_amount_of
<1>7. Sound(n, t)
  BY <1>3, <1>4, <1>5, <1>6 DEF Sound
<1>. QED  BY <1>2, <1>3, <1>5, <1>6, <1>7 DEF n

(* What the validation lets through is a storable record that holds its     *)
(* whole deposit.                                                           *)
LEMMA NewStreamSound ==
    ASSUME NEW p \in Requests, MayCreate(p), NEW t \in Nat
    PROVE  LET n == NewStream(p)
           IN  /\ n \in LockupStream /\ Sound(n, t)
               /\ n.token = p.token
               /\ Remaining(n) = p.total_amount
               /\ n.withdrawn_amount = 0
               /\ p.total_amount \in Nat \ {0}
               /\ p.sender \in Accounts \ {Self}
<1> DEFINE n == NewStream(p)
<1>1. p \in CreateLockupParams /\ MaxI128 \in Nat
  BY LockupAssumption
<1>2. /\ p.sender \in Accounts \ {Self} /\ p.recipient \in Accounts /\ p.token \in Tokens
      /\ p.total_amount \in 1..MaxI128
      /\ p.start_time \in Nat /\ p.end_time \in Nat /\ p.cliff_time \in Nat
      /\ p.start_unlock_amount \in 0..MaxI128 /\ p.cliff_unlock_amount \in 0..MaxI128
      /\ p.granularity \in Nat /\ p.cancelable \in BOOLEAN
  BY <1>1 DEF MayCreate, CreateLockupParams
<1>3. n \in LockupStream
  BY <1>1, <1>2 DEF NewStream, LockupStream
<1>4. /\ n.total_amount = p.total_amount /\ n.token = p.token
      /\ n.withdrawn_amount = 0 /\ n.refunded_amount = 0
      /\ n.was_canceled = FALSE /\ n.is_depleted = FALSE
      /\ n.start_time = p.start_time /\ n.end_time = p.end_time
      /\ n.cliff_time = p.cliff_time
      /\ n.start_unlock_amount = p.start_unlock_amount
      /\ n.cliff_unlock_amount = p.cliff_unlock_amount
  BY DEF NewStream
<1> HIDE DEF n
<1>5. Scheduled(n)
  BY <1>1, <1>2, <1>4 DEF Scheduled, UnlockSum, MayCreate
<1>6. Remaining(n) = p.total_amount
  BY <1>1, <1>2, <1>4 DEF Remaining
<1>7. Sound(n, t)
  BY <1>1, <1>2, <1>3, <1>4, <1>5, <1>6, StreamedType DEF Sound
<1>. QED  BY <1>1, <1>2, <1>3, <1>4, <1>6, <1>7 DEF n

-----------------------------------------------------------------------------
(* The inductive invariant *)

(* Neither the types, nor the security invariants, nor solvency is          *)
(* inductive alone: the types of an amount after a withdrawal or refund     *)
(* come from the security invariants, those from the accepted schedules,    *)
(* and the aggregate stays above 0 because it is a sum.                     *)
IInv ==
    /\ TypeOK
    /\ \A id \in Ids : Sound(streams[id], now)
    /\ AggregateIsSum
    /\ ContractSolvent

LEMMA RemainingType ==
    ASSUME NEW s \in LockupStream, NEW t \in Nat, Sound(s, t)
    PROVE  Remaining(s) \in Nat
  BY StreamedType, RecordTypes DEF Sound, Remaining

(* What the invariant says of the parts the lemmas below use. *)
LEMMA StateTypes ==
    ASSUME IInv
    PROVE  /\ now \in Nat
           /\ nextStreamId \in Nat /\ nextStreamId - 1 \in Nat
           /\ streams \in [Ids -> LockupStream]
           /\ aggregate \in [Tokens -> Int]
           /\ \A token \in Tokens : aggregate[token] \in 0..MaxI128
           /\ wallet \in Wallets
           /\ \A id \in Ids : /\ streams[id] \in LockupStream
                              /\ Sound(streams[id], now)
                              /\ streams[id].token \in Tokens
                              /\ Remaining(streams[id]) \in Nat
           /\ \A token : Held(token) \in [Ids -> Nat]
<1>1. /\ now \in Nat /\ nextStreamId \in Nat /\ nextStreamId - 1 \in Nat
      /\ streams \in [Ids -> LockupStream] /\ wallet \in Wallets
      /\ aggregate \in [Tokens -> 0..MaxI128]
      /\ \A id \in Ids : Sound(streams[id], now)
  BY LockupAssumption DEF IInv, TypeOK
<1>2. aggregate \in [Tokens -> Int]
  <2>1. 0..MaxI128 \subseteq Int
    BY LockupAssumption
  <2>. QED  BY <1>1, <2>1
<1>3. ASSUME NEW id \in Ids
      PROVE  streams[id].token \in Tokens /\ Remaining(streams[id]) \in Nat
  BY <1>1, RecordTypes, RemainingType
<1>4. ASSUME NEW token PROVE Held(token) \in [Ids -> Nat]
  BY <1>3 DEF Held
<1>. QED  BY <1>1, <1>2, <1>3, <1>4

-----------------------------------------------------------------------------
(* The books *)

(* No stream has more left than the aggregate of its token. *)
LEMMA RemainingBelowAggregate ==
    ASSUME IInv, NEW id \in Ids
    PROVE  Remaining(streams[id]) <= aggregate[streams[id].token]
<1> DEFINE token == streams[id].token
<1>1. Held(token) \in [1..(nextStreamId - 1) -> Nat] /\ nextStreamId - 1 \in Nat
  BY StateTypes
<1>2. Held(token)[id] <= Total(Held(token), nextStreamId - 1)
  BY <1>1, TotalBoundsEach
<1>3. Held(token)[id] = Remaining(streams[id])
  BY DEF Held
<1>4. token \in Tokens
  BY StateTypes
<1>. QED  BY <1>2, <1>3, <1>4 DEF AggregateIsSum, IInv

(* Taking the same amount from a stream and from its token's aggregate      *)
(* keeps the books.                                                         *)
LEMMA BooksMoved ==
    ASSUME IInv, NEW id \in Ids, NEW s, NEW amount \in Int,
           s.token = streams[id].token,
           Remaining(s) = Remaining(streams[id]) - amount,
           streams' = [streams EXCEPT ![id] = s],
           aggregate' = [aggregate EXCEPT ![s.token] = @ - amount],
           nextStreamId' = nextStreamId
    PROVE  AggregateIsSum'
<1> DEFINE last == nextStreamId - 1
<1>0. /\ last \in Nat
      /\ streams \in [Ids -> LockupStream]
      /\ aggregate \in [Tokens -> Int]
      /\ s.token \in Tokens
      /\ Remaining(streams[id]) \in Nat
      /\ \A i \in Ids : Remaining(streams[i]) \in Int
  BY StateTypes
<1> SUFFICES ASSUME NEW token \in Tokens
             PROVE  aggregate'[token] = Total(Held(token)', last)
  BY DEF AggregateIsSum
<1>1. /\ Held(token) \in [1..last -> Int]
      /\ aggregate[token] = Total(Held(token), last)
  BY StateTypes DEF AggregateIsSum, IInv
<1>2. \A i \in 1..last : streams'[i] = IF i = id THEN s ELSE streams[i]
  BY <1>0
<1>3. Held(token)' = [i \in 1..last |->
                        IF streams'[i].token = token THEN Remaining(streams'[i]) ELSE 0]
  BY DEF Held, Remaining
<1>4. \A i \in 1..last : Remaining(streams'[i]) \in Int
  BY <1>0, <1>2
<1>5. Held(token)' \in [1..last -> Int]
  BY <1>3, <1>4
<1>6. \A i \in 1..last \ {id} : Held(token)'[i] = Held(token)[i]
  BY <1>2, <1>3 DEF Held
<1>7. Total(Held(token)', last)
        = Total(Held(token), last) + (Held(token)'[id] - Held(token)[id])
  BY <1>0, <1>1, <1>5, <1>6, TotalUpdated
<1>8. CASE token # s.token
  <2>1. Held(token)'[id] - Held(token)[id] = 0
    BY <1>2, <1>3, <1>8 DEF Held
  <2>. QED  BY <1>0, <1>1, <1>7, <1>8, <2>1
<1>9. CASE token = s.token
  <2>1. Held(token)'[id] - Held(token)[id] = -amount
    BY <1>0, <1>2, <1>3, <1>9 DEF Held
  <2>. QED  BY <1>0, <1>1, <1>7, <1>9, <2>1
<1>. QED  BY <1>8, <1>9

(* A new stream adds its deposit to the aggregate of its token. *)
LEMMA BooksExtended ==
    ASSUME IInv, NEW s, s.token \in Tokens, Remaining(s) \in Nat,
           nextStreamId' = nextStreamId + 1,
           streams' = [id \in 1..nextStreamId |->
                          IF id = nextStreamId THEN s ELSE streams[id]],
           aggregate' = [aggregate EXCEPT ![s.token] = @ + Remaining(s)]
    PROVE  AggregateIsSum'
<1> DEFINE last == nextStreamId - 1
<1>0. /\ last \in Nat /\ nextStreamId = last + 1
      /\ nextStreamId' - 1 = last + 1
      /\ aggregate \in [Tokens -> Int]
  BY StateTypes
<1>1. /\ streams'[last + 1] = s
      /\ \A n \in 1..last : streams'[n] = streams[n]
  BY <1>0
<1> SUFFICES ASSUME NEW token \in Tokens
             PROVE  aggregate'[token] = Total(Held(token)', last + 1)
  BY <1>0 DEF AggregateIsSum
<1>2. /\ Held(token) \in [1..last -> Int]
      /\ aggregate[token] = Total(Held(token), last)
  BY StateTypes DEF AggregateIsSum, IInv
<1>3. Held(token)' = [i \in 1..(last + 1) |->
                        IF streams'[i].token = token THEN Remaining(streams'[i]) ELSE 0]
  BY <1>0 DEF Held, Remaining
<1>4. \A n \in 1..last : Held(token)'[n] = Held(token)[n]
  BY <1>0, <1>1, <1>3 DEF Held
<1>5. Held(token)'[last + 1] = IF s.token = token THEN Remaining(s) ELSE 0
  BY <1>0, <1>1, <1>3
<1>6. Held(token)' \in [1..(last + 1) -> Int]
  <2>1. ASSUME NEW n \in 1..(last + 1) PROVE Held(token)'[n] \in Int
    <3>1. CASE n = last + 1
      BY <1>5, <3>1
    <3>2. CASE n \in 1..last
      BY <1>2, <1>4, <3>2
    <3>. QED  BY <1>0, <3>1, <3>2
  <2>. QED  BY <1>3, <2>1
<1>7. Total(Held(token)', last + 1)
        = Total(Held(token)', last) + Held(token)'[last + 1]
  BY <1>0, <1>6, TotalGrows
<1>8. Total(Held(token)', last) = Total(Held(token), last)
  BY <1>0, <1>2, <1>4, TotalSame
<1>9. aggregate'[token] = aggregate[token] + (IF s.token = token THEN Remaining(s) ELSE 0)
  BY <1>0
<1>. QED  BY <1>2, <1>5, <1>7, <1>8, <1>9

(* Paying out at most the aggregate keeps the contract solvent. *)
LEMMA PayOutMoney ==
    ASSUME IInv, NEW token \in Tokens, NEW to \in Accounts,
           NEW amount \in Nat, amount <= aggregate[token], PayOut(token, to, amount)
    PROVE  /\ wallet' \in Wallets
           /\ aggregate' \in [Tokens -> 0..MaxI128]
           /\ ContractSolvent'
<1>0. wallet \in Wallets /\ Self \in Accounts
  BY StateTypes, LockupAssumption
<1>1. /\ wallet' \in Wallets
      /\ wallet'[token][Self] >= wallet[token][Self] - amount
      /\ \A other \in Tokens \ {token} : wallet'[other] = wallet[other]
  BY <1>0, TransferType DEF PayOut
<1>2. \A t \in Tokens : aggregate'[t] = IF t = token THEN aggregate[t] - amount
                                                     ELSE aggregate[t]
  BY StateTypes DEF PayOut
<1>3. aggregate[token] \in 0..MaxI128 /\ aggregate[token] - amount \in 0..MaxI128
  BY StateTypes, LockupAssumption
<1>4. aggregate' \in [Tokens -> 0..MaxI128]
  <2>1. \A t \in Tokens : aggregate'[t] \in 0..MaxI128
    BY <1>2, <1>3, StateTypes
  <2>. QED  BY <2>1, StateTypes DEF PayOut
<1>5. ASSUME NEW t \in Tokens PROVE wallet'[t][Self] >= aggregate'[t]
  <2>1. /\ wallet[t][Self] \in Nat /\ wallet'[t][Self] \in Nat
        /\ wallet[t][Self] >= aggregate[t] /\ aggregate[t] \in Int
    BY <1>0, <1>1, StateTypes DEF ContractSolvent, IInv
  <2>. QED  BY <1>1, <1>2, <2>1
<1>. QED  BY <1>1, <1>4, <1>5 DEF ContractSolvent

(* A step that replaces one record by a sound one and pays out what the     *)
(* stream loses.                                                            *)
LEMMA PayKeeps ==
    ASSUME IInv, NEW id \in Ids, NEW s \in LockupStream, Sound(s, now), NEW to \in Accounts,
           NEW amount \in Nat, amount <= Remaining(streams[id]),
           s.token = streams[id].token,
           Remaining(s) = Remaining(streams[id]) - amount,
           streams' = [streams EXCEPT ![id] = s],
           PayOut(streams[id].token, to, amount),
           UNCHANGED <<now, nextStreamId>>
    PROVE  IInv'
<1> DEFINE token == streams[id].token
<1>1. token \in Tokens /\ Remaining(streams[id]) \in Nat /\ aggregate[token] \in Int
  BY StateTypes
<1>2. amount <= aggregate[token]
  BY <1>1, RemainingBelowAggregate
<1>3. /\ wallet' \in Wallets
      /\ aggregate' \in [Tokens -> 0..MaxI128]
      /\ ContractSolvent'
  BY <1>1, <1>2, PayOutMoney
<1>4. \A i \in Ids : streams'[i] = IF i = id THEN s ELSE streams[i]
  BY StateTypes
<1>5. TypeOK'
  BY <1>3 DEF IInv, TypeOK
<1>6. \A i \in Ids' : Sound(streams'[i], now')
  BY <1>4, StateTypes
<1>7. AggregateIsSum'
  <2>1. aggregate' = [aggregate EXCEPT ![s.token] = @ - amount]
    BY DEF PayOut
  <2>2. nextStreamId' = nextStreamId /\ amount \in Int
    OBVIOUS
  <2>. QED  BY <2>1, <2>2, BooksMoved, Zenon
<1>. QED  BY <1>3, <1>5, <1>6, <1>7 DEF IInv

-----------------------------------------------------------------------------
(* What each operation does *)

LEMMA CreateEffect ==
    ASSUME Create
    PROVE  \E p \in Requests :
              /\ MayCreate(p)
              /\ nextStreamId <= MaxStreams
              /\ nextStreamId' = nextStreamId + 1
              /\ streams' = [id \in 1..nextStreamId |->
                                IF id = nextStreamId THEN NewStream(p) ELSE streams[id]]
              /\ aggregate[p.token] + p.total_amount <= MaxI128
              /\ aggregate' = [aggregate EXCEPT ![p.token] = @ + p.total_amount]
              /\ CanTransfer(wallet, p.token, p.sender, p.total_amount)
              /\ ExactTransfer(wallet, p.token, p.sender, Self, p.total_amount)
              /\ wallet' = Transferred(wallet, p.token, p.sender, Self, p.total_amount)
              /\ now' = now
  BY DEF Create, create

LEMMA WithdrawEffect ==
    ASSUME IInv, Withdraw
    PROVE  \E id \in Ids, to \in Accounts, amount \in Nat \ {0} :
              /\ ~streams[id].is_depleted
              /\ amount <= withdrawable_amount_of(streams[id], now)
              /\ streams' = [streams EXCEPT ![id] = Withdrawn(streams[id], amount)]
              /\ PayOut(streams[id].token, to, amount)
              /\ UNCHANGED <<now, nextStreamId>>
<1>1. PICK id \in 1..MaxStreams, caller \in Callers, to \in Accounts, amount \in Int :
        withdraw(id, caller, to, amount)
  <2>1. ASSUME NEW id \in Ids PROVE withdrawable_amount_of(streams[id], now) \in Int
    <3>1. streams[id] \in LockupStream /\ Scheduled(streams[id]) /\ now \in Nat
      BY StateTypes DEF Sound
    <3>. QED  BY <3>1, StreamedType, RecordTypes DEF withdrawable_amount_of
  <2>. QED  BY <2>1, LockupAssumption DEF Withdraw, withdraw_max
<1>2. id \in Ids /\ amount \in Nat \ {0} /\ streams \in [Ids -> LockupStream]
  BY <1>1, StateTypes DEF withdraw
<1>. QED  BY <1>1, <1>2 DEF withdraw

LEMMA CancelEffect ==
    ASSUME Cancel
    PROVE  \E id \in Ids :
              /\ is_cancelable(streams[id])
              /\ streams[id].sender \in Accounts
              /\ streams' = [streams EXCEPT ![id] = Canceled(streams[id])]
              /\ PayOut(streams[id].token, streams[id].sender, SenderAmount(streams[id]))
              /\ UNCHANGED <<now, nextStreamId>>
  BY DEF Cancel, cancel, Callers

LEMMA RenounceEffect ==
    ASSUME Renounce
    PROVE  \E id \in Ids :
              /\ is_cancelable(streams[id])
              /\ streams' = [streams EXCEPT ![id] = Renounced(streams[id])]
              /\ UNCHANGED <<now, nextStreamId, aggregate, wallet>>
  BY DEF Renounce, renounce

-----------------------------------------------------------------------------
(* The invariant holds at the start and every operation keeps it *)

LEMMA InitKeeps == Init => IInv
<1> SUFFICES ASSUME Init PROVE IInv
  OBVIOUS
<1> USE DEF Init
<1>1. Ids = {}
  OBVIOUS
<1>2. TypeOK
  BY <1>1, LockupAssumption DEF TypeOK
<1>3. AggregateIsSum
  BY TotalType DEF AggregateIsSum
<1>4. ContractSolvent
  BY LockupAssumption DEF ContractSolvent
<1>. QED  BY <1>1, <1>2, <1>3, <1>4 DEF IInv

LEMMA TickKeeps == ASSUME IInv, Tick PROVE IInv'
<1>1. now \in Nat /\ now' \in Nat /\ now <= now'
      /\ UNCHANGED <<streams, nextStreamId, aggregate, wallet>>
  BY StateTypes DEF Tick
<1>2. \A id \in Ids : Sound(streams[id], now')
  BY <1>1, StateTypes, StreamedGrows
<1>3. TypeOK'
  BY <1>1 DEF IInv, TypeOK
<1>4. AggregateIsSum'
  BY <1>1 DEF IInv, AggregateIsSum, Held
<1>5. ContractSolvent'
  BY <1>1 DEF IInv, ContractSolvent
<1>. QED  BY <1>1, <1>2, <1>3, <1>4, <1>5 DEF IInv

LEMMA CreateKeeps == ASSUME IInv, Create PROVE IInv'
<1>1. PICK p \in Requests :
        /\ MayCreate(p)
        /\ nextStreamId <= MaxStreams
        /\ nextStreamId' = nextStreamId + 1
        /\ streams' = [id \in 1..nextStreamId |->
                          IF id = nextStreamId THEN NewStream(p) ELSE streams[id]]
        /\ aggregate[p.token] + p.total_amount <= MaxI128
        /\ aggregate' = [aggregate EXCEPT ![p.token] = @ + p.total_amount]
        /\ CanTransfer(wallet, p.token, p.sender, p.total_amount)
        /\ ExactTransfer(wallet, p.token, p.sender, Self, p.total_amount)
        /\ wallet' = Transferred(wallet, p.token, p.sender, Self, p.total_amount)
        /\ now' = now
  BY CreateEffect
<1> DEFINE s == NewStream(p)
           amount == p.total_amount
           token == p.token
<1>2. now \in Nat
  BY StateTypes
<1>3. /\ s \in LockupStream /\ Sound(s, now)
      /\ s.token = token /\ token \in Tokens
      /\ Remaining(s) = amount
      /\ amount \in Nat \ {0}
      /\ p.sender \in Accounts \ {Self}
  BY <1>1, <1>2, NewStreamSound, RecordTypes
<1> HIDE DEF s
<1>4. /\ nextStreamId \in Nat /\ nextStreamId >= 1 /\ Ids' = 1..nextStreamId
      /\ nextStreamId' \in 1..(MaxStreams + 1)
  BY <1>1, LockupAssumption DEF IInv, TypeOK
<1>5. \A id \in 1..nextStreamId : id = nextStreamId \/ id \in Ids
  BY <1>4
<1>6. \A id \in 1..nextStreamId : streams'[id] \in LockupStream /\ Sound(streams'[id], now)
  BY <1>1, <1>3, <1>5, StateTypes DEF s
<1>7. streams' \in [1..nextStreamId -> LockupStream]
  BY <1>1, <1>6
<1>8. wallet \in Wallets /\ Self \in Accounts
  BY StateTypes, LockupAssumption
<1>9. /\ wallet' \in Wallets
      /\ \A other \in Tokens \ {token} : wallet'[other] = wallet[other]
  <2>1. CanTransfer(wallet, token, p.sender, amount) /\ p.sender \in Accounts
        /\ amount \in Nat /\ wallet' = Transferred(wallet, token, p.sender, Self, amount)
    BY <1>1, <1>3
  <2> HIDE DEF amount, token
  <2>. QED  BY <1>3, <1>8, <2>1, TransferType
<1>10. wallet'[token][Self] - wallet[token][Self] = amount
  BY <1>1 DEF ExactTransfer
<1>11. \A t \in Tokens : aggregate'[t] = IF t = token THEN aggregate[t] + amount
                                                      ELSE aggregate[t]
  BY <1>1, StateTypes
<1>12. aggregate[token] \in 0..MaxI128 /\ aggregate[token] + amount \in 0..MaxI128
  BY <1>1, <1>3, StateTypes, LockupAssumption
<1>13. aggregate' \in [Tokens -> 0..MaxI128]
  <2>1. \A t \in Tokens : aggregate'[t] \in 0..MaxI128
    BY <1>11, <1>12, StateTypes
  <2>. QED  BY <1>1, <2>1, StateTypes
<1>14. TypeOK'
  BY <1>1, <1>2, <1>4, <1>7, <1>9, <1>13 DEF TypeOK
<1>15. AggregateIsSum'
  <2>1. aggregate' = [aggregate EXCEPT ![s.token] = @ + Remaining(s)]
    BY <1>1, <1>3
  <2>2. streams' = [id \in 1..nextStreamId |->
                       IF id = nextStreamId THEN s ELSE streams[id]]
    BY <1>1 DEF s
  <2>3. s.token \in Tokens /\ Remaining(s) \in Nat
    BY <1>3
  <2>. QED  BY <1>1, <2>1, <2>2, <2>3, BooksExtended, Zenon
<1>16. ContractSolvent'
  <2>1. ASSUME NEW t \in Tokens PROVE wallet'[t][Self] >= aggregate'[t]
    <3>1. /\ wallet[t][Self] \in Nat /\ wallet'[t][Self] \in Nat
          /\ wallet[t][Self] >= aggregate[t] /\ aggregate[t] \in Int
      BY <1>8, <1>9, StateTypes DEF ContractSolvent, IInv
    <3>. QED  BY <1>3, <1>9, <1>10, <1>11, <3>1
  <2>. QED  BY <2>1 DEF ContractSolvent
<1>. QED  BY <1>1, <1>4, <1>6, <1>14, <1>15, <1>16 DEF IInv

LEMMA WithdrawKeeps == ASSUME IInv, Withdraw PROVE IInv'
<1>1. PICK id \in Ids, to \in Accounts, amount \in Nat \ {0} :
        /\ ~streams[id].is_depleted
        /\ amount <= withdrawable_amount_of(streams[id], now)
        /\ streams' = [streams EXCEPT ![id] = Withdrawn(streams[id], amount)]
        /\ PayOut(streams[id].token, to, amount)
        /\ UNCHANGED <<now, nextStreamId>>
  BY WithdrawEffect
<1> DEFINE s == Withdrawn(streams[id], amount)
<1>2. /\ s \in LockupStream /\ Sound(s, now) /\ s.token = streams[id].token
      /\ amount <= Remaining(streams[id])
      /\ Remaining(s) = Remaining(streams[id]) - amount
  BY <1>1, StateTypes, WithdrawnSound
<1> HIDE DEF s
<1>. QED  BY <1>1, <1>2, PayKeeps DEF s

LEMMA CancelKeeps == ASSUME IInv, Cancel PROVE IInv'
<1>1. PICK id \in Ids :
        /\ is_cancelable(streams[id])
        /\ streams[id].sender \in Accounts
        /\ streams' = [streams EXCEPT ![id] = Canceled(streams[id])]
        /\ PayOut(streams[id].token, streams[id].sender, SenderAmount(streams[id]))
        /\ UNCHANGED <<now, nextStreamId>>
  BY CancelEffect
<1> DEFINE s == Canceled(streams[id])
           amount == SenderAmount(streams[id])
<1>2. /\ s \in LockupStream /\ Sound(s, now) /\ s.token = streams[id].token
      /\ amount \in Nat /\ amount <= Remaining(streams[id])
      /\ Remaining(s) = Remaining(streams[id]) - amount
  BY <1>1, StateTypes, CanceledSound, SenderAmountIsUnvested
<1> HIDE DEF s, amount
<1>. QED  BY <1>1, <1>2, PayKeeps DEF s, amount

LEMMA RenounceKeeps == ASSUME IInv, Renounce PROVE IInv'
<1>1. PICK id \in Ids :
        /\ is_cancelable(streams[id])
        /\ streams' = [streams EXCEPT ![id] = Renounced(streams[id])]
        /\ UNCHANGED <<now, nextStreamId, aggregate, wallet>>
  BY RenounceEffect
<1> DEFINE s == Renounced(streams[id])
<1>2. /\ s \in LockupStream /\ Sound(s, now) /\ s.token = streams[id].token
      /\ Remaining(s) = Remaining(streams[id])
  BY StateTypes, RenouncedSound
<1>3. streams' = [streams EXCEPT ![id] = s]
  BY <1>1
<1> HIDE DEF s
<1>4. \A i \in Ids : streams'[i] = IF i = id THEN s ELSE streams[i]
  BY <1>3, StateTypes
<1>5. TypeOK'
  BY <1>1, <1>2, <1>3 DEF IInv, TypeOK
<1>6. \A i \in Ids' : Sound(streams'[i], now')
  BY <1>1, <1>2, <1>4, StateTypes
<1>7. AggregateIsSum'
  <2>1. Remaining(s) = Remaining(streams[id]) - 0
    BY <1>2, StateTypes
  <2>2. aggregate' = [aggregate EXCEPT ![s.token] = @ - 0]
    BY <1>1, <1>2, StateTypes
  <2>3. nextStreamId' = nextStreamId /\ 0 \in Int
    BY <1>1
  <2>. QED  BY <1>2, <1>3, <2>1, <2>2, <2>3, BooksMoved, Zenon
<1>8. ContractSolvent'
  BY <1>1 DEF IInv, ContractSolvent
<1>. QED  BY <1>5, <1>6, <1>7, <1>8 DEF IInv

LEMMA StepKeeps == IInv /\ [Next]_vars => IInv'
<1> SUFFICES ASSUME IInv, [Next]_vars PROVE IInv'
  OBVIOUS
<1>1. CASE UNCHANGED vars
  BY <1>1 DEF vars, IInv, TypeOK, AggregateIsSum, ContractSolvent, Held
<1>. QED  BY <1>1, TickKeeps, CreateKeeps, WithdrawKeeps, CancelKeeps, RenounceKeeps
          DEF Next

LEMMA LockupInvariant == Spec => []IInv
  BY InitKeeps, StepKeeps, PTL DEF Spec

-----------------------------------------------------------------------------
(* Invariants *)

(* Every record stays one the contract can store: no amount is ever         *)
(* negative or beyond an i128, whatever is created, withdrawn and canceled  *)
(* (types.rs: LockupStream).                                                *)
THEOREM LockupTypeCorrect == Spec => []TypeOK
<1>1. IInv => TypeOK
  BY DEF IInv
<1>. QED  BY <1>1, LockupInvariant, PTL

(* The security invariants of internal.rs, for every schedule that create   *)
(* accepts, at every time: nobody withdraws more than has vested, nothing   *)
(* vested is refunded, and a stream is depleted exactly when it is empty.   *)
THEOREM LockupNeverOverdrawn == Spec => []NeverOverdrawn
<1>1. IInv => NeverOverdrawn
  BY DEF IInv, NeverOverdrawn, Sound
<1>. QED  BY <1>1, LockupInvariant, PTL

(* What refundable_amount_of announces is what cancel pays (queries.rs,     *)
(* internal.rs).                                                            *)
THEOREM LockupRefundAnnounced == Spec => []RefundAnnounced
<1>1. IInv => RefundAnnounced
  <2> SUFFICES ASSUME IInv, NEW id \in Ids, is_cancelable(streams[id])
               PROVE  SenderAmount(streams[id]) = refundable_amount_of(streams[id], now)
    BY DEF RefundAnnounced
  <2>. QED  BY StateTypes, SenderAmountIsUnvested DEF refundable_amount_of
<1>. QED  BY <1>1, LockupInvariant, PTL

(* The stored aggregate of a token is always what its streams have left     *)
(* together, for any number of streams.                                     *)
THEOREM LockupAggregateIsSum == Spec => []AggregateIsSum
<1>1. IInv => AggregateIsSum
  BY DEF IInv
<1>. QED  BY <1>1, LockupInvariant, PTL

(* The contract always holds at least what its streams have left, also of a *)
(* token that withholds a fee.                                              *)
THEOREM LockupSolvent == Spec => []ContractSolvent
<1>1. IInv => ContractSolvent
  BY DEF IInv
<1>. QED  BY <1>1, LockupInvariant, PTL

-----------------------------------------------------------------------------
(* What a step may do to one stream *)

(* A stream that exists is left alone, or has one operation applied to it   *)
(* while the time stands still.                                             *)
LEMMA StreamStep ==
    ASSUME IInv, [Next]_vars, NEW id \in Ids
    PROVE  LET s == streams[id] IN
           \/ streams'[id] = s /\ now' \in Nat /\ now <= now'
           \/ /\ now' = now /\ ~Tick
              /\ \/ /\ ~s.is_depleted
                    /\ \E amount \in Nat \ {0} :
                          /\ amount <= withdrawable_amount_of(s, now)
                          /\ streams'[id] = Withdrawn(s, amount)
                 \/ is_cancelable(s) /\ streams'[id] = Canceled(s)
                 \/ is_cancelable(s) /\ streams'[id] = Renounced(s)
<1>1. now \in Nat /\ nextStreamId \in Nat /\ streams \in [Ids -> LockupStream]
  BY StateTypes
<1>2. now' = now => ~Tick
  BY <1>1 DEF Tick
<1>3. CASE Tick \/ UNCHANGED vars
  BY <1>1, <1>3 DEF Tick, vars
<1>4. CASE Create
  <2>1. PICK p \in Requests :
          /\ streams' = [i \in 1..nextStreamId |->
                            IF i = nextStreamId THEN NewStream(p) ELSE streams[i]]
          /\ now' = now
    BY <1>4, CreateEffect
  <2>2. id \in 1..nextStreamId /\ id # nextStreamId
    BY <1>1
  <2>. QED  BY <1>1, <2>1, <2>2
<1>5. CASE Withdraw
  <2>1. PICK i \in Ids, to \in Accounts, amount \in Nat \ {0} :
          /\ ~streams[i].is_depleted
          /\ amount <= withdrawable_amount_of(streams[i], now)
          /\ streams' = [streams EXCEPT ![i] = Withdrawn(streams[i], amount)]
          /\ UNCHANGED <<now, nextStreamId>>
    BY <1>5, WithdrawEffect
  <2>. QED  BY <1>1, <1>2, <2>1
<1>6. CASE Cancel
  <2>1. PICK i \in Ids :
          /\ is_cancelable(streams[i])
          /\ streams' = [streams EXCEPT ![i] = Canceled(streams[i])]
          /\ UNCHANGED <<now, nextStreamId>>
    BY <1>6, CancelEffect
  <2>. QED  BY <1>1, <1>2, <2>1
<1>7. CASE Renounce
  <2>1. PICK i \in Ids :
          /\ is_cancelable(streams[i])
          /\ streams' = [streams EXCEPT ![i] = Renounced(streams[i])]
          /\ UNCHANGED <<now, nextStreamId>>
    BY <1>7, RenounceEffect
  <2>. QED  BY <1>1, <1>2, <2>1
<1>. QED  BY <1>3, <1>4, <1>5, <1>6, <1>7 DEF Next

(* No operation changes the deposit or the start of a stream. *)
LEMMA SameTerms ==
    ASSUME NEW s, NEW n, (\E amount : n = Withdrawn(s, amount)) \/ n = Canceled(s) \/ n = Renounced(s)
    PROVE  n.total_amount = s.total_amount /\ n.start_time = s.start_time
  BY DEF Withdrawn, Canceled, Renounced, Booked

(* What has vested stays vested under every operation, and while time       *)
(* passes (internal.rs: streamed_amount_of, cancel, withdraw).              *)
THEOREM LockupVestedIsKept == Spec => VestedIsKept
<1>1. IInv /\ [Next]_vars =>
        [\A id \in Ids :
           streamed_amount_of(streams'[id], now') >= streamed_amount_of(streams[id], now)]_vars
  <2> SUFFICES ASSUME IInv, [Next]_vars, NEW id \in Ids
               PROVE  streamed_amount_of(streams'[id], now')
                        >= streamed_amount_of(streams[id], now)
    OBVIOUS
  <2> DEFINE s == streams[id]
  <2>1. /\ now \in Nat /\ s \in LockupStream /\ Sound(s, now)
        /\ streamed_amount_of(s, now) \in Nat
    BY StateTypes, StreamedType DEF Sound
  <2>2. CASE streams'[id] = s /\ now' \in Nat /\ now <= now'
    <3>1. streamed_amount_of(s, now) <= streamed_amount_of(s, now')
      BY <2>1, <2>2, StreamedGrows
    <3>2. streamed_amount_of(s, now') \in Nat
      BY <2>1, <2>2, StreamedType DEF Sound
    <3>. QED  BY <2>1, <2>2, <3>1, <3>2
  <2>3. CASE now' = now /\ streamed_amount_of(streams'[id], now) = streamed_amount_of(s, now)
    BY <2>1, <2>3
  <2>4. now' = now =>
          /\ \A amount \in Nat \ {0} :
                (/\ ~s.is_depleted
                 /\ amount <= withdrawable_amount_of(s, now)) =>
                   streamed_amount_of(Withdrawn(s, amount), now) = streamed_amount_of(s, now)
          /\ is_cancelable(s) =>
                streamed_amount_of(Canceled(s), now) = streamed_amount_of(s, now)
          /\ streamed_amount_of(Renounced(s), now) = streamed_amount_of(s, now)
    BY <2>1, WithdrawnSound, CanceledSound, RenouncedSound
  <2> HIDE DEF s
  <2>5. \/ streams'[id] = s /\ now' \in Nat /\ now <= now'
        \/ now' = now /\ streamed_amount_of(streams'[id], now) = streamed_amount_of(s, now)
    BY <2>4, StreamStep DEF s
  <2>. QED  BY <2>2, <2>3, <2>5 DEF s
<1>. QED  BY <1>1, LockupInvariant, PTL DEF Spec, VestedIsKept

(* No operation but a withdrawal, and no second, lowers what a stream would *)
(* pay its recipient.                                                       *)
LEMMA OnlyWithdrawPays ==
    ASSUME IInv, NEW id \in Ids, Tick \/ Create \/ Cancel \/ Renounce
    PROVE  /\ id \in Ids'
           /\ withdrawable_amount_of(streams[id], now)
                <= withdrawable_amount_of(streams'[id], now')
<1> DEFINE s == streams[id]
           n == streams'[id]
<1>1. now \in Nat /\ s \in LockupStream /\ Sound(s, now) /\ nextStreamId \in Nat
  BY StateTypes
<1>2. /\ id \in Ids'
      /\ \/ n = s /\ now' \in {now, now + 1}
         \/ now' = now /\ is_cancelable(s) /\ n = Canceled(s)
         \/ now' = now /\ n = Renounced(s)
  <2>1. ASSUME NEW i \in Ids, NEW m, streams' = [streams EXCEPT ![i] = m],
               UNCHANGED <<now, nextStreamId>>
        PROVE  /\ id \in Ids' /\ now' = now
               /\ IF id = i THEN n = m ELSE n = s
    BY <2>1, StateTypes
  <2>2. CASE Tick
    BY <2>2 DEF Tick
  <2>3. CASE Create
    <3>1. PICK p \in Requests :
            /\ nextStreamId' = nextStreamId + 1
            /\ streams' = [i \in 1..nextStreamId |->
                              IF i = nextStreamId THEN NewStream(p) ELSE streams[i]]
            /\ now' = now
      BY <2>3, CreateEffect
    <3>. QED  BY <1>1, <3>1
  <2>. HIDE DEF Ids
  <2>4. CASE Cancel
    <3>1. PICK i \in Ids :
            /\ is_cancelable(streams[i])
            /\ streams' = [streams EXCEPT ![i] = Canceled(streams[i])]
            /\ UNCHANGED <<now, nextStreamId>>
      BY <2>4, CancelEffect
    <3>. QED  BY <2>1, <3>1
  <2>5. CASE Renounce
    <3>1. PICK i \in Ids :
            /\ streams' = [streams EXCEPT ![i] = Renounced(streams[i])]
            /\ UNCHANGED <<now, nextStreamId>>
      BY <2>5, RenounceEffect
    <3>. QED  BY <2>1, <3>1
  <2>. QED  BY <2>2, <2>3, <2>4, <2>5
<1>. HIDE DEF s, n
<1>3. /\ n.withdrawn_amount = s.withdrawn_amount
      /\ streamed_amount_of(s, now) <= streamed_amount_of(n, now')
      /\ streamed_amount_of(s, now) \in Nat /\ streamed_amount_of(n, now') \in Nat
      /\ s.withdrawn_amount \in Nat
  <2>1. streamed_amount_of(s, now) \in Nat /\ s.withdrawn_amount \in Nat
    BY <1>1, StreamedType, RecordTypes DEF Sound
  <2>2. CASE n = s /\ now' \in {now, now + 1}
    <3>1. now' \in Nat /\ now <= now'
      BY <1>1, <2>2
    <3>2. streamed_amount_of(s, now) <= streamed_amount_of(s, now') /\ Sound(s, now')
      BY <1>1, <3>1, StreamedGrows
    <3>3. streamed_amount_of(s, now') \in Nat
      BY <1>1, <3>1, <3>2, StreamedType DEF Sound
    <3>. QED  BY <2>1, <2>2, <3>2, <3>3
  <2>3. CASE now' = now /\ is_cancelable(s) /\ n = Canceled(s)
    <3>1. /\ n.withdrawn_amount = s.withdrawn_amount
          /\ streamed_amount_of(n, now) = streamed_amount_of(s, now)
      BY <1>1, <2>3, CanceledSound
    <3>. QED  BY <2>1, <2>3, <3>1
  <2>4. CASE now' = now /\ n = Renounced(s)
    <3>1. /\ n.withdrawn_amount = s.withdrawn_amount
          /\ streamed_amount_of(n, now) = streamed_amount_of(s, now)
      BY <1>1, <2>4, RenouncedSound
    <3>. QED  BY <2>1, <2>4, <3>1
  <2>. QED  BY <1>2, <2>2, <2>3, <2>4
<1>. QED  BY <1>2, <1>3 DEF withdrawable_amount_of, s, n

(* Time never warms or changes a cold stream, nothing warms one, and a      *)
(* depleted stream stays depleted (types.rs: is_cold, queries.rs:           *)
(* status_of).                                                              *)
THEOREM LockupColdStaysCold == Spec => ColdStaysCold
<1>1. IInv /\ [Next]_vars =>
        [\A id \in Ids :
           LET before == status_of(streams[id], now)
               after == status_of(streams'[id], now')
           IN  /\ is_cold(streams[id], now) => is_cold(streams'[id], now')
               /\ (is_cold(streams[id], now) /\ Tick) => after = before
               /\ before = "Depleted" => after = before]_vars
  <2> SUFFICES ASSUME IInv, [Next]_vars, NEW id \in Ids
               PROVE  LET before == status_of(streams[id], now)
                          after == status_of(streams'[id], now')
                      IN  /\ is_cold(streams[id], now) => is_cold(streams'[id], now')
                          /\ (is_cold(streams[id], now) /\ Tick) => after = before
                          /\ before = "Depleted" => after = before
    OBVIOUS
  <2> DEFINE s == streams[id]
             n == streams'[id]
  <2>1. /\ now \in Nat /\ s \in LockupStream /\ Sound(s, now)
        /\ streamed_amount_of(s, now) \in Nat
        /\ s.total_amount \in Nat /\ s.start_time \in Nat
        /\ s.is_depleted \in BOOLEAN /\ s.was_canceled \in BOOLEAN
    BY StateTypes, StreamedType, RecordTypes DEF Sound
  <2> HIDE DEF s, n
  <2>2. CASE n = s /\ now' \in Nat /\ now <= now'
    <3>1. /\ streamed_amount_of(s, now) <= streamed_amount_of(s, now')
          /\ streamed_amount_of(s, now') \in Nat
      BY <2>1, <2>2, StreamedGrows, StreamedType DEF Sound
    <3>2. is_cold(s, now) => status_of(s, now') = status_of(s, now)
      BY <2>1, <2>2, <3>1 DEF is_cold, status_of
    <3>. QED  BY <2>2, <3>2 DEF is_cold, s, n
  <2>3. ASSUME now' = now, ~Tick, NEW amount \in Nat \ {0}, ~s.is_depleted,
               amount <= withdrawable_amount_of(s, now), n = Withdrawn(s, amount)
        PROVE  /\ is_cold(s, now) => is_cold(n, now)
               /\ status_of(s, now) # "Depleted"
    <3>1. /\ n.was_canceled = s.was_canceled
          /\ streamed_amount_of(n, now) = streamed_amount_of(s, now)
      BY <2>1, <2>3, WithdrawnSound
    <3>2. n.total_amount = s.total_amount /\ n.start_time = s.start_time
      BY <2>3, SameTerms
    <3>. QED  BY <2>3, <3>1, <3>2 DEF is_cold, status_of
  <2>4. ASSUME now' = now, ~Tick, is_cancelable(s), n = Canceled(s)
        PROVE  /\ is_cold(s, now) => is_cold(n, now)
               /\ status_of(s, now) # "Depleted"
    <3>1. n.was_canceled
      BY <2>1, <2>4, CanceledSound
    <3>. QED  BY <2>4, <3>1 DEF is_cold, status_of, is_cancelable
  <2>5. ASSUME now' = now, ~Tick, is_cancelable(s), n = Renounced(s)
        PROVE  status_of(n, now) = status_of(s, now)
    <3>1. /\ n.was_canceled = s.was_canceled /\ n.is_depleted = s.is_depleted
          /\ streamed_amount_of(n, now) = streamed_amount_of(s, now)
      BY <2>1, <2>5, RenouncedSound
    <3>2. n.total_amount = s.total_amount /\ n.start_time = s.start_time
      BY <2>5, SameTerms
    <3>. QED  BY <3>1, <3>2 DEF status_of
  <2>6. \/ n = s /\ now' \in Nat /\ now <= now'
        \/ /\ now' = now /\ ~Tick
           /\ \/ /\ ~s.is_depleted
                 /\ \E amount \in Nat \ {0} :
                       /\ amount <= withdrawable_amount_of(s, now)
                       /\ n = Withdrawn(s, amount)
              \/ is_cancelable(s) /\ n = Canceled(s)
              \/ is_cancelable(s) /\ n = Renounced(s)
    BY StreamStep DEF s, n
  <2>. QED  BY <2>2, <2>3, <2>4, <2>5, <2>6 DEF is_cold, s, n
<1>. QED  BY <1>1, LockupInvariant, PTL DEF Spec, ColdStaysCold

(* A sender without the right to cancel never gets it, nor any refund       *)
(* (internal.rs: renounce, cancel).                                         *)
THEOREM LockupRenouncedForGood == Spec => RenouncedForGood
<1>1. IInv /\ [Next]_vars =>
        [\A id \in Ids :
           ~is_cancelable(streams[id]) =>
               /\ ~is_cancelable(streams'[id])
               /\ streams'[id].refunded_amount = streams[id].refunded_amount]_vars
  <2> SUFFICES ASSUME IInv, [Next]_vars, NEW id \in Ids, ~is_cancelable(streams[id])
               PROVE  /\ ~is_cancelable(streams'[id])
                      /\ streams'[id].refunded_amount = streams[id].refunded_amount
    OBVIOUS
  <2> DEFINE s == streams[id]
             n == streams'[id]
  <2>1. now \in Nat /\ s \in LockupStream /\ Sound(s, now) /\ ~is_cancelable(s)
    BY StateTypes
  <2> HIDE DEF s, n
  <2>2. ASSUME NEW amount \in Nat \ {0}, ~s.is_depleted,
               amount <= withdrawable_amount_of(s, now), n = Withdrawn(s, amount)
        PROVE  ~is_cancelable(n) /\ n.refunded_amount = s.refunded_amount
    <3>1. /\ n.refunded_amount = s.refunded_amount
          /\ n.was_canceled = s.was_canceled
          /\ n.cancelable <=> (s.cancelable /\ amount < Remaining(s))
      BY <2>1, <2>2, WithdrawnSound
    <3>. QED  BY <2>1, <2>2, <3>1 DEF is_cancelable
  <2>3. \/ n = s
        \/ /\ ~s.is_depleted
           /\ \E amount \in Nat \ {0} :
                 /\ amount <= withdrawable_amount_of(s, now)
                 /\ n = Withdrawn(s, amount)
    BY <2>1, StreamStep DEF s, n
  <2>. QED  BY <2>1, <2>2, <2>3 DEF s, n
<1>. QED  BY <1>1, LockupInvariant, PTL DEF Spec, RenouncedForGood

-----------------------------------------------------------------------------
(* The contract implements LockupPromise *)

(* Where the sender may cancel, all that is open is his; else a canceled    *)
(* or renounced stream returns nothing.                                     *)
LEMMA EscrowType ==
    ASSUME NEW s \in LockupStream, NEW t \in Nat, Sound(s, t)
    PROVE  /\ EscrowOf(s, t).left \in Nat
           /\ EscrowOf(s, t).vested \in 0..EscrowOf(s, t).left
           /\ EscrowOf(s, t).returns \in BOOLEAN
           /\ EscrowOf(s, t) \in Promise!Escrow
<1>1. /\ s.withdrawn_amount \in Nat /\ s.total_amount \in Nat /\ s.refunded_amount \in Nat
      /\ s.cancelable \in BOOLEAN
      /\ streamed_amount_of(s, t) \in Nat
      /\ s.withdrawn_amount <= streamed_amount_of(s, t)
      /\ streamed_amount_of(s, t) <= s.total_amount - s.refunded_amount
      /\ Remaining(s) \in Nat
  BY RecordTypes, StreamedType, RemainingType DEF Sound
<1>2. streamed_amount_of(s, t) - s.withdrawn_amount \in 0..Remaining(s)
  BY <1>1 DEF Remaining
<1>3. is_cancelable(s) \in BOOLEAN
  BY DEF is_cancelable
<1>. QED  BY <1>1, <1>2, <1>3 DEF EscrowOf, Promise!Escrow

(* The operations of one stream are those of its escrow. *)
LEMMA WithdrawnPays ==
    ASSUME IInv, NEW id \in Ids, NEW amount \in Nat \ {0}, ~streams[id].is_depleted,
           amount <= withdrawable_amount_of(streams[id], now)
    PROVE  LET e == EscrowOf(streams[id], now)
           IN  /\ amount \in 1..e.vested
               /\ EscrowOf(Withdrawn(streams[id], amount), now)
                     = Promise!Terms(e.left - amount, e.vested - amount,
                                     e.returns /\ amount < e.left)
<1> DEFINE s == streams[id]
           n == Withdrawn(s, amount)
           streamed == streamed_amount_of(s, now)
<1>1. /\ now \in Nat /\ s \in LockupStream /\ Sound(s, now)
      /\ s.withdrawn_amount \in Nat /\ streamed \in Nat
      /\ s.cancelable \in BOOLEAN /\ s.was_canceled \in BOOLEAN
      /\ Remaining(s) \in Nat
  BY StateTypes, RecordTypes, StreamedType DEF Sound
<1>2. /\ amount <= Remaining(s)
      /\ Remaining(n) = Remaining(s) - amount
      /\ n.withdrawn_amount = s.withdrawn_amount + amount
      /\ n.was_canceled = s.was_canceled
      /\ n.is_depleted <=> amount = Remaining(s)
      /\ n.cancelable <=> (s.cancelable /\ amount < Remaining(s))
      /\ streamed_amount_of(n, now) = streamed
  BY <1>1, WithdrawnSound
<1>3. amount \in 1..(streamed - s.withdrawn_amount)
  BY <1>1 DEF withdrawable_amount_of
<1>4. is_cancelable(n) <=> (is_cancelable(s) /\ amount < Remaining(s))
  <2>1. amount < Remaining(s) => ~(amount = Remaining(s))
    BY <1>1
  <2>. QED  BY <1>2, <2>1, Zenon DEF is_cancelable
<1> HIDE DEF n, streamed
<1>5. streamed - n.withdrawn_amount = (streamed - s.withdrawn_amount) - amount
  BY <1>1, <1>2
<1>6. /\ is_cancelable(n) \in BOOLEAN
      /\ (is_cancelable(s) /\ amount < Remaining(s)) \in BOOLEAN
  BY DEF is_cancelable
<1>7. is_cancelable(n) = (is_cancelable(s) /\ amount < Remaining(s))
  BY <1>4, <1>6, Zenon
<1>. QED  BY <1>2, <1>3, <1>5, <1>7 DEF EscrowOf, Promise!Terms, n, streamed

LEMMA CanceledReturns ==
    ASSUME IInv, NEW id \in Ids, is_cancelable(streams[id])
    PROVE  LET e == EscrowOf(streams[id], now)
           IN  /\ e.returns
               /\ EscrowOf(Canceled(streams[id]), now)
                     = Promise!Terms(e.vested, e.vested, FALSE)
<1> DEFINE s == streams[id]
           n == Canceled(s)
           streamed == streamed_amount_of(s, now)
<1>1. /\ now \in Nat /\ s \in LockupStream /\ Sound(s, now)
      /\ s.withdrawn_amount \in Nat /\ streamed \in Nat /\ s.total_amount \in Nat
      /\ s.refunded_amount = 0
  BY StateTypes, RecordTypes, StreamedType DEF Sound, is_cancelable
<1>2. /\ Remaining(n) = Remaining(s) - SenderAmount(s)
      /\ n.withdrawn_amount = s.withdrawn_amount
      /\ n.was_canceled
      /\ streamed_amount_of(n, now) = streamed
      /\ SenderAmount(s) = s.total_amount - streamed
  BY <1>1, CanceledSound, SenderAmountIsUnvested
<1> HIDE DEF n, streamed
<1>3. Remaining(n) = streamed - s.withdrawn_amount
  BY <1>1, <1>2 DEF Remaining
<1>4. is_cancelable(n) = FALSE
  BY <1>2 DEF is_cancelable
<1>. QED  BY <1>2, <1>3, <1>4 DEF EscrowOf, Promise!Terms, n, streamed

LEMMA RenouncedKeeps ==
    ASSUME IInv, NEW id \in Ids, is_cancelable(streams[id])
    PROVE  LET e == EscrowOf(streams[id], now)
           IN  /\ e.returns
               /\ EscrowOf(Renounced(streams[id]), now)
                     = Promise!Terms(e.left, e.vested, FALSE)
<1> DEFINE s == streams[id]
           n == Renounced(s)
<1>1. now \in Nat /\ s \in LockupStream /\ Sound(s, now)
  BY StateTypes
<1>2. /\ Remaining(n) = Remaining(s)
      /\ n.withdrawn_amount = s.withdrawn_amount
      /\ ~n.cancelable
      /\ streamed_amount_of(n, now) = streamed_amount_of(s, now)
  BY <1>1, RenouncedSound
<1> HIDE DEF n
<1>3. is_cancelable(n) = FALSE
  BY <1>2 DEF is_cancelable
<1>. QED  BY <1>2, <1>3 DEF EscrowOf, Promise!Terms, n

(* Passing time only moves money from what is open to what is vested. *)
LEMMA TimeVests ==
    ASSUME NEW s \in LockupStream, NEW t \in Nat, NEW u \in Nat, t <= u, Sound(s, t)
    PROVE  LET e == EscrowOf(s, t)
               f == EscrowOf(s, u)
           IN  /\ f.vested \in e.vested..e.left
               /\ f = Promise!Terms(e.left, f.vested, e.returns)
<1>1. /\ s.withdrawn_amount \in Nat
      /\ streamed_amount_of(s, t) \in Nat /\ streamed_amount_of(s, u) \in Nat
      /\ streamed_amount_of(s, t) <= streamed_amount_of(s, u)
      /\ EscrowOf(s, u).vested \in 0..EscrowOf(s, u).left
      /\ EscrowOf(s, u).left \in Nat
  BY RecordTypes, StreamedType, StreamedGrows, EscrowType DEF Sound
<1>. QED  BY <1>1 DEF EscrowOf, Promise!Terms

(* A step that replaces one record replaces one escrow. *)
LEMMA OneEscrowChanges ==
    ASSUME IInv, NEW id \in Ids, NEW n, streams' = [streams EXCEPT ![id] = n],
           UNCHANGED <<now, nextStreamId>>
    PROVE  /\ DOMAIN Escrows = Ids
           /\ Escrows[id] = EscrowOf(streams[id], now)
           /\ Escrows' = [Escrows EXCEPT ![id] = EscrowOf(n, now)]
<1>1. \A i \in Ids : streams'[i] = IF i = id THEN n ELSE streams[i]
  BY StateTypes
<1>2. Ids' = Ids /\ now' = now
  OBVIOUS
<1>3. Escrows' = [i \in Ids' |-> EscrowOf(streams'[i], now')]
  BY DEF Escrows, EscrowOf
<1>4. DOMAIN Escrows = Ids /\ \A i \in Ids : Escrows[i] = EscrowOf(streams[i], now)
  BY DEF Escrows
<1> DEFINE after == [Escrows EXCEPT ![id] = EscrowOf(n, now)]
<1>5. after = [i \in Ids |-> IF i = id THEN EscrowOf(n, now) ELSE EscrowOf(streams[i], now)]
  BY <1>4
<1>6. Escrows' = [i \in Ids |-> EscrowOf(streams'[i], now)]
  BY <1>2, <1>3
<1>7. \A i \in Ids : EscrowOf(streams'[i], now)
                     = IF i = id THEN EscrowOf(n, now) ELSE EscrowOf(streams[i], now)
  BY <1>1
<1>. QED  BY <1>4, <1>5, <1>6, <1>7

LEMMA EscrowsVest ==
    ASSUME IInv, now' \in Nat, now <= now', UNCHANGED <<streams, nextStreamId>>
    PROVE  [Promise!Next]_Escrows
<1>1. /\ Escrows = [id \in Ids |-> EscrowOf(streams[id], now)]
      /\ Escrows' = [id \in Ids |-> EscrowOf(streams[id], now')]
      /\ DOMAIN Escrows = Ids /\ DOMAIN Escrows' = Ids
  BY DEF Escrows, EscrowOf
<1>2. ASSUME NEW id \in Ids
      PROVE  LET e == Escrows[id]
                 f == Escrows'[id]
             IN  /\ f.vested \in e.vested..e.left
                 /\ f = Promise!Terms(e.left, f.vested, e.returns)
  BY <1>1, StateTypes, TimeVests
<1>3. Promise!Vest
  BY <1>1, <1>2 DEF Promise!Vest, Promise!Parties, Escrows
<1>. QED  BY <1>3 DEF Promise!Next

LEMMA CreateOpens ==
    ASSUME IInv, Create
    PROVE  Promise!Next
<1>1. PICK p \in Requests :
        /\ MayCreate(p)
        /\ nextStreamId' = nextStreamId + 1
        /\ streams' = [id \in 1..nextStreamId |->
                          IF id = nextStreamId THEN NewStream(p) ELSE streams[id]]
        /\ now' = now
  BY CreateEffect
<1> DEFINE s == NewStream(p)
           id == nextStreamId
           e == EscrowOf(s, now)
<1>2. now \in Nat
  BY StateTypes
<1>3. /\ s \in LockupStream /\ Sound(s, now)
      /\ Remaining(s) \in Nat \ {0}
  BY <1>1, <1>2, NewStreamSound
<1>4. nextStreamId \in Nat /\ nextStreamId >= 1
  BY LockupAssumption DEF IInv, TypeOK
<1>5. Ids' = 1..id /\ Ids' = Ids \cup {id} /\ id \notin Ids
  BY <1>1, <1>4
<1>6. streams'[id] = s /\ \A i \in Ids : streams'[i] = streams[i]
  BY <1>1, <1>4
<1> HIDE DEF s, Ids
<1>7. /\ Escrows = [i \in Ids |-> EscrowOf(streams[i], now)]
      /\ Escrows' = [i \in Ids' |-> EscrowOf(streams'[i], now)]
  BY <1>1 DEF Escrows, EscrowOf
<1>8. /\ DOMAIN Escrows = Ids /\ DOMAIN Escrows' = Ids \cup {id}
      /\ Escrows'[id] = e
      /\ \A i \in Ids : Escrows'[i] = Escrows[i]
  BY <1>5, <1>6, <1>7
<1>9. e \in Promise!Escrow /\ e.left > 0 /\ e.vested <= e.left
  <2>1. e \in Promise!Escrow /\ e.left \in Nat /\ e.vested \in 0..e.left
    BY <1>2, <1>3, EscrowType
  <2>2. e.left = Remaining(s)
    BY DEF EscrowOf
  <2>. QED  BY <1>3, <2>1, <2>2
<1> HIDE DEF e
<1>10. Promise!Open
  <2>1. id \in DOMAIN Escrows' \ DOMAIN Escrows
    BY <1>5, <1>8
  <2>. QED  BY <1>8, <1>9, <2>1 DEF Promise!Open, Promise!Parties
<1>. QED  BY <1>10 DEF Promise!Next

LEMMA WithdrawIsPay ==
    ASSUME IInv, Withdraw
    PROVE  Promise!Next
<1>1. PICK id \in Ids, to \in Accounts, amount \in Nat \ {0} :
        /\ ~streams[id].is_depleted
        /\ amount <= withdrawable_amount_of(streams[id], now)
        /\ streams' = [streams EXCEPT ![id] = Withdrawn(streams[id], amount)]
        /\ UNCHANGED <<now, nextStreamId>>
  BY WithdrawEffect
<1> DEFINE n == Withdrawn(streams[id], amount)
           e == EscrowOf(streams[id], now)
<1>2. /\ DOMAIN Escrows = Ids
      /\ Escrows[id] = e
      /\ Escrows' = [Escrows EXCEPT ![id] = EscrowOf(n, now)]
  BY <1>1, OneEscrowChanges
<1>3. /\ amount \in 1..e.vested
      /\ EscrowOf(n, now) = Promise!Terms(e.left - amount, e.vested - amount,
                                          e.returns /\ amount < e.left)
  BY <1>1, WithdrawnPays
<1> HIDE DEF n, e
<1>4. Promise!Pay(id)
  BY <1>2, <1>3 DEF Promise!Pay, Promise!Becomes
<1>5. id \in Promise!Parties
  BY <1>2 DEF Promise!Parties
<1>. QED  BY <1>4, <1>5 DEF Promise!Next

LEMMA CancelIsReturn ==
    ASSUME IInv, Cancel
    PROVE  Promise!Next
<1>1. PICK id \in Ids :
        /\ is_cancelable(streams[id])
        /\ streams' = [streams EXCEPT ![id] = Canceled(streams[id])]
        /\ UNCHANGED <<now, nextStreamId>>
  BY CancelEffect
<1> DEFINE n == Canceled(streams[id])
           e == EscrowOf(streams[id], now)
<1>2. /\ DOMAIN Escrows = Ids
      /\ Escrows[id] = e
      /\ Escrows' = [Escrows EXCEPT ![id] = EscrowOf(n, now)]
  BY <1>1, OneEscrowChanges
<1>3. e.returns /\ EscrowOf(n, now) = Promise!Terms(e.vested, e.vested, FALSE)
  BY <1>1, CanceledReturns
<1> HIDE DEF n, e
<1>4. Promise!Return(id)
  BY <1>2, <1>3 DEF Promise!Return, Promise!Becomes
<1>5. id \in Promise!Parties
  BY <1>2 DEF Promise!Parties
<1>. QED  BY <1>4, <1>5 DEF Promise!Next

LEMMA RenounceIsRenounce ==
    ASSUME IInv, Renounce
    PROVE  Promise!Next
<1>1. PICK id \in Ids :
        /\ is_cancelable(streams[id])
        /\ streams' = [streams EXCEPT ![id] = Renounced(streams[id])]
        /\ UNCHANGED <<now, nextStreamId>>
  BY RenounceEffect
<1> DEFINE n == Renounced(streams[id])
           e == EscrowOf(streams[id], now)
<1>2. /\ DOMAIN Escrows = Ids
      /\ Escrows[id] = e
      /\ Escrows' = [Escrows EXCEPT ![id] = EscrowOf(n, now)]
  BY <1>1, OneEscrowChanges
<1>3. e.returns /\ EscrowOf(n, now) = Promise!Terms(e.left, e.vested, FALSE)
  BY <1>1, RenouncedKeeps
<1> HIDE DEF n, e
<1>4. Promise!Renounce(id)
  BY <1>2, <1>3 DEF Promise!Renounce, Promise!Becomes
<1>5. id \in Promise!Parties
  BY <1>2 DEF Promise!Parties
<1>. QED  BY <1>4, <1>5 DEF Promise!Next

(* Lockup keeps the promise of LockupPromise to both parties of every       *)
(* stream, for any number of them: each step is a step of one escrow, the   *)
(* opening of one, the vesting of all, or none (internal.rs).               *)
THEOREM LockupKeepsPromise == Spec => ImplementsPromise
<1>1. Init => Promise!Init
  <2> SUFFICES ASSUME Init PROVE Promise!Init
    OBVIOUS
  <2>1. Ids = {}
    BY DEF Init
  <2>. QED  BY <2>1 DEF Promise!Init, Escrows
<1>2. IInv /\ [Next]_vars => [Promise!Next]_Escrows
  <2> SUFFICES ASSUME IInv, [Next]_vars PROVE [Promise!Next]_Escrows
    OBVIOUS
  <2>1. CASE Tick \/ UNCHANGED vars
    <3>1. now' \in Nat /\ now <= now' /\ UNCHANGED <<streams, nextStreamId>>
      BY <2>1, StateTypes DEF Tick, vars
    <3>. QED  BY <3>1, EscrowsVest
  <2>. QED  BY <2>1, CreateOpens, WithdrawIsPay, CancelIsReturn, RenounceIsRenounce DEF Next
<1>. QED  BY <1>1, <1>2, LockupInvariant, PTL DEF Spec, ImplementsPromise, Promise!Spec
=============================================================================
