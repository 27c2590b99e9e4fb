----------------------------- MODULE FlowProofs -----------------------------
(***************************************************************************)
(* Theorems about Flow, for every value of its constants.                  *)
(***************************************************************************)
EXTENDS Flow, LedgerProofs, TLAPS

USE DEF Wallets, Ids

-----------------------------------------------------------------------------
(* Arithmetic *)

(* Descaling and scaling back never gains: the division rounds down. *)
LEMMA DescaleRoundsDown ==
    ASSUME NEW debt \in Nat, NEW unit \in Nat \ {0}
    PROVE  /\ debt \div unit \in Nat
           /\ \A amount \in Nat : amount <= debt \div unit => amount * unit <= debt
<1>1. debt \div unit \in Nat /\ (debt \div unit) * unit <= debt
  OBVIOUS
<1>2. ASSUME NEW amount \in Nat, amount <= debt \div unit
      PROVE  amount * unit <= (debt \div unit) * unit
  BY <1>1, <1>2
<1>. QED  BY <1>1, <1>2

LEMMA ProductMonotone ==
    ASSUME NEW a \in Int, NEW b \in Int, NEW g \in Nat, a <= b
    PROVE  a * g <= b * g /\ a * g \in Int /\ b * g \in Int
  OBVIOUS

(* A quotient is the only number with a remainder below the divisor. *)
LEMMA QuotientUnique ==
    ASSUME NEW a \in Nat, NEW g \in Nat \ {0}, NEW q \in Int,
           q * g <= a, a < (q + 1) * g
    PROVE  a \div g = q
<1> DEFINE p == a \div g
<1>1. p \in Nat /\ p * g <= a /\ a < (p + 1) * g
  OBVIOUS
<1> HIDE DEF p
<1>2. p * g \in Int /\ (p + 1) * g \in Int /\ q * g \in Int /\ (q + 1) * g \in Int
  BY <1>1
<1>3. ASSUME p < q PROVE FALSE
  <2>1. (p + 1) * g <= q * g
    BY <1>1, <1>3, ProductMonotone
  <2>. QED  BY <1>1, <1>2, <2>1
<1>4. ASSUME q < p PROVE FALSE
  <2>1. (q + 1) * g <= p * g
    BY <1>1, <1>4, ProductMonotone
  <2>. QED  BY <1>1, <1>2, <2>1
<1>. QED  BY <1>1, <1>3, <1>4 DEF p

(* Whole units that are taken from a debt leave the dust of it alone. *)
LEMMA DescaleExact ==
    ASSUME NEW debt \in Nat, NEW unit \in Nat \ {0}, NEW amount \in Nat,
           amount <= debt \div unit
    PROVE  /\ debt - amount * unit \in Nat
           /\ (debt - amount * unit) \div unit = debt \div unit - amount
           /\ (amount * unit) \div unit = amount
<1> DEFINE q == debt \div unit
<1>1. /\ q \in Nat /\ q * unit <= debt /\ debt < (q + 1) * unit
      /\ amount * unit <= debt /\ amount * unit \in Nat
  BY DescaleRoundsDown
<1> HIDE DEF q
<1>2. /\ (q - amount) * unit = q * unit - amount * unit
      /\ (q - amount + 1) * unit = (q + 1) * unit - amount * unit
      /\ q * unit \in Int /\ (q + 1) * unit \in Int
  BY <1>1
<1>3. debt - amount * unit \in Nat
  BY <1>1
<1>4. (debt - amount * unit) \div unit = q - amount
  BY <1>1, <1>2, <1>3, QuotientUnique
<1>5. (amount * unit) \div unit = amount
  <2>1. (amount + 1) * unit = amount * unit + unit
    OBVIOUS
  <2>. QED  BY <1>1, <2>1, QuotientUnique
<1>. QED  BY <1>3, <1>4, <1>5 DEF q

(* A larger debt is worth no less. *)
LEMMA DescaleMonotone ==
    ASSUME NEW a \in Nat, NEW b \in Nat, NEW unit \in Nat \ {0}, a <= b
    PROVE  a \div unit <= b \div unit
<1> DEFINE p == a \div unit
           q == b \div unit
<1>1. /\ p \in Nat /\ p * unit <= a /\ q \in Nat /\ b < (q + 1) * unit
  OBVIOUS
<1> HIDE DEF p, q
<1>2. ASSUME q < p PROVE FALSE
  <2>1. (q + 1) * unit <= p * unit /\ (q + 1) * unit \in Int /\ p * unit \in Int
    BY <1>1, <1>2, ProductMonotone
  <2>. QED  BY <1>1, <2>1
<1>. QED  BY <1>1, <1>2 DEF p, q

-----------------------------------------------------------------------------
(* What the operators on one record return *)

(* Debts are natural numbers and the covered debt is bounded by both sides. *)
LEMMA DebtTypes ==
    ASSUME NEW s \in FlowStream, NEW t \in Nat
    PROVE  /\ ongoing_debt_scaled_of(s, t) \in Nat
           /\ total_debt_scaled_of(s, t) \in Nat
           /\ total_debt_of(s, t) \in Nat
           /\ covered_debt_of(s, t) \in 0..s.balance
           /\ covered_debt_of(s, t) <= total_debt_of(s, t)
           /\ ScaleFactor[s.token_decimals] \in Nat \ {0}
<1>0. /\ s.rate_per_second \in Nat
      /\ s.snapshot_time \in Nat
      /\ s.snapshot_debt_scaled \in Nat
      /\ s.balance \in Nat
      /\ s.token_decimals \in Decimals
  BY FlowAssumption DEF FlowStream
<1>1. ongoing_debt_scaled_of(s, t) \in Nat
  <2>1. CASE s.snapshot_time >= t \/ s.rate_per_second = 0
    BY <2>1 DEF ongoing_debt_scaled_of
  <2>2. CASE ~(s.snapshot_time >= t \/ s.rate_per_second = 0)
    <3>1. t - s.snapshot_time \in Nat
      BY <1>0, <2>2
    <3>2. (t - s.snapshot_time) * s.rate_per_second \in Nat
      BY <1>0, <3>1
    <3>. QED  BY <2>2, <3>2 DEF ongoing_debt_scaled_of
  <2>. QED  BY <2>1, <2>2
<1>2. total_debt_scaled_of(s, t) \in Nat
  BY <1>0, <1>1 DEF total_debt_scaled_of
<1>3. ScaleFactor[s.token_decimals] \in Nat \ {0}
  BY <1>0, FlowAssumption
<1>4. total_debt_of(s, t) \in Nat
  BY <1>2, <1>3, DescaleRoundsDown DEF total_debt_of, descale_amount
<1>5. /\ covered_debt_of(s, t) \in 0..s.balance
      /\ covered_debt_of(s, t) <= total_debt_of(s, t)
  BY <1>0, <1>4 DEF covered_debt_of
<1>. QED  BY <1>1, <1>2, <1>3, <1>4, <1>5

(* Replacing the accounting of a record by storable values keeps it storable. *)
LEMMA BookedType ==
    ASSUME NEW s \in FlowStream, NEW balance \in 0..MaxI128, NEW rate \in 0..MaxI128,
           NEW time \in Nat, NEW debt \in 0..MaxI128, NEW voided \in BOOLEAN
    PROVE  Booked(s, balance, rate, time, debt, voided) \in FlowStream
  BY DEF Booked, FlowStream

(* A withdrawal of covered debt leaves a storable record. *)
LEMMA WithdrawnType ==
    ASSUME now \in Nat, NEW s \in FlowStream, DebtFits(s, now),
           NEW amount \in Nat, amount <= covered_debt_of(s, now)
    PROVE  /\ Withdrawn(s, amount) \in FlowStream
           /\ Withdrawn(s, amount).balance = s.balance - amount
           /\ Withdrawn(s, amount).token = s.token
<1> DEFINE debt == total_debt_scaled_of(s, now)
           scaled == scale_amount(amount, s.token_decimals)
<1>0. /\ debt \in Nat
      /\ amount <= total_debt_of(s, now)
      /\ amount <= s.balance
      /\ s.balance \in 0..MaxI128
      /\ s.snapshot_debt_scaled \in 0..MaxI128
      /\ s.rate_per_second \in 0..MaxI128
      /\ s.snapshot_time \in Nat
      /\ s.is_voided \in BOOLEAN
  BY DebtTypes, FlowAssumption DEF FlowStream
<1>1. scaled \in Nat /\ scaled <= debt
  BY <1>0, DebtTypes, DescaleRoundsDown DEF total_debt_of, descale_amount, scale_amount
<1>2. s.balance - amount \in 0..MaxI128
  BY <1>0, FlowAssumption
<1>3. debt - scaled \in 0..MaxI128
  BY <1>0, <1>1, FlowAssumption DEF DebtFits
<1>4. CASE scaled <= s.snapshot_debt_scaled
  <2>1. s.snapshot_debt_scaled - scaled \in 0..MaxI128
    BY <1>0, <1>1, <1>4, FlowAssumption
  <2>2. Withdrawn(s, amount) = Booked(s, s.balance - amount, s.rate_per_second,
            s.snapshot_time, s.snapshot_debt_scaled - scaled, s.is_voided)
    BY <1>4 DEF Withdrawn
  <2>. QED  BY <1>0, <1>2, <2>1, <2>2, BookedType DEF Booked
<1>5. CASE ~(scaled <= s.snapshot_debt_scaled)
  <2>1. Withdrawn(s, amount) = Booked(s, s.balance - amount, s.rate_per_second,
            now, debt - scaled, s.is_voided)
    BY <1>5 DEF Withdrawn
  <2>. QED  BY <1>0, <1>2, <1>3, <2>1, BookedType DEF Booked
<1>. QED  BY <1>4, <1>5

(* A new rate leaves a storable record with the same balance. *)
LEMMA ReratedType ==
    ASSUME now \in Nat, NEW s \in FlowStream, DebtFits(s, now),
           NEW rate \in 0..MaxI128
    PROVE  /\ Rerated(s, rate) \in FlowStream
           /\ Rerated(s, rate).balance = s.balance
           /\ Rerated(s, rate).token = s.token
<1>1. total_debt_scaled_of(s, now) \in 0..MaxI128
  BY DebtTypes, FlowAssumption DEF DebtFits
<1>2. /\ s.balance \in 0..MaxI128
      /\ s.snapshot_debt_scaled \in 0..MaxI128
      /\ s.snapshot_time \in Nat
      /\ s.is_voided \in BOOLEAN
  BY DEF FlowStream
<1>. QED  BY <1>1, <1>2, BookedType DEF Rerated, Booked

(* Voiding leaves a storable record with the same balance. *)
LEMMA VoidedType ==
    ASSUME now \in Nat, NEW s \in FlowStream, DebtFits(s, now)
    PROVE  /\ Voided(s) \in FlowStream
           /\ Voided(s).balance = s.balance
           /\ Voided(s).token = s.token
<1> DEFINE written == scale_amount(s.balance, s.token_decimals)
           debt == total_debt_scaled_of(s, now)
<1>0. s.balance \in 0..MaxI128 /\ s.balance \in Nat
  BY FlowAssumption DEF FlowStream
<1>1. debt \in 0..MaxI128
  BY DebtTypes, FlowAssumption DEF DebtFits
<1>2. ASSUME uncovered_debt_of(s, now) # 0
      PROVE  written \in 0..MaxI128
  <2>1. s.balance <= total_debt_of(s, now)
    BY <1>0, <1>2, DebtTypes DEF uncovered_debt_of
  <2>2. s.balance * ScaleFactor[s.token_decimals] <= debt
    BY <1>0, <2>1, DebtTypes, DescaleRoundsDown DEF total_debt_of, descale_amount
  <2>3. s.balance * ScaleFactor[s.token_decimals] \in Nat
    BY <1>0, DebtTypes
  <2>. QED  BY <1>1, <2>2, <2>3, FlowAssumption DEF scale_amount
<1>3. PICK v \in 0..MaxI128 : Voided(s) = Booked(s, s.balance, 0, now, v, TRUE)
  BY <1>1, <1>2 DEF Voided
<1>4. Voided(s) \in FlowStream
  <2>1. 0 \in 0..MaxI128 /\ TRUE \in BOOLEAN
    BY FlowAssumption
  <2>2. Booked(s, s.balance, 0, now, v, TRUE) \in FlowStream
    BY <1>0, <2>1, BookedType, Zenon
  <2>. QED  BY <1>3, <2>2
<1>5. Voided(s).balance = s.balance /\ Voided(s).token = s.token
  BY <1>3 DEF Booked
<1>. QED  BY <1>4, <1>5

(* Another balance leaves a storable record. *)
LEMMA FundedType ==
    ASSUME NEW s \in FlowStream, NEW balance \in 0..MaxI128
    PROVE  /\ Funded(s, balance) \in FlowStream
           /\ Funded(s, balance).balance = balance
           /\ Funded(s, balance).token = s.token
  BY DEF Funded, Booked, FlowStream

(* A new record is storable and starts empty. *)
LEMMA NewStreamType ==
    ASSUME now \in Nat,
           NEW sender \in Accounts, NEW recipient \in Accounts, NEW token \in Tokens,
           NEW rate \in 0..MaxI128, NEW decimals \in Decimals, NEW start_time \in Nat
    PROVE  LET s == NewStream(sender, recipient, token, rate, decimals, start_time)
           IN  s \in FlowStream /\ s.balance = 0 /\ s.token = token
  BY FlowAssumption DEF NewStream, FlowStream

-----------------------------------------------------------------------------
(* The books *)

(* TypeOK alone is not inductive: a payout keeps the aggregate from going   *)
(* below 0 only because the aggregate is a sum that the balance of the      *)
(* stream is a part of.                                                     *)
IInv == TypeOK /\ AggregateIsSum /\ ContractSolvent

(* What type correctness says of the parts the lemmas below use. *)
LEMMA StateTypes ==
    ASSUME TypeOK
    PROVE  /\ nextStreamId - 1 \in Nat
           /\ nextStreamId \in Nat
           /\ streams \in [Ids -> FlowStream]
           /\ aggregate \in [Tokens -> Int]
           /\ \A token \in Tokens : aggregate[token] \in 0..MaxI128
           /\ \A id \in Ids : streams[id].balance \in Nat /\ streams[id].token \in Tokens
           /\ \A token : Held(token) \in [Ids -> Nat]
<1>1. aggregate \in [Tokens -> 0..MaxI128] /\ 0..MaxI128 \subseteq Int
  BY FlowAssumption DEF TypeOK
<1>2. aggregate \in [Tokens -> Int]
  BY <1>1
<1>3. ASSUME NEW id \in Ids
      PROVE  streams[id].balance \in Nat /\ streams[id].token \in Tokens
  BY FlowAssumption DEF TypeOK, FlowStream
<1>4. ASSUME NEW token PROVE Held(token) \in [Ids -> Nat]
  BY <1>3 DEF Held
<1>. QED  BY <1>1, <1>2, <1>3, <1>4, FlowAssumption DEF TypeOK

(* No stream holds more than the aggregate of its token. *)
LEMMA BalanceBelowAggregate ==
    ASSUME TypeOK, AggregateIsSum, NEW id \in Ids
    PROVE  streams[id].balance <= aggregate[streams[id].token]
<1> DEFINE token == streams[id].token
<1>1. Held(token) \in [1..(nextStreamId - 1) -> Nat] /\ nextStreamId - 1 \in Nat
  BY StateTypes
<1>2. Held(token)[id] <= Total(Held(token), nextStreamId - 1)
  BY <1>1, TotalBoundsEach
<1>3. Held(token)[id] = streams[id].balance
  BY DEF Held
<1>4. token \in Tokens
  BY StateTypes
<1>. QED  BY <1>2, <1>3, <1>4 DEF AggregateIsSum

(* Moving one stream's balance and its token's aggregate by the same amount *)
(* keeps the books.                                                         *)
LEMMA BooksMoved ==
    ASSUME TypeOK, AggregateIsSum, NEW id \in Ids, NEW s \in FlowStream, NEW d \in Int,
           s.token = streams[id].token, s.balance = streams[id].balance + d,
           streams' = [streams EXCEPT ![id] = s],
           aggregate' = [aggregate EXCEPT ![s.token] = @ + d],
           nextStreamId' = nextStreamId
    PROVE  AggregateIsSum'
<1> DEFINE last == nextStreamId - 1
<1>0. /\ last \in Nat
      /\ streams \in [Ids -> FlowStream]
      /\ aggregate \in [Tokens -> Int]
      /\ s.token \in Tokens /\ s.balance \in Nat
      /\ streams[id].balance \in Nat
  BY FlowAssumption, StateTypes DEF FlowStream
<1> SUFFICES ASSUME NEW token \in Tokens
             PROVE  aggregate'[token] = Total(Held(token)', last)
  BY DEF AggregateIsSum
<1>1. /\ Held(token) \in [1..last -> Int]
      /\ aggregate[token] = Total(Held(token), last)
  BY StateTypes DEF AggregateIsSum
<1>2. \A i \in 1..last \ {id} : Held(token)'[i] = Held(token)[i]
  BY <1>0 DEF Held
<1>3. Held(token)' \in [1..last -> Int]
  <2>1. \A i \in 1..last : streams'[i] = IF i = id THEN s ELSE streams[i]
    BY <1>0
  <2>2. \A i \in 1..last : streams'[i].balance \in Int
    BY <1>0, <2>1, StateTypes
  <2>. QED  BY <2>2 DEF Held
<1>4. Total(Held(token)', last)
        = Total(Held(token), last) + (Held(token)'[id] - Held(token)[id])
  BY <1>0, <1>1, <1>2, <1>3, TotalUpdated
<1>5. CASE token # s.token
  <2>1. Held(token)'[id] - Held(token)[id] = 0
    BY <1>0, <1>5 DEF Held
  <2>. QED  BY <1>0, <1>1, <1>4, <1>5, <2>1
<1>6. CASE token = s.token
  <2>1. Held(token)'[id] - Held(token)[id] = d
    BY <1>0, <1>6 DEF Held
  <2>. QED  BY <1>0, <1>1, <1>4, <1>6, <2>1
<1>. QED  BY <1>5, <1>6

(* A step that moves no balance keeps the books. *)
LEMMA BooksKept ==
    ASSUME TypeOK, AggregateIsSum, NEW id \in Ids, NEW s \in FlowStream,
           s.token = streams[id].token, s.balance = streams[id].balance,
           streams' = [streams EXCEPT ![id] = s],
           UNCHANGED <<aggregate, nextStreamId>>
    PROVE  AggregateIsSum'
<1>1. s.token \in Tokens /\ streams[id].balance \in Nat
  BY StateTypes
<1>2. aggregate' = [aggregate EXCEPT ![s.token] = @ + 0]
  BY <1>1, StateTypes
<1>3. s.balance = streams[id].balance + 0 /\ 0 \in Int
  BY <1>1
<1>. QED  BY <1>2, <1>3, BooksMoved, Zenon

(* A new stream adds its balance to the aggregate of its token. *)
LEMMA BooksExtended ==
    ASSUME TypeOK, AggregateIsSum, NEW s \in FlowStream, AddStream(s),
           aggregate' = [aggregate EXCEPT ![s.token] = @ + s.balance]
    PROVE  AggregateIsSum'
<1> DEFINE last == nextStreamId - 1
<1>0. /\ last \in Nat /\ nextStreamId = last + 1
      /\ nextStreamId' - 1 = last + 1 /\ Ids' = 1..(last + 1)
      /\ aggregate \in [Tokens -> Int]
      /\ s.token \in Tokens /\ s.balance \in Nat
  BY FlowAssumption, StateTypes DEF FlowStream, AddStream
<1>1. /\ streams'[last + 1] = s
      /\ \A n \in 1..last : streams'[n] = streams[n]
  BY <1>0 DEF AddStream
<1> SUFFICES ASSUME NEW token \in Tokens
             PROVE  aggregate'[token] = Total(Held(token)', last + 1)
  BY <1>0 DEF AggregateIsSum
<1>2. /\ Held(token) \in [1..last -> Int]
      /\ aggregate[token] = Total(Held(token), last)
  BY StateTypes DEF AggregateIsSum
<1>3. \A n \in 1..last : Held(token)'[n] = Held(token)[n]
  BY <1>0, <1>1 DEF Held
<1>4. Held(token)'[last + 1] = IF s.token = token THEN s.balance ELSE 0
  BY <1>0, <1>1 DEF Held
<1>5. Held(token)' \in [1..(last + 1) -> Int]
  <2>1. ASSUME NEW n \in 1..(last + 1) PROVE Held(token)'[n] \in Int
    <3>1. CASE n = last + 1
      BY <1>0, <1>4, <3>1
    <3>2. CASE n \in 1..last
      BY <1>2, <1>3, <3>2
    <3>. QED  BY <1>0, <3>1, <3>2
  <2>. QED  BY <1>0, <2>1 DEF Held
<1>6. Total(Held(token)', last + 1)
        = Total(Held(token)', last) + Held(token)'[last + 1]
  BY <1>0, <1>5, TotalGrows
<1>7. Total(Held(token)', last) = Total(Held(token), last)
  BY <1>0, <1>2, <1>3, TotalSame
<1>8. aggregate'[token] = aggregate[token] + (IF s.token = token THEN s.balance ELSE 0)
  BY <1>0
<1>. QED  BY <1>2, <1>4, <1>6, <1>7, <1>8

-----------------------------------------------------------------------------
(* The money of a step *)

(* Taking a deposit keeps the contract solvent: the exact-transfer check    *)
(* makes its tokens grow by as much as the aggregate.                       *)
LEMMA DepositMoney ==
    ASSUME TypeOK, ContractSolvent, NEW token \in Tokens, NEW funder \in Accounts,
           NEW held \in Nat, NEW amount \in Int, TakeDeposit(token, held, funder, amount)
    PROVE  /\ amount \in 0..MaxI128 /\ held + amount \in 0..MaxI128
           /\ wallet' \in Wallets
           /\ aggregate' \in [Tokens -> 0..MaxI128]
           /\ ContractSolvent'
<1>0. /\ amount \in Nat /\ amount > 0
      /\ wallet \in Wallets
      /\ Self \in Accounts
  BY FlowAssumption DEF TakeDeposit, TypeOK
<1>1. /\ wallet' \in Wallets
      /\ \A other \in Tokens \ {token} : wallet'[other] = wallet[other]
  BY <1>0, TransferType DEF TakeDeposit
<1>2. wallet'[token][Self] - wallet[token][Self] = amount
  BY DEF TakeDeposit, ExactTransfer
<1>3. \A t \in Tokens : aggregate'[t] = IF t = token THEN aggregate[t] + amount
                                                     ELSE aggregate[t]
  BY StateTypes DEF TakeDeposit
<1>4. aggregate[token] \in 0..MaxI128 /\ aggregate[token] + amount \in 0..MaxI128
  BY <1>0, StateTypes, FlowAssumption DEF TakeDeposit
<1>5. aggregate' \in [Tokens -> 0..MaxI128]
  <2>1. \A t \in Tokens : aggregate'[t] \in 0..MaxI128
    BY <1>3, <1>4, StateTypes
  <2>. QED  BY <2>1, StateTypes DEF TakeDeposit
<1>6. ASSUME NEW t \in Tokens PROVE wallet'[t][Self] >= aggregate'[t]
  <2>1. /\ wallet[t][Self] \in Nat /\ wallet'[t][Self] \in Nat
        /\ wallet[t][Self] >= aggregate[t] /\ aggregate[t] \in Int
    BY <1>0, <1>1, StateTypes DEF ContractSolvent
  <2>. QED  BY <1>0, <1>1, <1>2, <1>3, <2>1
<1>7. amount \in 0..MaxI128 /\ held + amount \in 0..MaxI128
  BY <1>0, FlowAssumption DEF TakeDeposit
<1>. QED  BY <1>1, <1>5, <1>6, <1>7 DEF ContractSolvent

(* Paying out at most the aggregate keeps the contract solvent. *)
LEMMA PayOutMoney ==
    ASSUME TypeOK, ContractSolvent, NEW token \in Tokens, NEW to \in Accounts,
           NEW amount \in Nat, amount <= aggregate[token], PayOut(token, to, amount)
    PROVE  /\ wallet' \in Wallets
           /\ aggregate' \in [Tokens -> 0..MaxI128]
           /\ ContractSolvent'
<1>0. wallet \in Wallets /\ Self \in Accounts
  BY FlowAssumption DEF TypeOK
<1>1. /\ wallet' \in Wallets
      /\ wallet'[token][Self] >= wallet[token][Self] - amount
      /\ \A other \in Tokens \ {token} : wallet'[other] = wallet[other]
  BY <1>0, TransferType DEF PayOut
<1>2. \A t \in Tokens : aggregate'[t] = IF t = token THEN aggregate[t] - amount
                                                     ELSE aggregate[t]
  BY StateTypes DEF PayOut
<1>3. aggregate[token] \in 0..MaxI128 /\ aggregate[token] - amount \in 0..MaxI128
  BY StateTypes, FlowAssumption
<1>4. aggregate' \in [Tokens -> 0..MaxI128]
  <2>1. \A t \in Tokens : aggregate'[t] \in 0..MaxI128
    BY <1>2, <1>3, StateTypes
  <2>. QED  BY <2>1, StateTypes DEF PayOut
<1>5. ASSUME NEW t \in Tokens PROVE wallet'[t][Self] >= aggregate'[t]
  <2>1. /\ wallet[t][Self] \in Nat /\ wallet'[t][Self] \in Nat
        /\ wallet[t][Self] >= aggregate[t] /\ aggregate[t] \in Int
    BY <1>0, <1>1, StateTypes DEF ContractSolvent
  <2>. QED  BY <1>1, <1>2, <2>1
<1>. QED  BY <1>1, <1>4, <1>5 DEF ContractSolvent

-----------------------------------------------------------------------------
(* The invariant holds at the start and every operation keeps it *)

LEMMA InitKeeps == Init => IInv
<1> SUFFICES ASSUME Init PROVE IInv
  OBVIOUS
<1> USE DEF Init
<1>1. Ids = {}
  OBVIOUS
<1>2. TypeOK
  BY <1>1, FlowAssumption DEF TypeOK
<1>3. AggregateIsSum
  BY TotalType DEF AggregateIsSum
<1>4. ContractSolvent
  BY FlowAssumption DEF ContractSolvent
<1>. QED  BY <1>2, <1>3, <1>4 DEF IInv

(* A step that only replaces one record by one with the same balance. *)
LEMMA RewriteKeeps ==
    ASSUME IInv, NEW id \in Ids, NEW s \in FlowStream,
           s.token = streams[id].token, s.balance = streams[id].balance,
           streams' = [streams EXCEPT ![id] = s],
           UNCHANGED <<now, nextStreamId, aggregate, wallet>>
    PROVE  IInv'
<1>1. TypeOK'
  BY DEF IInv, TypeOK
<1>2. AggregateIsSum'
  BY BooksKept DEF IInv
<1>3. ContractSolvent'
  BY DEF IInv, ContractSolvent
<1>. QED  BY <1>1, <1>2, <1>3 DEF IInv

LEMMA TickKeeps == ASSUME IInv, Tick PROVE IInv'
<1> USE DEF Tick
<1>1. TypeOK'
  BY DEF IInv, TypeOK
<1>2. AggregateIsSum'
  BY DEF IInv, AggregateIsSum, Held
<1>3. ContractSolvent'
  BY DEF IInv, ContractSolvent
<1>. QED  BY <1>1, <1>2, <1>3 DEF IInv

LEMMA AddStreamKeeps ==
    ASSUME TypeOK, NEW s \in FlowStream, AddStream(s)
    PROVE  nextStreamId' \in 1..(MaxStreams + 1) /\ streams' \in [Ids' -> FlowStream]
<1>1. /\ nextStreamId \in Nat /\ nextStreamId >= 1
      /\ nextStreamId' = nextStreamId + 1 /\ Ids' = 1..nextStreamId
      /\ nextStreamId <= MaxStreams
  BY FlowAssumption DEF TypeOK, AddStream
<1>2. \A n \in 1..nextStreamId : n = nextStreamId \/ n \in Ids
  BY <1>1
<1>3. streams' \in [1..nextStreamId -> FlowStream]
  BY <1>2 DEF TypeOK, AddStream
<1>. QED  BY <1>1, <1>3, FlowAssumption

LEMMA CreateKeeps == ASSUME IInv, Create PROVE IInv'
<1>1. PICK sender \in Callers, recipient \in Accounts, token \in Tokens, rate \in Rates,
           decimals \in {TokenDecimals[t] : t \in Tokens}, start_time \in 0..MaxTime :
        \/ create(sender, recipient, token, rate, decimals, start_time)
        \/ \E amount \in Amounts :
             create_and_deposit(sender, recipient, token, rate, decimals,
                                start_time, amount)
  BY DEF Create
<1> DEFINE s == NewStream(sender, recipient, token, rate, decimals, start_time)
<1>2. /\ decimals \in Decimals
      /\ rate \in 0..MaxI128
      /\ sender \in Accounts
      /\ start_time \in Nat
  BY <1>1, FlowAssumption DEF create, create_and_deposit, MayCreate, Callers
<1>3. s \in FlowStream /\ s.balance = 0 /\ s.token = token
  <2>1. now \in Nat
    BY DEF IInv, TypeOK
  <2>. QED  BY <1>2, <2>1, NewStreamType
<1> HIDE DEF s
<1>4. CASE create(sender, recipient, token, rate, decimals, start_time)
  <2>1. AddStream(s) /\ UNCHANGED <<now, aggregate, wallet>>
    BY <1>4 DEF create, s
  <2>2. TypeOK'
    BY <1>3, <2>1, AddStreamKeeps DEF IInv, TypeOK
  <2>3. aggregate' = [aggregate EXCEPT ![s.token] = @ + s.balance]
    BY <1>3, <2>1, StateTypes DEF IInv
  <2>4. AggregateIsSum'
    BY <1>3, <2>1, <2>3, BooksExtended DEF IInv
  <2>5. ContractSolvent'
    BY <2>1 DEF IInv, ContractSolvent
  <2>. QED  BY <2>2, <2>4, <2>5 DEF IInv
<1>5. ASSUME NEW amount \in Amounts,
             create_and_deposit(sender, recipient, token, rate, decimals, start_time, amount)
      PROVE  IInv'
  <2>1. /\ AddStream(Funded(s, amount))
        /\ TakeDeposit(token, 0, sender, amount)
        /\ now' = now
    BY <1>5 DEF create_and_deposit, s
  <2>2. /\ amount \in 0..MaxI128
        /\ wallet' \in Wallets
        /\ aggregate' \in [Tokens -> 0..MaxI128]
        /\ ContractSolvent'
    <3>1. amount \in Int
      BY FlowAssumption
    <3>. QED  BY <1>2, <2>1, <3>1, DepositMoney DEF IInv
  <2>3. /\ Funded(s, amount) \in FlowStream
        /\ Funded(s, amount).balance = amount
        /\ Funded(s, amount).token = token
    BY <1>3, <2>2, FundedType
  <2>4. TypeOK'
    BY <2>1, <2>2, <2>3, AddStreamKeeps DEF IInv, TypeOK
  <2>5. AggregateIsSum'
    BY <2>1, <2>3, BooksExtended DEF IInv, TakeDeposit
  <2>. QED  BY <2>2, <2>4, <2>5 DEF IInv
<1>. QED  BY <1>1, <1>4, <1>5

LEMMA DepositKeeps == ASSUME IInv, Deposit PROVE IInv'
<1>1. PICK id \in 1..MaxStreams, funder \in Callers, amount \in Amounts :
        deposit(id, funder, amount)
  BY DEF Deposit
<1> DEFINE token == streams[id].token
           held == streams[id].balance
           s == Funded(streams[id], held + amount)
<1>2. /\ id \in Ids /\ funder \in Accounts /\ amount \in Int
      /\ streams[id] \in FlowStream /\ token \in Tokens /\ held \in Nat
      /\ TakeDeposit(token, held, funder, amount)
      /\ streams' = [streams EXCEPT ![id] = s]
      /\ now' = now /\ nextStreamId' = nextStreamId
  BY <1>1, StateTypes, FlowAssumption DEF deposit, Callers, IInv
<1>3. /\ held + amount \in 0..MaxI128
      /\ wallet' \in Wallets
      /\ aggregate' \in [Tokens -> 0..MaxI128]
      /\ ContractSolvent'
  BY <1>2, DepositMoney DEF IInv
<1>4. s \in FlowStream /\ s.balance = held + amount /\ s.token = token
  BY <1>2, <1>3, FundedType
<1>5. aggregate' = [aggregate EXCEPT ![token] = @ + amount]
  BY <1>2 DEF TakeDeposit
<1> HIDE DEF s, held, token
<1>6. TypeOK'
  BY <1>2, <1>3, <1>4 DEF IInv, TypeOK
<1>7. AggregateIsSum'
  BY <1>2, <1>4, <1>5, BooksMoved DEF IInv, held, token
<1>. QED  BY <1>3, <1>6, <1>7 DEF IInv

(* What withdraw and refund have in common: a record loses the amount that  *)
(* is paid out of the contract.                                             *)
LEMMA PayKeeps ==
    ASSUME IInv, NEW id \in Ids, NEW s \in FlowStream, NEW to \in Accounts,
           NEW amount \in Nat, amount <= streams[id].balance,
           s.token = streams[id].token, s.balance = streams[id].balance - amount,
           streams' = [streams EXCEPT ![id] = s],
           PayOut(streams[id].token, to, amount),
           UNCHANGED <<now, nextStreamId>>
    PROVE  IInv'
<1> DEFINE token == streams[id].token
<1>1. token \in Tokens /\ streams[id].balance \in Nat /\ aggregate[token] \in Int
  BY StateTypes DEF IInv
<1>2. amount <= aggregate[token]
  BY <1>1, BalanceBelowAggregate DEF IInv
<1>3. /\ wallet' \in Wallets
      /\ aggregate' \in [Tokens -> 0..MaxI128]
      /\ ContractSolvent'
  BY <1>1, <1>2, PayOutMoney DEF IInv
<1>4. TypeOK'
  BY <1>3 DEF IInv, TypeOK
<1>5. AggregateIsSum'
  <2>1. aggregate' = [aggregate EXCEPT ![s.token] = @ + (-amount)]
    BY <1>1, StateTypes DEF PayOut, IInv
  <2>2. s.balance = streams[id].balance + (-amount) /\ -amount \in Int
    BY <1>1
  <2>. QED  BY <2>1, <2>2, BooksMoved DEF IInv
<1>. QED  BY <1>3, <1>4, <1>5 DEF IInv

LEMMA WithdrawKeeps == ASSUME IInv, Withdraw PROVE IInv'
<1>1. PICK id \in 1..MaxStreams, caller \in Callers, to \in Accounts, amount \in Int :
        withdraw(id, caller, to, amount)
  <2>1. ASSUME NEW id \in Ids PROVE covered_debt_of(streams[id], now) \in Int
    BY <2>1, StateTypes, DebtTypes DEF IInv, TypeOK
  <2>. QED  BY <2>1, FlowAssumption DEF Withdraw, withdraw_max
<1> DEFINE s == Withdrawn(streams[id], amount)
<1>2. /\ id \in Ids /\ amount \in Nat
      /\ streams[id] \in FlowStream /\ now \in Nat
      /\ DebtFits(streams[id], now)
      /\ amount <= covered_debt_of(streams[id], now)
      /\ streams' = [streams EXCEPT ![id] = s]
      /\ PayOut(streams[id].token, to, amount)
      /\ UNCHANGED <<now, nextStreamId>>
  BY <1>1, StateTypes DEF withdraw, IInv, TypeOK
<1>3. /\ s \in FlowStream
      /\ s.balance = streams[id].balance - amount
      /\ s.token = streams[id].token
  BY <1>2, WithdrawnType
<1>4. amount <= streams[id].balance
  <2>1. /\ covered_debt_of(streams[id], now) \in 0..streams[id].balance
        /\ streams[id].balance \in Nat
    BY <1>2, DebtTypes, StateTypes DEF IInv
  <2>. QED  BY <1>2, <2>1
<1> HIDE DEF s
<1>. QED  BY <1>2, <1>3, <1>4, PayKeeps

LEMMA ChangeRateKeeps ==
    ASSUME IInv, NEW id \in Ids, NEW rate \in 0..MaxI128, ChangeRate(id, rate)
    PROVE  IInv'
<1> DEFINE s == Rerated(streams[id], rate)
<1>1. /\ streams[id] \in FlowStream /\ now \in Nat
      /\ DebtFits(streams[id], now)
      /\ streams' = [streams EXCEPT ![id] = s]
      /\ UNCHANGED <<now, nextStreamId, aggregate, wallet>>
  BY StateTypes DEF ChangeRate, IInv, TypeOK
<1>2. /\ s \in FlowStream
      /\ s.balance = streams[id].balance
      /\ s.token = streams[id].token
  BY <1>1, ReratedType
<1> HIDE DEF s
<1>. QED  BY <1>1, <1>2, RewriteKeeps

LEMMA AdjustRateKeeps == ASSUME IInv, AdjustRate PROVE IInv'
<1>1. PICK id \in 1..MaxStreams, sender \in Callers :
        \/ pause(id, sender)
        \/ \E rate \in Rates : restart(id, sender, rate) \/ adjust_rate(id, sender, rate)
  BY DEF AdjustRate
<1>2. CASE pause(id, sender)
  <2>1. id \in Ids /\ 0 \in 0..MaxI128 /\ ChangeRate(id, 0)
    BY <1>2, FlowAssumption DEF pause
  <2>. QED  BY <2>1, ChangeRateKeeps
<1>3. ASSUME NEW rate \in Rates,
             restart(id, sender, rate) \/ adjust_rate(id, sender, rate)
      PROVE  IInv'
  <2>1. id \in Ids /\ rate \in 0..MaxI128 /\ ChangeRate(id, rate)
    BY <1>3, FlowAssumption DEF restart, adjust_rate
  <2>. QED  BY <2>1, ChangeRateKeeps
<1>. QED  BY <1>1, <1>2, <1>3

LEMMA RefundKeeps == ASSUME IInv, Refund PROVE IInv'
<1>1. PICK id \in 1..MaxStreams, sender \in Callers, amount \in Int :
        refund(id, sender, amount)
  <2>1. ASSUME NEW id \in Ids PROVE refundable_amount_of(streams[id], now) \in Int
    <3>1. streams[id] \in FlowStream /\ now \in Nat /\ streams[id].balance \in Nat
      BY <2>1, StateTypes DEF IInv, TypeOK
    <3>2. covered_debt_of(streams[id], now) \in 0..streams[id].balance
      BY <3>1, DebtTypes
    <3>. QED  BY <3>1, <3>2 DEF refundable_amount_of
  <2>. QED  BY <2>1, FlowAssumption DEF Refund, refund_max
<1> DEFINE s == Funded(streams[id], streams[id].balance - amount)
<1>2. /\ id \in Ids /\ amount \in Nat /\ sender \in Accounts
      /\ streams[id] \in FlowStream /\ now \in Nat
      /\ amount <= refundable_amount_of(streams[id], now)
      /\ streams' = [streams EXCEPT ![id] = s]
      /\ PayOut(streams[id].token, sender, amount)
      /\ UNCHANGED <<now, nextStreamId>>
  BY <1>1, StateTypes DEF refund, IInv, TypeOK, Callers
<1>3. streams[id].balance \in 0..MaxI128 /\ streams[id].balance \in Nat
  BY <1>2, FlowAssumption DEF FlowStream
<1>4. amount <= streams[id].balance
  BY <1>2, <1>3, DebtTypes DEF refundable_amount_of
<1>5. streams[id].balance - amount \in 0..MaxI128
  BY <1>2, <1>3, <1>4, FlowAssumption
<1>6. /\ s \in FlowStream
      /\ s.balance = streams[id].balance - amount
      /\ s.token = streams[id].token
  BY <1>2, <1>5, FundedType
<1> HIDE DEF s
<1>. QED  BY <1>2, <1>4, <1>6, PayKeeps

LEMMA VoidKeeps == ASSUME IInv, Void PROVE IInv'
<1>1. PICK id \in 1..MaxStreams, caller \in Callers : void_stream(id, caller)
  BY DEF Void
<1> DEFINE s == Voided(streams[id])
<1>2. /\ id \in Ids /\ streams[id] \in FlowStream /\ now \in Nat
      /\ DebtFits(streams[id], now)
      /\ streams' = [streams EXCEPT ![id] = s]
      /\ UNCHANGED <<now, nextStreamId, aggregate, wallet>>
  BY <1>1, StateTypes DEF void_stream, IInv, TypeOK
<1>3. /\ s \in FlowStream
      /\ s.balance = streams[id].balance
      /\ s.token = streams[id].token
  BY <1>2, VoidedType
<1> HIDE DEF s
<1>. QED  BY <1>2, <1>3, RewriteKeeps

LEMMA StepKeeps == IInv /\ [Next]_vars => IInv'
<1> SUFFICES ASSUME IInv, [Next]_vars PROVE IInv'
  OBVIOUS
<1>1. CASE UNCHANGED vars
  BY <1>1 DEF vars, IInv, TypeOK, AggregateIsSum, ContractSolvent, Held
<1>. QED  BY <1>1, TickKeeps, CreateKeeps, DepositKeeps, WithdrawKeeps,
             AdjustRateKeeps, RefundKeeps, VoidKeeps DEF Next

(* Every record stays one the contract can store: amounts, rates and debts  *)
(* are never negative and fit in an i128, in every reachable state.         *)
THEOREM FlowTypeCorrect == Spec => []TypeOK
<1>1. IInv => TypeOK
  BY DEF IInv
<1>. QED  BY <1>1, InitKeeps, StepKeeps, PTL DEF Spec

(* The stored aggregate of a token is always the sum of its streams'        *)
(* balances, for any number of streams.                                     *)
THEOREM FlowAggregateIsSum == Spec => []AggregateIsSum
<1>1. IInv => AggregateIsSum
  BY DEF IInv
<1>. QED  BY <1>1, InitKeeps, StepKeeps, PTL DEF Spec

(* The contract always holds at least what its books say it owes. *)
THEOREM FlowSolvent == Spec => []ContractSolvent
<1>1. IInv => ContractSolvent
  BY DEF IInv
<1>. QED  BY <1>1, InitKeeps, StepKeeps, PTL DEF Spec

-----------------------------------------------------------------------------
(* What the operations of one record do to its debt *)

LEMMA RecordTypes ==
    ASSUME NEW s \in FlowStream
    PROVE  /\ s.balance \in 0..MaxI128 /\ s.balance \in Nat
           /\ s.rate_per_second \in 0..MaxI128 /\ s.rate_per_second \in Nat
           /\ s.snapshot_time \in Nat
           /\ s.snapshot_debt_scaled \in 0..MaxI128 /\ s.snapshot_debt_scaled \in Nat
           /\ s.is_voided \in BOOLEAN
  BY FlowAssumption DEF FlowStream

(* The seconds until a stream starts. *)
Wait(s, t) == IF s.snapshot_time > t THEN s.snapshot_time - t ELSE 0

(* A deposit or a refund does not touch the debt, at any time. *)
LEMMA FundedDebt ==
    ASSUME NEW s \in FlowStream, NEW balance, NEW t
    PROVE  LET n == Funded(s, balance)
           IN  /\ n.balance = balance
               /\ n.token_decimals = s.token_decimals
               /\ n.rate_per_second = s.rate_per_second
               /\ n.snapshot_time = s.snapshot_time
               /\ n.snapshot_debt_scaled = s.snapshot_debt_scaled
               /\ n.is_voided = s.is_voided
               /\ total_debt_scaled_of(n, t) = total_debt_scaled_of(s, t)
               /\ total_debt_of(n, t) = total_debt_of(s, t)
<1> DEFINE n == Funded(s, balance)
<1>1. /\ n.balance = balance
      /\ n.token_decimals = s.token_decimals
      /\ n.rate_per_second = s.rate_per_second
      /\ n.snapshot_time = s.snapshot_time
      /\ n.snapshot_debt_scaled = s.snapshot_debt_scaled
  BY DEF Funded, Booked
<1>2. n.is_voided = s.is_voided
  BY Zenon DEF Funded, Booked
<1> HIDE DEF n
<1>3. total_debt_scaled_of(n, t) = total_debt_scaled_of(s, t)
  BY <1>1 DEF total_debt_scaled_of, ongoing_debt_scaled_of
<1>. QED  BY <1>1, <1>2, <1>3 DEF total_debt_of, n

(* A withdrawal lowers the debt by exactly what is paid, whichever of the   *)
(* two ways of booking it the handler takes.                                *)
LEMMA WithdrawnDebt ==
    ASSUME now \in Nat, NEW s \in FlowStream,
           NEW amount \in Nat, amount <= covered_debt_of(s, now)
    PROVE  LET n == Withdrawn(s, amount)
           IN  /\ n.balance = s.balance - amount
               /\ n.token_decimals = s.token_decimals
               /\ n.rate_per_second = s.rate_per_second
               /\ Wait(n, now) = Wait(s, now)
               /\ n.snapshot_time > now => n.snapshot_debt_scaled <= s.snapshot_debt_scaled
               /\ n.is_voided = s.is_voided
               /\ total_debt_scaled_of(n, now)
                     = total_debt_scaled_of(s, now) - amount * ScaleFactor[s.token_decimals]
               /\ total_debt_of(n, now) = total_debt_of(s, now) - amount
<1> DEFINE n == Withdrawn(s, amount)
           unit == ScaleFactor[s.token_decimals]
           scaled == amount * unit
           debt == total_debt_scaled_of(s, now)
<1>1. /\ debt \in Nat /\ unit \in Nat \ {0}
      /\ amount <= debt \div unit
      /\ total_debt_of(s, now) = debt \div unit
      /\ debt = ongoing_debt_scaled_of(s, now) + s.snapshot_debt_scaled
      /\ ongoing_debt_scaled_of(s, now) \in Nat
  <2>1. covered_debt_of(s, now) <= total_debt_of(s, now) /\ covered_debt_of(s, now) \in Int
    BY DebtTypes, RecordTypes
  <2>2. total_debt_of(s, now) \in Nat
    BY DebtTypes
  <2>. QED  BY <2>1, <2>2, DebtTypes DEF total_debt_of, descale_amount, total_debt_scaled_of
<1>2. scaled \in Nat /\ debt - scaled \in Nat /\ (debt - scaled) \div unit = (debt \div unit) - amount
  <2>. HIDE DEF debt, unit
  <2>1. debt \in Nat /\ unit \in Nat \ {0} /\ amount <= debt \div unit
    BY <1>1
  <2>2. amount * unit \in Nat
    BY <2>1
  <2>. QED  BY <2>1, <2>2, DescaleExact, Zenon
<1>3. /\ s.snapshot_time \in Nat /\ s.rate_per_second \in Nat
      /\ s.snapshot_debt_scaled \in Nat
  BY RecordTypes
<1>4. /\ n.balance = s.balance - amount
      /\ n.token_decimals = s.token_decimals
      /\ n.rate_per_second = s.rate_per_second
  BY DEF Withdrawn, Booked
<1>5. n.is_voided = s.is_voided
  BY Zenon DEF Withdrawn, Booked
<1>6. \/ /\ n.snapshot_time = s.snapshot_time
         /\ n.snapshot_debt_scaled = s.snapshot_debt_scaled - scaled
      \/ /\ n.snapshot_time = now /\ s.snapshot_time <= now
         /\ n.snapshot_debt_scaled = debt - scaled
  <2>1. CASE scaled <= s.snapshot_debt_scaled
    BY <2>1 DEF Withdrawn, Booked, scale_amount
  <2>2. CASE ~(scaled <= s.snapshot_debt_scaled)
    <3>1. ongoing_debt_scaled_of(s, now) # 0
      <4>. HIDE DEF debt, scaled
      <4>. QED  BY <1>1, <1>2, <1>3, <2>2
    <3>2. s.snapshot_time <= now
      BY <1>3, <3>1 DEF ongoing_debt_scaled_of
    <3>. QED  BY <2>2, <3>2 DEF Withdrawn, Booked, scale_amount
  <2>. QED  BY <2>1, <2>2
<1>. HIDE DEF n, scaled
<1>7. total_debt_scaled_of(n, now) = debt - scaled
  <2>1. CASE /\ n.snapshot_time = s.snapshot_time
             /\ n.snapshot_debt_scaled = s.snapshot_debt_scaled - scaled
    <3>1. ongoing_debt_scaled_of(n, now) = ongoing_debt_scaled_of(s, now)
      BY <1>4, <2>1 DEF ongoing_debt_scaled_of
    <3>2. total_debt_scaled_of(n, now)
            = ongoing_debt_scaled_of(s, now) + (s.snapshot_debt_scaled - scaled)
      BY <2>1, <3>1 DEF total_debt_scaled_of
    <3>. HIDE DEF debt
    <3>. QED  BY <1>1, <1>2, <1>3, <3>2
  <2>2. CASE /\ n.snapshot_time = now
             /\ n.snapshot_debt_scaled = debt - scaled
    <3>1. ongoing_debt_scaled_of(n, now) = 0
      BY <2>2 DEF ongoing_debt_scaled_of
    <3>2. total_debt_scaled_of(n, now) = 0 + (debt - scaled)
      BY <2>2, <3>1 DEF total_debt_scaled_of
    <3>. HIDE DEF debt
    <3>. QED  BY <1>2, <3>2
  <2>. QED  BY <1>6, <2>1, <2>2
<1>8. total_debt_of(n, now) = total_debt_of(s, now) - amount
  BY <1>1, <1>2, <1>4, <1>7 DEF total_debt_of, descale_amount
<1>9. Wait(n, now) = Wait(s, now)
  BY <1>3, <1>6 DEF Wait
<1>10. n.snapshot_time > now => n.snapshot_debt_scaled <= s.snapshot_debt_scaled
  <2>. HIDE DEF debt
  <2>. QED  BY <1>2, <1>3, <1>6
<1>. QED  BY <1>4, <1>5, <1>7, <1>8, <1>9, <1>10 DEF n, scaled

(* A new rate leaves what is owed now and the start alone. *)
LEMMA ReratedDebt ==
    ASSUME now \in Nat, NEW s \in FlowStream, NEW rate \in 0..MaxI128
    PROVE  LET n == Rerated(s, rate)
           IN  /\ n.balance = s.balance
               /\ n.token_decimals = s.token_decimals
               /\ n.rate_per_second = rate
               /\ Wait(n, now) = Wait(s, now)
               /\ n.snapshot_time > now => n.snapshot_debt_scaled = s.snapshot_debt_scaled
               /\ n.is_voided = s.is_voided
               /\ total_debt_scaled_of(n, now) = total_debt_scaled_of(s, now)
               /\ total_debt_of(n, now) = total_debt_of(s, now)
<1> DEFINE n == Rerated(s, rate)
           debt == total_debt_scaled_of(s, now)
<1>1. /\ s.snapshot_time \in Nat /\ s.rate_per_second \in Nat /\ rate \in Nat
      /\ s.snapshot_debt_scaled \in Nat /\ debt \in Nat
  BY RecordTypes, DebtTypes, FlowAssumption
<1>2. /\ n.balance = s.balance
      /\ n.token_decimals = s.token_decimals
      /\ n.rate_per_second = rate
  BY DEF Rerated, Booked
<1>3. n.is_voided = s.is_voided
  BY Zenon DEF Rerated, Booked
<1>4. \/ /\ s.snapshot_time < now
         /\ n.snapshot_time = now
         /\ n.snapshot_debt_scaled = debt
      \/ /\ s.snapshot_time >= now
         /\ n.snapshot_time = s.snapshot_time
         /\ n.snapshot_debt_scaled = s.snapshot_debt_scaled
  BY <1>1 DEF Rerated, Booked
<1>. HIDE DEF n
<1>5. total_debt_scaled_of(n, now) = debt
  <2>1. CASE n.snapshot_time = now /\ n.snapshot_debt_scaled = debt
    <3>1. ongoing_debt_scaled_of(n, now) = 0
      BY <2>1 DEF ongoing_debt_scaled_of
    <3>2. total_debt_scaled_of(n, now) = 0 + debt
      BY <2>1, <3>1 DEF total_debt_scaled_of
    <3>. HIDE DEF debt
    <3>. QED  BY <1>1, <3>2
  <2>2. CASE /\ s.snapshot_time >= now
             /\ n.snapshot_time = s.snapshot_time
             /\ n.snapshot_debt_scaled = s.snapshot_debt_scaled
    BY <2>2 DEF total_debt_scaled_of, ongoing_debt_scaled_of
  <2>. QED  BY <1>4, <2>1, <2>2
<1>6. total_debt_of(n, now) = total_debt_of(s, now)
  BY <1>2, <1>5 DEF total_debt_of
<1>7. Wait(n, now) = Wait(s, now)
  BY <1>1, <1>4 DEF Wait
<1>8. n.snapshot_time > now => n.snapshot_debt_scaled = s.snapshot_debt_scaled
  BY <1>1, <1>4
<1>. QED  BY <1>2, <1>3, <1>5, <1>6, <1>7, <1>8 DEF n

(* Voiding writes off what the balance does not cover, and only that. *)
LEMMA VoidedDebt ==
    ASSUME now \in Nat, NEW s \in FlowStream
    PROVE  LET n == Voided(s)
               owed == total_debt_of(s, now)
           IN  /\ n.balance = s.balance
               /\ n.token_decimals = s.token_decimals
               /\ n.rate_per_second = 0
               /\ n.snapshot_time = now
               /\ n.is_voided = TRUE
               /\ total_debt_scaled_of(n, now)
                     = IF owed > s.balance THEN s.balance * ScaleFactor[s.token_decimals]
                                           ELSE total_debt_scaled_of(s, now)
               /\ total_debt_of(n, now) = IF owed > s.balance THEN s.balance ELSE owed
<1> DEFINE n == Voided(s)
           unit == ScaleFactor[s.token_decimals]
           debt == total_debt_scaled_of(s, now)
           owed == total_debt_of(s, now)
<1>1. /\ debt \in Nat /\ unit \in Nat \ {0} /\ owed \in Nat /\ s.balance \in Nat
      /\ owed = debt \div unit
  BY DebtTypes, RecordTypes DEF total_debt_of, descale_amount
<1>2. /\ n.balance = s.balance
      /\ n.token_decimals = s.token_decimals
      /\ n.rate_per_second = 0
      /\ n.snapshot_time = now
  BY DEF Voided, Booked
<1>3. n.is_voided = TRUE
  BY Zenon DEF Voided, Booked
<1>4. n.snapshot_debt_scaled = IF owed > s.balance THEN s.balance * unit ELSE debt
  <2>1. CASE owed > s.balance
    <3>1. uncovered_debt_of(s, now) # 0
      BY <1>1, <2>1 DEF uncovered_debt_of
    <3>. QED  BY <2>1, <3>1 DEF Voided, Booked, scale_amount
  <2>2. CASE ~(owed > s.balance)
    <3>1. uncovered_debt_of(s, now) = 0
      BY <1>1, <2>2 DEF uncovered_debt_of
    <3>. QED  BY <2>2, <3>1 DEF Voided, Booked
  <2>. QED  BY <2>1, <2>2
<1>. HIDE DEF n, debt
<1>5. total_debt_scaled_of(n, now) = n.snapshot_debt_scaled
  <2>1. ongoing_debt_scaled_of(n, now) = 0
    BY <1>2 DEF ongoing_debt_scaled_of
  <2>2. n.snapshot_debt_scaled \in Int
    BY <1>1, <1>4
  <2>. QED  BY <2>1, <2>2 DEF total_debt_scaled_of
<1>6. total_debt_of(n, now) = n.snapshot_debt_scaled \div unit
  BY <1>2, <1>5 DEF total_debt_of, descale_amount
<1>7. total_debt_of(n, now) = IF owed > s.balance THEN s.balance ELSE owed
  <2>1. CASE owed > s.balance
    <3>1. (s.balance * unit) \div unit = s.balance
      <4>. HIDE DEF owed, unit
      <4>. QED  BY <1>1, <2>1, DescaleExact
    <3>. QED  BY <1>4, <1>6, <2>1, <3>1
  <2>2. CASE ~(owed > s.balance)
    BY <1>1, <1>4, <1>6, <2>2
  <2>. QED  BY <2>1, <2>2
<1>. QED  BY <1>2, <1>3, <1>4, <1>5, <1>7 DEF n, debt

(* A second adds the rate to the debt of a stream that has started. *)
LEMMA SecondDebt ==
    ASSUME NEW s \in FlowStream, NEW t \in Nat
    PROVE  /\ total_debt_scaled_of(s, t + 1)
                 = total_debt_scaled_of(s, t)
                      + (IF s.snapshot_time > t THEN 0 ELSE s.rate_per_second)
           /\ total_debt_of(s, t) <= total_debt_of(s, t + 1)
<1> DEFINE rate == s.rate_per_second
           start == s.snapshot_time
<1>1. rate \in Nat /\ start \in Nat /\ s.snapshot_debt_scaled \in Nat
  BY RecordTypes
<1>2. ongoing_debt_scaled_of(s, t + 1)
        = ongoing_debt_scaled_of(s, t) + (IF start > t THEN 0 ELSE rate)
  <2>1. CASE start > t \/ rate = 0
    BY <1>1, <2>1 DEF ongoing_debt_scaled_of
  <2>2. CASE start = t /\ rate # 0
    <3>1. (t + 1 - start) * rate = rate
      BY <1>1, <2>2
    <3>. QED  BY <1>1, <2>2, <3>1 DEF ongoing_debt_scaled_of
  <2>3. CASE start < t /\ rate # 0
    <3>1. (t + 1 - start) * rate = (t - start) * rate + rate
      BY <1>1
    <3>. QED  BY <1>1, <2>3, <3>1 DEF ongoing_debt_scaled_of
  <2>. QED  BY <1>1, <2>1, <2>2, <2>3
<1>3. ongoing_debt_scaled_of(s, t) \in Nat /\ t + 1 \in Nat
  BY DebtTypes
<1>4. total_debt_scaled_of(s, t + 1)
        = total_debt_scaled_of(s, t) + (IF start > t THEN 0 ELSE rate)
  BY <1>1, <1>2, <1>3 DEF total_debt_scaled_of
<1>5. /\ total_debt_scaled_of(s, t) \in Nat /\ total_debt_scaled_of(s, t + 1) \in Nat
      /\ ScaleFactor[s.token_decimals] \in Nat \ {0}
  BY <1>3, DebtTypes
<1>6. total_debt_scaled_of(s, t) <= total_debt_scaled_of(s, t + 1)
  BY <1>1, <1>4, <1>5
<1>7. total_debt_of(s, t) <= total_debt_of(s, t + 1)
  BY <1>5, <1>6, DescaleMonotone DEF total_debt_of, descale_amount
<1>. QED  BY <1>4, <1>7

-----------------------------------------------------------------------------
(* What the operations do to the stream they are about *)

DepositsInto(s, n) ==
    /\ ~s.is_voided
    /\ \E balance \in 0..MaxI128 : balance > s.balance /\ n = Funded(s, balance)

PaysFrom(s, n) ==
    \E amount \in Nat \ {0} :
        amount <= covered_debt_of(s, now) /\ n = Withdrawn(s, amount)

RatesAnew(s, n) ==
    /\ ~s.is_voided
    /\ \E rate \in 0..MaxI128 :
          /\ rate # s.rate_per_second
          /\ s.snapshot_time > now => rate > 0
          /\ n = Rerated(s, rate)

ReturnsFrom(s, n) ==
    \E balance \in 0..MaxI128 :
        /\ covered_debt_of(s, now) <= balance
        /\ balance < s.balance
        /\ n = Funded(s, balance)

Ends(s, n) == ~s.is_voided /\ n = Voided(s)

(* A step that replaces the record of one stream and nothing else of them. *)
Replaces(id, n) ==
    /\ streams' = [streams EXCEPT ![id] = n]
    /\ UNCHANGED <<now, nextStreamId>>

LEMMA DepositEffect ==
    ASSUME IInv, Deposit
    PROVE  \E id \in Ids, n \in FlowStream : DepositsInto(streams[id], n) /\ Replaces(id, n)
<1>1. PICK id \in 1..MaxStreams, funder \in Callers, amount \in Amounts :
        deposit(id, funder, amount)
  BY DEF Deposit
<1> DEFINE s == streams[id]
           balance == s.balance + amount
           n == Funded(s, balance)
<1>2. /\ id \in Ids /\ funder \in Accounts /\ amount \in Int /\ amount > 0
      /\ s \in FlowStream /\ s.token \in Tokens /\ s.balance \in Nat
      /\ ~s.is_voided
      /\ TakeDeposit(s.token, s.balance, funder, amount)
      /\ Replaces(id, n)
  BY <1>1, StateTypes, FlowAssumption
     DEF deposit, Callers, IInv, Replaces, TakeDeposit
<1>3. balance \in 0..MaxI128 /\ balance > s.balance
  BY <1>2, DepositMoney DEF IInv
<1>4. n \in FlowStream
  BY <1>2, <1>3, FundedType
<1>. HIDE DEF n, balance, s
<1>5. DepositsInto(s, n)
  BY <1>2, <1>3 DEF DepositsInto, n
<1>. QED  BY <1>2, <1>4, <1>5 DEF s

LEMMA WithdrawEffect ==
    ASSUME IInv, Withdraw
    PROVE  \E id \in Ids, n \in FlowStream : PaysFrom(streams[id], n) /\ Replaces(id, n)
<1>1. PICK id \in 1..MaxStreams, caller \in Callers, to \in Accounts, amount \in Int :
        withdraw(id, caller, to, amount)
  <2>1. ASSUME NEW id \in Ids PROVE covered_debt_of(streams[id], now) \in Int
    BY <2>1, StateTypes, DebtTypes DEF IInv, TypeOK
  <2>. QED  BY <2>1, FlowAssumption DEF Withdraw, withdraw_max
<1> DEFINE s == streams[id]
           n == Withdrawn(s, amount)
<1>2. /\ id \in Ids /\ amount \in Nat \ {0}
      /\ s \in FlowStream /\ now \in Nat
      /\ DebtFits(s, now)
      /\ amount <= covered_debt_of(s, now)
      /\ Replaces(id, n)
  BY <1>1, StateTypes DEF withdraw, IInv, TypeOK, Replaces
<1>3. n \in FlowStream
  BY <1>2, WithdrawnType
<1>. HIDE DEF n, s
<1>4. PaysFrom(s, n)
  BY <1>2 DEF PaysFrom, n
<1>. QED  BY <1>2, <1>3, <1>4 DEF s

LEMMA AdjustRateEffect ==
    ASSUME IInv, AdjustRate
    PROVE  \E id \in Ids, n \in FlowStream : RatesAnew(streams[id], n) /\ Replaces(id, n)
<1>1. PICK id \in 1..MaxStreams, sender \in Callers :
        \/ pause(id, sender)
        \/ \E rate \in Rates : restart(id, sender, rate) \/ adjust_rate(id, sender, rate)
  BY DEF AdjustRate
<1> DEFINE s == streams[id]
<1>2. /\ id \in Ids /\ ~s.is_voided
      /\ \E rate \in 0..MaxI128 : ChangeRate(id, rate) /\ (s.snapshot_time > now => rate > 0)
  <2>1. CASE pause(id, sender)
    <3>1. id \in Ids /\ ~s.is_voided /\ 0 \in 0..MaxI128 /\ ChangeRate(id, 0)
          /\ s.snapshot_time <= now
      BY <2>1, FlowAssumption DEF pause
    <3>2. s.snapshot_time \in Nat /\ now \in Nat
      BY <3>1, StateTypes, RecordTypes DEF IInv, TypeOK
    <3>3. ~(s.snapshot_time > now)
      BY <3>1, <3>2
    <3>. QED  BY <3>1, <3>3
  <2>2. ASSUME NEW rate \in Rates,
               restart(id, sender, rate) \/ adjust_rate(id, sender, rate)
        PROVE  id \in Ids /\ ~s.is_voided /\ rate \in 0..MaxI128 /\ rate > 0
               /\ ChangeRate(id, rate)
    BY <2>2, FlowAssumption DEF restart, adjust_rate
  <2>. QED  BY <1>1, <2>1, <2>2
<1>3. PICK rate \in 0..MaxI128 : ChangeRate(id, rate) /\ (s.snapshot_time > now => rate > 0)
  BY <1>2
<1> DEFINE n == Rerated(s, rate)
<1>4. /\ s \in FlowStream /\ now \in Nat /\ DebtFits(s, now)
      /\ rate # s.rate_per_second
      /\ Replaces(id, n)
  BY <1>2, <1>3, StateTypes DEF ChangeRate, IInv, TypeOK, Replaces
<1>5. n \in FlowStream
  BY <1>4, ReratedType
<1>. HIDE DEF n, s
<1>6. RatesAnew(s, n)
  BY <1>2, <1>3, <1>4 DEF RatesAnew, n
<1>. QED  BY <1>2, <1>4, <1>5, <1>6 DEF s

LEMMA RefundEffect ==
    ASSUME IInv, Refund
    PROVE  \E id \in Ids, n \in FlowStream : ReturnsFrom(streams[id], n) /\ Replaces(id, n)
<1>1. PICK id \in 1..MaxStreams, sender \in Callers, amount \in Int :
        refund(id, sender, amount)
  <2>1. ASSUME NEW id \in Ids PROVE refundable_amount_of(streams[id], now) \in Int
    <3>1. streams[id] \in FlowStream /\ now \in Nat /\ streams[id].balance \in Nat
      BY <2>1, StateTypes DEF IInv, TypeOK
    <3>2. covered_debt_of(streams[id], now) \in 0..streams[id].balance
      BY <3>1, DebtTypes
    <3>. QED  BY <3>1, <3>2 DEF refundable_amount_of
  <2>. QED  BY <2>1, FlowAssumption DEF Refund, refund_max
<1> DEFINE s == streams[id]
           balance == s.balance - amount
           n == Funded(s, balance)
<1>2. /\ id \in Ids /\ amount \in Nat \ {0}
      /\ s \in FlowStream /\ now \in Nat
      /\ amount <= s.balance - covered_debt_of(s, now)
      /\ Replaces(id, n)
  BY <1>1, StateTypes DEF refund, refundable_amount_of, IInv, TypeOK, Replaces
<1>3. /\ covered_debt_of(s, now) \in 0..s.balance
      /\ s.balance \in 0..MaxI128 /\ s.balance \in Nat
  BY <1>2, DebtTypes, RecordTypes
<1>4. balance \in 0..MaxI128 /\ balance < s.balance /\ covered_debt_of(s, now) <= balance
  BY <1>2, <1>3, FlowAssumption
<1>5. n \in FlowStream
  BY <1>2, <1>4, FundedType
<1>. HIDE DEF n, balance, s
<1>6. ReturnsFrom(s, n)
  BY <1>4 DEF ReturnsFrom, n
<1>. QED  BY <1>2, <1>5, <1>6 DEF s

LEMMA VoidEffect ==
    ASSUME IInv, Void
    PROVE  \E id \in Ids, n \in FlowStream : Ends(streams[id], n) /\ Replaces(id, n)
<1>1. PICK id \in 1..MaxStreams, caller \in Callers : void_stream(id, caller)
  BY DEF Void
<1> DEFINE s == streams[id]
           n == Voided(s)
<1>2. /\ id \in Ids /\ s \in FlowStream /\ now \in Nat
      /\ DebtFits(s, now) /\ ~s.is_voided
      /\ Replaces(id, n)
  BY <1>1, StateTypes DEF void_stream, IInv, TypeOK, Replaces
<1>3. n \in FlowStream
  BY <1>2, VoidedType
<1>. HIDE DEF n, s
<1>4. Ends(s, n)
  BY <1>2 DEF Ends, n
<1>. QED  BY <1>2, <1>3, <1>4 DEF s

(* A new stream has no debt in its snapshot, and a rate if its start is     *)
(* still ahead.                                                             *)
LEMMA CreateEffect ==
    ASSUME IInv, Create
    PROVE  \E n \in FlowStream :
              /\ AddStream(n)
              /\ now' = now
              /\ n.snapshot_debt_scaled = 0
              /\ ~n.is_voided
              /\ n.snapshot_time > now => n.rate_per_second > 0
<1>1. PICK sender \in Callers, recipient \in Accounts, token \in Tokens, rate \in Rates,
           decimals \in {TokenDecimals[t] : t \in Tokens}, start_time \in 0..MaxTime :
        \/ create(sender, recipient, token, rate, decimals, start_time)
        \/ \E amount \in Amounts :
             create_and_deposit(sender, recipient, token, rate, decimals,
                                start_time, amount)
  BY DEF Create
<1> DEFINE s == NewStream(sender, recipient, token, rate, decimals, start_time)
<1>2. /\ decimals \in Decimals
      /\ rate \in 0..MaxI128 /\ rate \in Nat
      /\ sender \in Accounts
      /\ start_time \in Nat
      /\ now \in Nat
      /\ ~(start_time > now /\ rate = 0)
  BY <1>1, FlowAssumption DEF create, create_and_deposit, MayCreate, Callers, IInv, TypeOK
<1>3. s \in FlowStream
  BY <1>2, NewStreamType
<1>4. /\ s.snapshot_debt_scaled = 0
      /\ ~s.is_voided
      /\ s.snapshot_time > now => s.rate_per_second > 0
  BY <1>2 DEF NewStream
<1>. HIDE DEF s
<1>5. CASE create(sender, recipient, token, rate, decimals, start_time)
  BY <1>3, <1>4, <1>5 DEF create, s
<1>6. ASSUME NEW amount \in Amounts,
             create_and_deposit(sender, recipient, token, rate, decimals, start_time, amount)
      PROVE  \E n \in FlowStream :
                /\ AddStream(n)
                /\ now' = now
                /\ n.snapshot_debt_scaled = 0
                /\ ~n.is_voided
                /\ n.snapshot_time > now => n.rate_per_second > 0
  <2> DEFINE n == Funded(s, amount)
  <2>1. TakeDeposit(token, 0, sender, amount) /\ AddStream(n) /\ now' = now
    BY <1>6 DEF create_and_deposit, s
  <2>2. amount \in 0..MaxI128
    <3>1. amount \in Int
      BY FlowAssumption
    <3>. QED  BY <1>2, <2>1, <3>1, DepositMoney DEF IInv
  <2>3. n \in FlowStream
    BY <1>3, <2>2, FundedType
  <2>4. /\ n.snapshot_debt_scaled = 0
        /\ ~n.is_voided
        /\ n.snapshot_time > now => n.rate_per_second > 0
    BY <1>3, <1>4, FundedDebt
  <2>. HIDE DEF n
  <2>. QED  BY <2>1, <2>3, <2>4
<1>. QED  BY <1>1, <1>5, <1>6

(* What any step does to the record of one stream. *)
LEMMA StreamStep ==
    ASSUME IInv, [Next]_vars, NEW id \in Ids
    PROVE  LET s == streams[id]
               n == streams'[id]
           IN  /\ id \in Ids'
               /\ \/ n = s /\ now' = now
                  \/ n = s /\ now' = now + 1
                  \/ /\ now' = now
                     /\ \/ Deposit /\ DepositsInto(s, n)
                        \/ Withdraw /\ PaysFrom(s, n)
                        \/ RatesAnew(s, n)
                        \/ ReturnsFrom(s, n)
                        \/ Ends(s, n)
<1> DEFINE s == streams[id]
           n == streams'[id]
<1>1. ASSUME NEW i \in Ids, NEW m, Replaces(i, m)
      PROVE  /\ id \in Ids' /\ now' = now
             /\ IF id = i THEN n = m ELSE n = s
  BY <1>1, StateTypes DEF Replaces, IInv
<1>2. CASE UNCHANGED vars
  BY <1>2 DEF vars
<1>3. CASE Tick
  BY <1>3 DEF Tick
<1>4. CASE Create
  <2>1. PICK m \in FlowStream : AddStream(m) /\ now' = now
    BY <1>4, CreateEffect
  <2>2. nextStreamId \in Nat /\ nextStreamId' = nextStreamId + 1
    BY <2>1, StateTypes DEF AddStream, IInv
  <2>. QED  BY <2>1, <2>2 DEF AddStream
<1>. HIDE DEF Ids
<1>5. CASE Deposit
  <2>1. PICK i \in Ids, m \in FlowStream : DepositsInto(streams[i], m) /\ Replaces(i, m)
    BY <1>5, DepositEffect
  <2>. QED  BY <1>1, <1>5, <2>1
<1>6. CASE Withdraw
  <2>1. PICK i \in Ids, m \in FlowStream : PaysFrom(streams[i], m) /\ Replaces(i, m)
    BY <1>6, WithdrawEffect
  <2>. QED  BY <1>1, <1>6, <2>1
<1>7. CASE AdjustRate
  <2>1. PICK i \in Ids, m \in FlowStream : RatesAnew(streams[i], m) /\ Replaces(i, m)
    BY <1>7, AdjustRateEffect
  <2>. QED  BY <1>1, <2>1
<1>8. CASE Refund
  <2>1. PICK i \in Ids, m \in FlowStream : ReturnsFrom(streams[i], m) /\ Replaces(i, m)
    BY <1>8, RefundEffect
  <2>. QED  BY <1>1, <2>1
<1>9. CASE Void
  <2>1. PICK i \in Ids, m \in FlowStream : Ends(streams[i], m) /\ Replaces(i, m)
    BY <1>9, VoidEffect
  <2>. QED  BY <1>1, <2>1
<1>. QED  BY <1>2, <1>3, <1>4, <1>5, <1>6, <1>7, <1>8, <1>9 DEF Next

-----------------------------------------------------------------------------
(* Streams that have not started and streams that are voided *)

(* A record with a start that is still ahead. *)
Clean(s, t) ==
    s.snapshot_time > t =>
        s.snapshot_debt_scaled = 0 /\ s.rate_per_second > 0 /\ ~s.is_voided

(* A voided record accrues nothing and owes no more than it holds. *)
Settled(s, t) ==
    s.is_voided => s.rate_per_second = 0 /\ total_debt_of(s, t) <= s.balance

(* Neither part is about the books, but both need the types of IInv: the    *)
(* debts of a record are numbers only as long as it is one.                 *)
Kept == \A id \in Ids : Clean(streams[id], now) /\ Settled(streams[id], now)

(* One operation on one record keeps both. *)
LEMMA OperationKeeps ==
    ASSUME now \in Nat, NEW s \in FlowStream, NEW n \in FlowStream,
           Clean(s, now), Settled(s, now),
           \/ DepositsInto(s, n)
           \/ PaysFrom(s, n)
           \/ RatesAnew(s, n)
           \/ ReturnsFrom(s, n)
           \/ Ends(s, n)
    PROVE  Clean(n, now) /\ Settled(n, now)
<1>1. /\ s.balance \in Nat /\ s.rate_per_second \in Nat /\ s.snapshot_time \in Nat
      /\ s.snapshot_debt_scaled \in Nat
      /\ n.snapshot_time \in Nat /\ n.snapshot_debt_scaled \in Nat
      /\ total_debt_of(s, now) \in Nat
      /\ covered_debt_of(s, now) \in 0..s.balance
  BY RecordTypes, DebtTypes
<1>2. CASE DepositsInto(s, n)
  <2>1. PICK balance \in 0..MaxI128 : n = Funded(s, balance)
    BY <1>2 DEF DepositsInto
  <2>2. /\ n.rate_per_second = s.rate_per_second
        /\ n.snapshot_time = s.snapshot_time
        /\ n.snapshot_debt_scaled = s.snapshot_debt_scaled
        /\ n.is_voided = s.is_voided
    BY <2>1, FundedDebt
  <2>. QED  BY <1>2, <2>2 DEF DepositsInto, Clean, Settled
<1>3. CASE PaysFrom(s, n)
  <2>1. PICK amount \in Nat \ {0} :
           amount <= covered_debt_of(s, now) /\ n = Withdrawn(s, amount)
    BY <1>3 DEF PaysFrom
  <2>2. /\ n.balance = s.balance - amount
        /\ n.rate_per_second = s.rate_per_second
        /\ Wait(n, now) = Wait(s, now)
        /\ n.snapshot_time > now => n.snapshot_debt_scaled <= s.snapshot_debt_scaled
        /\ n.is_voided = s.is_voided
        /\ total_debt_of(n, now) = total_debt_of(s, now) - amount
    <3>1. amount \in Nat
      OBVIOUS
    <3>. QED  BY <2>1, <3>1, WithdrawnDebt
  <2>3. n.snapshot_time > now <=> s.snapshot_time > now
    BY <1>1, <2>2 DEF Wait
  <2>4. Clean(n, now)
    BY <1>1, <2>2, <2>3 DEF Clean
  <2>5. Settled(n, now)
    BY <1>1, <2>2 DEF Settled
  <2>. QED  BY <2>4, <2>5
<1>4. CASE RatesAnew(s, n)
  <2>1. PICK rate \in 0..MaxI128 :
           (s.snapshot_time > now => rate > 0) /\ n = Rerated(s, rate)
    BY <1>4 DEF RatesAnew
  <2>2. /\ n.rate_per_second = rate
        /\ Wait(n, now) = Wait(s, now)
        /\ n.snapshot_time > now => n.snapshot_debt_scaled = s.snapshot_debt_scaled
        /\ n.is_voided = s.is_voided
    BY <2>1, ReratedDebt
  <2>3. n.snapshot_time > now <=> s.snapshot_time > now
    BY <1>1, <2>2 DEF Wait
  <2>. QED  BY <1>4, <2>1, <2>2, <2>3 DEF RatesAnew, Clean, Settled
<1>5. CASE ReturnsFrom(s, n)
  <2>1. PICK balance \in 0..MaxI128 :
           covered_debt_of(s, now) <= balance /\ n = Funded(s, balance)
    BY <1>5 DEF ReturnsFrom
  <2>2. /\ n.balance = balance
        /\ n.rate_per_second = s.rate_per_second
        /\ n.snapshot_time = s.snapshot_time
        /\ n.snapshot_debt_scaled = s.snapshot_debt_scaled
        /\ n.is_voided = s.is_voided
        /\ total_debt_of(n, now) = total_debt_of(s, now)
    BY <2>1, FundedDebt
  <2>3. total_debt_of(s, now) <= s.balance => covered_debt_of(s, now) = total_debt_of(s, now)
    BY <1>1 DEF covered_debt_of
  <2>. QED  BY <2>1, <2>2, <2>3 DEF Clean, Settled
<1>6. CASE Ends(s, n)
  <2>1. /\ n.balance = s.balance
        /\ n.rate_per_second = 0
        /\ n.snapshot_time = now
        /\ total_debt_of(n, now)
              = IF total_debt_of(s, now) > s.balance THEN s.balance ELSE total_debt_of(s, now)
    BY <1>6, VoidedDebt DEF Ends
  <2>. QED  BY <1>1, <2>1 DEF Clean, Settled
<1>. QED  BY <1>2, <1>3, <1>4, <1>5, <1>6

(* Time keeps both: a start only comes nearer, and without a rate nothing   *)
(* accrues.                                                                 *)
LEMMA SecondKeeps ==
    ASSUME NEW s \in FlowStream, NEW t \in Nat, Clean(s, t), Settled(s, t)
    PROVE  Clean(s, t + 1) /\ Settled(s, t + 1)
<1>1. s.snapshot_time \in Nat
  BY RecordTypes
<1>2. Clean(s, t + 1)
  BY <1>1 DEF Clean
<1>3. s.rate_per_second = 0 => total_debt_of(s, t + 1) = total_debt_of(s, t)
  BY DEF total_debt_of, total_debt_scaled_of, ongoing_debt_scaled_of
<1>. QED  BY <1>2, <1>3 DEF Settled

LEMMA InitIsKept == Init => Kept
  BY DEF Init, Kept

LEMMA StepIsKept == IInv /\ Kept /\ [Next]_vars => Kept'
<1> SUFFICES ASSUME IInv, Kept, [Next]_vars, IInv', NEW id \in Ids'
             PROVE  Clean(streams'[id], now') /\ Settled(streams'[id], now')
  BY StepKeeps DEF Kept, Clean, Settled
<1>1. /\ now \in Nat
      /\ streams'[id] \in FlowStream
  BY DEF IInv, TypeOK
<1>2. CASE id \in Ids
  <2> DEFINE s == streams[id]
             n == streams'[id]
  <2>1. s \in FlowStream /\ Clean(s, now) /\ Settled(s, now)
    BY <1>2, StateTypes DEF IInv, Kept
  <2>2. \/ n = s /\ now' = now
        \/ n = s /\ now' = now + 1
        \/ /\ now' = now
           /\ \/ Deposit /\ DepositsInto(s, n)
              \/ Withdraw /\ PaysFrom(s, n)
              \/ RatesAnew(s, n)
              \/ ReturnsFrom(s, n)
              \/ Ends(s, n)
    BY <1>2, StreamStep
  <2>. HIDE DEF s, n
  <2>3. CASE n = s /\ now' = now
    BY <2>1, <2>3 DEF n
  <2>4. CASE n = s /\ now' = now + 1
    BY <1>1, <2>1, <2>4, SecondKeeps DEF n
  <2>5. CASE /\ now' = now
             /\ \/ DepositsInto(s, n)
                \/ PaysFrom(s, n)
                \/ RatesAnew(s, n)
                \/ ReturnsFrom(s, n)
                \/ Ends(s, n)
    <3>1. n \in FlowStream
      BY <1>1 DEF n
    <3>2. Clean(n, now) /\ Settled(n, now)
      BY <1>1, <2>1, <2>5, <3>1, OperationKeeps
    <3>. QED  BY <2>5, <3>2 DEF n
  <2>. QED  BY <2>2, <2>3, <2>4, <2>5
<1>3. CASE id \notin Ids
  <2>1. Create
    <3>1. ASSUME NEW i \in Ids, NEW m, Replaces(i, m) PROVE Ids' = Ids
      BY <3>1 DEF Replaces
    <3>2. UNCHANGED vars \/ Tick => Ids' = Ids
      BY DEF vars, Tick
    <3>3. Deposit \/ Withdraw \/ AdjustRate \/ Refund \/ Void
             => \E i \in Ids, m \in FlowStream : Replaces(i, m)
      BY DepositEffect, WithdrawEffect, AdjustRateEffect, RefundEffect, VoidEffect
    <3>. HIDE DEF Ids
    <3>. QED  BY <1>3, <3>1, <3>2, <3>3 DEF Next
  <2>2. PICK m \in FlowStream :
              /\ AddStream(m)
              /\ now' = now
              /\ m.snapshot_debt_scaled = 0
              /\ ~m.is_voided
              /\ m.snapshot_time > now => m.rate_per_second > 0
    BY <2>1, CreateEffect
  <2>3. streams'[id] = m
    BY <1>3, <2>2, StateTypes DEF AddStream, IInv
  <2>. QED  BY <2>2, <2>3 DEF Clean, Settled
<1>. QED  BY <1>2, <1>3

LEMMA FlowInvariant == Spec => [](IInv /\ Kept)
<1>1. Init => IInv /\ Kept
  BY InitKeeps, InitIsKept
<1>2. IInv /\ Kept /\ [Next]_vars => IInv' /\ Kept'
  BY StepKeeps, StepIsKept
<1>. QED  BY <1>1, <1>2, PTL DEF Spec

(* Whatever is done to a stream before its start, in any order, it starts   *)
(* with a clean slate: no debt, a rate, and not voided (internal.rs, where  *)
(* withdraw, adjust_rate, pause and void each treat a pending stream in a   *)
(* way of their own).                                                       *)
THEOREM FlowPendingIsClean == Spec => []PendingIsClean
<1>1. IInv /\ Kept => PendingIsClean
  BY DEF Kept, Clean, PendingIsClean, status_of
<1>. QED  BY <1>1, FlowInvariant, PTL

(* The debt that void_stream leaves is covered, and no later withdrawal,    *)
(* refund or second uncovers it.                                            *)
THEOREM FlowVoidedIsCovered == Spec => []VoidedIsCovered
<1>1. IInv /\ Kept => VoidedIsCovered
  <2> SUFFICES ASSUME IInv, Kept, NEW id \in Ids, streams[id].is_voided
               PROVE  /\ uncovered_debt_of(streams[id], now) = 0
                      /\ streams[id].rate_per_second = 0
    BY DEF VoidedIsCovered
  <2>1. /\ streams[id].rate_per_second = 0
        /\ total_debt_of(streams[id], now) <= streams[id].balance
    BY DEF Kept, Settled
  <2>2. total_debt_of(streams[id], now) \in Nat /\ streams[id].balance \in Nat
    BY StateTypes, DebtTypes DEF IInv, TypeOK
  <2>. QED  BY <2>1, <2>2 DEF uncovered_debt_of
<1>. QED  BY <1>1, FlowInvariant, PTL

-----------------------------------------------------------------------------
(* What a step may never do *)

(* What one operation does to the money that is owed: n is the record s     *)
(* after it.                                                                *)
LEMMA OperationMoves ==
    ASSUME now \in Nat, NEW s \in FlowStream,
           NEW n \in FlowStream
    PROVE  LET owed == total_debt_of(s, now)
               rest == total_debt_of(n, now)
           IN  /\ DepositsInto(s, n) => n.balance > s.balance /\ rest = owed
               /\ PaysFrom(s, n) =>
                    \E amount \in Nat \ {0} :
                       /\ amount <= covered_debt_of(s, now)
                       /\ n.balance = s.balance - amount
                       /\ rest = owed - amount
                       /\ n.is_voided = s.is_voided
               /\ RatesAnew(s, n) => n.balance = s.balance /\ rest = owed
               /\ ReturnsFrom(s, n) =>
                    /\ n.balance < s.balance
                    /\ covered_debt_of(s, now) <= n.balance
                    /\ rest = owed
                    /\ n.is_voided = s.is_voided
               /\ Ends(s, n) =>
                    /\ n.balance = s.balance
                    /\ rest = IF owed > s.balance THEN s.balance ELSE owed
                    /\ n.is_voided
<1> DEFINE owed == total_debt_of(s, now)
           rest == total_debt_of(n, now)
<1>1. ASSUME DepositsInto(s, n) PROVE n.balance > s.balance /\ rest = owed
  BY <1>1, FundedDebt DEF DepositsInto
<1>2. ASSUME PaysFrom(s, n)
      PROVE  \E amount \in Nat \ {0} :
                /\ amount <= covered_debt_of(s, now)
                /\ n.balance = s.balance - amount
                /\ rest = owed - amount
                /\ n.is_voided = s.is_voided
  <2>1. PICK amount \in Nat \ {0} :
           amount <= covered_debt_of(s, now) /\ n = Withdrawn(s, amount)
    BY <1>2 DEF PaysFrom
  <2>2. amount \in Nat
    OBVIOUS
  <2>. QED  BY <2>1, <2>2, WithdrawnDebt
<1>3. ASSUME RatesAnew(s, n) PROVE n.balance = s.balance /\ rest = owed
  BY <1>3, ReratedDebt DEF RatesAnew
<1>4. ASSUME ReturnsFrom(s, n)
      PROVE  /\ n.balance < s.balance
             /\ covered_debt_of(s, now) <= n.balance
             /\ rest = owed
             /\ n.is_voided = s.is_voided
  <2>1. PICK balance \in 0..MaxI128 :
           /\ covered_debt_of(s, now) <= balance
           /\ balance < s.balance
           /\ n = Funded(s, balance)
    BY <1>4 DEF ReturnsFrom
  <2>. QED  BY <2>1, FundedDebt
<1>5. ASSUME Ends(s, n)
      PROVE  /\ n.balance = s.balance
             /\ rest = IF owed > s.balance THEN s.balance ELSE owed
             /\ n.is_voided
  BY <1>5, VoidedDebt DEF Ends
<1>. QED  BY <1>1, <1>2, <1>3, <1>4, <1>5

(* The covered debt is the smaller of the balance and what is owed, and the *)
(* uncovered debt is what is owed beyond the balance.                       *)
LEMMA Coverage ==
    ASSUME NEW s \in FlowStream, NEW t \in Nat
    PROVE  /\ s.balance \in Nat /\ total_debt_of(s, t) \in Nat
           /\ covered_debt_of(s, t)
                 = IF s.balance < total_debt_of(s, t) THEN s.balance ELSE total_debt_of(s, t)
           /\ uncovered_debt_of(s, t)
                 = IF s.balance < total_debt_of(s, t) THEN total_debt_of(s, t) - s.balance
                                                      ELSE 0
  BY RecordTypes, DebtTypes DEF covered_debt_of, uncovered_debt_of

(* All that the theorems below say of one stream in one step. *)
LEMMA MoneyStep ==
    ASSUME IInv, Kept, [Next]_vars, NEW id \in Ids
    PROVE  LET s == streams[id]
               n == streams'[id]
           IN  /\ covered_debt_of(n, now') < covered_debt_of(s, now) =>
                    /\ Withdraw
                    /\ covered_debt_of(n, now')
                         = covered_debt_of(s, now) - (s.balance - n.balance)
               /\ uncovered_debt_of(n, now') > uncovered_debt_of(s, now) => now' > now
               /\ uncovered_debt_of(n, now') < uncovered_debt_of(s, now) =>
                    Deposit \/ n.is_voided
               /\ s.is_voided =>
                    /\ n.is_voided
                    /\ n.sender = s.sender /\ n.recipient = s.recipient
                    /\ s.balance - n.balance >= 0
                    /\ \/ total_debt_of(n, now') = total_debt_of(s, now)
                       \/ /\ Withdraw
                          /\ total_debt_of(n, now')
                               = total_debt_of(s, now) - (s.balance - n.balance)
<1> DEFINE s == streams[id]
           n == streams'[id]
<1>1. /\ s \in FlowStream /\ now \in Nat /\ now' \in Nat
      /\ Settled(s, now)
  BY StepKeeps, StateTypes DEF IInv, TypeOK, Kept
<1>2. n \in FlowStream
  BY StreamStep, StepKeeps DEF IInv, TypeOK
<1>3. \/ n = s /\ now' = now
      \/ n = s /\ now' = now + 1
      \/ /\ now' = now
         /\ \/ Deposit /\ DepositsInto(s, n)
            \/ Withdraw /\ PaysFrom(s, n)
            \/ RatesAnew(s, n)
            \/ ReturnsFrom(s, n)
            \/ Ends(s, n)
  BY StreamStep
<1>. HIDE DEF s, n
<1> DEFINE owed == total_debt_of(s, now)
           rest == total_debt_of(n, now')
           before == s.balance
           after == n.balance
<1>4. /\ before \in Nat /\ after \in Nat /\ owed \in Nat /\ rest \in Nat
      /\ covered_debt_of(s, now) = IF before < owed THEN before ELSE owed
      /\ covered_debt_of(n, now') = IF after < rest THEN after ELSE rest
      /\ uncovered_debt_of(s, now) = IF before < owed THEN owed - before ELSE 0
      /\ uncovered_debt_of(n, now') = IF after < rest THEN rest - after ELSE 0
  BY <1>1, <1>2, Coverage
<1> DEFINE Goal ==
             /\ covered_debt_of(n, now') < covered_debt_of(s, now) =>
                  /\ Withdraw
                  /\ covered_debt_of(n, now') = covered_debt_of(s, now) - (before - after)
             /\ uncovered_debt_of(n, now') > uncovered_debt_of(s, now) => now' > now
             /\ uncovered_debt_of(n, now') < uncovered_debt_of(s, now) => Deposit \/ n.is_voided
             /\ s.is_voided =>
                  /\ n.is_voided
                  /\ n.sender = s.sender /\ n.recipient = s.recipient
                  /\ before - after >= 0
                  /\ \/ rest = owed
                     \/ Withdraw /\ rest = owed - (before - after)
<1> SUFFICES Goal
  BY DEF s, n
<1>5. CASE n = s /\ now' = now
  BY <1>4, <1>5
<1>6. CASE n = s /\ now' = now + 1
  <2>1. owed <= rest
    BY <1>1, <1>6, SecondDebt
  <2>2. s.is_voided => rest = owed
    BY <1>1, <1>6 DEF Settled, total_debt_of, total_debt_scaled_of, ongoing_debt_scaled_of
  <2>3. now' > now /\ after = before
    BY <1>1, <1>6
  <2>. HIDE DEF owed, rest, before, after
  <2>. QED  BY <1>4, <1>6, <2>1, <2>2, <2>3
<1>7. CASE now' = now /\ Deposit /\ DepositsInto(s, n)
  <2>1. after > before /\ rest = owed /\ ~s.is_voided
    BY <1>1, <1>2, <1>7, OperationMoves DEF DepositsInto
  <2>. HIDE DEF owed, rest, before, after
  <2>. QED  BY <1>4, <1>7, <2>1
<1>8. CASE now' = now /\ Withdraw /\ PaysFrom(s, n)
  <2>1. PICK amount \in Nat \ {0} :
           /\ amount <= covered_debt_of(s, now)
           /\ after = before - amount
           /\ rest = owed - amount
           /\ n.is_voided = s.is_voided
    BY <1>1, <1>2, <1>8, OperationMoves
  <2>2. n.sender = s.sender /\ n.recipient = s.recipient
    BY <1>8 DEF PaysFrom, Withdrawn, Booked
  <2>. HIDE DEF owed, rest, before, after
  <2>. QED  BY <1>4, <1>8, <2>1, <2>2
<1>9. CASE now' = now /\ RatesAnew(s, n)
  <2>1. after = before /\ rest = owed /\ ~s.is_voided
    BY <1>1, <1>2, <1>9, OperationMoves DEF RatesAnew
  <2>. HIDE DEF owed, rest, before, after
  <2>. QED  BY <1>4, <1>9, <2>1
<1>10. CASE now' = now /\ ReturnsFrom(s, n)
  <2>1. /\ after < before /\ covered_debt_of(s, now) <= after
        /\ rest = owed /\ n.is_voided = s.is_voided
    BY <1>1, <1>2, <1>10, OperationMoves
  <2>2. n.sender = s.sender /\ n.recipient = s.recipient
    BY <1>10 DEF ReturnsFrom, Funded, Booked
  <2>. HIDE DEF owed, rest, before, after
  <2>. QED  BY <1>4, <1>10, <2>1, <2>2
<1>11. CASE now' = now /\ Ends(s, n)
  <2>1. /\ after = before /\ rest = (IF owed > before THEN before ELSE owed)
        /\ n.is_voided /\ ~s.is_voided
    BY <1>1, <1>2, <1>11, OperationMoves DEF Ends
  <2>. HIDE DEF owed, rest, before, after
  <2>. QED  BY <1>4, <1>11, <2>1
<1>. QED  BY <1>3, <1>5, <1>6, <1>7, <1>8, <1>9, <1>10, <1>11

(* No operation but a withdrawal, and no second, lowers what a stream would *)
(* pay its recipient.                                                       *)
LEMMA OnlyWithdrawPays ==
    ASSUME IInv, NEW id \in Ids, Tick \/ Create \/ Deposit \/ AdjustRate \/ Refund \/ Void
    PROVE  /\ id \in Ids'
           /\ covered_debt_of(streams[id], now) <= covered_debt_of(streams'[id], now')
<1> DEFINE s == streams[id]
           n == streams'[id]
<1>1. s \in FlowStream /\ now \in Nat
  BY StateTypes DEF IInv, TypeOK
<1>2. /\ id \in Ids'
      /\ \/ n = s /\ now' \in {now, now + 1}
         \/ /\ now' = now /\ n \in FlowStream
            /\ DepositsInto(s, n) \/ RatesAnew(s, n) \/ ReturnsFrom(s, n) \/ Ends(s, n)
  <2>1. ASSUME NEW i \in Ids, NEW m \in FlowStream, Replaces(i, m)
        PROVE  /\ id \in Ids' /\ now' = now
               /\ IF id = i THEN n = m ELSE n = s
    BY <2>1, StateTypes DEF Replaces, IInv
  <2>2. CASE Tick
    BY <2>2 DEF Tick
  <2>3. CASE Create
    <3>1. PICK m \in FlowStream : AddStream(m) /\ now' = now
      BY <2>3, CreateEffect
    <3>2. nextStreamId \in Nat /\ nextStreamId' = nextStreamId + 1
      BY <3>1, StateTypes DEF AddStream, IInv
    <3>. QED  BY <3>1, <3>2 DEF AddStream
  <2>. HIDE DEF Ids
  <2>4. CASE Deposit
    <3>1. PICK i \in Ids, m \in FlowStream : DepositsInto(streams[i], m) /\ Replaces(i, m)
      BY <2>4, DepositEffect
    <3>. QED  BY <2>1, <3>1
  <2>5. CASE AdjustRate
    <3>1. PICK i \in Ids, m \in FlowStream : RatesAnew(streams[i], m) /\ Replaces(i, m)
      BY <2>5, AdjustRateEffect
    <3>. QED  BY <2>1, <3>1
  <2>6. CASE Refund
    <3>1. PICK i \in Ids, m \in FlowStream : ReturnsFrom(streams[i], m) /\ Replaces(i, m)
      BY <2>6, RefundEffect
    <3>. QED  BY <2>1, <3>1
  <2>7. CASE Void
    <3>1. PICK i \in Ids, m \in FlowStream : Ends(streams[i], m) /\ Replaces(i, m)
      BY <2>7, VoidEffect
    <3>. QED  BY <2>1, <3>1
  <2>. QED  BY <2>2, <2>3, <2>4, <2>5, <2>6, <2>7
<1>. HIDE DEF s, n
<1> DEFINE owed == total_debt_of(s, now)
           rest == total_debt_of(n, now)
           before == s.balance
           after == n.balance
<1>3. /\ before \in Nat /\ owed \in Nat
      /\ covered_debt_of(s, now) = IF before < owed THEN before ELSE owed
  BY <1>1, Coverage
<1>4. CASE n = s /\ now' \in {now, now + 1}
  <2>1. covered_debt_of(s, now + 1)
          = IF before < total_debt_of(s, now + 1) THEN before ELSE total_debt_of(s, now + 1)
    BY <1>1, Coverage
  <2>2. owed <= total_debt_of(s, now + 1) /\ total_debt_of(s, now + 1) \in Nat
    BY <1>1, SecondDebt, Coverage
  <2>. HIDE DEF owed
  <2>3. covered_debt_of(s, now) <= covered_debt_of(s, now + 1)
    BY <1>3, <2>1, <2>2
  <2>4. covered_debt_of(s, now) <= covered_debt_of(s, now)
    BY <1>3
  <2>. QED  BY <1>2, <1>4, <2>3, <2>4 DEF s, n
<1>5. CASE /\ now' = now /\ n \in FlowStream
           /\ DepositsInto(s, n) \/ RatesAnew(s, n) \/ ReturnsFrom(s, n) \/ Ends(s, n)
  <2>1. /\ after \in Nat /\ rest \in Nat
        /\ covered_debt_of(n, now) = IF after < rest THEN after ELSE rest
    BY <1>1, <1>5, Coverage
  <2>2. \/ before <= after /\ rest = owed
        \/ covered_debt_of(s, now) <= after /\ rest = owed
        \/ before = after /\ rest = IF owed > before THEN before ELSE owed
    <3>1. CASE DepositsInto(s, n)
      <4>1. after > before /\ rest = owed
        BY <1>1, <1>5, <3>1, OperationMoves
      <4>. HIDE DEF after, before, rest, owed
      <4>. QED  BY <1>3, <2>1, <4>1
    <3>2. CASE RatesAnew(s, n)
      <4>1. after = before /\ rest = owed
        BY <1>1, <1>5, <3>2, OperationMoves
      <4>. HIDE DEF after, before, rest, owed
      <4>. QED  BY <1>3, <2>1, <4>1
    <3>3. CASE ReturnsFrom(s, n)
      BY <1>1, <1>5, <3>3, OperationMoves
    <3>4. CASE Ends(s, n)
      BY <1>1, <1>5, <3>4, OperationMoves
    <3>. QED  BY <1>5, <3>1, <3>2, <3>3, <3>4
  <2>. HIDE DEF after, before, rest, owed
  <2>3. covered_debt_of(s, now) <= covered_debt_of(n, now)
    BY <1>3, <2>1, <2>2
  <2>. QED  BY <1>2, <1>5, <2>3 DEF s, n
<1>. QED  BY <1>2, <1>4, <1>5

(* What the recipient could withdraw is only ever lowered by a withdrawal,  *)
(* and by what it pays: no refund, rate change, void or deposit, of this    *)
(* stream or of another, takes it back (internal.rs).                       *)
THEOREM FlowEntitlementKept == Spec => EntitlementKept
<1>1. IInv /\ Kept /\ [Next]_vars =>
        [\A id \in Ids :
           LET before == covered_debt_of(streams[id], now)
               after == covered_debt_of(streams'[id], now')
               paid == streams[id].balance - streams'[id].balance
           IN  after < before => (Withdraw /\ after = before - paid)]_vars
  <2>. HIDE DEF Ids
  <2>. QED  BY MoneyStep
<1>. QED  BY <1>1, FlowInvariant, PTL DEF Spec, EntitlementKept

(* Only time uncovers debt, and only a deposit or voiding covers it.        *)
THEOREM FlowUncoveredDebtMoves == Spec => UncoveredDebtMoves
<1>1. IInv /\ Kept /\ [Next]_vars =>
        [\A id \in Ids :
           LET before == uncovered_debt_of(streams[id], now)
               after == uncovered_debt_of(streams'[id], now')
           IN  /\ after > before => now' > now
               /\ after < before => (Deposit \/ streams'[id].is_voided)]_vars
  <2>. HIDE DEF Ids
  <2>. QED  BY MoneyStep
<1>. QED  BY <1>1, FlowInvariant, PTL DEF Spec, UncoveredDebtMoves

(* No sequence of calls revives a voided stream or changes its parties, and *)
(* its debt only ever falls by what a withdrawal pays.                      *)
THEOREM FlowVoidedForGood == Spec => VoidedForGood
<1>1. IInv /\ Kept /\ [Next]_vars =>
        [\A id \in Ids :
           LET s == streams[id]
               n == streams'[id]
               paid == s.balance - n.balance
           IN  s.is_voided =>
                 /\ n.is_voided
                 /\ n.sender = s.sender /\ n.recipient = s.recipient
                 /\ paid >= 0
                 /\ \/ total_debt_of(n, now') = total_debt_of(s, now)
                    \/ /\ Withdraw
                       /\ total_debt_of(n, now') = total_debt_of(s, now) - paid]_vars
  <2>. HIDE DEF Ids
  <2>. QED  BY MoneyStep
<1>. QED  BY <1>1, FlowInvariant, PTL DEF Spec, VoidedForGood

-----------------------------------------------------------------------------
(* The contract implements FlowPromise *)

(* The agreement of a record, in the promise's own words. *)
LEMMA AgreementType ==
    ASSUME NEW s \in FlowStream, NEW t \in Nat
    PROVE  /\ AgreementOf(s, t)
                = Promise!Terms(ScaleFactor[s.token_decimals], s.rate_per_second, Wait(s, t),
                                total_debt_scaled_of(s, t), s.balance, ~s.is_voided)
           /\ AgreementOf(s, t) \in Promise!Agreement
           /\ Promise!Owed(AgreementOf(s, t)) = total_debt_of(s, t)
<1>1. /\ s.balance \in Nat /\ s.rate_per_second \in Nat /\ s.snapshot_time \in Nat
      /\ s.is_voided \in BOOLEAN
      /\ total_debt_scaled_of(s, t) \in Nat
      /\ ScaleFactor[s.token_decimals] \in Nat \ {0}
  BY RecordTypes, DebtTypes
<1>2. Wait(s, t) \in Nat
  BY <1>1 DEF Wait
<1>3. AgreementOf(s, t)
        = Promise!Terms(ScaleFactor[s.token_decimals], s.rate_per_second, Wait(s, t),
                        total_debt_scaled_of(s, t), s.balance, ~s.is_voided)
  BY DEF AgreementOf, Promise!Terms, Wait
<1>4. AgreementOf(s, t) \in Promise!Agreement
  <2>1. (~s.is_voided) \in BOOLEAN
    OBVIOUS
  <2>. QED  BY <1>1, <1>2, <1>3, <2>1 DEF Promise!Terms, Promise!Agreement
<1>5. Promise!Owed(AgreementOf(s, t)) = total_debt_of(s, t)
  BY DEF AgreementOf, Promise!Owed, total_debt_of, descale_amount
<1>. QED  BY <1>3, <1>4, <1>5

(* Only whole seconds of the rate have accrued since a start that is past. *)
LEMMA MultipleLeavesNothing ==
    ASSUME NEW k \in Nat, NEW r \in Nat \ {0}
    PROVE  (k * r) % r = 0
  OBVIOUS

(* A step that replaces one record replaces one agreement. *)
LEMMA OneAgreementChanges ==
    ASSUME IInv, NEW id \in Ids, NEW n \in FlowStream, Replaces(id, n)
    PROVE  /\ DOMAIN Agreements = Ids
           /\ Agreements[id] = AgreementOf(streams[id], now)
           /\ Agreements'[id] = AgreementOf(n, now)
           /\ Agreements' = [Agreements EXCEPT ![id] = AgreementOf(n, now)]
<1>1. \A i \in Ids : streams'[i] = IF i = id THEN n ELSE streams[i]
  BY StateTypes DEF Replaces, IInv
<1>2. Ids' = Ids /\ now' = now
  BY DEF Replaces
<1>3. Agreements' = [i \in Ids' |-> AgreementOf(streams'[i], now')]
  BY DEF Agreements, AgreementOf, total_debt_scaled_of, ongoing_debt_scaled_of
<1>4. DOMAIN Agreements = Ids /\ \A i \in Ids : Agreements[i] = AgreementOf(streams[i], now)
  BY DEF Agreements
<1>. HIDE DEF Ids
<1> DEFINE after == [Agreements EXCEPT ![id] = AgreementOf(n, now)]
<1>5. after = [i \in Ids |-> IF i = id THEN AgreementOf(n, now) ELSE AgreementOf(streams[i], now)]
  BY <1>4
<1>6. Agreements' = [i \in Ids |-> AgreementOf(streams'[i], now)]
  BY <1>2, <1>3
<1>7. \A i \in Ids : AgreementOf(streams'[i], now)
                     = IF i = id THEN AgreementOf(n, now) ELSE AgreementOf(streams[i], now)
  BY <1>1
<1>. QED  BY <1>4, <1>5, <1>6, <1>7

(* The operations of one stream are those of its agreement. *)
LEMMA DepositIsFund ==
    ASSUME IInv, NEW id \in Ids, NEW n \in FlowStream,
           DepositsInto(streams[id], n), Replaces(id, n)
    PROVE  Promise!Fund(id)
<1> DEFINE s == streams[id]
           a == AgreementOf(s, now)
           b == AgreementOf(n, now)
<1>1. s \in FlowStream /\ now \in Nat
  BY StateTypes DEF IInv, TypeOK
<1>2. /\ Agreements[id] = a /\ Agreements'[id] = b
      /\ Agreements' = [Agreements EXCEPT ![id] = b]
  BY OneAgreementChanges
<1>3. PICK balance \in 0..MaxI128 : balance > s.balance /\ n = Funded(s, balance)
  BY DEF DepositsInto
<1>4. ~s.is_voided
  BY DEF DepositsInto
<1>5. /\ n.balance > s.balance
      /\ n.token_decimals = s.token_decimals
      /\ n.rate_per_second = s.rate_per_second
      /\ n.snapshot_time = s.snapshot_time
      /\ n.is_voided = s.is_voided
      /\ total_debt_scaled_of(n, now) = total_debt_scaled_of(s, now)
  BY <1>1, <1>3, FundedDebt
<1>6. (~n.is_voided) = TRUE
  BY <1>4, <1>5, Zenon
<1>. HIDE DEF s
<1>7. /\ b = Promise!Terms(a.unit, a.rate, a.wait, a.debt, b.funds, TRUE)
      /\ a.open /\ b.funds > a.funds
  BY <1>4, <1>5, <1>6 DEF AgreementOf, Promise!Terms
<1>. HIDE DEF a, b
<1>. QED  BY <1>2, <1>7 DEF Promise!Fund, Promise!Becomes

LEMMA WithdrawIsPay ==
    ASSUME IInv, NEW id \in Ids, NEW n \in FlowStream,
           PaysFrom(streams[id], n), Replaces(id, n)
    PROVE  Promise!Pay(id)
<1> DEFINE s == streams[id]
           a == AgreementOf(s, now)
           b == AgreementOf(n, now)
<1>1. s \in FlowStream /\ now \in Nat
  BY StateTypes DEF IInv, TypeOK
<1>2. /\ Agreements[id] = a
      /\ Agreements' = [Agreements EXCEPT ![id] = b]
  BY OneAgreementChanges
<1>3. PICK amount \in Nat \ {0} :
         amount <= covered_debt_of(s, now) /\ n = Withdrawn(s, amount)
  BY DEF PaysFrom
<1>4. /\ n.balance = s.balance - amount
      /\ n.token_decimals = s.token_decimals
      /\ n.rate_per_second = s.rate_per_second
      /\ Wait(n, now) = Wait(s, now)
      /\ n.is_voided = s.is_voided
      /\ total_debt_scaled_of(n, now)
            = total_debt_scaled_of(s, now) - amount * ScaleFactor[s.token_decimals]
  <2>1. amount \in Nat
    OBVIOUS
  <2>. QED  BY <1>1, <1>3, <2>1, WithdrawnDebt
<1>5. /\ amount \in 1..s.balance
      /\ amount <= total_debt_of(s, now)
  <2>1. /\ covered_debt_of(s, now) \in 0..s.balance /\ s.balance \in Nat
        /\ covered_debt_of(s, now) <= total_debt_of(s, now)
        /\ total_debt_of(s, now) \in Nat
    BY <1>1, DebtTypes, RecordTypes
  <2>. QED  BY <1>3, <2>1
<1>6. (~n.is_voided) = (~s.is_voided)
  BY <1>4, Zenon
<1>7. total_debt_of(s, now) = Promise!Owed(a)
  BY <1>1, AgreementType
<1>. HIDE DEF s
<1>8. /\ b = Promise!Terms(a.unit, a.rate, a.wait, a.debt - amount * a.unit,
                           a.funds - amount, a.open)
      /\ a.funds = s.balance
  BY <1>4, <1>6 DEF AgreementOf, Promise!Terms, Wait
<1>. HIDE DEF a, b
<1>. QED  BY <1>2, <1>5, <1>7, <1>8 DEF Promise!Pay, Promise!Becomes

LEMMA RefundIsReturn ==
    ASSUME IInv, NEW id \in Ids, NEW n \in FlowStream,
           ReturnsFrom(streams[id], n), Replaces(id, n)
    PROVE  Promise!Return(id)
<1> DEFINE s == streams[id]
           a == AgreementOf(s, now)
           b == AgreementOf(n, now)
<1>1. s \in FlowStream /\ now \in Nat
  BY StateTypes DEF IInv, TypeOK
<1>2. /\ Agreements[id] = a
      /\ Agreements' = [Agreements EXCEPT ![id] = b]
  BY OneAgreementChanges
<1>3. PICK balance \in 0..MaxI128 :
         /\ covered_debt_of(s, now) <= balance
         /\ balance < s.balance
         /\ n = Funded(s, balance)
  BY DEF ReturnsFrom
<1>4. /\ n.balance = balance
      /\ n.token_decimals = s.token_decimals
      /\ n.rate_per_second = s.rate_per_second
      /\ n.snapshot_time = s.snapshot_time
      /\ n.is_voided = s.is_voided
      /\ total_debt_scaled_of(n, now) = total_debt_scaled_of(s, now)
  BY <1>1, <1>3, FundedDebt
<1>5. balance \in 0..(s.balance - 1) /\ balance >= total_debt_of(s, now)
  <2>1. /\ s.balance \in Nat /\ total_debt_of(s, now) \in Nat
        /\ covered_debt_of(s, now)
             = IF s.balance < total_debt_of(s, now) THEN s.balance ELSE total_debt_of(s, now)
    BY <1>1, Coverage
  <2>2. balance \in Nat
    BY FlowAssumption
  <2>. QED  BY <1>3, <2>1, <2>2
<1>6. (~n.is_voided) = (~s.is_voided)
  BY <1>4, Zenon
<1>7. total_debt_of(s, now) = Promise!Owed(a)
  BY <1>1, AgreementType
<1>. HIDE DEF s
<1>8. /\ b = Promise!Terms(a.unit, a.rate, a.wait, a.debt, balance, a.open)
      /\ a.funds = s.balance
  BY <1>4, <1>6 DEF AgreementOf, Promise!Terms
<1>. HIDE DEF a, b
<1>. QED  BY <1>2, <1>5, <1>7, <1>8 DEF Promise!Return, Promise!Becomes

LEMMA AdjustRateIsRerate ==
    ASSUME IInv, NEW id \in Ids, NEW n \in FlowStream,
           RatesAnew(streams[id], n), Replaces(id, n)
    PROVE  Promise!Rerate(id)
<1> DEFINE s == streams[id]
           a == AgreementOf(s, now)
           b == AgreementOf(n, now)
<1>1. s \in FlowStream /\ now \in Nat /\ s.snapshot_time \in Nat
  BY StateTypes, RecordTypes DEF IInv, TypeOK
<1>2. /\ Agreements[id] = a /\ Agreements'[id] = b
      /\ Agreements' = [Agreements EXCEPT ![id] = b]
  BY OneAgreementChanges
<1>3. PICK rate \in 0..MaxI128 :
         /\ rate # s.rate_per_second
         /\ s.snapshot_time > now => rate > 0
         /\ n = Rerated(s, rate)
  BY DEF RatesAnew
<1>4. ~s.is_voided
  BY DEF RatesAnew
<1>5. /\ n.balance = s.balance
      /\ n.token_decimals = s.token_decimals
      /\ n.rate_per_second = rate
      /\ Wait(n, now) = Wait(s, now)
      /\ n.is_voided = s.is_voided
      /\ total_debt_scaled_of(n, now) = total_debt_scaled_of(s, now)
  BY <1>1, <1>3, ReratedDebt
<1>6. (~n.is_voided) = TRUE
  BY <1>4, <1>5, Zenon
<1>. HIDE DEF s
<1>7. /\ b = Promise!Terms(a.unit, b.rate, a.wait, a.debt, a.funds, TRUE)
      /\ a.open /\ b.rate = rate /\ a.rate = s.rate_per_second
      /\ a.wait = Wait(s, now)
  BY <1>4, <1>5, <1>6 DEF AgreementOf, Promise!Terms, Wait
<1>8. a.wait > 0 => rate > 0
  BY <1>1, <1>3, <1>7 DEF Wait
<1>. HIDE DEF a, b
<1>. QED  BY <1>2, <1>3, <1>7, <1>8 DEF Promise!Rerate, Promise!Becomes

LEMMA VoidIsVoid ==
    ASSUME IInv, NEW id \in Ids, NEW n \in FlowStream,
           Ends(streams[id], n), Replaces(id, n)
    PROVE  Promise!Void(id)
<1> DEFINE s == streams[id]
           a == AgreementOf(s, now)
           b == AgreementOf(n, now)
<1>1. s \in FlowStream /\ now \in Nat
  BY StateTypes DEF IInv, TypeOK
<1>2. /\ Agreements[id] = a
      /\ Agreements' = [Agreements EXCEPT ![id] = b]
  BY OneAgreementChanges
<1>3. ~s.is_voided /\ n = Voided(s)
  BY DEF Ends
<1>4. /\ n.balance = s.balance
      /\ n.token_decimals = s.token_decimals
      /\ n.rate_per_second = 0
      /\ n.snapshot_time = now
      /\ n.is_voided = TRUE
      /\ total_debt_scaled_of(n, now)
            = IF total_debt_of(s, now) > s.balance
              THEN s.balance * ScaleFactor[s.token_decimals]
              ELSE total_debt_scaled_of(s, now)
  BY <1>1, <1>3, VoidedDebt
<1>5. (~n.is_voided) = FALSE
  BY <1>4, Zenon
<1>6. total_debt_of(s, now) = Promise!Owed(a)
  BY <1>1, AgreementType
<1>7. Wait(n, now) = 0
  BY <1>1, <1>4 DEF Wait
<1>. HIDE DEF s
<1>8. /\ b = Promise!Terms(a.unit, 0, 0,
                           IF Promise!Owed(a) > a.funds THEN a.funds * a.unit ELSE a.debt,
                           a.funds, FALSE)
      /\ a.open
  <2>1. /\ a.funds = s.balance /\ a.unit = ScaleFactor[s.token_decimals]
        /\ a.debt = total_debt_scaled_of(s, now)
        /\ a.open
    BY <1>3 DEF AgreementOf
  <2>2. b = Promise!Terms(ScaleFactor[n.token_decimals], n.rate_per_second, Wait(n, now),
                          total_debt_scaled_of(n, now), n.balance, ~n.is_voided)
    BY <1>1, AgreementType
  <2>. HIDE DEF a, b
  <2>. QED  BY <1>4, <1>5, <1>6, <1>7, <2>1, <2>2
<1>. HIDE DEF a, b
<1>. QED  BY <1>2, <1>8 DEF Promise!Void, Promise!Becomes

LEMMA TickIsTick ==
    ASSUME IInv, Tick
    PROVE  Promise!Tick
<1>1. /\ now' = now + 1 /\ now \in Nat /\ Ids' = Ids /\ streams' = streams
  BY DEF Tick, IInv, TypeOK
<1>2. Agreements' = [id \in Ids' |-> AgreementOf(streams'[id], now')]
  BY DEF Agreements, AgreementOf, total_debt_scaled_of, ongoing_debt_scaled_of
<1>3. DOMAIN Agreements = Ids /\ \A id \in Ids : Agreements[id] = AgreementOf(streams[id], now)
  BY DEF Agreements
<1>4. ASSUME NEW id \in Ids
      PROVE  AgreementOf(streams[id], now + 1) = Promise!Second(AgreementOf(streams[id], now))
  <2> DEFINE s == streams[id]
             a == AgreementOf(s, now)
  <2>0. s \in FlowStream
    BY StateTypes DEF IInv
  <2>1. /\ s \in FlowStream /\ now + 1 \in Nat /\ s.snapshot_time \in Nat
        /\ s.rate_per_second \in Nat
        /\ total_debt_scaled_of(s, now) \in Nat
    <3>1. now \in Nat /\ now + 1 \in Nat
      BY <1>1
    <3>. HIDE DEF s
    <3>. QED  BY <2>0, <3>1, RecordTypes, DebtTypes
  <2>2. total_debt_scaled_of(s, now + 1)
          = total_debt_scaled_of(s, now)
               + (IF s.snapshot_time > now THEN 0 ELSE s.rate_per_second)
    BY <1>1, <2>1, SecondDebt
  <2>3. /\ Wait(s, now + 1) = IF Wait(s, now) > 0 THEN Wait(s, now) - 1 ELSE 0
        /\ Wait(s, now) > 0 <=> s.snapshot_time > now
    BY <1>1, <2>1 DEF Wait
  <2>. HIDE DEF s
  <2>4. /\ AgreementOf(s, now + 1)
             = Promise!Terms(a.unit, a.rate, Wait(s, now + 1),
                             total_debt_scaled_of(s, now + 1), a.funds, a.open)
        /\ a.wait = Wait(s, now) /\ a.rate = s.rate_per_second
        /\ a.debt = total_debt_scaled_of(s, now)
    BY DEF AgreementOf, Promise!Terms, Wait
  <2>. HIDE DEF a
  <2>5. AgreementOf(s, now + 1) = Promise!Second(a)
    BY <2>1, <2>2, <2>3, <2>4 DEF Promise!Second
  <2>. QED  BY <2>5 DEF s, a
<1>. HIDE DEF Ids
<1>. QED  BY <1>1, <1>2, <1>3, <1>4 DEF Promise!Tick, Promise!Parties

LEMMA CreateIsOpen ==
    ASSUME IInv, Create
    PROVE  Promise!Open
<1>1. PICK n \in FlowStream :
         /\ AddStream(n)
         /\ now' = now
         /\ n.snapshot_debt_scaled = 0
         /\ ~n.is_voided
         /\ n.snapshot_time > now => n.rate_per_second > 0
  BY CreateEffect
<1> DEFINE id == nextStreamId
           a == AgreementOf(n, now)
<1>2. now \in Nat /\ nextStreamId \in Nat /\ nextStreamId >= 1
  BY FlowAssumption DEF IInv, TypeOK
<1>3. Ids' = 1..id /\ Ids' = Ids \cup {id} /\ id \notin Ids
  BY <1>1, <1>2 DEF AddStream
<1>4. streams'[id] = n /\ \A i \in Ids : streams'[i] = streams[i]
  BY <1>1, <1>2 DEF AddStream
<1>5. Agreements' = [i \in Ids' |-> AgreementOf(streams'[i], now')]
  BY DEF Agreements, AgreementOf, total_debt_scaled_of, ongoing_debt_scaled_of
<1>6. DOMAIN Agreements = Ids /\ \A i \in Ids : Agreements[i] = AgreementOf(streams[i], now)
  BY DEF Agreements
<1>. HIDE DEF Ids
<1>7. /\ DOMAIN Agreements' = Ids \cup {id}
      /\ Agreements'[id] = a
      /\ \A i \in Ids : Agreements'[i] = Agreements[i]
  BY <1>1, <1>3, <1>4, <1>5, <1>6
<1>8. Promise!Fresh(a)
  <2>1. /\ n.rate_per_second \in Nat /\ n.snapshot_time \in Nat
        /\ ongoing_debt_scaled_of(n, now) \in Nat
    BY <1>2, RecordTypes, DebtTypes
  <2>2. a \in Promise!Agreement
    BY <1>2, AgreementType
  <2>3. /\ a.rate = n.rate_per_second
        /\ a.debt = ongoing_debt_scaled_of(n, now)
        /\ a.wait > 0 <=> n.snapshot_time > now
        /\ a.open
    <3>1. /\ a.rate = n.rate_per_second
          /\ a.debt = ongoing_debt_scaled_of(n, now) + n.snapshot_debt_scaled
          /\ a.wait = Wait(n, now)
      BY DEF AgreementOf, total_debt_scaled_of, Wait
    <3>2. a.open
      BY <1>1, Zenon DEF AgreementOf
    <3>3. Wait(n, now) > 0 <=> n.snapshot_time > now
      BY <1>2, <2>1 DEF Wait
    <3>. HIDE DEF a
    <3>. QED  BY <1>1, <2>1, <3>1, <3>2, <3>3
  <2>4. n.snapshot_time > now => ongoing_debt_scaled_of(n, now) = 0
    BY <1>2, <2>1 DEF ongoing_debt_scaled_of
  <2>5. n.rate_per_second = 0 => ongoing_debt_scaled_of(n, now) = 0
    BY DEF ongoing_debt_scaled_of
  <2>6. ASSUME n.rate_per_second # 0
        PROVE  ongoing_debt_scaled_of(n, now) % n.rate_per_second = 0
    <3>1. CASE n.snapshot_time >= now
      BY <2>1, <2>6, <3>1 DEF ongoing_debt_scaled_of
    <3>2. CASE n.snapshot_time < now
      <4>1. ongoing_debt_scaled_of(n, now) = (now - n.snapshot_time) * n.rate_per_second
        BY <1>2, <2>1, <2>6, <3>2 DEF ongoing_debt_scaled_of
      <4>2. now - n.snapshot_time \in Nat /\ n.rate_per_second \in Nat \ {0}
        BY <1>2, <2>1, <2>6, <3>2
      <4>3. ((now - n.snapshot_time) * n.rate_per_second) % n.rate_per_second = 0
        BY <4>2, MultipleLeavesNothing
      <4>. QED  BY <4>1, <4>3
    <3>. QED  BY <1>2, <2>1, <3>1, <3>2
  <2>. HIDE DEF a
  <2>. QED  BY <1>1, <2>2, <2>3, <2>4, <2>5, <2>6 DEF Promise!Fresh
<1>. HIDE DEF a
<1>9. id \in DOMAIN Agreements' \ DOMAIN Agreements
  BY <1>3, <1>6, <1>7
<1>. QED  BY <1>6, <1>7, <1>8, <1>9 DEF Promise!Open, Promise!Parties

(* The snapshots keep the promise of FlowPromise, a debt that grows by the  *)
(* rate every second, to both parties of every stream: each step of the     *)
(* contract is a step of one agreement, the opening of one, a second for    *)
(* all of them, or none (internal.rs).                                      *)
THEOREM FlowKeepsPromise == Spec => ImplementsPromise
<1>1. Init => Promise!Init
  BY DEF Init, Promise!Init, Agreements
<1>2. IInv /\ [Next]_vars => [Promise!Next]_Agreements
  <2> SUFFICES ASSUME IInv, [Next]_vars PROVE [Promise!Next]_Agreements
    OBVIOUS
  <2>1. CASE UNCHANGED vars
    BY <2>1 DEF vars, Agreements, AgreementOf, total_debt_scaled_of, ongoing_debt_scaled_of
  <2>2. CASE Tick
    BY <2>2, TickIsTick DEF Promise!Next
  <2>3. CASE Create
    BY <2>3, CreateIsOpen DEF Promise!Next
  <2>4. ASSUME NEW id \in Ids, NEW n \in FlowStream, Replaces(id, n),
               \/ DepositsInto(streams[id], n)
               \/ PaysFrom(streams[id], n)
               \/ RatesAnew(streams[id], n)
               \/ ReturnsFrom(streams[id], n)
               \/ Ends(streams[id], n)
        PROVE  Promise!Next
    <3>1. id \in Promise!Parties
      BY <2>4, OneAgreementChanges DEF Promise!Parties
    <3>2. Promise!Fund(id) \/ Promise!Pay(id) \/ Promise!Return(id)
            \/ Promise!Rerate(id) \/ Promise!Void(id)
      BY <2>4, DepositIsFund, WithdrawIsPay, AdjustRateIsRerate, RefundIsReturn, VoidIsVoid
    <3>. QED  BY <3>1, <3>2 DEF Promise!Next
  <2>. HIDE DEF Ids
  <2>5. CASE Deposit
    BY <2>4, <2>5, DepositEffect
  <2>6. CASE Withdraw
    BY <2>4, <2>6, WithdrawEffect
  <2>7. CASE AdjustRate
    BY <2>4, <2>7, AdjustRateEffect
  <2>8. CASE Refund
    BY <2>4, <2>8, RefundEffect
  <2>9. CASE Void
    BY <2>4, <2>9, VoidEffect
  <2>. QED  BY <2>1, <2>2, <2>3, <2>5, <2>6, <2>7, <2>8, <2>9 DEF Next
<1>. QED  BY <1>1, <1>2, FlowInvariant, PTL DEF Spec, ImplementsPromise, Promise!Spec

-----------------------------------------------------------------------------
(* The depletion time *)

(* The number of seconds depletion_time_of adds for a stream that runs is   *)
(* not cut by its u64.                                                      *)
SecondsFit(s) ==
    s.rate_per_second > 0 =>
        (scale_amount(s.balance + 1, s.token_decimals) - s.snapshot_debt_scaled)
            \div s.rate_per_second <= MaxU64

(* A division rounded up gives the first multiple that reaches the dividend. *)
LEMMA RoundedUp ==
    ASSUME NEW x \in Nat \ {0}, NEW r \in Nat \ {0}
    PROVE  LET k == x \div r + (IF x % r = 0 THEN 0 ELSE 1)
           IN  k \in Nat \ {0} /\ k * r >= x /\ (k - 1) * r < x
<1> DEFINE q == x \div r
           m == x % r
<1>1. /\ q \in Nat /\ m \in 0..(r - 1) /\ x = q * r + m
      /\ q * r \in Nat
  OBVIOUS
<1>. HIDE DEF q, m
<1>2. CASE m = 0
  <2>1. q * r = x
    BY <1>1, <1>2
  <2>2. (q - 1) * r = q * r - r
    BY <1>1
  <2>3. q # 0
    BY <1>1, <2>1
  <2>. QED  BY <1>1, <1>2, <2>1, <2>2, <2>3 DEF q, m
<1>3. CASE m # 0
  <2>1. (q + 1) * r = q * r + r /\ (q + 1 - 1) * r = q * r
    BY <1>1
  <2>2. (q + 1) * r >= x /\ (q + 1 - 1) * r < x
    BY <1>1, <1>3, <2>1
  <2>. QED  BY <1>1, <1>3, <2>2 DEF q, m
<1>. QED  BY <1>2, <1>3

(* A debt is worth more than a balance exactly when it reaches one unit more. *)
LEMMA UncoveredFrom ==
    ASSUME NEW s \in FlowStream, NEW t \in Nat
    PROVE  /\ (s.balance + 1) * ScaleFactor[s.token_decimals] \in Nat
           /\ uncovered_debt_of(s, t) > 0
                <=> total_debt_scaled_of(s, t)
                       >= (s.balance + 1) * ScaleFactor[s.token_decimals]
           /\ uncovered_debt_of(s, t) \in Nat
<1> DEFINE unit == ScaleFactor[s.token_decimals]
           debt == total_debt_scaled_of(s, t)
           owed == total_debt_of(s, t)
           more == s.balance + 1
<1>1. /\ s.balance \in Nat /\ more \in Nat
      /\ debt \in Nat /\ owed \in Nat /\ unit \in Nat \ {0}
      /\ owed = debt \div unit
      /\ uncovered_debt_of(s, t) = IF s.balance < owed THEN owed - s.balance ELSE 0
  BY DebtTypes, RecordTypes, Coverage DEF total_debt_of, descale_amount
<1>2. more > s.balance /\ (s.balance < owed <=> more <= owed)
  BY <1>1
<1>. HIDE DEF unit, debt, owed, more
<1>3. /\ owed * unit <= debt /\ debt < (owed + 1) * unit
      /\ owed * unit \in Nat /\ (owed + 1) * unit \in Nat /\ more * unit \in Nat
  BY <1>1
<1>4. ASSUME more <= owed PROVE more * unit <= debt
  <2>1. more * unit <= owed * unit
    BY <1>1, <1>4, ProductMonotone
  <2>. QED  BY <1>1, <1>3, <2>1
<1>5. ASSUME ~(more <= owed) PROVE ~(more * unit <= debt)
  <2>1. (owed + 1) * unit <= more * unit
    BY <1>1, <1>5, ProductMonotone
  <2>. QED  BY <1>1, <1>3, <2>1
<1>6. uncovered_debt_of(s, t) \in Nat /\ (uncovered_debt_of(s, t) > 0 <=> more <= owed)
  BY <1>1, <1>2
<1>7. debt >= more * unit <=> more * unit <= debt
  BY <1>1, <1>3
<1>. QED  BY <1>3, <1>4, <1>5, <1>6, <1>7 DEF unit, debt, more

LEMMA DepletionExact ==
    ASSUME NEW s \in FlowStream, NEW t \in Nat, DepletionAnswers(s, t), SecondsFit(s)
    PROVE  LET T == depletion_time_of(s, t)
           IN  IF T = 0 THEN uncovered_debt_of(s, t) > 0
               ELSE /\ uncovered_debt_of(s, T) > 0
                    /\ uncovered_debt_of(s, T - 1) = 0
<1> DEFINE unit == ScaleFactor[s.token_decimals]
           limit == (s.balance + 1) * unit
           debt == s.snapshot_debt_scaled
           start == s.snapshot_time
           rate == s.rate_per_second
           x == limit - debt
           k == x \div rate + (IF x % rate = 0 THEN 0 ELSE 1)
<1>1. /\ unit \in Nat \ {0} /\ s.balance \in Nat /\ limit \in Nat
      /\ debt \in Nat /\ start \in Nat /\ rate \in Nat \ {0}
      /\ total_debt_scaled_of(s, t) \in Nat
      /\ ongoing_debt_scaled_of(s, t) \in Nat
      /\ total_debt_scaled_of(s, t) = ongoing_debt_scaled_of(s, t) + debt
  BY RecordTypes, DebtTypes, UncoveredFrom DEF DepletionAnswers, total_debt_scaled_of
<1>2. /\ scale_amount(1, s.token_decimals) = unit
      /\ scale_amount(s.balance + 1, s.token_decimals) = limit
      /\ scale_amount(s.balance, s.token_decimals) + unit = limit
      /\ scale_amount(s.balance, s.token_decimals) - debt + unit = x
  <2>1. limit = s.balance * unit + unit /\ s.balance * unit \in Int
    BY <1>1
  <2>2. scale_amount(s.balance, s.token_decimals) = s.balance * unit
    BY DEF scale_amount
  <2>. HIDE DEF limit
  <2>3. /\ scale_amount(s.balance, s.token_decimals) + unit = limit
        /\ scale_amount(s.balance, s.token_decimals) - debt + unit = limit - debt
    BY <1>1, <2>1, <2>2
  <2>4. scale_amount(1, s.token_decimals) = unit
    BY <1>1 DEF scale_amount
  <2>. QED  BY <2>3, <2>4 DEF scale_amount, limit
<1>. HIDE DEF limit, unit
<1>3. depletion_time_of(s, t)
        = IF total_debt_scaled_of(s, t) >= limit THEN 0
          ELSE start + ((x \div rate) % (MaxU64 + 1)) + (IF x % rate = 0 THEN 0 ELSE 1)
  BY <1>2 DEF depletion_time_of
<1>4. CASE total_debt_scaled_of(s, t) >= limit
  BY <1>3, <1>4, UncoveredFrom DEF limit, unit
<1>5. CASE ~(total_debt_scaled_of(s, t) >= limit)
  <2>1. x \in Nat \ {0}
    BY <1>1, <1>5
  <2>2. (x \div rate) % (MaxU64 + 1) = x \div rate
    <3>1. x \div rate \in Nat /\ x \div rate <= MaxU64
      <4>1. x \div rate <= MaxU64
        BY <1>1, <1>2 DEF SecondsFit
      <4>. HIDE DEF x, rate
      <4>. QED  BY <1>1, <2>1, <4>1
    <3>. HIDE DEF x
    <3>. QED  BY <3>1, FlowAssumption
  <2>3. k \in Nat \ {0} /\ k * rate >= x /\ (k - 1) * rate < x
    <3>. HIDE DEF x, rate
    <3>. QED  BY <1>1, <2>1, RoundedUp
  <2>4. depletion_time_of(s, t) = start + k
    <3>1. depletion_time_of(s, t)
            = start + (x \div rate) + (IF x % rate = 0 THEN 0 ELSE 1)
      BY <1>3, <1>5, <2>2
    <3>2. x \div rate \in Int
      <4>. HIDE DEF x, rate
      <4>. QED  BY <1>1, <2>1
    <3>. HIDE DEF x
    <3>. QED  BY <1>1, <3>1, <3>2
  <2>. HIDE DEF k
  <2>5. /\ start + k \in Nat \ {0} /\ start + (k - 1) \in Nat
        /\ k * rate \in Nat /\ (k - 1) * rate \in Nat
    <3>. HIDE DEF start, rate
    <3>1. k - 1 \in Nat
      BY <2>3
    <3>. QED  BY <1>1, <2>3, <3>1
  <2>6. total_debt_scaled_of(s, start + k) = k * rate + debt
    <3>1. ~(start >= start + k) /\ (start + k) - start = k
      <4>. HIDE DEF start
      <4>. QED  BY <1>1, <2>3
    <3>. QED  BY <1>1, <3>1 DEF total_debt_scaled_of, ongoing_debt_scaled_of
  <2>7. total_debt_scaled_of(s, start + (k - 1)) = (k - 1) * rate + debt
    <3>1. CASE k = 1
      <4>1. start >= start + (k - 1) /\ (k - 1) * rate = 0
        BY <1>1, <3>1
      <4>. QED  BY <1>1, <4>1 DEF total_debt_scaled_of, ongoing_debt_scaled_of
    <3>2. CASE k # 1
      <4>1. ~(start >= start + (k - 1)) /\ (start + (k - 1)) - start = k - 1
        <5>. HIDE DEF start
        <5>. QED  BY <1>1, <2>3, <3>2
      <4>. QED  BY <1>1, <4>1 DEF total_debt_scaled_of, ongoing_debt_scaled_of
    <3>. QED  BY <3>1, <3>2
  <2>8. /\ total_debt_scaled_of(s, start + k) >= limit
        /\ ~(total_debt_scaled_of(s, start + (k - 1)) >= limit)
    <3>. HIDE DEF rate, debt
    <3>. QED  BY <1>1, <2>3, <2>5, <2>6, <2>7
  <2>9. /\ uncovered_debt_of(s, start + k) > 0
        /\ uncovered_debt_of(s, start + (k - 1)) = 0
    <3>1. /\ uncovered_debt_of(s, start + k) > 0
          /\ ~(uncovered_debt_of(s, start + (k - 1)) > 0)
          /\ uncovered_debt_of(s, start + (k - 1)) \in Nat
      <4>. HIDE DEF start
      <4>. QED  BY <2>5, <2>8, UncoveredFrom DEF limit, unit
    <3>. HIDE DEF start
    <3>. QED  BY <3>1
  <2> DEFINE T == depletion_time_of(s, t)
  <2>10. T = start + k /\ T # 0 /\ T - 1 = start + (k - 1)
    <3>. HIDE DEF start, T
    <3>1. T = start + k
      BY <2>4 DEF T
    <3>2. start + k # 0 /\ start \in Nat /\ k \in Nat
      BY <1>1, <2>3, <2>5
    <3>3. (start + k) - 1 = start + (k - 1)
      BY <3>2
    <3>. QED  BY <3>1, <3>2, <3>3, Zenon
  <2>. HIDE DEF start
  <2>11. T # 0 /\ uncovered_debt_of(s, T) > 0 /\ uncovered_debt_of(s, T - 1) = 0
    BY <2>9, <2>10
  <2>. QED  BY <2>11
<1>. QED  BY <1>4, <1>5

(* The depletion time that is answered is the first insolvent second of a   *)
(* stream left to itself, as long as the number of seconds it adds fits in  *)
(* a u64: without that the cast of depletion_time_of cuts it, and the       *)
(* property fails (queries.rs).                                             *)
THEOREM FlowDepletionIsExact ==
    Spec => []((\A id \in Ids : SecondsFit(streams[id])) => DepletionIsExact)
<1>1. IInv /\ Kept => ((\A id \in Ids : SecondsFit(streams[id])) => DepletionIsExact)
  <2> SUFFICES ASSUME IInv, NEW id \in Ids, SecondsFit(streams[id]),
                      DepletionAnswers(streams[id], now)
               PROVE  LET s == streams[id]
                          T == depletion_time_of(s, now)
                      IN  IF T = 0 THEN uncovered_debt_of(s, now) > 0
                          ELSE /\ uncovered_debt_of(s, T) > 0
                               /\ uncovered_debt_of(s, T - 1) = 0
    BY DEF DepletionIsExact
  <2>1. streams[id] \in FlowStream /\ now \in Nat
    BY StateTypes DEF IInv, TypeOK
  <2>. QED  BY <2>1, DepletionExact
<1>. QED  BY <1>1, FlowInvariant, PTL
=============================================================================
