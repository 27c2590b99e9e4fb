-------------------------------- MODULE Flow --------------------------------
(***************************************************************************)
(* The Flow contract: open-ended streams that accrue debt at a rate per    *)
(* second (contracts/flow).  Debt is kept lazily: a record stores the debt *)
(* at its last snapshot and the time of that snapshot, and every operation *)
(* recomputes what has accrued since.                                      *)
(*                                                                         *)
(* A contract invocation is one atomic action; one that panics leaves the  *)
(* state unchanged and is a disabled action here.  The host closes ledgers *)
(* between invocations, which is the action Tick.                          *)
(***************************************************************************)
EXTENDS Token, Totals

CONSTANTS
    Self,          \* the contract's own address
    Decimals,      \* the decimal counts the contract accepts (0..18)
    ScaleFactor,   \* 10^(18 - d) for each accepted decimal count d
    MaxI128,       \* the largest i128
    MaxU64,        \* the largest u64
    Genesis,       \* the ledger timestamp when the contract is deployed
    Funds,         \* what each account holds of each token at the start
    Rates,         \* the rates callers ask for   (bound on inputs)
    Amounts,       \* the amounts callers ask for (bound on inputs)
    MaxTime,       \* the last ledger timestamp   (bound on time)
    MaxStreams     \* how many streams are created (bound on ids)

ASSUME FlowAssumption ==
    /\ Self \in Accounts
    /\ Decimals \subseteq Nat
    /\ ScaleFactor \in [Decimals -> Nat \ {0}]
    /\ MaxI128 \in Nat
    /\ MaxU64 \in Nat
    /\ Genesis \in Nat \ {0}
    /\ Funds \in Nat
    /\ Rates \subseteq -MaxI128..MaxI128
    /\ Amounts \subseteq -MaxI128..MaxI128
    /\ MaxTime \in Nat
    /\ MaxStreams \in Nat

VARIABLES
    now,           \* env.ledger().timestamp()
    streams,       \* DataKey::FlowStream(id), for the ids handed out so far
    nextStreamId,  \* DataKey::NextStreamId
    aggregate,     \* DataKey::AggregateBalance(token)
    wallet         \* the token contracts' balances

vars == <<now, streams, nextStreamId, aggregate, wallet>>

-----------------------------------------------------------------------------
(* Records and arithmetic *)

FlowStream ==
    [sender: Accounts, recipient: Accounts, token: Tokens,
     token_decimals: Decimals, balance: 0..MaxI128,
     rate_per_second: 0..MaxI128, snapshot_time: Nat,
     snapshot_debt_scaled: 0..MaxI128, is_voided: BOOLEAN]

scale_amount(amount, decimals) == amount * ScaleFactor[decimals]

descale_amount(amount, decimals) == amount \div ScaleFactor[decimals]

ongoing_debt_scaled_of(s, t) ==
    IF s.snapshot_time >= t \/ s.rate_per_second = 0
    THEN 0
    ELSE (t - s.snapshot_time) * s.rate_per_second

total_debt_scaled_of(s, t) ==
    ongoing_debt_scaled_of(s, t) + s.snapshot_debt_scaled

(* The checked_mul and the checked_add of total_debt_of both succeed.  The *)
(* two terms of the sum are not negative, so its bound implies theirs.     *)
DebtFits(s, t) == total_debt_scaled_of(s, t) <= MaxI128

total_debt_of(s, t) ==
    descale_amount(total_debt_scaled_of(s, t), s.token_decimals)

covered_debt_of(s, t) ==
    IF s.balance = 0 THEN 0
    ELSE IF s.balance < total_debt_of(s, t) THEN s.balance
    ELSE total_debt_of(s, t)

uncovered_debt_of(s, t) ==
    IF s.balance < total_debt_of(s, t) THEN total_debt_of(s, t) - s.balance ELSE 0

(* Mutant: what has accrued since the snapshot counts as the sender's. *)
RefundableSinceSnapshot(s, t) ==
    LET owed == descale_amount(s.snapshot_debt_scaled, s.token_decimals)
    IN  IF s.balance > owed THEN s.balance - owed ELSE 0

(* Mutant: the pool of all streams of the token is the sender's. *)
RefundableFromPool(s, t) == aggregate[s.token] - covered_debt_of(s, t)

refundable_amount_of(s, t) == s.balance - covered_debt_of(s, t)

(* Mutant: the division rounds down. *)
DepletionRoundedDown(s, t) ==
    s.snapshot_time
        + (scale_amount(s.balance, s.token_decimals) - s.snapshot_debt_scaled)
              \div s.rate_per_second

(* When the debt will exceed the balance: the division rounds up, and the  *)
(* number of seconds is cut to a u64 before it is added.                   *)
depletion_time_of(s, t) ==
    LET unit == scale_amount(1, s.token_decimals)
        solvency_amount == scale_amount(s.balance, s.token_decimals)
                              - s.snapshot_debt_scaled + unit
        seconds == (solvency_amount \div s.rate_per_second) % (MaxU64 + 1)
    IN  IF total_debt_scaled_of(s, t)
              >= scale_amount(s.balance, s.token_decimals) + unit
        THEN 0
        ELSE s.snapshot_time + seconds
               + (IF solvency_amount % s.rate_per_second = 0 THEN 0 ELSE 1)

(* The calls of depletion_time_of that answer instead of panicking. *)
DepletionAnswers(s, t) ==
    /\ s.rate_per_second # 0
    /\ s.balance # 0
    /\ DebtFits(s, t)
    /\ scale_amount(s.balance + 1, s.token_decimals) <= MaxI128
    /\ depletion_time_of(s, t) <= MaxU64

status_of(s, t) ==
    CASE s.snapshot_time > t -> "Pending"
      [] s.snapshot_time <= t /\ s.is_voided -> "Voided"
      [] OTHER ->
           IF s.rate_per_second = 0
           THEN IF uncovered_debt_of(s, t) > 0 THEN "PausedInsolvent"
                                               ELSE "PausedSolvent"
           ELSE IF uncovered_debt_of(s, t) > 0 THEN "StreamingInsolvent"
                                               ELSE "StreamingSolvent"

-----------------------------------------------------------------------------
(* What the handlers do to one record *)

NewStream(sender, recipient, token, rate, decimals, start_time) ==
    [sender |-> sender, recipient |-> recipient, token |-> token,
     token_decimals |-> decimals, balance |-> 0, rate_per_second |-> rate,
     snapshot_time |-> IF start_time = 0 THEN now ELSE start_time,
     snapshot_debt_scaled |-> 0, is_voided |-> FALSE]

(* The record s with its accounting replaced; its parties and its token    *)
(* never change.                                                            *)
Booked(s, balance, rate, time, debt, voided) ==
    [sender |-> s.sender, recipient |-> s.recipient, token |-> s.token,
     token_decimals |-> s.token_decimals, balance |-> balance,
     rate_per_second |-> rate, snapshot_time |-> time,
     snapshot_debt_scaled |-> debt, is_voided |-> voided]

(* deposit, create_and_deposit and refund touch nothing but the balance. *)
Funded(s, balance) ==
    Booked(s, balance, s.rate_per_second, s.snapshot_time,
           s.snapshot_debt_scaled, s.is_voided)

(* Mutant: the debt since the snapshot is taken in but the time stays. *)
WithdrawnInPlace(s, amount) ==
    LET scaled == scale_amount(amount, s.token_decimals)
    IN  Booked(s, s.balance - amount, s.rate_per_second, s.snapshot_time,
               (IF scaled <= s.snapshot_debt_scaled THEN s.snapshot_debt_scaled
                                                    ELSE total_debt_scaled_of(s, now))
                   - scaled, s.is_voided)

(* Mutant: every withdrawal moves the snapshot time. *)
WithdrawnForgetting(s, amount) ==
    LET scaled == scale_amount(amount, s.token_decimals)
    IN  Booked(s, s.balance - amount, s.rate_per_second, now,
               (IF scaled <= s.snapshot_debt_scaled THEN s.snapshot_debt_scaled
                                                    ELSE total_debt_scaled_of(s, now))
                   - scaled, s.is_voided)

(* internal::withdraw's bookkeeping: a withdrawal that fits in the snapshot *)
(* debt leaves the snapshot time alone.                                     *)
Withdrawn(s, amount) ==
    LET scaled == scale_amount(amount, s.token_decimals)
    IN  IF scaled <= s.snapshot_debt_scaled
        THEN Booked(s, s.balance - amount, s.rate_per_second, s.snapshot_time,
                    s.snapshot_debt_scaled - scaled, s.is_voided)
        ELSE Booked(s, s.balance - amount, s.rate_per_second, now,
                    total_debt_scaled_of(s, now) - scaled, s.is_voided)

(* internal::adjust_rate: the debt accrued so far moves into the snapshot. *)
Rerated(s, rate) ==
    IF s.snapshot_time < now
    THEN Booked(s, s.balance, rate, now, total_debt_scaled_of(s, now), s.is_voided)
    ELSE Booked(s, s.balance, rate, s.snapshot_time, s.snapshot_debt_scaled,
                s.is_voided)

(* Mutant: nothing is written off. *)
VoidedInDebt(s) == Booked(s, s.balance, 0, now, total_debt_scaled_of(s, now), TRUE)

(* internal::void_stream: the debt the balance does not cover is written off. *)
Voided(s) ==
    Booked(s, s.balance, 0, now,
           IF uncovered_debt_of(s, now) = 0
           THEN total_debt_scaled_of(s, now)
           ELSE scale_amount(s.balance, s.token_decimals),
           TRUE)

-----------------------------------------------------------------------------
Ids == 1..(nextStreamId - 1)

Init ==
    /\ now = Genesis
    /\ streams = [id \in {} |-> 0]
    /\ nextStreamId = 1
    /\ aggregate = [token \in Tokens |-> 0]
    /\ wallet = [token \in Tokens |->
                    [a \in Accounts |-> IF a = Self THEN 0 ELSE Funds]]

(* A ledger closes: its timestamp is later than the one before. *)
Tick ==
    /\ now < MaxTime
    /\ now' = now + 1
    /\ UNCHANGED <<streams, nextStreamId, aggregate, wallet>>

(* Mutant: the sign of the rate is not checked. *)
MayCreateNegative(sender, recipient, token, rate, decimals, start_time) ==
    /\ decimals \in Decimals
    /\ TokenDecimals[token] = decimals
    /\ sender # recipient
    /\ ~(start_time > now /\ rate = 0)

(* The validation of internal::create. *)
MayCreate(sender, recipient, token, rate, decimals, start_time) ==
    /\ decimals \in Decimals
    /\ TokenDecimals[token] = decimals
    /\ sender # recipient
    /\ rate >= 0
    /\ ~(start_time > now /\ rate = 0)

(* Store s under the next id and move the counter on. *)
AddStream(s) ==
    /\ nextStreamId <= MaxStreams
    /\ nextStreamId' = nextStreamId + 1
    /\ streams' = [id \in 1..nextStreamId |->
                      IF id = nextStreamId THEN s ELSE streams[id]]

create(sender, recipient, token, rate, decimals, start_time) ==
    /\ MayCreate(sender, recipient, token, rate, decimals, start_time)
    /\ AddStream(NewStream(sender, recipient, token, rate, decimals, start_time))
    /\ UNCHANGED <<now, aggregate, wallet>>

(* Mutant: what arrives is not compared with what was sent. *)
TakeDepositUnchecked(token, held, funder, amount) ==
    /\ amount > 0
    /\ CanTransfer(wallet, token, funder, amount)
    /\ held + amount <= MaxI128
    /\ aggregate[token] + amount <= MaxI128
    /\ aggregate' = [aggregate EXCEPT ![token] = @ + amount]
    /\ wallet' = Transferred(wallet, token, funder, Self, amount)

(* What internal::deposit requires of the transfer and does to the totals; *)
(* held is the balance of the stream that is credited.                     *)
TakeDeposit(token, held, funder, amount) ==
    /\ amount > 0
    /\ CanTransfer(wallet, token, funder, amount)
    /\ ExactTransfer(wallet, token, funder, Self, amount)
    /\ held + amount <= MaxI128
    /\ aggregate[token] + amount <= MaxI128
    /\ aggregate' = [aggregate EXCEPT ![token] = @ + amount]
    /\ wallet' = Transferred(wallet, token, funder, Self, amount)

create_and_deposit(sender, recipient, token, rate, decimals, start_time, amount) ==
    /\ MayCreate(sender, recipient, token, rate, decimals, start_time)
    /\ TakeDeposit(token, 0, sender, amount)
    /\ AddStream(Funded(NewStream(sender, recipient, token, rate, decimals, start_time),
                        amount))
    /\ UNCHANGED now

deposit(id, funder, amount) ==
    /\ id \in Ids
    /\ ~streams[id].is_voided
    /\ TakeDeposit(streams[id].token, streams[id].balance, funder, amount)
    /\ streams' = [streams EXCEPT ![id] = Funded(@, @.balance + amount)]
    /\ UNCHANGED <<now, nextStreamId>>

(* Mutant: the aggregate is forgotten. *)
PayOutUncounted(token, to, amount) ==
    /\ CanTransfer(wallet, token, Self, amount)
    /\ aggregate' = aggregate
    /\ wallet' = Transferred(wallet, token, Self, to, amount)

(* The tail withdraw and refund share: the totals go down and the contract *)
(* pays amount to an account.                                              *)
PayOut(token, to, amount) ==
    /\ CanTransfer(wallet, token, Self, amount)
    /\ aggregate' = [aggregate EXCEPT ![token] = @ - amount]
    /\ wallet' = Transferred(wallet, token, Self, to, amount)

withdraw(id, caller, to, amount) ==
    /\ id \in Ids
    /\ amount > 0
    /\ caller = streams[id].recipient
    /\ DebtFits(streams[id], now)
    /\ amount <= covered_debt_of(streams[id], now)
    /\ streams' = [streams EXCEPT ![id] = Withdrawn(@, amount)]
    /\ PayOut(streams[id].token, to, amount)
    /\ UNCHANGED <<now, nextStreamId>>

(* withdraw_max answers 0 and changes nothing when nothing is covered. *)
withdraw_max(id, caller, to) ==
    /\ id \in Ids
    /\ withdraw(id, caller, to, covered_debt_of(streams[id], now))

(* internal::adjust_rate, which pause and restart end in: the event needs  *)
(* the total debt of the new record, so that has to fit too.               *)
ChangeRate(id, rate) ==
    /\ rate # streams[id].rate_per_second
    /\ DebtFits(streams[id], now)
    /\ DebtFits(Rerated(streams[id], rate), now)
    /\ streams' = [streams EXCEPT ![id] = Rerated(@, rate)]
    /\ UNCHANGED <<now, nextStreamId, aggregate, wallet>>

(* Mutant: a stream may be paused before it starts. *)
pause_early(id, sender) ==
    /\ id \in Ids
    /\ sender = streams[id].sender
    /\ ~streams[id].is_voided
    /\ streams[id].rate_per_second # 0
    /\ ChangeRate(id, 0)

pause(id, sender) ==
    /\ id \in Ids
    /\ sender = streams[id].sender
    /\ ~streams[id].is_voided
    /\ streams[id].rate_per_second # 0
    /\ streams[id].snapshot_time <= now
    /\ ChangeRate(id, 0)

(* Mutant: a voided stream may be restarted. *)
restart_voided(id, sender, rate) ==
    /\ id \in Ids
    /\ sender = streams[id].sender
    /\ streams[id].rate_per_second = 0
    /\ rate > 0
    /\ ChangeRate(id, rate)

restart(id, sender, rate) ==
    /\ id \in Ids
    /\ sender = streams[id].sender
    /\ streams[id].rate_per_second = 0
    /\ ~streams[id].is_voided
    /\ rate > 0
    /\ ChangeRate(id, rate)

adjust_rate(id, sender, rate) ==
    /\ id \in Ids
    /\ sender = streams[id].sender
    /\ ~streams[id].is_voided
    /\ streams[id].rate_per_second # 0
    /\ rate > 0
    /\ ChangeRate(id, rate)

refund(id, sender, amount) ==
    /\ id \in Ids
    /\ sender = streams[id].sender
    /\ amount > 0
    /\ DebtFits(streams[id], now)
    /\ amount <= refundable_amount_of(streams[id], now)
    /\ streams' = [streams EXCEPT ![id] = Funded(@, @.balance - amount)]
    /\ PayOut(streams[id].token, sender, amount)
    /\ UNCHANGED <<now, nextStreamId>>

(* refund_max answers 0 and changes nothing when nothing is refundable. *)
refund_max(id, sender) ==
    /\ id \in Ids
    /\ refund(id, sender, refundable_amount_of(streams[id], now))

void_stream(id, caller) ==
    /\ id \in Ids
    /\ ~streams[id].is_voided
    /\ caller \in {streams[id].sender, streams[id].recipient}
    /\ DebtFits(streams[id], now)
    /\ streams' = [streams EXCEPT ![id] = Voided(@)]
    /\ UNCHANGED <<now, nextStreamId, aggregate, wallet>>

-----------------------------------------------------------------------------
(* The contract never calls itself, so it is never the funder of a deposit *)
(* nor any other authorizing caller.                                       *)
Callers == Accounts \ {Self}

Create ==
    \E sender \in Callers, recipient \in Accounts, token \in Tokens, rate \in Rates,
       decimals \in {TokenDecimals[t] : t \in Tokens}, start_time \in 0..MaxTime :
        \/ create(sender, recipient, token, rate, decimals, start_time)
        \/ \E amount \in Amounts :
             create_and_deposit(sender, recipient, token, rate, decimals,
                                start_time, amount)

Deposit ==
    \E id \in 1..MaxStreams, funder \in Callers, amount \in Amounts :
        deposit(id, funder, amount)

Withdraw ==
    \E id \in 1..MaxStreams, caller \in Callers, to \in Accounts :
        \/ \E amount \in Amounts : withdraw(id, caller, to, amount)
        \/ withdraw_max(id, caller, to)

AdjustRate ==
    \E id \in 1..MaxStreams, sender \in Callers :
        \/ pause(id, sender)
        \/ \E rate \in Rates : restart(id, sender, rate) \/ adjust_rate(id, sender, rate)

Refund ==
    \E id \in 1..MaxStreams, sender \in Callers :
        \/ \E amount \in Amounts : refund(id, sender, amount)
        \/ refund_max(id, sender)

Void == \E id \in 1..MaxStreams, caller \in Callers : void_stream(id, caller)

Next == Tick \/ Create \/ Deposit \/ Withdraw \/ AdjustRate \/ Refund \/ Void

Spec == Init /\ [][Next]_vars

-----------------------------------------------------------------------------
(* Properties *)

(* Every record is one the contract can have stored, and amounts, rates and *)
(* debts stay within an i128 and are never negative (FlowStream, types.rs). *)
TypeOK ==
    /\ now \in Nat
    /\ nextStreamId \in 1..(MaxStreams + 1)
    /\ streams \in [Ids -> FlowStream]
    /\ aggregate \in [Tokens -> 0..MaxI128]
    /\ wallet \in Wallets

(* What each stream holds of a token. *)
Held(token) ==
    [id \in Ids |-> IF streams[id].token = token THEN streams[id].balance ELSE 0]

(* The stored AggregateBalance of a token is the sum of the balances of its *)
(* streams, whichever operations of whichever streams moved it.             *)
AggregateIsSum ==
    \A token \in Tokens : aggregate[token] = Total(Held(token), nextStreamId - 1)

(* The contract holds at least the aggregate, so a payout that the stream's *)
(* accounting allows never fails for lack of tokens; a token that withholds *)
(* a fee never gets into the books.                                         *)
ContractSolvent == \A token \in Tokens : wallet[token][Self] >= aggregate[token]

(* A stream that has not started (status Pending) owes nothing yet, has a   *)
(* rate and is not voided: pause, adjust_rate and void leave no stream      *)
(* whose start is still ahead in any other condition.                       *)
PendingIsClean ==
    \A id \in Ids :
        status_of(streams[id], now) = "Pending" =>
            /\ streams[id].snapshot_debt_scaled = 0
            /\ streams[id].rate_per_second > 0
            /\ ~streams[id].is_voided

(* "Uncovered debt written off": a voided stream owes no more than it holds, *)
(* also after later withdrawals and refunds.                                 *)
VoidedIsCovered ==
    \A id \in Ids :
        streams[id].is_voided =>
            /\ uncovered_debt_of(streams[id], now) = 0
            /\ streams[id].rate_per_second = 0

(* depletion_time_of answers the first second at which the stream is        *)
(* insolvent if nothing else happens to it, and 0 when it already is.       *)
DepletionIsExact ==
    \A id \in Ids :
        LET s == streams[id]
            T == depletion_time_of(s, now)
        IN  DepletionAnswers(s, now) =>
                IF T = 0 THEN uncovered_debt_of(s, now) > 0
                ELSE /\ uncovered_debt_of(s, T) > 0
                     /\ uncovered_debt_of(s, T - 1) = 0

(* What the recipient could withdraw is never taken back: only his own      *)
(* withdrawals lower the covered debt, and by exactly what he withdraws;    *)
(* refund, pause, adjust_rate, restart, void_stream, deposits and the       *)
(* passing of time never do.                                                *)
EntitlementKept ==
    [][\A id \in Ids :
          LET before == covered_debt_of(streams[id], now)
              after == covered_debt_of(streams'[id], now')
              paid == streams[id].balance - streams'[id].balance
          IN  after < before => (Withdraw /\ after = before - paid)]_vars

(* Only time makes a stream owe more than it holds, and only a deposit or   *)
(* the write-off of void_stream makes it owe less than that again: no order *)
(* of withdrawals, refunds and rate changes moves the uncovered debt.       *)
UncoveredDebtMoves ==
    [][\A id \in Ids :
          LET before == uncovered_debt_of(streams[id], now)
              after == uncovered_debt_of(streams'[id], now')
          IN  /\ after > before => now' > now
              /\ after < before => (Deposit \/ streams'[id].is_voided)]_vars

(* void_stream is irreversible: a voided stream stays voided with the same  *)
(* parties, takes no deposit, and owes what it owed less what withdrawals   *)
(* have paid since.                                                         *)
VoidedForGood ==
    [][\A id \in Ids :
          LET s == streams[id]
              n == streams'[id]
              paid == s.balance - n.balance
          IN  s.is_voided =>
                /\ n.is_voided
                /\ n.sender = s.sender /\ n.recipient = s.recipient
                /\ paid >= 0
                /\ \/ total_debt_of(n, now') = total_debt_of(s, now)
                   \/ /\ Withdraw
                      /\ total_debt_of(n, now') = total_debt_of(s, now) - paid]_vars

(* "Either party can permanently void the stream" (lib.rs:8): as long as it *)
(* is not voided, both of them can.                                         *)
EitherPartyCanVoid ==
    \A id \in Ids :
        ~streams[id].is_voided =>
            \A party \in {streams[id].sender, streams[id].recipient} :
                ENABLED void_stream(id, party)

(* The lazily kept debt implements a debt that grows every second.  The     *)
(* promise is stated in FlowPromise: the agreement that the record s is at  *)
(* time t, and those of all streams.                                        *)
AgreementOf(s, t) ==
    [unit  |-> ScaleFactor[s.token_decimals],
     rate  |-> s.rate_per_second,
     wait  |-> IF s.snapshot_time > t THEN s.snapshot_time - t ELSE 0,
     debt  |-> total_debt_scaled_of(s, t),
     funds |-> s.balance,
     open  |-> ~s.is_voided]

Agreements == [id \in Ids |-> AgreementOf(streams[id], now)]

Promise == INSTANCE FlowPromise WITH agreements <- Agreements

ImplementsPromise == Promise!Spec
=============================================================================
