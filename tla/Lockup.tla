------------------------------- MODULE Lockup -------------------------------
(***************************************************************************)
(* The Lockup contract: fixed-term streams, funded in full when they are   *)
(* created, that vest linearly in steps from a cliff (or the start) to the *)
(* end and that their sender may cancel (contracts/lockup).                *)
(*                                                                         *)
(* A contract invocation is one atomic action; one that panics leaves the  *)
(* state unchanged and is a disabled action here.                          *)
(***************************************************************************)
EXTENDS Token, Totals

CONSTANTS
    Self,          \* the contract's own address
    MaxI128,       \* the largest i128
    Genesis,       \* the ledger timestamp when the contract is deployed
    Funds,         \* what each account holds of each token at the start
    Requests,      \* the CreateLockupParams callers pass (bound on inputs)
    Amounts,       \* the amounts callers ask for         (bound on inputs)
    MaxTime,       \* the last ledger timestamp           (bound on time)
    MaxStreams     \* how many streams are created        (bound on ids)

CreateLockupParams ==
    [sender: Accounts \ {Self}, recipient: Accounts, token: Tokens,
     total_amount: -MaxI128..MaxI128, start_time: Nat, end_time: Nat,
     cliff_time: Nat, start_unlock_amount: -MaxI128..MaxI128,
     cliff_unlock_amount: -MaxI128..MaxI128, granularity: Nat,
     cancelable: BOOLEAN]

ASSUME LockupAssumption ==
    /\ Self \in Accounts
    /\ MaxI128 \in Nat
    /\ Genesis \in Nat
    /\ Funds \in Nat
    /\ \A p \in Requests : p \in CreateLockupParams
    /\ Amounts \subseteq -MaxI128..MaxI128
    /\ MaxTime \in Nat
    /\ MaxStreams \in Nat

VARIABLES
    now,           \* env.ledger().timestamp()
    streams,       \* DataKey::LockupStream(id), for the ids handed out so far
    nextStreamId,  \* DataKey::NextStreamId
    aggregate,     \* DataKey::AggregateBalance(token)
    wallet         \* the token contracts' balances

vars == <<now, streams, nextStreamId, aggregate, wallet>>

-----------------------------------------------------------------------------
(* Records and vesting *)

LockupStream ==
    [sender: Accounts, recipient: Accounts, token: Tokens,
     total_amount: 1..MaxI128, withdrawn_amount: 0..MaxI128,
     refunded_amount: 0..MaxI128, start_time: Nat, end_time: Nat,
     cliff_time: Nat, start_unlock_amount: 0..MaxI128,
     cliff_unlock_amount: 0..MaxI128, granularity: Nat \ {0},
     cancelable: BOOLEAN, was_canceled: BOOLEAN, is_depleted: BOOLEAN]

(* v.max(0).min(total_amount) *)
Clamped(s, v) ==
    IF v < 0 THEN 0 ELSE IF v > s.total_amount THEN s.total_amount ELSE v

UnlockSum(s) == s.start_unlock_amount + s.cliff_unlock_amount

(* From where the linear part of the schedule is counted. *)
reference_time(s) == IF s.cliff_time > 0 THEN s.cliff_time ELSE s.start_time

(* The elapsed time in whole steps of the granularity. *)
discrete_elapsed(s, t) ==
    ((t - reference_time(s)) \div s.granularity) * s.granularity

(* Between the cliff and the end.  A product beyond an i128 counts as fully *)
(* vested.                                                                  *)
VestedLinearly(s, t) ==
    LET product == discrete_elapsed(s, t) * (s.total_amount - UnlockSum(s))
    IN  IF UnlockSum(s) >= s.total_amount \/ product > MaxI128
        THEN s.total_amount
        ELSE Clamped(s, UnlockSum(s) + product \div (s.end_time - reference_time(s)))

(* Mutant: at the end the steps are counted instead of the whole amount. *)
VestedInSteps(s, t) ==
    IF t < s.start_time THEN 0
    ELSE IF t < s.cliff_time THEN Clamped(s, s.start_unlock_amount)
    ELSE VestedLinearly(s, IF t < s.end_time THEN t ELSE s.end_time)

(* What the schedule alone has unlocked at t. *)
Vested(s, t) ==
    IF t < s.start_time THEN 0
    ELSE IF t >= s.end_time THEN s.total_amount
    ELSE IF t < s.cliff_time THEN Clamped(s, s.start_unlock_amount)
    ELSE VestedLinearly(s, t)

streamed_amount_of(s, t) ==
    IF s.is_depleted THEN Clamped(s, s.withdrawn_amount)
    ELSE IF s.was_canceled THEN Clamped(s, s.total_amount - s.refunded_amount)
    ELSE Vested(s, t)

(* Mutant: what was withdrawn before is not subtracted. *)
WithdrawableAgain(s, t) == streamed_amount_of(s, t)

withdrawable_amount_of(s, t) ==
    IF streamed_amount_of(s, t) > s.withdrawn_amount
    THEN streamed_amount_of(s, t) - s.withdrawn_amount
    ELSE 0

(* lib.rs: is_cancelable *)
is_cancelable(s) == s.cancelable /\ ~s.is_depleted /\ ~s.was_canceled

(* Mutant: vested tokens that are still there count as the sender's. *)
RefundableLeft(s, t) ==
    IF is_cancelable(s) THEN s.total_amount - s.withdrawn_amount ELSE 0

refundable_amount_of(s, t) ==
    IF is_cancelable(s) THEN s.total_amount - streamed_amount_of(s, t) ELSE 0

(* Mutant: a recipient who is up to date settles the stream. *)
StatusByWithdrawable(s, t) ==
    IF s.is_depleted THEN "Depleted"
    ELSE IF s.was_canceled THEN "Canceled"
    ELSE IF t < s.start_time THEN "Pending"
    ELSE IF withdrawable_amount_of(s, t) = 0 THEN "Settled"
    ELSE "Streaming"

status_of(s, t) ==
    IF s.is_depleted THEN "Depleted"
    ELSE IF s.was_canceled THEN "Canceled"
    ELSE IF t < s.start_time THEN "Pending"
    ELSE IF streamed_amount_of(s, t) >= s.total_amount THEN "Settled"
    ELSE "Streaming"

is_cold(s, t) == status_of(s, t) \in {"Settled", "Canceled", "Depleted"}

-----------------------------------------------------------------------------
(* What the handlers do to one record *)

NewStream(p) ==
    [sender |-> p.sender, recipient |-> p.recipient, token |-> p.token,
     total_amount |-> p.total_amount, withdrawn_amount |-> 0,
     refunded_amount |-> 0, start_time |-> p.start_time,
     end_time |-> p.end_time, cliff_time |-> p.cliff_time,
     start_unlock_amount |-> p.start_unlock_amount,
     cliff_unlock_amount |-> p.cliff_unlock_amount,
     granularity |-> IF p.granularity = 0 THEN 1 ELSE p.granularity,
     cancelable |-> p.cancelable, was_canceled |-> FALSE, is_depleted |-> FALSE]

(* The record s with its accounting replaced; its parties, its token and   *)
(* its schedule never change.                                              *)
Booked(s, withdrawn, refunded, cancelable, canceled, depleted) ==
    [sender |-> s.sender, recipient |-> s.recipient, token |-> s.token,
     total_amount |-> s.total_amount, withdrawn_amount |-> withdrawn,
     refunded_amount |-> refunded, start_time |-> s.start_time,
     end_time |-> s.end_time, cliff_time |-> s.cliff_time,
     start_unlock_amount |-> s.start_unlock_amount,
     cliff_unlock_amount |-> s.cliff_unlock_amount,
     granularity |-> s.granularity,
     cancelable |-> cancelable, was_canceled |-> canceled, is_depleted |-> depleted]

(* Mutant: what was refunded is expected to be withdrawn as well. *)
WithdrawnIgnoringRefund(s, amount) ==
    LET withdrawn == s.withdrawn_amount + amount
        depleted == withdrawn >= s.total_amount
    IN  Booked(s, withdrawn, s.refunded_amount, s.cancelable /\ ~depleted,
               s.was_canceled, depleted)

(* internal::withdraw: the last of what is left depletes the stream. *)
Withdrawn(s, amount) ==
    LET withdrawn == s.withdrawn_amount + amount
        depleted == withdrawn >= s.total_amount - s.refunded_amount
    IN  Booked(s, withdrawn, s.refunded_amount, s.cancelable /\ ~depleted,
               s.was_canceled, depleted)

(* Mutant: the sender gets all that is left. *)
SenderAmountLeft(s) == s.total_amount - s.withdrawn_amount

(* internal::cancel: what the sender gets back, capped at what is left. *)
SenderAmount(s) ==
    LET unvested == s.total_amount - streamed_amount_of(s, now)
        left == s.total_amount - s.withdrawn_amount
    IN  IF unvested < left THEN unvested ELSE left

RecipientAmount(s) == streamed_amount_of(s, now) - s.withdrawn_amount

Canceled(s) ==
    Booked(s, s.withdrawn_amount, SenderAmount(s), FALSE, TRUE,
           RecipientAmount(s) = 0)

Renounced(s) ==
    Booked(s, s.withdrawn_amount, s.refunded_amount, FALSE, s.was_canceled,
           s.is_depleted)

-----------------------------------------------------------------------------
Ids == 1..(nextStreamId - 1)

Init ==
    /\ now = Genesis
    /\ streams = [id \in {} |-> 0]
    /\ nextStreamId = 1
    /\ aggregate = [token \in Tokens |-> 0]
    /\ wallet = [token \in Tokens |->
                    [a \in Accounts |-> IF a = Self THEN 0 ELSE Funds]]

(* A ledger closes: its timestamp is later than the one before. *)
Tick ==
    /\ now < MaxTime
    /\ now' = now + 1
    /\ UNCHANGED <<streams, nextStreamId, aggregate, wallet>>

(* Mutant: the signs of the unlocks are not checked. *)
MayCreateNegative(p) ==
    /\ p.sender # p.recipient
    /\ p.total_amount > 0
    /\ p.end_time > p.start_time
    /\ p.cliff_time > 0 => (p.start_time < p.cliff_time /\ p.cliff_time < p.end_time)
    /\ p.start_unlock_amount + p.cliff_unlock_amount <= p.total_amount

(* The validation of internal::create. *)
MayCreate(p) ==
    /\ p.sender # p.recipient
    /\ p.total_amount > 0
    /\ p.end_time > p.start_time
    /\ p.cliff_time > 0 => (p.start_time < p.cliff_time /\ p.cliff_time < p.end_time)
    /\ p.start_unlock_amount >= 0
    /\ p.cliff_unlock_amount >= 0
    /\ p.start_unlock_amount + p.cliff_unlock_amount <= p.total_amount

(* Mutant: what arrives is not compared with what was sent. *)
create_unchecked(p) ==
    /\ MayCreate(p)
    /\ nextStreamId <= MaxStreams
    /\ nextStreamId' = nextStreamId + 1
    /\ streams' = [id \in 1..nextStreamId |->
                      IF id = nextStreamId THEN NewStream(p) ELSE streams[id]]
    /\ aggregate' = [aggregate EXCEPT ![p.token] = @ + p.total_amount]
    /\ CanTransfer(wallet, p.token, p.sender, p.total_amount)
    /\ wallet' = Transferred(wallet, p.token, p.sender, Self, p.total_amount)
    /\ UNCHANGED now

(* The token moves the whole amount from the sender, and nothing less. *)
create(p) ==
    /\ MayCreate(p)
    /\ nextStreamId <= MaxStreams
    /\ nextStreamId' = nextStreamId + 1
    /\ streams' = [id \in 1..nextStreamId |->
                      IF id = nextStreamId THEN NewStream(p) ELSE streams[id]]
    /\ aggregate[p.token] + p.total_amount <= MaxI128
    /\ aggregate' = [aggregate EXCEPT ![p.token] = @ + p.total_amount]
    /\ CanTransfer(wallet, p.token, p.sender, p.total_amount)
    /\ ExactTransfer(wallet, p.token, p.sender, Self, p.total_amount)
    /\ wallet' = Transferred(wallet, p.token, p.sender, Self, p.total_amount)
    /\ UNCHANGED now

(* Mutant: the aggregate is forgotten. *)
PayOutUncounted(token, to, amount) ==
    /\ CanTransfer(wallet, token, Self, amount)
    /\ aggregate' = aggregate
    /\ wallet' = Transferred(wallet, token, Self, to, amount)

(* The tail withdraw and cancel share: the aggregate goes down and the     *)
(* contract pays amount to an account.                                     *)
PayOut(token, to, amount) ==
    /\ CanTransfer(wallet, token, Self, amount)
    /\ aggregate' = [aggregate EXCEPT ![token] = @ - amount]
    /\ wallet' = Transferred(wallet, token, Self, to, amount)

(* Mutant: a canceled stream pays nothing any more. *)
withdraw_uncanceled(id, caller, to, amount) ==
    /\ id \in Ids
    /\ amount > 0
    /\ caller = streams[id].recipient
    /\ ~streams[id].is_depleted
    /\ ~streams[id].was_canceled
    /\ amount <= withdrawable_amount_of(streams[id], now)
    /\ streams' = [streams EXCEPT ![id] = Withdrawn(@, amount)]
    /\ PayOut(streams[id].token, to, amount)
    /\ UNCHANGED <<now, nextStreamId>>

withdraw(id, caller, to, amount) ==
    /\ id \in Ids
    /\ amount > 0
    /\ caller = streams[id].recipient
    /\ ~streams[id].is_depleted
    /\ amount <= withdrawable_amount_of(streams[id], now)
    /\ streams' = [streams EXCEPT ![id] = Withdrawn(@, amount)]
    /\ PayOut(streams[id].token, to, amount)
    /\ UNCHANGED <<now, nextStreamId>>

(* withdraw_max answers 0 and changes nothing when nothing is vested. *)
withdraw_max(id, caller, to) ==
    /\ id \in Ids
    /\ withdraw(id, caller, to, withdrawable_amount_of(streams[id], now))

(* Mutant: the sender's right to cancel is not asked for. *)
cancel_renounced(id, sender) ==
    /\ id \in Ids
    /\ sender = streams[id].sender
    /\ ~streams[id].is_depleted
    /\ ~streams[id].was_canceled
    /\ RecipientAmount(streams[id]) >= 0
    /\ streams' = [streams EXCEPT ![id] = Canceled(@)]
    /\ PayOut(streams[id].token, sender, SenderAmount(streams[id]))
    /\ UNCHANGED <<now, nextStreamId>>

cancel(id, sender) ==
    /\ id \in Ids
    /\ sender = streams[id].sender
    /\ is_cancelable(streams[id])
    /\ RecipientAmount(streams[id]) >= 0
    /\ streams' = [streams EXCEPT ![id] = Canceled(@)]
    /\ PayOut(streams[id].token, sender, SenderAmount(streams[id]))
    /\ UNCHANGED <<now, nextStreamId>>

renounce(id, sender) ==
    /\ id \in Ids
    /\ sender = streams[id].sender
    /\ is_cancelable(streams[id])
    /\ streams' = [streams EXCEPT ![id] = Renounced(@)]
    /\ UNCHANGED <<now, nextStreamId, aggregate, wallet>>

-----------------------------------------------------------------------------
(* The contract never calls itself. *)
Callers == Accounts \ {Self}

Create == \E p \in Requests : create(p)

Withdraw ==
    \E id \in 1..MaxStreams, caller \in Callers, to \in Accounts :
        \/ \E amount \in Amounts : withdraw(id, caller, to, amount)
        \/ withdraw_max(id, caller, to)

Cancel == \E id \in 1..MaxStreams, sender \in Callers : cancel(id, sender)

Renounce == \E id \in 1..MaxStreams, sender \in Callers : renounce(id, sender)

Next == Tick \/ Create \/ Withdraw \/ Cancel \/ Renounce

Spec == Init /\ [][Next]_vars

(* Ledgers keep closing; nothing is assumed of the parties. *)
TimePasses == WF_vars(Tick)

(* A recipient who may call keeps asking for what has vested. *)
RecipientAsks ==
    \A id \in 1..MaxStreams :
        WF_vars(\E caller \in Callers : withdraw_max(id, caller, caller))

LiveSpec == Spec /\ TimePasses /\ RecipientAsks

-----------------------------------------------------------------------------
(* Properties *)

(* Every record is one the contract can have stored, and no amount is       *)
(* negative or beyond an i128 (LockupStream, types.rs).                     *)
TypeOK ==
    /\ now \in Nat
    /\ nextStreamId \in 1..(MaxStreams + 1)
    /\ streams \in [Ids -> LockupStream]
    /\ aggregate \in [Tokens -> 0..MaxI128]
    /\ wallet \in Wallets

(* What a stream still holds of its deposit. *)
Remaining(s) == s.total_amount - s.withdrawn_amount - s.refunded_amount

Held(token) ==
    [id \in Ids |-> IF streams[id].token = token THEN Remaining(streams[id]) ELSE 0]

(* The stored AggregateBalance of a token is what its streams have left     *)
(* together, whichever operations moved it.                                 *)
AggregateIsSum ==
    \A token \in Tokens : aggregate[token] = Total(Held(token), nextStreamId - 1)

(* The contract holds at least the aggregate: no stream is ever paid from   *)
(* the deposit of another.                                                  *)
ContractSolvent == \A token \in Tokens : wallet[token][Self] >= aggregate[token]

(* The security invariants of internal.rs: what the recipient has taken is  *)
(* vested, what is vested is not refunded, and no tokens are left exactly   *)
(* when the stream says that it is depleted.                                *)
NeverOverdrawn ==
    \A id \in Ids :
        LET s == streams[id]
            vested == streamed_amount_of(s, now)
        IN  /\ s.withdrawn_amount <= vested
            /\ vested <= s.total_amount - s.refunded_amount
            /\ s.is_depleted <=> Remaining(s) = 0

(* refundable_amount_of announces what cancel would pay the sender.         *)
RefundAnnounced ==
    \A id \in Ids :
        is_cancelable(streams[id]) =>
            SenderAmount(streams[id]) = refundable_amount_of(streams[id], now)

(* What has vested stays vested: no operation, cancel and the last          *)
(* withdrawal included, and no passing of time lowers the streamed amount.  *)
VestedIsKept ==
    [][\A id \in Ids :
          streamed_amount_of(streams'[id], now') >= streamed_amount_of(streams[id], now)]_vars

(* The temperature of a status (types.rs:105-107): time alone never changes *)
(* a cold status, nothing makes a cold stream warm, and Depleted is final.  *)
ColdStaysCold ==
    [][\A id \in Ids :
          LET before == status_of(streams[id], now)
              after == status_of(streams'[id], now')
          IN  /\ is_cold(streams[id], now) => is_cold(streams'[id], now')
              /\ (is_cold(streams[id], now) /\ Tick) => after = before
              /\ before = "Depleted" => after = before]_vars

(* Renouncing is permanent, and a stream that was created without the right *)
(* to cancel never gets it: its sender is never refunded anything.          *)
RenouncedForGood ==
    [][\A id \in Ids :
          ~is_cancelable(streams[id]) =>
              /\ ~is_cancelable(streams'[id])
              /\ streams'[id].refunded_amount = streams[id].refunded_amount]_vars

(* Every stream becomes cold by the passing of time alone. *)
EventuallyCold ==
    \A id \in 1..MaxStreams : (id \in Ids) ~> (id \in Ids /\ is_cold(streams[id], now))

(* A recipient who keeps asking is paid all that was not refunded: no order *)
(* of cancel, renounce and partial withdrawals leaves tokens stuck.         *)
EventuallyPaid ==
    \A id \in 1..MaxStreams :
        (id \in Ids /\ streams[id].recipient # Self)
            ~> (id \in Ids /\ streams[id].is_depleted)

(* A lockup implements an escrow whose vested part only grows: the escrow   *)
(* that the record s is at time t, and those of all streams.                *)
EscrowOf(s, t) ==
    [left    |-> Remaining(s),
     vested  |-> streamed_amount_of(s, t) - s.withdrawn_amount,
     returns |-> is_cancelable(s)]

Escrows == [id \in Ids |-> EscrowOf(streams[id], now)]

Promise == INSTANCE LockupPromise WITH escrows <- Escrows

ImplementsPromise == Promise!Spec
=============================================================================
