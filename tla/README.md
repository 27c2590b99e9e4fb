# Fundable Soroban contracts: TLA+ models, model checking and proofs

This directory describes the payment contracts of this repository in TLA+, model-checks them with
TLC on small instances and proves the most important results for instances of any size with TLAPS.
Every definition follows the Rust source; `PROJECT.json` ("map") names the lines each one stands
for. Paths below are relative to the repository.

- [1. The system](#1-the-system)
- [2. The modules and the code](#2-the-modules-and-the-code)
- [3. The runs](#3-the-runs)
- [4. Fairness](#4-fairness)
- [5. The proofs](#5-the-proofs)
- [6. Where code and documentation disagree](#6-where-code-and-documentation-disagree)
- [7. What is not modelled](#7-what-is-not-modelled)
- [8. Plan](#8-plan)

## 1. The system

Seven contracts on a Soroban ledger, and the token contracts they move money in. All are written in
Rust and built with `overflow-checks = true` (`Cargo.toml:21`), so that arithmetic which leaves its
type panics. An invocation is atomic: the host rolls back everything a panicking one did, and it
does not re-enter a contract. The concurrency of the system is therefore the order of invocations
by mutually distrustful accounts and the ledger time that passes between them. Nothing but that
time happens by itself: every payment needs somebody to call.

| Component | State it keeps | Operations |
| --- | --- | --- |
| **Flow** (`contracts/flow`) | one `FlowStream` per id (parties, token, balance, rate, snapshot of debt and its time, voided), `NextStreamId`, `AggregateBalance(token)` | `create`, `create_and_deposit`, `deposit`, `withdraw`, `withdraw_max`, `pause`, `restart`, `adjust_rate`, `refund`, `refund_max`, `void_stream`; queries of debt, status, solvency and depletion |
| **Lockup** (`contracts/lockup`) | one `LockupStream` per id (parties, token, deposit, schedule, withdrawn, refunded, canceled, depleted), `NextStreamId`, `AggregateBalance(token)` | `create`, `withdraw`, `withdraw_max`, `cancel`, `renounce`; queries of vesting, status and temperature |
| **Distributor** (`contracts/distributor`) | one `DistributionRecord` per id, `Claimed(id, account)`, fee percentage and address, `Admin` | `create_distribution`, `claim`, `cancel_distribution`, the fee setters |
| **Merkle proofs** (`distributor/src/merkle.rs`) | none | `compute_leaf`, `hash_pair`, `verify_proof` |
| **Governance** (in Flow, Lockup, Distributor and Router, each on storage of its own) | `Admin`, `PendingAdmin`, `ProposedUpgrade(hash)`, one `UpgradeUnlockLedger`, the installed wasm | `initialize`, `propose_upgrade`, `execute_upgrade`, `upgrade`, `propose_admin`, `accept_admin`, `set_admin` |
| **Router** (`contracts/router`) | addresses of Flow, Lockup and the NFT, the next token id | `create_flow_stream`, `create_lockup_stream`, `withdraw`, `withdraw_max`, `upgrade_nft` |
| **Stream NFT** (`contracts/stream-nft`) | owner and stream (type and id) by token id, balance counter by owner, admin (the Router) | `initialize`, `mint`, `burn`, `transfer`, `upgrade` |
| **Paymaster** (`contracts/paymaster`) | admin, allowed fee tokens | `initialize`, `forward`, `collect_fee_and_invoke`, `add_fee_token`, `remove_fee_token`, `sweep`, `upgrade` |
| **Shared** (`packages/shared`) | none | scaling between token decimals and 18 decimals, the records and storage keys |

**Interactions.** Flow, Lockup and the Distributor call only token contracts. Flow and Lockup
compare their own balance before and after a deposit and book what arrived; the Distributor books
what was asked for. The Router creates a stream whose on-chain recipient is the Router itself, mints
an NFT for it, and pays withdrawals to whoever owns the NFT at that moment, so it depends on the
state of three contracts in one invocation. The Paymaster forwards calls through an external fee
abstraction library. All streams and distributions of a token share one balance of the contract
that holds them.

**What makes them correct**, and hard:

- *Flow.* The debt of a stream is never stored: it is a snapshot plus the time since it times the rate,
  scaled to 18 decimals and rounded down when it is paid. Each handler either folds the elapsed
  part into the snapshot or moves the snapshot time, and a wrong pairing pays seconds twice or not at
  all. What the recipient may withdraw must survive refunds, rate changes, pauses and the end of the
  stream; a voided stream must owe no more than it holds; a start in the future must neither create debt
  nor be lost. The aggregate is updated apart from the balances it sums.
- *Lockup.* The vested amount is recomputed from a schedule (start, cliff, two unlocks, steps) and
  frozen by `cancel` and by the last withdrawal. It must never fall, withdrawn and refunded
  amounts must add up, nothing may remain stuck, and a cold status must stay cold.
- *Distributor.* Anybody may present any proof, a tree may allot more than the deposit, and
  distributions share a balance. Nobody takes more than one allotment of his own, and no
  distribution is paid from another's deposit.
- *Governance.* All proposals share one clock. A hash must still wait for its own timelock, whatever
  other proposals, executions and changes of the admin happen in between.
- *Router and NFT.* The right to withdraw must follow the owner of the NFT at once and wholly, each
  NFT must stand for a stream of its own although three contracts count their ids apart, and a
  holder must be able to get the money, since nobody but the Router can withdraw it.
- *Paymaster.* A relayer chooses when it submits a signed call, how often, and with what fee. The user pays
  once, at most what he signed and no later than he signed.

The hazards behind these, each at its line with the properties that would notice it going wrong, are
listed in `PROJECT.json` ("hazards").

## 2. The modules and the code

| Module | Models | Extends / instantiates |
| --- | --- | --- |
| `Token` | external: balances and `transfer` of SEP-41 tokens | |
| `Totals` | sums: of the first entries of a function, and of its values on a finite set | |
| `Flow` | `contracts/flow/src/{lib,internal,queries,types}.rs`, `packages/shared/src/math.rs` | `Token`, `Totals`; `FlowPromise` |
| `FlowPromise` | abstract: debt that grows every second | |
| `Lockup` | `contracts/lockup/src/{lib,internal,queries,types}.rs` | `Token`, `Totals`; `LockupPromise` |
| `LockupPromise` | abstract: an escrow whose vested part only grows | |
| `Governance` | the admin and upgrade handlers | |
| `Merkle` | `contracts/distributor/src/merkle.rs` | |
| `Distributor` | `contracts/distributor/src/lib.rs` | `Token`, `Totals`, `Merkle` |
| `StreamNFT` | `contracts/stream-nft/src/lib.rs` | |
| `Router` | `contracts/router/src/lib.rs` and the contracts behind it | `StreamNFT`; instances `F` of `Flow` and `L` of `Lockup` |
| `Paymaster` | `contracts/paymaster/src/lib.rs` | `Token`, `Totals` |
| `MCFlow`, `MCLockup`, `MCDistributor`, `MCRouter`, `MCPaymaster` | instances for TLC | the module of that name |
| `FlowProofs`, `LockupProofs`, `GovernanceProofs`, `DistributorProofs`, `StreamNFTProofs`, `PaymasterProofs` | theorems and proofs | the module of that name; `LedgerProofs` where there is money |
| `LedgerProofs` | the laws of `Token` and `Totals` | `Token`, `Totals` |
| `RouterProofs` | theorems and proofs of the composition | `Router`, `StreamNFTProofs`; instances `FP` of `FlowProofs` and `LP` of `LockupProofs` |

**Conventions.**

- A contract entry point is an operator with the entry point's name. Its guards are the panics and
  early returns in their order, its primed variables the storage writes and the token
  transfers together, because an invocation is one atomic step. An invocation that panics changes
  nothing and is simply not a step. A check that another check makes redundant is written once, with
  a comment.
- `require_auth` of an address is the `caller` (or `sender`, `funder`, ...) parameter of the action.
  The contracts never invoke themselves, so callers range over all accounts but `Self`. Destinations
  range over all accounts, `Self` included where the code does not refuse it.
- Ledger time is the variable `now` (or `sequence`), moved only by `Tick` (or `Close`).
- An i128 is an integer with the bound `MaxI128` at every place where the code computes a sum or
  product that could leave it (`checked_mul`, `checked_add`, or the panic of overflow checks). A
  bound that follows from another is left out with a comment. `MaxU64` bounds the casts to u64 and
  `MaxU32` the ledger arithmetic. The instances choose them small, so that overflow really happens.
- Powers of ten are the constant function `ScaleFactor` (Flow), so that an instance can use a factor of 2
  instead of 10^11 and still have rounding. The proofs hold for any positive factors.
- Operators preceded by a comment "Mutant: ..." are plausible bugs. No action uses them; each shows for one property
  that the property notices such a bug, when it takes the place of the definition named in
  `PROJECT.json` ("mutants").

**Token.** `wallet[token][account]` is the balance, `Transferred` moves an amount and withholds the
constant `TransferFee[token]` (0 for ordinary tokens) from what arrives. It stands for contracts
outside this repository and is marked external in the map. What it keeps is what the contracts use:
a transfer fails without funds, and fewer tokens may arrive than were sent.

**Flow.** `streams[id]` is the persistent `FlowStream(id)`; ids are handed out from 1 and never
reused, so `Ids` is `1..nextStreamId - 1`. `Withdrawn` has both branches of the withdrawal: paying
out of the snapshot alone, or folding everything into a new snapshot. `Booked`, `Rerated`, `Voided` are what
the handlers of `internal.rs` make of a record; `TakeDeposit` and `PayOut` are the two places where
money, stream balance and aggregate move together. `MaxStreams` and `MaxTime` bound ids and time;
`Amounts`, `Rates` and `Funds` bound inputs.

**FlowPromise** knows no snapshots, ids or totals: an agreement has a debt that grows by its rate every
second, funds, a wait before it starts, and is open until voided. `Flow!ImplementsPromise` maps a stream to it: `wait`
is what is left until a future snapshot time, `debt` is the total scaled debt now.
That the lazy bookkeeping implements this is the central statement on Flow: no order of operations
pays a second twice or forgets one, dust included.

**Lockup.** `create` takes a request record, which `validate` accepts or refuses as the code does.
`streamed_amount_of` is the vested amount with the cliff, steps of `granularity` seconds, the two
unlocks, the freezing by `canceled` and `depleted`, and the fallback to the full amount when the
product of elapsed time and amount overflows. `status_of` asks in the code's order. `LockupPromise` is
the escrow it implements: the vested part grows or is paid, the rest returns to the sender at most
once and as a whole.

**Governance.** Follows Flow's `lib.rs`; the other contracts repeat the same handlers. What an upgrade installs may
be any code: the model goes on as if it kept these handlers, which is what
the timelock can promise at all. `proposedAt`, `executedAt` and `nominee` are history variables that no guard reads.

**Merkle** treats the hash as ideal: a leaf is a record of its fields, a node is the
*set* of its two children, which is what sorting the pair before hashing amounts to. **Distributor** composes it
with the records; a claimant may present any sequence of hashes of any tree as proof. `MayClaim` is what `claim` asks of the claimant and
his proof, `CanPay` what it needs to pay him: the fee's product in an i128, an address for the fee, and the tokens. `taken` is a history variable.

**StreamNFT.** `owner` and `streamData` are the two persistent entries of a token; their common domain is `Minted`.
`balance` is the counter, 0 where there is no entry. `Moved` reads the counter of the receiver after
that of the sender is written, as `transfer` does. The module has a specification of its own, `NftSpec`, in
which any account may be the admin and burns; the proofs use it. Nothing in this repository calls
`burn` (its comment, `lib.rs:109`, says "e.g. when stream is depleted or voided"), so it never happens in the composition.

**Router** puts the storage of Router, NFT, Flow and Lockup beside one wallet. `F` and `L` are the modules above with
their variables substituted, so that `create_flow_stream` is the conjunction of `F!create` with the Router as
recipient, `mint` by the Router, and the Router's own counter: one atomic step, which does not happen if either callee panics.
`withdraw` asks the NFT for the owner and passes the Router on as the caller, for the contract of the token's type. The
users also call Flow, Lockup and the NFT directly (`CallFlow`, `CallLockup`, `TransferNft`), every operation of Flow and Lockup
included: on streams of their own, also to the Router's address, which then have no token, and on routed ones.
`signer` is a history variable, who authorized the last withdrawal by NFT or transfer of one. Bounds on inputs are
`Senders` (who pays for streams), `Payees` (whom a stream, a withdrawal or a transfer of a token may name), `Rates`, `Starts`,
`Requests` and `Amounts`; the proofs hold for any. The upgrade and admin handlers of the contracts are `Governance`'s and not part of the
composition, whose properties are about the code of this repository. That the NFT's admin is the Router is the deployment of
`Deploy`: another admin could mint tokens that name anything.

**Paymaster.** `signed` holds the calls users have signed and `quotes` the nonces that were used, with the fee that was
quoted. What is signed (token, maximum, expiration and call, but neither fee nor recipient, and which
entry point was invoked) is taken from the authorizations the contract's tests record (`test_snapshots`).
`Collect`, `is_allowed_fee_token` and `Authorized` stand for the library and the host and are marked external. A relayer
submits any signed call at any time with any fee, to be paid to itself or left with the contract. The forwarded call itself touches no state of the module.

## 3. The runs

| Run | What it checks | Distinct states |
| --- | --- | --- |
| `flow_one` | One stream, every order of operations. Types; a pending stream is clean; a voided one is covered; the depletion time is exact; nothing takes back what the recipient may withdraw; uncovered debt moves only by time, deposit and write-off; a voided stream stays so, with its parties and with a debt that changes only by what is paid; implements `FlowPromise` | 57 000 |
| `flow_two` | Two streams over two tokens, one withholding a fee: the aggregate is the sum, the contract holds it, both streams keep their promise | 231 000 |
| `flow_overflow` | finding, section 6 | |
| `flow_depletion_u64` | finding, section 6 | |
| `lockup_one` | One stream of each accepted schedule: types; withdrawn, vested, refunded and depleted agree; `cancel` pays what was announced; vested amounts never fall; cold stays cold; renouncing is permanent; every stream becomes cold; a recipient who keeps asking is paid out; implements `LockupPromise` | 57 000 |
| `lockup_two` | Two streams of equal or different tokens, one withholding a fee: aggregate and solvency | 107 000 |
| `governance` | Two accounts, two hashes: each execution waited for its own timelock, executions are a timelock apart, an account accepts only when named and only once | 6 290 |
| `governance_shared_clock` | finding, section 6 | |
| `distributor` | Two distributions of one exact token, of a single leaf and of a lopsided tree that allots more than was deposited; fee changes, deadlines, cancellations, any proof: booked is what was taken and at most the deposit; what an account takes is one allotment of its own, and every allotment can be claimed and paid while enough is left; neither is paid from the other; closed is closed | 767 000 |
| `distributor_fee_token` | finding, section 6 | |
| `router` | One Flow and one Lockup stream, routed or direct, every direct call, and tokens that change hands: each token names one stream whose recipient is the Router; counters are right; a token's worth falls, and it changes hands, only when its owner signs; an owner of a lockup's token who keeps asking is paid out | 200 000 |
| `paymaster` | Two signed calls, two fee tokens, relayers that hold them back or repeat them, an admin who adds, removes and sweeps: charged once, as quoted, at most the maximum, in time | 339 000 |

**Bounds, and why they are enough.**

- `flow_one`: rates {-1, 0, 1, 3}, amounts {0, 1, 2}, funds 3, six seconds from a genesis of 2. One
  unit of money is 2 units of debt (17 decimals), so odd debts leave dust in every withdrawal, refund
  and write-off. `MaxI128` is 10, which a rate of 3 exceeds within the run, so the overflow guards
  fire. Starts before, at and after the creation are all used. A stream becomes insolvent, is
  refilled, paused, restarted, voided and emptied within the bound. Streams do not read each other,
  so per-stream properties need one stream; the shared quantities (aggregate, wallet, ids) are the matter of `flow_two`.
  `MaxU64` is 100, out of reach; the cut to u64 is the matter of `flow_depletion_u64`.
- `lockup_one`: starts, ends and cliffs in the past, present and future, steps of 1 (the default for 0), 2 and 3 over
  durations of 5 and 1, unlocks that leave all, some or nothing to vest, and one request of each kind the
  validation refuses. `MaxI128` is 20, which elapsed time times the vesting amount exceeds (5 × 7), so
  that the fallback of `internal.rs:137-143` is reached.
- `governance`: a timelock of 2 ledgers in 6, so that proposals overlap, are overtaken, executed and
  made again. `MaxU32` is 7, so that the addition of the timelock overflows at the end.
- `distributor`: `MaxI128` is 15 000, so that the product of an amount of 2 with 10 000 basis points overflows and those
  of 1, and of 2 with 5 000, do not. One account has two allotments in the lopsided tree and one is a leaf that is
  itself the root, where claiming twice is not the same as another allotment. Proofs are any sequences of up to two hashes of either tree.
- `router`: one stream of each kind suffices for tokens to be confused, because both then have the id 1 in contracts of their own,
  and two tokens for their order to matter. The stream is created by the Router or without it, in either order. Three
  seconds from a genesis of 1 are the whole schedule of the lockup (1 to 3); the Flow stream runs dry, is
  paused, restarted, refilled, refunded and voided meanwhile. Two rates, so that one can be adjusted to the other, starts now and at
  the last second, and the users and the Router as payees. A user's funds of 2 are what the lockup takes; a Flow stream is funded beside it out of
  what a cancellation or a withdrawal returns, or alone. `burn` has no caller here, so the counter is checked under mints and transfers, those to
  oneself included, and under burns by `NftCounterIsCount` only. One wasm, since code that an upgrade installs has no effect here.
- `paymaster`: five ledgers, a window of 3 and a `MaxU32` of 5, so that the wrapper's expiration is cut; signed expirations
  before and after the last ledger a call may be held back to; fees and maxima 0, 1 and 2 of the 3 a user holds,
  so that limits and funds both refuse some.

`CHECK_DEADLOCK FALSE` is said in every `.cfg` because time and ids are bounded: the
bounded system does stop, at the last second with nothing left to do. `flow_two` uses the symmetry of its two
parties: they start with the same funds, no constant names either, and its properties are safety. The
other runs are small enough without, and `lockup_one` names a sender and checks liveness.

## 4. Fairness

Safety runs assume none. `lockup_one` checks `EventuallyCold` and `EventuallyPaid` under `LiveSpec`:

- `WF_vars(Tick)`: ledgers keep closing, whatever the parties do. Within the bound this reaches `MaxTime`,
  which is beyond the end of every accepted schedule.
- `WF_vars(withdraw_max)` of each stream, by some caller: nothing in the code makes a recipient call,
  so this is an assumption on the recipient, and `EventuallyPaid` says what the contract owes such a
  recipient: no order of cancel, renounce and partial withdrawals by the others leaves his tokens stuck. A
  stream whose recipient is the contract itself is excluded, as nobody could call for it.
  `EventuallyCold` needs only time.

`router` checks `HolderPaid` under its `LiveSpec`: `WF_vars(Tick)` again, and `HolderAsks`, weak fairness of
`withdraw_max` by whoever owns a token at the moment and may sign. That is again an assumption on the holders, not
on the code: it says that the Router owes its money to holders who ask, through any transfers
between them. A token that was transferred to the Router's own address is excluded: nobody can sign
for it, and its money is stuck.

## 5. The proofs

`tlapm` checks the proofs of eight modules. They use the named assumptions of the modules on their constants
(`TokenAssumption`, `FlowAssumption`, `LockupAssumption`, `GovernanceAssumption`, `DistributorAssumption`,
`StreamNFTAssumption`, `RouterAssumption`, `EngineAssumption`, `PaymasterAssumption`: constants have their types, transfer
fees are not negative, the contracts are accounts and different ones, scale factors are positive, the sets of ids have room for
the streams; the Distributor's sums and the NFT's counts need finitely many accounts and token ids), which TLC evaluates on
each run. Two theorems have a hypothesis of their own, named below; nothing else is assumed: any number of streams, accounts,
tokens and amounts, any `MaxI128`. So every safety invariant and every action property of section 3 is also proved for every
value of the constants, and both refinements are.

| Property | Theorem |
| --- | --- |
| Flow `TypeOK`, `AggregateIsSum`, `ContractSolvent` | `FlowTypeCorrect`, `FlowAggregateIsSum`, `FlowSolvent` |
| Flow `PendingIsClean`, `VoidedIsCovered` | `FlowPendingIsClean`, `FlowVoidedIsCovered` |
| Flow `EntitlementKept`, `UncoveredDebtMoves`, `VoidedForGood` | `FlowEntitlementKept`, `FlowUncoveredDebtMoves`, `FlowVoidedForGood` |
| Flow `DepletionIsExact` | `FlowDepletionIsExact`, if the seconds fit in a u64 |
| Flow implements `FlowPromise` | `FlowKeepsPromise` |
| Lockup `TypeOK`, `AggregateIsSum`, `ContractSolvent` | `LockupTypeCorrect`, `LockupAggregateIsSum`, `LockupSolvent` |
| Lockup `NeverOverdrawn`, `RefundAnnounced` | `LockupNeverOverdrawn`, `LockupRefundAnnounced` |
| Lockup `VestedIsKept`, `ColdStaysCold`, `RenouncedForGood` | `LockupVestedIsKept`, `LockupColdStaysCold`, `LockupRenouncedForGood` |
| Lockup implements `LockupPromise` | `LockupKeepsPromise` |
| Governance, all four | `GovernanceTypeCorrect`, `GovernanceTimelock`, `GovernanceSpacing`, `GovernanceAcceptance` |
| Distributor `TypeOK`, `ClaimsAreBooked`, `ClaimedAsAllotted` | `DistributorTypeCorrect`, `DistributorClaimsAreBooked`, `DistributorClaimedAsAllotted` |
| Distributor `ExactTokensSolvent`, `ClosedForGood` | `DistributorExactTokensSolvent`, `DistributorClosedForGood` |
| Distributor `EveryAllotmentClaimable` | `DistributorEveryAllotmentClaimable`, if trees are well formed |
| Stream NFT types and counter | `NftTypeCorrect`, `NftCounterIsCount` |
| Router `TypeOK`, `TokensNameStreams`, `CounterIsCount`, `BearerOnly` | `RouterTypeCorrect`, `RouterTokensNameStreams`, `RouterCounterIsCount`, `RouterBearerOnly` |
| Flow and Lockup solvent behind the Router | `RouterEnginesSolvent` |
| Paymaster `TypeOK`, `ChargedAsSigned` | `PaymasterTypeCorrect`, `PaymasterChargedAsSigned` |

**`LedgerProofs`** proves the laws of `Token` and `Totals`. Of a transfer: the ledgers keep their types, a payer other than the receiver
loses just what is sent, the receiver of a token without a fee gets it, nobody else's balance changes. Of `Total`: it is an integer, depends on the first `n` entries only, grows by
the entry that is added (`TotalGrows`), changes by the difference when one entry changes (`TotalUpdated`), and bounds each
of its non-negative entries (`TotalBoundsEach`). Of `SumOver` on a finite set: one summand split off (`SumOverSplit`), and the same law of change (`SumOverUpdated`). The
induction theorems of the library need a prover that instantiates operators, so inductions are by
least counterexample: over the numbers with `LeastNat`, over finite sets with a minimal subset (`MinimalSubset`).

**`FlowProofs`.** The first inductive invariant is

    IInv == TypeOK /\ AggregateIsSum /\ ContractSolvent

and none of the three is inductive alone. `PayOut` subtracts an amount from
the aggregate that the handlers only compared with the stream's balance: that the aggregate
stays in `0..MaxI128` needs the aggregate to be a sum of non-negative balances, and so at least each of them
(`BalanceBelowAggregate`). That the wallet still covers it needs solvency before.
One lemma per way of moving money (`DepositMoney`, `PayOutMoney`, `RewriteKeeps`, `AddStreamKeeps`)
carries the books over (`BooksMoved`, `BooksKept`, `BooksExtended`); one lemma per disjunct of
`Next` applies them; `StepKeeps` collects these. `DescaleRoundsDown` gives the two facts on rounding the types need. The
theorems cover tokens that withhold a fee, since a deposit books what arrived.

The second invariant, `Kept`, is about single records and is inductive relative to the first: a pending record has no
debt, a rate and is not voided (`Clean`), and a voided one has no rate and owes at most what it holds (`Settled`).
Both are shown once for the five ways in which an operation rewrites a record (`DepositsInto`, `PaysFrom`, `RatesAnew`,
`ReturnsFrom`, `Ends`), as is what each does to the debt (`FundedDebt`, `OperationMoves`): the lemmas say that a
withdrawal lowers the rounded debt by exactly what is paid although the snapshot keeps the dust, and that a change of rate
leaves it as it was. `MoneyStep` collects them for a step of the contract; `EntitlementKept`,
`UncoveredDebtMoves` and `VoidedForGood` are read off it. The refinement is step by step: of the abstract agreements of all
streams, a step of the contract advances one, opens one, lets a second pass for all, or changes none.

`FlowDepletionIsExact` has a hypothesis: whenever the seconds to the depletion of every running stream fit in a u64. It cannot be
dropped, since the code cuts them (run `flow_depletion_u64`), and in `flow_one` it always holds.

**`LockupProofs`.** The invariant is

    IInv == TypeOK /\ (\A id \in Ids : Sound(streams[id], now)) /\ AggregateIsSum /\ ContractSolvent

`Sound` says that a record has a schedule `create` accepts, withdrawn is at most streamed, streamed at most what was not refunded,
depleted means nothing remaining, and only canceled streams were refunded. It is kept because vesting is monotone:
`LinearGrows` for the linear part, with steps rounded down, the division and the fallback for an overflowing product, where everything
counts as vested; `VestedGrows` with the unlocks and the cliff; `StreamedGrows` with the freezes
of `cancel` and of depletion. That `cancel` refunds just what was not streamed is `SenderAmountIsUnvested`. The books are carried over as in
Flow. The action properties and the refinement follow from what one operation does to one record
(`StreamStep`, `OneEscrowChanges`).

**`GovernanceProofs`.** The shared clock is the difficulty: `unlockLedger` belongs to the last proposal and not to
the hash that is executed. The invariant adds that the clock is at least a timelock after *every* proposal that is
still waiting and after the last execution (a proposal only ever moves it forward, and an execution removes it,
which stops the others), and that the pending admin is the last nominee. Hence sharing costs delay, never
safety.

**`DistributorProofs`.** The invariant adds to the four checked ones that a `Claimed` entry exists wherever somebody took something
(`History`, so that all an account took is the one amount it proved), and that there is a fee address as soon as there is an admin.
`VerifiedIsInTree` is the heart of `ClaimedAsAllotted`: with an ideal hash, a path that verifies upwards from the leaf is a path
downwards from the root, whatever hashes are offered as siblings and however deep the tree is. `InTreeIsVerified` is the converse: the siblings on the
way up are a proof (`ProofGrows`). It needs trees that consist of leaves and pairs (`WellFormed`), a hypothesis of
`DistributorEveryAllotmentClaimable`: the contract takes any 32 bytes for a root, and nothing can be claimed from
one that is no tree's. The instances TLC runs are well formed, which `MCDistributor` assumes and TLC evaluates. That an accepted proof is also paid is `CoveredClaimIsPaid`: the contract holds at least what
is left of each distribution (`ExactTokensSolvent` with `TotalBoundsEach`), the fee is a part of the amount (`FeeIsPart`) and has an address. Two
cases are excluded because `claim` does panic there: while the amount times the fee percentage does not fit an i128, and, for tokens
that withhold a fee, when others were paid from the deposit (finding 4). Solvency across
distributions is `SolventAfterPaying`: a distribution gives up exactly what leaves the contract, fee included.

**`StreamNFTProofs`.** The invariant is the
conjunction of types and counter: that a transfer or a burn really lowers the counter, which is guarded by "if positive", needs the
counter to be the number of owned tokens, and so at least 1 for an owner (`OwnerIsCounted`). A transfer to
oneself is a case of its own.

**`RouterProofs`** is about the composition and has three layers.

1. `RInv`, over the lemmas of `StreamNFTProofs`: the NFT's invariant, `TokensNameStreams`, and `Counted`: Flow and Lockup have exactly the
   streams they counted, and the Router has not handed out more tokens than there are streams, so the ids it mints are fresh. Every
   operation of Flow and Lockup keeps the streams with their recipients and adds at most one (`FlowsKept`,
   `LockupsKept`). A step that mints names the stream it has just created, whose id no token can name yet (`MintedFor`).
2. `EnginesInv`, the invariants of Flow and of Lockup side by side. `FP` and `LP` are instances of `FlowProofs` and `LockupProofs` on the Router's
   variables: a call the Router or a user makes of an engine is a step of that engine (`FlowCallIsStep`, `LockupCallIsStep`), so its
   invariant is kept by what was proved there, and it takes nothing from what the other contract holds on the shared ledgers, though it may pay it
   (`FlowSparesLockup`, `LockupSparesFlow`), so the other's is kept too. This gives `RouterTypeCorrect` and `RouterEnginesSolvent`.
3. `RouterBearerOnly`. By `OnlyWithdrawPays`, proved in both engines' modules, only a withdrawal lowers what a stream would pay. The recipient of a token's
   stream is the Router, which is no user, so no user withdraws from it directly (`RecipientAsks`); and when the Router does, it
   does so for the owner of a token that names the stream, of which there is one (`FlowDue`, `LockupDue`). Tokens move by their owners only (`TokenStep`).

**`PaymasterProofs`.** The invariant adds that the signed calls are numbered without gaps (`Numbered`: a new call has a new nonce, and the
calls a user was charged for are finitely many, so that their fees have a sum) and that a fee was quoted for every call that was charged (`Quoted`). The step that
matters is `ForwardKeeps`, where a call is charged and its nonce used up together, with `SumOverSplit`; everything else charges
nobody (`NobodyCharged`).

**Only model-checked.** Liveness (`EventuallyCold`, `EventuallyPaid`, `HolderPaid`) under fairness, and `EitherPartyCanVoid`, which uses
`ENABLED`: both are out of the prover's reach.

## 6. Where code and documentation disagree

Each of the first four is a run that TLC finds violated.

1. `flow_overflow`: `contracts/flow/src/lib.rs:8` says that "either party can permanently void the stream". Once
   elapsed time times rate exceeds an i128, `internal.rs:53` panics in every operation on the stream,
   `void_stream` included, and the balance cannot be taken by either side.
   The amounts needed are far beyond usual rates.
2. `flow_depletion_u64`: `queries.rs:84` and `:87` cut the seconds until depletion with `as u64`, so that a slow stream
   with a large balance is given a time at which it is still solvent.
3. `governance_shared_clock`: `contracts/flow/src/lib.rs:73-74` says that a proposed upgrade "can be executed after
   UPGRADE_TIMELOCK_LEDGERS have passed". A second proposal restarts the one clock, and executing one proposal
   removes the clock of the others.
4. `distributor_fee_token`: the comment at `contracts/distributor/src/lib.rs:392-395` speaks of keeping "every distribution solvent
   independently". The deposit of a token that withholds a fee is booked in full, so its last
   claimants are paid by other distributions or not at all. For exact tokens it holds (`distributor`).

Read, but without a run of their own:

- When elapsed time times amount overflows, Lockup counts the stream as fully vested
  (`contracts/lockup/src/internal.rs:137-143`), ahead of the schedule in `types.rs:125-134`. The model has this
  fallback, and the properties of `lockup_one` hold with it.
- `contracts/distributor/src/lib.rs:304` says that the creator "or contract admin" can cancel; lines 311-312 ask for
  `record.admin`, which is the creator, only.
- `set_admin` leaves an older `PendingAdmin` entry, whose account can still accept.
- `contracts/paymaster/src/lib.rs:170-172` calls the wrapper's expiration, 1000 ledgers ahead, "a generous but finite window". It is
  computed in the ledger in which the call is executed (lines 184-188) and is one of the arguments the user signs
  (`test_snapshots/test/test_collect_fee_and_invoke_basic.1.json` records 1100 in ledger 100), so a call signed for the wrapper finds its
  authorization only in the ledger it was signed for. The window is met by `forward`, whose caller fixes the expiration. `Paymaster` behaves so.
- `SKILL.md:330` speaks of "transfer of NFT = transfer of stream recipient rights". The right to be paid moves (`BearerOnly`); the recipient's right to
  void a Flow stream belongs to the Router, which has no entry point for it. Line 331 asks to "sync NFT ownership with stream recipient
  on transfer"; the code never does, the recipient stays the Router and the owner is looked up at each withdrawal.
- With the Router as recipient, the check that sender and recipient differ cannot fail: a sender may hold the token of
  a stream of his own.
- A stream that is created directly with the Router as recipient has no token; what it pays out cannot be withdrawn.

## 7. What is not modelled

- **The fee abstraction library** of the Paymaster is external: what it approves to the contract and what remains of that allowance, and
  its answer for an empty list of fee tokens, which this repository does not determine (the model lets every token pass then). The call the
  Paymaster forwards is not composed with the other contracts: it is authorized by the user as a direct call would be.
- **Names and symbols** of the NFT.
- **The host**: authorization (a parameter here), archival and time to live of storage entries (an
  archived entry must be restored before use, so it delays and does not change state), gas, the
  real keccak-256 and XDR encoding (an ideal hash in `Merkle`).
- **Events and error codes**: output only. Which of several panics is reported does not change state.
- **Tokens** beyond balance and transfer: allowances, trustlines, clawback and tokens that
  call back. Fees are constant per transfer, not proportional.
- **Deployment scripts, demos and snapshots of tests.**

## 8. Plan

Done: all seven contracts; the runs of section 3; the proofs of section 5.

Next:

1. The safety behind the liveness properties, as state predicates: after the end of a schedule everything that is left is
   withdrawable and the checks of `withdraw_max` hold for the recipient (Lockup); what the owner of a token can have
   paid at once is all that the token is worth (Router).
2. Flow: from when on an overflow blocks a stream (run `flow_overflow`), as a bound on elapsed time and rate below which
   every operation's arithmetic stays in an i128.
3. Stream NFT: its transfers and mints as steps of an abstract ledger of owners.
