---------------------------- MODULE Distributor ----------------------------
(***************************************************************************)
(* The Distributor contract: distributions whose recipients claim what a   *)
(* Merkle tree allots to them (contracts/distributor).  What propose_admin *)
(* and accept_admin do to the admin is set_admin's effect; the handlers    *)
(* themselves and the upgrades are in module Governance.                   *)
(*                                                                         *)
(* An invocation is one atomic action; one that panics is disabled here.   *)
(***************************************************************************)
EXTENDS Token, Totals, Merkle, FiniteSets

CONSTANTS
    Self,              \* the contract's own address
    NoAccount,         \* an absent Admin or ProtocolFeeAddress entry
    MaxI128,           \* the largest i128
    Genesis,           \* the ledger timestamp when the contract is deployed
    Funds,             \* what each account holds of each token at the start
    Roots,             \* the Merkle roots distributions are made with
    Depth,             \* how deep their trees are
    Amounts,           \* the amounts callers ask for         (bound on inputs)
    Percents,          \* the fee percentages an admin tries  (bound on inputs)
    Deadlines,         \* the deadlines of distributions      (bound on inputs)
    MaxTime,           \* the last ledger timestamp           (bound on time)
    MaxDistributions   \* how many distributions are created  (bound on ids)

BasisPoints == 10000

ASSUME DistributorAssumption ==
    /\ IsFiniteSet(Accounts)
    /\ Self \in Accounts
    /\ NoAccount \notin Accounts
    /\ MaxI128 \in Nat
    /\ Genesis \in Nat
    /\ Funds \in Nat
    /\ Depth \in Nat
    /\ Amounts \subseteq -MaxI128..MaxI128
    /\ Percents \subseteq Nat
    /\ Deadlines \subseteq Nat
    /\ MaxTime \in Nat
    /\ MaxDistributions \in Nat

VARIABLES
    now,                  \* env.ledger().timestamp()
    admin,                \* DataKey::Admin
    protocolFeePercent,   \* DataKey::ProtocolFeePercent
    protocolFeeAddress,   \* DataKey::ProtocolFeeAddress
    distributions,        \* DataKey::Distribution(id), for the ids handed out so far
    nextDistributionId,   \* DataKey::NextDistributionId
    claimed,              \* the <<id, claimant>> with a DataKey::Claimed entry
    wallet,               \* the token contracts' balances
    taken                 \* history: what each account has claimed, per distribution

config == <<admin, protocolFeePercent, protocolFeeAddress>>
books == <<distributions, nextDistributionId, claimed, wallet, taken>>
vars == <<now, config, books>>

DistributionRecord ==
    [admin : Accounts, token : Tokens, merkle_root : Roots,
     total_amount : 1..MaxI128, claimed_amount : 0..MaxI128, deadline : Nat,
     is_cancelled : BOOLEAN]

Ids == 1..(nextDistributionId - 1)

(* What a distribution has not paid out nor given back. *)
Remaining(d) == IF d.is_cancelled THEN 0 ELSE d.total_amount - d.claimed_amount

IsExpired(d) == d.deadline > 0 /\ now > d.deadline

(* The record d with its progress replaced. *)
Booked(d, amount, cancelled) ==
    [admin |-> d.admin, token |-> d.token, merkle_root |-> d.merkle_root,
     total_amount |-> d.total_amount, claimed_amount |-> amount,
     deadline |-> d.deadline, is_cancelled |-> cancelled]

-----------------------------------------------------------------------------
Init ==
    /\ now = Genesis
    /\ admin = NoAccount
    /\ protocolFeePercent = 0
    /\ protocolFeeAddress = NoAccount
    /\ distributions = [id \in {} |-> 0]
    /\ nextDistributionId = 1
    /\ claimed = {}
    /\ wallet = [token \in Tokens |->
                    [a \in Accounts |-> IF a = Self THEN 0 ELSE Funds]]
    /\ taken = [id \in {} |-> 0]

Tick ==
    /\ now < MaxTime
    /\ now' = now + 1
    /\ UNCHANGED <<config, books>>

initialize(caller, fee_address) ==
    /\ admin = NoAccount
    /\ admin' = caller
    /\ protocolFeeAddress' = fee_address
    /\ UNCHANGED <<now, protocolFeePercent, books>>

set_admin(caller, new_admin) ==
    /\ caller = admin
    /\ admin' = new_admin
    /\ UNCHANGED <<now, protocolFeePercent, protocolFeeAddress, books>>

(* Mutant: the percentage is not bounded. *)
set_protocol_fee_percent_unbounded(caller, percent) ==
    /\ caller = admin
    /\ protocolFeePercent' = percent
    /\ UNCHANGED <<now, admin, protocolFeeAddress, books>>

set_protocol_fee_percent(caller, percent) ==
    /\ caller = admin
    /\ percent <= BasisPoints
    /\ protocolFeePercent' = percent
    /\ UNCHANGED <<now, admin, protocolFeeAddress, books>>

set_protocol_fee_address(caller, fee_address) ==
    /\ caller = admin
    /\ protocolFeeAddress' = fee_address
    /\ UNCHANGED <<now, admin, protocolFeePercent, books>>

(* Anybody may create one, before initialize too.  What arrives is not     *)
(* compared with what was sent.                                            *)
create_distribution(creator, token, root, amount, deadline) ==
    /\ amount > 0
    /\ nextDistributionId <= MaxDistributions
    /\ CanTransfer(wallet, token, creator, amount)
    /\ wallet' = Transferred(wallet, token, creator, Self, amount)
    /\ nextDistributionId' = nextDistributionId + 1
    /\ distributions' =
          [id \in 1..nextDistributionId |->
              IF id < nextDistributionId THEN distributions[id]
              ELSE [admin |-> creator, token |-> token, merkle_root |-> root,
                    total_amount |-> amount, claimed_amount |-> 0,
                    deadline |-> deadline, is_cancelled |-> FALSE]]
    /\ taken' = [id \in 1..nextDistributionId |->
                    IF id < nextDistributionId THEN taken[id] ELSE [a \in Accounts |-> 0]]
    /\ UNCHANGED <<now, config, claimed>>

(* Mutant: the creator gets the whole deposit back. *)
cancel_distribution_whole(id, caller) ==
    LET d == distributions[id]
    IN  /\ id \in Ids
        /\ caller = d.admin
        /\ ~d.is_cancelled
        /\ CanTransfer(wallet, d.token, Self, d.total_amount)
        /\ wallet' = Transferred(wallet, d.token, Self, d.admin, d.total_amount)
        /\ distributions' =
              [distributions EXCEPT ![id] = Booked(d, d.claimed_amount, TRUE)]
        /\ UNCHANGED <<now, config, nextDistributionId, claimed, taken>>

(* Only the creator, whatever is left of the distribution. *)
cancel_distribution(id, caller) ==
    LET d == distributions[id]
    IN  /\ id \in Ids
        /\ caller = d.admin
        /\ ~d.is_cancelled
        /\ CanTransfer(wallet, d.token, Self, Remaining(d))
        /\ wallet' = Transferred(wallet, d.token, Self, d.admin, Remaining(d))
        /\ distributions' =
              [distributions EXCEPT ![id] = Booked(d, d.claimed_amount, TRUE)]
        /\ UNCHANGED <<now, config, nextDistributionId, claimed, taken>>

protocol_fee(amount) == (amount * protocolFeePercent) \div BasisPoints

(* The balances after the fee of a claim is paid. *)
Charged(token, amount) ==
    IF protocol_fee(amount) > 0
    THEN Transferred(wallet, token, Self, protocolFeeAddress, protocol_fee(amount))
    ELSE wallet

(* Mutant: the claims of a distribution are not bounded by its deposit. *)
MayClaimUnbounded(id, claimant, amount, proof) ==
    LET d == distributions[id]
    IN  /\ ~d.is_cancelled
        /\ ~IsExpired(d)
        /\ <<id, claimant>> \notin claimed
        /\ amount > 0
        /\ verify_proof(proof, d.merkle_root, compute_leaf(claimant, amount))

(* Mutant: whether the claimant has claimed before is not asked. *)
MayClaimTwice(id, claimant, amount, proof) ==
    LET d == distributions[id]
    IN  /\ ~d.is_cancelled
        /\ ~IsExpired(d)
        /\ amount > 0
        /\ verify_proof(proof, d.merkle_root, compute_leaf(claimant, amount))
        /\ d.claimed_amount + amount <= d.total_amount

(* Mutant: a cancelled distribution still pays. *)
MayClaimCancelled(id, claimant, amount, proof) ==
    LET d == distributions[id]
    IN  /\ ~IsExpired(d)
        /\ <<id, claimant>> \notin claimed
        /\ amount > 0
        /\ verify_proof(proof, d.merkle_root, compute_leaf(claimant, amount))
        /\ d.claimed_amount + amount <= d.total_amount

(* The checks of claim, up to the bound that keeps every distribution       *)
(* solvent on its own.                                                      *)
MayClaim(id, claimant, amount, proof) ==
    LET d == distributions[id]
    IN  /\ ~d.is_cancelled
        /\ ~IsExpired(d)
        /\ <<id, claimant>> \notin claimed
        /\ amount > 0
        /\ verify_proof(proof, d.merkle_root, compute_leaf(claimant, amount))
        /\ d.claimed_amount + amount <= d.total_amount

(* The fee needs an address and its product an i128; the contract must hold *)
(* what it pays, the fee first and then the rest.                           *)
CanPay(token, amount) ==
    /\ amount * protocolFeePercent <= MaxI128
    /\ protocol_fee(amount) > 0 => protocolFeeAddress # NoAccount
    /\ CanTransfer(wallet, token, Self, protocol_fee(amount))
    /\ CanTransfer(Charged(token, amount), token, Self, amount - protocol_fee(amount))

claim(claimant, id, amount, proof) ==
    LET d == distributions[id]
    IN  /\ id \in Ids
        /\ MayClaim(id, claimant, amount, proof)
        /\ CanPay(d.token, amount)
        /\ distributions' =
              [distributions EXCEPT ![id] =
                  Booked(d, d.claimed_amount + amount, d.is_cancelled)]
        /\ claimed' = claimed \cup {<<id, claimant>>}
        /\ wallet' = Transferred(Charged(d.token, amount), d.token, Self, claimant,
                                 amount - protocol_fee(amount))
        /\ taken' = [taken EXCEPT ![id][claimant] = @ + amount]
        /\ UNCHANGED <<now, config, nextDistributionId>>

-----------------------------------------------------------------------------
(* The contract never calls itself. *)
Callers == Accounts \ {Self}

(* Any sequence of the hashes of the trees may be passed as a proof. *)
Hashes == UNION {Tree(root, Depth) : root \in Roots}
Proofs == UNION {[1..n -> Hashes] : n \in 0..Depth}

Configure ==
    \E caller \in Callers :
        \/ \E address \in Accounts : \/ initialize(caller, address)
                                     \/ set_admin(caller, address)
                                     \/ set_protocol_fee_address(caller, address)
        \/ \E percent \in Percents : set_protocol_fee_percent(caller, percent)

Create ==
    \E creator \in Callers, token \in Tokens, root \in Roots, amount \in Amounts,
       deadline \in Deadlines :
        create_distribution(creator, token, root, amount, deadline)

Cancel ==
    \E id \in 1..MaxDistributions, caller \in Callers : cancel_distribution(id, caller)

Claim ==
    \E claimant \in Callers, id \in 1..MaxDistributions, amount \in Amounts,
       proof \in Proofs : claim(claimant, id, amount, proof)

Next == Tick \/ Configure \/ Create \/ Cancel \/ Claim

Spec == Init /\ [][Next]_vars

-----------------------------------------------------------------------------
(* Properties *)

(* Every record is one the contract can have stored; the percentage stays  *)
(* one, so that no claim pays a negative amount; and there is a fee address *)
(* as soon as there can be a fee (lib.rs:212-221).                          *)
TypeOK ==
    /\ now \in Nat
    /\ admin \in Accounts \cup {NoAccount}
    /\ protocolFeePercent \in 0..BasisPoints
    /\ protocolFeeAddress \in Accounts \cup {NoAccount}
    /\ protocolFeePercent > 0 => protocolFeeAddress # NoAccount
    /\ nextDistributionId \in 1..(MaxDistributions + 1)
    /\ distributions \in [Ids -> DistributionRecord]
    /\ claimed \subseteq Ids \X Callers
    /\ wallet \in Wallets

(* What the distributions of a token still hold. *)
Held(token) ==
    [id \in Ids |->
        IF distributions[id].token = token THEN Remaining(distributions[id]) ELSE 0]

(* "Keep every distribution solvent independently" (lib.rs:392-395): the    *)
(* contract holds at least what all distributions have left together, so    *)
(* that no claim and no cancellation is paid from another's deposit.        *)
DistributionsSolvent ==
    \A token \in Tokens :
        wallet[token][Self] >= Total(Held(token), nextDistributionId - 1)

(* The same of the tokens that deliver what is sent. *)
ExactTokensSolvent ==
    \A token \in {t \in Tokens : TransferFee[t] = 0} :
        wallet[token][Self] >= Total(Held(token), nextDistributionId - 1)

(* What a distribution has booked as claimed is what all claimants took     *)
(* together, and it is never more than was deposited: also for a tree that  *)
(* allots more than that.                                                   *)
ClaimsAreBooked ==
    \A id \in Ids :
        /\ distributions[id].claimed_amount = SumOver(taken[id], Accounts)
        /\ distributions[id].claimed_amount <= distributions[id].total_amount

(* All that an account ever takes from a distribution is one amount its     *)
(* tree allots to that account, whatever proofs it passes and however often *)
(* it claims.                                                               *)
ClaimedAsAllotted ==
    \A id \in Ids, a \in Accounts :
        taken[id][a] # 0 =>
            \E leaf \in Leaves(distributions[id].merkle_root, Depth) :
                leaf.claimant = a /\ leaf.amount = taken[id][a]

(* Nobody is shut out, by his place in the tree (merkle.rs:32-36) or for    *)
(* want of tokens: claim accepts some proof of what an open distribution of *)
(* a token that delivers what is sent allots to an account, on either side  *)
(* of the tree and at any depth, and can pay it, until the account has      *)
(* claimed or the claims of others leave too little of the deposit.  Only   *)
(* while the product of the amount and the fee percentage does not fit an   *)
(* i128 (lib.rs:406-408) no proof is of use.                                *)
EveryAllotmentClaimable ==
    \A id \in Ids :
        LET d == distributions[id]
        IN  (~d.is_cancelled /\ ~IsExpired(d) /\ TransferFee[d.token] = 0) =>
                \A leaf \in Leaves(d.merkle_root, Depth) :
                    leaf.claimant \in Callers =>
                        \/ <<id, leaf.claimant>> \in claimed
                        \/ d.claimed_amount + leaf.amount > d.total_amount
                        \/ leaf.amount * protocolFeePercent > MaxI128
                        \/ /\ \E proof \in Proofs :
                                  MayClaim(id, leaf.claimant, leaf.amount, proof)
                           /\ CanPay(d.token, leaf.amount)

(* Nothing is claimed from a distribution that was cancelled or is past its *)
(* deadline, and a cancelled one stays so with its books closed.            *)
ClosedForGood ==
    [][\A id \in Ids :
          LET d == distributions[id]
          IN  /\ (d.is_cancelled \/ IsExpired(d)) => taken'[id] = taken[id]
              /\ d.is_cancelled => distributions'[id] = d]_vars
=============================================================================
