----------------------------- MODULE Paymaster -----------------------------
(***************************************************************************)
(* The Paymaster contract (contracts/paymaster): a relayer submits a call  *)
(* that a user signed and is paid for it in a fee token.  The fee is taken *)
(* by an external library, stellar-fee-abstraction, which is modelled from *)
(* how the contract calls it and from the authorizations its tests record  *)
(* (test_snapshots): the user signs the entry point, the token, the        *)
(* maximum, the expiration and the call, but neither the fee nor who gets  *)
(* it.  The call itself is one of the other contracts' operations on state *)
(* of theirs; if it fails, the fee is not taken either.                    *)
(*                                                                         *)
(* A relayer may hold a signed call back, submit it again or not at all.   *)
(***************************************************************************)
EXTENDS Token, Totals, FiniteSets

CONSTANTS
    Self,          \* the contract's own address
    Users,         \* who signs calls and pays fees
    NoAccount,     \* an absent Admin entry
    Wasms,         \* the code an upgrade may install
    MaxU32,        \* the largest u32
    Window,        \* how many ledgers the wrapper adds (1000)
    Funds,         \* what each user holds of each token at the start
    Fees,          \* the fees and maxima asked for    (bound on inputs)
    Expirations,   \* the expirations signed           (bound on inputs)
    LastLedger,    \* the last ledger sequence         (bound on time)
    MaxCalls       \* how many calls are signed        (bound on ids)

ASSUME PaymasterAssumption ==
    /\ Self \in Accounts
    /\ Users \subseteq Accounts \ {Self}
    /\ NoAccount \notin Accounts
    /\ MaxU32 \in Nat
    /\ Window \in Nat
    /\ Funds \in Nat
    /\ Fees \subseteq Int
    /\ Expirations \subseteq 0..MaxU32
    /\ LastLedger \in 0..MaxU32
    /\ MaxCalls \in Nat

VARIABLES
    sequence,   \* env.ledger().sequence()
    admin,      \* DataKey::Admin
    allowed,    \* the library's list of fee tokens
    wasm,       \* the code the contract runs
    wallet,     \* the token contracts' balances
    signed,     \* the calls users have signed, numbered by their nonces
    quotes      \* the host's used nonces: what was quoted for each, and when

storage == <<admin, allowed, wasm>>
vars == <<sequence, storage, wallet, signed, quotes>>

EntryPoint == {"forward", "collect_fee_and_invoke"}

Call ==
    [entry : EntryPoint, user : Users, fee_token : Tokens, max_fee_amount : Int,
     expiration_ledger : 0..MaxU32]

Calls == DOMAIN signed
Used == DOMAIN quotes

-----------------------------------------------------------------------------
Init ==
    /\ sequence = 0
    /\ admin = NoAccount
    /\ allowed = {}
    /\ wasm \in Wasms
    /\ wallet = [token \in Tokens |->
                    [a \in Accounts |-> IF a \in Users THEN Funds ELSE 0]]
    /\ signed = [n \in {} |-> 0]
    /\ quotes = [n \in {} |-> 0]

(* The next ledger closes. *)
Close ==
    /\ sequence < LastLedger
    /\ sequence' = sequence + 1
    /\ UNCHANGED <<storage, wallet, signed, quotes>>

(* Mutant: the sum is not cut to a u32. *)
WrapperExpirationUncut == sequence + Window

(* checked_add(1000).unwrap_or(u32::MAX) *)
WrapperExpiration ==
    IF sequence + Window > MaxU32 THEN MaxU32 ELSE sequence + Window

(* A user signs a call: for the wrapper, with the expiration the wrapper   *)
(* computes at the moment.                                                 *)
Sign(user, entry, fee_token, max_fee_amount, expiration_ledger) ==
    /\ Cardinality(Calls) < MaxCalls
    /\ entry = "collect_fee_and_invoke" => expiration_ledger = WrapperExpiration
    /\ signed' =
          [n \in 1..(Cardinality(Calls) + 1) |->
              IF n \in Calls THEN signed[n]
              ELSE [entry |-> entry, user |-> user, fee_token |-> fee_token,
                    max_fee_amount |-> max_fee_amount,
                    expiration_ledger |-> expiration_ledger]]
    /\ UNCHANGED <<sequence, storage, wallet, quotes>>

-----------------------------------------------------------------------------
(* Once; the tokens go to the library's list one by one. *)
initialize(caller, allowed_fee_tokens) ==
    /\ admin = NoAccount
    /\ admin' = caller
    /\ allowed' = allowed \cup allowed_fee_tokens
    /\ UNCHANGED <<sequence, wasm, wallet, signed, quotes>>

IsAdmin(caller) == admin # NoAccount /\ caller = admin

add_fee_token(caller, token) ==
    /\ IsAdmin(caller)
    /\ allowed' = allowed \cup {token}
    /\ UNCHANGED <<sequence, admin, wasm, wallet, signed, quotes>>

remove_fee_token(caller, token) ==
    /\ IsAdmin(caller)
    /\ allowed' = allowed \ {token}
    /\ UNCHANGED <<sequence, admin, wasm, wallet, signed, quotes>>

upgrade(caller, hash) ==
    /\ IsAdmin(caller)
    /\ wasm' = hash
    /\ UNCHANGED <<sequence, admin, allowed, wallet, signed, quotes>>

(* All that the contract holds of the token. *)
sweep(caller, token, to) ==
    /\ IsAdmin(caller)
    /\ wallet[token][Self] > 0
    /\ wallet' = Transferred(wallet, token, Self, to, wallet[token][Self])
    /\ UNCHANGED <<sequence, storage, signed, quotes>>

(* What the library answers for a list without tokens is not determined by *)
(* this repository; the model takes the answer that lets more happen.      *)
is_allowed_fee_token(token) == token \in allowed \/ allowed = {}

(* The host finds an unused authorization of the user for these arguments. *)
Authorized(n, entry, user, token, max_fee, expiration) ==
    /\ n \in Calls \ Used
    /\ signed[n] = [entry |-> entry, user |-> user, fee_token |-> token,
                    max_fee_amount |-> max_fee, expiration_ledger |-> expiration]

(* The library's collect_fee_and_invoke: its validation of the bounds and  *)
(* of the expiration, and the transfer of the fee.                         *)
Collect(user, token, fee, max_fee, expiration, recipient) ==
    /\ 0 < fee /\ fee <= max_fee
    /\ sequence <= expiration
    /\ CanTransfer(wallet, token, user, fee)
    /\ wallet' = Transferred(wallet, token, user, recipient, fee)

(* Mutant: the maximum is collected whatever the fee. *)
forward_maximum(n, entry, user, token, fee, max_fee, expiration, recipient) ==
    /\ admin # NoAccount
    /\ is_allowed_fee_token(token)
    /\ Authorized(n, entry, user, token, max_fee, expiration)
    /\ Collect(user, token, max_fee, max_fee, expiration, recipient)
    /\ quotes' = [m \in Used \cup {n} |->
                     IF m = n THEN [fee |-> fee, ledger |-> sequence]
                              ELSE quotes[m]]
    /\ UNCHANGED <<sequence, storage, signed>>

(* entry is the function the relayer invoked, which is part of what the    *)
(* user signed.                                                            *)
forward(n, entry, user, token, fee, max_fee, expiration, recipient) ==
    /\ admin # NoAccount
    /\ is_allowed_fee_token(token)
    /\ Authorized(n, entry, user, token, max_fee, expiration)
    /\ Collect(user, token, fee, max_fee, expiration, recipient)
    /\ quotes' = [m \in Used \cup {n} |->
                     IF m = n THEN [fee |-> fee, ledger |-> sequence]
                              ELSE quotes[m]]
    /\ UNCHANGED <<sequence, storage, signed>>

(* The wrapper: the fee is the maximum, the relayer gets it, and the       *)
(* expiration is computed anew from the ledger in which the call arrives.  *)
collect_fee_and_invoke(n, user, fee_token, max_fee, relayer) ==
    forward(n, "collect_fee_and_invoke", user, fee_token, max_fee, max_fee,
            WrapperExpiration, relayer)

-----------------------------------------------------------------------------
(* Who runs the service; users only sign. *)
Operators == Accounts \ (Users \cup {Self})

SignCall ==
    \E user \in Users, fee_token \in Tokens, max_fee \in Fees :
        \/ \E expiration \in Expirations :
             Sign(user, "forward", fee_token, max_fee, expiration)
        \/ Sign(user, "collect_fee_and_invoke", fee_token, max_fee, WrapperExpiration)

Administer ==
    \E caller \in Operators :
        \/ \E list \in SUBSET Tokens : initialize(caller, list)
        \/ \E token \in Tokens :
             \/ add_fee_token(caller, token)
             \/ remove_fee_token(caller, token)
             \/ \E to \in Operators : sweep(caller, token, to)
        \/ \E hash \in Wasms : upgrade(caller, hash)

(* A relayer submits a signed call with a fee of its own choice, to be paid *)
(* to itself or left with the contract, and at any time.                    *)
Submit ==
    \E n \in Calls :
        LET c == signed[n]
        IN  \/ \E fee \in Fees, recipient \in Operators \cup {Self} :
                 forward(n, "forward", c.user, c.fee_token, fee, c.max_fee_amount,
                         c.expiration_ledger, recipient)
            \/ \E relayer \in Operators :
                 collect_fee_and_invoke(n, c.user, c.fee_token, c.max_fee_amount, relayer)

Next == Close \/ SignCall \/ Administer \/ Submit

Spec == Init /\ [][Next]_vars

-----------------------------------------------------------------------------
(* Properties *)

(* The stored entries have their types, expirations are u32, and nothing is *)
(* collected before the contract is initialized.                            *)
TypeOK ==
    /\ sequence \in 0..LastLedger
    /\ admin \in Operators \cup {NoAccount}
    /\ allowed \subseteq Tokens
    /\ wasm \in Wasms
    /\ wallet \in Wallets
    /\ signed \in [Calls -> Call]
    /\ Used \subseteq Calls
    /\ Used # {} => admin # NoAccount

(* The calls of a user that were charged in a token. *)
Charged(user, token) ==
    {n \in Used : signed[n].user = user /\ signed[n].fee_token = token}

(* However late, often and at whatever fee relayers submit what users have  *)
(* signed, and whatever the operators add, remove and sweep in between: a   *)
(* user has paid exactly the fee quoted for each of his calls, once, at     *)
(* most what he signed for it and no later.                                 *)
ChargedAsSigned ==
    /\ \A user \in Users, token \in Tokens :
          Funds - wallet[token][user] =
              SumOver([n \in Used |-> quotes[n].fee], Charged(user, token))
    /\ \A n \in Used :
          /\ quotes[n].fee <= signed[n].max_fee_amount
          /\ quotes[n].ledger <= signed[n].expiration_ledger
=============================================================================
