------------------------------- MODULE Token -------------------------------
(***************************************************************************)
(* The SEP-41 token contracts the protocol calls through token::Client.    *)
(* They are not part of the repository: this module models the three calls *)
(* the contracts make (balance, transfer, decimals) from how they are used.*)
(* A token may keep a fee of every transfer, which is what the contracts'  *)
(* balance-before/balance-after comparison is there to detect.             *)
(***************************************************************************)
EXTENDS Integers

CONSTANTS
    Accounts,       \* every address that can hold tokens, contracts included
    Tokens,         \* the token contracts
    TokenDecimals,  \* what decimals() answers, per token
    TransferFee     \* what a token withholds from each transfer, per token

ASSUME TokenAssumption ==
    /\ TokenDecimals \in [Tokens -> Nat]
    /\ TransferFee \in [Tokens -> Nat]

(* token -> account -> balance *)
Wallets == [Tokens -> [Accounts -> Nat]]

(* What the receiver is credited when amount is sent. *)
Received(token, amount) ==
    IF amount > TransferFee[token] THEN amount - TransferFee[token] ELSE 0

(* transfer panics when the sender does not hold the amount. *)
CanTransfer(w, token, from, amount) == amount >= 0 /\ w[token][from] >= amount

(* The balances after transfer(from, to, amount); from and to may be equal. *)
Transferred(w, token, from, to, amount) ==
    [w EXCEPT ![token] =
        [a \in Accounts |->
            w[token][a] - (IF a = from THEN amount ELSE 0)
                        + (IF a = to THEN Received(token, amount) ELSE 0)]]

(* received == amount, where received = balance_after - balance_before of   *)
(* account to: the exact-transfer validation of the contracts.              *)
ExactTransfer(w, token, from, to, amount) ==
    Transferred(w, token, from, to, amount)[token][to] - w[token][to] = amount
=============================================================================
