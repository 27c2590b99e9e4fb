---------------------------- MODULE MCPaymaster ----------------------------
(* A small instance of Paymaster for TLC. *)
EXTENDS Paymaster, TLC

CONSTANTS user, relayer, contract, usd, eur

MCAccounts == {user, relayer, contract}
MCDecimals == (usd :> 7) @@ (eur :> 7)
MCFees == (usd :> 0) @@ (eur :> 0)
=============================================================================
