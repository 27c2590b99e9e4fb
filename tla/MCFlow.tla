------------------------------- MODULE MCFlow -------------------------------
(* Small instances of Flow for TLC. *)
EXTENDS Flow, TLC

CONSTANTS sender, recipient, contract, usd, fees

(* Two parties and the contract itself. *)
MCAccounts == {sender, recipient, contract}

(* One token with a decimal less than the internal precision, so that one   *)
(* unit of it is Scale units of debt and rounding leaves dust.              *)
OneDecimals == (usd :> 17)
OneFee == (usd :> 0)

(* A second token withholds one unit of every transfer. *)
TwoDecimals == (usd :> 17) @@ (fees :> 18)
TwoFees == (usd :> 0) @@ (fees :> 1)

MCDecimals == {17, 18}
MCScale == (17 :> 2) @@ (18 :> 1)
MCRates == {-1, 0, 1, 3}
MCAmounts == {0, 1, 2}
TwoAmounts == {2}
TwoRates == {3}

(* Nothing tells the two parties apart but what they do. *)
EitherParty == Permutations({sender, recipient})
=============================================================================
