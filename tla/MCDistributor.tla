--------------------------- MODULE MCDistributor ---------------------------
(* Small instances of Distributor for TLC. *)
EXTENDS Distributor, TLC

CONSTANTS alice, bob, contract, usd, fees

MCAccounts == {alice, bob, contract}
MCDecimals == (usd :> 7) @@ (fees :> 7)
MCFees == (usd :> 0) @@ (fees :> 1)
OneDecimals == (usd :> 7)
OneFee == (usd :> 0)

alice1 == compute_leaf(alice, 1)
alice2 == compute_leaf(alice, 2)
bob2 == compute_leaf(bob, 2)

(* A single leaf, which is the root itself, and three leaves, two of them   *)
(* for one account, so that the tree is lopsided and allots 5.              *)
MCRoots == {alice1, hash_pair(hash_pair(alice1, bob2), alice2)}
TwoRoots == {hash_pair(alice1, bob2)}

(* The trees are such as the theorem about claimable allotments asks for. *)
ASSUME TreesAreWellFormed == \A root \in Roots : WellFormed(root, Depth)

MCAmounts == {0, 1, 2}
TwoAmounts == {1, 2}
(* A half, all, and more than all. *)
MCPercents == {5000, 10000, 10001}
TwoPercents == {5000}
MCDeadlines == {0, 1}
NoDeadlines == {0}
=============================================================================
