------------------------------- MODULE Merkle -------------------------------
(***************************************************************************)
(* The Distributor's Merkle proofs (contracts/distributor/src/merkle.rs).  *)
(* keccak256 is ideal: a hash is the term it was computed from, so two     *)
(* hashes are equal exactly when their preimages are.  A leaf is never an  *)
(* inner node: an address and an amount are 60 bytes or less of preimage,  *)
(* two hashes are 64.                                                      *)
(***************************************************************************)
EXTENDS Integers, Sequences

compute_leaf(claimant, amount) == [claimant |-> claimant, amount |-> amount]

(* Mutant: the two hashes are taken in the order they come in. *)
hash_pair_unsorted(a, b) == [children |-> {a, b}, first |-> a]

(* The two hashes are sorted first: only which ones they are matters. *)
hash_pair(a, b) == [children |-> {a, b}]

(* The leaf is hashed with each sibling of the proof, up to the root. *)
verify_proof(proof, root, leaf) ==
    LET computed_hash[i \in 0..Len(proof)] ==
            IF i = 0 THEN leaf ELSE hash_pair(computed_hash[i - 1], proof[i])
    IN  computed_hash[Len(proof)] = root

-----------------------------------------------------------------------------
(* The trees behind the roots, which are built off the chain. *)

IsLeaf(hash) == "claimant" \in DOMAIN hash

(* The hashes at most depth levels below the root. *)
Tree(root, depth) ==
    LET below[n \in 0..depth] ==
            IF n = 0 THEN {root}
            ELSE below[n - 1]
                   \cup UNION {h.children : h \in {g \in below[n - 1] : ~IsLeaf(g)}}
    IN  below[depth]

Leaves(root, depth) == {h \in Tree(root, depth) : IsLeaf(h)}

(* A tree as it is meant to be built: of leaves that allot something, and   *)
(* pairs.                                                                   *)
WellFormed(root, depth) ==
    \A h \in Tree(root, depth) :
        IF IsLeaf(h)
        THEN h.amount \in Nat \ {0} /\ h = compute_leaf(h.claimant, h.amount)
        ELSE \E left, right \in h.children : h = hash_pair(left, right)
=============================================================================
