------------------------- MODULE DistributorProofs -------------------------
(***************************************************************************)
(* Theorems about Distributor, for every value of its constants.           *)
(***************************************************************************)
EXTENDS Distributor, LedgerProofs, TLAPS

-----------------------------------------------------------------------------
(* Merkle proofs *)

(* hash[i] is the leaf hashed with the first i siblings of the proof. *)
HashesOf(proof, leaf, n, hash) ==
    hash = [i \in 0..n |-> IF i = 0 THEN leaf ELSE hash_pair(hash[i - 1], proof[i])]

LEMMA HashesExist ==
    ASSUME NEW proof, NEW leaf, NEW n \in Nat
    PROVE  \E hash : HashesOf(proof, leaf, n, hash)
<1> DEFINE Bad == {k \in 0..n : ~ \E hash : HashesOf(proof, leaf, k, hash)}
<1> SUFFICES ASSUME n \in Bad PROVE FALSE
  OBVIOUS
<1>1. PICK k \in Bad : \A y \in Bad : k <= y
  <2>1. Bad \subseteq Nat /\ Bad # {}
    OBVIOUS
  <2> HIDE DEF Bad
  <2>. QED  BY <2>1, LeastNat
<1>2. k # 0
  <2>1. HashesOf(proof, leaf, 0, [i \in 0..0 |-> leaf])
    BY DEF HashesOf
  <2>. QED  BY <1>1, <2>1
<1>3. k - 1 \in 0..n /\ k - 1 \notin Bad /\ k \in 1..n
  BY <1>1, <1>2
<1>4. PICK shorter : HashesOf(proof, leaf, k - 1, shorter)
  BY <1>3
<1> DEFINE hash == [i \in 0..k |-> IF i = k THEN hash_pair(shorter[k - 1], proof[k])
                                           ELSE shorter[i]]
<1>5. ASSUME NEW i \in 0..k
      PROVE  hash[i] = IF i = 0 THEN leaf ELSE hash_pair(hash[i - 1], proof[i])
  <2>1. CASE i = k
    BY <1>3, <2>1
  <2>2. CASE i # k
    <3>1. i \in 0..(k - 1) /\ (i # 0 => i - 1 \in 0..(k - 1) /\ i - 1 # k)
      BY <1>3, <2>2
    <3>. QED  BY <1>4, <2>2, <3>1 DEF HashesOf
  <2>. QED  BY <2>1, <2>2
<1>6. HashesOf(proof, leaf, k, hash)
  BY <1>5 DEF HashesOf
<1>. QED  BY <1>1, <1>6

(* below[k] is what is at most k levels under the root. *)
LevelsOf(root, n, below) ==
    below = [k \in 0..n |->
                IF k = 0 THEN {root}
                ELSE below[k - 1]
                       \cup UNION {h.children : h \in {g \in below[k - 1] : ~IsLeaf(g)}}]

LEMMA LevelsExist ==
    ASSUME NEW root, NEW n \in Nat
    PROVE  \E below : LevelsOf(root, n, below)
<1> DEFINE Under(S) == S \cup UNION {h.children : h \in {g \in S : ~IsLeaf(g)}}
           Bad == {k \in 0..n : ~ \E below : LevelsOf(root, k, below)}
<1> SUFFICES ASSUME n \in Bad PROVE FALSE
  OBVIOUS
<1>1. PICK k \in Bad : \A y \in Bad : k <= y
  <2>1. Bad \subseteq Nat /\ Bad # {}
    OBVIOUS
  <2> HIDE DEF Bad
  <2>. QED  BY <2>1, LeastNat
<1>2. k # 0
  <2>1. LevelsOf(root, 0, [i \in 0..0 |-> {root}])
    BY DEF LevelsOf
  <2>. QED  BY <1>1, <2>1
<1>3. k - 1 \in 0..n /\ k - 1 \notin Bad /\ k \in 1..n
  BY <1>1, <1>2
<1>4. PICK upper : LevelsOf(root, k - 1, upper)
  BY <1>3
<1> DEFINE below == [i \in 0..k |-> IF i = k THEN Under(upper[k - 1]) ELSE upper[i]]
<1>5. ASSUME NEW i \in 0..k
      PROVE  below[i] = IF i = 0 THEN {root} ELSE Under(below[i - 1])
  <2>1. CASE i = k
    <3>1. below[i - 1] = upper[k - 1] /\ i # 0
      BY <1>3, <2>1
    <3>2. below[i] = Under(upper[k - 1])
      BY <2>1
    <3>. HIDE DEF Under, below
    <3>. QED  BY <3>1, <3>2
  <2>2. CASE i # k
    <3>1. i \in 0..(k - 1) /\ (i # 0 => i - 1 \in 0..(k - 1) /\ i - 1 \in 0..k /\ i - 1 # k)
      BY <1>3, <2>2
    <3>2. upper[i] = IF i = 0 THEN {root} ELSE Under(upper[i - 1])
      BY <1>4, <3>1 DEF LevelsOf
    <3>3. below[i] = upper[i] /\ (i # 0 => below[i - 1] = upper[i - 1])
      BY <2>2, <3>1
    <3>. HIDE DEF Under, below
    <3>. QED  BY <3>2, <3>3
  <2>. QED  BY <2>1, <2>2
<1>6. LevelsOf(root, k, below)
  <2>1. below = [i \in 0..k |-> IF i = 0 THEN {root} ELSE Under(below[i - 1])]
    <3>1. below = [i \in 0..k |-> below[i]]
      OBVIOUS
    <3>. HIDE DEF Under, below
    <3>. QED  BY <1>5, <3>1
  <2>. HIDE DEF below
  <2>. QED  BY <2>1 DEF LevelsOf
<1>. QED  BY <1>1, <1>6

(* A proof that leads from a leaf to the root, through no more hashes than  *)
(* the tree is deep, shows that the leaf is in the tree: with an ideal hash *)
(* a path up is a path down.                                                *)
LEMMA VerifiedIsInTree ==
    ASSUME NEW depth \in Nat, NEW m \in 0..depth, NEW H, NEW proof \in [1..m -> H],
           NEW root, NEW leaf, verify_proof(proof, root, leaf)
    PROVE  leaf \in Tree(root, depth)
<1> DEFINE hash == CHOOSE h : HashesOf(proof, leaf, m, h)
           below == CHOOSE b : LevelsOf(root, depth, b)
<1>1. Len(proof) = m
  OBVIOUS
<1>2. HashesOf(proof, leaf, m, hash)
  BY HashesExist
<1>3. LevelsOf(root, depth, below)
  BY LevelsExist
<1>4. hash[m] = root
  <2>1. hash[Len(proof)] = root
    BY <1>1 DEF verify_proof, HashesOf
  <2>. QED  BY <1>1, <2>1
<1>5. Tree(root, depth) = below[depth]
  BY DEF Tree, LevelsOf
<1> HIDE DEF hash, below
<1>6. hash[0] = leaf /\ \A i \in 1..m : hash[i] = hash_pair(hash[i - 1], proof[i])
  BY <1>2 DEF HashesOf
<1>7. /\ below[0] = {root}
      /\ \A k \in 1..depth :
            /\ below[k - 1] \subseteq below[k]
            /\ \A g \in below[k - 1] : ~IsLeaf(g) => g.children \subseteq below[k]
  BY <1>3 DEF LevelsOf
<1>8. \A i \in 0..m : hash[m - i] \in below[i]
  <2> DEFINE Bad == {i \in 0..m : hash[m - i] \notin below[i]}
  <2> SUFFICES ASSUME Bad # {} PROVE FALSE
    OBVIOUS
  <2>1. PICK i \in Bad : \A y \in Bad : i <= y
    <3>1. Bad \subseteq Nat
      OBVIOUS
    <3> HIDE DEF Bad
    <3>. QED  BY <3>1, LeastNat
  <2>2. i # 0
    <3>1. hash[m - 0] \in below[0]
      BY <1>4, <1>7
    <3>. QED  BY <2>1, <3>1
  <2>3. /\ i \in 1..m /\ i - 1 \in 0..m /\ i - 1 \notin Bad
        /\ i \in 1..depth /\ m - i + 1 \in 1..m /\ m - (i - 1) = m - i + 1
        /\ (m - i + 1) - 1 = m - i
    BY <2>1, <2>2
  <2>4. hash[m - i + 1] \in below[i - 1]
    BY <2>3
  <2>5. hash[m - i + 1] = [children |-> {hash[m - i], proof[m - i + 1]}]
    BY <1>6, <2>3 DEF hash_pair
  <2>6. ~IsLeaf(hash[m - i + 1]) /\ hash[m - i] \in hash[m - i + 1].children
    BY <2>5 DEF IsLeaf
  <2>7. hash[m - i] \in below[i]
    BY <1>7, <2>3, <2>4, <2>6
  <2>. QED  BY <2>1, <2>7
<1>9. leaf \in below[m]
  <2>1. hash[m - m] \in below[m] /\ m - m = 0
    BY <1>8
  <2>. QED  BY <1>6, <2>1
<1>10. \A k \in m..depth : leaf \in below[k]
  <2> DEFINE Bad == {k \in m..depth : leaf \notin below[k]}
  <2> SUFFICES ASSUME Bad # {} PROVE FALSE
    OBVIOUS
  <2>1. PICK k \in Bad : \A y \in Bad : k <= y
    <3>1. Bad \subseteq Nat
      OBVIOUS
    <3> HIDE DEF Bad
    <3>. QED  BY <3>1, LeastNat
  <2>2. k # m
    BY <1>9, <2>1
  <2>3. k \in 1..depth /\ k - 1 \in m..depth /\ k - 1 \notin Bad
    BY <2>1, <2>2
  <2>4. leaf \in below[k - 1] /\ below[k - 1] \subseteq below[k]
    BY <1>7, <2>3
  <2>. QED  BY <2>1, <2>4
<1>. QED  BY <1>5, <1>10

(* What the tree allots is all that can be proved to it. *)
LEMMA VerifiedIsAllotted ==
    ASSUME NEW proof \in Proofs, NEW root, NEW claimant, NEW amount,
           verify_proof(proof, root, compute_leaf(claimant, amount))
    PROVE  compute_leaf(claimant, amount) \in Leaves(root, Depth)
<1>1. PICK n \in 0..Depth : proof \in [1..n -> Hashes]
  BY DEF Proofs
<1>2. compute_leaf(claimant, amount) \in Tree(root, Depth)
  BY <1>1, DistributorAssumption, VerifiedIsInTree
<1>3. IsLeaf(compute_leaf(claimant, amount))
  BY DEF IsLeaf, compute_leaf
<1>. QED  BY <1>2, <1>3 DEF Leaves

(* What is under a hash of the tree stays in it down to its depth. *)
LEMMA LevelsGrow ==
    ASSUME NEW depth \in Nat, NEW root, NEW below, LevelsOf(root, depth, below),
           NEW k \in 0..depth, NEW h \in below[k]
    PROVE  h \in below[depth]
<1> DEFINE Bad == {j \in k..depth : h \notin below[j]}
<1> SUFFICES ASSUME Bad # {} PROVE FALSE
  OBVIOUS
<1>1. PICK j \in Bad : \A y \in Bad : j <= y
  <2>1. Bad \subseteq Nat
    OBVIOUS
  <2> HIDE DEF Bad
  <2>. QED  BY <2>1, LeastNat
<1>2. j # k /\ j \in 1..depth /\ j - 1 \in k..depth /\ j - 1 \notin Bad
  BY <1>1
<1>3. below[j - 1] \subseteq below[j]
  BY <1>2 DEF LevelsOf
<1>. QED  BY <1>1, <1>2, <1>3

(* A proof for a pair becomes one for either half, with the other half      *)
(* hashed first.                                                            *)
LEMMA ProofGrows ==
    ASSUME NEW m \in Nat, NEW H, NEW proof \in [1..m -> H], NEW root,
           NEW half, NEW sibling \in H,
           verify_proof(proof, root, hash_pair(half, sibling))
    PROVE  \E longer \in [1..(m + 1) -> H] : verify_proof(longer, root, half)
<1> DEFINE parent == hash_pair(half, sibling)
           longer == [i \in 1..(m + 1) |-> IF i = 1 THEN sibling ELSE proof[i - 1]]
           hash == CHOOSE h : HashesOf(proof, parent, m, h)
           hash2 == CHOOSE h : HashesOf(longer, half, m + 1, h)
<1>1. longer \in [1..(m + 1) -> H] /\ Len(proof) = m /\ Len(longer) = m + 1
  OBVIOUS
<1>2. HashesOf(proof, parent, m, hash)
  BY HashesExist
<1>3. HashesOf(longer, half, m + 1, hash2)
  <2>. HIDE DEF longer
  <2>1. m + 1 \in Nat
    OBVIOUS
  <2>. QED  BY <2>1, HashesExist
<1>4. hash[m] = root
  <2>1. hash[Len(proof)] = root
    BY <1>1 DEF verify_proof, HashesOf
  <2>. QED  BY <1>1, <2>1
<1>5. hash2[m + 1] = root => verify_proof(longer, root, half)
  BY <1>1 DEF verify_proof, HashesOf
<1>6. /\ longer[1] = sibling
      /\ \A i \in 1..m : longer[i + 1] = proof[i]
  OBVIOUS
<1> HIDE DEF hash, hash2, longer
<1>7. /\ hash[0] = parent /\ \A i \in 1..m : hash[i] = hash_pair(hash[i - 1], proof[i])
      /\ hash2[0] = half
      /\ \A i \in 1..(m + 1) : hash2[i] = hash_pair(hash2[i - 1], longer[i])
  BY <1>2, <1>3 DEF HashesOf
<1>8. \A i \in 0..m : hash2[i + 1] = hash[i]
  <2> DEFINE Bad == {i \in 0..m : hash2[i + 1] # hash[i]}
  <2> SUFFICES ASSUME Bad # {} PROVE FALSE
    OBVIOUS
  <2>1. PICK i \in Bad : \A y \in Bad : i <= y
    <3>1. Bad \subseteq Nat
      OBVIOUS
    <3> HIDE DEF Bad
    <3>. QED  BY <3>1, LeastNat
  <2>2. i # 0
    <3>1. 1 \in 1..(m + 1) /\ 1 - 1 = 0 /\ 0 + 1 = 1
      OBVIOUS
    <3>2. hash2[1] = hash_pair(half, sibling)
      BY <1>6, <1>7, <3>1
    <3>3. hash2[0 + 1] = hash[0]
      BY <1>7, <3>1, <3>2
    <3>. QED  BY <2>1, <3>3
  <2>3. /\ i \in 1..m /\ i - 1 \in 0..m /\ i - 1 \notin Bad
        /\ i + 1 \in 1..(m + 1) /\ (i - 1) + 1 = i /\ (i + 1) - 1 = i
    BY <2>1, <2>2
  <2>4. hash2[i] = hash[i - 1]
    BY <2>3
  <2>5. hash2[i + 1] = hash_pair(hash2[i], longer[i + 1])
    BY <1>7, <2>3
  <2>6. hash2[i + 1] = hash[i]
    BY <1>6, <1>7, <2>3, <2>4, <2>5
  <2>. QED  BY <2>1, <2>6
<1>9. hash2[m + 1] = root
  BY <1>4, <1>8
<1>. QED  BY <1>1, <1>5, <1>9

(* Conversely, what is in a tree of leaves and pairs has a proof of the     *)
(* tree's hashes: the siblings on the way up.                               *)
LEMMA InTreeIsVerified ==
    ASSUME NEW depth \in Nat, NEW root, WellFormed(root, depth),
           NEW H, Tree(root, depth) \subseteq H, NEW leaf \in Tree(root, depth)
    PROVE  \E m \in 0..depth : \E proof \in [1..m -> H] : verify_proof(proof, root, leaf)
<1> DEFINE below == CHOOSE b : LevelsOf(root, depth, b)
           Proved(g, k) ==
               \E m \in 0..k : \E proof \in [1..m -> H] : verify_proof(proof, root, g)
           Bad == {k \in 0..depth : \E g \in below[k] : ~Proved(g, k)}
<1>1. LevelsOf(root, depth, below)
  BY LevelsExist
<1>2. Tree(root, depth) = below[depth]
  BY DEF Tree, LevelsOf
<1> HIDE DEF below
<1>3. SUFFICES ASSUME Bad # {} PROVE FALSE
  BY <1>2
<1>4. PICK k \in Bad : \A y \in Bad : k <= y
  <2>1. Bad \subseteq Nat
    OBVIOUS
  <2> HIDE DEF Bad
  <2>. QED  BY <1>3, <2>1, LeastNat
<1>5. PICK g \in below[k] : ~Proved(g, k)
  BY <1>4
<1>6. k # 0
  <2>1. below[0] = {root}
    BY <1>1 DEF LevelsOf
  <2>2. << >> \in [1..0 -> H] /\ Len(<< >>) = 0
    OBVIOUS
  <2>3. verify_proof(<< >>, root, root)
    <3> DEFINE hash == CHOOSE h : HashesOf(<< >>, root, 0, h)
    <3>1. HashesOf(<< >>, root, 0, hash)
      BY HashesExist
    <3>2. hash[0] = root
      BY <3>1 DEF HashesOf
    <3>. QED  BY <2>2, <3>2 DEF verify_proof, HashesOf
  <2>4. \E proof \in [1..0 -> H] : verify_proof(proof, root, root)
    BY <2>2, <2>3, Zenon
  <2>5. Proved(root, 0)
    <3>1. 0 \in 0..0
      OBVIOUS
    <3>. QED  BY <2>4, <3>1, Zenon
  <2>. QED  BY <1>5, <2>1, <2>5
<1>7. k \in 1..depth /\ k - 1 \in 0..depth /\ k - 1 \notin Bad
  BY <1>4, <1>6
<1>8. /\ k \in Nat /\ below[k - 1] \subseteq below[k]
      /\ \A p \in below[k - 1] : ~IsLeaf(p) => p.children \subseteq below[k]
      /\ g \notin below[k - 1] =>
            \E p \in below[k - 1] : ~IsLeaf(p) /\ g \in p.children
  BY <1>1, <1>7 DEF LevelsOf
<1>9. g \notin below[k - 1]
  <2>1. Proved(g, k - 1) => Proved(g, k)
    BY <1>8
  <2>. QED  BY <1>5, <1>7, <2>1
<1>10. PICK p \in below[k - 1] : ~IsLeaf(p) /\ g \in p.children
  BY <1>8, <1>9
<1>11. p \in Tree(root, depth)
  BY <1>1, <1>2, <1>7, LevelsGrow
<1>12. PICK left \in p.children, right \in p.children : p = hash_pair(left, right)
  BY <1>10, <1>11 DEF WellFormed
<1>13. p.children = {left, right}
  BY <1>12 DEF hash_pair
<1> DEFINE sibling == IF g = left THEN right ELSE left
<1>14. p = hash_pair(g, sibling)
  BY <1>10, <1>12, <1>13 DEF hash_pair
<1>15. sibling \in H
  <2>1. sibling \in below[k]
    BY <1>8, <1>10
  <2>. QED  BY <1>1, <1>2, <1>7, <2>1, LevelsGrow
<1>16. PICK m \in 0..(k - 1) : \E proof \in [1..m -> H] : verify_proof(proof, root, p)
  BY <1>7, <1>10
<1>17. PICK proof \in [1..m -> H] : verify_proof(proof, root, p)
  BY <1>16
<1> HIDE DEF sibling
<1>18. m \in Nat /\ m + 1 \in 0..k
  BY <1>7, <1>16
<1>19. \E longer \in [1..(m + 1) -> H] : verify_proof(longer, root, g)
  BY <1>14, <1>15, <1>17, <1>18, ProofGrows
<1>. QED  BY <1>5, <1>18, <1>19

-----------------------------------------------------------------------------
(* The invariant *)

USE DEF Ids, Wallets

(* The history has an entry of every account for every distribution, and    *)
(* what an account took is not 0 only after its claim: it claims once, so   *)
(* that all it took is the one amount it proved.                            *)
History ==
    /\ taken \in [Ids -> [Accounts -> Nat]]
    /\ \A id \in Ids, a \in Accounts : taken[id][a] # 0 => <<id, a>> \in claimed

(* There is an address for the fee as soon as somebody can set a fee. *)
FeeHasAddress == admin # NoAccount => protocolFeeAddress # NoAccount

IInv ==
    /\ TypeOK
    /\ FeeHasAddress
    /\ History
    /\ ClaimsAreBooked
    /\ ClaimedAsAllotted
    /\ ExactTokensSolvent

(* What the invariant says of the parts the lemmas below use. *)
LEMMA RecordTypes ==
    ASSUME IInv, NEW id \in Ids
    PROVE  /\ distributions[id] \in DistributionRecord
           /\ distributions[id].admin \in Accounts
           /\ distributions[id].token \in Tokens
           /\ distributions[id].total_amount \in Nat
           /\ distributions[id].total_amount <= MaxI128
           /\ distributions[id].claimed_amount \in Nat
           /\ distributions[id].claimed_amount <= distributions[id].total_amount
           /\ distributions[id].is_cancelled \in BOOLEAN
           /\ Remaining(distributions[id]) \in Nat
<1>1. distributions[id] \in DistributionRecord
  BY DEF IInv, TypeOK
<1>2. /\ distributions[id].admin \in Accounts
      /\ distributions[id].token \in Tokens
      /\ distributions[id].total_amount \in Nat
      /\ distributions[id].total_amount <= MaxI128
      /\ distributions[id].claimed_amount \in Nat
      /\ distributions[id].is_cancelled \in BOOLEAN
  BY <1>1, DistributorAssumption DEF DistributionRecord
<1>3. distributions[id].claimed_amount <= distributions[id].total_amount
  BY DEF IInv, ClaimsAreBooked
<1>4. Remaining(distributions[id]) \in Nat
  BY <1>2, <1>3 DEF Remaining
<1>. QED  BY <1>1, <1>2, <1>3, <1>4

LEMMA StateTypes ==
    ASSUME IInv
    PROVE  /\ nextDistributionId - 1 \in Nat
           /\ nextDistributionId \in Nat
           /\ distributions \in [Ids -> DistributionRecord]
           /\ taken \in [Ids -> [Accounts -> Nat]]
           /\ wallet \in Wallets
           /\ \A token : Held(token) \in [Ids -> Nat]
<1>1. /\ nextDistributionId - 1 \in Nat
      /\ nextDistributionId \in Nat
      /\ distributions \in [Ids -> DistributionRecord]
      /\ taken \in [Ids -> [Accounts -> Nat]]
      /\ wallet \in Wallets
  BY DistributorAssumption DEF IInv, TypeOK, History
<1>2. \A id \in Ids : Remaining(distributions[id]) \in Nat
  BY RecordTypes
<1>3. ASSUME NEW token PROVE Held(token) \in [Ids -> Nat]
  BY <1>2 DEF Held
<1>. QED  BY <1>1, <1>3

(* Replacing the progress of a record keeps it storable. *)
LEMMA BookedType ==
    ASSUME NEW d \in DistributionRecord, NEW amount \in 0..MaxI128, NEW cancelled \in BOOLEAN
    PROVE  /\ Booked(d, amount, cancelled) \in DistributionRecord
           /\ Booked(d, amount, cancelled).token = d.token
           /\ Booked(d, amount, cancelled).merkle_root = d.merkle_root
           /\ Booked(d, amount, cancelled).total_amount = d.total_amount
           /\ Booked(d, amount, cancelled).claimed_amount = amount
  BY DEF Booked, DistributionRecord

-----------------------------------------------------------------------------
(* The tokens behind the distributions *)

(* A distribution that gives up as much as is paid out of the contract      *)
(* keeps the exact tokens solvent.                                          *)
LEMMA SolventAfterPaying ==
    ASSUME IInv, NEW id \in Ids, NEW d, NEW paid \in Int,
           d.token = distributions[id].token,
           Remaining(d) = Remaining(distributions[id]) - paid,
           Remaining(d) \in Int,
           distributions' = [distributions EXCEPT ![id] = d],
           nextDistributionId' = nextDistributionId,
           wallet' \in Wallets,
           wallet'[d.token][Self] >= wallet[d.token][Self] - paid,
           \A other \in Tokens \ {d.token} : wallet'[other] = wallet[other]
    PROVE  ExactTokensSolvent'
<1> DEFINE last == nextDistributionId - 1
<1>0. /\ last \in Nat
      /\ distributions \in [Ids -> DistributionRecord]
      /\ Self \in Accounts
      /\ Remaining(distributions[id]) \in Nat
  BY StateTypes, RecordTypes, DistributorAssumption
<1> SUFFICES ASSUME NEW token \in Tokens, TransferFee[token] = 0
             PROVE  wallet'[token][Self] >= Total(Held(token)', last)
  BY DEF ExactTokensSolvent
<1>1. /\ Held(token) \in [1..last -> Int]
      /\ wallet[token][Self] >= Total(Held(token), last)
      /\ wallet[token][Self] \in Nat /\ wallet'[token][Self] \in Nat
  BY <1>0, StateTypes DEF IInv, ExactTokensSolvent
<1>2. \A i \in 1..last : distributions'[i] = IF i = id THEN d ELSE distributions[i]
  BY <1>0
<1>3. \A i \in 1..last \ {id} : Held(token)'[i] = Held(token)[i]
  BY <1>2 DEF Held, Remaining
<1>4. /\ Held(token)[id] = IF d.token = token THEN Remaining(distributions[id]) ELSE 0
      /\ Held(token)'[id] = IF d.token = token THEN Remaining(d) ELSE 0
  BY <1>2 DEF Held, Remaining
<1>5. Held(token)' \in [1..last -> Int]
  <2>1. \A i \in 1..last : Held(token)'[i] \in Int
    BY <1>1, <1>3, <1>4
  <2>. QED  BY <2>1 DEF Held
<1>6. Total(Held(token)', last)
        = Total(Held(token), last) + (Held(token)'[id] - Held(token)[id])
  <2> DEFINE before == Held(token)
             after == Held(token)'
  <2>1. /\ last \in Nat /\ id \in 1..last
        /\ before \in [1..last -> Int] /\ after \in [1..last -> Int]
        /\ \A i \in 1..last \ {id} : after[i] = before[i]
    BY <1>0, <1>1, <1>3, <1>5
  <2>. HIDE DEF before, after, last
  <2>2. Total(after, last) = Total(before, last) + (after[id] - before[id])
    BY <2>1, TotalUpdated
  <2>. QED  BY <2>2 DEF before, after
<1>7. Total(Held(token), last) \in Int
  BY <1>0, <1>1, TotalType
<1>8. CASE token = d.token
  <2>1. Held(token)'[id] - Held(token)[id] = -paid
    BY <1>0, <1>4, <1>8
  <2>. QED  BY <1>1, <1>6, <1>7, <1>8, <2>1
<1>9. CASE token # d.token
  <2>1. Held(token)'[id] - Held(token)[id] = 0 /\ wallet'[token] = wallet[token]
    BY <1>4, <1>9
  <2>. QED  BY <1>1, <1>6, <1>7, <2>1
<1>. QED  BY <1>8, <1>9

-----------------------------------------------------------------------------
(* The invariant holds at the start and every operation keeps it *)

LEMMA InitKeeps == Init => IInv
<1> SUFFICES ASSUME Init PROVE IInv
  OBVIOUS
<1> USE DEF Init
<1>1. Ids = {}
  OBVIOUS
<1>2. TypeOK
  BY <1>1, DistributorAssumption DEF TypeOK, BasisPoints
<1>3. FeeHasAddress
  BY DEF FeeHasAddress
<1>4. History /\ ClaimsAreBooked /\ ClaimedAsAllotted
  BY <1>1 DEF History, ClaimsAreBooked, ClaimedAsAllotted
<1>5. ExactTokensSolvent
  BY TotalType, DistributorAssumption DEF ExactTokensSolvent
<1>. QED  BY <1>2, <1>3, <1>4, <1>5 DEF IInv

(* A step that leaves the books alone. *)
LEMMA BooksKept ==
    ASSUME IInv, UNCHANGED books, TypeOK', FeeHasAddress'
    PROVE  IInv'
<1> USE DEF IInv, books
<1>1. History'
  BY DEF History
<1>2. ClaimsAreBooked'
  BY DEF ClaimsAreBooked
<1>3. ClaimedAsAllotted'
  BY DEF ClaimedAsAllotted
<1>4. ExactTokensSolvent'
  BY DEF ExactTokensSolvent, Held, Remaining
<1>. QED  BY <1>1, <1>2, <1>3, <1>4

LEMMA TickKeeps == ASSUME IInv, Tick PROVE IInv'
<1> USE DEF Tick, config, books
<1>1. TypeOK'
  BY DEF IInv, TypeOK
<1>2. FeeHasAddress'
  BY DEF IInv, FeeHasAddress
<1>. QED  BY <1>1, <1>2, BooksKept

LEMMA ConfigureKeeps == ASSUME IInv, Configure PROVE IInv'
<1>1. PICK caller \in Callers :
        \/ \E address \in Accounts : \/ initialize(caller, address)
                                     \/ set_admin(caller, address)
                                     \/ set_protocol_fee_address(caller, address)
        \/ \E percent \in Percents : set_protocol_fee_percent(caller, percent)
  BY DEF Configure
<1>2. /\ caller \in Accounts /\ caller # NoAccount
      /\ \A address \in Accounts : address # NoAccount
  BY DistributorAssumption DEF Callers
<1>3. UNCHANGED books /\ now' = now
  BY <1>1 DEF initialize, set_admin, set_protocol_fee_address, set_protocol_fee_percent
<1>4. TypeOK'
  <2>1. /\ admin' \in Accounts \cup {NoAccount}
        /\ protocolFeePercent' \in 0..BasisPoints
        /\ protocolFeeAddress' \in Accounts \cup {NoAccount}
        /\ protocolFeePercent' > 0 => protocolFeeAddress' # NoAccount
    <3>1. ASSUME NEW address \in Accounts,
                 \/ initialize(caller, address)
                 \/ set_admin(caller, address)
                 \/ set_protocol_fee_address(caller, address)
          PROVE  /\ admin' \in Accounts \cup {NoAccount}
                 /\ protocolFeePercent' \in 0..BasisPoints
                 /\ protocolFeeAddress' \in Accounts \cup {NoAccount}
                 /\ protocolFeePercent' > 0 => protocolFeeAddress' # NoAccount
      BY <1>2, <3>1 DEF initialize, set_admin, set_protocol_fee_address, IInv, TypeOK
    <3>2. ASSUME NEW percent \in Percents, set_protocol_fee_percent(caller, percent)
          PROVE  /\ admin' \in Accounts \cup {NoAccount}
                 /\ protocolFeePercent' \in 0..BasisPoints
                 /\ protocolFeeAddress' \in Accounts \cup {NoAccount}
                 /\ protocolFeePercent' > 0 => protocolFeeAddress' # NoAccount
      <4>1. percent \in 0..BasisPoints
        BY <3>2, DistributorAssumption DEF set_protocol_fee_percent, BasisPoints
      <4>2. protocolFeeAddress # NoAccount
        BY <1>2, <3>2 DEF set_protocol_fee_percent, IInv, FeeHasAddress
      <4>. QED  BY <3>2, <4>1, <4>2 DEF set_protocol_fee_percent, IInv, TypeOK
    <3>. QED  BY <1>1, <3>1, <3>2
  <2>. QED  BY <1>3, <2>1 DEF books, IInv, TypeOK
<1>5. FeeHasAddress'
  BY <1>1, <1>2 DEF initialize, set_admin, set_protocol_fee_address,
                    set_protocol_fee_percent, IInv, FeeHasAddress
<1>. QED  BY <1>3, <1>4, <1>5, BooksKept

(* A new distribution: its record and its history are added, its deposit   *)
(* is paid in.                                                              *)
LEMMA CreateKeeps == ASSUME IInv, Create PROVE IInv'
<1>1. PICK creator \in Callers, token \in Tokens, root \in Roots, amount \in Amounts,
           deadline \in Deadlines :
        create_distribution(creator, token, root, amount, deadline)
  BY DEF Create
<1> DEFINE last == nextDistributionId - 1
           new == nextDistributionId
           d == [admin |-> creator, token |-> token, merkle_root |-> root,
                 total_amount |-> amount, claimed_amount |-> 0,
                 deadline |-> deadline, is_cancelled |-> FALSE]
<1>2. /\ creator \in Accounts /\ creator # Self /\ Self \in Accounts
      /\ amount \in Nat /\ amount \in 1..MaxI128
      /\ deadline \in Nat
      /\ MaxDistributions \in Nat
      /\ IsFiniteSet(Accounts)
  BY <1>1, DistributorAssumption DEF Callers, create_distribution
<1>3. /\ last \in Nat /\ new \in Nat /\ new = last + 1 /\ last + 1 - 1 = last
      /\ distributions \in [1..last -> DistributionRecord]
      /\ taken \in [1..last -> [Accounts -> Nat]]
      /\ wallet \in Wallets
  BY StateTypes
<1>4. /\ nextDistributionId' = new + 1
      /\ nextDistributionId' - 1 = new
      /\ new <= MaxDistributions
      /\ distributions' = [id \in 1..new |-> IF id < new THEN distributions[id] ELSE d]
      /\ taken' = [id \in 1..new |-> IF id < new THEN taken[id] ELSE [a \in Accounts |-> 0]]
      /\ UNCHANGED <<now, config, claimed>>
      /\ CanTransfer(wallet, token, creator, amount)
      /\ wallet' = Transferred(wallet, token, creator, Self, amount)
  BY <1>1, <1>3 DEF create_distribution
<1>5. d \in DistributionRecord
  BY <1>2, DistributorAssumption DEF DistributionRecord
<1>6. /\ \A id \in 1..last : /\ id \in 1..new /\ id # new
                             /\ distributions'[id] = distributions[id]
                             /\ taken'[id] = taken[id]
      /\ \A id \in 1..new : id # new => id \in 1..last
      /\ new \in 1..new
      /\ distributions'[new] = d /\ taken'[new] = [a \in Accounts |-> 0]
  BY <1>3, <1>4
<1>7. /\ wallet' \in Wallets
      /\ \A other \in Tokens \ {token} : wallet'[other] = wallet[other]
  <2> DEFINE after == Transferred(wallet, token, creator, Self, amount)
  <2>1. /\ CanTransfer(wallet, token, creator, amount) /\ wallet' = after
        /\ wallet \in Wallets /\ amount \in Nat
        /\ creator \in Accounts /\ Self \in Accounts
    BY <1>2, <1>3, <1>4
  <2>2. /\ after \in Wallets
        /\ \A other \in Tokens \ {token} : after[other] = wallet[other]
    BY <2>1, TransferType
  <2>. HIDE DEF after
  <2>. QED  BY <2>1, <2>2
<1> HIDE DEF d
<1>8. distributions' \in [1..new -> DistributionRecord]
  BY <1>3, <1>4, <1>5
<1>9. taken' \in [1..new -> [Accounts -> Nat]]
  BY <1>3, <1>4
<1>10. TypeOK'
  <2>1. nextDistributionId' \in 1..(MaxDistributions + 1)
    BY <1>2, <1>3, <1>4
  <2>2. claimed' \subseteq Ids' \X Callers
    <3>1. claimed \subseteq (1..last) \X Callers /\ claimed' = claimed
      BY <1>4 DEF IInv, TypeOK
    <3>2. \A id \in 1..last : id \in Ids'
      BY <1>4, <1>6
    <3>. QED  BY <3>1, <3>2
  <2>3. Ids' = 1..new
    BY <1>4
  <2>. QED  BY <1>4, <1>7, <1>8, <2>1, <2>2, <2>3 DEF IInv, TypeOK, config
<1>11. FeeHasAddress'
  BY <1>4 DEF IInv, FeeHasAddress, config
<1>12. History'
  <2>1. ASSUME NEW id \in 1..new, NEW a \in Accounts, taken'[id][a] # 0
        PROVE  <<id, a>> \in claimed'
    <3>1. id # new
      BY <1>6, <2>1
    <3>2. id \in 1..last /\ taken[id][a] # 0
      BY <1>6, <2>1, <3>1
    <3>. QED  BY <1>4, <3>2 DEF IInv, History
  <2>. QED  BY <1>4, <1>9, <2>1 DEF History
<1>13. ClaimsAreBooked'
  <2>1. ASSUME NEW id \in 1..new
        PROVE  /\ distributions'[id].claimed_amount = SumOver(taken'[id], Accounts)
               /\ distributions'[id].claimed_amount <= distributions'[id].total_amount
    <3>1. CASE id = new
      <4>1. SumOver(taken'[id], Accounts) = 0
        <5>1. \A x \in Accounts : taken'[id][x] = 0
          BY <1>6, <3>1
        <5>. QED  BY <1>2, <5>1, SumOverZero
      <4>2. d.claimed_amount = 0 /\ d.total_amount = amount
        BY DEF d
      <4>. QED  BY <1>2, <1>6, <3>1, <4>1, <4>2
    <3>2. CASE id # new
      <4>1. id \in 1..last
        BY <1>6, <3>2
      <4>. QED  BY <1>6, <4>1 DEF IInv, ClaimsAreBooked
    <3>. QED  BY <3>1, <3>2
  <2>. QED  BY <1>4, <2>1 DEF ClaimsAreBooked
<1>14. ClaimedAsAllotted'
  <2>1. ASSUME NEW id \in 1..new, NEW a \in Accounts, taken'[id][a] # 0
        PROVE  \E leaf \in Leaves(distributions'[id].merkle_root, Depth) :
                  leaf.claimant = a /\ leaf.amount = taken'[id][a]
    <3>1. id # new
      BY <1>6, <2>1
    <3>2. id \in 1..last /\ taken[id][a] # 0
      BY <1>6, <2>1, <3>1
    <3>. QED  BY <1>6, <3>2 DEF IInv, ClaimedAsAllotted
  <2>. QED  BY <1>4, <2>1 DEF ClaimedAsAllotted
<1>15. ExactTokensSolvent'
  <2> SUFFICES ASSUME NEW t \in Tokens, TransferFee[t] = 0
               PROVE  wallet'[t][Self] >= Total(Held(t)', new)
    BY <1>4 DEF ExactTokensSolvent
  <2>1. /\ Held(t) \in [1..last -> Int]
        /\ wallet[t][Self] >= Total(Held(t), last)
        /\ wallet[t][Self] \in Nat /\ wallet'[t][Self] \in Nat
    BY <1>2, <1>3, <1>7, StateTypes DEF IInv, ExactTokensSolvent
  <2>2. Remaining(d) = amount /\ d.token = token
    BY <1>2 DEF Remaining, d
  <2>3. Held(t)' = [id \in 1..new |->
                      IF distributions'[id].token = t THEN Remaining(distributions'[id]) ELSE 0]
    BY <1>4 DEF Held, Remaining
  <2>4. \A id \in 1..last : Held(t)'[id] = Held(t)[id]
    BY <1>6, <2>3 DEF Held
  <2>5. Held(t)'[new] = IF t = token THEN amount ELSE 0
    BY <1>6, <2>2, <2>3
  <2>6. Held(t)' \in [1..(last + 1) -> Int]
    <3>1. \A id \in 1..last : Held(t)'[id] \in Int
      BY <2>1, <2>4
    <3>2. Held(t)'[new] \in Int
      BY <1>2, <2>5
    <3>3. \A id \in 1..new : Held(t)'[id] \in Int
      BY <1>6, <3>1, <3>2
    <3>. QED  BY <1>3, <2>3, <3>3
  <2>. HIDE DEF last, new
  <2>7. Total(Held(t)', last + 1) = Total(Held(t)', last) + Held(t)'[last + 1]
    BY <1>3, <2>6, TotalGrows
  <2>8. Total(Held(t)', last) = Total(Held(t), last) /\ Total(Held(t), last) \in Int
    BY <1>3, <2>1, <2>4, TotalSame, TotalType
  <2>9. CASE t = token
    <3>1. wallet'[t][Self] = wallet[t][Self] + amount
      <4> DEFINE after == Transferred(wallet, token, creator, Self, amount)
      <4>1. /\ wallet \in Wallets /\ TransferFee[token] = 0
            /\ creator # Self /\ Self \in Accounts /\ amount \in Nat
        BY <1>2, <1>3, <2>9
      <4>2. after[token][Self] = wallet[token][Self] + amount
        BY <4>1, TransferDelivers
      <4>3. wallet' = after
        BY <1>4
      <4> HIDE DEF after
      <4>. QED  BY <2>9, <4>2, <4>3
    <3>. QED  BY <1>2, <1>3, <2>1, <2>5, <2>7, <2>8, <2>9, <3>1
  <2>10. CASE t # token
    <3>1. wallet'[t] = wallet[t]
      BY <1>7, <2>10
    <3>. QED  BY <1>3, <2>1, <2>5, <2>7, <2>8, <2>10, <3>1
  <2>. QED  BY <2>9, <2>10
<1>. QED  BY <1>10, <1>11, <1>12, <1>13, <1>14, <1>15 DEF IInv

(* A cancellation gives back no more than the distribution still holds, and *)
(* the books of its claims stay as they are.                                *)
LEMMA CancelKeeps == ASSUME IInv, Cancel PROVE IInv'
<1>1. PICK id \in 1..MaxDistributions, caller \in Callers : cancel_distribution(id, caller)
  BY DEF Cancel
<1> DEFINE d == distributions[id]
           closed == Booked(d, d.claimed_amount, TRUE)
           paid == Remaining(d)
<1>2. /\ id \in Ids
      /\ CanTransfer(wallet, d.token, Self, paid)
      /\ wallet' = Transferred(wallet, d.token, Self, d.admin, paid)
      /\ distributions' = [distributions EXCEPT ![id] = closed]
      /\ UNCHANGED <<now, config, nextDistributionId, claimed, taken>>
  BY <1>1 DEF cancel_distribution
<1>3. /\ d \in DistributionRecord
      /\ d.token \in Tokens /\ d.admin \in Accounts /\ Self \in Accounts
      /\ d.claimed_amount \in 0..MaxI128
      /\ paid \in Nat
  BY <1>2, RecordTypes, DistributorAssumption DEF DistributionRecord
<1>4. /\ closed \in DistributionRecord
      /\ closed.token = d.token
      /\ closed.merkle_root = d.merkle_root
      /\ closed.total_amount = d.total_amount
      /\ closed.claimed_amount = d.claimed_amount
      /\ Remaining(closed) = 0
  <2>1. closed.is_cancelled = TRUE
    BY DEF Booked
  <2>. QED  BY <1>3, <2>1, BookedType DEF Remaining
<1>5. /\ distributions \in [Ids -> DistributionRecord]
      /\ taken \in [Ids -> [Accounts -> Nat]]
      /\ wallet \in Wallets
  BY StateTypes
<1>6. /\ wallet' \in Wallets
      /\ wallet'[d.token][Self] >= wallet[d.token][Self] - paid
      /\ \A other \in Tokens \ {d.token} : wallet'[other] = wallet[other]
  <2> DEFINE after == Transferred(wallet, d.token, Self, d.admin, paid)
  <2> HIDE DEF d, paid
  <2>1. /\ after \in Wallets
        /\ after[d.token][Self] >= wallet[d.token][Self] - paid
        /\ \A other \in Tokens \ {d.token} : after[other] = wallet[other]
    BY <1>2, <1>3, <1>5, TransferType
  <2>2. wallet' = after
    BY <1>2
  <2>. HIDE DEF after
  <2>. QED  BY <2>1, <2>2
<1> HIDE DEF closed
<1>7. /\ Ids' = Ids
      /\ \A i \in Ids : distributions'[i] = IF i = id THEN closed ELSE distributions[i]
      /\ taken' = taken /\ claimed' = claimed
  BY <1>2, <1>5
<1>8. \A i \in Ids : /\ distributions'[i].claimed_amount = distributions[i].claimed_amount
                     /\ distributions'[i].total_amount = distributions[i].total_amount
                     /\ distributions'[i].merkle_root = distributions[i].merkle_root
  BY <1>4, <1>7
<1>9. TypeOK'
  <2>1. distributions' \in [Ids -> DistributionRecord]
    BY <1>2, <1>4, <1>5
  <2>. QED  BY <1>2, <1>6, <1>7, <2>1 DEF IInv, TypeOK, config
<1>10. FeeHasAddress'
  BY <1>2 DEF IInv, FeeHasAddress, config
<1>11. History'
  BY <1>7 DEF IInv, History
<1>12. ClaimsAreBooked'
  BY <1>7, <1>8 DEF IInv, ClaimsAreBooked
<1>13. ClaimedAsAllotted'
  <2>1. ASSUME NEW i \in Ids, NEW a \in Accounts, taken[i][a] # 0
        PROVE  \E leaf \in Leaves(distributions'[i].merkle_root, Depth) :
                  leaf.claimant = a /\ leaf.amount = taken[i][a]
    BY <1>8, <2>1 DEF IInv, ClaimedAsAllotted
  <2>. QED  BY <1>7, <2>1 DEF ClaimedAsAllotted
<1>14. ExactTokensSolvent'
  <2>1. /\ closed.token = distributions[id].token
        /\ Remaining(closed) = Remaining(distributions[id]) - paid
        /\ Remaining(closed) \in Int /\ paid \in Int
        /\ nextDistributionId' = nextDistributionId
    BY <1>2, <1>3, <1>4
  <2>2. /\ wallet'[closed.token][Self] >= wallet[closed.token][Self] - paid
        /\ \A other \in Tokens \ {closed.token} : wallet'[other] = wallet[other]
    BY <1>4, <1>6
  <2>. HIDE DEF paid, d
  <2>. QED  BY <1>2, <1>6, <2>1, <2>2, SolventAfterPaying
<1>. QED  BY <1>9, <1>10, <1>11, <1>12, <1>13, <1>14 DEF IInv

(* A claim books what it pays out, once for each claimant and as proved.   *)
LEMMA ClaimKeeps == ASSUME IInv, Claim PROVE IInv'
<1>1. PICK claimant \in Callers, id \in 1..MaxDistributions, amount \in Amounts,
           proof \in Proofs : claim(claimant, id, amount, proof)
  BY DEF Claim
<1> DEFINE d == distributions[id]
           booked == Booked(d, d.claimed_amount + amount, d.is_cancelled)
           fee == protocol_fee(amount)
           charged == Charged(d.token, amount)
<1>2. /\ id \in Ids
      /\ ~d.is_cancelled
      /\ <<id, claimant>> \notin claimed
      /\ amount > 0
      /\ verify_proof(proof, d.merkle_root, compute_leaf(claimant, amount))
      /\ d.claimed_amount + amount <= d.total_amount
      /\ fee > 0 => protocolFeeAddress # NoAccount
      /\ CanTransfer(wallet, d.token, Self, fee)
      /\ CanTransfer(charged, d.token, Self, amount - fee)
      /\ distributions' = [distributions EXCEPT ![id] = booked]
      /\ claimed' = claimed \cup {<<id, claimant>>}
      /\ wallet' = Transferred(charged, d.token, Self, claimant, amount - fee)
      /\ taken' = [taken EXCEPT ![id][claimant] = @ + amount]
      /\ UNCHANGED <<now, config, nextDistributionId>>
  BY <1>1 DEF claim, MayClaim, CanPay
<1>3. /\ d \in DistributionRecord
      /\ d.token \in Tokens /\ Self \in Accounts
      /\ claimant \in Accounts
      /\ d.claimed_amount \in Nat /\ d.total_amount \in Nat
      /\ d.total_amount <= MaxI128
      /\ amount \in Nat /\ MaxI128 \in Nat
      /\ IsFiniteSet(Accounts)
  BY <1>2, RecordTypes, DistributorAssumption DEF Callers
<1>4. /\ booked \in DistributionRecord
      /\ booked.token = d.token
      /\ booked.merkle_root = d.merkle_root
      /\ booked.total_amount = d.total_amount
      /\ booked.claimed_amount = d.claimed_amount + amount
      /\ Remaining(booked) = Remaining(d) - amount
      /\ Remaining(booked) \in Int
  <2>1. d.is_cancelled = FALSE /\ booked.is_cancelled = FALSE
    BY <1>2, <1>3 DEF Booked, DistributionRecord
  <2>2. d.claimed_amount + amount \in 0..MaxI128
    BY <1>2, <1>3
  <2>3. /\ booked \in DistributionRecord
        /\ booked.token = d.token
        /\ booked.merkle_root = d.merkle_root
        /\ booked.total_amount = d.total_amount
        /\ booked.claimed_amount = d.claimed_amount + amount
    <3>1. d.is_cancelled \in BOOLEAN
      BY <2>1
    <3>. QED  BY <1>3, <2>2, <3>1, BookedType
  <2>. QED  BY <1>3, <2>1, <2>3 DEF Remaining
<1>5. /\ distributions \in [Ids -> DistributionRecord]
      /\ taken \in [Ids -> [Accounts -> Nat]]
      /\ wallet \in Wallets
  BY StateTypes
<1>6. fee \in Nat /\ amount - fee \in Nat
  <2>1. fee >= 0 /\ amount - fee >= 0
    BY <1>2 DEF CanTransfer
  <2>2. fee \in Int
    <3>1. amount * protocolFeePercent \in Int /\ BasisPoints \in Nat \ {0}
      BY <1>3 DEF IInv, TypeOK, BasisPoints
    <3>. QED  BY <3>1 DEF protocol_fee
  <2>. QED  BY <1>3, <2>1, <2>2
<1> HIDE DEF d, fee
<1>7. /\ charged \in Wallets
      /\ charged[d.token][Self] >= wallet[d.token][Self] - fee
      /\ \A other \in Tokens \ {d.token} : charged[other] = wallet[other]
  <2>1. CASE fee > 0
    <3> DEFINE after == Transferred(wallet, d.token, Self, protocolFeeAddress, fee)
    <3>1. protocolFeeAddress \in Accounts
      BY <1>2, <2>1 DEF IInv, TypeOK
    <3>2. CanTransfer(wallet, d.token, Self, fee) /\ d.token \in Tokens /\ Self \in Accounts
      BY <1>2, <1>3
    <3>3. /\ after \in Wallets
          /\ after[d.token][Self] >= wallet[d.token][Self] - fee
          /\ \A other \in Tokens \ {d.token} : after[other] = wallet[other]
      <4>1. /\ wallet \in Wallets /\ fee \in Nat
            /\ protocolFeeAddress \in Accounts /\ Self \in Accounts
            /\ d.token \in Tokens
            /\ CanTransfer(wallet, d.token, Self, fee)
        BY <1>5, <1>6, <3>1, <3>2
      <4>. QED  BY <4>1, TransferType
    <3>4. charged = after
      BY <2>1 DEF Charged, fee
    <3>. HIDE DEF after, charged
    <3>. QED  BY <3>3, <3>4
  <2>2. CASE ~(fee > 0)
    <3>1. charged = wallet
      BY <2>2 DEF Charged, fee
    <3>2. fee = 0
      BY <1>6, <2>2
    <3>3. wallet[d.token][Self] \in Nat
      BY <1>3, <1>5
    <3>. HIDE DEF charged
    <3>. QED  BY <1>5, <3>1, <3>2, <3>3
  <2>. QED  BY <2>1, <2>2
<1> HIDE DEF charged, booked
<1>8. /\ wallet' \in Wallets
      /\ wallet'[d.token][Self] >= wallet[d.token][Self] - amount
      /\ \A other \in Tokens \ {d.token} : wallet'[other] = wallet[other]
  <2> DEFINE rest == amount - fee
             after == Transferred(charged, d.token, Self, claimant, rest)
  <2>1. rest \in Nat /\ CanTransfer(charged, d.token, Self, rest) /\ wallet' = after
    BY <1>2, <1>6
  <2> HIDE DEF rest
  <2>2. /\ after \in Wallets
        /\ after[d.token][Self] >= charged[d.token][Self] - rest
        /\ \A other \in Tokens \ {d.token} : after[other] = charged[other]
    BY <1>3, <1>7, <2>1, TransferType
  <2> HIDE DEF after
  <2>3. /\ wallet' \in Wallets
        /\ wallet'[d.token][Self] >= charged[d.token][Self] - rest
        /\ \A other \in Tokens \ {d.token} : wallet'[other] = wallet[other]
    BY <1>7, <2>1, <2>2
  <2>4. /\ wallet'[d.token][Self] \in Nat /\ charged[d.token][Self] \in Nat
        /\ wallet[d.token][Self] \in Nat
    BY <1>3, <1>5, <1>7, <2>3
  <2>. QED  BY <1>3, <1>6, <1>7, <2>3, <2>4 DEF rest
<1>9. /\ Ids' = Ids
      /\ \A i \in Ids : distributions'[i] = IF i = id THEN booked ELSE distributions[i]
      /\ \A i \in Ids : i # id => taken'[i] = taken[i]
      /\ \A a \in Accounts \ {claimant} : taken'[id][a] = taken[id][a]
      /\ taken'[id][claimant] = taken[id][claimant] + amount
      /\ taken' \in [Ids -> [Accounts -> Nat]]
  <2>1. Ids' = Ids
    BY <1>2
  <2>2. \A i \in Ids : distributions'[i] = IF i = id THEN booked ELSE distributions[i]
    BY <1>2, <1>5
  <2>. QED  BY <1>2, <1>3, <1>5, <2>1, <2>2
<1>10. taken[id][claimant] = 0
  BY <1>2, <1>3, <1>5 DEF IInv, History
<1>11. TypeOK'
  <2>1. distributions' \in [Ids -> DistributionRecord]
    BY <1>2, <1>4, <1>5
  <2>2. claimed' \subseteq Ids \X Callers
    BY <1>2 DEF IInv, TypeOK
  <2>. QED  BY <1>2, <1>8, <1>9, <2>1, <2>2 DEF IInv, TypeOK, config
<1>12. FeeHasAddress'
  BY <1>2 DEF IInv, FeeHasAddress, config
<1>13. History'
  <2>1. ASSUME NEW i \in Ids, NEW a \in Accounts, taken'[i][a] # 0
        PROVE  <<i, a>> \in claimed'
    <3>1. CASE i = id /\ a = claimant
      BY <1>2, <3>1
    <3>2. CASE ~(i = id /\ a = claimant)
      <4>1. taken[i][a] # 0
        BY <1>9, <2>1, <3>2
      <4>. QED  BY <1>2, <4>1 DEF IInv, History
    <3>. QED  BY <3>1, <3>2
  <2>. QED  BY <1>9, <2>1 DEF History
<1>14. ClaimsAreBooked'
  <2>1. ASSUME NEW i \in Ids
        PROVE  /\ distributions'[i].claimed_amount = SumOver(taken'[i], Accounts)
               /\ distributions'[i].claimed_amount <= distributions'[i].total_amount
    <3>1. CASE i = id
      <4>1. SumOver(taken'[id], Accounts)
              = SumOver(taken[id], Accounts)
                  + (taken'[id][claimant] - taken[id][claimant])
        <5> DEFINE before == taken[id]
                   after == taken'[id]
        <5>1. /\ \A a \in Accounts : before[a] \in Int /\ after[a] \in Int
              /\ \A a \in Accounts \ {claimant} : after[a] = before[a]
          BY <1>2, <1>5, <1>9
        <5>. HIDE DEF before, after
        <5>2. SumOver(after, Accounts)
                = SumOver(before, Accounts) + (after[claimant] - before[claimant])
          BY <1>3, <5>1, SumOverUpdated
        <5>. QED  BY <5>2 DEF before, after
      <4>2. d.claimed_amount = SumOver(taken[id], Accounts)
        BY <1>2 DEF IInv, ClaimsAreBooked, d
      <4>3. distributions'[id] = booked
        BY <1>2, <1>9
      <4>. QED  BY <1>2, <1>3, <1>4, <1>9, <1>10, <3>1, <4>1, <4>2, <4>3
    <3>2. CASE i # id
      BY <1>9, <3>2 DEF IInv, ClaimsAreBooked
    <3>. QED  BY <3>1, <3>2
  <2>. QED  BY <1>9, <2>1 DEF ClaimsAreBooked
<1>15. ClaimedAsAllotted'
  <2>1. ASSUME NEW i \in Ids, NEW a \in Accounts, taken'[i][a] # 0
        PROVE  \E leaf \in Leaves(distributions'[i].merkle_root, Depth) :
                  leaf.claimant = a /\ leaf.amount = taken'[i][a]
    <3>1. CASE i = id /\ a = claimant
      <4> DEFINE leaf == compute_leaf(claimant, amount)
      <4>1. leaf \in Leaves(d.merkle_root, Depth)
        BY <1>2, VerifiedIsAllotted
      <4>2. leaf.claimant = a /\ leaf.amount = amount
        BY <3>1 DEF compute_leaf
      <4>3. taken'[i][a] = amount
        BY <1>3, <1>9, <1>10, <3>1
      <4>4. distributions'[i].merkle_root = d.merkle_root
        BY <1>2, <1>4, <1>9, <3>1
      <4>. HIDE DEF leaf
      <4>. QED  BY <4>1, <4>2, <4>3, <4>4
    <3>2. CASE ~(i = id /\ a = claimant)
      <4>1. taken'[i][a] = taken[i][a]
        BY <1>9, <3>2
      <4>2. distributions'[i].merkle_root = distributions[i].merkle_root
        BY <1>4, <1>9 DEF d
      <4>3. taken[i][a] # 0
        BY <2>1, <4>1
      <4>4. \E leaf \in Leaves(distributions[i].merkle_root, Depth) :
                leaf.claimant = a /\ leaf.amount = taken[i][a]
        BY <4>3 DEF IInv, ClaimedAsAllotted
      <4>. QED  BY <4>1, <4>2, <4>4
    <3>. QED  BY <3>1, <3>2
  <2>. QED  BY <1>9, <2>1 DEF ClaimedAsAllotted
<1>16. ExactTokensSolvent'
  <2>1. /\ booked.token = distributions[id].token
        /\ Remaining(booked) = Remaining(distributions[id]) - amount
        /\ Remaining(booked) \in Int /\ amount \in Int
        /\ nextDistributionId' = nextDistributionId
    BY <1>2, <1>3, <1>4 DEF d
  <2>2. /\ wallet'[booked.token][Self] >= wallet[booked.token][Self] - amount
        /\ \A other \in Tokens \ {booked.token} : wallet'[other] = wallet[other]
    BY <1>4, <1>8
  <2>. QED  BY <1>2, <1>8, <2>1, <2>2, SolventAfterPaying
<1>. QED  BY <1>11, <1>12, <1>13, <1>14, <1>15, <1>16 DEF IInv

(* A step that changes nothing. *)
LEMMA StutterKeeps == ASSUME IInv, UNCHANGED vars PROVE IInv'
<1>1. TypeOK'
  BY DEF vars, config, books, IInv, TypeOK
<1>2. FeeHasAddress'
  BY DEF vars, config, IInv, FeeHasAddress
<1>. QED  BY <1>1, <1>2, BooksKept DEF vars

LEMMA Invariance == Spec => []IInv
<1>1. IInv /\ [Next]_vars => IInv'
  BY TickKeeps, ConfigureKeeps, CreateKeeps, CancelKeeps, ClaimKeeps, StutterKeeps
     DEF Next
<1>. QED  BY <1>1, InitKeeps, PTL DEF Spec

-----------------------------------------------------------------------------
(* What a claim can count on *)

(* The fee is a part of the amount. *)
LEMMA FeeIsPart ==
    ASSUME IInv, NEW amount \in Nat
    PROVE  /\ protocol_fee(amount) \in Nat
           /\ amount - protocol_fee(amount) \in Nat
           /\ protocol_fee(amount) > 0 => protocolFeePercent > 0
<1>1. /\ protocolFeePercent \in Nat /\ protocolFeePercent <= BasisPoints
      /\ BasisPoints \in Nat \ {0}
  BY DEF IInv, TypeOK, BasisPoints
<1> DEFINE product == amount * protocolFeePercent
<1>2. /\ product \in Nat /\ product <= amount * BasisPoints
      /\ protocolFeePercent = 0 => product = 0
  BY <1>1
<1> HIDE DEF product
<1>3. /\ product \div BasisPoints \in Nat
      /\ product \div BasisPoints <= amount
      /\ product = 0 => product \div BasisPoints = 0
  BY <1>2 DEF BasisPoints
<1>. QED  BY <1>1, <1>2, <1>3 DEF protocol_fee, product

(* Whatever a distribution of an exact token has left, it can pay, as long  *)
(* as the fee can be computed.                                              *)
LEMMA CoveredClaimIsPaid ==
    ASSUME IInv, NEW id \in Ids, TransferFee[distributions[id].token] = 0,
           NEW amount \in Nat, amount <= Remaining(distributions[id]),
           amount * protocolFeePercent <= MaxI128
    PROVE  CanPay(distributions[id].token, amount)
<1> DEFINE token == distributions[id].token
           fee == protocol_fee(amount)
           last == nextDistributionId - 1
<1>1. /\ token \in Tokens /\ wallet \in Wallets /\ Self \in Accounts
      /\ last \in Nat /\ Held(token) \in [1..last -> Nat] /\ id \in 1..last
      /\ Remaining(distributions[id]) \in Nat
  BY RecordTypes, StateTypes, DistributorAssumption
<1>2. fee \in Nat /\ amount - fee \in Nat /\ (fee > 0 => protocolFeePercent > 0)
  BY FeeIsPart
<1>3. fee > 0 => protocolFeeAddress \in Accounts
  BY <1>2 DEF IInv, TypeOK
<1>4. wallet[token][Self] >= amount /\ wallet[token][Self] \in Nat
  <2>1. wallet[token][Self] >= Total(Held(token), last)
    BY <1>1 DEF IInv, ExactTokensSolvent
  <2>2. Held(token)[id] = Remaining(distributions[id])
    BY <1>1 DEF Held
  <2>3. Held(token)[id] <= Total(Held(token), last) /\ Total(Held(token), last) \in Nat
    <3>. HIDE DEF token, last
    <3>. QED  BY <1>1, TotalBoundsEach
  <2>4. wallet[token][Self] \in Nat
    BY <1>1
  <2>. HIDE DEF token, last
  <2>. QED  BY <1>1, <2>1, <2>2, <2>3, <2>4
<1> HIDE DEF token, fee, last
<1>5. CanTransfer(wallet, token, Self, fee)
  BY <1>2, <1>4 DEF CanTransfer
<1>6. Charged(token, amount)[token][Self] >= wallet[token][Self] - fee
  <2>1. CASE fee > 0
    <3> DEFINE after == Transferred(wallet, token, Self, protocolFeeAddress, fee)
    <3>1. after[token][Self] >= wallet[token][Self] - fee
      BY <1>1, <1>2, <1>3, <1>5, <2>1, TransferType
    <3>2. Charged(token, amount) = after
      BY <2>1 DEF Charged, fee
    <3>. HIDE DEF after
    <3>. QED  BY <3>1, <3>2
  <2>2. CASE ~(fee > 0)
    <3>1. Charged(token, amount) = wallet
      BY <2>2 DEF Charged, fee
    <3>. QED  BY <1>2, <1>4, <2>2, <3>1
  <2>. QED  BY <2>1, <2>2
<1>7. Charged(token, amount) \in Wallets
  BY <1>1, <1>2, <1>3, <1>5, TransferType DEF Charged, fee
<1>8. CanTransfer(Charged(token, amount), token, Self, amount - fee)
  <2>1. Charged(token, amount)[token][Self] \in Nat
    BY <1>1, <1>7
  <2>. QED  BY <1>2, <1>4, <1>6, <2>1 DEF CanTransfer
<1>9. NoAccount \notin Accounts
  BY DistributorAssumption
<1>. QED  BY <1>3, <1>5, <1>8, <1>9 DEF CanPay, token, fee

-----------------------------------------------------------------------------
(* The theorems *)

(* Every stored record, balance and entry is one the contract's types have, *)
(* the fee stays a percentage, and there is an address for it as soon as    *)
(* there can be one.                                                        *)
THEOREM DistributorTypeCorrect == Spec => []TypeOK
<1>1. IInv => TypeOK
  BY DEF IInv
<1>. QED  BY <1>1, Invariance, PTL

(* What a distribution has booked is what its claimants took, and it is     *)
(* covered by the deposit (lib.rs:392-395).                                 *)
THEOREM DistributorClaimsAreBooked == Spec => []ClaimsAreBooked
<1>1. IInv => ClaimsAreBooked
  BY DEF IInv
<1>. QED  BY <1>1, Invariance, PTL

(* Nobody ever takes anything but the one amount the tree allots to him: of *)
(* every tree, however deep, and whatever proofs are tried.                 *)
THEOREM DistributorClaimedAsAllotted == Spec => []ClaimedAsAllotted
<1>1. IInv => ClaimedAsAllotted
  BY DEF IInv
<1>. QED  BY <1>1, Invariance, PTL

(* The contract holds what all distributions of a token that keeps no fee   *)
(* have left together.                                                      *)
THEOREM DistributorExactTokensSolvent == Spec => []ExactTokensSolvent
<1>1. IInv => ExactTokensSolvent
  BY DEF IInv
<1>. QED  BY <1>1, Invariance, PTL

(* Nobody is shut out by his place in the tree (merkle.rs:32-36) or for     *)
(* want of tokens: claim accepts some proof of whatever a tree of leaves    *)
(* and pairs allots, on either side and at any depth, and can pay it in a   *)
(* token that keeps no fee, as long as the distribution is open and has     *)
(* enough left and the amount times the fee percentage fits an i128.  Of    *)
(* other roots this is not true.                                            *)
THEOREM DistributorEveryAllotmentClaimable ==
    (\A root \in Roots : WellFormed(root, Depth)) => (Spec => []EveryAllotmentClaimable)
<1> SUFFICES ASSUME \A root \in Roots : WellFormed(root, Depth)
             PROVE  Spec => []EveryAllotmentClaimable
  OBVIOUS
<1>1. IInv => EveryAllotmentClaimable
  <2> SUFFICES ASSUME IInv, NEW id \in Ids,
                      ~distributions[id].is_cancelled, ~IsExpired(distributions[id]),
                      TransferFee[distributions[id].token] = 0,
                      NEW leaf \in Leaves(distributions[id].merkle_root, Depth),
                      <<id, leaf.claimant>> \notin claimed,
                      ~(distributions[id].claimed_amount + leaf.amount
                          > distributions[id].total_amount),
                      ~(leaf.amount * protocolFeePercent > MaxI128)
               PROVE  /\ \E proof \in Proofs :
                            MayClaim(id, leaf.claimant, leaf.amount, proof)
                      /\ CanPay(distributions[id].token, leaf.amount)
    BY DEF EveryAllotmentClaimable
  <2> DEFINE root == distributions[id].merkle_root
  <2>1. /\ root \in Roots
        /\ distributions[id].claimed_amount \in Nat
        /\ distributions[id].total_amount \in Nat
    BY RecordTypes DEF DistributionRecord
  <2>2. WellFormed(root, Depth)
    BY <2>1
  <2>3. leaf \in Tree(root, Depth) /\ IsLeaf(leaf)
    BY DEF Leaves
  <2>4. leaf.amount \in Nat \ {0} /\ leaf = compute_leaf(leaf.claimant, leaf.amount)
    BY <2>2, <2>3 DEF WellFormed
  <2>5. Tree(root, Depth) \subseteq Hashes
    BY <2>1 DEF Hashes
  <2> HIDE DEF root
  <2>6. \E n \in 0..Depth : \E proof \in [1..n -> Hashes] : verify_proof(proof, root, leaf)
    BY <2>2, <2>3, <2>5, DistributorAssumption, InTreeIsVerified
  <2>7. \E proof \in Proofs : verify_proof(proof, root, leaf)
    BY <2>6 DEF Proofs
  <2>8. distributions[id].claimed_amount + leaf.amount <= distributions[id].total_amount
    BY <2>1, <2>4
  <2>9. \E proof \in Proofs : MayClaim(id, leaf.claimant, leaf.amount, proof)
    BY <2>4, <2>7, <2>8 DEF MayClaim, root
  <2>10. CanPay(distributions[id].token, leaf.amount)
    <3>1. leaf.amount <= Remaining(distributions[id])
      BY <2>1, <2>4, <2>8 DEF Remaining
    <3>2. leaf.amount * protocolFeePercent <= MaxI128
      <4>1. leaf.amount \in Nat /\ protocolFeePercent \in Nat /\ MaxI128 \in Nat
        BY <2>4, DistributorAssumption DEF IInv, TypeOK
      <4>2. leaf.amount * protocolFeePercent \in Nat
        BY <4>1
      <4>. QED  BY <4>1, <4>2
    <3>. QED  BY <2>4, <3>1, <3>2, CoveredClaimIsPaid
  <2>. QED  BY <2>9, <2>10
<1>. QED  BY <1>1, Invariance, PTL

(* No claim is paid from a cancelled or expired distribution any more, and  *)
(* the books of a cancelled one stay closed.  An expired one can still be   *)
(* cancelled, which returns the rest to its creator.                        *)
THEOREM DistributorClosedForGood == Spec => ClosedForGood
<1> DEFINE Closed(id) ==
             /\ (distributions[id].is_cancelled \/ IsExpired(distributions[id]))
                    => taken'[id] = taken[id]
             /\ distributions[id].is_cancelled
                    => distributions'[id] = distributions[id]
<1>1. ASSUME IInv, [Next]_vars PROVE \A id \in Ids : Closed(id)
  <2> SUFFICES ASSUME NEW id \in Ids PROVE Closed(id)
    OBVIOUS
  <2>1. /\ distributions \in [Ids -> DistributionRecord]
        /\ taken \in [Ids -> [Accounts -> Nat]]
        /\ nextDistributionId \in Nat
    BY <1>1, StateTypes
  <2>2. CASE Tick \/ Configure \/ UNCHANGED vars
    BY <2>2 DEF Tick, Configure, initialize, set_admin, set_protocol_fee_address,
                set_protocol_fee_percent, vars, config, books
  <2>3. CASE Create
    <3>1. id \in 1..nextDistributionId /\ id < nextDistributionId
      BY <2>1
    <3>2. distributions'[id] = distributions[id] /\ taken'[id] = taken[id]
      BY <2>3, <3>1 DEF Create, create_distribution
    <3>. QED  BY <3>2
  <2>4. CASE Cancel
    <3>1. PICK i \in 1..MaxDistributions, caller \in Callers : cancel_distribution(i, caller)
      BY <2>4 DEF Cancel
    <3>2. taken' = taken
      BY <3>1 DEF cancel_distribution
    <3>3. distributions[id].is_cancelled => distributions'[id] = distributions[id]
      BY <2>1, <3>1 DEF cancel_distribution
    <3>. QED  BY <3>2, <3>3
  <2>5. CASE Claim
    <3>1. PICK claimant \in Callers, i \in 1..MaxDistributions, amount \in Amounts,
               proof \in Proofs : claim(claimant, i, amount, proof)
      BY <2>5 DEF Claim
    <3>2. i # id => taken'[id] = taken[id] /\ distributions'[id] = distributions[id]
      BY <2>1, <3>1 DEF claim
    <3>3. i = id => ~distributions[id].is_cancelled /\ ~IsExpired(distributions[id])
      BY <3>1 DEF claim, MayClaim
    <3>. QED  BY <3>2, <3>3
  <2>. QED  BY <1>1, <2>2, <2>3, <2>4, <2>5 DEF Next
<1>2. IInv /\ [Next]_vars
        => [\A id \in Ids :
              LET d == distributions[id]
              IN  /\ (d.is_cancelled \/ IsExpired(d)) => taken'[id] = taken[id]
                  /\ d.is_cancelled => distributions'[id] = d]_vars
  BY <1>1
<1>. QED  BY <1>2, Invariance, PTL DEF Spec, ClosedForGood
=============================================================================
