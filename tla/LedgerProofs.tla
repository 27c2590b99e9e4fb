---------------------------- MODULE LedgerProofs ----------------------------
(***************************************************************************)
(* Facts about what all contracts keep their books with: the ledger of the *)
(* tokens (Token), and sums of no entries, of one more entry and of an     *)
(* updated function, along 1, 2, ... and over finite sets (Totals).  The   *)
(* recursions are followed with their partial sums, by least and minimal   *)
(* counterexamples.                                                        *)
(***************************************************************************)
EXTENDS Token, Totals, FiniteSetTheorems, WellFoundedInduction, TLAPS

-----------------------------------------------------------------------------
(* The token's ledger *)

(* A transfer the sender can pay keeps every balance a natural number; the  *)
(* sender loses at most the amount, and nobody else loses anything.         *)
LEMMA TransferType ==
    ASSUME NEW w \in Wallets, NEW token \in Tokens, NEW from \in Accounts,
           NEW to \in Accounts, NEW amount \in Nat, CanTransfer(w, token, from, amount)
    PROVE  /\ Transferred(w, token, from, to, amount) \in Wallets
           /\ Transferred(w, token, from, to, amount)[token][from]
                 >= w[token][from] - amount
           /\ \A other \in Tokens \ {token} :
                 Transferred(w, token, from, to, amount)[other] = w[other]
           /\ \A a \in Accounts \ {from} :
                 Transferred(w, token, from, to, amount)[token][a] >= w[token][a]
<1> USE DEF Wallets
<1>1. Received(token, amount) \in Nat
  BY TokenAssumption DEF Received
<1>2. \A a \in Accounts : w[token][a] \in Nat
  OBVIOUS
<1> DEFINE after == [a \in Accounts |->
               w[token][a] - (IF a = from THEN amount ELSE 0)
                           + (IF a = to THEN Received(token, amount) ELSE 0)]
<1>3. after \in [Accounts -> Nat]
  BY <1>1, <1>2 DEF CanTransfer
<1>4. /\ after[from] >= w[token][from] - amount
      /\ \A a \in Accounts \ {from} : after[a] >= w[token][a]
  BY <1>1, <1>2
<1> HIDE DEF after
<1>5. Transferred(w, token, from, to, amount) = [w EXCEPT ![token] = after]
  BY DEF Transferred, after
<1>. QED  BY <1>3, <1>4, <1>5

(* A token without a fee delivers what is sent to another account. *)
LEMMA TransferDelivers ==
    ASSUME NEW w \in Wallets, NEW token \in Tokens, TransferFee[token] = 0,
           NEW from, NEW to \in Accounts, from # to, NEW amount \in Nat
    PROVE  Transferred(w, token, from, to, amount)[token][to] = w[token][to] + amount
<1>1. Received(token, amount) = amount
  BY DEF Received
<1>2. w[token][to] \in Nat
  BY DEF Wallets
<1>. QED  BY <1>1, <1>2 DEF Transferred, Wallets

(* The sender is charged the amount; who is neither sender nor receiver     *)
(* keeps what he holds.                                                     *)
LEMMA TransferCharges ==
    ASSUME NEW w \in Wallets, NEW token \in Tokens, NEW from \in Accounts,
           NEW to \in Accounts, from # to, NEW amount \in Int
    PROVE  /\ Transferred(w, token, from, to, amount)[token][from]
                 = w[token][from] - amount
           /\ \A a \in Accounts \ {from, to} :
                 Transferred(w, token, from, to, amount)[token][a] = w[token][a]
<1>1. /\ \A a \in Accounts : w[token][a] \in Nat
      /\ Received(token, amount) \in Int
  BY TokenAssumption DEF Wallets, Received
<1> DEFINE after == [a \in Accounts |->
               w[token][a] - (IF a = from THEN amount ELSE 0)
                           + (IF a = to THEN Received(token, amount) ELSE 0)]
<1>2. after[from] = w[token][from] - amount
  BY <1>1
<1>3. ASSUME NEW a \in Accounts \ {from, to} PROVE after[a] = w[token][a]
  BY <1>1
<1>4. Transferred(w, token, from, to, amount)[token] = after
  BY DEF Transferred, Wallets
<1>. HIDE DEF after
<1>. QED  BY <1>2, <1>3, <1>4

-----------------------------------------------------------------------------
(* Sums *)

(* upTo[i] is the sum of f[1] ... f[i]. *)
PartialSums(f, n, upTo) ==
    /\ upTo \in [0..n -> Int]
    /\ upTo[0] = 0
    /\ \A i \in 1..n : upTo[i] = upTo[i - 1] + f[i]

(* A nonempty set of natural numbers has a least element. *)
LEMMA LeastNat ==
    ASSUME NEW S, S \subseteq Nat, S # {}
    PROVE  \E x \in S : \A y \in S : x <= y
<1> DEFINE Less == {p \in Nat \X Nat : p[1] < p[2]}
<1>1. IsWellFoundedOn(Less, Nat)
  BY NatLessThanWellFounded DEF OpToRel
<1> HIDE DEF Less
<1>2. PICK x \in S : \A y \in S : <<y, x>> \notin Less
  BY <1>1, WFMin
<1>3. ASSUME NEW y \in S PROVE x <= y
  <2>1. x \in Nat /\ y \in Nat
    OBVIOUS
  <2>2. y < x => <<y, x>> \in Less
    BY <2>1 DEF Less
  <2>3. ~(y < x)
    BY <1>2, <2>2
  <2>. QED  BY <2>1, <2>3
<1>. QED  BY <1>3

LEMMA PartialSumsExist ==
    ASSUME NEW n \in Nat, NEW f \in [1..n -> Int]
    PROVE  \E upTo : PartialSums(f, n, upTo)
<1> DEFINE Bad == {k \in 0..n : ~ \E upTo : PartialSums(f, k, upTo)}
<1>1. SUFFICES ASSUME n \in Bad PROVE FALSE
  OBVIOUS
<1>2. PICK k \in Bad : \A y \in Bad : k <= y
  <2>1. Bad \subseteq Nat /\ Bad # {}
    BY <1>1
  <2> HIDE DEF Bad
  <2>. QED  BY <2>1, LeastNat
<1>3. k # 0
  <2>1. PartialSums(f, 0, [i \in 0..0 |-> 0])
    BY DEF PartialSums
  <2>. QED  BY <2>1
<1>4. k - 1 \in 0..n /\ k - 1 \notin Bad /\ k \in 1..n
  BY <1>2, <1>3
<1>5. PICK u : PartialSums(f, k - 1, u)
  BY <1>4
<1> DEFINE v == [i \in 0..k |-> IF i = k THEN u[k - 1] + f[k] ELSE u[i]]
<1>6. PartialSums(f, k, v)
  <2>1. /\ u \in [0..(k - 1) -> Int] /\ u[0] = 0
        /\ \A i \in 1..(k - 1) : u[i] = u[i - 1] + f[i]
    BY <1>5 DEF PartialSums
  <2>2. u[k - 1] \in Int /\ f[k] \in Int
    BY <1>4, <2>1
  <2>3. v \in [0..k -> Int] /\ v[0] = 0
    BY <1>4, <2>1, <2>2
  <2>4. ASSUME NEW i \in 1..k PROVE v[i] = v[i - 1] + f[i]
    BY <1>4, <2>1, <2>2
  <2>. QED  BY <2>3, <2>4 DEF PartialSums
<1>. QED  BY <1>6

(* The recursive definition computes the last partial sum. *)
LEMMA TotalIsPartialSum ==
    ASSUME NEW n \in Nat, NEW f, NEW upTo, PartialSums(f, n, upTo)
    PROVE  Total(f, n) = upTo[n]
<1> DEFINE Rec(g) == g = [i \in 0..n |-> IF i = 0 THEN 0 ELSE g[i - 1] + f[i]]
           chosen == CHOOSE g : Rec(g)
<1>1. Rec(upTo)
  BY DEF PartialSums
<1>2. Rec(chosen)
  BY <1>1
<1>3. Total(f, n) = chosen[n]
  BY DEF Total
<1> HIDE DEF chosen
<1>4. ASSUME chosen[n] # upTo[n] PROVE FALSE
  <2> DEFINE Bad == {i \in 0..n : chosen[i] # upTo[i]}
  <2>1. PICK i \in Bad : \A y \in Bad : i <= y
    <3>1. Bad \subseteq Nat /\ Bad # {}
      BY <1>4
    <3> HIDE DEF Bad
    <3>. QED  BY <3>1, LeastNat
  <2>2. i # 0
    BY <1>2, <2>1 DEF PartialSums
  <2>3. chosen[i - 1] = upTo[i - 1]
    BY <2>1, <2>2
  <2>4. chosen[i] = chosen[i - 1] + f[i]
    BY <1>2, <2>1, <2>2
  <2>5. upTo[i] = upTo[i - 1] + f[i]
    BY <2>1, <2>2 DEF PartialSums
  <2>. QED  BY <2>1, <2>3, <2>4, <2>5
<1>. QED  BY <1>3, <1>4

-----------------------------------------------------------------------------
(* No entries sum to 0, and integers sum to an integer. *)
THEOREM TotalType ==
    /\ \A f : Total(f, 0) = 0
    /\ \A n \in Nat : \A f \in [1..n -> Int] : Total(f, n) \in Int
<1>1. ASSUME NEW f PROVE Total(f, 0) = 0
  <2>1. PartialSums(f, 0, [i \in 0..0 |-> 0])
    BY DEF PartialSums
  <2>. QED  BY <2>1, TotalIsPartialSum
<1>2. ASSUME NEW n \in Nat, NEW f \in [1..n -> Int]
      PROVE  Total(f, n) \in Int
  <2>1. PICK upTo : PartialSums(f, n, upTo)
    BY PartialSumsExist
  <2>2. upTo[n] \in Int
    BY <2>1 DEF PartialSums
  <2>. QED  BY <2>1, <2>2, TotalIsPartialSum
<1>. QED  BY <1>1, <1>2

(* Functions that agree on 1..n have the same sum. *)
THEOREM TotalSame ==
    ASSUME NEW n \in Nat, NEW f \in [1..n -> Int], NEW g,
           \A i \in 1..n : g[i] = f[i]
    PROVE  Total(g, n) = Total(f, n)
<1>1. PICK upTo : PartialSums(f, n, upTo)
  BY PartialSumsExist
<1>2. PartialSums(g, n, upTo)
  BY <1>1 DEF PartialSums
<1>. QED  BY <1>1, <1>2, TotalIsPartialSum

(* One more entry is added to the sum. *)
THEOREM TotalGrows ==
    ASSUME NEW n \in Nat, NEW f \in [1..(n + 1) -> Int]
    PROVE  Total(f, n + 1) = Total(f, n) + f[n + 1]
<1>1. PICK upTo : PartialSums(f, n + 1, upTo)
  BY PartialSumsExist
<1> DEFINE front == [i \in 0..n |-> upTo[i]]
<1>2. PartialSums(f, n, front)
  BY <1>1 DEF PartialSums
<1>3. upTo[n + 1] = upTo[n] + f[n + 1]
  BY <1>1 DEF PartialSums
<1>4. Total(f, n) = front[n] /\ front[n] = upTo[n]
  BY <1>2, TotalIsPartialSum
<1>5. Total(f, n + 1) = upTo[n + 1]
  BY <1>1, TotalIsPartialSum
<1>. QED  BY <1>3, <1>4, <1>5

(* Changing one entry changes the sum by as much. *)
THEOREM TotalUpdated ==
    ASSUME NEW n \in Nat, NEW f \in [1..n -> Int], NEW id \in 1..n,
           NEW g \in [1..n -> Int], \A i \in 1..n \ {id} : g[i] = f[i]
    PROVE  Total(g, n) = Total(f, n) + (g[id] - f[id])
<1>1. PICK upTo : PartialSums(f, n, upTo)
  BY PartialSumsExist
<1>2. /\ upTo \in [0..n -> Int] /\ upTo[0] = 0
      /\ \A i \in 1..n : upTo[i] = upTo[i - 1] + f[i]
  BY <1>1 DEF PartialSums
<1> DEFINE d == g[id] - f[id]
           moved == [i \in 0..n |-> IF i < id THEN upTo[i] ELSE upTo[i] + d]
<1>3. d \in Int /\ f[id] \in Int /\ g[id] = f[id] + d
  <2>1. f[id] \in Int /\ g[id] \in Int
    OBVIOUS
  <2>. QED  BY <2>1
<1> HIDE DEF d
<1>4. moved \in [0..n -> Int] /\ moved[0] = 0
  <2>1. ASSUME NEW i \in 0..n
        PROVE  (IF i < id THEN upTo[i] ELSE upTo[i] + d) \in Int
    <3>1. upTo[i] \in Int
      BY <1>2
    <3>. QED  BY <1>3, <3>1
  <2>2. 0 \in 0..n /\ 0 < id
    OBVIOUS
  <2>. QED  BY <1>2, <2>1, <2>2
<1>5. ASSUME NEW i \in 1..n PROVE moved[i] = moved[i - 1] + g[i]
  <2>1. upTo[i - 1] \in Int /\ upTo[i] = upTo[i - 1] + f[i] /\ f[i] \in Int
    BY <1>2
  <2>2. /\ moved[i] = IF i < id THEN upTo[i] ELSE upTo[i] + d
        /\ moved[i - 1] = IF i - 1 < id THEN upTo[i - 1] ELSE upTo[i - 1] + d
    <3>1. i \in 0..n /\ i - 1 \in 0..n
      OBVIOUS
    <3>. QED  BY <3>1
  <2>. HIDE DEF moved
  <2>3. CASE i = id
    BY <1>3, <2>1, <2>2, <2>3
  <2>4. CASE i # id
    <3>1. g[i] = f[i]
      BY <2>4
    <3>. QED  BY <1>3, <2>1, <2>2, <2>4, <3>1
  <2>. QED  BY <2>3, <2>4
<1>6. PartialSums(g, n, moved)
  BY <1>4, <1>5 DEF PartialSums
<1>7. Total(g, n) = moved[n] /\ Total(f, n) = upTo[n]
  BY <1>1, <1>6, TotalIsPartialSum
<1>8. moved[n] = upTo[n] + d
  BY <1>2
<1>. QED  BY <1>7, <1>8 DEF d

(* A sum of natural numbers is at least each of them. *)
THEOREM TotalBoundsEach ==
    ASSUME NEW n \in Nat, NEW f \in [1..n -> Nat]
    PROVE  /\ Total(f, n) \in Nat
           /\ \A id \in 1..n : f[id] <= Total(f, n)
<1>1. PICK upTo : PartialSums(f, n, upTo)
  BY PartialSumsExist
<1>2. /\ upTo \in [0..n -> Int] /\ upTo[0] = 0
      /\ \A i \in 1..n : upTo[i] = upTo[i - 1] + f[i]
  BY <1>1 DEF PartialSums
<1>3. Total(f, n) = upTo[n]
  BY <1>1, TotalIsPartialSum
<1>4. ASSUME NEW m \in 0..n, NEW k \in 0..n, m <= k
      PROVE  upTo[m] <= upTo[k]
  <2> DEFINE Bad == {i \in m..n : upTo[i] < upTo[m]}
  <2>1. SUFFICES ASSUME k \in Bad PROVE FALSE
    BY <1>2, <1>4
  <2>2. PICK i \in Bad : \A j \in Bad : i <= j
    <3>1. Bad \subseteq Nat /\ Bad # {}
      BY <2>1
    <3> HIDE DEF Bad
    <3>. QED  BY <3>1, LeastNat
  <2>3. i # m /\ i - 1 \in m..n /\ i \in 1..n /\ i - 1 \notin Bad
    BY <1>2, <2>2
  <2>4. upTo[i - 1] >= upTo[m] /\ upTo[i] = upTo[i - 1] + f[i] /\ f[i] \in Nat
    BY <1>2, <2>3
  <2>. QED  BY <1>2, <2>2, <2>3, <2>4
<1>5. Total(f, n) \in Nat
  <2>1. upTo[0] <= upTo[n]
    BY <1>4
  <2>. QED  BY <1>2, <1>3, <2>1
<1>6. ASSUME NEW id \in 1..n PROVE f[id] <= Total(f, n)
  <2>1. 0 <= upTo[id - 1] /\ upTo[id] <= upTo[n]
    <3>1. upTo[0] <= upTo[id - 1] /\ upTo[id] <= upTo[n]
      BY <1>4
    <3>. QED  BY <1>2, <3>1
  <2>2. upTo[id] = upTo[id - 1] + f[id] /\ upTo[id - 1] \in Int /\ upTo[n] \in Int
    BY <1>2
  <2>. QED  BY <1>3, <2>1, <2>2
<1>. QED  BY <1>5, <1>6

-----------------------------------------------------------------------------
(* Sums over finite sets *)

(* A nonempty collection of subsets of a finite set has a minimal one. *)
LEMMA MinimalSubset ==
    ASSUME NEW S, IsFiniteSet(S), NEW Bad, Bad \subseteq SUBSET S, Bad # {}
    PROVE  \E T \in Bad : \A U \in Bad : U \subseteq T => U = T
<1> DEFINE Sizes == {Cardinality(T) : T \in Bad}
<1>1. ASSUME NEW T \in Bad
      PROVE  IsFiniteSet(T) /\ Cardinality(T) \in Nat
  BY FS_Subset, FS_CardinalityType
<1>2. Sizes \subseteq Nat /\ Sizes # {}
  BY <1>1
<1>3. PICK k \in Sizes : \A m \in Sizes : k <= m
  <2> HIDE DEF Sizes
  <2>. QED  BY <1>2, LeastNat
<1>4. PICK T \in Bad : Cardinality(T) = k
  BY <1>3
<1>5. ASSUME NEW U \in Bad, U \subseteq T PROVE U = T
  <2>1. Cardinality(T) <= Cardinality(U)
    BY <1>3, <1>4
  <2>2. /\ Cardinality(U) <= Cardinality(T)
        /\ Cardinality(U) = Cardinality(T) => U = T
    BY <1>1, <1>5, FS_Subset
  <2>. QED  BY <1>1, <2>1, <2>2
<1>. QED  BY <1>5

(* The element the fold takes next. *)
Taken(T) == CHOOSE x \in T : TRUE

(* sum[T] is the sum of f over T, for each subset T of S. *)
SetSums(f, S, sum) ==
    sum = [T \in SUBSET S |->
              IF T = {} THEN 0 ELSE f[Taken(T)] + sum[T \ {Taken(T)}]]

(* Sums of functions that agree on a set agree on its subsets. *)
LEMMA SetSumsAgree ==
    ASSUME NEW S, IsFiniteSet(S), NEW R, S \subseteq R, NEW f, NEW g,
           \A x \in S : f[x] = g[x],
           NEW sum, SetSums(f, S, sum), NEW other, SetSums(g, R, other)
    PROVE  \A T \in SUBSET S : sum[T] = other[T]
<1> DEFINE Bad == {T \in SUBSET S : sum[T] # other[T]}
<1> SUFFICES ASSUME Bad # {} PROVE FALSE
  OBVIOUS
<1>1. PICK T \in Bad : \A U \in Bad : U \subseteq T => U = T
  <2>1. Bad \subseteq SUBSET S
    OBVIOUS
  <2> HIDE DEF Bad
  <2>. QED  BY <2>1, MinimalSubset
<1>2. /\ T \subseteq S /\ T \in SUBSET R
      /\ sum[T] = IF T = {} THEN 0 ELSE f[Taken(T)] + sum[T \ {Taken(T)}]
      /\ other[T] = IF T = {} THEN 0 ELSE g[Taken(T)] + other[T \ {Taken(T)}]
  BY <1>1 DEF SetSums
<1>3. T # {}
  BY <1>1, <1>2
<1>4. Taken(T) \in T
  BY <1>3 DEF Taken
<1>5. T \ {Taken(T)} \notin Bad /\ T \ {Taken(T)} \in SUBSET S
  BY <1>1, <1>2, <1>4
<1>6. sum[T \ {Taken(T)}] = other[T \ {Taken(T)}]
  BY <1>5
<1>7. f[Taken(T)] = g[Taken(T)]
  BY <1>2, <1>4
<1>. QED  BY <1>1, <1>2, <1>3, <1>6, <1>7

LEMMA SetSumsExist ==
    ASSUME NEW S, IsFiniteSet(S), NEW f
    PROVE  \E sum : SetSums(f, S, sum)
<1> DEFINE Bad == {T \in SUBSET S : ~ \E sum : SetSums(f, T, sum)}
<1> SUFFICES ASSUME Bad # {} PROVE FALSE
  OBVIOUS
<1>1. PICK T \in Bad : \A U \in Bad : U \subseteq T => U = T
  <2>1. Bad \subseteq SUBSET S
    OBVIOUS
  <2> HIDE DEF Bad
  <2>. QED  BY <2>1, MinimalSubset
<1>2. \A U \in SUBSET T : U # T => \E sum : SetSums(f, U, sum)
  BY <1>1
<1>3. T \subseteq S /\ IsFiniteSet(T)
  BY <1>1, FS_Subset
<1> DEFINE of(U) == CHOOSE sum : SetSums(f, U, sum)
           value(U) == IF U = {} THEN 0 ELSE f[Taken(U)] + of(U \ {Taken(U)})[U \ {Taken(U)}]
           total == [U \in SUBSET T |-> value(U)]
<1>4. ASSUME NEW U \in SUBSET T, U # T PROVE SetSums(f, U, of(U))
  BY <1>2, <1>4
<1>5. ASSUME NEW U \in SUBSET T, U # T PROVE of(U)[U] = value(U)
  <2>1. of(U)[U] = IF U = {} THEN 0 ELSE f[Taken(U)] + of(U)[U \ {Taken(U)}]
    <3>1. SetSums(f, U, of(U)) /\ U \in SUBSET U
      BY <1>4, <1>5
    <3>. HIDE DEF of
    <3>. QED  BY <3>1 DEF SetSums
  <2>2. CASE U = {}
    BY <2>1, <2>2
  <2>3. CASE U # {}
    <3> DEFINE V == U \ {Taken(U)}
    <3>1. Taken(U) \in U
      BY <2>3 DEF Taken
    <3>2. V \in SUBSET T /\ V # T /\ V \subseteq U /\ IsFiniteSet(V)
      BY <1>3, <3>1, FS_Subset
    <3>3. SetSums(f, V, of(V)) /\ SetSums(f, U, of(U))
      BY <1>4, <1>5, <3>2
    <3>. HIDE DEF V, of
    <3>4. of(V)[V] = of(U)[V]
      BY <3>2, <3>3, SetSumsAgree
    <3>. QED  BY <2>1, <2>3, <3>4 DEF V
  <2>. QED  BY <2>2, <2>3
<1>6. SetSums(f, T, total)
  <2>1. ASSUME NEW U \in SUBSET T
        PROVE  value(U) = IF U = {} THEN 0 ELSE f[Taken(U)] + total[U \ {Taken(U)}]
    <3>1. CASE U = {}
      BY <3>1
    <3>2. CASE U # {}
      <4> DEFINE V == U \ {Taken(U)}
      <4>1. Taken(U) \in U
        BY <3>2 DEF Taken
      <4>2. V \in SUBSET T /\ V # T
        BY <4>1
      <4>3. of(V)[V] = value(V)
        BY <1>5, <4>2
      <4>4. total[V] = value(V)
        BY <4>2
      <4>. HIDE DEF of, total
      <4>. QED  BY <3>2, <4>3, <4>4
    <3>. QED  BY <3>1, <3>2
  <2>. HIDE DEF value
  <2>2. total = [U \in SUBSET T |-> IF U = {} THEN 0 ELSE f[Taken(U)] + total[U \ {Taken(U)}]]
    BY <2>1
  <2>. QED  BY <2>2 DEF SetSums
<1>. QED  BY <1>1, <1>6

(* The fold computes that sum. *)
LEMMA SumOverIsSetSum ==
    ASSUME NEW S, IsFiniteSet(S), NEW f, NEW sum, SetSums(f, S, sum)
    PROVE  \A T \in SUBSET S : SumOver(f, T) = sum[T]
<1> TAKE T \in SUBSET S
<1> DEFINE chosen == CHOOSE g : SetSums(f, T, g)
<1>1. IsFiniteSet(T)
  BY FS_Subset
<1>2. SetSums(f, T, chosen)
  BY <1>1, SetSumsExist
<1>3. SumOver(f, T) = chosen[T]
  BY DEF SumOver, MapThenFoldSet, SetSums, Taken
<1> HIDE DEF chosen
<1>4. chosen[T] = sum[T]
  BY <1>1, <1>2, SetSumsAgree
<1>. QED  BY <1>3, <1>4

(* The first element the fold takes splits off the sum. *)
LEMMA SumOverTakes ==
    ASSUME NEW S, IsFiniteSet(S), NEW f
    PROVE  SumOver(f, S) = IF S = {} THEN 0 ELSE f[Taken(S)] + SumOver(f, S \ {Taken(S)})
<1>1. PICK sum : SetSums(f, S, sum)
  BY SetSumsExist
<1>2. \A T \in SUBSET S : SumOver(f, T) = sum[T]
  BY <1>1, SumOverIsSetSum
<1>3. sum[S] = IF S = {} THEN 0 ELSE f[Taken(S)] + sum[S \ {Taken(S)}]
  BY <1>1 DEF SetSums
<1>. QED  BY <1>2, <1>3

(* No values sum to 0, and integers sum to an integer. *)
THEOREM SumOverType ==
    /\ \A f : SumOver(f, {}) = 0
    /\ \A S, f : IsFiniteSet(S) /\ (\A x \in S : f[x] \in Int) => SumOver(f, S) \in Int
<1>1. ASSUME NEW f PROVE SumOver(f, {}) = 0
  BY FS_EmptySet, SumOverTakes
<1>2. ASSUME NEW S, NEW f, IsFiniteSet(S), \A x \in S : f[x] \in Int
      PROVE  SumOver(f, S) \in Int
  <2> DEFINE Bad == {T \in SUBSET S : SumOver(f, T) \notin Int}
  <2> SUFFICES ASSUME Bad # {} PROVE FALSE
    OBVIOUS
  <2>1. PICK T \in Bad : \A U \in Bad : U \subseteq T => U = T
    <3>1. Bad \subseteq SUBSET S
      OBVIOUS
    <3> HIDE DEF Bad
    <3>. QED  BY <1>2, <3>1, MinimalSubset
  <2>2. T \subseteq S /\ IsFiniteSet(T) /\ SumOver(f, T) \notin Int
    BY <1>2, <2>1, FS_Subset
  <2>3. T # {}
    <3>1. SumOver(f, {}) \in Int
      BY <1>1
    <3> HIDE DEF Bad
    <3>. QED  BY <2>2, <3>1
  <2>4. Taken(T) \in T
    BY <2>3 DEF Taken
  <2>5. SumOver(f, T \ {Taken(T)}) \in Int
    BY <2>1, <2>2, <2>4
  <2>6. f[Taken(T)] \in Int
    BY <1>2, <2>2, <2>4
  <2>7. SumOver(f, T) = f[Taken(T)] + SumOver(f, T \ {Taken(T)})
    BY <2>2, <2>3, SumOverTakes
  <2>. HIDE DEF Bad
  <2>. QED  BY <2>2, <2>5, <2>6, <2>7
<1>. QED  BY <1>1, <1>2

(* Functions that agree on a set have the same sum over it. *)
THEOREM SumOverSame ==
    ASSUME NEW S, IsFiniteSet(S), NEW f, NEW g, \A x \in S : f[x] = g[x]
    PROVE  SumOver(f, S) = SumOver(g, S)
<1>1. PICK sum : SetSums(f, S, sum)
  BY SetSumsExist
<1>2. PICK other : SetSums(g, S, other)
  BY SetSumsExist
<1>3. sum[S] = other[S]
  BY <1>1, <1>2, SetSumsAgree
<1>. QED  BY <1>1, <1>2, <1>3, SumOverIsSetSum

(* Any element may be taken first: the order does not matter. *)
THEOREM SumOverSplit ==
    ASSUME NEW S, IsFiniteSet(S), NEW f, \A x \in S : f[x] \in Int, NEW a \in S
    PROVE  SumOver(f, S) = f[a] + SumOver(f, S \ {a})
<1> DEFINE Splits(T) == \A x \in T : SumOver(f, T) = f[x] + SumOver(f, T \ {x})
           Bad == {T \in SUBSET S : ~Splits(T)}
<1>1. Splits(S)
  <2> SUFFICES ASSUME Bad # {} PROVE FALSE
    OBVIOUS
  <2>1. PICK T \in Bad : \A U \in Bad : U \subseteq T => U = T
    <3>1. Bad \subseteq SUBSET S
      OBVIOUS
    <3> HIDE DEF Bad
    <3>. QED  BY <3>1, MinimalSubset
  <2>2. T \subseteq S /\ IsFiniteSet(T) /\ ~Splits(T)
    BY <2>1, FS_Subset
  <2>3. \A U \in SUBSET T : U # T => Splits(U)
    BY <2>1
  <2> HIDE DEF Bad
  <2>4. PICK x \in T : SumOver(f, T) # f[x] + SumOver(f, T \ {x})
    BY <2>2
  <2> DEFINE y == Taken(T)
             V == T \ {x, y}
  <2>5. y \in T
    BY <2>4 DEF Taken
  <2>6. SumOver(f, T) = f[y] + SumOver(f, T \ {y})
    BY <2>2, <2>4, SumOverTakes
  <2>7. x # y
    BY <2>4, <2>6
  <2>. HIDE DEF y
  <2>8. SumOver(f, T \ {y}) = f[x] + SumOver(f, V)
    <3>1. Splits(T \ {y})
      BY <2>3, <2>5
    <3>2. x \in T \ {y} /\ (T \ {y}) \ {x} = V
      BY <2>7
    <3>. QED  BY <3>1, <3>2
  <2>9. SumOver(f, T \ {x}) = f[y] + SumOver(f, V)
    <3>1. Splits(T \ {x})
      BY <2>3
    <3>2. y \in T \ {x} /\ (T \ {x}) \ {y} = V
      BY <2>5, <2>7
    <3>. QED  BY <3>1, <3>2
  <2>10. f[x] \in Int /\ f[y] \in Int /\ SumOver(f, V) \in Int
    <3>1. IsFiniteSet(V) /\ \A z \in V : f[z] \in Int
      BY <2>2, FS_Subset
    <3>. HIDE DEF V
    <3>. QED  BY <2>2, <2>5, <3>1, SumOverType
  <2>. HIDE DEF V, Splits
  <2>. QED  BY <2>4, <2>6, <2>8, <2>9, <2>10
<1>. QED  BY <1>1

(* Changing one value changes the sum by as much. *)
THEOREM SumOverUpdated ==
    ASSUME NEW S, IsFiniteSet(S), NEW f, NEW g, NEW a \in S,
           \A x \in S : f[x] \in Int /\ g[x] \in Int,
           \A x \in S \ {a} : g[x] = f[x]
    PROVE  SumOver(g, S) = SumOver(f, S) + (g[a] - f[a])
<1> DEFINE R == S \ {a}
<1>1. IsFiniteSet(R) /\ \A x \in R : f[x] = g[x] /\ f[x] \in Int
  BY FS_Subset
<1>2. SumOver(f, S) = f[a] + SumOver(f, R) /\ SumOver(g, S) = g[a] + SumOver(g, R)
  BY SumOverSplit
<1>. HIDE DEF R
<1>3. SumOver(g, R) = SumOver(f, R) /\ SumOver(f, R) \in Int
  BY <1>1, SumOverSame, SumOverType
<1>4. f[a] \in Int /\ g[a] \in Int
  OBVIOUS
<1>. QED  BY <1>2, <1>3, <1>4

(* Zeros sum to 0. *)
THEOREM SumOverZero ==
    ASSUME NEW S, IsFiniteSet(S), NEW f, \A x \in S : f[x] = 0
    PROVE  SumOver(f, S) = 0
<1> DEFINE Bad == {T \in SUBSET S : SumOver(f, T) # 0}
<1> SUFFICES ASSUME Bad # {} PROVE FALSE
  OBVIOUS
<1>1. PICK T \in Bad : \A U \in Bad : U \subseteq T => U = T
  <2>1. Bad \subseteq SUBSET S
    OBVIOUS
  <2> HIDE DEF Bad
  <2>. QED  BY <2>1, MinimalSubset
<1>2. T \subseteq S /\ IsFiniteSet(T) /\ SumOver(f, T) # 0
  BY <1>1, FS_Subset
<1>3. T # {}
  BY <1>2, SumOverType
<1>4. Taken(T) \in T
  BY <1>3 DEF Taken
<1>5. SumOver(f, T \ {Taken(T)}) = 0 /\ f[Taken(T)] = 0
  BY <1>1, <1>2, <1>4
<1>. HIDE DEF Bad
<1>6. SumOver(f, T) = 0 + 0
  BY <1>2, <1>3, <1>5, SumOverTakes
<1>. QED  BY <1>2, <1>6
=============================================================================
