-------------------------- MODULE StreamNFTProofs --------------------------
(* Proofs that the NFT contract's balance counter is the number of tokens   *)
(* owned, for any accounts and tokens, whatever the contract's admin does.  *)
EXTENDS StreamNFT, FiniteSetTheorems, TLAPS

NftInv == NftTypeOK /\ CounterIsCount

(* What an account owns is a finite set: TokenIds is one. *)
LEMMA OwnedIsFinite ==
    ASSUME NftTypeOK, NEW a \in Accounts
    PROVE  /\ IsFiniteSet(OwnedBy(a))
           /\ Cardinality(OwnedBy(a)) \in Nat
  <1>1. OwnedBy(a) \in SUBSET TokenIds
    BY DEF NftTypeOK, OwnedBy
  <1>2. IsFiniteSet(OwnedBy(a))
    BY <1>1, StreamNFTAssumption, FS_Subset
  <1> QED
    BY <1>2, FS_CardinalityType

(* An owner has a positive counter, so that Lowered does lower it. *)
LEMMA OwnerIsCounted ==
    ASSUME NftInv, NEW token_id \in Minted
    PROVE  /\ owner[token_id] \in Accounts
           /\ balance[owner[token_id]] \in Nat \ {0}
           /\ Lowered(balance, owner[token_id]) =
                 [balance EXCEPT ![owner[token_id]] = @ - 1]
  <1> DEFINE a == owner[token_id]
  <1>1. a \in Accounts /\ balance[a] \in Nat
    BY DEF NftInv, NftTypeOK
  <1>2. token_id \in OwnedBy(a)
    BY DEF OwnedBy
  <1>3. IsFiniteSet(OwnedBy(a))
    BY <1>1, OwnedIsFinite DEF NftInv
  <1>4. Cardinality(OwnedBy(a)) # 0
    BY <1>2, <1>3, FS_EmptySet
  <1>5. balance[a] # 0
    BY <1>1, <1>4 DEF NftInv, CounterIsCount
  <1>6. balance[a] > 0
    BY <1>1, <1>5
  <1> QED
    BY <1>1, <1>5, <1>6 DEF Lowered

LEMMA InitInv == NftInit => NftInv
  <1> SUFFICES ASSUME NftInit PROVE NftInv
    OBVIOUS
  <1>1. NftTypeOK
    BY DEF NftInit, NftTypeOK, Minted
  <1>2. \A a \in Accounts : OwnedBy(a) = {}
    BY DEF NftInit, OwnedBy, Minted
  <1>3. CounterIsCount
    BY <1>2, FS_EmptySet DEF NftInit, CounterIsCount
  <1> QED
    BY <1>1, <1>3 DEF NftInv

LEMMA MintKeeps ==
    ASSUME NftInv, NEW caller, NEW to \in Accounts, NEW stream_type \in StreamType,
           NEW stream_id \in StreamIds, NEW token_id \in TokenIds,
           mint(caller, to, stream_type, stream_id, token_id)
    PROVE  NftInv'
  <1> USE DEF mint
  <1>1. Minted' = Minted \cup {token_id}
    BY DEF Minted
  <1>2. NftTypeOK'
    <2>1. owner' \in [Minted' -> Accounts]
      BY <1>1 DEF NftInv, NftTypeOK
    <2>2. streamData' \in [Minted' -> StreamData]
      BY <1>1 DEF NftInv, NftTypeOK, StreamData
    <2>3. balance' \in [Accounts -> Nat]
      BY DEF NftInv, NftTypeOK
    <2> QED
      BY <1>1, <2>1, <2>2, <2>3 DEF NftInv, NftTypeOK
  <1>3. CounterIsCount'
    <2> SUFFICES ASSUME NEW a \in Accounts
                 PROVE  balance'[a] = Cardinality(OwnedBy(a)')
      BY DEF CounterIsCount
    <2>1. IsFiniteSet(OwnedBy(a)) /\ token_id \notin OwnedBy(a)
      BY OwnedIsFinite DEF NftInv, OwnedBy
    <2>2. OwnedBy(a)' = IF a = to THEN OwnedBy(a) \cup {token_id} ELSE OwnedBy(a)
      BY <1>1 DEF OwnedBy
    <2>3. balance'[a] = IF a = to THEN balance[a] + 1 ELSE balance[a]
      BY DEF NftInv, NftTypeOK
    <2>4. balance[a] = Cardinality(OwnedBy(a))
      BY DEF NftInv, CounterIsCount
    <2>5. Cardinality(OwnedBy(a) \cup {token_id}) = Cardinality(OwnedBy(a)) + 1
      BY <2>1, FS_AddElement
    <2> QED
      BY <2>2, <2>3, <2>4, <2>5
  <1> QED
    BY <1>2, <1>3 DEF NftInv

LEMMA BurnKeeps ==
    ASSUME NftInv, NEW caller, NEW token_id \in TokenIds, burn(caller, token_id)
    PROVE  NftInv'
  <1> USE DEF burn
  <1>1. Minted' = Minted \ {token_id}
    BY DEF Minted
  <1>2. balance' = [balance EXCEPT ![owner[token_id]] = @ - 1]
    BY OwnerIsCounted
  <1>3. NftTypeOK'
    <2>1. owner' \in [Minted' -> Accounts]
      BY <1>1 DEF NftInv, NftTypeOK
    <2>2. streamData' \in [Minted' -> StreamData]
      BY <1>1 DEF NftInv, NftTypeOK
    <2>3. balance[owner[token_id]] - 1 \in Nat
      <3>1. balance[owner[token_id]] \in Nat \ {0}
        BY OwnerIsCounted
      <3> QED
        BY <3>1
    <2>4. balance' \in [Accounts -> Nat]
      BY <1>2, <2>3 DEF NftInv, NftTypeOK
    <2> QED
      BY <1>1, <2>1, <2>2, <2>4 DEF NftInv, NftTypeOK
  <1>4. CounterIsCount'
    <2> SUFFICES ASSUME NEW a \in Accounts
                 PROVE  balance'[a] = Cardinality(OwnedBy(a)')
      BY DEF CounterIsCount
    <2>1. /\ IsFiniteSet(OwnedBy(a))
          /\ token_id \in OwnedBy(a) <=> a = owner[token_id]
      BY OwnedIsFinite DEF NftInv, OwnedBy
    <2>2. OwnedBy(a)' = OwnedBy(a) \ {token_id}
      BY <1>1 DEF OwnedBy
    <2>3. balance'[a] = IF a = owner[token_id] THEN balance[a] - 1 ELSE balance[a]
      BY <1>2 DEF NftInv, NftTypeOK
    <2>4. balance[a] = Cardinality(OwnedBy(a))
      BY DEF NftInv, CounterIsCount
    <2>5. Cardinality(OwnedBy(a) \ {token_id}) =
             IF a = owner[token_id] THEN Cardinality(OwnedBy(a)) - 1
                                    ELSE Cardinality(OwnedBy(a))
      BY <2>1, FS_RemoveElement
    <2> QED
      BY <2>2, <2>3, <2>4, <2>5
  <1> QED
    BY <1>3, <1>4 DEF NftInv

LEMMA TransferKeeps ==
    ASSUME NftInv, NEW from, NEW to \in Accounts, NEW token_id \in TokenIds,
           transfer(from, to, token_id)
    PROVE  NftInv'
  <1> USE DEF transfer, owner_of
  <1> DEFINE less == [balance EXCEPT ![from] = @ - 1]
  <1>1. Minted' = Minted
    BY DEF Minted, NftInv, NftTypeOK
  <1>2. /\ from \in Accounts /\ balance[from] \in Nat \ {0}
        /\ balance' = [less EXCEPT ![to] = @ + 1]
    BY OwnerIsCounted DEF Moved
  <1>3. less \in [Accounts -> Nat]
    BY <1>2 DEF NftInv, NftTypeOK
  <1>4. NftTypeOK'
    <2>1. owner' \in [Minted' -> Accounts]
      BY <1>1 DEF NftInv, NftTypeOK
    <2>2. balance' \in [Accounts -> Nat]
      BY <1>2, <1>3
    <2> QED
      BY <1>1, <2>1, <2>2 DEF NftInv, NftTypeOK
  <1>5. CounterIsCount'
    <2> SUFFICES ASSUME NEW a \in Accounts
                 PROVE  balance'[a] = Cardinality(OwnedBy(a)')
      BY DEF CounterIsCount
    <2>1. /\ IsFiniteSet(OwnedBy(a))
          /\ token_id \in OwnedBy(a) <=> a = from
      BY OwnedIsFinite DEF NftInv, OwnedBy
    <2>2. owner'[token_id] = to /\ \A id \in Minted \ {token_id} : owner'[id] = owner[id]
      BY DEF Minted, NftInv, NftTypeOK
    <2>3. balance[a] = Cardinality(OwnedBy(a)) /\ balance[a] \in Nat
      BY DEF NftInv, CounterIsCount, NftTypeOK
    <2>4. CASE from = to
      <3>1. OwnedBy(a)' = OwnedBy(a)
        BY <1>1, <2>2, <2>4 DEF OwnedBy
      <3>2. balance'[a] = balance[a]
        <4>1. less[a] = IF a = from THEN balance[a] - 1 ELSE balance[a]
          BY DEF NftInv, NftTypeOK
        <4> QED
          BY <1>2, <1>3, <2>3, <2>4, <4>1
      <3> QED
        BY <2>3, <3>1, <3>2
    <2>5. CASE from # to /\ a = from
      <3>1. OwnedBy(a)' = OwnedBy(a) \ {token_id}
        BY <1>1, <2>2, <2>5 DEF OwnedBy
      <3>2. balance'[a] = balance[a] - 1
        <4>1. less[a] = balance[a] - 1
          BY <2>5 DEF NftInv, NftTypeOK
        <4> QED
          BY <1>2, <1>3, <2>5, <4>1
      <3>3. IsFiniteSet(OwnedBy(a)) /\ token_id \in OwnedBy(a)
        BY <2>1, <2>5
      <3>4. Cardinality(OwnedBy(a) \ {token_id}) = Cardinality(OwnedBy(a)) - 1
        BY <3>3, FS_RemoveElement
      <3> QED
        BY <2>3, <3>1, <3>2, <3>4
    <2>6. CASE from # to /\ a = to
      <3>1. OwnedBy(a)' = OwnedBy(a) \cup {token_id}
        BY <1>1, <2>2, <2>6 DEF OwnedBy
      <3>2. balance'[a] = balance[a] + 1
        <4>1. less[a] = balance[a]
          BY <2>6 DEF NftInv, NftTypeOK
        <4> QED
          BY <1>2, <1>3, <2>6, <4>1
      <3>3. IsFiniteSet(OwnedBy(a)) /\ token_id \notin OwnedBy(a)
        BY <2>1, <2>6
      <3>4. Cardinality(OwnedBy(a) \cup {token_id}) = Cardinality(OwnedBy(a)) + 1
        BY <3>3, FS_AddElement
      <3> QED
        BY <2>3, <3>1, <3>2, <3>4
    <2>7. CASE a # from /\ a # to
      <3>1. OwnedBy(a)' = OwnedBy(a)
        BY <1>1, <2>1, <2>2, <2>7 DEF OwnedBy
      <3>2. balance'[a] = balance[a]
        BY <1>2, <1>3, <2>7 DEF NftInv, NftTypeOK
      <3> QED
        BY <2>3, <3>1, <3>2
    <2> QED
      BY <2>4, <2>5, <2>6, <2>7
  <1> QED
    BY <1>4, <1>5 DEF NftInv

(* What changes neither owners nor counters, and names an account admin. *)
LEMMA AdminKeeps ==
    ASSUME NftInv, UNCHANGED nfts, nftAdmin' \in Accounts \cup {NoAccount},
           nftWasm' \in Wasms
    PROVE  NftInv'
  BY DEF NftInv, NftTypeOK, CounterIsCount, OwnedBy, Minted, nfts

LEMMA NftStepKeeps == NftInv /\ [NftNext]_nftVars => NftInv'
  <1> SUFFICES ASSUME NftInv, [NftNext]_nftVars PROVE NftInv'
    OBVIOUS
  <1>1. CASE Mint
    BY <1>1, MintKeeps DEF Mint
  <1>2. CASE Burn
    BY <1>2, BurnKeeps DEF Burn
  <1>3. CASE Transfer
    BY <1>3, TransferKeeps DEF Transfer
  <1>4. CASE Administer
    <2>1. /\ UNCHANGED nfts
          /\ nftAdmin' \in Accounts \cup {NoAccount}
          /\ nftWasm' \in Wasms
      BY <1>4 DEF Administer, nft_initialize, nft_upgrade, NftInv, NftTypeOK, nfts
    <2> QED
      BY <2>1, AdminKeeps
  <1>5. CASE UNCHANGED nftVars
    BY <1>5, AdminKeeps DEF nftVars, NftInv, NftTypeOK
  <1> QED
    BY <1>1, <1>2, <1>3, <1>4, <1>5 DEF NftNext

(* The entries keep their types under any calls of any admin.  *)
THEOREM NftTypeCorrect == NftSpec => []NftTypeOK
  <1>1. NftInv => NftTypeOK
    BY DEF NftInv
  <1> QED
    BY InitInv, NftStepKeeps, <1>1, PTL DEF NftSpec

(* balance() is the number of tokens owned, for any number of accounts and  *)
(* tokens, with burns and transfers to oneself.                             *)
THEOREM NftCounterIsCount == NftSpec => []CounterIsCount
  <1>1. NftInv => CounterIsCount
    BY DEF NftInv
  <1> QED
    BY InitInv, NftStepKeeps, <1>1, PTL DEF NftSpec
=============================================================================
