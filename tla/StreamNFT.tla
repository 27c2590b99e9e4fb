----------------------------- MODULE StreamNFT -----------------------------
(***************************************************************************)
(* The Stream NFT contract (contracts/stream-nft): a token stands for a    *)
(* stream and belongs to an account.  The contract's admin, the Router,    *)
(* mints and burns; an owner transfers.  How many tokens an account has is *)
(* counted apart from who owns which.                                      *)
(***************************************************************************)
EXTENDS Integers, FiniteSets

CONSTANTS
    Accounts,
    NoAccount,     \* an absent Admin entry
    StreamIds,     \* the stream ids a token may name     (bound on inputs)
    TokenIds,      \* the token ids that are minted       (bound on ids)
    Wasms          \* the code an upgrade may install     (bound on inputs)

ASSUME StreamNFTAssumption ==
    /\ NoAccount \notin Accounts
    /\ StreamIds \subseteq Nat
    /\ IsFiniteSet(TokenIds)

VARIABLES
    nftAdmin,      \* DataKey::Admin
    nftWasm,       \* the code the contract runs
    owner,         \* DataKey::TokenOwner(token_id), for the tokens that exist
    streamData,    \* DataKey::TokenStreamData(token_id), for the same tokens
    balance        \* DataKey::NftBalance(owner), 0 where there is no entry

nfts == <<owner, streamData, balance>>
nftVars == <<nftAdmin, nftWasm, nfts>>

StreamType == {"Flow", "Lockup"}

StreamData == [type : StreamType, id : StreamIds]

Minted == DOMAIN owner

(* The answers for a token that exists; the calls panic for others. *)
owner_of(token_id) == owner[token_id]
get_stream_data(token_id) == streamData[token_id]

-----------------------------------------------------------------------------
NftInit ==
    /\ nftAdmin = NoAccount
    /\ nftWasm \in Wasms
    /\ owner = [id \in {} |-> 0]
    /\ streamData = [id \in {} |-> 0]
    /\ balance = [a \in Accounts |-> 0]

(* Once.  Nobody authorizes it, since the admin is a contract. *)
nft_initialize(account) ==
    /\ nftAdmin = NoAccount
    /\ nftAdmin' = account
    /\ UNCHANGED <<nftWasm, nfts>>

nft_upgrade(caller, hash) ==
    /\ nftAdmin # NoAccount
    /\ caller = nftAdmin
    /\ nftWasm' = hash
    /\ UNCHANGED <<nftAdmin, nfts>>

(* Mutant: the admin's authorization is not asked for. *)
mint_unauthorized(caller, to, stream_type, stream_id, token_id) ==
    /\ token_id \notin Minted
    /\ owner' = [id \in Minted \cup {token_id} |->
                    IF id = token_id THEN to ELSE owner[id]]
    /\ streamData' = [id \in Minted \cup {token_id} |->
                         IF id = token_id
                         THEN [type |-> stream_type, id |-> stream_id]
                         ELSE streamData[id]]
    /\ balance' = [balance EXCEPT ![to] = @ + 1]
    /\ UNCHANGED <<nftAdmin, nftWasm>>

(* A token that exists is not minted again. *)
mint(caller, to, stream_type, stream_id, token_id) ==
    /\ nftAdmin # NoAccount
    /\ caller = nftAdmin
    /\ token_id \notin Minted
    /\ owner' = [id \in Minted \cup {token_id} |->
                    IF id = token_id THEN to ELSE owner[id]]
    /\ streamData' = [id \in Minted \cup {token_id} |->
                         IF id = token_id
                         THEN [type |-> stream_type, id |-> stream_id]
                         ELSE streamData[id]]
    /\ balance' = [balance EXCEPT ![to] = @ + 1]
    /\ UNCHANGED <<nftAdmin, nftWasm>>

(* The counter is lowered only where it is positive. *)
Lowered(counts, account) ==
    IF counts[account] > 0 THEN [counts EXCEPT ![account] = @ - 1] ELSE counts

burn(caller, token_id) ==
    /\ nftAdmin # NoAccount
    /\ caller = nftAdmin
    /\ token_id \in Minted
    /\ owner' = [id \in Minted \ {token_id} |-> owner[id]]
    /\ streamData' = [id \in Minted \ {token_id} |-> streamData[id]]
    /\ balance' = Lowered(balance, owner[token_id])
    /\ UNCHANGED <<nftAdmin, nftWasm>>

(* Mutant: both counters are read before either is written. *)
MovedAtOnce(counts, from, to) ==
    [Lowered(counts, from) EXCEPT ![to] = counts[to] + 1]

(* The counter of to is read after that of from is written, so that a      *)
(* transfer to oneself counts down and up again.                           *)
Moved(counts, from, to) == [Lowered(counts, from) EXCEPT ![to] = @ + 1]

transfer(from, to, token_id) ==
    /\ token_id \in Minted
    /\ owner_of(token_id) = from
    /\ owner' = [owner EXCEPT ![token_id] = to]
    /\ balance' = Moved(balance, from, to)
    /\ UNCHANGED <<nftAdmin, nftWasm, streamData>>

-----------------------------------------------------------------------------
(* The contract by itself, whatever its admin does. *)

Mint ==
    \E caller, to \in Accounts, stream_type \in StreamType, stream_id \in StreamIds,
       token_id \in TokenIds :
        mint(caller, to, stream_type, stream_id, token_id)

Burn == \E caller \in Accounts, token_id \in TokenIds : burn(caller, token_id)

Transfer ==
    \E from, to \in Accounts, token_id \in TokenIds : transfer(from, to, token_id)

Administer ==
    \E account \in Accounts :
        \/ nft_initialize(account)
        \/ \E hash \in Wasms : nft_upgrade(account, hash)

NftNext == Mint \/ Burn \/ Transfer \/ Administer

NftSpec == NftInit /\ [][NftNext]_nftVars

-----------------------------------------------------------------------------
(* Properties *)

(* The stored entries have their types, and a token has an owner exactly    *)
(* when it has a stream.                                                    *)
NftTypeOK ==
    /\ nftAdmin \in Accounts \cup {NoAccount}
    /\ nftWasm \in Wasms
    /\ Minted \subseteq TokenIds
    /\ owner \in [Minted -> Accounts]
    /\ streamData \in [Minted -> StreamData]
    /\ balance \in [Accounts -> Nat]

OwnedBy(account) == {id \in Minted : owner[id] = account}

(* balance() answers how many tokens an account owns, although the counter  *)
(* is kept apart from the owners by mint, burn and transfer, and a transfer *)
(* may go back to its owner.                                                *)
CounterIsCount ==
    \A a \in Accounts : balance[a] = Cardinality(OwnedBy(a))
=============================================================================
