------------------------------- MODULE Router -------------------------------
(***************************************************************************)
(* The Router contract (contracts/router) with the contracts it stands in  *)
(* front of: it creates Flow and Lockup streams of which it is itself the  *)
(* recipient, mints an NFT for each, and withdraws from a stream for who   *)
(* owns the NFT at that moment.  Each call is one atomic step over the     *)
(* state of up to four contracts.  The parties also call Flow, Lockup and  *)
(* the NFT directly.                                                       *)
(*                                                                         *)
(* signer is a history variable: who authorized the last withdrawal by NFT *)
(* or transfer of one, and NoAccount when the last step was another.       *)
(***************************************************************************)
EXTENDS StreamNFT

CONSTANTS
    Users,           \* the accounts that sign invocations
    Senders,         \* those of them that pay for streams  (bound on inputs)
    Payees,          \* the addresses users name            (bound on inputs)
    Deployer,        \* the one of them that deploys the contracts
    RouterContract, FlowContract, LockupContract,
    Tokens, TokenDecimals, TransferFee,               \* see Token
    Decimals, ScaleFactor, MaxI128, MaxU64, Genesis,  \* see Flow
    Funds,           \* what each user holds of each token at the start
    Rates,           \* the rates of Flow streams           (bound on inputs)
    Starts,          \* their start times                   (bound on inputs)
    Requests,        \* the CreateLockupParams users pass   (bound on inputs)
    Amounts,         \* the amounts users ask for           (bound on inputs)
    MaxTime,         \* the last ledger timestamp           (bound on time)
    MaxFlows,        \* how many Flow streams are created   (bound on ids)
    MaxLockups       \* how many Lockup streams are created (bound on ids)

Contracts == {RouterContract, FlowContract, LockupContract}

ASSUME RouterAssumption ==
    /\ Users \cup Contracts \subseteq Accounts
    /\ Users \cap Contracts = {}
    /\ Senders \subseteq Users
    /\ Payees \subseteq Accounts
    /\ Starts \subseteq 0..MaxTime
    /\ Deployer \in Users
    /\ Cardinality(Contracts) = 3
    /\ \A p \in Requests : p.recipient \in Accounts
    /\ MaxFlows \in Nat /\ 1..MaxFlows \subseteq StreamIds
    /\ MaxLockups \in Nat /\ 1..MaxLockups \subseteq StreamIds
    /\ 1..(MaxFlows + MaxLockups) \subseteq TokenIds

VARIABLES
    now, wallet,                                  \* shared by all contracts
    flows, nextFlowId, flowAggregate,             \* the storage of Flow
    lockups, nextLockupId, lockupAggregate,       \* the storage of Lockup
    routerAdmin,     \* DataKey::Admin; the other contracts' addresses with it
    nextTokenId,     \* DataKey::NextStreamId of the Router
    signer           \* history

flowStorage == <<flows, nextFlowId, flowAggregate>>
lockupStorage == <<lockups, nextLockupId, lockupAggregate>>
routerStorage == <<routerAdmin, nextTokenId>>
vars == <<now, wallet, flowStorage, lockupStorage, nftVars, routerStorage, signer>>

F == INSTANCE Flow WITH
    Self <- FlowContract, streams <- flows, nextStreamId <- nextFlowId,
    aggregate <- flowAggregate, MaxStreams <- MaxFlows

L == INSTANCE Lockup WITH
    Self <- LockupContract, streams <- lockups, nextStreamId <- nextLockupId,
    aggregate <- lockupAggregate, MaxStreams <- MaxLockups

(* What the engines assume of their constants. *)
ASSUME EngineAssumption ==
    F!TokenAssumption /\ F!FlowAssumption /\ L!LockupAssumption

-----------------------------------------------------------------------------
(* Nothing is initialized; the contracts hold nothing. *)
Init ==
    /\ now = Genesis
    /\ wallet = [token \in Tokens |->
                    [a \in Accounts |-> IF a \in Users THEN Funds ELSE 0]]
    /\ flows = [id \in {} |-> 0] /\ lockups = [id \in {} |-> 0]
    /\ nextFlowId = 1 /\ nextLockupId = 1
    /\ flowAggregate = [token \in Tokens |-> 0]
    /\ lockupAggregate = [token \in Tokens |-> 0]
    /\ NftInit
    /\ routerAdmin = NoAccount
    /\ nextTokenId = 0
    /\ signer = NoAccount

(* A ledger closes. *)
Tick ==
    /\ F!Tick
    /\ signer' = NoAccount
    /\ UNCHANGED <<lockupStorage, nftVars, routerStorage>>

(* The deployer names the addresses of the contracts; ids start from 1. *)
initialize(caller) ==
    /\ routerAdmin = NoAccount
    /\ routerAdmin' = caller
    /\ nextTokenId' = 1
    /\ signer' = NoAccount
    /\ UNCHANGED <<now, wallet, flowStorage, lockupStorage, nftVars>>

(* The Router is the NFT contract's admin, so its own admin upgrades both. *)
upgrade_nft(caller, hash) ==
    /\ routerAdmin # NoAccount
    /\ caller = routerAdmin
    /\ nft_upgrade(RouterContract, hash)
    /\ signer' = NoAccount
    /\ UNCHANGED <<now, wallet, flowStorage, lockupStorage, routerStorage>>

(* The stream's recipient is the Router; the NFT goes to the recipient who *)
(* was asked for.  A failure of either call undoes both.                   *)
create_flow_stream(sender, recipient, token, rate, decimals, start_time) ==
    /\ routerAdmin # NoAccount
    /\ F!create(sender, RouterContract, token, rate, decimals, start_time)
    /\ mint(RouterContract, recipient, "Flow", nextFlowId, nextTokenId)
    /\ nextTokenId' = nextTokenId + 1
    /\ signer' = NoAccount
    /\ UNCHANGED <<lockupStorage, routerAdmin>>

(* Mutant: the NFT is minted as in create_flow_stream. *)
create_lockup_as_flow(p) ==
    /\ routerAdmin # NoAccount
    /\ L!create([p EXCEPT !.recipient = RouterContract])
    /\ mint(RouterContract, p.recipient, "Flow", nextLockupId, nextTokenId)
    /\ nextTokenId' = nextTokenId + 1
    /\ signer' = NoAccount
    /\ UNCHANGED <<flowStorage, routerAdmin>>

create_lockup_stream(p) ==
    /\ routerAdmin # NoAccount
    /\ L!create([p EXCEPT !.recipient = RouterContract])
    /\ mint(RouterContract, p.recipient, "Lockup", nextLockupId, nextTokenId)
    /\ nextTokenId' = nextTokenId + 1
    /\ signer' = NoAccount
    /\ UNCHANGED <<flowStorage, routerAdmin>>

(* The NFT contract is asked who owns the token, at every withdrawal. *)
Holds(caller, token_id) == token_id \in Minted /\ owner_of(token_id) = caller

(* Mutant: the stream's type is not looked at. *)
withdraw_misrouted(token_id, caller, to, amount) ==
    /\ routerAdmin # NoAccount
    /\ Holds(caller, token_id)
    /\ \/ /\ F!withdraw(get_stream_data(token_id).id, RouterContract, to, amount)
          /\ UNCHANGED lockupStorage
       \/ /\ L!withdraw(get_stream_data(token_id).id, RouterContract, to, amount)
          /\ UNCHANGED flowStorage
    /\ signer' = caller
    /\ UNCHANGED <<nftVars, routerStorage>>

(* The owner is the caller; to Flow and Lockup the Router is. *)
withdraw(token_id, caller, to, amount) ==
    /\ routerAdmin # NoAccount
    /\ Holds(caller, token_id)
    /\ \/ /\ get_stream_data(token_id).type = "Flow"
          /\ F!withdraw(get_stream_data(token_id).id, RouterContract, to, amount)
          /\ UNCHANGED lockupStorage
       \/ /\ get_stream_data(token_id).type = "Lockup"
          /\ L!withdraw(get_stream_data(token_id).id, RouterContract, to, amount)
          /\ UNCHANGED flowStorage
    /\ signer' = caller
    /\ UNCHANGED <<nftVars, routerStorage>>

(* Mutant: the owner is passed on as the caller. *)
withdraw_max_as_owner(token_id, caller, to) ==
    /\ routerAdmin # NoAccount
    /\ Holds(caller, token_id)
    /\ \/ /\ get_stream_data(token_id).type = "Flow"
          /\ F!withdraw_max(get_stream_data(token_id).id, RouterContract, to)
          /\ UNCHANGED lockupStorage
       \/ /\ get_stream_data(token_id).type = "Lockup"
          /\ L!withdraw_max(get_stream_data(token_id).id, caller, to)
          /\ UNCHANGED flowStorage
    /\ signer' = caller
    /\ UNCHANGED <<nftVars, routerStorage>>

withdraw_max(token_id, caller, to) ==
    /\ routerAdmin # NoAccount
    /\ Holds(caller, token_id)
    /\ \/ /\ get_stream_data(token_id).type = "Flow"
          /\ F!withdraw_max(get_stream_data(token_id).id, RouterContract, to)
          /\ UNCHANGED lockupStorage
       \/ /\ get_stream_data(token_id).type = "Lockup"
          /\ L!withdraw_max(get_stream_data(token_id).id, RouterContract, to)
          /\ UNCHANGED flowStorage
    /\ signer' = caller
    /\ UNCHANGED <<nftVars, routerStorage>>

-----------------------------------------------------------------------------
(* What users ask of the contracts.  The recipient of a stream, the account *)
(* a withdrawal pays and the new owner of a token may be any address the    *)
(* user names, those of the contracts included.                             *)
Deploy(a) ==
    /\ a = Deployer
    /\ \/ initialize(a)
       \/ /\ nft_initialize(RouterContract)
          /\ signer' = NoAccount
          /\ UNCHANGED <<now, wallet, flowStorage, lockupStorage, routerStorage>>
       \/ \E hash \in Wasms : upgrade_nft(a, hash)

CreateRouted(a) ==
    \/ \E recipient \in Payees, token \in Tokens, rate \in Rates, start_time \in Starts :
          /\ a \in Senders
          /\ create_flow_stream(a, recipient, token, rate, TokenDecimals[token], start_time)
    \/ \E p \in Requests : p.sender = a /\ create_lockup_stream(p)

Withdraw(a) ==
    \E token_id \in TokenIds, to \in Payees :
        \/ \E amount \in Amounts : withdraw(token_id, a, to, amount)
        \/ withdraw_max(token_id, a, to)

TransferNft(a) ==
    /\ \E to \in Payees, token_id \in TokenIds : transfer(a, to, token_id)
    /\ signer' = a
    /\ UNCHANGED <<now, wallet, flowStorage, lockupStorage, routerStorage>>

(* Flow without the Router: streams of the user's own, to the Router's      *)
(* address too, and all that may be tried with a stream of either kind.     *)
CallFlow(a) ==
    /\ \/ \E recipient \in Payees, token \in Tokens, rate \in Rates, start_time \in Starts :
            /\ a \in Senders
            /\ \/ F!create(a, recipient, token, rate, TokenDecimals[token], start_time)
               \/ \E amount \in Amounts :
                    F!create_and_deposit(a, recipient, token, rate, TokenDecimals[token],
                                         start_time, amount)
       \/ \E id \in 1..MaxFlows :
            \/ \E amount \in Amounts : \/ a \in Senders /\ F!deposit(id, a, amount)
                                       \/ F!refund(id, a, amount)
            \/ \E to \in Payees : \/ \E amount \in Amounts : F!withdraw(id, a, to, amount)
                                 \/ F!withdraw_max(id, a, to)
            \/ F!pause(id, a)
            \/ \E rate \in Rates : F!restart(id, a, rate) \/ F!adjust_rate(id, a, rate)
            \/ F!refund_max(id, a)
            \/ F!void_stream(id, a)
    /\ signer' = NoAccount
    /\ UNCHANGED <<lockupStorage, nftVars, routerStorage>>

CallLockup(a) ==
    /\ \/ \E p \in Requests : p.sender = a /\ L!create(p)
       \/ \E id \in 1..MaxLockups :
            \/ \E to \in Payees : \/ \E amount \in Amounts : L!withdraw(id, a, to, amount)
                                 \/ L!withdraw_max(id, a, to)
            \/ L!cancel(id, a)
            \/ L!renounce(id, a)
    /\ signer' = NoAccount
    /\ UNCHANGED <<flowStorage, nftVars, routerStorage>>

Next ==
    \/ Tick
    \/ \E a \in Users : \/ Deploy(a) \/ CreateRouted(a) \/ Withdraw(a)
                        \/ TransferNft(a) \/ CallFlow(a) \/ CallLockup(a)

Spec == Init /\ [][Next]_vars

(* Ledgers keep closing, and whoever owns a token and may sign keeps       *)
(* asking for what it is worth.                                            *)
HolderAsks ==
    \A token_id \in TokenIds :
        WF_vars(\E a \in Users : withdraw_max(token_id, a, a))

LiveSpec == Spec /\ WF_vars(Tick) /\ HolderAsks

-----------------------------------------------------------------------------
(* Properties *)

(* The storage of all contracts is what each of them can have written, and  *)
(* no token exists before the Router and the NFT contract are initialized.  *)
TypeOK ==
    /\ F!TypeOK
    /\ L!TypeOK
    /\ NftTypeOK
    /\ routerAdmin \in Users \cup {NoAccount}
    /\ nextTokenId \in Nat
    /\ signer \in Users \cup {NoAccount}
    /\ Minted # {} => routerAdmin # NoAccount /\ nftAdmin = RouterContract

IsFlow(token_id) == streamData[token_id].type = "Flow"

(* Every token stands for a stream of its own: it names one that exists in  *)
(* the contract of its type and whose recipient is the Router, no two name  *)
(* the same, and the ids are those the Router handed out.  The three        *)
(* contracts count their ids apart, and users create streams directly.      *)
TokensNameStreams ==
    /\ Minted = 1..(nextTokenId - 1)
    /\ \A id \in Minted :
          IF IsFlow(id)
          THEN /\ streamData[id].id \in F!Ids
               /\ flows[streamData[id].id].recipient = RouterContract
          ELSE /\ streamData[id].id \in L!Ids
               /\ lockups[streamData[id].id].recipient = RouterContract
    /\ \A id1, id2 \in Minted : streamData[id1] = streamData[id2] => id1 = id2

(* What a token is worth now: what its stream would pay. *)
Due(token_id) ==
    IF IsFlow(token_id)
    THEN F!covered_debt_of(flows[streamData[token_id].id], now)
    ELSE L!withdrawable_amount_of(lockups[streamData[token_id].id], now)

(* "Transfer of NFT = transfer of stream recipient rights" (SKILL.md:330):  *)
(* a token changes hands, and what it is worth falls, only when its owner   *)
(* signs - not by a former owner, the owner of another token, the Router's  *)
(* deployer, nor any operation of Flow or Lockup that the stream's sender   *)
(* or others call directly (an upgrade of their code aside).                *)
BearerOnly ==
    [][\A id \in Minted :
          (owner'[id] # owner[id] \/ Due(id)' < Due(id)) => signer' = owner[id]]_vars

Emptied(token_id) == ~IsFlow(token_id) /\ lockups[streamData[token_id].id].is_depleted

(* The owner of a lockup's token who keeps asking is paid all that was not  *)
(* refunded, through any transfers among users: the tokens are stuck only   *)
(* with an owner that cannot sign.                                          *)
HolderPaid ==
    \A id \in TokenIds :
        (id \in Minted /\ ~IsFlow(id))
            ~> (id \in Minted /\ (Emptied(id) \/ owner[id] \notin Users))
=============================================================================
