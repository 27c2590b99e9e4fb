---------------------------- MODULE RouterProofs ----------------------------
(* Proofs about the Router with the contracts behind it: every token stands *)
(* for a routed stream of its own, the NFT's counter is the number of       *)
(* tokens owned, both engines keep their invariants beside each other, and  *)
(* only its owner can have a token moved or its stream pay, for any         *)
(* accounts and any number of streams.                                      *)
EXTENDS Router, StreamNFTProofs

(* The ids that were handed out: there is a stream for each of both engines, *)
(* and no more tokens than streams.                                          *)
Counted ==
    /\ nextFlowId \in 1..(MaxFlows + 1) /\ DOMAIN flows = F!Ids
    /\ nextLockupId \in 1..(MaxLockups + 1) /\ DOMAIN lockups = L!Ids
    /\ nextTokenId \in 0..(nextFlowId + nextLockupId - 1)
    /\ routerAdmin = NoAccount <=> nextTokenId = 0

RInv == NftInv /\ Counted /\ TokensNameStreams

(* Streams are only added, and none gets another recipient. *)
FlowsKept ==
    /\ nextFlowId' \in {nextFlowId, nextFlowId + 1}
    /\ nextFlowId' \in 1..(MaxFlows + 1)
    /\ DOMAIN flows' = 1..(nextFlowId' - 1)
    /\ \A id \in F!Ids : flows'[id].recipient = flows[id].recipient

LockupsKept ==
    /\ nextLockupId' \in {nextLockupId, nextLockupId + 1}
    /\ nextLockupId' \in 1..(MaxLockups + 1)
    /\ DOMAIN lockups' = 1..(nextLockupId' - 1)
    /\ \A id \in L!Ids : lockups'[id].recipient = lockups[id].recipient

-----------------------------------------------------------------------------
(* What the operations of Flow and Lockup do to the streams.  An operation  *)
(* on a stream rebuilds its record with the parties it had.                 *)

LEMMA FlowUnchanged ==
    ASSUME Counted, UNCHANGED <<flows, nextFlowId>>
    PROVE  FlowsKept
  BY DEF Counted, FlowsKept, F!Ids

LEMMA LockupUnchanged ==
    ASSUME Counted, UNCHANGED <<lockups, nextLockupId>>
    PROVE  LockupsKept
  BY DEF Counted, LockupsKept, L!Ids

LEMMA LongerPrefix ==
    ASSUME NEW m \in Int, NEW n \in Int, m <= n, NEW i \in 1..(m - 1)
    PROVE  i \in 1..(n - 1)
  OBVIOUS

(* A stream that exists goes on existing, with its recipient. *)
LEMMA FlowIdsGrow ==
    ASSUME Counted, FlowsKept, NEW id \in F!Ids
    PROVE  id \in F!Ids' /\ flows'[id].recipient = flows[id].recipient
  <1>1. nextFlowId \in Int /\ nextFlowId' \in Int /\ nextFlowId <= nextFlowId'
    BY RouterAssumption DEF Counted, FlowsKept
  <1>2. id \in 1..(nextFlowId - 1)
    BY DEF F!Ids
  <1>3. id \in 1..(nextFlowId' - 1)
    BY <1>1, <1>2, LongerPrefix
  <1> QED
    BY <1>3 DEF FlowsKept, F!Ids

LEMMA LockupIdsGrow ==
    ASSUME Counted, LockupsKept, NEW id \in L!Ids
    PROVE  id \in L!Ids' /\ lockups'[id].recipient = lockups[id].recipient
  <1>1. nextLockupId \in Int /\ nextLockupId' \in Int /\ nextLockupId <= nextLockupId'
    BY RouterAssumption DEF Counted, LockupsKept
  <1>2. id \in 1..(nextLockupId - 1)
    BY DEF L!Ids
  <1>3. id \in 1..(nextLockupId' - 1)
    BY <1>1, <1>2, LongerPrefix
  <1> QED
    BY <1>3 DEF LockupsKept, L!Ids

LEMMA FlowRewritten ==
    ASSUME Counted, NEW id \in F!Ids, NEW s, s.recipient = flows[id].recipient,
           flows' = [flows EXCEPT ![id] = s], nextFlowId' = nextFlowId
    PROVE  FlowsKept
  BY DEF Counted, FlowsKept, F!Ids

LEMMA LockupRewritten ==
    ASSUME Counted, NEW id \in L!Ids, NEW s, s.recipient = lockups[id].recipient,
           lockups' = [lockups EXCEPT ![id] = s], nextLockupId' = nextLockupId
    PROVE  LockupsKept
  BY DEF Counted, LockupsKept, L!Ids

(* A stream is added under the next id. *)
LEMMA FlowAdded ==
    ASSUME Counted, NEW s, F!AddStream(s)
    PROVE  /\ FlowsKept
           /\ nextFlowId \in 1..MaxFlows
           /\ nextFlowId' = nextFlowId + 1
           /\ flows'[nextFlowId] = s
  <1>1. /\ nextFlowId <= MaxFlows
        /\ nextFlowId' = nextFlowId + 1
        /\ flows' = [id \in 1..nextFlowId |-> IF id = nextFlowId THEN s ELSE flows[id]]
    BY DEF F!AddStream
  <1>2. nextFlowId \in 1..MaxFlows
    BY <1>1, RouterAssumption DEF Counted
  <1>3. FlowsKept
    BY <1>1, <1>2, RouterAssumption DEF Counted, FlowsKept, F!Ids
  <1> QED
    BY <1>1, <1>2, <1>3

LEMMA FlowCreated ==
    ASSUME Counted, NEW sender, NEW recipient, NEW token, NEW rate, NEW decimals,
           NEW start_time,
           F!create(sender, recipient, token, rate, decimals, start_time)
    PROVE  /\ FlowsKept
           /\ nextFlowId \in 1..MaxFlows
           /\ nextFlowId' = nextFlowId + 1
           /\ flows'[nextFlowId].recipient = recipient
  <1>1. F!NewStream(sender, recipient, token, rate, decimals, start_time).recipient
            = recipient
    BY DEF F!NewStream
  <1> QED
    BY <1>1, FlowAdded DEF F!create

LEMMA LockupCreated ==
    ASSUME Counted, NEW p, L!create(p)
    PROVE  /\ LockupsKept
           /\ nextLockupId \in 1..MaxLockups
           /\ nextLockupId' = nextLockupId + 1
           /\ lockups'[nextLockupId].recipient = p.recipient
  <1>1. /\ nextLockupId <= MaxLockups
        /\ nextLockupId' = nextLockupId + 1
        /\ lockups' = [id \in 1..nextLockupId |->
                          IF id = nextLockupId THEN L!NewStream(p) ELSE lockups[id]]
    BY DEF L!create
  <1>2. L!NewStream(p).recipient = p.recipient
    BY DEF L!NewStream
  <1>3. nextLockupId \in 1..MaxLockups
    BY <1>1, RouterAssumption DEF Counted
  <1>4. LockupsKept
    BY <1>1, <1>3, RouterAssumption DEF Counted, LockupsKept, L!Ids
  <1> QED
    BY <1>1, <1>2, <1>3, <1>4

LEMMA FlowWithdrawn ==
    ASSUME Counted, NEW id, NEW caller, NEW to, NEW amount,
           F!withdraw(id, caller, to, amount)
    PROVE  FlowsKept
  <1>1. /\ id \in F!Ids
        /\ flows' = [flows EXCEPT ![id] = F!Withdrawn(flows[id], amount)]
        /\ nextFlowId' = nextFlowId
    BY DEF F!withdraw
  <1>2. F!Withdrawn(flows[id], amount).recipient = flows[id].recipient
    BY DEF F!Withdrawn, F!Booked
  <1> QED
    BY <1>1, <1>2, FlowRewritten

LEMMA LockupWithdrawn ==
    ASSUME Counted, NEW id, NEW caller, NEW to, NEW amount,
           L!withdraw(id, caller, to, amount)
    PROVE  LockupsKept
  <1>1. /\ id \in L!Ids
        /\ lockups' = [lockups EXCEPT ![id] = L!Withdrawn(lockups[id], amount)]
        /\ nextLockupId' = nextLockupId
    BY DEF L!withdraw
  <1>2. L!Withdrawn(lockups[id], amount).recipient = lockups[id].recipient
    BY DEF L!Withdrawn, L!Booked
  <1> QED
    BY <1>1, <1>2, LockupRewritten

LEMMA FlowCalled ==
    ASSUME Counted, NEW a, CallFlow(a)
    PROVE  FlowsKept
  <1>1. ASSUME NEW recipient, NEW token, NEW rate, NEW decimals, NEW start_time,
               \/ F!create(a, recipient, token, rate, decimals, start_time)
               \/ \E amount \in Amounts :
                    F!create_and_deposit(a, recipient, token, rate, decimals, start_time,
                                         amount)
        PROVE  FlowsKept
    <2>1. CASE F!create(a, recipient, token, rate, decimals, start_time)
      BY <2>1, FlowCreated
    <2>2. ASSUME NEW amount,
                 F!create_and_deposit(a, recipient, token, rate, decimals, start_time, amount)
          PROVE  FlowsKept
      BY <2>2, FlowAdded DEF F!create_and_deposit
    <2> QED
      BY <1>1, <2>1, <2>2
  <1>2. ASSUME NEW id \in 1..MaxFlows, NEW amount \in Amounts, F!deposit(id, a, amount)
        PROVE  FlowsKept
    <2>1. /\ id \in F!Ids
          /\ flows' = [flows EXCEPT ![id] =
                          F!Funded(flows[id], flows[id].balance + amount)]
          /\ nextFlowId' = nextFlowId
      BY <1>2 DEF F!deposit
    <2>2. F!Funded(flows[id], flows[id].balance + amount).recipient
              = flows[id].recipient
      BY DEF F!Funded, F!Booked
    <2> QED
      BY <2>1, <2>2, FlowRewritten
  <1>3. ASSUME NEW id \in 1..MaxFlows, NEW to,
               \/ \E amount \in Amounts : F!withdraw(id, a, to, amount)
               \/ F!withdraw_max(id, a, to)
        PROVE  FlowsKept
    BY <1>3, FlowWithdrawn DEF F!withdraw_max
  <1>4. ASSUME NEW id \in 1..MaxFlows, NEW rate, id \in F!Ids, F!ChangeRate(id, rate)
        PROVE  FlowsKept
    <2>1. /\ flows' = [flows EXCEPT ![id] = F!Rerated(flows[id], rate)]
          /\ nextFlowId' = nextFlowId
      BY <1>4 DEF F!ChangeRate
    <2>2. F!Rerated(flows[id], rate).recipient = flows[id].recipient
      BY DEF F!Rerated, F!Booked
    <2> QED
      BY <1>4, <2>1, <2>2, FlowRewritten
  <1>5. ASSUME NEW id \in 1..MaxFlows, F!pause(id, a)
        PROVE  FlowsKept
    BY <1>4, <1>5 DEF F!pause
  <1>6. ASSUME NEW id \in 1..MaxFlows, NEW rate \in Rates,
               F!restart(id, a, rate) \/ F!adjust_rate(id, a, rate)
        PROVE  FlowsKept
    BY <1>4, <1>6 DEF F!restart, F!adjust_rate
  <1>7. ASSUME NEW id \in 1..MaxFlows, NEW amount, F!refund(id, a, amount)
        PROVE  FlowsKept
    <2> DEFINE left == flows[id].balance - amount
    <2>1. /\ id \in F!Ids
          /\ flows' = [flows EXCEPT ![id] = F!Funded(flows[id], left)]
          /\ nextFlowId' = nextFlowId
      BY <1>7 DEF F!refund
    <2>2. F!Funded(flows[id], left).recipient = flows[id].recipient
      BY DEF F!Funded, F!Booked
    <2> QED
      BY <2>1, <2>2, FlowRewritten
  <1>9. ASSUME NEW id \in 1..MaxFlows, F!refund_max(id, a)
        PROVE  FlowsKept
    BY <1>7, <1>9 DEF F!refund_max
  <1>8. ASSUME NEW id \in 1..MaxFlows, F!void_stream(id, a)
        PROVE  FlowsKept
    <2>1. /\ id \in F!Ids
          /\ flows' = [flows EXCEPT ![id] = F!Voided(flows[id])]
          /\ nextFlowId' = nextFlowId
      BY <1>8 DEF F!void_stream
    <2>2. F!Voided(flows[id]).recipient = flows[id].recipient
      BY DEF F!Voided, F!Booked
    <2> QED
      BY <2>1, <2>2, FlowRewritten
  <1> QED
    BY <1>1, <1>2, <1>3, <1>5, <1>6, <1>7, <1>8, <1>9 DEF CallFlow

LEMMA LockupCalled ==
    ASSUME Counted, NEW a, CallLockup(a)
    PROVE  LockupsKept
  <1>1. CASE \E p \in Requests : p.sender = a /\ L!create(p)
    BY <1>1, LockupCreated
  <1>2. ASSUME NEW id \in 1..MaxLockups, NEW to,
               \/ \E amount \in Amounts : L!withdraw(id, a, to, amount)
               \/ L!withdraw_max(id, a, to)
        PROVE  LockupsKept
    BY <1>2, LockupWithdrawn DEF L!withdraw_max
  <1>3. ASSUME NEW id \in 1..MaxLockups, L!cancel(id, a)
        PROVE  LockupsKept
    <2>1. /\ id \in L!Ids
          /\ lockups' = [lockups EXCEPT ![id] = L!Canceled(lockups[id])]
          /\ nextLockupId' = nextLockupId
      BY <1>3 DEF L!cancel
    <2>2. L!Canceled(lockups[id]).recipient = lockups[id].recipient
      BY DEF L!Canceled, L!Booked
    <2> QED
      BY <2>1, <2>2, LockupRewritten
  <1>4. ASSUME NEW id \in 1..MaxLockups, L!renounce(id, a)
        PROVE  LockupsKept
    <2>1. /\ id \in L!Ids
          /\ lockups' = [lockups EXCEPT ![id] = L!Renounced(lockups[id])]
          /\ nextLockupId' = nextLockupId
      BY <1>4 DEF L!renounce
    <2>2. L!Renounced(lockups[id]).recipient = lockups[id].recipient
      BY DEF L!Renounced, L!Booked
    <2> QED
      BY <2>1, <2>2, LockupRewritten
  <1> QED
    BY <1>1, <1>2, <1>3, <1>4 DEF CallLockup

-----------------------------------------------------------------------------
(* The steps. *)

LEMMA InitRInv == Init => RInv
  <1> SUFFICES ASSUME Init PROVE RInv
    OBVIOUS
  <1>1. NftInv
    BY InitInv DEF Init
  <1>2. Counted
    BY RouterAssumption DEF Init, Counted, F!Ids, L!Ids
  <1>3. Minted = {}
    BY DEF Init, NftInit, Minted
  <1>4. TokensNameStreams
    BY <1>3 DEF TokensNameStreams, Init
  <1> QED
    BY <1>1, <1>2, <1>4 DEF RInv

(* A step that mints nothing: it may move tokens and add streams. *)
LEMMA QuietKeeps ==
    ASSUME RInv, NftInv', FlowsKept, LockupsKept,
           Minted' = Minted, UNCHANGED <<streamData, routerStorage>>
    PROVE  RInv'
  <1>1. Counted'
    BY DEF RInv, Counted, FlowsKept, LockupsKept, F!Ids, L!Ids, routerStorage
  <1>2. TokensNameStreams'
    <2> USE DEF RInv, TokensNameStreams, IsFlow, routerStorage
    <2>1. Minted' = 1..(nextTokenId' - 1)
      OBVIOUS
    <2>2. ASSUME NEW id \in Minted, IsFlow(id)
          PROVE  /\ streamData[id].id \in F!Ids'
                 /\ flows'[streamData[id].id].recipient = RouterContract
      BY <2>2, FlowIdsGrow
    <2>3. ASSUME NEW id \in Minted, ~IsFlow(id)
          PROVE  /\ streamData[id].id \in L!Ids'
                 /\ lockups'[streamData[id].id].recipient = RouterContract
      BY <2>3, LockupIdsGrow
    <2> QED
      BY <2>1, <2>2, <2>3
  <1> QED
    BY <1>1, <1>2 DEF RInv

(* A step that mints a token for the stream it creates. *)
LEMMA MintedFor ==
    ASSUME RInv, FlowsKept, LockupsKept,
           routerAdmin # NoAccount, routerAdmin' = routerAdmin,
           nextTokenId' = nextTokenId + 1,
           NEW recipient \in Accounts, NEW type \in StreamType, NEW id \in StreamIds,
           mint(RouterContract, recipient, type, id, nextTokenId),
           IF type = "Flow"
           THEN /\ id = nextFlowId /\ nextFlowId' = nextFlowId + 1
                /\ nextLockupId' = nextLockupId
                /\ flows'[id].recipient = RouterContract
           ELSE /\ id = nextLockupId /\ nextLockupId' = nextLockupId + 1
                /\ nextFlowId' = nextFlowId
                /\ lockups'[id].recipient = RouterContract
    PROVE  RInv'
  <1>1. nextTokenId \in 1..(MaxFlows + MaxLockups)
    BY RouterAssumption DEF RInv, Counted, FlowsKept, LockupsKept
  <1>2. NftInv'
    BY <1>1, RouterAssumption, MintKeeps DEF RInv
  <1>3. Counted'
    <2>1. nextTokenId' \in 1..(nextFlowId' + nextLockupId' - 1)
      <3>1. nextTokenId \in 1..(nextFlowId + nextLockupId - 1)
        BY <1>1 DEF RInv, Counted
      <3>2. nextFlowId' + nextLockupId' = nextFlowId + nextLockupId + 1
        BY RouterAssumption DEF RInv, Counted
      <3>3. nextFlowId \in Int /\ nextLockupId \in Int
        BY RouterAssumption DEF RInv, Counted
      <3> QED
        BY <3>1, <3>2, <3>3
    <2> QED
      BY <2>1 DEF Counted, FlowsKept, LockupsKept, F!Ids, L!Ids
  <1>4. /\ Minted' = Minted \cup {nextTokenId}
        /\ Minted = 1..(nextTokenId - 1)
        /\ streamData'[nextTokenId] = [type |-> type, id |-> id]
        /\ \A token_id \in Minted : streamData'[token_id] = streamData[token_id]
    BY <1>1 DEF mint, Minted, RInv, TokensNameStreams
  <1>5. TokensNameStreams'
    <2>1. Minted' = 1..(nextTokenId' - 1)
      BY <1>1, <1>4
    <2>2. ASSUME NEW token_id \in Minted'
          PROVE  IF IsFlow(token_id)'
                 THEN /\ streamData'[token_id].id \in F!Ids'
                      /\ flows'[streamData'[token_id].id].recipient = RouterContract
                 ELSE /\ streamData'[token_id].id \in L!Ids'
                      /\ lockups'[streamData'[token_id].id].recipient = RouterContract
      <3>1. CASE token_id = nextTokenId
        BY <1>4, <3>1 DEF IsFlow, F!Ids, L!Ids, FlowsKept, LockupsKept, RInv, Counted,
                          StreamType
      <3>2. CASE token_id \in Minted /\ IsFlow(token_id)
        <4>1. /\ streamData[token_id].id \in F!Ids
              /\ flows[streamData[token_id].id].recipient = RouterContract
          BY <3>2 DEF RInv, TokensNameStreams
        <4> QED
          BY <1>4, <3>2, <4>1, FlowIdsGrow DEF IsFlow, RInv
      <3>3. CASE token_id \in Minted /\ ~IsFlow(token_id)
        <4>1. /\ streamData[token_id].id \in L!Ids
              /\ lockups[streamData[token_id].id].recipient = RouterContract
          BY <3>3 DEF RInv, TokensNameStreams
        <4> QED
          BY <1>4, <3>3, <4>1, LockupIdsGrow DEF IsFlow, RInv
      <3> QED
        BY <1>4, <3>1, <3>2, <3>3
    <2>3. ASSUME NEW token_id \in Minted
          PROVE  streamData[token_id] # [type |-> type, id |-> id]
      BY <2>3 DEF RInv, TokensNameStreams, IsFlow, F!Ids, L!Ids, Counted, StreamType
    <2>4. ASSUME NEW id1 \in Minted', NEW id2 \in Minted',
                 streamData'[id1] = streamData'[id2]
          PROVE  id1 = id2
      <3>1. CASE id1 \in Minted /\ id2 \in Minted
        BY <1>4, <2>4, <3>1 DEF RInv, TokensNameStreams
      <3> QED
        BY <1>4, <2>3, <2>4, <3>1
    <2> QED
      BY <2>1, <2>2, <2>4 DEF TokensNameStreams
  <1> QED
    BY <1>2, <1>3, <1>5 DEF RInv

LEMMA RoutedKeeps ==
    ASSUME RInv, NEW a \in Users, CreateRouted(a)
    PROVE  RInv'
  <1>1. ASSUME NEW recipient \in Payees, NEW token \in Tokens, NEW rate \in Rates,
               NEW start_time \in Starts,
               create_flow_stream(a, recipient, token, rate, TokenDecimals[token], start_time)
        PROVE  RInv'
    <2>1. /\ FlowsKept
          /\ nextFlowId \in StreamIds
          /\ nextFlowId' = nextFlowId + 1
          /\ flows'[nextFlowId].recipient = RouterContract
      BY <1>1, FlowCreated, RouterAssumption DEF create_flow_stream, RInv
    <2>2. LockupsKept /\ nextLockupId' = nextLockupId
      BY <1>1, LockupUnchanged DEF create_flow_stream, lockupStorage, RInv
    <2>3. recipient \in Accounts
      BY RouterAssumption
    <2> QED
      BY <1>1, <2>1, <2>2, <2>3, MintedFor DEF create_flow_stream, StreamType
  <1>2. ASSUME NEW p \in Requests, create_lockup_stream(p)
        PROVE  RInv'
    <2> DEFINE q == [p EXCEPT !.recipient = RouterContract]
    <2>1. /\ LockupsKept
          /\ nextLockupId \in StreamIds
          /\ nextLockupId' = nextLockupId + 1
          /\ lockups'[nextLockupId].recipient = q.recipient
      BY <1>2, LockupCreated, RouterAssumption DEF create_lockup_stream, RInv
    <2>2. FlowsKept /\ nextFlowId' = nextFlowId
      BY <1>2, FlowUnchanged DEF create_lockup_stream, flowStorage, RInv
    <2>3. p.recipient \in Accounts /\ q.recipient = RouterContract
      BY RouterAssumption
    <2> QED
      BY <1>2, <2>1, <2>2, <2>3, MintedFor DEF create_lockup_stream, StreamType
  <1> QED
    BY <1>1, <1>2 DEF CreateRouted

LEMMA DeployKeeps ==
    ASSUME RInv, NEW a \in Users, Deploy(a)
    PROVE  RInv'
  <1>1. CASE initialize(a)
    <2>1. a \in Accounts /\ a # NoAccount
      BY RouterAssumption, StreamNFTAssumption
    <2>2. NftInv'
      BY <1>1, AdminKeeps DEF initialize, RInv, nftVars, NftInv, NftTypeOK
    <2>3. nextTokenId = 0 /\ Minted = {} /\ Minted' = {}
      BY <1>1 DEF initialize, RInv, Counted, TokensNameStreams, nftVars, nfts, Minted
    <2>4. Counted'
      BY <1>1, <2>1, <2>3
         DEF initialize, RInv, Counted, F!Ids, L!Ids, flowStorage, lockupStorage
    <2>5. TokensNameStreams'
      BY <1>1, <2>3 DEF initialize, TokensNameStreams
    <2> QED
      BY <2>2, <2>4, <2>5 DEF RInv
  <1>2. ASSUME \/ nft_initialize(RouterContract)
               \/ \E hash \in Wasms : nft_upgrade(RouterContract, hash),
               UNCHANGED <<flowStorage, lockupStorage, routerStorage>>
        PROVE  RInv'
    <2>1. /\ UNCHANGED nfts
          /\ nftAdmin' \in Accounts \cup {NoAccount}
          /\ nftWasm' \in Wasms
      BY <1>2, RouterAssumption
         DEF nft_initialize, nft_upgrade, Contracts, RInv, NftInv, NftTypeOK
    <2>2. NftInv'
      BY <2>1, AdminKeeps DEF RInv
    <2>3. FlowsKept /\ LockupsKept
      BY <1>2, FlowUnchanged, LockupUnchanged DEF RInv, flowStorage, lockupStorage
    <2> QED
      BY <1>2, <2>1, <2>2, <2>3, QuietKeeps DEF nfts, Minted
  <1> QED
    BY <1>1, <1>2 DEF Deploy, upgrade_nft

LEMMA WithdrawKeeps ==
    ASSUME RInv, NEW a, Withdraw(a)
    PROVE  RInv'
  <1>1. FlowsKept /\ LockupsKept /\ UNCHANGED <<nftVars, routerStorage>>
    <2>1. ASSUME NEW token_id, NEW to, NEW amount, withdraw(token_id, a, to, amount)
          PROVE  FlowsKept /\ LockupsKept /\ UNCHANGED <<nftVars, routerStorage>>
      BY <2>1, FlowWithdrawn, LockupWithdrawn, FlowUnchanged, LockupUnchanged
         DEF withdraw, RInv, flowStorage, lockupStorage
    <2>2. ASSUME NEW token_id, NEW to, withdraw_max(token_id, a, to)
          PROVE  FlowsKept /\ LockupsKept /\ UNCHANGED <<nftVars, routerStorage>>
      BY <2>2, FlowWithdrawn, LockupWithdrawn, FlowUnchanged, LockupUnchanged
         DEF withdraw_max, F!withdraw_max, L!withdraw_max, RInv, flowStorage,
             lockupStorage
    <2> QED
      BY <2>1, <2>2 DEF Withdraw
  <1>2. NftInv'
    BY <1>1, AdminKeeps DEF RInv, NftInv, NftTypeOK, nftVars
  <1> QED
    BY <1>1, <1>2, QuietKeeps DEF nftVars, nfts, Minted

LEMMA TransferNftKeeps ==
    ASSUME RInv, NEW a, TransferNft(a)
    PROVE  RInv'
  <1>1. PICK to \in Payees, token_id \in TokenIds : transfer(a, to, token_id)
    BY DEF TransferNft
  <1>2. to \in Accounts
    BY RouterAssumption
  <1>3. NftInv'
    BY <1>1, <1>2, TransferKeeps DEF RInv
  <1>4. Minted' = Minted /\ streamData' = streamData
    BY <1>1 DEF transfer, Minted
  <1>5. FlowsKept /\ LockupsKept
    BY FlowUnchanged, LockupUnchanged DEF TransferNft, RInv, flowStorage, lockupStorage
  <1> QED
    BY <1>3, <1>4, <1>5, QuietKeeps DEF TransferNft

LEMMA DirectKeeps ==
    ASSUME RInv, NEW a, CallFlow(a) \/ CallLockup(a)
    PROVE  RInv'
  <1>1. FlowsKept
    BY FlowCalled, FlowUnchanged DEF CallLockup, RInv, flowStorage
  <1>2. LockupsKept
    BY LockupCalled, LockupUnchanged DEF CallFlow, RInv, lockupStorage
  <1>3. UNCHANGED <<nftVars, routerStorage>>
    BY DEF CallFlow, CallLockup
  <1>4. NftInv'
    BY <1>3, AdminKeeps DEF RInv, NftInv, NftTypeOK, nftVars
  <1> QED
    BY <1>1, <1>2, <1>3, <1>4, QuietKeeps DEF nftVars, nfts, Minted

(* Time passes, or nothing does. *)
LEMMA TickKeeps ==
    ASSUME RInv, Tick \/ UNCHANGED vars
    PROVE  RInv'
  <1>1. UNCHANGED <<flowStorage, lockupStorage, nftVars, routerStorage>>
    BY DEF Tick, F!Tick, vars, flowStorage
  <1>2. FlowsKept /\ LockupsKept
    BY <1>1, FlowUnchanged, LockupUnchanged DEF RInv, flowStorage, lockupStorage
  <1>3. NftInv'
    BY <1>1, AdminKeeps DEF RInv, NftInv, NftTypeOK, nftVars
  <1> QED
    BY <1>1, <1>2, <1>3, QuietKeeps DEF nftVars, nfts, Minted

LEMMA RouterStepKeeps == RInv /\ [Next]_vars => RInv'
  <1> SUFFICES ASSUME RInv, [Next]_vars PROVE RInv'
    OBVIOUS
  <1>1. CASE Tick \/ UNCHANGED vars
    BY <1>1, TickKeeps
  <1>2. ASSUME NEW a \in Users,
               \/ Deploy(a) \/ CreateRouted(a) \/ Withdraw(a)
               \/ TransferNft(a) \/ CallFlow(a) \/ CallLockup(a)
        PROVE  RInv'
    BY <1>2, DeployKeeps, RoutedKeeps, WithdrawKeeps, TransferNftKeeps, DirectKeeps
  <1> QED
    BY <1>1, <1>2 DEF Next

(* Every token names a stream of the contract of its type whose recipient   *)
(* is the Router, and no two name the same: for any number of streams,      *)
(* whatever is created and called without the Router.                       *)
THEOREM RouterTokensNameStreams == Spec => []TokensNameStreams
  <1>1. RInv => TokensNameStreams
    BY DEF RInv
  <1> QED
    BY InitRInv, RouterStepKeeps, <1>1, PTL DEF Spec

(* In the composition, too, balance() answers how many tokens are owned. *)
THEOREM RouterCounterIsCount == Spec => []CounterIsCount
  <1>1. RInv => CounterIsCount
    BY DEF RInv, NftInv
  <1> QED
    BY InitRInv, RouterStepKeeps, <1>1, PTL DEF Spec

-----------------------------------------------------------------------------
(* The engines behind the Router.  What is proved of Flow and of Lockup is  *)
(* used here of the streams, books and ledgers the Router's model holds.    *)

FP == INSTANCE FlowProofs WITH
    Self <- FlowContract, streams <- flows, nextStreamId <- nextFlowId,
    aggregate <- flowAggregate, MaxStreams <- MaxFlows

LP == INSTANCE LockupProofs WITH
    Self <- LockupContract, streams <- lockups, nextStreamId <- nextLockupId,
    aggregate <- lockupAggregate, MaxStreams <- MaxLockups,
    Requests <- L!CreateLockupParams

(* What the proofs about the engines assume is what the engines do. *)
LEMMA EnginesAssumed ==
    FP!TokenAssumption /\ FP!FlowAssumption /\ LP!TokenAssumption /\ LP!LockupAssumption
  BY EngineAssumption
     DEF F!TokenAssumption, F!FlowAssumption, L!TokenAssumption, L!LockupAssumption,
         FP!TokenAssumption, FP!FlowAssumption, LP!TokenAssumption, LP!LockupAssumption,
         L!CreateLockupParams, LP!CreateLockupParams

LEMMA FlowTypeIs == F!TypeOK <=> FP!TypeOK
  BY DEF F!TypeOK, FP!TypeOK, F!Ids, FP!Ids, F!FlowStream, FP!FlowStream, F!Wallets,
         FP!Wallets

LEMMA LockupTypeIs == L!TypeOK <=> LP!TypeOK
  BY DEF L!TypeOK, LP!TypeOK, L!Ids, LP!Ids, L!LockupStream, LP!LockupStream, L!Wallets,
         LP!Wallets

LEMMA WalletsAre == FP!Wallets = F!Wallets /\ LP!Wallets = F!Wallets
  BY DEF FP!Wallets, LP!Wallets, F!Wallets

LEMMA SameDebt ==
    ASSUME NEW s, NEW t
    PROVE  /\ F!covered_debt_of(s, t) = FP!covered_debt_of(s, t)
           /\ L!withdrawable_amount_of(s, t) = LP!withdrawable_amount_of(s, t)
  BY DEF F!covered_debt_of, FP!covered_debt_of, F!total_debt_of, FP!total_debt_of,
         F!total_debt_scaled_of, FP!total_debt_scaled_of, F!ongoing_debt_scaled_of,
         FP!ongoing_debt_scaled_of, F!descale_amount, FP!descale_amount,
         L!withdrawable_amount_of, LP!withdrawable_amount_of, L!streamed_amount_of,
         LP!streamed_amount_of, L!Vested, LP!Vested, L!VestedLinearly, LP!VestedLinearly,
         L!Clamped, LP!Clamped, L!UnlockSum, LP!UnlockSum, L!reference_time,
         LP!reference_time, L!discrete_elapsed, LP!discrete_elapsed

(* What the users have the engines do, but for withdrawals, and withdrawals *)
(* from a stream, which the Router asks for too.                            *)
FlowServes ==
    \/ \E a \in Users, recipient \in Accounts, token \in Tokens, rate \in Rates,
          start_time \in Starts :
          \/ F!create(a, recipient, token, rate, TokenDecimals[token], start_time)
          \/ \E amount \in Amounts :
               F!create_and_deposit(a, recipient, token, rate, TokenDecimals[token],
                                    start_time, amount)
    \/ \E id \in 1..MaxFlows, a \in Users :
          \/ \E amount \in Amounts : F!deposit(id, a, amount) \/ F!refund(id, a, amount)
          \/ F!pause(id, a)
          \/ \E rate \in Rates : F!restart(id, a, rate) \/ F!adjust_rate(id, a, rate)
          \/ F!refund_max(id, a)
          \/ F!void_stream(id, a)

FlowPays(id, caller) ==
    \E to \in Payees : \/ \E amount \in Amounts : F!withdraw(id, caller, to, amount)
                       \/ F!withdraw_max(id, caller, to)

LockupServes ==
    \/ \E p \in L!CreateLockupParams : p.sender \in Users /\ L!create(p)
    \/ \E id \in 1..MaxLockups, a \in Users : L!cancel(id, a) \/ L!renounce(id, a)

LockupPays(id, caller) ==
    \E to \in Payees : \/ \E amount \in Amounts : L!withdraw(id, caller, to, amount)
                       \/ L!withdraw_max(id, caller, to)

Drawers == Users \cup {RouterContract}

LEMMA PairIsSmall ==
    ASSUME NEW x, NEW y
    PROVE  Cardinality({x, y}) # 3
  <1>1. IsFiniteSet({}) /\ Cardinality({}) = 0
    BY FS_EmptySet
  <1>2. IsFiniteSet({x}) /\ Cardinality({x}) = 1
    <2>1. {x} = {} \cup {x}
      OBVIOUS
    <2> QED
      BY <1>1, <2>1, FS_AddElement
  <1>3. Cardinality({x} \cup {y}) \in {1, 2}
    BY <1>2, FS_AddElement
  <1>4. {x, y} = {x} \cup {y}
    OBVIOUS
  <1> QED
    BY <1>3, <1>4

(* The contracts are three, and none of them signs as a user. *)
LEMMA Parties ==
    /\ Users \subseteq Accounts /\ Payees \subseteq Accounts
    /\ Drawers \subseteq FP!Callers /\ Drawers \subseteq LP!Callers
    /\ Users \subseteq Drawers
    /\ FlowContract \in Accounts /\ LockupContract \in Accounts
    /\ RouterContract \in Accounts
    /\ FlowContract # LockupContract
    /\ FlowContract \notin Users /\ LockupContract \notin Users
    /\ RouterContract \notin Users
  <1>1. /\ RouterContract # FlowContract /\ RouterContract # LockupContract
        /\ FlowContract # LockupContract
    <2>1. CASE RouterContract = FlowContract
      <3>1. Contracts = {FlowContract, LockupContract}
        BY <2>1 DEF Contracts
      <3> QED
        BY <3>1, RouterAssumption, PairIsSmall
    <2>2. CASE RouterContract = LockupContract
      <3>1. Contracts = {FlowContract, LockupContract}
        BY <2>2 DEF Contracts
      <3> QED
        BY <3>1, RouterAssumption, PairIsSmall
    <2>3. CASE FlowContract = LockupContract
      <3>1. Contracts = {RouterContract, LockupContract}
        BY <2>3 DEF Contracts
      <3> QED
        BY <3>1, RouterAssumption, PairIsSmall
    <2> QED
      BY <2>1, <2>2, <2>3
  <1>2. /\ Contracts \subseteq Accounts /\ Users \cap Contracts = {}
        /\ Users \subseteq Accounts /\ Payees \subseteq Accounts
    BY RouterAssumption
  <1> QED
    BY <1>1, <1>2 DEF Contracts, Drawers, FP!Callers, LP!Callers

(* A call the Router or a user makes is a step of the engine called. *)
LEMMA FlowCallIsStep ==
    /\ FlowServes => FP!Create \/ FP!Deposit \/ FP!AdjustRate \/ FP!Refund \/ FP!Void
    /\ \A id \in 1..MaxFlows, caller \in Drawers : FlowPays(id, caller) => FP!Withdraw
  <1>0. ASSUME NEW token, NEW held, NEW funder, NEW amount,
               F!TakeDeposit(token, held, funder, amount)
        PROVE  FP!TakeDeposit(token, held, funder, amount)
    BY <1>0 DEF F!TakeDeposit, FP!TakeDeposit, F!CanTransfer, FP!CanTransfer,
                F!ExactTransfer, FP!ExactTransfer, F!Transferred, FP!Transferred,
                F!Received, FP!Received
  <1>1. ASSUME NEW a \in Users, NEW recipient \in Accounts, NEW token \in Tokens,
               NEW rate \in Rates, NEW start_time \in Starts,
               \/ F!create(a, recipient, token, rate, TokenDecimals[token], start_time)
               \/ \E amount \in Amounts :
                    F!create_and_deposit(a, recipient, token, rate, TokenDecimals[token],
                                         start_time, amount)
        PROVE  FP!Create
    <2> DEFINE decimals == TokenDecimals[token]
    <2>1. start_time \in 0..MaxTime /\ decimals \in {TokenDecimals[t] : t \in Tokens}
      BY RouterAssumption
    <2>2. a \in FP!Callers
      BY Parties
    <2> HIDE DEF decimals
    <2> USE DEF F!MayCreate, FP!MayCreate, F!AddStream, FP!AddStream, F!NewStream,
                FP!NewStream
    <2>3. CASE F!create(a, recipient, token, rate, decimals, start_time)
      <3>1. FP!create(a, recipient, token, rate, decimals, start_time)
        BY <2>3 DEF F!create, FP!create
      <3> QED
        BY <2>1, <2>2, <3>1 DEF FP!Create
    <2>4. ASSUME NEW amount \in Amounts,
                 F!create_and_deposit(a, recipient, token, rate, decimals, start_time, amount)
          PROVE  FP!Create
      <3>1. FP!create_and_deposit(a, recipient, token, rate, decimals, start_time, amount)
        BY <1>0, <2>4 DEF F!create_and_deposit, FP!create_and_deposit, F!Funded, FP!Funded,
                          F!Booked, FP!Booked
      <3> QED
        BY <2>1, <2>2, <3>1 DEF FP!Create
    <2> QED
      BY <1>1, <2>3, <2>4 DEF decimals
  <1>2. ASSUME NEW id \in 1..MaxFlows, NEW a \in Users, NEW amount \in Amounts,
               F!deposit(id, a, amount)
        PROVE  FP!Deposit
    <2>1. FP!deposit(id, a, amount)
      BY <1>0, <1>2 DEF F!deposit, FP!deposit, F!Ids, FP!Ids, F!Funded, FP!Funded,
                        F!Booked, FP!Booked
    <2> QED
      BY <2>1, Parties DEF FP!Deposit
  <1> USE DEF F!Ids, FP!Ids, F!DebtFits, FP!DebtFits, F!total_debt_scaled_of,
              FP!total_debt_scaled_of, F!ongoing_debt_scaled_of,
              FP!ongoing_debt_scaled_of, F!covered_debt_of, FP!covered_debt_of,
              F!total_debt_of, FP!total_debt_of, F!descale_amount, FP!descale_amount,
              F!scale_amount, FP!scale_amount, F!Booked, FP!Booked
  <1>3. ASSUME NEW id \in 1..MaxFlows, NEW a \in Users, NEW rate, F!ChangeRate(id, rate)
        PROVE  FP!ChangeRate(id, rate)
    BY <1>3 DEF F!ChangeRate, FP!ChangeRate, F!Rerated, FP!Rerated
  <1>4. ASSUME NEW id \in 1..MaxFlows, NEW a \in Users, F!pause(id, a)
        PROVE  FP!AdjustRate
    <2>1. FP!pause(id, a)
      BY <1>3, <1>4 DEF F!pause, FP!pause
    <2> QED
      BY <2>1, Parties DEF FP!AdjustRate
  <1>5. ASSUME NEW id \in 1..MaxFlows, NEW a \in Users, NEW rate \in Rates,
               F!restart(id, a, rate) \/ F!adjust_rate(id, a, rate)
        PROVE  FP!AdjustRate
    <2>1. FP!restart(id, a, rate) \/ FP!adjust_rate(id, a, rate)
      BY <1>3, <1>5 DEF F!restart, FP!restart, F!adjust_rate, FP!adjust_rate
    <2> QED
      BY <2>1, Parties DEF FP!AdjustRate
  <1>6. ASSUME NEW token, NEW to, NEW amount, F!PayOut(token, to, amount)
        PROVE  FP!PayOut(token, to, amount)
    BY <1>6 DEF F!PayOut, FP!PayOut, F!CanTransfer, FP!CanTransfer, F!Transferred,
                FP!Transferred, F!Received, FP!Received
  <1>7. ASSUME NEW id \in 1..MaxFlows, NEW a \in Users,
               (\E amount \in Amounts : F!refund(id, a, amount)) \/ F!refund_max(id, a)
        PROVE  FP!Refund
    <2>1. (\E amount \in Amounts : FP!refund(id, a, amount)) \/ FP!refund_max(id, a)
      BY <1>6, <1>7 DEF F!refund_max, FP!refund_max, F!refund, FP!refund, F!Funded,
                        FP!Funded, F!refundable_amount_of, FP!refundable_amount_of
    <2> QED
      BY <2>1, Parties DEF FP!Refund
  <1>8. ASSUME NEW id \in 1..MaxFlows, NEW a \in Users, F!void_stream(id, a)
        PROVE  FP!Void
    <2>1. FP!void_stream(id, a)
      BY <1>8 DEF F!void_stream, FP!void_stream, F!Voided, FP!Voided,
                  F!uncovered_debt_of, FP!uncovered_debt_of
    <2> QED
      BY <2>1, Parties DEF FP!Void
  <1>9. ASSUME NEW id, NEW caller, NEW to, NEW amount, F!withdraw(id, caller, to, amount)
        PROVE  FP!withdraw(id, caller, to, amount)
    BY <1>6, <1>9 DEF F!withdraw, FP!withdraw, F!Withdrawn, FP!Withdrawn
  <1>10. ASSUME NEW id \in 1..MaxFlows, NEW caller \in Drawers, NEW to \in Payees,
                \/ \E amount \in Amounts : F!withdraw(id, caller, to, amount)
                \/ F!withdraw_max(id, caller, to)
         PROVE  FP!Withdraw
    <2>1. \/ \E amount \in Amounts : FP!withdraw(id, caller, to, amount)
          \/ FP!withdraw_max(id, caller, to)
      BY <1>9, <1>10 DEF F!withdraw_max, FP!withdraw_max
    <2> QED
      BY <2>1, Parties DEF FP!Withdraw
  <1> QED
    BY <1>1, <1>2, <1>4, <1>5, <1>7, <1>8, <1>10 DEF FlowServes, FlowPays

LEMMA LockupCallIsStep ==
    /\ LockupServes => LP!Create \/ LP!Cancel \/ LP!Renounce
    /\ \A id \in 1..MaxLockups, caller \in Drawers : LockupPays(id, caller) => LP!Withdraw
  <1> USE DEF L!Ids, LP!Ids, L!Booked, LP!Booked, L!Remaining, LP!Remaining,
              L!is_cancelable, LP!is_cancelable, L!streamed_amount_of,
              LP!streamed_amount_of, L!Vested, LP!Vested, L!VestedLinearly,
              LP!VestedLinearly, L!Clamped, LP!Clamped, L!UnlockSum, LP!UnlockSum,
              L!reference_time, LP!reference_time, L!discrete_elapsed,
              LP!discrete_elapsed
  <1>1. ASSUME NEW p \in L!CreateLockupParams, L!create(p)
        PROVE  LP!Create
    <2>1. LP!create(p)
      BY <1>1 DEF L!create, LP!create, L!MayCreate, LP!MayCreate, L!NewStream,
                  LP!NewStream, L!CanTransfer, LP!CanTransfer, L!ExactTransfer,
                  LP!ExactTransfer, L!Transferred, LP!Transferred, L!Received,
                  LP!Received
    <2> QED
      BY <2>1 DEF LP!Create
  <1>2. ASSUME NEW token, NEW to, NEW amount, L!PayOut(token, to, amount)
        PROVE  LP!PayOut(token, to, amount)
    BY <1>2 DEF L!PayOut, LP!PayOut, L!CanTransfer, LP!CanTransfer, L!Transferred,
                LP!Transferred, L!Received, LP!Received
  <1>3. ASSUME NEW id \in 1..MaxLockups, NEW a \in Users, L!cancel(id, a)
        PROVE  LP!Cancel
    <2>1. LP!cancel(id, a)
      BY <1>2, <1>3 DEF L!cancel, LP!cancel, L!RecipientAmount, LP!RecipientAmount,
                        L!SenderAmount, LP!SenderAmount, L!Canceled, LP!Canceled
    <2> QED
      BY <2>1, Parties DEF LP!Cancel
  <1>4. ASSUME NEW id \in 1..MaxLockups, NEW a \in Users, L!renounce(id, a)
        PROVE  LP!Renounce
    <2>1. LP!renounce(id, a)
      BY <1>4 DEF L!renounce, LP!renounce, L!Renounced, LP!Renounced
    <2> QED
      BY <2>1, Parties DEF LP!Renounce
  <1>5. ASSUME NEW id, NEW caller, NEW to, NEW amount, L!withdraw(id, caller, to, amount)
        PROVE  LP!withdraw(id, caller, to, amount)
    BY <1>2, <1>5 DEF L!withdraw, LP!withdraw, L!Withdrawn, LP!Withdrawn,
                      L!withdrawable_amount_of, LP!withdrawable_amount_of
  <1>6. ASSUME NEW id \in 1..MaxLockups, NEW caller \in Drawers, NEW to \in Payees,
               \/ \E amount \in Amounts : L!withdraw(id, caller, to, amount)
               \/ L!withdraw_max(id, caller, to)
        PROVE  LP!Withdraw
    <2>1. \/ \E amount \in Amounts : LP!withdraw(id, caller, to, amount)
          \/ LP!withdraw_max(id, caller, to)
      BY <1>5, <1>6 DEF L!withdraw_max, LP!withdraw_max, L!withdrawable_amount_of,
                        LP!withdrawable_amount_of
    <2> QED
      BY <2>1, Parties DEF LP!Withdraw
  <1> QED
    BY <1>1, <1>3, <1>4, <1>6 DEF LockupServes, LockupPays

-----------------------------------------------------------------------------
(* The engines share the token ledgers: what a call of one does to the    *)
(* other.                                                                  *)

(* A payment leaves alone what belongs to neither of its parties. *)
LEMMA PaymentSpares ==
    ASSUME wallet \in F!Wallets, NEW token, NEW from, NEW to, NEW amount,
           \/ wallet' = F!Transferred(wallet, token, from, to, amount)
           \/ wallet' = L!Transferred(wallet, token, from, to, amount),
           NEW a \in Accounts, a # from, a # to
    PROVE  \A t \in Tokens : wallet'[t][a] = wallet[t][a]
  <1>1. ASSUME NEW t \in Tokens
        PROVE  wallet'[t][a] = wallet[t][a]
    <2>1. wallet \in [Tokens -> [Accounts -> Nat]]
      BY DEF F!Wallets
    <2>2. wallet[t][a] \in Nat
      BY <2>1
    <2>3. wallet' = [wallet EXCEPT ![token] =
                        [b \in Accounts |->
                            wallet[token][b] - (IF b = from THEN amount ELSE 0)
                               + (IF b = to THEN F!Received(token, amount) ELSE 0)]]
      BY DEF F!Transferred, L!Transferred, F!Received, L!Received
    <2>4. CASE t = token
      <3>1. wallet'[t][a] = wallet[t][a] - 0 + 0
        BY <2>1, <2>3, <2>4
      <3> QED
        BY <2>2, <3>1
    <2>5. CASE t # token
      BY <2>1, <2>3, <2>5
    <2> QED
      BY <2>4, <2>5
  <1> QED
    BY <1>1

(* A payment takes from nobody but the one who makes it. *)
LEMMA PaymentTakesNothing ==
    ASSUME wallet \in F!Wallets, NEW token, NEW from, NEW to, NEW amount \in Int,
           \/ wallet' = F!Transferred(wallet, token, from, to, amount)
           \/ wallet' = L!Transferred(wallet, token, from, to, amount),
           token \in Tokens, NEW a \in Accounts, a # from
    PROVE  \A t \in Tokens : wallet'[t][a] >= wallet[t][a]
  <1>1. CASE a # to
    <2>1. \A t \in Tokens : wallet'[t][a] = wallet[t][a]
      BY <1>1, PaymentSpares
    <2>2. \A t \in Tokens : wallet[t][a] \in Nat
      BY DEF F!Wallets
    <2> QED
      BY <2>1, <2>2
  <1>2. CASE a = to
    <2> DEFINE received == F!Received(token, amount)
    <2>1. received \in Nat
      <3>1. TransferFee[token] \in Nat
        BY EnginesAssumed DEF FP!TokenAssumption
      <3> QED
        BY <3>1 DEF F!Received
    <2>2. L!Received(token, amount) = received
      BY DEF F!Received, L!Received
    <2> HIDE DEF received
    <2>3. wallet' = [wallet EXCEPT ![token] =
                        [b \in Accounts |->
                            wallet[token][b] - (IF b = from THEN amount ELSE 0)
                               + (IF b = to THEN received ELSE 0)]]
      BY <2>2 DEF F!Transferred, L!Transferred, received
    <2>4. wallet \in [Tokens -> [Accounts -> Nat]]
      BY DEF F!Wallets
    <2>5. ASSUME NEW t \in Tokens PROVE wallet'[t][a] >= wallet[t][a]
      <3>1. wallet[t][a] \in Nat
        BY <2>4
      <3>2. t = token => wallet'[t][a] = wallet[t][a] - 0 + received
        BY <1>2, <2>3, <2>4
      <3>3. t # token => wallet'[t][a] = wallet[t][a]
        BY <2>3, <2>4
      <3> QED
        BY <2>1, <3>1, <3>2, <3>3
    <2> QED
      BY <2>5
  <1> QED
    BY <1>1, <1>2

(* Nothing is taken from the contract; it may be paid something. *)
Spares(contract) == \A token \in Tokens : wallet'[token][contract] >= wallet[token][contract]

LEMMA UntouchedIsSpared ==
    ASSUME wallet \in F!Wallets, NEW contract \in Accounts,
           \A token \in Tokens : wallet'[token][contract] = wallet[token][contract]
    PROVE  Spares(contract)
  <1>1. \A token \in Tokens : wallet[token][contract] \in Nat
    BY DEF F!Wallets
  <1> QED
    BY <1>1 DEF Spares

LEMMA FlowSparesLockup ==
    ASSUME FP!IInv, NEW id, NEW caller, FlowServes \/ FlowPays(id, caller)
    PROVE  now' = now /\ Spares(LockupContract)
  <1>0. /\ wallet \in F!Wallets
        /\ LockupContract # FlowContract /\ LockupContract \in Accounts
        /\ LockupContract \notin Users
    BY Parties, WalletsAre DEF FP!IInv, FP!TypeOK
  <1>1. ASSUME NEW stream \in F!Ids, NEW to, NEW amount \in Int,
               F!PayOut(flows[stream].token, to, amount)
        PROVE  Spares(LockupContract)
    <2>1. wallet' = F!Transferred(wallet, flows[stream].token, FlowContract, to, amount)
      BY <1>1 DEF F!PayOut
    <2>2. flows[stream].token \in Tokens
      BY DEF FP!IInv, FP!TypeOK, FP!FlowStream, F!Ids, FP!Ids
    <2> QED
      BY <1>0, <2>1, <2>2, PaymentTakesNothing DEF Spares
  <1>2. ASSUME NEW amount \in Amounts
        PROVE  amount \in Int
    BY EnginesAssumed DEF FP!FlowAssumption
  <1>3. ASSUME NEW stream \in F!Ids
        PROVE  /\ F!covered_debt_of(flows[stream], now) \in Int
               /\ F!refundable_amount_of(flows[stream], now) \in Int
    <2>1. flows[stream] \in FP!FlowStream /\ now \in Nat
      BY DEF FP!IInv, FP!TypeOK, F!Ids, FP!Ids
    <2>2. FP!covered_debt_of(flows[stream], now) \in Int /\ flows[stream].balance \in Int
      BY <2>1, EnginesAssumed, FP!DebtTypes, FP!RecordTypes
    <2>3. F!covered_debt_of(flows[stream], now) = FP!covered_debt_of(flows[stream], now)
      BY SameDebt
    <2> QED
      BY <2>2, <2>3 DEF F!refundable_amount_of
  <1>4. CASE FlowPays(id, caller)
    <2>1. ASSUME NEW to, NEW amount \in Int, F!withdraw(id, caller, to, amount)
          PROVE  now' = now /\ Spares(LockupContract)
      BY <1>1, <2>1 DEF F!withdraw
    <2> QED
      BY <1>2, <1>3, <1>4, <2>1 DEF FlowPays, F!withdraw_max
  <1>5. ASSUME NEW a \in Users, NEW token, NEW held, NEW amount,
               F!TakeDeposit(token, held, a, amount)
        PROVE  Spares(LockupContract)
    <2>1. wallet' = F!Transferred(wallet, token, a, FlowContract, amount)
      BY <1>5 DEF F!TakeDeposit
    <2> QED
      BY <1>0, <2>1, PaymentSpares, UntouchedIsSpared
  <1>6. ASSUME NEW a \in Users, NEW stream, NEW amount \in Int, F!refund(stream, a, amount)
        PROVE  now' = now /\ Spares(LockupContract)
    BY <1>1, <1>6 DEF F!refund
  <1>7. ASSUME NEW a \in Users, NEW stream, F!refund_max(stream, a)
        PROVE  now' = now /\ Spares(LockupContract)
    BY <1>3, <1>6, <1>7 DEF F!refund_max
  <1>8. ASSUME UNCHANGED <<now, wallet>>
        PROVE  now' = now /\ Spares(LockupContract)
    BY <1>0, <1>8, UntouchedIsSpared
  <1>9. CASE \E a \in Users, recipient \in Accounts, token \in Tokens, rate \in Rates,
                start_time \in Starts :
                \/ F!create(a, recipient, token, rate, TokenDecimals[token], start_time)
                \/ \E amount \in Amounts :
                     F!create_and_deposit(a, recipient, token, rate, TokenDecimals[token],
                                          start_time, amount)
    BY <1>5, <1>8, <1>9 DEF F!create, F!create_and_deposit
  <1>10. ASSUME NEW stream, NEW a \in Users, NEW amount \in Amounts,
                F!deposit(stream, a, amount) \/ F!refund(stream, a, amount)
         PROVE  now' = now /\ Spares(LockupContract)
    BY <1>2, <1>5, <1>6, <1>10 DEF F!deposit
  <1>11. ASSUME NEW stream, NEW a, NEW rate,
                \/ F!pause(stream, a) \/ F!restart(stream, a, rate)
                \/ F!adjust_rate(stream, a, rate) \/ F!void_stream(stream, a)
         PROVE  now' = now /\ Spares(LockupContract)
    BY <1>8, <1>11 DEF F!pause, F!restart, F!adjust_rate, F!ChangeRate, F!void_stream
  <1> QED
    BY <1>4, <1>7, <1>9, <1>10, <1>11 DEF FlowServes

LEMMA LockupSparesFlow ==
    ASSUME LP!IInv, NEW id, NEW caller, LockupServes \/ LockupPays(id, caller)
    PROVE  now' = now /\ Spares(FlowContract)
  <1>0. /\ wallet \in F!Wallets
        /\ FlowContract # LockupContract /\ FlowContract \in Accounts
        /\ FlowContract \notin Users
    BY Parties, WalletsAre DEF LP!IInv, LP!TypeOK
  <1>1. CASE LockupPays(id, caller)
    <2>1. ASSUME NEW to, NEW amount \in Int, L!withdraw(id, caller, to, amount)
          PROVE  now' = now /\ Spares(FlowContract)
      <3>1. /\ wallet' = L!Transferred(wallet, lockups[id].token, LockupContract, to, amount)
            /\ now' = now /\ id \in L!Ids
        BY <2>1 DEF L!withdraw, L!PayOut
      <3>2. lockups[id].token \in Tokens
        BY <3>1 DEF LP!IInv, LP!TypeOK, LP!LockupStream, L!Ids, LP!Ids
      <3> QED
        BY <1>0, <3>1, <3>2, PaymentTakesNothing DEF Spares
    <2>2. \A amount \in Amounts : amount \in Int
      BY EnginesAssumed DEF LP!LockupAssumption
    <2>3. ASSUME id \in L!Ids
          PROVE  L!withdrawable_amount_of(lockups[id], now) \in Int
      <3>1. /\ lockups[id] \in LP!LockupStream /\ now \in Nat
            /\ LP!Sound(lockups[id], now)
        BY <2>3 DEF LP!IInv, LP!TypeOK, L!Ids, LP!Ids
      <3>2. /\ LP!streamed_amount_of(lockups[id], now) \in Nat
            /\ lockups[id].withdrawn_amount \in Nat
        BY <3>1, EnginesAssumed, LP!StreamedType, LP!RecordTypes DEF LP!Sound
      <3>3. LP!withdrawable_amount_of(lockups[id], now) \in Int
        BY <3>2 DEF LP!withdrawable_amount_of
      <3> QED
        BY <3>3, SameDebt
    <2> QED
      BY <1>1, <2>1, <2>2, <2>3 DEF LockupPays, L!withdraw_max
  <1>2. ASSUME NEW p, p.sender \in Users, L!create(p)
        PROVE  now' = now /\ Spares(FlowContract)
    <2>1. /\ now' = now
          /\ wallet' = L!Transferred(wallet, p.token, p.sender, LockupContract,
                                     p.total_amount)
      BY <1>2 DEF L!create
    <2>2. FlowContract # p.sender
      BY <1>0, <1>2
    <2> QED
      BY <1>0, <2>1, <2>2, PaymentSpares, UntouchedIsSpared
  <1>3. ASSUME NEW a \in Users, NEW stream, L!cancel(stream, a)
        PROVE  now' = now /\ Spares(FlowContract)
    <2>1. PICK token, amount :
             wallet' = L!Transferred(wallet, token, LockupContract, a, amount)
      BY <1>3 DEF L!cancel, L!PayOut
    <2>2. now' = now /\ FlowContract # a
      BY <1>0, <1>3 DEF L!cancel
    <2> QED
      BY <1>0, <2>1, <2>2, PaymentSpares, UntouchedIsSpared
  <1>4. ASSUME UNCHANGED <<now, wallet>>
        PROVE  now' = now /\ Spares(FlowContract)
    BY <1>0, <1>4, UntouchedIsSpared
  <1> QED
    BY <1>1, <1>2, <1>3, <1>4 DEF LockupServes, L!renounce

-----------------------------------------------------------------------------
(* The invariants of both engines. *)
EnginesInv == FP!IInv /\ FP!Kept /\ LP!IInv

(* What happens elsewhere changes nothing in an engine. *)
LEMMA FlowAside ==
    ASSUME EnginesInv, UNCHANGED <<now, flowStorage>>, wallet' \in F!Wallets,
           Spares(FlowContract)
    PROVE  FP!IInv' /\ FP!Kept'
  <1>1. /\ FP!Ids' = FP!Ids /\ now' = now /\ flows' = flows /\ nextFlowId' = nextFlowId
        /\ flowAggregate' = flowAggregate
    BY DEF flowStorage, FP!Ids
  <1>2. FP!TypeOK'
    BY <1>1, WalletsAre DEF EnginesInv, FP!IInv, FP!TypeOK
  <1>3. FP!AggregateIsSum'
    BY <1>1 DEF EnginesInv, FP!IInv, FP!AggregateIsSum, FP!Held
  <1>4. FP!ContractSolvent'
    <2>1. ASSUME NEW token \in Tokens
          PROVE  wallet'[token][FlowContract] >= flowAggregate[token]
      <3>1. /\ wallet[token][FlowContract] >= flowAggregate[token]
            /\ wallet'[token][FlowContract] >= wallet[token][FlowContract]
        BY DEF EnginesInv, FP!IInv, FP!ContractSolvent, Spares
      <3>2. /\ wallet[token][FlowContract] \in Nat /\ wallet'[token][FlowContract] \in Nat
            /\ flowAggregate[token] \in Int
        BY Parties, EnginesAssumed, WalletsAre
           DEF EnginesInv, FP!IInv, FP!TypeOK, F!Wallets, FP!FlowAssumption
      <3> QED
        BY <3>1, <3>2
    <2> QED
      BY <1>1, <2>1 DEF FP!ContractSolvent
  <1>5. FP!Kept'
    BY <1>1 DEF EnginesInv, FP!Kept
  <1> QED
    BY <1>2, <1>3, <1>4, <1>5 DEF FP!IInv

LEMMA LockupAside ==
    ASSUME EnginesInv, UNCHANGED <<now, lockupStorage>>, wallet' \in F!Wallets,
           Spares(LockupContract)
    PROVE  LP!IInv'
  <1>1. /\ LP!Ids' = LP!Ids /\ now' = now /\ lockups' = lockups
        /\ nextLockupId' = nextLockupId /\ lockupAggregate' = lockupAggregate
    BY DEF lockupStorage, LP!Ids
  <1>2. LP!TypeOK'
    BY <1>1, WalletsAre DEF EnginesInv, LP!IInv, LP!TypeOK
  <1>3. LP!AggregateIsSum'
    BY <1>1 DEF EnginesInv, LP!IInv, LP!AggregateIsSum, LP!Held
  <1>4. LP!ContractSolvent'
    <2>1. ASSUME NEW token \in Tokens
          PROVE  wallet'[token][LockupContract] >= lockupAggregate[token]
      <3>1. /\ wallet[token][LockupContract] >= lockupAggregate[token]
            /\ wallet'[token][LockupContract] >= wallet[token][LockupContract]
        BY DEF EnginesInv, LP!IInv, LP!ContractSolvent, Spares
      <3>2. /\ wallet[token][LockupContract] \in Nat /\ wallet'[token][LockupContract] \in Nat
            /\ lockupAggregate[token] \in Int
        BY Parties, EnginesAssumed, WalletsAre
           DEF EnginesInv, LP!IInv, LP!TypeOK, F!Wallets, LP!LockupAssumption
      <3> QED
        BY <3>1, <3>2
    <2> QED
      BY <1>1, <2>1 DEF LP!ContractSolvent
  <1>5. \A id \in LP!Ids' : LP!Sound(lockups[id], now)'
    BY <1>1 DEF EnginesInv, LP!IInv
  <1> QED
    BY <1>1, <1>2, <1>3, <1>4, <1>5 DEF LP!IInv

(* Every step is time's, one of an engine's alone, or none of theirs; and   *)
(* the Router has an engine pay only the stream of a token, for its owner.  *)
LEMMA EngineSteps ==
    ASSUME [Next]_vars
    PROVE  \/ Tick
           \/ UNCHANGED <<now, wallet, flowStorage, lockupStorage>>
           \/ FlowServes /\ UNCHANGED lockupStorage
           \/ LockupServes /\ UNCHANGED flowStorage
           \/ /\ \E id \in 1..MaxFlows, a \in Users : FlowPays(id, a)
              /\ UNCHANGED lockupStorage
           \/ /\ \E id \in 1..MaxLockups, a \in Users : LockupPays(id, a)
              /\ UNCHANGED flowStorage
           \/ \E token_id \in Minted :
                 /\ signer' = owner[token_id]
                 /\ \/ /\ IsFlow(token_id)
                       /\ FlowPays(streamData[token_id].id, RouterContract)
                       /\ UNCHANGED lockupStorage
                    \/ /\ ~IsFlow(token_id)
                       /\ LockupPays(streamData[token_id].id, RouterContract)
                       /\ UNCHANGED flowStorage
  <1>1. CASE UNCHANGED vars
    BY <1>1 DEF vars
  <1>2. ASSUME NEW a \in Users, Deploy(a) \/ TransferNft(a)
        PROVE  UNCHANGED <<now, wallet, flowStorage, lockupStorage>>
    BY <1>2 DEF Deploy, TransferNft, initialize, upgrade_nft
  <1>3. ASSUME NEW a \in Users, CreateRouted(a)
        PROVE  \/ FlowServes /\ UNCHANGED lockupStorage
               \/ LockupServes /\ UNCHANGED flowStorage
    <2>1. ASSUME NEW recipient \in Payees, NEW token \in Tokens, NEW rate \in Rates,
                 NEW start_time \in Starts,
                 create_flow_stream(a, recipient, token, rate, TokenDecimals[token], start_time)
          PROVE  FlowServes /\ UNCHANGED lockupStorage
      BY <2>1, Parties DEF create_flow_stream, FlowServes
    <2>2. ASSUME NEW p \in Requests, p.sender = a, create_lockup_stream(p)
          PROVE  LockupServes /\ UNCHANGED flowStorage
      <3> DEFINE q == [p EXCEPT !.recipient = RouterContract]
      <3>1. p \in L!CreateLockupParams
        BY EngineAssumption DEF L!LockupAssumption
      <3>2. q \in L!CreateLockupParams /\ q.sender = a
        BY <2>2, <3>1, Parties DEF L!CreateLockupParams
      <3> QED
        BY <2>2, <3>2 DEF create_lockup_stream, LockupServes
    <2> QED
      BY <1>3, <2>1, <2>2 DEF CreateRouted
  <1>4. ASSUME NEW a \in Users, CallFlow(a)
        PROVE  (FlowServes \/ \E id \in 1..MaxFlows : FlowPays(id, a)) /\ UNCHANGED lockupStorage
    BY <1>4, Parties DEF CallFlow, FlowServes, FlowPays
  <1>5. ASSUME NEW a \in Users, CallLockup(a)
        PROVE  /\ LockupServes \/ \E id \in 1..MaxLockups : LockupPays(id, a)
               /\ UNCHANGED flowStorage
    <2>1. \A p \in Requests : p \in L!CreateLockupParams
      BY EngineAssumption DEF L!LockupAssumption
    <2> QED
      BY <1>5, <2>1 DEF CallLockup, LockupServes, LockupPays
  <1>6. ASSUME NEW a \in Users, Withdraw(a)
        PROVE  \E token_id \in Minted :
                 /\ signer' = owner[token_id]
                 /\ \/ /\ IsFlow(token_id)
                       /\ FlowPays(streamData[token_id].id, RouterContract)
                       /\ UNCHANGED lockupStorage
                    \/ /\ ~IsFlow(token_id)
                       /\ LockupPays(streamData[token_id].id, RouterContract)
                       /\ UNCHANGED flowStorage
    BY <1>6 DEF Withdraw, withdraw, withdraw_max, Holds, owner_of, get_stream_data,
                IsFlow, FlowPays, LockupPays
  <1> QED
    BY <1>1, <1>2, <1>3, <1>4, <1>5, <1>6 DEF Next

LEMMA EnginesStep ==
    ASSUME RInv, EnginesInv, [Next]_vars
    PROVE  EnginesInv'
  <1>0. /\ wallet \in F!Wallets /\ now \in Nat
        /\ FP!IInv /\ FP!Kept /\ LP!IInv
        /\ F!Ids \subseteq 1..MaxFlows /\ L!Ids \subseteq 1..MaxLockups
    BY WalletsAre, RouterAssumption
       DEF EnginesInv, FP!IInv, FP!TypeOK, RInv, Counted, F!Ids, L!Ids
  <1>1. ASSUME [FP!Next]_(FP!vars)
        PROVE  FP!IInv' /\ FP!Kept' /\ wallet' \in F!Wallets
    <2>1. FP!IInv' /\ FP!Kept'
      BY <1>0, <1>1, EnginesAssumed, FP!StepKeeps, FP!StepIsKept
    <2> QED
      BY <2>1, WalletsAre DEF FP!IInv, FP!TypeOK
  <1>2. ASSUME [LP!Next]_(LP!vars)
        PROVE  LP!IInv' /\ wallet' \in F!Wallets
    <2>1. LP!IInv'
      BY <1>0, <1>2, EnginesAssumed, LP!StepKeeps
    <2> QED
      BY <2>1, WalletsAre DEF LP!IInv, LP!TypeOK
  <1>3. CASE Tick
    <2>1. FP!Tick /\ LP!Tick
      BY <1>3 DEF Tick, F!Tick, FP!Tick, LP!Tick, lockupStorage
    <2> QED
      BY <1>1, <1>2, <2>1 DEF FP!Next, LP!Next, EnginesInv
  <1>4. CASE UNCHANGED <<now, wallet, flowStorage, lockupStorage>>
    <2>1. UNCHANGED FP!vars /\ UNCHANGED LP!vars
      BY <1>4 DEF FP!vars, LP!vars, flowStorage, lockupStorage
    <2> QED
      BY <1>1, <1>2, <2>1 DEF EnginesInv
  <1>5. ASSUME FP!Next, UNCHANGED <<now, lockupStorage>>, Spares(LockupContract)
        PROVE  EnginesInv'
    <2>1. FP!IInv' /\ FP!Kept' /\ wallet' \in F!Wallets
      BY <1>1, <1>5
    <2> QED
      BY <1>5, <2>1, LockupAside DEF EnginesInv
  <1>6. ASSUME LP!Next, UNCHANGED <<now, flowStorage>>, Spares(FlowContract)
        PROVE  EnginesInv'
    <2>1. LP!IInv' /\ wallet' \in F!Wallets
      BY <1>2, <1>6
    <2> QED
      BY <1>6, <2>1, FlowAside DEF EnginesInv
  <1>7. ASSUME NEW id \in 1..MaxFlows, NEW caller \in Drawers,
               FlowPays(id, caller), UNCHANGED lockupStorage
        PROVE  EnginesInv'
    BY <1>0, <1>5, <1>7, FlowCallIsStep, FlowSparesLockup DEF FP!Next
  <1>8. ASSUME NEW id \in 1..MaxLockups, NEW caller \in Drawers,
               LockupPays(id, caller), UNCHANGED flowStorage
        PROVE  EnginesInv'
    BY <1>0, <1>6, <1>8, LockupCallIsStep, LockupSparesFlow DEF LP!Next
  <1>9. CASE FlowServes /\ UNCHANGED lockupStorage
    BY <1>0, <1>5, <1>9, FlowCallIsStep, FlowSparesLockup DEF FP!Next
  <1>10. CASE LockupServes /\ UNCHANGED flowStorage
    BY <1>0, <1>6, <1>10, LockupCallIsStep, LockupSparesFlow DEF LP!Next
  <1>11. \A token_id \in Minted :
          /\ IsFlow(token_id) => streamData[token_id].id \in 1..MaxFlows
          /\ ~IsFlow(token_id) => streamData[token_id].id \in 1..MaxLockups
    BY <1>0 DEF RInv, TokensNameStreams
  <1>12. Users \subseteq Drawers /\ RouterContract \in Drawers
    BY DEF Drawers
  <1> QED
    BY <1>3, <1>4, <1>7, <1>8, <1>9, <1>10, <1>11, <1>12, EngineSteps

(* At the start there are no streams, and the contracts hold nothing. *)
LEMMA InitEngines == Init => EnginesInv
  <1> SUFFICES ASSUME Init PROVE EnginesInv
    OBVIOUS
  <1>1. /\ FP!Ids = {} /\ LP!Ids = {}
        /\ nextFlowId - 1 = 0 /\ nextLockupId - 1 = 0
    BY DEF Init, FP!Ids, LP!Ids
  <1>2. \A token \in Tokens, a \in Accounts : wallet[token][a] \in Nat
    BY EngineAssumption DEF Init, F!FlowAssumption
  <1>3. wallet \in F!Wallets /\ now \in Nat
    BY EngineAssumption DEF Init, F!Wallets, F!FlowAssumption
  <1>4. FP!TypeOK
    BY <1>1, <1>3, EnginesAssumed, WalletsAre DEF Init, FP!TypeOK, FP!FlowAssumption
  <1>5. LP!TypeOK
    BY <1>1, <1>3, EnginesAssumed, WalletsAre DEF Init, LP!TypeOK, LP!LockupAssumption
  <1>6. FP!AggregateIsSum
    BY <1>1, EnginesAssumed, FP!TotalType DEF Init, FP!AggregateIsSum
  <1>7. LP!AggregateIsSum
    BY <1>1, EnginesAssumed, LP!TotalType DEF Init, LP!AggregateIsSum
  <1>8. FP!ContractSolvent /\ LP!ContractSolvent
    BY <1>2, Parties DEF Init, FP!ContractSolvent, LP!ContractSolvent
  <1>9. FP!Kept /\ \A id \in LP!Ids : LP!Sound(lockups[id], now)
    BY <1>1 DEF FP!Kept
  <1> QED
    BY <1>4, <1>5, <1>6, <1>7, <1>8, <1>9 DEF EnginesInv, FP!IInv, LP!IInv

-----------------------------------------------------------------------------
(* Who administers what: nothing is minted before the Router is the NFT     *)
(* contract's admin.                                                        *)
Registered ==
    /\ routerAdmin \in Users \cup {NoAccount}
    /\ signer \in Users \cup {NoAccount}
    /\ nftAdmin \in {NoAccount, RouterContract}
    /\ Minted # {} => nftAdmin = RouterContract

LEMMA RegisteredStep ==
    ASSUME Registered, [Next]_vars
    PROVE  Registered'
  <1>1. CASE UNCHANGED vars
    BY <1>1 DEF vars, nftVars, nfts, routerStorage, Registered, Minted
  <1>2. CASE Tick
    BY <1>2 DEF Tick, nftVars, nfts, routerStorage, Registered, Minted
  <1>3. ASSUME NEW a \in Users, Deploy(a)
        PROVE  Registered'
    BY <1>3 DEF Deploy, initialize, nft_initialize, upgrade_nft, nft_upgrade, nftVars,
                nfts, routerStorage, Registered, Minted
  <1>4. ASSUME NEW a \in Users, CreateRouted(a)
        PROVE  Registered'
    BY <1>4 DEF CreateRouted, create_flow_stream, create_lockup_stream, mint, Registered
  <1>5. ASSUME NEW a \in Users, Withdraw(a)
        PROVE  Registered'
    BY <1>5 DEF Withdraw, withdraw, withdraw_max, nftVars, nfts, routerStorage, Registered,
                Minted
  <1>6. ASSUME NEW a \in Users, TransferNft(a)
        PROVE  Registered'
    BY <1>6 DEF TransferNft, transfer, routerStorage, Registered, Minted
  <1>7. ASSUME NEW a \in Users, CallFlow(a) \/ CallLockup(a)
        PROVE  Registered'
    BY <1>7 DEF CallFlow, CallLockup, nftVars, nfts, routerStorage, Registered, Minted
  <1> QED
    BY <1>1, <1>2, <1>3, <1>4, <1>5, <1>6, <1>7 DEF Next

LEMMA RouterInvariant == Spec => [](RInv /\ EnginesInv /\ Registered)
  <1>1. Init => Registered
    BY DEF Init, NftInit, Registered, Minted
  <1> QED
    BY <1>1, InitRInv, InitEngines, RouterStepKeeps, EnginesStep, RegisteredStep, PTL
       DEF Spec

(* What all four contracts store stays well formed together: each engine's  *)
(* records, although the other pays from the same ledgers, the tokens, and  *)
(* who administers them.                                                    *)
THEOREM RouterTypeCorrect == Spec => []TypeOK
  <1>1. RInv /\ EnginesInv /\ Registered => TypeOK
    <2> SUFFICES ASSUME RInv, EnginesInv, Registered PROVE TypeOK
      OBVIOUS
    <2>1. F!TypeOK /\ L!TypeOK
      BY FlowTypeIs, LockupTypeIs DEF EnginesInv, FP!IInv, LP!IInv
    <2>2. NftTypeOK
      BY DEF RInv, NftInv
    <2>3. nextTokenId \in Nat
      BY RouterAssumption DEF RInv, Counted
    <2>4. Minted # {} => routerAdmin # NoAccount
      BY DEF RInv, Counted, TokensNameStreams
    <2> QED
      BY <2>1, <2>2, <2>3, <2>4 DEF Registered, TypeOK
  <1> QED
    BY <1>1, RouterInvariant, PTL

(* Both engines stay solvent behind the Router, each by its own books.      *)
THEOREM RouterEnginesSolvent ==
    Spec => [](F!AggregateIsSum /\ F!ContractSolvent /\ L!AggregateIsSum /\ L!ContractSolvent)
  <1>1. EnginesInv => /\ F!AggregateIsSum /\ F!ContractSolvent
                      /\ L!AggregateIsSum /\ L!ContractSolvent
    BY DEF EnginesInv, FP!IInv, LP!IInv, F!AggregateIsSum, FP!AggregateIsSum,
           F!ContractSolvent, FP!ContractSolvent, L!AggregateIsSum, LP!AggregateIsSum,
           L!ContractSolvent, LP!ContractSolvent, F!Held, FP!Held, L!Held, LP!Held,
           F!Ids, FP!Ids, L!Ids, LP!Ids, F!Total, FP!Total, L!Total, LP!Total,
           L!Remaining, LP!Remaining
  <1> QED
    BY <1>1, RouterInvariant, PTL

-----------------------------------------------------------------------------
(* What a token is worth *)

(* A token keeps its stream, and changes hands only when its owner signs.   *)
LEMMA TokenStep ==
    ASSUME NftInv, [Next]_vars, NEW id \in Minted
    PROVE  /\ id \in Minted' /\ streamData'[id] = streamData[id]
           /\ owner'[id] # owner[id] => signer' = owner[id]
  <1>1. CASE UNCHANGED vars
    BY <1>1 DEF vars, nftVars, nfts, Minted
  <1>2. CASE Tick
    BY <1>2 DEF Tick, nftVars, nfts, Minted
  <1>3. ASSUME NEW a \in Users, Deploy(a)
        PROVE  UNCHANGED nfts
    BY <1>3 DEF Deploy, initialize, nft_initialize, upgrade_nft, nft_upgrade, nftVars
  <1>4. ASSUME NEW a \in Users, CreateRouted(a)
        PROVE  id \in Minted' /\ streamData'[id] = streamData[id] /\ owner'[id] = owner[id]
    BY <1>4 DEF CreateRouted, create_flow_stream, create_lockup_stream, mint, Minted
  <1>5. ASSUME NEW a \in Users, Withdraw(a) \/ CallFlow(a) \/ CallLockup(a)
        PROVE  UNCHANGED nfts
    BY <1>5 DEF Withdraw, withdraw, withdraw_max, CallFlow, CallLockup, nftVars
  <1>6. ASSUME NEW a \in Users, TransferNft(a)
        PROVE  /\ id \in Minted' /\ streamData' = streamData
               /\ owner'[id] # owner[id] => signer' = owner[id]
    BY <1>6 DEF TransferNft, transfer, owner_of, NftInv, NftTypeOK, Minted
  <1> QED
    BY <1>1, <1>2, <1>3, <1>4, <1>5, <1>6 DEF Next, nfts, Minted

(* A payment from another stream leaves this one as it was. *)
LEMMA OtherFlowPaid ==
    ASSUME Counted, NEW sid \in F!Ids, NEW id, NEW caller, FlowPays(id, caller), id # sid
    PROVE  flows'[sid] = flows[sid] /\ now' = now
  BY DEF FlowPays, F!withdraw_max, F!withdraw, Counted

LEMMA OtherLockupPaid ==
    ASSUME Counted, NEW sid \in L!Ids, NEW id, NEW caller, LockupPays(id, caller), id # sid
    PROVE  lockups'[sid] = lockups[sid] /\ now' = now
  BY DEF LockupPays, L!withdraw_max, L!withdraw, Counted

(* Only the recipient has a stream pay. *)
LEMMA RecipientAsks ==
    ASSUME NEW id, NEW caller
    PROVE  /\ FlowPays(id, caller) => caller = flows[id].recipient
           /\ LockupPays(id, caller) => caller = lockups[id].recipient
  BY DEF FlowPays, F!withdraw_max, F!withdraw, LockupPays, L!withdraw_max, L!withdraw

(* What a flow's token is worth falls only for its owner: the stream's      *)
(* recipient is the Router, so that no user has it pay directly, and the    *)
(* Router has it pay only for the token that names it.                      *)
LEMMA FlowDue ==
    ASSUME RInv, EnginesInv, [Next]_vars, NEW id \in Minted, IsFlow(id),
           signer' # owner[id]
    PROVE  LET sid == streamData[id].id
           IN  FP!covered_debt_of(flows[sid], now) <= FP!covered_debt_of(flows'[sid], now')
  <1> DEFINE sid == streamData[id].id
  <1>1. sid \in F!Ids /\ flows[sid].recipient = RouterContract /\ sid \in FP!Ids
    BY DEF RInv, TokensNameStreams, F!Ids, FP!Ids
  <1>2. FP!IInv /\ Counted
    BY DEF EnginesInv, RInv
  <1>3. ASSUME UNCHANGED <<flows, now>> \/ (flows'[sid] = flows[sid] /\ now' = now)
        PROVE  FP!covered_debt_of(flows[sid], now) <= FP!covered_debt_of(flows'[sid], now')
    <2>1. flows[sid] \in FP!FlowStream /\ now \in Nat
      BY <1>1, <1>2 DEF FP!IInv, FP!TypeOK
    <2>2. FP!covered_debt_of(flows[sid], now) \in 0..flows[sid].balance
      BY <2>1, EnginesAssumed, FP!DebtTypes
    <2>3. FP!covered_debt_of(flows'[sid], now') = FP!covered_debt_of(flows[sid], now)
      BY <1>3
    <2> QED
      BY <2>2, <2>3
  <1>4. ASSUME FP!Tick \/ FP!Create \/ FP!Deposit \/ FP!AdjustRate \/ FP!Refund \/ FP!Void
        PROVE  FP!covered_debt_of(flows[sid], now) <= FP!covered_debt_of(flows'[sid], now')
    BY <1>1, <1>2, <1>4, EnginesAssumed, FP!OnlyWithdrawPays
  <1> HIDE DEF sid
  <1>5. CASE Tick
    <2>1. FP!Tick
      BY <1>5 DEF Tick, F!Tick, FP!Tick
    <2> QED
      BY <1>4, <2>1 DEF sid
  <1>6. CASE FlowServes
    BY <1>4, <1>6, FlowCallIsStep DEF sid
  <1>7. CASE UNCHANGED <<now, flowStorage>>
    BY <1>3, <1>7 DEF flowStorage, sid
  <1>8. CASE \E other \in 1..MaxFlows, a \in Users : FlowPays(other, a)
    <2>1. PICK other \in 1..MaxFlows, a \in Users : FlowPays(other, a)
      BY <1>8
    <2>2. other # sid
      BY <1>1, <2>1, RecipientAsks, Parties
    <2> QED
      BY <1>1, <1>2, <1>3, <2>1, <2>2, OtherFlowPaid DEF sid
  <1>9. CASE \E token_id \in Minted : /\ signer' = owner[token_id]
                                      /\ IsFlow(token_id)
                                      /\ FlowPays(streamData[token_id].id, RouterContract)
    <2>1. PICK token_id \in Minted : /\ signer' = owner[token_id]
                                     /\ IsFlow(token_id)
                                     /\ FlowPays(streamData[token_id].id, RouterContract)
      BY <1>9
    <2>2. streamData[token_id] # streamData[id]
      BY <2>1 DEF RInv, TokensNameStreams
    <2>3. streamData[token_id] \in StreamData /\ streamData[id] \in StreamData
      BY DEF RInv, NftInv, NftTypeOK
    <2>4. streamData[token_id].id # sid
      BY <2>1, <2>2, <2>3 DEF StreamData, IsFlow, sid
    <2> QED
      BY <1>1, <1>2, <1>3, <2>1, <2>4, OtherFlowPaid DEF sid
  <1>10. CASE /\ LockupServes \/ \E other, caller : LockupPays(other, caller)
              /\ UNCHANGED flowStorage
    <2>1. now' = now
      BY <1>10, LockupSparesFlow DEF EnginesInv
    <2> QED
      BY <1>7, <1>10, <2>1
  <1> QED
    BY <1>5, <1>6, <1>7, <1>8, <1>9, <1>10, EngineSteps DEF sid

(* The same for a lockup's token. *)
LEMMA LockupDue ==
    ASSUME RInv, EnginesInv, [Next]_vars, NEW id \in Minted, ~IsFlow(id),
           signer' # owner[id]
    PROVE  LET sid == streamData[id].id
           IN  LP!withdrawable_amount_of(lockups[sid], now)
                  <= LP!withdrawable_amount_of(lockups'[sid], now')
  <1> DEFINE sid == streamData[id].id
  <1>1. sid \in L!Ids /\ lockups[sid].recipient = RouterContract /\ sid \in LP!Ids
    BY DEF RInv, TokensNameStreams, L!Ids, LP!Ids
  <1>2. LP!IInv /\ Counted
    BY DEF EnginesInv, RInv
  <1>3. ASSUME UNCHANGED <<lockups, now>> \/ (lockups'[sid] = lockups[sid] /\ now' = now)
        PROVE  LP!withdrawable_amount_of(lockups[sid], now)
                  <= LP!withdrawable_amount_of(lockups'[sid], now')
    <2>1. /\ lockups[sid] \in LP!LockupStream /\ now \in Nat
          /\ LP!Sound(lockups[sid], now)
      BY <1>1, <1>2 DEF LP!IInv, LP!TypeOK
    <2>2. /\ LP!streamed_amount_of(lockups[sid], now) \in Nat
          /\ lockups[sid].withdrawn_amount \in Nat
      BY <2>1, EnginesAssumed, LP!StreamedType, LP!RecordTypes DEF LP!Sound
    <2>3. LP!withdrawable_amount_of(lockups[sid], now) \in Int
      BY <2>2 DEF LP!withdrawable_amount_of
    <2>4. LP!withdrawable_amount_of(lockups'[sid], now')
             = LP!withdrawable_amount_of(lockups[sid], now)
      BY <1>3
    <2> QED
      BY <2>3, <2>4
  <1>4. ASSUME LP!Tick \/ LP!Create \/ LP!Cancel \/ LP!Renounce
        PROVE  LP!withdrawable_amount_of(lockups[sid], now)
                  <= LP!withdrawable_amount_of(lockups'[sid], now')
    BY <1>1, <1>2, <1>4, EnginesAssumed, LP!OnlyWithdrawPays
  <1> HIDE DEF sid
  <1>5. CASE Tick
    <2>1. LP!Tick
      BY <1>5 DEF Tick, F!Tick, LP!Tick, lockupStorage
    <2> QED
      BY <1>4, <2>1 DEF sid
  <1>6. CASE LockupServes
    BY <1>4, <1>6, LockupCallIsStep DEF sid
  <1>7. CASE UNCHANGED <<now, lockupStorage>>
    BY <1>3, <1>7 DEF lockupStorage, sid
  <1>8. CASE \E other \in 1..MaxLockups, a \in Users : LockupPays(other, a)
    <2>1. PICK other \in 1..MaxLockups, a \in Users : LockupPays(other, a)
      BY <1>8
    <2>2. other # sid
      BY <1>1, <2>1, RecipientAsks, Parties
    <2> QED
      BY <1>1, <1>2, <1>3, <2>1, <2>2, OtherLockupPaid DEF sid
  <1>9. CASE \E token_id \in Minted : /\ signer' = owner[token_id]
                                      /\ ~IsFlow(token_id)
                                      /\ LockupPays(streamData[token_id].id,
                                                    RouterContract)
    <2>1. PICK token_id \in Minted : /\ signer' = owner[token_id]
                                     /\ ~IsFlow(token_id)
                                     /\ LockupPays(streamData[token_id].id, RouterContract)
      BY <1>9
    <2>2. streamData[token_id] # streamData[id]
      BY <2>1 DEF RInv, TokensNameStreams
    <2>3. streamData[token_id] \in StreamData /\ streamData[id] \in StreamData
      BY DEF RInv, NftInv, NftTypeOK
    <2>4. streamData[token_id].id # sid
      BY <2>1, <2>2, <2>3 DEF StreamData, StreamType, IsFlow, sid
    <2> QED
      BY <1>1, <1>2, <1>3, <2>1, <2>4, OtherLockupPaid DEF sid
  <1>10. CASE /\ FlowServes \/ \E other, caller : FlowPays(other, caller)
              /\ UNCHANGED lockupStorage
    <2>1. now' = now
      BY <1>10, FlowSparesLockup DEF EnginesInv
    <2> QED
      BY <1>7, <1>10, <2>1
  <1> QED
    BY <1>5, <1>6, <1>7, <1>8, <1>9, <1>10, EngineSteps DEF sid

(* What a token is worth is an amount. *)
Amounted == \A id \in Minted : Due(id) \in Int

LEMMA DueIsAmount == RInv /\ EnginesInv => Amounted
  <1> SUFFICES ASSUME RInv, EnginesInv, NEW id \in Minted
               PROVE  Due(id) \in Int
    BY DEF Amounted
  <1> DEFINE sid == streamData[id].id
  <1>1. CASE IsFlow(id)
    <2>1. sid \in FP!Ids
      BY <1>1 DEF RInv, TokensNameStreams, F!Ids, FP!Ids
    <2>2. flows[sid] \in FP!FlowStream /\ now \in Nat
      BY <2>1 DEF EnginesInv, FP!IInv, FP!TypeOK
    <2>3. FP!covered_debt_of(flows[sid], now) \in 0..flows[sid].balance
      BY <2>2, EnginesAssumed, FP!DebtTypes
    <2>4. Due(id) = FP!covered_debt_of(flows[sid], now)
      BY <1>1, SameDebt DEF Due
    <2> QED
      BY <2>3, <2>4
  <1>2. CASE ~IsFlow(id)
    <2>1. sid \in LP!Ids
      BY <1>2 DEF RInv, TokensNameStreams, L!Ids, LP!Ids
    <2>2. /\ lockups[sid] \in LP!LockupStream /\ now \in Nat
          /\ LP!Sound(lockups[sid], now)
      BY <2>1 DEF EnginesInv, LP!IInv, LP!TypeOK
    <2>3. /\ LP!streamed_amount_of(lockups[sid], now) \in Nat
          /\ lockups[sid].withdrawn_amount \in Nat
      BY <2>2, EnginesAssumed, LP!StreamedType, LP!RecordTypes DEF LP!Sound
    <2>4. LP!withdrawable_amount_of(lockups[sid], now) \in Int
      BY <2>3 DEF LP!withdrawable_amount_of
    <2>5. Due(id) = LP!withdrawable_amount_of(lockups[sid], now)
      BY <1>2, SameDebt DEF Due
    <2> QED
      BY <2>4, <2>5
  <1> QED
    BY <1>1, <1>2

(* "Transfer of NFT = transfer of stream recipient rights" (SKILL.md:330):  *)
(* no call to any of the four contracts, by whomever and short of an        *)
(* upgrade of their code, moves a token or lowers what its stream would     *)
(* pay, unless the owner signed it.                                         *)
THEOREM RouterBearerOnly == Spec => BearerOnly
  <1>1. RInv /\ EnginesInv /\ Amounted /\ Amounted' /\ [Next]_vars =>
          [\A id \in Minted :
             (owner'[id] # owner[id] \/ Due(id)' < Due(id)) => signer' = owner[id]]_vars
    <2> SUFFICES ASSUME RInv, EnginesInv, Amounted, Amounted', [Next]_vars,
                        NEW id \in Minted, signer' # owner[id]
                 PROVE  ~(owner'[id] # owner[id] \/ Due(id)' < Due(id))
      OBVIOUS
    <2> DEFINE sid == streamData[id].id
    <2>1. id \in Minted' /\ streamData'[id] = streamData[id] /\ owner'[id] = owner[id]
      BY TokenStep DEF RInv
    <2>2. Due(id) \in Int /\ Due(id)' \in Int
      BY <2>1 DEF Amounted
    <2>3. CASE IsFlow(id)
      <3> DEFINE before == FP!covered_debt_of(flows[sid], now)
                 after == FP!covered_debt_of(flows'[sid], now')
      <3>1. Due(id) = before /\ Due(id)' = after
        BY <2>1, <2>3, SameDebt DEF Due, IsFlow
      <3>2. before <= after
        BY <2>3, FlowDue
      <3> HIDE DEF before, after
      <3> QED
        BY <2>1, <2>2, <3>1, <3>2
    <2>4. CASE ~IsFlow(id)
      <3> DEFINE before == LP!withdrawable_amount_of(lockups[sid], now)
                 after == LP!withdrawable_amount_of(lockups'[sid], now')
      <3>1. Due(id) = before /\ Due(id)' = after
        BY <2>1, <2>4, SameDebt DEF Due, IsFlow
      <3>2. before <= after
        BY <2>4, LockupDue
      <3> HIDE DEF before, after
      <3> QED
        BY <2>1, <2>2, <3>1, <3>2
    <2> QED
      BY <2>3, <2>4
  <1> QED
    BY <1>1, DueIsAmount, RouterInvariant, PTL DEF Spec, BearerOnly
=============================================================================
