------------------------------ MODULE MCRouter ------------------------------
(* A small instance of Router for TLC. *)
EXTENDS Router, TLC

CONSTANTS alice, bob, usd

MCAccounts == {alice, bob, RouterContract, FlowContract, LockupContract}
MCPayees == Users \cup {RouterContract}
MCDecimals == (usd :> 18)
MCFees == (usd :> 0)
MCScale == (18 :> 1)

(* One schedule: from the sender to either user and to the Router's address. *)
MCRequests ==
    {[sender |-> sender, recipient |-> recipient, token |-> usd,
      total_amount |-> 2, start_time |-> 1, end_time |-> 3, cliff_time |-> 0,
      start_unlock_amount |-> 0, cliff_unlock_amount |-> 0, granularity |-> 1,
      cancelable |-> TRUE] : sender \in {alice}, recipient \in Payees}
=============================================================================
