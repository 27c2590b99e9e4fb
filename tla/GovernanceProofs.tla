-------------------------- MODULE GovernanceProofs --------------------------
(* Proofs that the shared upgrade clock keeps the timelock of every         *)
(* proposal and that an admin proposal is spent by its acceptance.          *)
EXTENDS Governance, TLAPS

(* While the clock runs it stands at least a timelock after the proposal of *)
(* every hash that is still proposed, because each proposal restarts it.    *)
Announced ==
    \A hash \in proposed :
        /\ proposedAt[hash] \in 0..sequence
        /\ unlockLedger # NoLedger => unlockLedger >= proposedAt[hash] + Timelock

(* And at least a timelock after the last execution, which stopped it. *)
Rested ==
    executedAt # NoLedger =>
        /\ executedAt \in 0..sequence
        /\ unlockLedger # NoLedger => unlockLedger >= executedAt + Timelock

IInv ==
    /\ TypeOK
    /\ Announced
    /\ Rested
    /\ pendingAdmin = nominee

LEMMA InitIInv == Init => IInv
  BY GovernanceAssumption
     DEF Init, IInv, TypeOK, Announced, Rested, Ledgers

LEMMA CloseIInv == IInv /\ Close => IInv'
  <1> SUFFICES ASSUME IInv, Close PROVE IInv'
    OBVIOUS
  <1> USE GovernanceAssumption DEF IInv, Close, storage, history
  <1>1. TypeOK'
    BY DEF TypeOK
  <1>2. Announced'
    BY DEF Announced, TypeOK
  <1>3. Rested'
    BY DEF Rested, TypeOK
  <1> QED
    BY <1>1, <1>2, <1>3

(* The handlers of the admin's part change nothing the clock depends on. *)
LEMMA AdministerIInv ==
    ASSUME NEW caller \in Accounts, IInv, Administer(caller)
    PROVE  IInv'
  <1> USE GovernanceAssumption DEF IInv, history
  <1>1. /\ UNCHANGED <<sequence, proposed, unlockLedger, wasm, proposedAt, executedAt>>
        /\ admin' \in Accounts
        /\ pendingAdmin' \in Accounts \cup {NoAccount}
        /\ pendingAdmin' = nominee'
    BY DEF Administer, initialize, accept_admin, propose_admin, set_admin, TypeOK
  <1>2. TypeOK'
    BY <1>1 DEF TypeOK
  <1>3. Announced'
    BY <1>1 DEF Announced
  <1>4. Rested'
    BY <1>1 DEF Rested
  <1> QED
    BY <1>1, <1>2, <1>3, <1>4

LEMMA ProposeIInv ==
    ASSUME NEW caller \in Accounts, NEW hash \in Hashes, IInv,
           propose_upgrade(caller, hash)
    PROVE  IInv'
  <1> USE GovernanceAssumption DEF IInv, propose_upgrade
  <1>1. unlockLedger' \in 0..MaxU32 /\ unlockLedger' = sequence + Timelock
    BY DEF TypeOK
  <1>2. TypeOK'
    BY <1>1 DEF TypeOK, Ledgers
  <1>3. ASSUME NEW h \in proposed'
        PROVE  proposedAt'[h] \in 0..sequence
    <2>1. CASE h = hash
      BY <2>1 DEF TypeOK
    <2>2. CASE h # hash
      BY <2>2, <1>3 DEF TypeOK, Announced
    <2> QED
      BY <2>1, <2>2
  <1>4. Announced'
    BY <1>1, <1>3 DEF Announced, TypeOK
  <1>5. Rested'
    BY <1>1 DEF Rested, TypeOK
  <1> QED
    BY <1>2, <1>4, <1>5

LEMMA ExecuteIInv ==
    ASSUME NEW caller \in Accounts, NEW hash \in Hashes, IInv,
           execute_upgrade(caller, hash)
    PROVE  IInv'
  <1> USE GovernanceAssumption DEF IInv, execute_upgrade
  <1>1. TypeOK'
    BY DEF TypeOK, Ledgers
  <1>2. Announced'
    BY DEF Announced, TypeOK
  <1>3. Rested'
    BY DEF Rested, TypeOK
  <1> QED
    BY <1>1, <1>2, <1>3

LEMMA UpgradeIInv ==
    ASSUME NEW caller \in Accounts, NEW hash \in Hashes, IInv, upgrade(caller, hash)
    PROVE  IInv'
  BY GovernanceAssumption
     DEF IInv, upgrade, history, TypeOK, Announced, Rested

LEMMA NextIInv == IInv /\ [Next]_vars => IInv'
  <1> SUFFICES ASSUME IInv, [Next]_vars PROVE IInv'
    OBVIOUS
  <1>1. CASE Close
    BY <1>1, CloseIInv
  <1>2. ASSUME NEW caller \in Accounts, Administer(caller) PROVE IInv'
    BY <1>2, AdministerIInv
  <1>3. ASSUME NEW caller \in Accounts, Upgrade(caller) PROVE IInv'
    <2> PICK hash \in Hashes : \/ propose_upgrade(caller, hash)
                               \/ execute_upgrade(caller, hash)
                               \/ upgrade(caller, hash)
      BY <1>3 DEF Upgrade
    <2> QED
      BY ProposeIInv, ExecuteIInv, UpgradeIInv
  <1>4. CASE UNCHANGED vars
    BY <1>4 DEF vars, storage, history, IInv, TypeOK, Announced, Rested
  <1> QED
    BY <1>1, <1>2, <1>3, <1>4 DEF Next

(* The inductive invariant holds throughout. *)
THEOREM GovernanceInvariant == Spec => []IInv
  BY InitIInv, NextIInv, PTL DEF Spec

(* The entries keep their types, and nothing is pending without an admin    *)
(* (flow lib.rs:62-196).                                                    *)
THEOREM GovernanceTypeCorrect == Spec => []TypeOK
  <1>1. IInv => TypeOK
    BY DEF IInv
  <1> QED
    BY <1>1, GovernanceInvariant, PTL

(* An upgrade executed through the timelock waited for it since its own     *)
(* proposal, for every number of hashes and length of the timelock          *)
(* (flow lib.rs:101-136).                                                   *)
THEOREM GovernanceTimelock == Spec => TimelockHolds
  <1>1. IInv => [\A caller \in Accounts, hash \in Hashes :
                    execute_upgrade(caller, hash) =>
                        /\ proposedAt[hash] # NoLedger
                        /\ sequence - proposedAt[hash] >= Timelock]_vars
    BY GovernanceAssumption
       DEF IInv, TypeOK, Announced, execute_upgrade, Unlocked
  <1> QED
    BY <1>1, GovernanceInvariant, PTL DEF TimelockHolds

(* Two executions of the timelock are a timelock apart (flow                *)
(* lib.rs:126-132: executing stops the clock).                              *)
THEOREM GovernanceSpacing == Spec => ExecutionsAreSpaced
  <1>1. IInv /\ [Next]_vars =>
            [(executedAt # NoLedger /\ executedAt' # executedAt) =>
                executedAt' - executedAt >= Timelock]_vars
    <2> SUFFICES ASSUME IInv, Next, executedAt # NoLedger, executedAt' # executedAt
                 PROVE  executedAt' - executedAt >= Timelock
      BY DEF vars
    <2>1. PICK caller \in Accounts, hash \in Hashes : execute_upgrade(caller, hash)
      BY DEF Next, Close, Administer, Upgrade, initialize, accept_admin, propose_admin,
             set_admin, propose_upgrade, upgrade, history
    <2> QED
      BY <2>1, GovernanceAssumption DEF IInv, TypeOK, Rested, execute_upgrade, Unlocked
  <1> QED
    BY <1>1, GovernanceInvariant, PTL DEF ExecutionsAreSpaced, Spec

(* Who accepts is who was named last, and once (flow lib.rs:179-192).       *)
THEOREM GovernanceAcceptance == Spec => AcceptedOnce
  <1>1. IInv => [\A caller \in Accounts : accept_admin(caller) => caller = nominee]_vars
    BY DEF IInv, accept_admin
  <1> QED
    BY <1>1, GovernanceInvariant, PTL DEF AcceptedOnce
=============================================================================
