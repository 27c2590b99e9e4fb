----------------------------- MODULE Governance -----------------------------
(***************************************************************************)
(* Who may change a contract: its admin and the upgrade timelock.  The     *)
(* same handlers, on instance storage of their own, stand in Flow, Lockup, *)
(* the Distributor and (without set_admin) the Router; this module follows *)
(* Flow (contracts/flow/src/lib.rs).                                       *)
(*                                                                         *)
(* What an upgrade installs is any code; the model goes on with code that  *)
(* keeps these handlers.  proposedAt, executedAt and nominee are history   *)
(* variables: no guard reads them.                                         *)
(***************************************************************************)
EXTENDS Integers

CONSTANTS
    Accounts,
    NoAccount,     \* an absent Admin or PendingAdmin entry
    Hashes,        \* the wasm hashes an admin may name
    Uploaded,      \* those whose code is on the ledger: the host runs no other
    Timelock,      \* UPGRADE_TIMELOCK_LEDGERS
    NoLedger,      \* an absent UpgradeUnlockLedger entry
    MaxU32,        \* the largest u32
    LastLedger     \* the last ledger sequence (bound on time)

ASSUME GovernanceAssumption ==
    /\ NoAccount \notin Accounts
    /\ Uploaded \subseteq Hashes
    /\ Timelock \in Nat
    /\ NoLedger \notin Int
    /\ MaxU32 \in Nat
    /\ LastLedger \in 0..MaxU32

VARIABLES
    sequence,      \* env.ledger().sequence()
    admin,         \* DataKey::Admin
    pendingAdmin,  \* DataKey::PendingAdmin
    proposed,      \* the hashes with a DataKey::ProposedUpgrade(hash) entry
    unlockLedger,  \* DataKey::UpgradeUnlockLedger: one for all of them
    wasm,          \* the hash of the code the contract runs
    proposedAt,    \* history: when each hash was last proposed, until it is executed
    executedAt,    \* history: the ledger of the last execute_upgrade
    nominee        \* history: whom the last propose_admin named, until acceptance

storage == <<admin, pendingAdmin, proposed, unlockLedger, wasm>>
history == <<proposedAt, executedAt, nominee>>
vars == <<sequence, storage, history>>

-----------------------------------------------------------------------------
Init ==
    /\ sequence = 0
    /\ admin = NoAccount
    /\ pendingAdmin = NoAccount
    /\ proposed = {}
    /\ unlockLedger = NoLedger
    /\ wasm \in Uploaded
    /\ proposedAt = [hash \in Hashes |-> NoLedger]
    /\ executedAt = NoLedger
    /\ nominee = NoAccount

(* The next ledger closes. *)
Close ==
    /\ sequence < LastLedger
    /\ sequence' = sequence + 1
    /\ UNCHANGED <<storage, history>>

(* Once; the intended admin authorizes it. *)
initialize(caller) ==
    /\ admin = NoAccount
    /\ admin' = caller
    /\ UNCHANGED <<sequence, pendingAdmin, proposed, unlockLedger, wasm, history>>

(* Mutant: a later proposal runs on the clock of an earlier one. *)
propose_upgrade_once(caller, hash) ==
    /\ caller = admin
    /\ sequence + Timelock <= MaxU32
    /\ unlockLedger' = IF unlockLedger = NoLedger THEN sequence + Timelock
                                                  ELSE unlockLedger
    /\ proposed' = proposed \cup {hash}
    /\ proposedAt' = [proposedAt EXCEPT ![hash] = sequence]
    /\ UNCHANGED <<sequence, admin, pendingAdmin, wasm, executedAt, nominee>>

(* Every proposal restarts the one clock all proposals share. *)
propose_upgrade(caller, hash) ==
    /\ caller = admin
    /\ sequence + Timelock <= MaxU32
    /\ unlockLedger' = sequence + Timelock
    /\ proposed' = proposed \cup {hash}
    /\ proposedAt' = [proposedAt EXCEPT ![hash] = sequence]
    /\ UNCHANGED <<sequence, admin, pendingAdmin, wasm, executedAt, nominee>>

(* The conditions of execute_upgrade on what is stored. *)
Unlocked(hash) ==
    /\ hash \in proposed
    /\ unlockLedger # NoLedger
    /\ sequence >= unlockLedger

(* Mutant: the clock is left standing. *)
execute_upgrade_again(caller, hash) ==
    /\ caller = admin
    /\ Unlocked(hash)
    /\ hash \in Uploaded
    /\ proposed' = proposed \ {hash}
    /\ wasm' = hash
    /\ proposedAt' = [proposedAt EXCEPT ![hash] = NoLedger]
    /\ executedAt' = sequence
    /\ UNCHANGED <<sequence, admin, pendingAdmin, unlockLedger, nominee>>

(* It spends the proposal and stops the clock. *)
execute_upgrade(caller, hash) ==
    /\ caller = admin
    /\ Unlocked(hash)
    /\ hash \in Uploaded
    /\ proposed' = proposed \ {hash}
    /\ unlockLedger' = NoLedger
    /\ wasm' = hash
    /\ proposedAt' = [proposedAt EXCEPT ![hash] = NoLedger]
    /\ executedAt' = sequence
    /\ UNCHANGED <<sequence, admin, pendingAdmin, nominee>>

(* The emergency upgrade waits for nothing and leaves the proposals alone. *)
upgrade(caller, hash) ==
    /\ caller = admin
    /\ hash \in Uploaded
    /\ wasm' = hash
    /\ UNCHANGED <<sequence, admin, pendingAdmin, proposed, unlockLedger, history>>

(* Mutant: anybody may propose. *)
propose_admin_anyone(caller, new_admin) ==
    /\ pendingAdmin' = new_admin
    /\ nominee' = new_admin
    /\ UNCHANGED <<sequence, admin, proposed, unlockLedger, wasm, proposedAt, executedAt>>

(* A later proposal replaces an earlier one. *)
propose_admin(caller, new_admin) ==
    /\ caller = admin
    /\ pendingAdmin' = new_admin
    /\ nominee' = new_admin
    /\ UNCHANGED <<sequence, admin, proposed, unlockLedger, wasm, proposedAt, executedAt>>

(* Mutant: the proposal is not removed. *)
accept_admin_again(caller) ==
    /\ pendingAdmin # NoAccount
    /\ caller = pendingAdmin
    /\ admin' = caller
    /\ nominee' = NoAccount
    /\ UNCHANGED <<sequence, pendingAdmin, proposed, unlockLedger, wasm, proposedAt, executedAt>>

accept_admin(caller) ==
    /\ pendingAdmin # NoAccount
    /\ caller = pendingAdmin
    /\ admin' = caller
    /\ pendingAdmin' = NoAccount
    /\ nominee' = NoAccount
    /\ UNCHANGED <<sequence, proposed, unlockLedger, wasm, proposedAt, executedAt>>

(* The direct transfer asks nothing of the new admin, and it leaves a       *)
(* proposal of propose_admin open.                                          *)
set_admin(caller, new_admin) ==
    /\ caller = admin
    /\ admin' = new_admin
    /\ UNCHANGED <<sequence, pendingAdmin, proposed, unlockLedger, wasm, history>>

-----------------------------------------------------------------------------
Administer(caller) ==
    \/ initialize(caller)
    \/ accept_admin(caller)
    \/ \E new_admin \in Accounts : \/ propose_admin(caller, new_admin)
                                   \/ set_admin(caller, new_admin)

Upgrade(caller) ==
    \E hash \in Hashes : \/ propose_upgrade(caller, hash)
                         \/ execute_upgrade(caller, hash)
                         \/ upgrade(caller, hash)

Next == Close \/ \E caller \in Accounts : Administer(caller) \/ Upgrade(caller)

Spec == Init /\ [][Next]_vars

-----------------------------------------------------------------------------
(* Properties *)

Ledgers == Nat \cup {NoLedger}

(* The stored entries have their types, and nothing is proposed or pending  *)
(* before the contract has an admin.                                        *)
TypeOK ==
    /\ sequence \in 0..LastLedger
    /\ admin \in Accounts \cup {NoAccount}
    /\ pendingAdmin \in Accounts \cup {NoAccount}
    /\ proposed \subseteq Hashes
    /\ unlockLedger \in {NoLedger} \cup 0..MaxU32
    /\ wasm \in Uploaded
    /\ proposedAt \in [Hashes -> Ledgers]
    /\ executedAt \in Ledgers
    /\ nominee \in Accounts \cup {NoAccount}
    /\ admin = NoAccount => proposed = {} /\ pendingAdmin = NoAccount

(* The timelock of storage.rs:91-93, although all proposals share a clock:  *)
(* a hash executed through the timelock was proposed, and not executed      *)
(* since, at least Timelock ledgers before - its own proposal, whatever     *)
(* others were made, overtaken or executed in between.                      *)
TimelockHolds ==
    [][\A caller \in Accounts, hash \in Hashes :
          execute_upgrade(caller, hash) =>
              /\ proposedAt[hash] # NoLedger
              /\ sequence - proposedAt[hash] >= Timelock]_vars

(* One announcement opens one upgrade: two executions of the timelock are   *)
(* at least a timelock apart, so that proposing many hashes at once does    *)
(* not store up upgrades for later.                                         *)
ExecutionsAreSpaced ==
    [][(executedAt # NoLedger /\ executedAt' # executedAt) =>
          executedAt' - executedAt >= Timelock]_vars

(* An account that accepts is the one the last propose_admin named, and it  *)
(* accepts once: a former admin does not come back by accepting again.      *)
AcceptedOnce ==
    [][\A caller \in Accounts : accept_admin(caller) => caller = nominee]_vars

(* flow lib.rs:73-74: a proposed upgrade "can be executed after             *)
(* UPGRADE_TIMELOCK_LEDGERS have passed".                                   *)
ProposalUnlocks ==
    \A hash \in proposed :
        sequence >= proposedAt[hash] + Timelock => Unlocked(hash)
=============================================================================
