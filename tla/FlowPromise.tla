---------------------------- MODULE FlowPromise ----------------------------
(***************************************************************************)
(* What a Flow stream promises its two parties, without snapshots: every   *)
(* second that passes adds the rate to what the sender owes, and the money *)
(* put in is at the recipient's disposal up to what is owed and at the     *)
(* sender's beyond that.                                                   *)
(***************************************************************************)
EXTENDS Integers

VARIABLE agreements   \* id -> agreement

Agreement ==
    [unit : Nat \ {0},   \* how much debt one smallest unit of money settles
     rate : Nat,         \* what is owed more after each second
     wait : Nat,         \* seconds until the agreement starts
     debt : Nat,         \* what is owed
     funds : Nat,        \* the money put in and not yet taken out
     open : BOOLEAN]     \* not voided

Parties == DOMAIN agreements

Terms(unit, rate, wait, debt, funds, open) ==
    [unit |-> unit, rate |-> rate, wait |-> wait, debt |-> debt,
     funds |-> funds, open |-> open]

(* The whole units of money that settle the debt without overpaying it. *)
Owed(a) == a.debt \div a.unit

Init == agreements = [id \in {} |-> 0]

Second(a) ==
    IF a.wait > 0
    THEN Terms(a.unit, a.rate, a.wait - 1, a.debt, a.funds, a.open)
    ELSE Terms(a.unit, a.rate, 0, a.debt + a.rate, a.funds, a.open)

(* A second passes for every agreement at once. *)
Tick == agreements' = [id \in Parties |-> Second(agreements[id])]

(* A new agreement; one that started earlier already owes for those seconds. *)
Fresh(a) ==
    /\ a \in Agreement
    /\ a.open
    /\ a.wait > 0 => (a.debt = 0 /\ a.rate > 0)
    /\ IF a.rate = 0 THEN a.debt = 0 ELSE a.debt % a.rate = 0

Open ==
    \E id \in DOMAIN agreements' \ Parties :
        /\ DOMAIN agreements' = Parties \cup {id}
        /\ Fresh(agreements'[id])
        /\ \A old \in Parties : agreements'[old] = agreements[old]

(* Only agreement id changes, and it becomes a. *)
Becomes(id, a) == agreements' = [agreements EXCEPT ![id] = a]

Fund(id) ==
    LET a == agreements[id]
        funds == agreements'[id].funds
    IN  /\ a.open
        /\ funds > a.funds
        /\ Becomes(id, Terms(a.unit, a.rate, a.wait, a.debt, funds, TRUE))

(* Paid out to the recipient: at most what is owed and what is there. *)
Pay(id) ==
    LET a == agreements[id] IN
    \E amount \in 1..a.funds :
        /\ amount <= Owed(a)
        /\ Becomes(id, Terms(a.unit, a.rate, a.wait, a.debt - amount * a.unit,
                             a.funds - amount, a.open))

(* Returned to the sender: never what is owed. *)
Return(id) ==
    LET a == agreements[id] IN
    \E funds \in 0..(a.funds - 1) :
        /\ funds >= Owed(a)
        /\ Becomes(id, Terms(a.unit, a.rate, a.wait, a.debt, funds, a.open))

(* A new rate leaves what is owed untouched and is 0 only once started. *)
Rerate(id) ==
    LET a == agreements[id]
        rate == agreements'[id].rate
    IN  /\ a.open
        /\ rate # a.rate
        /\ a.wait > 0 => rate > 0
        /\ Becomes(id, Terms(a.unit, rate, a.wait, a.debt, a.funds, TRUE))

(* Ended for good: what the money does not cover is written off. *)
Void(id) ==
    LET a == agreements[id]
        debt == IF Owed(a) > a.funds THEN a.funds * a.unit ELSE a.debt
    IN  /\ a.open
        /\ Becomes(id, Terms(a.unit, 0, 0, debt, a.funds, FALSE))

Next ==
    \/ Tick
    \/ Open
    \/ \E id \in Parties : Fund(id) \/ Pay(id) \/ Return(id) \/ Rerate(id) \/ Void(id)

Spec == Init /\ [][Next]_agreements
=============================================================================
