--------------------------- MODULE LockupPromise ---------------------------
(***************************************************************************)
(* What a Lockup stream promises its two parties: the deposit is divided   *)
(* into a part that is the recipient's and one that is still open, the     *)
(* recipient's part only grows or is paid to him, and the open part goes   *)
(* back to the sender at most once, as a whole, while he may still ask.    *)
(***************************************************************************)
EXTENDS Integers

VARIABLE escrows   \* id -> escrow

Escrow ==
    [left : Nat,          \* the money in the escrow
     vested : Nat,        \* how much of it is the recipient's
     returns : BOOLEAN]   \* whether the sender may take the rest back

Parties == DOMAIN escrows

Terms(left, vested, returns) == [left |-> left, vested |-> vested, returns |-> returns]

Init == escrows = [id \in {} |-> 0]

(* As time passes each recipient's part grows, up to all there is. *)
Vest ==
    /\ DOMAIN escrows' = Parties
    /\ \A id \in Parties :
          LET e == escrows[id]
              vested == escrows'[id].vested
          IN  /\ vested \in e.vested..e.left
              /\ escrows'[id] = Terms(e.left, vested, e.returns)

Open ==
    \E id \in DOMAIN escrows' \ Parties :
        /\ DOMAIN escrows' = Parties \cup {id}
        /\ escrows'[id] \in Escrow
        /\ escrows'[id].left > 0
        /\ escrows'[id].vested <= escrows'[id].left
        /\ \A old \in Parties : escrows'[old] = escrows[old]

(* Only escrow id changes, and it becomes e. *)
Becomes(id, e) == escrows' = [escrows EXCEPT ![id] = e]

(* The recipient is paid; an escrow that is empty has nothing to return. *)
Pay(id) ==
    LET e == escrows[id] IN
    \E amount \in 1..e.vested :
        Becomes(id, Terms(e.left - amount, e.vested - amount,
                          e.returns /\ amount < e.left))

(* The sender takes back all that is not the recipient's. *)
Return(id) ==
    LET e == escrows[id] IN
    e.returns /\ Becomes(id, Terms(e.vested, e.vested, FALSE))

(* The sender gives up the right to. *)
Renounce(id) ==
    LET e == escrows[id] IN
    e.returns /\ Becomes(id, Terms(e.left, e.vested, FALSE))

Next == Vest \/ Open \/ \E id \in Parties : Pay(id) \/ Return(id) \/ Renounce(id)

Spec == Init /\ [][Next]_escrows
=============================================================================
