------------------------------ MODULE MCLockup ------------------------------
(* Small instances of Lockup for TLC. *)
EXTENDS Lockup, TLC

CONSTANTS sender, recipient, contract, usd, eur, fees

MCAccounts == {sender, recipient, contract}

OneDecimals == (usd :> 7)
OneFee == (usd :> 0)
ManyDecimals == (usd :> 7) @@ (eur :> 7) @@ (fees :> 7)
ManyFees == (usd :> 0) @@ (eur :> 0) @@ (fees :> 1)

(* Requests from one sender to one recipient. *)
Request(token, total, time, cliff, unlock, granularity, cancelable) ==
    [sender |-> sender, recipient |-> recipient, token |-> token,
     total_amount |-> total, start_time |-> time[1], end_time |-> time[2],
     cliff_time |-> cliff, start_unlock_amount |-> unlock[1],
     cliff_unlock_amount |-> unlock[2], granularity |-> granularity,
     cancelable |-> cancelable]

(* Schedules with and without a cliff, in steps that do and do not divide   *)
(* the duration, with unlocks that leave all, some or nothing to vest, one  *)
(* that is over when it is created, and each kind the validation refuses.   *)
MCRequests ==
    {Request(usd, total, time, cliff, unlock, granularity, cancelable) :
        total \in {5, 7}, time \in {<<2, 7>>, <<1, 2>>, <<3, 3>>}, cliff \in {0, 2, 4},
        unlock \in {<<0, 0>>, <<1, 2>>, <<5, 0>>, <<-1, 1>>, <<4, 4>>},
        granularity \in {0, 2, 3}, cancelable \in BOOLEAN}
    \cup {[Request(usd, 5, <<2, 7>>, 4, <<1, 2>>, 2, TRUE) EXCEPT !.recipient = r] :
             r \in {sender, contract}}

MCAmounts == {-1, 1, 3}

(* Two streams of the same or of two tokens, and one that withholds a fee. *)
TwoRequests ==
    {Request(token, 3, time, 0, <<0, 0>>, 1, TRUE) :
        token \in {usd, eur, fees}, time \in {<<1, 4>>, <<2, 3>>}}
TwoAmounts == {1}
=============================================================================
