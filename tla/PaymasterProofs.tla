-------------------------- MODULE PaymasterProofs --------------------------
(***************************************************************************)
(* Theorems about Paymaster, for every value of its constants: any number  *)
(* of users, calls and tokens, and any fees the relayers ask for.          *)
(***************************************************************************)
EXTENDS Paymaster, LedgerProofs, TLAPS

USE DEF Wallets, Calls, Used

(* The nonces are numbered from 1, so that a new call has a new one. *)
Numbered == \E count \in Nat : Calls = 1..count

(* What was quoted for each call that was charged. *)
Quoted == quotes \in [Used -> [fee : Nat, ledger : Nat]]

IInv == TypeOK /\ Numbered /\ Quoted /\ ChargedAsSigned

-----------------------------------------------------------------------------
(* Nonces *)

LEMMA CountOfCalls ==
    ASSUME IInv
    PROVE  /\ Cardinality(Calls) \in Nat
           /\ Calls = 1..Cardinality(Calls)
           /\ IsFiniteSet(Used)
           /\ \A S \in SUBSET Used : IsFiniteSet(S)
<1>1. PICK count \in Nat : Calls = 1..count
  BY DEF IInv, Numbered
<1>2. /\ IsFiniteSet(1..count)
      /\ Cardinality(1..count) = count
  BY FS_Interval
<1>3. Used \subseteq Calls
  BY DEF IInv, TypeOK
<1>. HIDE DEF Calls, Used
<1>4. IsFiniteSet(Used)
  BY <1>1, <1>2, <1>3, FS_Subset
<1>5. \A S \in SUBSET Used : IsFiniteSet(S)
  BY <1>4, FS_Subset
<1>. QED  BY <1>1, <1>2, <1>4, <1>5

(* The fees of the calls that were charged, as they are summed. *)
QuotedFees == [n \in Used |-> quotes[n].fee]

(* A step that charges nobody and keeps what was signed keeps the account   *)
(* of what users paid.                                                      *)
LEMMA NobodyCharged ==
    ASSUME IInv, quotes' = quotes,
           \A n \in Used : signed'[n] = signed[n],
           \A token \in Tokens, user \in Users : wallet'[token][user] = wallet[token][user]
    PROVE  ChargedAsSigned'
<1>1. \A user, token : Charged(user, token)' = Charged(user, token)
  BY DEF Charged
<1>2. ASSUME NEW user \in Users, NEW token \in Tokens
      PROVE  Funds - wallet'[token][user] = SumOver(QuotedFees', Charged(user, token)')
  <2>1. QuotedFees' = QuotedFees /\ Charged(user, token)' = Charged(user, token)
    BY <1>1 DEF QuotedFees
  <2>2. Funds - wallet[token][user] = SumOver(QuotedFees, Charged(user, token))
    BY DEF IInv, ChargedAsSigned, QuotedFees
  <2>. QED  BY <2>1, <2>2
<1>3. \A n \in Used : /\ quotes[n].fee <= signed'[n].max_fee_amount
                      /\ quotes[n].ledger <= signed'[n].expiration_ledger
  BY DEF IInv, ChargedAsSigned
<1>. QED  BY <1>2, <1>3 DEF ChargedAsSigned, QuotedFees

-----------------------------------------------------------------------------
(* The invariant holds at the start and every operation keeps it *)

LEMMA InitKeeps == Init => IInv
<1> SUFFICES ASSUME Init PROVE IInv
  OBVIOUS
<1> USE DEF Init
<1>1. Calls = {} /\ Used = {}
  OBVIOUS
<1>2. TypeOK
  BY <1>1, PaymasterAssumption DEF TypeOK
<1>3. Numbered
  <2>1. Calls = 1..0
    BY <1>1
  <2>. QED  BY <2>1 DEF Numbered
<1>4. Quoted
  BY <1>1 DEF Quoted
<1>5. ChargedAsSigned
  <2>1. \A user, token : Charged(user, token) = {}
    BY <1>1 DEF Charged
  <2>2. ASSUME NEW user \in Users, NEW token \in Tokens
        PROVE  Funds - wallet[token][user] = SumOver(QuotedFees, Charged(user, token))
    <3>1. wallet[token][user] = Funds /\ Funds \in Nat
      BY PaymasterAssumption
    <3>2. SumOver(QuotedFees, Charged(user, token)) = 0
      BY <2>1, SumOverType
    <3>3. Funds - Funds = 0
      BY <3>1
    <3>. QED  BY <3>1, <3>2, <3>3
  <2>. QED  BY <1>1, <2>2 DEF ChargedAsSigned, QuotedFees
<1>. QED  BY <1>2, <1>3, <1>4, <1>5 DEF IInv

(* A step that signs and charges nothing and moves no tokens. *)
LEMMA BooksKept ==
    ASSUME IInv, UNCHANGED <<wallet, signed, quotes>>, TypeOK'
    PROVE  IInv'
<1>1. Numbered' /\ Quoted'
  BY DEF IInv, Numbered, Quoted
<1>2. ChargedAsSigned'
  BY NobodyCharged
<1>. QED  BY <1>1, <1>2 DEF IInv

LEMMA CloseKeeps == ASSUME IInv, Close PROVE IInv'
<1>1. TypeOK'
  BY PaymasterAssumption DEF Close, storage, IInv, TypeOK
<1>. QED  BY <1>1, BooksKept DEF Close

LEMMA StutterKeeps == ASSUME IInv, UNCHANGED vars PROVE IInv'
<1>1. TypeOK'
  BY DEF vars, storage, IInv, TypeOK
<1>. QED  BY <1>1, BooksKept DEF vars

(* A sweep moves the contract's own tokens only. *)
LEMMA SweepKeeps ==
    ASSUME IInv, NEW caller, NEW token \in Tokens, NEW to \in Operators,
           sweep(caller, token, to)
    PROVE  IInv'
<1> DEFINE held == wallet[token][Self]
<1>1. /\ Self \in Accounts /\ to \in Accounts /\ to # Self
      /\ wallet \in Wallets
      /\ \A user \in Users : user \in Accounts /\ user # Self /\ user # to
  BY PaymasterAssumption DEF Operators, IInv, TypeOK
<1>2. held \in Nat /\ CanTransfer(wallet, token, Self, held)
  BY <1>1 DEF CanTransfer
<1>3. wallet' = Transferred(wallet, token, Self, to, held)
  BY DEF sweep
<1> HIDE DEF held
<1>4. /\ wallet' \in Wallets
      /\ \A other \in Tokens \ {token} : wallet'[other] = wallet[other]
      /\ \A a \in Accounts \ {Self, to} : wallet'[token][a] = wallet[token][a]
  <2> DEFINE after == Transferred(wallet, token, Self, to, held)
  <2>1. /\ after \in Wallets
        /\ \A other \in Tokens \ {token} : after[other] = wallet[other]
    BY <1>1, <1>2, TransferType
  <2>2. \A a \in Accounts \ {Self, to} : after[token][a] = wallet[token][a]
    <3>1. /\ held \in Int /\ wallet \in Wallets
          /\ Self \in Accounts /\ to \in Accounts /\ Self # to
      BY <1>1, <1>2
    <3>. QED  BY <3>1, TransferCharges
  <2>3. wallet' = after
    BY <1>3
  <2> HIDE DEF after
  <2>. QED  BY <2>1, <2>2, <2>3
<1>5. \A t \in Tokens, user \in Users : wallet'[t][user] = wallet[t][user]
  BY <1>1, <1>4
<1>6. UNCHANGED <<sequence, storage, signed, quotes>>
  BY DEF sweep
<1>7. TypeOK'
  BY <1>4, <1>6 DEF storage, IInv, TypeOK
<1>8. Numbered' /\ Quoted'
  BY <1>6 DEF IInv, Numbered, Quoted
<1>9. ChargedAsSigned'
  BY <1>5, <1>6, NobodyCharged
<1>. QED  BY <1>7, <1>8, <1>9 DEF IInv

LEMMA AdministerKeeps == ASSUME IInv, Administer PROVE IInv'
<1>1. PICK caller \in Operators :
        \/ \E list \in SUBSET Tokens : initialize(caller, list)
        \/ \E token \in Tokens :
             \/ add_fee_token(caller, token)
             \/ remove_fee_token(caller, token)
             \/ \E to \in Operators : sweep(caller, token, to)
        \/ \E hash \in Wasms : upgrade(caller, hash)
  BY DEF Administer
<1>2. caller # NoAccount
  BY PaymasterAssumption DEF Operators
<1>3. CASE \E list \in SUBSET Tokens : initialize(caller, list)
  <2>1. TypeOK'
    BY <1>2, <1>3 DEF initialize, IInv, TypeOK
  <2>. QED  BY <1>3, <2>1, BooksKept DEF initialize
<1>4. CASE \E token \in Tokens : add_fee_token(caller, token)
  <2>1. TypeOK'
    BY <1>4 DEF add_fee_token, IInv, TypeOK
  <2>. QED  BY <1>4, <2>1, BooksKept DEF add_fee_token
<1>5. CASE \E token \in Tokens : remove_fee_token(caller, token)
  <2>1. TypeOK'
    BY <1>5 DEF remove_fee_token, IInv, TypeOK
  <2>. QED  BY <1>5, <2>1, BooksKept DEF remove_fee_token
<1>6. CASE \E token \in Tokens, to \in Operators : sweep(caller, token, to)
  BY <1>6, SweepKeeps
<1>7. CASE \E hash \in Wasms : upgrade(caller, hash)
  <2>1. TypeOK'
    BY <1>7 DEF upgrade, IInv, TypeOK
  <2>. QED  BY <1>7, <2>1, BooksKept DEF upgrade
<1>. QED  BY <1>1, <1>3, <1>4, <1>5, <1>6, <1>7

(* A new call gets a nonce of its own, and nothing is charged for it yet. *)
LEMMA SignKeeps ==
    ASSUME IInv, NEW user \in Users, NEW entry \in EntryPoint, NEW fee_token \in Tokens,
           NEW max_fee \in Fees, NEW expiration \in 0..MaxU32,
           Sign(user, entry, fee_token, max_fee, expiration)
    PROVE  IInv'
<1> DEFINE new == Cardinality(Calls) + 1
           call == [entry |-> entry, user |-> user, fee_token |-> fee_token,
                    max_fee_amount |-> max_fee, expiration_ledger |-> expiration]
<1>1. /\ new - 1 \in Nat /\ new \in Nat
      /\ Calls = 1..(new - 1)
      /\ Used \subseteq Calls
  BY CountOfCalls DEF IInv, TypeOK
<1>2. /\ signed' = [n \in 1..new |-> IF n \in Calls THEN signed[n] ELSE call]
      /\ UNCHANGED <<sequence, storage, wallet, quotes>>
  BY DEF Sign
<1>3. call \in Call
  BY PaymasterAssumption DEF Call
<1> HIDE DEF new, call
<1>4. \A n \in Calls : signed'[n] = signed[n]
  BY <1>1, <1>2
<1>5. Calls' = 1..new
  BY <1>2
<1>6. TypeOK'
  <2>1. signed' \in [1..new -> Call]
    <3>1. \A n \in Calls : signed[n] \in Call
      BY DEF IInv, TypeOK
    <3>. QED  BY <1>2, <1>3, <3>1
  <2>2. Used' \subseteq 1..new
    BY <1>1, <1>2
  <2>3. /\ sequence' = sequence /\ admin' = admin /\ allowed' = allowed /\ wasm' = wasm
        /\ wallet' = wallet /\ Used' = Used
    BY <1>2 DEF storage
  <2>. QED  BY <1>5, <2>1, <2>2, <2>3 DEF IInv, TypeOK
<1>7. Numbered'
  BY <1>1, <1>5 DEF Numbered
<1>8. Quoted'
  BY <1>2 DEF IInv, Quoted
<1>9. ChargedAsSigned'
  BY <1>1, <1>2, <1>4, NobodyCharged
<1>. QED  BY <1>6, <1>7, <1>8, <1>9 DEF IInv

LEMMA SignCallKeeps == ASSUME IInv, SignCall PROVE IInv'
<1>1. PICK user \in Users, fee_token \in Tokens, max_fee \in Fees :
        \/ \E expiration \in Expirations :
             Sign(user, "forward", fee_token, max_fee, expiration)
        \/ Sign(user, "collect_fee_and_invoke", fee_token, max_fee, WrapperExpiration)
  BY DEF SignCall
<1>2. "forward" \in EntryPoint /\ "collect_fee_and_invoke" \in EntryPoint
  BY DEF EntryPoint
<1>3. Expirations \subseteq 0..MaxU32
  BY PaymasterAssumption
<1>4. WrapperExpiration \in 0..MaxU32
  BY PaymasterAssumption DEF WrapperExpiration, IInv, TypeOK
<1>5. CASE \E expiration \in Expirations :
             Sign(user, "forward", fee_token, max_fee, expiration)
  BY <1>2, <1>3, <1>5, SignKeeps
<1>6. CASE Sign(user, "collect_fee_and_invoke", fee_token, max_fee, WrapperExpiration)
  BY <1>2, <1>4, <1>6, SignKeeps
<1>. QED  BY <1>1, <1>5, <1>6

(* A call that is charged: its nonce is used up, the user pays what is      *)
(* quoted, and what the others paid for their calls stays as it is.         *)
LEMMA ForwardKeeps ==
    ASSUME IInv, NEW n, NEW entry, NEW user, NEW token, NEW fee \in Int, NEW max_fee,
           NEW expiration, NEW recipient \in Operators \cup {Self},
           forward(n, entry, user, token, fee, max_fee, expiration, recipient)
    PROVE  IInv'
<1> DEFINE quote == [fee |-> fee, ledger |-> sequence]
<1>1. /\ admin # NoAccount
      /\ n \in Calls /\ n \notin Used
      /\ signed[n] = [entry |-> entry, user |-> user, fee_token |-> token,
                      max_fee_amount |-> max_fee, expiration_ledger |-> expiration]
      /\ 0 < fee /\ fee <= max_fee /\ sequence <= expiration
      /\ CanTransfer(wallet, token, user, fee)
      /\ wallet' = Transferred(wallet, token, user, recipient, fee)
      /\ quotes' = [m \in Used \cup {n} |-> IF m = n THEN quote ELSE quotes[m]]
      /\ UNCHANGED <<sequence, storage, signed>>
  BY DEF forward, Authorized, Collect
<1>2. /\ signed[n] \in Call
      /\ signed[n].user = user /\ signed[n].fee_token = token
      /\ signed[n].max_fee_amount = max_fee /\ signed[n].expiration_ledger = expiration
  <2>1. signed[n] \in Call
    BY <1>1 DEF IInv, TypeOK
  <2>. QED  BY <1>1, <2>1
<1>3. /\ user \in Users /\ token \in Tokens /\ user \in Accounts
      /\ recipient \in Accounts /\ recipient \notin Users /\ user # recipient
      /\ Users \subseteq Accounts
      /\ fee \in Nat /\ sequence \in Nat
      /\ wallet \in Wallets
  <2>1. user \in Users /\ token \in Tokens
    BY <1>2 DEF Call
  <2>2. fee \in Nat
    BY <1>1
  <2>3. sequence \in Nat /\ wallet \in Wallets
    BY PaymasterAssumption DEF IInv, TypeOK
  <2>. QED  BY <2>1, <2>2, <2>3, PaymasterAssumption DEF Operators
<1>4. /\ wallet' \in Wallets
      /\ \A other \in Tokens \ {token} : wallet'[other] = wallet[other]
      /\ wallet'[token][user] = wallet[token][user] - fee
      /\ \A a \in Accounts \ {user, recipient} : wallet'[token][a] = wallet[token][a]
  <2> DEFINE after == Transferred(wallet, token, user, recipient, fee)
  <2>1. CanTransfer(wallet, token, user, fee) /\ wallet' = after
    BY <1>1
  <2>2. /\ after \in Wallets
        /\ \A other \in Tokens \ {token} : after[other] = wallet[other]
    BY <1>3, <2>1, TransferType
  <2>3. /\ after[token][user] = wallet[token][user] - fee
        /\ \A a \in Accounts \ {user, recipient} : after[token][a] = wallet[token][a]
    BY <1>3, TransferCharges
  <2> HIDE DEF after
  <2>. QED  BY <2>1, <2>2, <2>3
<1>5. /\ Used' = Used \cup {n}
      /\ quotes'[n] = quote
      /\ \A m \in Used : m # n /\ quotes'[m] = quotes[m]
  BY <1>1
<1>6. TypeOK'
  <2>1. /\ sequence' = sequence /\ admin' = admin /\ allowed' = allowed /\ wasm' = wasm
        /\ signed' = signed
    BY <1>1 DEF storage
  <2>2. Used' \subseteq Calls
    BY <1>1, <1>5 DEF IInv, TypeOK
  <2>. QED  BY <1>1, <1>4, <2>1, <2>2 DEF IInv, TypeOK
<1>7. Numbered'
  BY <1>1 DEF IInv, Numbered
<1>8. Quoted'
  <2>1. quote \in [fee : Nat, ledger : Nat]
    BY <1>3
  <2>2. \A m \in Used : quotes[m] \in [fee : Nat, ledger : Nat]
    BY DEF IInv, Quoted
  <2>. HIDE DEF quote
  <2>. QED  BY <1>1, <2>1, <2>2 DEF Quoted
<1>9. ASSUME NEW u \in Users, NEW t \in Tokens
      PROVE  Funds - wallet'[t][u] = SumOver(QuotedFees', Charged(u, t)')
  <2> DEFINE f == QuotedFees
             g == QuotedFees'
             C == Charged(u, t)
             D == Charged(u, t)'
  <2>1. Funds - wallet[t][u] = SumOver(f, C)
    BY DEF IInv, ChargedAsSigned, QuotedFees
  <2>2. /\ \A m \in Used : f[m] = quotes[m].fee /\ g[m] = f[m] /\ g[m] \in Int
        /\ g[n] = fee
    <3>1. /\ \A m \in Used : quotes[m].fee \in Nat
          /\ QuotedFees' = [m \in Used' |-> quotes'[m].fee]
      BY DEF IInv, Quoted, QuotedFees
    <3>. QED  BY <1>5, <3>1 DEF QuotedFees
  <2>3. /\ C \subseteq Used /\ n \notin C
        /\ D = IF u = user /\ t = token THEN C \cup {n} ELSE C
    <3>1. D = {m \in Used \cup {n} : signed[m].user = u /\ signed[m].fee_token = t}
      BY <1>1, <1>5 DEF Charged
    <3>. QED  BY <1>1, <1>2, <3>1 DEF Charged
  <2>4. IsFiniteSet(C) /\ IsFiniteSet(C \cup {n})
    BY <2>3, CountOfCalls, FS_AddElement
  <2>5. wallet[t][u] \in Nat /\ Funds \in Nat
    BY <1>3, PaymasterAssumption
  <2> HIDE DEF f, g, C, D
  <2>6. SumOver(g, C) = SumOver(f, C)
    BY <2>2, <2>3, <2>4, SumOverSame
  <2>7. CASE u = user /\ t = token
    <3>1. SumOver(g, C \cup {n}) = g[n] + SumOver(g, (C \cup {n}) \ {n})
      <4>1. \A m \in C \cup {n} : g[m] \in Int
        BY <1>3, <2>2, <2>3
      <4>. QED  BY <2>4, <4>1, SumOverSplit
    <3>2. (C \cup {n}) \ {n} = C
      BY <2>3
    <3>3. wallet'[t][u] = wallet[t][u] - fee
      BY <1>4, <2>7
    <3>4. SumOver(g, D) = fee + (Funds - wallet[t][u])
      BY <2>1, <2>2, <2>3, <2>6, <2>7, <3>1, <3>2
    <3>. QED  BY <1>3, <2>5, <3>3, <3>4 DEF g, D
  <2>8. CASE ~(u = user /\ t = token)
    <3>1. wallet'[t][u] = wallet[t][u]
      BY <1>3, <1>4, <2>8
    <3>. QED  BY <2>1, <2>3, <2>6, <2>8, <3>1 DEF g, D
  <2>. QED  BY <2>7, <2>8
<1>10. ASSUME NEW m \in Used'
       PROVE  /\ quotes'[m].fee <= signed'[m].max_fee_amount
              /\ quotes'[m].ledger <= signed'[m].expiration_ledger
  <2>1. CASE m = n
    BY <1>1, <1>2, <1>5, <2>1
  <2>2. CASE m # n
    BY <1>1, <1>5, <2>2 DEF IInv, ChargedAsSigned
  <2>. QED  BY <2>1, <2>2
<1>11. ChargedAsSigned'
  BY <1>9, <1>10 DEF ChargedAsSigned, QuotedFees
<1>. QED  BY <1>6, <1>7, <1>8, <1>11 DEF IInv

LEMMA SubmitKeeps == ASSUME IInv, Submit PROVE IInv'
<1>1. PICK n \in Calls :
        \/ \E fee \in Fees, recipient \in Operators \cup {Self} :
             forward(n, "forward", signed[n].user, signed[n].fee_token, fee,
                     signed[n].max_fee_amount, signed[n].expiration_ledger, recipient)
        \/ \E relayer \in Operators :
             collect_fee_and_invoke(n, signed[n].user, signed[n].fee_token,
                                    signed[n].max_fee_amount, relayer)
  BY DEF Submit
<1>2. signed[n].max_fee_amount \in Int
  BY DEF IInv, TypeOK, Call
<1>3. CASE \E fee \in Fees, recipient \in Operators \cup {Self} :
             forward(n, "forward", signed[n].user, signed[n].fee_token, fee,
                     signed[n].max_fee_amount, signed[n].expiration_ledger, recipient)
  <2>1. \A fee \in Fees : fee \in Int
    BY PaymasterAssumption
  <2>. QED  BY <1>3, <2>1, ForwardKeeps
<1>4. CASE \E relayer \in Operators :
             collect_fee_and_invoke(n, signed[n].user, signed[n].fee_token,
                                    signed[n].max_fee_amount, relayer)
  BY <1>2, <1>4, ForwardKeeps DEF collect_fee_and_invoke
<1>. QED  BY <1>1, <1>3, <1>4

LEMMA Invariance == Spec => []IInv
<1>1. IInv /\ [Next]_vars => IInv'
  BY CloseKeeps, SignCallKeeps, AdministerKeeps, SubmitKeeps, StutterKeeps DEF Next
<1>. QED  BY <1>1, InitKeeps, PTL DEF Spec

-----------------------------------------------------------------------------
(* The theorems *)

(* Every stored entry and every balance is one the contract's types have,  *)
(* and nothing is charged before the contract is initialized.              *)
THEOREM PaymasterTypeCorrect == Spec => []TypeOK
<1>1. IInv => TypeOK
  BY DEF IInv
<1>. QED  BY <1>1, Invariance, PTL

(* A user pays for each of his calls at most once, what was quoted, no more *)
(* than he signed for and no later: whatever relayers and operators do.     *)
THEOREM PaymasterChargedAsSigned == Spec => []ChargedAsSigned
<1>1. IInv => ChargedAsSigned
  BY DEF IInv
<1>. QED  BY <1>1, Invariance, PTL
=============================================================================
