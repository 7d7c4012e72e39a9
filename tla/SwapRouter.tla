----------------------------- MODULE SwapRouter -----------------------------
(***************************************************************************)
(* contracts/dex-periphery/SwapRouter.sol with the deposits and payments   *)
(* of base/PeripheryPayments.sol, over pools that promise what Pool does:  *)
(* a pool asks the router for what a swap takes, unless it came with the   *)
(* call, and only then delivers what the swap returns.                     *)
(*                                                                         *)
(* An asset has two versions, v20 and v223, as in the pools; the pools and *)
(* the paths go by the first.  A token that calls its recipients (every    *)
(* v223, some v20) and ether hand over control, and while a user has it    *)
(* everybody may call the router: calls is the stack of its calls under    *)
(* way, the latest first.  A call that fails is reverted with all it did,  *)
(* so that one that is bound to fail has no next step.                     *)
(*                                                                         *)
(* A pool gives one unit for one.  The tokens of the swaps modelled move   *)
(* what they say and make no call but to the recipient.  Others exist, and *)
(* the router does not know one from another: a token of anybody's making  *)
(* can have its own pools call the router back whenever it likes           *)
(* (ForeignCallback).                                                      *)
(***************************************************************************)
EXTENDS Integers, Sequences, FiniteSets, Functions

CONSTANTS
    Users,
    Assets,
    WETH9,          \* the asset whose v20 is wrapped ether
    Hooked20,       \* assets whose v20 calls its recipients as well
    Paths,          \* the paths of assets users ask for
    Amounts,        \* of a deposit, a swap, a withdrawal
    StartWallets,   \* user |-> token |-> what he has at first
    StartEther,     \* user |-> his ether at first
    Router, NoOne,
    MaxDepth        \* bound: calls within calls

Versions == {"v20", "v223"}
Tokens == Assets \X Versions
Erc20(a) == <<a, "v20">>
Erc223(a) == <<a, "v223">>
\* The pool of two assets.
PoolOf(a, b) == {a, b}
Pools == {PoolOf(a, b) : a, b \in Assets}
\* A token calls the contracts it is sent to.
Calls(t) == t[2] = "v223" \/ t[1] \in Hooked20

ASSUME RouterAssumption ==
    /\ WETH9 \in Assets \ Hooked20 /\ Hooked20 \subseteq Assets
    /\ IsFiniteSet(Users) /\ Users \cap Tokens = {}
    /\ Router \notin Users /\ NoOne \notin Users \cup {Router} \cup Tokens \cup Pools
    /\ Amounts \subseteq Nat \ {0}
    /\ Paths \subseteq {p \in Seq(Assets) : Len(p) >= 2}
    /\ StartWallets \in [Users -> [Tokens -> Nat]]
    /\ StartEther \in [Users -> Nat] /\ MaxDepth \in Nat

VARIABLES
    wallet,           \* what each user has of each token, all of it approved
    held,             \* what the router has of each token
    ether,            \* what each user and the router have of it
    erc223Deposits,   \* _erc223Deposits
    totalDeposits,    \* _erc223TotalDeposits
    unlocked, erc223CallPermit, call_sender, token_sender,
    expectedCallbackPool,
    calls

balanceVars == <<wallet, held, ether>>
depositVars == <<erc223Deposits, totalDeposits>>
contextVars == <<unlocked, erc223CallPermit, call_sender, token_sender, expectedCallbackPool>>
vars == <<balanceVars, depositVars, contextVars, calls>>

Top == Head(calls)
\* Users have control: nothing is under way, or a recipient was called.
Outside == IF calls = <<>> THEN TRUE ELSE Top.phase = "outside" /\ Len(calls) < MaxDepth

-----------------------------------------------------------------------------
(* Deposits and payments.                                                  *)

Credit(u, t, v) ==
    /\ erc223Deposits' = [erc223Deposits EXCEPT ![u][t] = @ + v]
    /\ totalDeposits' = [totalDeposits EXCEPT ![t] = @ + v]

\* mutant: the total is left as it is
DebitUser(u, t, v) ==
    /\ erc223Deposits' = [erc223Deposits EXCEPT ![u][t] = @ - v]
    /\ UNCHANGED totalDeposits
Debit(u, t, v) ==
    /\ erc223Deposits' = [erc223Deposits EXCEPT ![u][t] = @ - v]
    /\ totalDeposits' = [totalDeposits EXCEPT ![t] = @ - v]

\* What a contract or user receives; a pool's own balance is left out.
Receives(to, t, v) ==
    /\ wallet' = IF to \in Users THEN [wallet EXCEPT ![to][t] = @ + v] ELSE wallet
    /\ held' = IF to = Router THEN [held EXCEPT ![t] = @ + v] ELSE held

\* In order: ether for wrapped ether, a deposit, what the router has itself of an
\* earlier swap of the path, and what the payer approved.
pay(a, payer, v) ==
    LET t == Erc20(a) IN
    IF a = WETH9 /\ ether[Router] >= v
    THEN /\ ether' = [ether EXCEPT ![Router] = @ - v]
         /\ UNCHANGED <<wallet, held, depositVars>>
    ELSE IF payer \in Users /\ erc223Deposits[payer][t] >= v
    THEN /\ held[t] >= v
         /\ Debit(payer, t, v)
         /\ held' = [held EXCEPT ![t] = @ - v]
         /\ UNCHANGED <<wallet, ether>>
    ELSE IF payer = Router
    THEN /\ held[t] >= v
         /\ held' = [held EXCEPT ![t] = @ - v]
         /\ UNCHANGED <<wallet, ether, depositVars>>
    ELSE /\ wallet[payer][t] >= v
         /\ wallet' = [wallet EXCEPT ![payer][t] = @ - v]
         /\ UNCHANGED <<held, ether, depositVars>>

\* withdraw has no lock; the debit comes before the transfer.
withdraw(u, to, t, v) ==
    /\ Outside
    /\ erc223Deposits[u][t] >= v /\ held[t] >= v
    /\ Debit(u, t, v)
    /\ held' = [held EXCEPT ![t] = @ - v]
    /\ wallet' = [wallet EXCEPT ![to][t] = @ + v]
    /\ UNCHANGED <<ether, contextVars, calls>>

\* All of the router's wrapped ether goes to whoever asks.
Unwrap(to) ==
    /\ held[Erc20(WETH9)] > 0
    /\ held' = [held EXCEPT ![Erc20(WETH9)] = 0]
    /\ ether' = [ether EXCEPT ![to] = @ + held[Erc20(WETH9)]]
    /\ UNCHANGED <<wallet, depositVars, contextVars>>

unwrapWETH9(to) == Outside /\ Unwrap(to) /\ UNCHANGED calls

refundETH(u) ==
    /\ Outside
    /\ ether[Router] > 0
    /\ ether' = [ether EXCEPT ![u] = @ + ether[Router], ![Router] = 0]
    /\ UNCHANGED <<wallet, held, depositVars, contextVars, calls>>

\* Somebody sends the router a token that calls nobody.
transfer(u, t, v) ==
    /\ Outside
    /\ ~ Calls(t) /\ wallet[u][t] >= v
    /\ wallet' = [wallet EXCEPT ![u][t] = @ - v]
    /\ held' = [held EXCEPT ![t] = @ + v]
    /\ UNCHANGED <<ether, depositVars, contextVars, calls>>

-----------------------------------------------------------------------------
(* Locks and senders.                                                      *)

\* Ether sent along with a call.
Sends(u, value) ==
    /\ ether[u] >= value
    /\ ether' = [ether EXCEPT ![u] = @ - value, ![Router] = @ + value]

CanEnter == erc223CallPermit \/ unlocked
\* The permit is used up, or the lock is taken.
Enter(permitAfter) ==
    /\ CanEnter
    /\ erc223CallPermit' = permitAfter
    /\ unlocked' = (erc223CallPermit /\ unlocked)

\* A call that took the lock, and not the permit, releases it.
Release(frame) == unlocked' = (frame.took \/ unlocked)

Push(frame) == calls' = <<frame>> \o calls
Replace(frame) == calls' = <<frame>> \o Tail(calls)

\* In the context of a deposit only the deposited token is swapped, and only by
\* the token itself.
Matches(a, sender) == token_sender = NoOne \/ sender \in {Erc20(a), Erc223(a)}

-----------------------------------------------------------------------------
(* Deposits.                                                               *)

\* A user sends the router a token that calls it, with the calls to dispatch:
\* none, or a multicall of them.
tokenReceived(u, t, v, todo) ==
    /\ Outside
    /\ Calls(t) /\ wallet[u][t] >= v
    /\ Enter(todo # <<>>)
    /\ wallet' = [wallet EXCEPT ![u][t] = @ - v]
    /\ held' = [held EXCEPT ![t] = @ + v]
    /\ Credit(u, t, v)
    /\ call_sender' = u /\ token_sender' = t
    /\ Push([kind |-> "deposit", by |-> u, token |-> t, todo |-> todo, data |-> todo # <<>>,
          took |-> ~ erc223CallPermit, phase |-> "run"])
    /\ UNCHANGED <<ether, expectedCallbackPool>>

Depositing == calls # <<>> /\ Top.kind = "deposit"
NextCall(call) == Depositing /\ Top.phase = "run" /\ Top.todo # <<>> /\ Head(Top.todo) = call

\* The dispatched unwrapping of wrapped ether sends ether to a user.
DispatchUnwrap(to) ==
    /\ NextCall("unwrap")
    /\ Unwrap(to)
    /\ Replace([Top EXCEPT !.todo = Tail(@), !.phase = "outside"])

DispatchReturn ==
    /\ Depositing /\ Top.phase = "outside"
    /\ Replace([Top EXCEPT !.phase = "run"])
    /\ UNCHANGED <<balanceVars, depositVars, contextVars>>

\* mutant: a permit that was not used stays
PermitKept(frame) == erc223CallPermit
\* The permit is cleared in case the call never used it.
PermitAfter(frame) == erc223CallPermit /\ ~ frame.data
DepositEnd ==
    /\ Depositing /\ Top.phase = "run" /\ Top.todo = <<>>
    /\ erc223CallPermit' = PermitAfter(Top)
    /\ call_sender' = NoOne /\ token_sender' = NoOne
    /\ Release(Top)
    /\ calls' = Tail(calls)
    /\ UNCHANGED <<balanceVars, depositVars, expectedCallbackPool>>

-----------------------------------------------------------------------------
(* Swaps for an exact input.                                               *)

Swap(by, sender, path, amount, to, prefer223) ==
    [kind |-> "input", by |-> by, sender |-> sender, path |-> path, amount |-> amount, to |-> to,
     prefer |-> prefer223, payer |-> call_sender', took |-> ~ erc223CallPermit, phase |-> "run"]

\* exactInputSingle and exactInput, called by a user.
exactInput(u, path, amount, to, prefer223, value) ==
    /\ Outside
    /\ Enter(FALSE)
    /\ Matches(path[1], u)
    /\ Sends(u, value)
    /\ call_sender' = IF call_sender = NoOne THEN u ELSE call_sender
    /\ Push(Swap(u, u, path, amount, to, prefer223))
    /\ UNCHANGED <<wallet, held, depositVars, token_sender, expectedCallbackPool>>

\* The same, dispatched by a deposit: the caller is the token.
DispatchSwap(path, amount, to, prefer223) ==
    /\ NextCall("swap")
    /\ Enter(FALSE)
    /\ Matches(path[1], Top.token)
    /\ call_sender' = IF call_sender = NoOne THEN Top.by ELSE call_sender
    /\ calls' = <<Swap(Top.by, Top.token, path, amount, to, prefer223),
                  [Top EXCEPT !.todo = Tail(@)]>> \o Tail(calls)
    /\ UNCHANGED <<balanceVars, depositVars, token_sender, expectedCallbackPool>>

\* A swap goes from "run" to "pool" when a pool computes it, to "paid" when that
\* pool has its payment, and to "inside" or "outside" when it has delivered, with
\* the recipient in control or not.
Swapping(kind, phases) == calls # <<>> /\ Top.kind = kind /\ Top.phase \in phases
Delivered == {"inside", "outside"}
LastHop(path) == Len(path) = 2
Pool(path) == PoolOf(path[1], path[2])

\* exactInputInternal.  A deposit that covers the amount goes to the pool with the
\* call, and has to be used in full: the pool's refund would meet the lock.
InputHop ==
    /\ Swapping("input", {"run"})
    /\ expectedCallbackPool' = Pool(Top.path)
    /\ IF /\ call_sender # NoOne /\ token_sender # NoOne
          /\ erc223Deposits[call_sender][token_sender] >= Top.amount
       THEN /\ token_sender = Erc223(Top.path[1])
            /\ IF Top.sender \in Tokens
               THEN Debit(call_sender, Top.sender, Top.amount)
               ELSE UNCHANGED depositVars
            /\ held' = [held EXCEPT ![token_sender] = @ - Top.amount]
            /\ Replace([Top EXCEPT !.phase = "paid"])
       ELSE /\ UNCHANGED <<held, depositVars>>
            /\ Replace([Top EXCEPT !.phase = "pool"])
    /\ UNCHANGED <<wallet, ether, unlocked, erc223CallPermit, call_sender, token_sender>>

\* mutant: every pool may call back
AnyPool(p) == TRUE
\* The pool that may call uniswapV3SwapCallback.
Bound(p) == expectedCallbackPool = p

\* uniswapV3SwapCallback, once: the payer is whoever the pool's data name.
Callback(p, a, payer, v) ==
    /\ Bound(p)
    /\ expectedCallbackPool' = NoOne
    /\ pay(a, payer, v)
    /\ UNCHANGED <<unlocked, erc223CallPermit, call_sender, token_sender>>

\* A pool may take less than it was offered.
InputCallback(out) ==
    /\ Swapping("input", {"pool"})
    /\ out <= Top.amount
    /\ Callback(Pool(Top.path), Top.path[1], Top.payer, out)
    /\ Replace([Top EXCEPT !.amount = out, !.phase = "paid"])

\* The delivery of the pool that was called first: to whom and of what.
Recipient(f) == IF f.kind = "output" \/ LastHop(f.path) THEN f.to ELSE Router
Output(f) ==
    IF f.kind = "output" THEN Erc20(f.path[1])
    ELSE IF LastHop(f.path) /\ f.prefer THEN Erc223(f.path[2])
    ELSE Erc20(f.path[2])
\* The router's own tokenReceived meets the lock.
Deliver ==
    /\ Swapping("input", {"paid"}) \/ Swapping("output", {"paid"})
    /\ ~ (Recipient(Top) = Router /\ Calls(Output(Top)))
    /\ Receives(Recipient(Top), Output(Top), Top.amount)
    /\ Replace([Top EXCEPT !.phase = IF Calls(Output(Top)) THEN "outside" ELSE "inside"])
    /\ UNCHANGED <<ether, depositVars, contextVars>>

\* The pool's call returns: the swap ends, or goes on with the next pool of its path.
InputReturn ==
    /\ Swapping("input", Delivered)
    /\ expectedCallbackPool' = NoOne
    /\ IF LastHop(Top.path)
       THEN /\ call_sender' = NoOne
            /\ Release(Top)
            /\ calls' = Tail(calls)
            /\ UNCHANGED token_sender
       ELSE /\ token_sender' = NoOne
            /\ Replace([Top EXCEPT !.path = Tail(@), !.payer = Router, !.phase = "run"])
            /\ UNCHANGED <<call_sender, unlocked>>
    /\ UNCHANGED <<balanceVars, depositVars, erc223CallPermit>>

-----------------------------------------------------------------------------
(* Swaps for an exact output: the path is walked from its end, and each    *)
(* pool asks for its payment before it delivers.                           *)

exactOutput(u, path, amount, to, value) ==
    /\ Outside
    /\ Enter(FALSE)
    /\ Sends(u, value)
    /\ expectedCallbackPool' = Pool(path)
    /\ Push([kind |-> "output", by |-> u, path |-> path, hop |-> 1, amount |-> amount, to |-> to,
             took |-> ~ erc223CallPermit, phase |-> "pool"])
    /\ UNCHANGED <<wallet, held, depositVars, call_sender, token_sender>>

PoolAt(path, n) == PoolOf(path[n], path[n + 1])

\* The callback of a pool that the next one pays: that one delivers straight to it,
\* of a token that does not call it.
OutputNext ==
    /\ Swapping("output", {"pool"})
    /\ Top.hop < Len(Top.path) - 1
    /\ Bound(PoolAt(Top.path, Top.hop))
    /\ Top.path[Top.hop + 1] \notin Hooked20
    /\ expectedCallbackPool' = PoolAt(Top.path, Top.hop + 1)
    /\ Replace([Top EXCEPT !.hop = @ + 1])
    /\ UNCHANGED <<balanceVars, depositVars, unlocked, erc223CallPermit, call_sender, token_sender>>

\* The callback of the last one, which the caller pays.
OutputCallback ==
    /\ Swapping("output", {"pool"})
    /\ Top.hop = Len(Top.path) - 1
    /\ Callback(PoolAt(Top.path, Top.hop), Top.path[Len(Top.path)], Top.by, Top.amount)
    /\ Replace([Top EXCEPT !.phase = "paid"])

OutputReturn ==
    /\ Swapping("output", Delivered)
    /\ expectedCallbackPool' = NoOne
    /\ Release(Top)
    /\ calls' = Tail(calls)
    /\ UNCHANGED <<balanceVars, depositVars, erc223CallPermit, call_sender, token_sender>>

\* The pool that is delivering is locked.
Locked(p) == calls # <<>> /\ Top.kind # "deposit" /\ p = Pool(Top.path)
\* Any other pool may be made by its own token to call the router back, with a payer
\* of that token's choice.
ForeignCallback(p, a, payer, v) ==
    /\ Outside
    /\ ~ Locked(p)
    /\ IF Bound(p) THEN Callback(p, a, payer, v) /\ UNCHANGED calls
       ELSE UNCHANGED vars

-----------------------------------------------------------------------------
Init ==
    /\ wallet = StartWallets /\ held = [t \in Tokens |-> 0]
    /\ ether = [a \in Users \cup {Router} |-> IF a = Router THEN 0 ELSE StartEther[a]]
    /\ erc223Deposits = [u \in Users |-> [t \in Tokens |-> 0]]
    /\ totalDeposits = [t \in Tokens |-> 0]
    /\ unlocked = TRUE /\ erc223CallPermit = FALSE
    /\ call_sender = NoOne /\ token_sender = NoOne /\ expectedCallbackPool = NoOne
    /\ calls = <<>>

\* What a deposit dispatches: a swap, or a multicall that unwraps first.
Payloads == {<<>>, <<"swap">>, <<"unwrap">>, <<"unwrap", "swap">>}

Payment(u) ==
    \/ \E to \in Users, t \in Tokens, v \in Amounts : withdraw(u, to, t, v)
    \/ \E t \in Tokens, v \in Amounts : transfer(u, t, v)
    \/ \E t \in Tokens, v \in Amounts, todo \in Payloads : tokenReceived(u, t, v, todo)

Trade(u) ==
    \E path \in Paths, amount \in Amounts, to \in Users \cup {Router}, value \in {0} \cup Amounts :
        \/ \E prefer223 \in BOOLEAN : exactInput(u, path, amount, to, prefer223, value)
        \/ exactOutput(u, path, amount, to, value)

Dispatch ==
    \/ \E to \in Users : DispatchUnwrap(to)
    \/ DispatchReturn \/ DepositEnd
    \/ \E path \in Paths, amount \in Amounts, to \in Users \cup {Router}, prefer223 \in BOOLEAN :
        DispatchSwap(path, amount, to, prefer223)

Hop ==
    \/ InputHop \/ (\E out \in Amounts : InputCallback(out))
    \/ OutputNext \/ OutputCallback
    \/ Deliver \/ InputReturn \/ OutputReturn

Foreign ==
    \E p \in Pools : \E a \in p, payer \in Users \cup {Router}, v \in Amounts :
        ForeignCallback(p, a, payer, v)

Next ==
    \/ \E u \in Users : Payment(u) \/ Trade(u) \/ unwrapWETH9(u) \/ refundETH(u)
    \/ Dispatch \/ Hop \/ Foreign

Spec == Init /\ [][Next]_vars

-----------------------------------------------------------------------------
(* Properties.                                                             *)

\* The total of a token is the sum of its deposits, and the router has it: no
\* payment of a swap, no unwrapping and no withdrawal takes what another user
\* deposited (PeripheryPayments.sol:38).
DepositsBacked ==
    \A t \in Tokens :
        /\ totalDeposits[t] = SumFunction([u \in Users |-> erc223Deposits[u][t]])
        /\ totalDeposits[t] <= held[t]

\* Between calls nothing is left of the last one: no sender or token for the next
\* caller to be taken for, no permit and no pool that may call back.
SettledWhenIdle ==
    calls = <<>> =>
        /\ unlocked /\ ~ erc223CallPermit
        /\ call_sender = NoOne /\ token_sender = NoOne /\ expectedCallbackPool = NoOne

\* A deposit or an approval of a user is spent only by a payment of his own or by
\* the router in a call that he made, never while a recipient is in control of that
\* call, and by no pool that calls back without having been called
\* (SwapRouter.sol:98-103, 203-204).
Own(u) ==
    \/ calls # <<>> /\ Top.by = u /\ Top.phase # "outside"
    \/ Payment(u)
SpentByOwner ==
    [][\A u \in Users :
        (\E t \in Tokens : wallet'[u][t] < wallet[u][t]
                           \/ erc223Deposits'[u][t] < erc223Deposits[u][t]) => Own(u)]_vars
=============================================================================
