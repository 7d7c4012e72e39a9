----------------------------- MODULE MarginModule -----------------------------
(***************************************************************************)
(* MarginModule (contracts/dex-core/Dex223MarginModule.sol): lenders fund  *)
(* orders, borrowers take loans against collateral and trade the loan, and *)
(* anyone liquidates a position whose holdings no longer cover its debt    *)
(* and a margin, by freezing it first and selling it later.                *)
(*                                                                         *)
(* One action per external function, split where it hands control away and *)
(* the functions without nonReentrant can be entered: where a payout calls *)
(* its receiver, and where takeLoan pulls a token that calls back.  A pull *)
(* moves the amount or reverts; the other calls that pull do so in one     *)
(* step, since what they write afterwards commutes with all that can be    *)
(* entered meanwhile.  A call that would revert half way stops there.  The *)
(* oracle, the pools and the auto-listing are the environment.             *)
(***************************************************************************)
EXTENDS Integers, Sequences, FiniteSets, Functions

CONSTANTS
    Users,
    Tokens,                  \* every asset, ETH included
    ETH,                     \* address(0)
    WETH,                    \* the token orderDepositWETH9 wraps Ether into
    Erc223,                  \* the tokens whose transfers call tokenReceived
    Reentrant,               \* the tokens that run untrusted code when pulled
    NoOne,                   \* address(0) as an account
    Reneging,                \* who modifies an order while a loan on it is taken
    MAX_FREEZE_DURATION,
    LENDER_WINDOW,
    FORCED_SWAP_MIN_OUT_BPS,
    MAINTENANCE_MARGIN_BPS,
    MAX_MAINTENANCE_MARGIN_BPS,
    INTEREST_RATE_PRECISION,
    INTEREST_PERIOD          \* 30 days

CONSTANTS
    Whitelists,      \* token lists: [isContract, tokens]
    OrderChoices,    \* argument records of createOrder and modifyOrder
    CollateralLists, \* arguments of orderSetCollaterals
    MarginChoices,   \* margins given to orderSetLenderProtection
    StatusChoices,   \* arguments of setOrderStatus
    FundAmounts,     \* amounts of order deposits and withdrawals
    LoanAmounts, CollateralAmounts,
    TopUps,          \* amounts of position deposits and ERC-223 transfers
    SwapAmounts,     \* amounts of margin swaps and liquidation steps
    Slips,           \* how far below the oracle's quote a swap may end, or above it
    Shorts,          \* how much of its input a swap may leave unfilled
    InitialPrices,   \* token |-> what the oracle first quotes for one unit
    Prices,          \* token |-> quotes it may move to; 0: it has no pool
    MaxOrders, MaxPositions, MaxHeld, MaxTime   \* bounds

BPS == 10000

ASSUME TokenAssumption ==
    /\ ETH \in Tokens /\ WETH \in Tokens \ {ETH} /\ Erc223 \subseteq Tokens \ {ETH}
    /\ Reentrant \subseteq Tokens \ {ETH}
ASSUME ParameterAssumption ==
    /\ MAX_FREEZE_DURATION \in Nat /\ LENDER_WINDOW \in Nat \ {0}
    /\ INTEREST_RATE_PRECISION \in Nat \ {0} /\ INTEREST_PERIOD \in Nat \ {0}
    /\ FORCED_SWAP_MIN_OUT_BPS \in 0 .. BPS
    /\ MAINTENANCE_MARGIN_BPS \in Nat /\ MAX_MAINTENANCE_MARGIN_BPS \in Nat
    /\ FundAmounts \subseteq Nat /\ LoanAmounts \subseteq Nat
    /\ CollateralAmounts \subseteq Nat /\ TopUps \subseteq Nat
    /\ SwapAmounts \subseteq Nat /\ Slips \subseteq Int /\ Shorts \subseteq Nat
    /\ MarginChoices \subseteq Nat
    /\ InitialPrices \in [Tokens -> Nat] /\ Prices \in [Tokens -> SUBSET Nat]
ASSUME UsersAssumption == IsFiniteSet(Users) /\ Reneging \subseteq Users

VARIABLES
    now,            \* block.timestamp
    held,           \* token |-> balance of the module
    erc223deposit,  \* user |-> token |-> credited transfers
    tokenlists,     \* the lists that were added
    autolisted,     \* the tokens the auto-listing contract lists
    price,          \* token |-> the oracle's quote for one unit
    orders,         \* order id |-> Order with its status and protection
    positions,      \* position id |-> Position
    _entered,       \* the nonReentrant flag
    caller,         \* msg.sender of the guarded call in progress
    calling,        \* a payout's receiver or a pulled token is running
    todo,           \* the autoWithdraw walk the call still has to make
    pulling,        \* the loan being taken and what it is pulling in
    loss            \* order and shortfall _liquidate books after the payout

marketVars == <<now, price, autolisted>>
callVars == <<_entered, caller, calling, todo, pulling, loss>>
vars == <<marketVars, held, erc223deposit, tokenlists, orders, positions, callVars>>

-----------------------------------------------------------------------------
(* Records.  A whitelist stands for its hash; the assets and balances of a *)
(* position, two arrays in the code, are one sequence of holdings, and     *)
(* index 1 is the base asset.                                              *)

Whitelist == [isContract : BOOLEAN, tokens : SUBSET Tokens]
OrderParams == [whitelist : Whitelist, interestRate : Nat, duration : Nat,
                minLoan : Nat, baseAsset : Tokens, currencyLimit : Nat,
                leverage : Nat, rewardAmount : Nat, rewardAsset : Tokens,
                deadline : Nat, collateralAssets : SUBSET Tokens]
Order == [terms : OrderParams, owner : Users, balance : Nat, alive : BOOLEAN,
          positions : Int, shortfall : Nat, marginBps : Nat,
          keeper : Users \cup {NoOne}]
Holding == [asset : Tokens, bal : Nat]
Position == [orderId : Nat, owner : Users, holdings : Seq(Holding),
             deadline : Nat, createdAt : Nat, initialBalance : Nat,
             interest : Nat, open : BOOLEAN, frozenTime : Nat,
             liquidator : Users \cup {NoOne}, initialCollateral : Tokens,
             underwaterSince : Nat]

ASSUME ChoiceAssumption ==
    /\ Whitelists \subseteq Whitelist /\ OrderChoices \subseteq OrderParams
    /\ CollateralLists \subseteq SUBSET Tokens /\ StatusChoices \subseteq BOOLEAN

Ids(seq) == 1 .. Len(seq)
OrderOf(p) == orders[positions[p].orderId]
BaseOf(p) == OrderOf(p).terms.baseAsset

-----------------------------------------------------------------------------
(* Holdings.                                                               *)

getAssetId(h, asset) ==
    IF \E i \in Ids(h) : h[i].asset = asset
    THEN CHOOSE i \in Ids(h) : h[i].asset = asset /\ \A j \in 1 .. i - 1 : h[j].asset # asset
    ELSE Len(h) + 1

\* A new asset must fit the currency limit and must not be empty.
CanAdd(h, asset, amount, limit) ==
    getAssetId(h, asset) \in Ids(h) \/ (Len(h) + 1 <= limit /\ amount > 0)

addAsset(h, asset, amount) ==
    LET id == getAssetId(h, asset)
    IN  IF id \in Ids(h) THEN [h EXCEPT ![id].bal = @ + amount]
        ELSE Append(h, [asset |-> asset, bal |-> amount])

\* mutant: the asset behind the removed one is dropped with it
PopOnly(h, id) == IF id = 1 THEN h ELSE SubSeq(h, 1, Len(h) - 1)

\* Swap-and-pop; the base asset stays even when it is empty.
removeAsset(h, id) ==
    IF id = 1 THEN h ELSE SubSeq([h EXCEPT ![id] = h[Len(h)]], 1, Len(h) - 1)

reduceAsset(h, asset, amount) ==
    LET id   == getAssetId(h, asset)
        less == [h EXCEPT ![id].bal = @ - amount]
    IN  IF less[id].bal = 0 THEN removeAsset(less, id) ELSE less

-----------------------------------------------------------------------------
(* Valuation.                                                              *)

\* oracle.getAmountOut, and findPoolWithHighestLiquidity having found a pool.
Quote(base, asset, amount) == (amount * price[asset]) \div price[base]
Quoted(base, asset) == price[base] # 0 /\ price[asset] # 0

_getEquivalentInBaseAsset(asset, amount, base) ==
    IF asset = base THEN amount ELSE Quote(base, asset, amount)

calculateDebtAmount(pos) ==
    LET interestRate == (pos.initialBalance * pos.interest) \div INTEREST_RATE_PRECISION
    IN  (interestRate * (now - pos.createdAt)) \div INTEREST_PERIOD + pos.initialBalance

\* The oracle answers for every holding that needs a quote.
Priced(pos) ==
    \A i \in 2 .. Len(pos.holdings) :
      Quoted(pos.holdings[1].asset, pos.holdings[i].asset)

_positionValue(pos) ==
    LET h == pos.holdings
        value[i \in Ids(h)] ==
          IF i = 1 THEN h[1].bal
          ELSE value[i - 1] + Quote(h[1].asset, h[i].asset, h[i].bal)
    IN  value[Len(h)]

_maintenanceMarginBps(order) ==
    IF order.marginBps = 0 THEN MAINTENANCE_MARGIN_BPS ELSE order.marginBps

_liquidationThreshold(order, debt) ==
    (debt * (BPS + _maintenanceMarginBps(order)) + BPS - 1) \div BPS

subjectToLiquidation(pos) ==
    _positionValue(pos) <
      _liquidationThreshold(orders[pos.orderId], calculateDebtAmount(pos))

UnderWater(pos) == _positionValue(pos) < calculateDebtAmount(pos)

\* mutant: a position seen above its debt keeps its old mark
MarkKept(pos) ==
    IF UnderWater(pos) /\ pos.underwaterSince = 0
    THEN [pos EXCEPT !.underwaterSince = now] ELSE pos

\* Records when the position is first seen below its debt.
MarkUnderwater(pos) ==
    [pos EXCEPT !.underwaterSince =
       IF ~UnderWater(pos) THEN 0 ELSE IF @ = 0 THEN now ELSE @]

\* Cleared whenever a deposit is seen to bring it above its debt.
ClearIfCovered(pos) ==
    IF UnderWater(pos) THEN pos ELSE [pos EXCEPT !.underwaterSince = 0]

_isLossLiquidator(order, who) == who = order.owner \/ who = order.keeper

\* mutant: the window does not end
WindowStaysOpen(pos) == pos.underwaterSince # 0
InLenderWindow(pos) ==
    pos.underwaterSince # 0 /\ now < pos.underwaterSince + LENDER_WINDOW

MayRealizeAnyway(pos, who) == TRUE   \* mutant
_requireMayRealizeLoss(pos, who) ==
    InLenderWindow(pos) => _isLossLiquidator(orders[pos.orderId], who)

\* The freeze was placed and has not lapsed.
LiveFreeze(pos) == pos.frozenTime > 0 /\ now - pos.frozenTime <= MAX_FREEZE_DURATION

-----------------------------------------------------------------------------
(* Token lists.                                                            *)

InTokenlist(list, asset) ==
    IF list.isContract THEN asset \in autolisted ELSE asset \in list.tokens

_validateAsset(pos, asset) ==
    \/ InTokenlist(orders[pos.orderId].terms.whitelist, asset)
    \/ asset = orders[pos.orderId].terms.baseAsset
    \/ asset = pos.initialCollateral

\* getIdFromTokenlist reverts for a token a static list does not name.
HasIdInTokenlist(list, asset) == list.isContract \/ asset \in list.tokens

-----------------------------------------------------------------------------
(* Moving assets.                                                          *)

Enter(who) == ~_entered /\ _entered' = TRUE /\ caller' = who

\* A guarded call that ends with one payout.
EnterToPay(who) == Enter(who) /\ todo' = <<>> /\ pulling' = <<>> /\ loss' = <<>>

Leave ==
    /\ _entered' = FALSE /\ caller' = NoOne /\ calling' = FALSE
    /\ todo' = <<>> /\ pulling' = <<>> /\ loss' = <<>>

Reachable == _entered => calling

\* A guarded call that hands control to nobody: entered and left in one step.
Guarded == ~_entered /\ UNCHANGED callVars

\* _receiveAsset on a purse (the module's balances and credited deposits): a
\* caller with a deposit of the asset pays from it, anyone else is debited.
CanReceive(purse, who, asset, amount) ==
    /\ asset # ETH
    /\ IF purse.dep[who][asset] > 0 THEN purse.dep[who][asset] >= amount
                                    ELSE purse.held[asset] + amount <= MaxHeld
_receiveAsset(purse, who, asset, amount) ==
    IF purse.dep[who][asset] > 0
    THEN [purse EXCEPT !.dep[who][asset] = @ - amount]
    ELSE [purse EXCEPT !.held[asset] = @ + amount]

\* msg.value, of which nothing beyond what is asked for may be sent.
CanPull(purse, who, asset, amount) ==
    IF asset = ETH THEN purse.held[ETH] + amount <= MaxHeld
    ELSE CanReceive(purse, who, asset, amount)
Pull(purse, who, asset, amount) ==
    IF asset = ETH THEN [purse EXCEPT !.held[ETH] = @ + amount]
    ELSE _receiveAsset(purse, who, asset, amount)

Purse == [held |-> held, dep |-> erc223deposit]
SetPurse(purse) == held' = purse.held /\ erc223deposit' = purse.dep

\* A payout: its receiver runs until Return or Continue.
CanTransfer(balances, asset, amount) == amount <= balances[asset]
_transferOut(balances, asset, amount) ==
    /\ CanTransfer(balances, asset, amount)
    /\ held' = [balances EXCEPT ![asset] = @ - amount]
    /\ calling' = TRUE

-----------------------------------------------------------------------------
(* Orders.                                                                 *)

addTokenlist(list) ==
    /\ Reachable
    /\ tokenlists' = tokenlists \cup {list}
    /\ UNCHANGED <<marketVars, held, erc223deposit, orders, positions, callVars>>

createOrder(who, params) ==
    /\ Reachable
    /\ Len(orders) < MaxOrders
    /\ params.leverage > 1 /\ params.deadline > now
    /\ orders' = Append(orders, [terms |-> params, owner |-> who, balance |-> 0,
                                 alive |-> TRUE, positions |-> 0, shortfall |-> 0,
                                 marginBps |-> 0, keeper |-> NoOne])
    /\ UNCHANGED <<marketVars, held, erc223deposit, tokenlists, positions, callVars>>

\* What the owner of an order does to it without moving assets.
SetOrder(who, o, order) ==
    /\ Reachable
    /\ who = orders[o].owner
    /\ orders' = [orders EXCEPT ![o] = order]
    /\ UNCHANGED <<marketVars, held, erc223deposit, tokenlists, positions, callVars>>

orderSetCollaterals(who, o, assets) ==
    /\ orders[o].positions = 0 /\ assets # {}
    /\ SetOrder(who, o, [orders[o] EXCEPT !.terms.collateralAssets = assets])

\* The keeper may change at any time, the margin only without positions.
orderSetLenderProtection(who, o, bps, keeper) ==
    /\ bps # orders[o].marginBps =>
         /\ orders[o].positions = 0
         /\ bps = 0 \/ bps \in MAINTENANCE_MARGIN_BPS .. MAX_MAINTENANCE_MARGIN_BPS
    /\ SetOrder(who, o, [orders[o] EXCEPT !.marginBps = bps, !.keeper = keeper])

setOrderStatus(who, o, status) ==
    SetOrder(who, o, [orders[o] EXCEPT !.alive = status])

\* mutant: an order can be modified under its open positions
ModifyAnyTime(who, o, params) ==
    SetOrder(who, o, [orders[o] EXCEPT !.terms =
      [params EXCEPT !.baseAsset = orders[o].terms.baseAsset,
                     !.collateralAssets = orders[o].terms.collateralAssets]])

modifyOrder(who, o, params) ==
    /\ orders[o].positions = 0
    /\ SetOrder(who, o, [orders[o] EXCEPT !.terms =
         [params EXCEPT !.baseAsset = orders[o].terms.baseAsset,
                        !.collateralAssets = orders[o].terms.collateralAssets]])

isOrderOpen(o) ==
    /\ orders[o].terms.collateralAssets # {}
    /\ orders[o].terms.deadline > now
    /\ orders[o].alive

Fund(who, o, amount, purse) ==
    /\ Guarded /\ who = orders[o].owner /\ isOrderOpen(o)
    /\ SetPurse(purse)
    /\ orders' = [orders EXCEPT ![o].balance = @ + amount]
    /\ UNCHANGED <<marketVars, tokenlists, positions>>

orderDepositEth(who, o, amount) ==
    /\ orders[o].terms.baseAsset = ETH
    /\ CanPull(Purse, who, ETH, amount)
    /\ Fund(who, o, amount, Pull(Purse, who, ETH, amount))

orderDepositWETH9(who, o, amount) ==
    /\ orders[o].terms.baseAsset = WETH
    /\ held[WETH] + amount <= MaxHeld
    /\ Fund(who, o, amount, [Purse EXCEPT !.held[WETH] = @ + amount])

orderDepositToken(who, o, amount) ==
    /\ CanReceive(Purse, who, orders[o].terms.baseAsset, amount)
    /\ Fund(who, o, amount, _receiveAsset(Purse, who, orders[o].terms.baseAsset, amount))

orderWithdraw(who, o, amount) ==
    /\ EnterToPay(who)
    /\ who = orders[o].owner /\ orders[o].balance >= amount
    /\ orders' = [orders EXCEPT ![o].balance = @ - amount]
    /\ _transferOut(held, orders[o].terms.baseAsset, amount)
    /\ UNCHANGED <<marketVars, erc223deposit, tokenlists, positions>>

-----------------------------------------------------------------------------
(* Loans and positions.                                                    *)

\* The position a loan opens, before anything was paid in.
Loan(who, o, amount, asset, collateral) ==
    [orderId |-> o, owner |-> who,
     holdings |-> addAsset(addAsset(<<>>, orders[o].terms.baseAsset, amount), asset, collateral),
     deadline |-> now + orders[o].terms.duration, createdAt |-> now,
     initialBalance |-> amount, interest |-> orders[o].terms.interestRate,
     open |-> TRUE, frozenTime |-> 0, liquidator |-> NoOne,
     initialCollateral |-> asset, underwaterSince |-> 0]

WithinLeverage(order, amount, equivalent) ==
    equivalent > 0 /\ equivalent + amount <= order.terms.leverage * equivalent

\* Starts to pull what the loan of position p has to pay in.  A token that
\* calls back runs now, unless the payment comes out of a credited deposit.
Pulls(p, asset, amount, reward) ==
    /\ pulling' = [position |-> p, asset |-> asset, amount |-> amount, reward |-> reward]
    /\ calling' = (asset \in Reentrant /\ erc223deposit'[caller'][asset] = 0)

\* The loan opens its position and debits the order before anything is paid.
takeLoan(who, o, amount, asset, collateral) ==
    LET order == orders[o]
        terms == order.terms
        base  == terms.baseAsset
    IN  /\ Enter(who) /\ Len(positions) < MaxPositions
        /\ isOrderOpen(o)
        /\ terms.whitelist \in tokenlists
        /\ terms.whitelist.isContract \/ terms.whitelist.tokens # {}
        /\ asset \in terms.collateralAssets
        /\ terms.minLoan <= amount /\ amount <= order.balance
        /\ asset = base \/ Quoted(base, asset)
        /\ WithinLeverage(order, amount, _getEquivalentInBaseAsset(asset, collateral, base))
        /\ CanAdd(<<>>, base, amount, terms.currencyLimit)
        /\ CanAdd(addAsset(<<>>, base, amount), asset, collateral, terms.currencyLimit)
        /\ positions' = Append(positions, Loan(who, o, amount, asset, collateral))
        /\ orders' = [orders EXCEPT ![o].balance = @ - amount]
        /\ UNCHANGED <<marketVars, held, erc223deposit, tokenlists, todo, loss>>
        /\ Pulls(Len(positions) + 1, asset, collateral, FALSE)

\* The amount moves, and the token returns.
PayIn ==
    /\ CanPull(Purse, caller, pulling.asset, pulling.amount)
    /\ SetPurse(Pull(Purse, caller, pulling.asset, pulling.amount))

\* The collateral is in; the reward is what the order's terms say by now.
PullCollateral ==
    /\ pulling # <<>> /\ ~pulling.reward
    /\ PayIn
    /\ UNCHANGED <<marketVars, tokenlists, orders, positions, _entered, caller, todo, loss>>
    /\ LET terms == OrderOf(pulling.position).terms
       IN  Pulls(pulling.position, terms.rewardAsset, terms.rewardAmount, TRUE)

\* The reward is in, which the module keeps until the position is settled.
\* Only now is the position counted.
PullReward ==
    /\ pulling # <<>> /\ pulling.reward
    /\ PayIn
    /\ ~subjectToLiquidation(positions[pulling.position])
    /\ orders' = [orders EXCEPT ![positions[pulling.position].orderId].positions = @ + 1]
    /\ Leave
    /\ UNCHANGED <<marketVars, tokenlists, positions>>

\* A deposit of anything but the base asset, or into a position marked under
\* water, values the position.
positionDeposit(who, p, asset, amount) ==
    LET pos  == positions[p]
        more == [pos EXCEPT !.holdings = addAsset(@, asset, amount)]
        valued == pos.underwaterSince # 0 \/ asset # pos.holdings[1].asset
    IN  /\ Guarded
        /\ who = pos.owner /\ amount > 0 /\ pos.open
        /\ _validateAsset(pos, asset)
        /\ CanReceive(Purse, who, asset, amount)
        /\ CanAdd(pos.holdings, asset, amount, OrderOf(p).terms.currencyLimit)
        /\ valued => Priced(more)
        /\ positions' = [positions EXCEPT ![p] = IF valued THEN ClearIfCovered(more) ELSE more]
        /\ SetPurse(_receiveAsset(Purse, who, asset, amount))
        /\ UNCHANGED <<marketVars, tokenlists, orders>>

\* What a swap leaves of holdings and balances: `used` of one asset went to
\* the pool, which gives nothing for nothing, and `out` of another came back.
AfterSwap(w, asset1, asset2, used, out) ==
    [h    |-> reduceAsset(addAsset(w.h, asset2, out), asset1, used),
     held |-> [w.held EXCEPT ![asset1] = @ - used, ![asset2] = @ + out]]

\* The owner trades, through marginSwap or marginSwap223 as the pool asks,
\* and must not end up liquidatable.
marginSwap(who, p, i, amount, asset2, slip, short) ==
    LET pos  == positions[p]
        in   == pos.holdings[i]
        used == amount - short
        out  == Quote(asset2, in.asset, used) - slip
        w    == AfterSwap([h |-> pos.holdings, held |-> held], in.asset, asset2, used, out)
        swapped == [pos EXCEPT !.holdings = w.h, !.underwaterSince = 0]
    IN  /\ Guarded
        /\ who = pos.owner /\ pos.open
        /\ asset2 # in.asset /\ Quoted(asset2, in.asset)
        /\ _validateAsset(pos, in.asset) /\ _validateAsset(pos, asset2)
        /\ amount <= in.bal /\ used > 0
        /\ out > 0 /\ held[asset2] + out <= MaxHeld
        /\ CanAdd(pos.holdings, asset2, out, OrderOf(p).terms.currencyLimit)
        /\ Priced(swapped) /\ ~subjectToLiquidation(swapped)
        /\ held' = w.held
        /\ positions' = [positions EXCEPT ![p] = swapped]
        /\ UNCHANGED <<marketVars, erc223deposit, tokenlists, orders>>

-----------------------------------------------------------------------------
(* Forced sales.                                                           *)

\* mutant: any output will do
MeetsAnyFloor(base, asset, amount, out) == out > 0
MeetsFloor(base, asset, amount, out) ==
    out > 0 /\ out >= (Quote(base, asset, amount) * FORCED_SWAP_MIN_OUT_BPS) \div BPS

SaleOut(base, asset, amount, slip, short) == Quote(base, asset, amount - short) - slip

\* _swapToBaseAsset goes through: both tokens have an id in the list, the
\* oracle has a pool, the output meets the floor.
CanSell(pos, asset, amount, slip, short) ==
    LET base == pos.holdings[1].asset
        list == orders[pos.orderId].terms.whitelist
    IN  /\ HasIdInTokenlist(list, asset) /\ HasIdInTokenlist(list, base)
        /\ _validateAsset(pos, asset)
        /\ Quoted(base, asset) /\ short < amount
        /\ MeetsFloor(base, asset, amount, SaleOut(base, asset, amount, slip, short))

_swapToBaseAsset(pos, w, asset, amount, slip, short) ==
    LET base == pos.holdings[1].asset
    IN  AfterSwap(w, asset, base, amount - short, SaleOut(base, asset, amount, slip, short))

\* The walk over the holdings from the end: walk[i] is what they and the
\* module's balances are once the holdings from i on were visited.
SaleWalk(pos, sellAll, slip, short) ==
    LET n    == Len(pos.holdings)
        debt == calculateDebtAmount(pos)
        walk[i \in 2 .. n + 1] ==
          IF i = n + 1 THEN [h |-> pos.holdings, held |-> held]
          ELSE IF /\ sellAll \/ walk[i + 1].h[1].bal < debt
                  /\ walk[i + 1].h[i].bal # 0
               THEN _swapToBaseAsset(pos, walk[i + 1], walk[i + 1].h[i].asset,
                                     walk[i + 1].h[i].bal, slip[i], short[i])
               ELSE walk[i + 1]
    IN  walk

\* Every sale of the walk goes through.
WalkSells(pos, sellAll, slip, short) ==
    LET walk == SaleWalk(pos, sellAll, slip, short)
        debt == calculateDebtAmount(pos)
    IN  \A i \in 2 .. Len(pos.holdings) :
          (sellAll \/ walk[i + 1].h[1].bal < debt) =>
            CanSell(pos, pos.holdings[i].asset, pos.holdings[i].bal, slip[i], short[i])

\* What a walk that goes through may end with, each sale slipping and falling
\* short of its input by some amount.
Sold(pos, sellAll) ==
    LET sales    == 2 .. Len(pos.holdings)
        outcomes == {f \in [sales -> Slips] \X [sales -> Shorts] :
                       WalkSells(pos, sellAll, f[1], f[2])}
    IN  {SaleWalk(pos, sellAll, f[1], f[2])[2] : f \in outcomes}

\* mutant: the order gets the whole base balance
RepaidAll(w, debt) == w.h[1].bal

\* _paybackBaseAsset: what the base asset covers of the debt once the sales
\* are made, and what it does not.
Repaid(w, debt) == IF w.h[1].bal >= debt THEN debt ELSE w.h[1].bal
Shortfall(w, debt) == IF w.h[1].bal >= debt THEN 0 ELSE debt - w.h[1].bal

\* The position a settlement leaves: closed, charged for the debt.
Settled(pos, w, debt) ==
    [pos EXCEPT !.holdings = [w.h EXCEPT ![1].bal = @ - Repaid(w, debt)],
       !.open = FALSE, !.frozenTime = 0, !.liquidator = NoOne]

Released(n) == IF n > 0 THEN n - 1 ELSE 0

\* The order is repaid, the position closed and released before the reward
\* is paid.
_settle(who, p, pos, w) ==
    LET o    == pos.orderId
        debt == calculateDebtAmount(pos)
    IN  /\ Enter(who) /\ pulling' = <<>>
        /\ positions' = [positions EXCEPT ![p] = Settled(pos, w, debt)]
        /\ orders' = [orders EXCEPT ![o].balance = @ + Repaid(w, debt),
                                    ![o].positions = Released(@)]
        /\ _transferOut(w.held, orders[o].terms.rewardAsset, orders[o].terms.rewardAmount)
        /\ UNCHANGED <<marketVars, erc223deposit, tokenlists>>

_requireLiquidatable(p) ==
    positions[p].open /\ Priced(positions[p]) /\ subjectToLiquidation(positions[p])

\* liquidate() of a position with no live freeze places one.
Freeze(who, p) ==
    /\ Guarded
    /\ _requireLiquidatable(p) /\ ~LiveFreeze(positions[p])
    /\ positions' = [positions EXCEPT ![p] =
         [MarkUnderwater(@) EXCEPT !.frozenTime = now, !.liquidator = who]]
    /\ UNCHANGED <<marketVars, held, erc223deposit, tokenlists, orders>>

\* mutant: the sale may follow in the block of the freeze
ReadyAtOnce(pos) == LiveFreeze(pos)
SaleReady(pos) == LiveFreeze(pos) /\ now > pos.frozenTime

\* liquidate() of a position with a live freeze sells all of it.
MayLiquidate(who, p) ==
    LET pos == MarkUnderwater(positions[p])
    IN  /\ _requireLiquidatable(p) /\ SaleReady(pos)
        /\ _requireMayRealizeLoss(pos, who)

Liquidate(who, p) ==
    LET pos == MarkUnderwater(positions[p])
    IN  /\ MayLiquidate(who, p)
        /\ todo' = <<>>
        /\ \E w \in Sold(pos, TRUE) :
             /\ _settle(who, p, pos, w)
             /\ loss' = <<pos.orderId, Shortfall(w, calculateDebtAmount(pos))>>

liquidate(who, p) == Freeze(who, p) \/ Liquidate(who, p)

\* One partial sale by whoever holds the freeze; under water, in the lender's
\* window, the lender or its keeper takes a freeze of somebody else over.
liquidateStep(who, p, i, amount, slip, short) ==
    LET pos   == MarkUnderwater(positions[p])
        takes == /\ InLenderWindow(pos)
                 /\ ~_isLossLiquidator(OrderOf(p), pos.liquidator)
        w     == _swapToBaseAsset(pos, [h |-> pos.holdings, held |-> held],
                                  pos.holdings[i].asset, amount, slip, short)
    IN  /\ Guarded
        /\ _requireLiquidatable(p) /\ SaleReady(pos)
        /\ _requireMayRealizeLoss(pos, who)
        /\ takes \/ who = pos.liquidator
        /\ i > 1 /\ amount <= pos.holdings[i].bal
        /\ CanSell(pos, pos.holdings[i].asset, amount, slip, short)
        /\ held' = w.held
        /\ positions' = [positions EXCEPT ![p] =
             [pos EXCEPT !.holdings = w.h,
                         !.liquidator = IF takes THEN who ELSE @]]
        /\ UNCHANGED <<marketVars, erc223deposit, tokenlists, orders>>

unfreeze(p) ==
    /\ Reachable
    /\ positions[p].open /\ positions[p].frozenTime > 0
    /\ Priced(positions[p]) /\ ~subjectToLiquidation(positions[p])
    /\ positions' = [positions EXCEPT ![p].frozenTime = 0, ![p].liquidator = NoOne,
                                      ![p].underwaterSince = 0]
    /\ UNCHANGED <<marketVars, held, erc223deposit, tokenlists, orders, callVars>>

\* mutant: a freeze blocks closing
ClosableUnfrozen(pos) == ~subjectToLiquidation(pos) /\ pos.frozenTime = 0
Closable(pos) == ~subjectToLiquidation(pos)

\* The owner at any time, the lender after the deadline.
MayClose(who, p) ==
    LET pos == positions[p]
    IN  /\ pos.open
        /\ who = pos.owner \/ (pos.deadline <= now /\ who = OrderOf(p).owner)
        /\ Priced(pos) /\ Closable(pos)

\* Only what the debt needs is sold, and the debt must be covered.
positionClose(who, p, autoWithdraw) ==
    LET pos == positions[p]
    IN  /\ MayClose(who, p)
        /\ \E w \in Sold(pos, FALSE) :
             /\ w.h[1].bal >= calculateDebtAmount(pos)
             /\ _settle(who, p, pos, w)
             /\ todo' = IF autoWithdraw THEN <<p, Len(w.h)>> ELSE <<>>
             /\ loss' = <<>>

\* Pays out holding i of a closed position in full.
PayHolding(p, i) ==
    LET holding == positions[p].holdings[i]
    IN  /\ positions' = [positions EXCEPT ![p].holdings =
                           reduceAsset(@, holding.asset, holding.bal)]
        /\ _transferOut(held, holding.asset, holding.bal)
        /\ UNCHANGED <<marketVars, erc223deposit, tokenlists, orders>>

positionWithdraw(who, p, i) ==
    /\ EnterToPay(who)
    /\ who = positions[p].owner /\ ~positions[p].open
    /\ positions[p].holdings[i].bal > 0
    /\ PayHolding(p, i)

-----------------------------------------------------------------------------
(* The call in progress.                                                   *)

\* The indices the autoWithdraw walk has still to pay.
Unpaid ==
    IF todo = <<>> THEN {}
    ELSE {i \in 1 .. todo[2] : positions[todo[1]].holdings[i].bal > 0}

Continue ==
    /\ _entered
    /\ \E i \in Unpaid :
         /\ \A j \in Unpaid : j <= i
         /\ todo' = <<todo[1], i - 1>>
         /\ PayHolding(todo[1], i)
    /\ UNCHANGED <<_entered, caller, pulling, loss>>

\* The last payout returned: a liquidation books its loss, the call ends.
Return ==
    /\ _entered /\ pulling = <<>> /\ Unpaid = {}
    /\ orders' = IF loss = <<>> THEN orders
                 ELSE [orders EXCEPT ![loss[1]].shortfall = @ + loss[2]]
    /\ Leave
    /\ UNCHANGED <<marketVars, held, erc223deposit, tokenlists, positions>>

-----------------------------------------------------------------------------
(* ERC-223 deposits.                                                       *)

\* Credited unless the module is inside a guarded call of its own.
Credit(user, token, amount) ==
    erc223deposit' = IF _entered THEN erc223deposit
                     ELSE [erc223deposit EXCEPT ![user][token] = @ + amount]

\* A hooked transfer of a user to the module.
tokenReceived(user, token, amount) ==
    /\ Reachable
    /\ held[token] + amount <= MaxHeld
    /\ held' = [held EXCEPT ![token] = @ + amount]
    /\ Credit(user, token, amount)
    /\ UNCHANGED <<marketVars, tokenlists, orders, positions, callVars>>

withdraw223(who, asset) ==
    /\ EnterToPay(who)
    /\ erc223deposit[who][asset] > 0
    /\ erc223deposit' = [erc223deposit EXCEPT ![who][asset] = 0]
    /\ _transferOut(held, asset, erc223deposit[who][asset])
    /\ UNCHANGED <<marketVars, tokenlists, orders, positions>>

-----------------------------------------------------------------------------
(* The environment.                                                        *)

PriceMoves(asset, quote) ==
    /\ ~_entered
    /\ price' = [price EXCEPT ![asset] = quote]
    /\ UNCHANGED <<now, autolisted, held, erc223deposit, tokenlists, orders,
                   positions, callVars>>

\* The auto-listing contract lists or removes a token.
AutoListing(asset) ==
    /\ ~_entered
    /\ autolisted' = IF asset \in autolisted THEN autolisted \ {asset}
                     ELSE autolisted \cup {asset}
    /\ UNCHANGED <<now, price, held, erc223deposit, tokenlists, orders,
                   positions, callVars>>

Tick ==
    /\ ~_entered /\ now < MaxTime
    /\ now' = now + 1
    /\ UNCHANGED <<price, autolisted, held, erc223deposit, tokenlists, orders,
                   positions, callVars>>

Init ==
    /\ now = 1
    /\ held = [t \in Tokens |-> 0]
    /\ erc223deposit = [u \in Users |-> [t \in Tokens |-> 0]]
    /\ tokenlists = {} /\ autolisted = {}
    /\ price = InitialPrices
    /\ orders = <<>> /\ positions = <<>>
    /\ _entered = FALSE /\ caller = NoOne /\ calling = FALSE
    /\ todo = <<>> /\ pulling = <<>> /\ loss = <<>>

\* The owner is Reneging, or no loan on the order is being taken.
KeepsTerms(who, o) ==
    pulling # <<>> /\ positions[pulling.position].orderId = o => who \in Reneging

OrderStep(who) ==
    \/ \E params \in OrderChoices : createOrder(who, params)
    \/ \E o \in Ids(orders) :
         \/ \E assets \in CollateralLists : orderSetCollaterals(who, o, assets)
         \/ \E bps \in MarginChoices, keeper \in Users \cup {NoOne} :
              orderSetLenderProtection(who, o, bps, keeper)
         \/ \E status \in StatusChoices : setOrderStatus(who, o, status)
         \/ KeepsTerms(who, o) /\ \E params \in OrderChoices : modifyOrder(who, o, params)
         \/ \E amount \in FundAmounts :
              \/ orderDepositEth(who, o, amount)
              \/ orderDepositWETH9(who, o, amount)
              \/ orderDepositToken(who, o, amount)
              \/ orderWithdraw(who, o, amount)
         \/ \E amount \in LoanAmounts, asset \in Tokens, collateral \in CollateralAmounts :
              takeLoan(who, o, amount, asset, collateral)

PositionStep(who) ==
    \E p \in Ids(positions) :
      \/ \E asset \in Tokens, amount \in TopUps : positionDeposit(who, p, asset, amount)
      \/ \E i \in Ids(positions[p].holdings) :
           \/ \E amount \in SwapAmounts, slip \in Slips, short \in Shorts :
                \/ \E asset2 \in Tokens :
                     marginSwap(who, p, i, amount, asset2, slip, short)
                \/ liquidateStep(who, p, i, amount, slip, short)
           \/ positionWithdraw(who, p, i)
      \/ liquidate(who, p)
      \/ \E autoWithdraw \in BOOLEAN : positionClose(who, p, autoWithdraw)

Environment ==
    \/ \E list \in Whitelists : addTokenlist(list)
    \/ \E asset \in Tokens : \E quote \in Prices[asset] : PriceMoves(asset, quote)
    \/ \E asset \in {t \in Tokens : \E list \in Whitelists :
                       list.isContract /\ t \in list.tokens} : AutoListing(asset)
    \/ Tick

Next ==
    \/ \E who \in Users :
         \/ OrderStep(who)
         \/ PositionStep(who)
         \/ \E token \in Erc223 :
              \/ \E amount \in TopUps : tokenReceived(who, token, amount)
              \/ withdraw223(who, token)
    \/ \E p \in Ids(positions) : unfreeze(p)
    \/ PullCollateral
    \/ PullReward
    \/ Continue
    \/ Return
    \/ Environment

Spec == Init /\ [][Next]_vars

-----------------------------------------------------------------------------
(* Properties.                                                             *)

OpenPositions(o) == {p \in Ids(positions) : positions[p].open /\ positions[p].orderId = o}

\* All the module owes of a token: unlent order balances, what positions
\* hold, the rewards of open positions, credited deposits.
Owed(t) ==
    LET ofOrder(o) ==
          (IF orders[o].terms.baseAsset = t THEN orders[o].balance ELSE 0)
          + (IF orders[o].terms.rewardAsset = t
             THEN orders[o].terms.rewardAmount * Cardinality(OpenPositions(o)) ELSE 0)
        ofHolding(h) == IF h.asset = t THEN h.bal ELSE 0
        ofPosition(p) == SumFunction([i \in Ids(positions[p].holdings) |->
                           ofHolding(positions[p].holdings[i])])
    IN  SumFunction([o \in Ids(orders) |-> ofOrder(o)])
        + SumFunction([p \in Ids(positions) |-> ofPosition(p)])
        + SumFunction([u \in Users |-> erc223deposit[u][t]])

\* What the loan being taken has still to pay in.
Awaited(t) ==
    IF pulling = <<>> THEN 0
    ELSE LET terms == OrderOf(pulling.position).terms
         IN  (IF pulling.asset = t THEN pulling.amount ELSE 0)
             + (IF ~pulling.reward /\ terms.rewardAsset = t THEN terms.rewardAmount ELSE 0)

\* Orders, positions, rewards and deposits share one balance per token, and
\* together they never exceed it, in no window inside a payout or a pull
\* either: each payout, repayment and reward is charged exactly once, to its
\* own account.  It takes owners who leave the terms of an order alone while a
\* loan on it is being taken (Reneging = {}): nothing in the code makes them.
Solvent == \A t \in Tokens : held[t] + Awaited(t) >= Owed(t)

\* However a position was traded, sold and paid out: the base asset is first,
\* no asset occurs twice, no other slot is empty, and, of owners who keep
\* their terms while a loan is taken, the currency limit that bounds every
\* walk over it holds.
HoldingsSound ==
    \A p \in Ids(positions) :
      LET h == positions[p].holdings
      IN  /\ h # <<>> /\ h[1].asset = BaseOf(p)
          /\ \A i, j \in Ids(h) : h[i].asset = h[j].asset => i = j
          /\ \A i \in 2 .. Len(h) : h[i].bal > 0
          /\ positions[p].open /\ Reneging = {} =>
               Len(h) <= OrderOf(p).terms.currencyLimit

\* Amount of a token a position holds.
Holds(pos, t) ==
    SumFunction([i \in Ids(pos.holdings) |->
      IF pos.holdings[i].asset = t THEN pos.holdings[i].bal ELSE 0])

\* Assets of an open position leave it, by whatever call, only so: its owner
\* trades and it ends healthy; it is closed while it is healthy; or it was
\* frozen at an earlier second, at most MAX_FREEZE_DURATION ago, and is
\* liquidatable when it is sold.
NoSaleWithoutNotice ==
    [][\A p \in Ids(positions) :
         /\ positions[p].open /\ positions'[p] # positions[p]
         /\ \/ ~positions'[p].open
            \/ \E t \in Tokens : Holds(positions'[p], t) < Holds(positions[p], t)
         => \/ ~subjectToLiquidation(positions[p]) /\ ~positions'[p].open
            \/ ~subjectToLiquidation(positions'[p]) /\ positions'[p].open
            \/ /\ subjectToLiquidation(positions[p])
               /\ positions[p].frozenTime \in 1 .. now - 1
               /\ now - positions[p].frozenTime <= MAX_FREEZE_DURATION
      ]_vars

\* A call that sells holdings of p that are worth less than its debt.
SellsAtLoss(p) ==
    /\ positions[p].open /\ positions'[p] # positions[p]
    /\ UnderWater(positions[p])
    /\ \/ ~positions'[p].open
       \/ /\ subjectToLiquidation(positions'[p])
          /\ \E t \in Tokens : Holds(positions'[p], t) < Holds(positions[p], t)

\* "For this long after that is first seen, only the lender (or the keeper it
\* names) may complete the liquidation": nobody else realizes the lender's
\* loss, whole or in steps, before the position has been marked for
\* LENDER_WINDOW.
LossWaitsForLender ==
    [][\A p \in Ids(positions) : SellsAtLoss(p) =>
         LET seller == IF positions'[p].open THEN positions'[p].liquidator ELSE caller'
         IN  \/ seller = OrderOf(p).owner \/ seller = OrderOf(p).keeper
             \/ /\ positions[p].underwaterSince # 0
                /\ now >= positions[p].underwaterSince + LENDER_WINDOW
      ]_vars

\* The mark that window runs from is never stale: a call that touches an open
\* position and finds it covered leaves no mark; one that leaves a mark on a
\* covered position sold holdings of one it found under water; a mark is set
\* only to the present, and never moved while the position stays under water.
MarkIsFresh ==
    [][\A p \in Ids(positions) :
         LET mark == positions[p].underwaterSince
             next == positions'[p].underwaterSince
         IN  positions'[p] # positions[p] /\ positions'[p].open =>
               /\ ~UnderWater(positions[p]) => next = 0
               /\ ~UnderWater(positions'[p]) /\ next # 0 =>
                    \E t \in Tokens : Holds(positions'[p], t) < Holds(positions[p], t)
               /\ next \in {0, now, mark}
               /\ mark # 0 /\ UnderWater(positions[p]) /\ UnderWater(positions'[p]) =>
                    next = mark
      ]_vars

\* The losses of an order, with the one a liquidation has still to book.
Lost(o) ==
    orders[o].shortfall + (IF loss # <<>> /\ loss[1] = o THEN loss[2] ELSE 0)

Closes(p, o) ==
    positions[p].orderId = o /\ positions[p].open /\ ~positions'[p].open

\* A closed position has paid its debt once: the order got principal and
\* interest, or what the position's base asset came to, and the rest of the
\* debt becomes a loss of the order.  The loss is booked when the reward's
\* receiver has returned, whatever it called, and nothing else is ever lost.
DebtSettledOnce ==
    [][/\ \A o \in Ids(orders), p \in Ids(positions) : Closes(p, o) =>
            (orders'[o].balance - orders[o].balance) + (Lost(o)' - Lost(o))
            = calculateDebtAmount(positions[p])
       /\ \A o \in Ids(orders) : Lost(o)' # Lost(o) => \E p \in Ids(positions) : Closes(p, o)
       /\ loss' # <<>> => _entered'
      ]_vars

\* "Every non-base holding is sold; whatever the sale does not recover is the
\* lender's loss": a loss is left only when the position keeps nothing.
LossLeavesNothing ==
    [][\A o \in Ids(orders), p \in Ids(positions) :
         Closes(p, o) /\ Lost(o)' > Lost(o) =>
           positions'[p].holdings = <<[asset |-> BaseOf(p), bal |-> 0]>>
      ]_vars

\* What a liquidation loses the lender is bounded by the buffer and the floor
\* together: it leaves a loss only if the debt was not covered by the holdings
\* with every sale at FORCED_SWAP_MIN_OUT_BPS of the oracle's quote.
LossWithinFloor ==
    [][\A o \in Ids(orders), p \in Ids(positions) :
         LET h == positions[p].holdings
             floorOf(i) == (Quote(BaseOf(p), h[i].asset, h[i].bal)
                             * FORCED_SWAP_MIN_OUT_BPS) \div BPS
         IN  Closes(p, o) /\ Lost(o)' > Lost(o) =>
               h[1].bal + SumFunction([i \in 2 .. Len(h) |-> floorOf(i)])
                 < calculateDebtAmount(positions[p])
      ]_vars

\* A forced sale accepts every holding: the order's list names it and the base
\* asset, it was not removed from an auto-list, and it is worth something.
Sellable(pos) ==
    LET h    == pos.holdings
        list == orders[pos.orderId].terms.whitelist
    IN  \A i \in 2 .. Len(h) :
          /\ HasIdInTokenlist(list, h[i].asset) /\ HasIdInTokenlist(list, h[1].asset)
          /\ _validateAsset(pos, h[i].asset)
          /\ Quote(h[1].asset, h[i].asset, h[i].bal) > 0

RewardPayable(pos, w) ==
    LET terms == orders[pos.orderId].terms
    IN  CanTransfer(w.held, terms.rewardAsset, terms.rewardAmount)

\* "afterwards anyone may, so a position cannot stay frozen if the lender is
\* away": once a position has been marked for LENDER_WINDOW the call is open to
\* every account, and where a sale accepts the holdings there are sales after
\* which the reward can be paid, so it goes through.
AnyoneMayAfterWindow ==
    \A p \in Ids(positions) :
      /\ ~_entered /\ _requireLiquidatable(p) /\ SaleReady(positions[p])
      /\ positions[p].underwaterSince # 0
      /\ now >= positions[p].underwaterSince + LENDER_WINDOW
      => /\ \A who \in Users : MayLiquidate(who, p)
         /\ Sellable(positions[p]) =>
              \E w \in Sold(MarkUnderwater(positions[p]), TRUE) :
                RewardPayable(positions[p], w)

\* A position that recovered can be closed by its owner, frozen or not: where a
\* sale accepts its holdings there are sales that cover the debt and leave the
\* reward to be paid.
RecoveredCanBeClosed ==
    \A p \in Ids(positions) :
      /\ ~_entered /\ positions[p].open
      /\ Priced(positions[p]) /\ ~subjectToLiquidation(positions[p])
      => /\ MayClose(positions[p].owner, p)
         /\ Sellable(positions[p]) =>
              \E w \in Sold(positions[p], FALSE) :
                /\ w.h[1].bal >= calculateDebtAmount(positions[p])
                /\ RewardPayable(positions[p], w)

=============================================================================
