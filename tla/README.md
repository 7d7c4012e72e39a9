# A TLA+ model of the Dex223 contracts

Dex223 is a Uniswap V3 style exchange whose pools hold every token in two
versions, ERC-20 and ERC-223.  Around the pools stand a router and a position
manager, a converter between the token versions, a margin module that lends
against collateral and liquidates, an auto-listing registry, and a contract
that streams the protocol's fees to stakers.  Scripts deploy all this on fifteen
chains, and keepers move the fees every day.  This directory holds TLA+ modules of
the contracts that keep ledgers of other people's tokens and of the processes around
them, TLC configurations that check them on small instances, and proofs for every
instance.

Files: `X.tla` models a contract or a process, `MCX.tla` holds the definitions that give its
constants small values, `*.cfg` are the TLC runs, `XProofs.tla` the TLAPS proofs.
`PROJECT.json` maps every definition to the source lines it stands for and lists
the runs, the mutants each property must catch, the hazards and the theorems.

    tlc -config RevenuePrincipal.cfg MCRevenueV2Notice.tla
    tlapm RevenueV2Proofs.tla

## 1. Inventory

| Component | State | Operations | Interacts with |
|---|---|---|---|
| `RevenueV2` | stakes per version, unlock times, ERC-223 deposits, `reward_data` per token, owed rewards, lock schedule, owner, `locked` | stake, withdraw(_all), emergency_withdraw, claim, sync, sweep, listing, lock schedule, two-step ownership, `tokenReceived` | fees arrive as plain transfers from `ProtocolFeeCollector`; reward tokens and the ERC-223 staking token call out on a payout |
| `Dex223MarginModule` | orders with status and lender protection, positions with their holdings, token lists, ERC-223 deposits, `_entered` | orders, loans, deposits, margin swaps, freeze and sale, stepwise sale, close, withdraw, `tokenReceived`, `multicall` | oracle (TWAP), router and pools for swaps, auto-listing `isListed` |
| `Dex223Pool`/`PoolLib` | slot0 with the lock, ticks, positions, observations, protocol fees, `erc223deposit`, `swap_sender`, one-shot permit | initialize, mint, burn, collect, swap (`flash` is commented out), `tokenReceived` with dispatch, protocol fees | converter (delivery of the other version), callbacks into router and position manager |
| `SwapRouter`, `PeripheryPayments` | lock, one-shot permit, deposits per user and in total | exact input/output, single and multi-hop, `tokenReceived` with dispatch, withdraw, unwrap, refund | pool callbacks, WETH9, the users' hooks |
| `NonfungiblePositionManager` | NFTs with liquidity and fees owed | mint, increase, decrease, collect, burn | pool mint callback, payments |
| `TokenStandardConverter` | wrappers by origin and origins by wrapper, `erc20Supply` | create wrappers, wrap, unwrap, `convertERC20`, `tokenReceived`, extraction of stuck tokens | wrapper tokens; pools and SafeSendRouter call it |
| `SafeSendRouter`, `PaymentReceiver` | expected origin; credits per token, owner, pending owner, payout account, accepted tokens | wrapAndSend; withdraw, withdrawAll, rescue, ownership, acceptance list | converter; receivers' hooks |
| Auto-listing, registry | listed pairs and tokens, prices of a listing, owner | list, listFree, prices, ownership | factory and pools; read by the margin module |
| `ProtocolFeeCollector` | default fee, pools set by hand, receiver | collect, enableFees, default and pool fees | owns the factory; pools; pays to RevenueV2 |
| `Dex223Factory`, deployer, validator | pool table by the versions of two tokens, fee tiers | createPool, setOwner, enableFeeAmount | converter, introspection, pool |
| `Dex223Oracle` | none (reads pools) | getAmountOut, findPoolWithHighestLiquidity | observations of pools |
| Fee keepers (Lambda and script) | none between runs | list pools, read them, enable, collect, sync | collector, RevenueV2, nodes, explorer |
| Planned-nonce scripts (`deploy-v3`, `-chain`, `-mainnet`, `-mainnet-v2`, `handover-to-multisig`, `upgrade-pool-lib-mainnet`) | state file: start nonce, step by step what is done | send each step at its nonce, wait, check | mempool, nodes, other uses of the key |
| Recorded scripts (`deploy-sepolia-v3`, `-v2`, periphery, margin, revenue, collector, seed, verify, ...) | state file: addresses, arguments, pool hash | deploy or reuse, configure, compare, verify | nodes, explorer, the operator, each other's files |
| Libraries | observation ring, ticks, bitmap, positions | pure functions of pool storage | pool |

`PROJECT.json` lists also what is left aside: superseded revenue contracts,
token and test contracts, lenses, the migrator, NFT descriptors, rehearsals.

**What is hard here.** In the contracts nothing runs in parallel, but calls nest: a payout in an
ERC-223 token, in Ether or in an arbitrary reward token runs code of the
receiver, which can enter every function that has no `nonReentrant` guard and
watches storage half updated.  Fees stream over time and are rounded at three
places.  Liquidation runs over several blocks, with windows and freezes that
lapse, and several parties racing.  One pooled balance per token backs several
ledgers.  Arrays are walked while payouts swap-and-pop them.  Off the chain
everything is concurrent: a process dies between a transaction and its record, a
receipt is undone by a reorganisation, one node does not know what another one
said, the mempool forgets, pools are created between a read and the transaction it
led to.  The list of
hazards, each at its line with the properties that would catch it, is in
`PROJECT.json`.

**What makes each component correct.**

* RevenueV2: principal is held in its own version, leaves only unlocked and to
  its owner; rewards promised are covered by rewards taken in; an exit or a
  claim can never revert for lack of accounting; earnings change with time only;
  the lock cannot be raised in front of a stake.
* MarginModule: the pooled balances cover orders, positions, rewards and deposits;
  a healthy position is never sold against its owner's will; a loss in the
  lender's window is the lender's decision; a sale is always possible afterwards;
  a debt is settled once; holdings stay well formed.
* Pool: what it holds in both versions of a token covers what it owes; nothing
  enters the locked pool except the one dispatched call of a deposit; a deposit
  is spent or refunded once.
* Router, payments: a deposit pays only for its depositor and stays backed; nothing is
  left of a call when it is over.
* Position manager: fees of a position are settled before its liquidity changes.
* Converter: every wrapper is redeemable; supply and reserves agree.
* PaymentReceiver: credits are backed by what is held and can always be withdrawn.
* Auto-listing: `isListed` agrees with the listed pairs; payment is taken once.
* Fee collector and keepers: a failing pool, network or transaction holds up nobody
  else's fees; a run that reports success did its work; fees end up streaming.
* Deployment: every contract comes out where its address was announced, with the
  libraries and addresses it refers to; success is announced over a whole deployment;
  a script that is run again gets through, and deploys nothing twice.
* Oracle and libraries: agree with their reference definitions.

## 2. RevenueV2

`RevenueV2.tla` has one variable per storage variable (same names), `balance`
(`balanceOf(this)` per token), `now`, and the call frame: `locked` is the
`nonReentrant` flag, `open` says that an external token call of a guarded
function is in progress, `todo` lists the payouts that function has still to
make.  A function that pays out is split at the token call: its action ends with
`open`; the functions without `nonReentrant` can then be taken; `Continue` makes
the next payout (for `claim`: takes in revenue, accrues and settles the next
token of the list, exactly as the loop does after foreign code ran) and `Return`
ends the call.  A call that reverts is not a step.

| Code | Action |
|---|---|
| `stake`, `withdraw`, `withdraw_all`, `emergency_withdraw` | same names; `withdraw_all` and `emergency_withdraw` leave the second version in `todo` |
| `claim`, `sync`, `syncAll`, `sweep`, `withdrawDeposit` | same names |
| `tokenReceived` | a user's ERC-223 transfer, credited unless `locked` |
| listing and removal of reward tokens, `set_claim_delay`, ownership | same names |
| plain transfers, token whose `balanceOf` fails, block time | environment: `Arrive`, an intake that is skipped, `Tick` |

Abstractions: `STREAM_SCALE` and `RPT_SCALE` are parameters (1e18 in the code; 2
to 4 in the runs, so that rounding happens at every step); `staking_timestamp`
is only read by views and is left out; token transfers move exact amounts.
`RevenueV2Notice.tla` adds one history variable, the lock that was public at
the end of each second.

| Run | What it checks |
|---|---|
| `revenue_principal` | two stakers, both versions, deposits, re-entry in every payout, schedules of the lock: `PrincipalBacked`, `EveryoneCanExit` (no check of an unlocked exit, of a deposit's return or of a payout that began can fail), `PrincipalLeavesUnlocked`, `LockWasAnnounced` |
| `revenue_rewards` | two stakers, one reward token, revenue, streams that are folded, restarted and left idle, claims that name a token twice, ownership: `RewardsBacked`, `RewardSolvency` (promises exceed revenue by at most one scaled unit a second), `EveryoneCanClaim`, `EarningsFollowTime` |

`RewardSolvency` has a slack on purpose.  RevenueV2.sol:41 says that everything
credited is rounded down; the carry of `_accrue` (line 493) is the stream minus a
rounded-down share, hence rounded up.  The excess is less than one scaled unit
(1e-18 of a token unit) per accrual, and the truncation at settlement absorbs it:
`EveryoneCanClaim` and `RewardsBacked` hold without slack.

Bounds: `MaxBalance` (4 and 3) and `MaxTime` (3) cap what the contract may hold and the clock.  In
`revenue_principal` stakes are 1 and 2 with `min_stake` 2, so that a first stake and a later addition
differ, and a surplus arrives in the ERC-223 version only; the lock is 0, 2 or 3 with a notice of 1, so
that it is raised, lowered and raised again inside the lock of a stake.  It lists no reward token, so
what `EveryoneCanExit` says of the checkpoint of rewards in an exit rests on its theorem and on
`EveryoneCanClaim` of the other run.  In `revenue_rewards` two stakers with stakes of 1 and 2 and revenue
of 2 make every split of a stream uneven, `reward_duration` of 2 with scales 4 and 2 makes each of the
three floors lose something, and the clock reaches past the end of a stream and a restart; ownership is
offered to and taken by the owner himself, which is enough for its two steps.  Users are interchangeable
(symmetry); the temporal properties of these runs are action properties, for which it is sound.

**Proofs** (`RevenueV2Proofs.tla`), for any tokens, any amounts, any scales and any finite
set of users, from the assumptions stated in `RevenueV2.tla` (positive
scales, `reward_duration <= STREAM_SCALE`; the staking versions differ and are
no reward tokens; amounts are naturals; the notice of a new lock is positive).

* `TypeCorrect`: `[]TypeOK`.  Since counters range over `Nat`, this says that no
  checked subtraction underflows.
* `PrincipalIsBacked`, `RewardsAreBacked`: `[]PrincipalBacked`, `[]RewardsBacked`.
* `PrincipalOnlyUnlocked`: the action property `PrincipalLeavesUnlocked`.
* `LockAnnounced`: `NoticeSpec => LockWasAnnounced`.
* `RewardsAreSolvent`: `[]RewardSolvency`, and `EarningsOnlyFollowTime`: the action property
  `EarningsFollowTime`.

None of them is inductive alone.  The invariant is

    IInv == /\ TypeOK /\ PrincipalBacked /\ RewardsBacked
            /\ UnlistedOwesNothing /\ PayoutsDue /\ ClaimsInRewards /\ NothingLeftIdle

`PayoutsDue` is why a call that was interrupted can be completed: while a
`withdraw_all` is between its two payouts, the debit has been made and the second
payout is a list entry whose tokens are still held but counted in no ledger.
`UnlistedOwesNothing` lets a token be listed afresh, `ClaimsInRewards` bounds the
rest of a claim's walk, `NothingLeftIdle` ties `todo` to the lock.  There is one lemma per
action, and under it one step per conjunct the action can disturb; lemmas about
`TakeIn`, `_accrue` and `_startStream` (what each keeps and bounds) stand first.

`LockAnnounced` needs to know more than that the lock in force was public: that it was in
every second of the notice period that ends now, and that a scheduled one has been public ever
since it was scheduled (`NoticeInv`).  The hard step is a second schedule: by then the first one may be in force
already without having been folded into `claim_delay_current`.

`RewardSolvency` rests on `Ledger`: the stakes add up to `total_staked`, and every record is
`Covered`.  The bound has to grow with `last_update` and not with `now`, or two accruals in one
second could both use a second's slack; and no user was paid for more than the accumulator
shows, or a settlement could pay a negative share.  For one accrual the proof bounds the sum of
all users' new shares by the accumulator's growth times the stake they add up to.
For `EarningsOnlyFollowTime` the view `earned` is shown to be what a settlement in this second would
credit (`EarnedIs`), and a settled record to show all of it (`EarnedSettled`); then there is one
lemma per action on what the user sees before and after it.

Sums over users, here and in the other proofs, are folds (`SumFunctionOnSet`).  `SumLemmas.tla` proves of
them what the proofs need: that the fold exists and is unique, the sum of a function
that was changed at one point, order, linearity, the sum over a sequence with an element
left out or added.  The library's induction rules take an operator as a parameter, which no
backend can instantiate; each fact is proved by a smallest set that violates it
(`MinimalSubset`, from the well-founded order of finite subsets).

That nobody is kept in is stated over the checks and checked subtractions of the functions (`CanLeave`,
`CanCheckpoint`, `CanPayStake`, `CanClaimOne`), which the actions use as their guards, and proved from
`Ledger` and `Exits`: the parts staked in a version add up to its total and the deposits to theirs, a
stake payout still to come is the last one of its call and its part is still there, and the tokens a
claim has yet to pay are listed.  A part is then within its total, and the total is held
(`PrincipalBacked`).  For a claim the amount is one user's share of what `Covered` bounds; the other shares
are not negative, so it exceeds the accounted reward by less than the slack, which is below a whole
token unit as long as fewer than `STREAM_SCALE` (1e18) seconds have passed: that is the hypothesis
`MaxTime < STREAM_SCALE` of both theorems (the runs have 3 and 4).

## 3. MarginModule

`MarginModule.tla` keeps `orders`, `positions`, `tokenlists`, `erc223deposit`
and `_entered` as in the code, with three joins: an order's status and lender
protection are fields of the order, the arrays `assets` and `balances` of a
position are one sequence of holdings (the base asset first), and a token list
stands for its hash.  `held` is what the module holds of each token, pooled over
all accounts.  As in RevenueV2 a payout (`calling`) lets unguarded functions
in; `Continue` is the walk of `autoWithdraw` in `positionClose`, from the last
holding to the first over an array each payout reorders.  `loss` is the shortfall of a full sale,
which the code writes to the order only when the liquidator's reward has been paid: `Return` books it
after whatever the reward's receiver called.

`takeLoan` pulls the collateral and then the reward, and a token may run code of anybody's when it is
pulled.  The call opens the position and debits the order before (`takeLoan`) and counts the
position after (`PullReward`), so each pull is a step, and a window if its token is
in `Reentrant` and the payment does not come out of a credited deposit.  The other calls that pull
are one step each: what they still write afterwards commutes with what the open functions can do.

| Code | Action |
|---|---|
| `createOrder`, `modifyOrder`, `orderSetCollaterals`, `orderSetLenderProtection`, `setOrderStatus`, `orderDeposit*`, `orderWithdraw` | same names |
| `takeLoan` | `takeLoan`, `PullCollateral`, `PullReward` |
| `positionDeposit`, `positionWithdraw`, `marginSwap`/`marginSwap223` | same names, the two swaps as one |
| `liquidate` | `Freeze` (no live freeze) or `Liquidate` (sale of everything, `_settle`, reward), `Return` (the loss is booked) |
| `liquidateStep`, `unfreeze`, `positionClose`, `withdraw223`, `tokenReceived`, `addTokenlist` | same names |
| `multicall` | a sequence of these actions |
| oracle, auto-listing, block time | environment: `PriceMoves`, `AutoListing`, `Tick` |

The sale of a liquidation is one walk, `SaleWalk`, as a recursive function over
the holdings from the end; the outcome of each swap is chosen from `Slips` (how
far it ends below the oracle's quote, or above it: the quote is a time-weighted average and only a floor
to the pool's price) and `Shorts` (how much input the pool leaves
unfilled), subject to the floor `FORCED_SWAP_MIN_OUT_BPS`.  The oracle is one
quote per token; a quote of 0 stands for no pool.  A pull moves the exact amount.

Because a step of a sale may end above the quote, it can leave a position covered whose mark stands
(the code looks at the mark before the sale, not after it).  `MarkIsFresh` says what remains true: a call that
finds a position covered leaves no mark, and a mark on a covered position was left by a sale out of
one that was under water.

`Reneging` is who modifies an order while a loan on it is being taken.  `modifyOrder` has no
guard and asks only that no position is counted (Dex223MarginModule.sol:495), which during the
pulls of the first loan is so.  The sources tell lenders and borrowers that tokens are untrusted (119-121,
739-744), so this can happen, and with `Reneging = {lender}` and otherwise the constants of `margin_custody`
TLC refutes `Solvent` in seven states:

1. The lender creates an order in Ether with Ether as collateral and a reward of 1 WETH (a token that
   calls back), funds it with 2 Ether, and its list is added.
2. The borrower takes a loan of 2 Ether.  Its 2 Ether of collateral are pulled, 4 are held, and the pull of the
   WETH reward runs the token's code.
3. In it the lender modifies the order: the reward is 1 Ether now.  The pull goes on and brings WETH.
4. The module holds 4 Ether and owes 5 of them, 4 to the position and 1 to whoever settles it.

The runs and the theorems about solvency and about rewards assume `Reneging = {}`: what they show is true of
lenders who leave the terms of an order alone while somebody is borrowing.  The currency limit of
`HoldingsSound` has the same condition, the rest of it has none.

| Run | What it checks |
|---|---|
| `margin_loss` | one loan with interest, a keeper that may change at any time, prices that fall and recover, swaps that slip and fall short, steps and full sales, freezes that lapse, windows that end (337,034 states): `NoSaleWithoutNotice`, `LossWaitsForLender`, `MarkIsFresh`, `DebtSettledOnce`, `LossWithinFloor`, `AnyoneMayAfterWindow`, `RecoveredCanBeClosed` |
| `margin_custody` | two positions on one order in WETH or Ether, terms changed between loans, trades, deposits in an ERC-223 token, auto-listing, receivers that call back and a token (WETH) that calls back when it is pulled (978,384 states): `Solvent`, `HoldingsSound` |
| `margin_partial_fill` | **violated**: `LossLeavesNothing`, the comment at Dex223MarginModule.sol:1231 |

Bounds: two users, the lender and the borrower; either of them doubles as the third
party a race needs (a freezer that is neither lender nor keeper is the borrower).  In
`margin_loss` one order, one position, two assets, a loan of 6, `MaxTime` 4 with a freeze
of 1 and a window of 2, so that a freeze lapses inside a window and a window ends while
frozen.  The maintenance margin may be raised to 50%: with amounts this small a buffer of
10% rounds to nothing, and every liquidation would start under water.  A sale ends 2 above the quote, at it or
2 below it.  In `margin_custody` three assets and amounts of 2, time up to 1, and a third asset that calls
back.  Deadlock is not checked: what is to be pulled may be more than the payer can send, a call that
would revert half way has no next step, and once the bounds are used up nothing is left to do.

**Proofs** (`MarginModuleProofs.tla`), for any tokens, prices, margins, rates, list of choices and any
finite set of users.  Which tokens call back when they are pulled is free in them; `Reneging = {}` is a
hypothesis of `ModuleIsSolvent`, `NobodyWaitsForLender` and `RecoveredCloses`.  `ParameterAssumption`
asks for positive interest periods, a floor of at most the whole quote and a `LENDER_WINDOW` of at least
one second (24 hours in the code); `ChoiceAssumption` only types the inputs.

* `HoldingsStaySound`: `[]HoldingsSound`; `ModuleIsSolvent`: `[]Solvent`.
* `DebtIsSettledOnce`, `LossStaysWithinFloor`, `MarkStays`, `SalesNeedNotice`, `LossesWaitForLender`: the
  action properties `DebtSettledOnce`, `LossWithinFloor`, `MarkIsFresh`, `NoSaleWithoutNotice`,
  `LossWaitsForLender`.
* `NobodyWaitsForLender`: `[]AnyoneMayAfterWindow`; `RecoveredCloses`: `[]RecoveredCanBeClosed`.

The inductive invariant is

    IInv == Scalars /\ orders \in Seq(Order) /\ Places /\ CountsAgree /\ CallOK

`Places` has the soundness of every position's holdings under the terms of its order (`Kept`: base
asset first, no asset twice, no empty slot, within the currency limit while open).  It is not inductive
alone: a lender who could change the base asset or the limit under an open position would break it,
and that he cannot is what the count of positions in the order is for, so `CountsAgree`
says that the count is exact, but for the position whose loan is being paid in.  `CallOK` is about the call in
progress: while foreign code runs in a payout the walk of `positionClose` keeps a position and an index, and must find the
position still closed and no shorter; what `takeLoan` pulls is for a position that is still open; a loss that is
still to be booked belongs to an order.

`Solvent` is proved as a bound that no step lowers but those of a loan.  `Gap(t)` is what the module
holds of a token beyond what it owes to deposits, orders and positions, three sums; `GapKept` says that
it does not shrink.  `takeLoan` owes before it pulls: `Free(t)` adds to the gap what the loan has still
to bring (`InLoan`), and that is never negative.  One fact per kind of step says what it does to one
account (`Paid`, `OrderRewritten`, `SwapLeaves`, `PaysOut`, `Settles`, `Opens`), the sums do the rest.
The walk of a full sale is a recursive function over the holdings; `SaleWalk` is followed downwards by
its smallest violated index (`Walks`, `WalkStep`).

The action properties share one classification, `Fate`: to any one position a step does nothing, or it is
a deposit, an owner's trade, a step of a sale, a marking, a full sale or a close, each with the conditions it is
subject to.  Each property is then a statement about six cases instead of about every
action.

`NobodyWaitsForLender` and `RecoveredCloses` say that a call can be made, over the guards the actions
themselves use (`MayLiquidate`, `MayClose`, `CanTransfer`) instead of `ENABLED`.  That the call is open is
unconditional.  That its sales go through has a condition, `Sellable`, which is what the code leaves open: the
order's list names the holding and the base asset, no auto-list dropped it, and it is worth more than nothing; dust
or a token outside the list nobody can sell.  The theorems also assume that a pool may pay the oracle's quote in
full (`0 \in Slips`, `0 \in Shorts`).  The argument has three parts: the floor never refuses the exact quote
(`QuoteMeetsFloor`); a walk downwards at quotes covers the debt or brings in the whole value of the holdings, which is at
least the threshold and so at least the debt (`SoldAtQuotes`, `DebtUnderThreshold`); and
what the module holds beyond the position's own assets covers the reward, because it is solvent
(`RewardCovered`).  Every property of the two runs is proved.

## 4. TokenConverter and Payments

`TokenConverter.tla` keeps the converter's mappings and the ledgers of all tokens,
origins and wrappers, as one `balanceOf`.  A wrapper is deployed with CREATE2, so
its address is a constant injective function of its token (`erc223Address`,
`erc20Address`) and being deployed is membership in `erc223Wrappers` or
`erc20Wrappers`.  A `Hooked` token calls a contract it is sent to; a token may
be hooked and have `transferFrom`, as D223 does, and then gets both wrappers.

| Code | Action |
|---|---|
| `createERC223Wrapper`, `createERC20Wrapper`, `wrapERC20toERC223`, `unwrapERC20toERC223`, `convertERC20`, `extractStuckERC20` | same names |
| `tokenReceived` | `Wrap223`; `UnwrapPlain` in one step; `UnwrapHooked` up to the payout's hook, then `burn` |
| ERC-20 transfers between users or to the converter | `transfer` |

No function is guarded, so between `UnwrapHooked` and its `burn` all of them can be
called: `burning` is the stack of burns the calls in progress have still to make,
`unburned` their sum per token.  Amounts move exactly and allowances are taken as
given.  A wrapper created for an address before a wrapper is deployed there gives
a wrapper of a wrapper, although the converter refuses to wrap what is a wrapper
already; the model has one, and the properties hold for it.

`Payments.tla` extends it by a `SafeSendRouter` and a `PaymentReceiver`.  The
router's `wrapAndSend` is one step: the converter pays the router a hooked token only
inside it, and foreign code runs only in its last call.  The receiver's functions
keep their names; `pay` is a hooked transfer to it, `payUnannounced` one that calls
nobody.  A payment to the receiver that it refuses reverts and is no step.
Recipients other than the receiver, and payout accounts, are users.

| Run | What it checks |
|---|---|
| `payments` | the three contracts together; an ERC-20 and a hooked token with both wrappers, the wrapper of a wrapper, payouts nested two deep: `ReservesCover`, `Redeemable` ("ERC-223 tokens can be converted back to the ERC-20 origin anytime", converter/README.md:7), `CreditBacked`, the comment of PaymentReceiver on lines 106-107 |
| `converter_extraction` | **violated**: `OnlyStuckExtracted` with extraction of a token that has an ERC-20 wrapper |

Bounds: amounts of 1 over the few units of each origin token that `StartBalances` gives
out make partial and full redemptions; `MaxDepth` 2 is the least depth at which an inner
unwrap finds an unfinished outer one; a unit that was paid, withdrawn and paid again
suffices for every order of credit, rescue and payout.  Deadlock is not checked in
`converter_extraction`: its users may send all they have to the converter unannounced,
and then nothing is left to do.

**Proofs.** `PaymentsProofs.tla` proves first of the converter, for any tokens, users, amounts and depth,
from `AddressAssumption` (addresses are injective, no token is its own wrapper) and
`AccountAssumption` (the converter is no user, wrappers start empty):

* `ConverterTypeCorrect`: `[]ConverterTypeOK`.  The unchecked subtractions of the
  converter never wrap around.
* `ReservesAlwaysCover`: `[]ReservesCover`, under `PlainExtraction`: extraction is called
  only for tokens that have no ERC-20 wrapper and are no ERC-223 wrapper.
  `converter_extraction` shows that the hypothesis cannot be dropped.
* `PlainExtractionTakesStuck`: `OnlyStuckExtracted`, under the same hypothesis and for an
  extractor that is none of `Users`: what a plain extraction takes no wrapper stands for.

The invariant is `ConverterTypeOK`, `ReservesCover`, `UndeployedEmpty` (a wrapper that is
not deployed has neither supply nor burns, so deploying it changes no account) and
`OnlyWrappersBurn` (needed for extraction: of a plain token no burn is pending).  The
lemmas say once what `Move`, `Mint`, `Burn` do to one balance, then what each action
does to the converter's balances, then to supplies and deposits.

Of the composition it proves `PaymentsTypeCorrect` (`[]TypeOK`) and `CreditsAreBacked`
(`[]CreditBacked`), whose conjunction is inductive.  The converter's steps are
covered by one fact about them, `Untouched`: they move tokens of users, of the
converter and of the extractor only.  `PaymentsKeepReserves` is `[]ReservesCover` again,
for the composition and under `PlainExtraction`: whoever deposits behind an ERC-223
wrapper or is paid out from behind an ERC-20 wrapper, user or router, the change of
reserves is the same (`DepositReserves`, `PayoutReserves`), and the receiver's
transfers come from an account that is not the converter's.

`HoldersRedeem` and `PaymentsHoldersRedeem` are `[]Redeemable`, of the converter and of the
composition.  "Can be redeemed" is stated over the guards the actions themselves have (`CanRedeem`,
`CanUnwrap`, `CanBurn`: the checks and checked subtractions of the code), so no `ENABLED` is
needed and the depth of nested calls does not bound it.  `ReservesCover` is about supplies, this is
about holders, and two facts connect them: `SupplyHeld` (what all accounts hold of a
wrapper adds up to its supply; sums of `SumLemmas.tla`, for which the accounts have to be finitely many)
and `BurnsCounted` (`unburned` is the sum over the pending burns, hence never negative, and covers the
next burn).  Every step changes balances and supply of a token alike (`Conserves`), with a lemma per
action and one each for `Mint`, `Burn` and `Move`.

## 5. Pool

`PoolMath.tla` holds the arithmetic (`SqrtPriceMath`, `SwapMath` and what they take
from `FullMath`, `UnsafeMath`, `TickMath`), `Pool.tla` one pool with the library it
delegates to.  The variables are the pool's storage: the fields of `slot0`, `permit`
(`erc223CallPermit`), `swapSender`, `deposit` (`erc223deposit`), `protocolFees`,
`feeGrowthGlobal`, `liquidity`, `ticks`, `bitmap`, `positions`; and `balance`, what the
pool holds of each token in each version.

The pool hands over control in payment callbacks, in a recipient's hook during a
delivery and in the refund of a deposit.  `calls` is the stack of calls under way; each
frame has the `phase` the call is in.  In the phases of `Outside` any code may act: every
function can be attempted, whatever is under way, and it is `Lock` that keeps it out.
`saved` is what the EVM restores: `Revert` may happen at any moment of a transaction,
since callees and checks may fail, and puts everything back.

| Code | Action |
|---|---|
| `initialize`, `setFeeProtocol` | `Initialize`, `SetFeeProtocol` |
| `mint` | `Mint` (position written, balances read), `MintCallback`, `MintEnd` (`M0`, `M1`) |
| `burn` | `Burn` |
| `collect`, `collectProtocol` | `Collect`/`CollectProtocol` up to the first delivery, `CollectNext`/`CollectProtocolNext` up to the second, `CollectEnd` |
| `swap`, `swapExactInput` | `Swap` (the loop over ticks is `SwapResult`; the input is taken from a deposit or asked for), `SwapCallback`, `SwapDeliver` (`IIA`), `SwapEnd` |
| `tokenReceived` | `TokenReceived`, `Dispatch` (delegatecall of a swap), `Refund`, `ReceivedEnd` |
| modifiers `lock`, `adjustableSender` | `Lock` and `LockAndRelease`, `Return`; `swapSender` in `SwapBody`, `SwapEnd` |
| `optimisticDelivery` | `Deliver`: the version asked for, the deficit taken from the other one through the converter |

The 96 and 128 bit scales, the fee's scale and the price of a tick are constants, and
every division rounds where and as the code rounds.  The run takes `Q96 = 8`,
`Q128 = 16`, a fee of one fourth and a price that a tick doubles: a unit of rounding is
then as large as it can be compared with the amounts, and a swap of 25 to 40 units
crosses several ticks.  What the coarse scale does not show is overflow of 160 and 256
bit words, and that `getSqrtRatioAtTick` and `getTickAtSqrtRatio` compute the powers of
1.0001 they should.

| Run | What it checks |
|---|---|
| `pool` | `Solvent` (after every transaction the balances in both versions cover all positions burned and collected, protocol fees and deposits), `LiquidityAgrees` (active liquidity, ticks and bitmap against the positions), `PriceInTick`, `NothingForFree`, `SettledWhenUnlocked`, and `EarningsKept` (what a position earned never shrinks until it is collected) |

Bounds: five calls in a behaviour (`MaxOps`, nested and failed ones included): two mints
and three swaps, or a mint, a deposit with its swap, a protocol fee, a burn and a
collect.  Two positions of two owners, one inside the other with a common upper tick;
swaps down across two ticks, up across two, and for one unit of output.  A bitmap word
has two ticks, so that the walk stops at ends of words as well.

**Proofs** (`PoolProofs.tla`), for any users, positions, orders, ticks, prices, spacing, fee and scales,
from the assumptions on the constants in `PoolMath.tla` and `Pool.tla` (scales are positive, the fee is less
than the whole, a tick's price grows with the tick; users and positions are finitely many; of orders and
amounts only their types):

* `PoolPriceInTick`, `PoolLiquidityAgrees`, `PoolNothingForFree`, `PoolSettledWhenUnlocked`: `[]` of the invariant
  named, each from `Spec` alone.
* `PoolSwapsEnd`: `[]SwapsEnd`.  The model makes as many rounds of the loop as there are ticks (`Rounds`) and
  then stops; that the `while` loop of the code is then always over is a theorem, not an assumption.

The inductive invariant is `LockInv /\ BookInv /\ MoneyInv` (the first two are `PoolInv`).

`LockInv` describes the stack: it is empty, or one call that took the lock, or a deposit with
the swap it dispatched; the pool is locked while it is not empty; the permit is up only between
the deposit's start and its dispatch (or its refund, if nothing is dispatched); a deposit and a
swap sender exist only for the depositor of the call under way; `saved` is settled, so that
`Revert` may restore it.  There is one lemma per way in which an action can treat the stack.

`BookInv` describes the book: the price is in its tick, the liquidity is that of the positions around it,
every tick counts the positions that end there, the bitmap has exactly the ticks in use; the same of the book in
`saved`; and a swap in progress that delivers something has asked for something.  An initialized
pool keeps a price: otherwise `initialize` could unlock a pool at work, so that even
`SettledWhenUnlocked` needs the arithmetic.

The argument follows the code.  Lemmas about the divisions (`DownIsMost`, `UpIsLeast`) give what each of
the four ways of a price to move (`InputDown`, `InputUp`, `OutputDown`, `OutputUp`) reaches at most, and
`StepIs` what `computeSwapStep` returns: a price between start and target, reached unless the amount is
used up, and something in if anything is out.  `NextTickSkips` says that the bitmap search skips no tick
in use.  `LoopInv` is the invariant of the loop; at a crossing the tick left behind and the sign of the
net liquidity depend on the direction, and going down the price can stand at the upper end of its tick.
That is why `PriceInTick` allows both ends, and the one place where `liquidity` could be that of the
wrong side.  `RoundKeeps` shows `LoopInv` for one round and that the round either is the last or leaves
its tick; `SwapEnds` follows from it by the least number of rounds that fails.

The proof found one condition the model had missed: `initialize` accepts a price only from the lowest tick's up to
and without the highest tick's (TickMath.sol:63).

`MoneyInv` describes the money, and is the reason for `Solvent` and `EarningsKept`.  `Solvent` itself is not inductive:
burning a position is rounded, so what all positions are `Worth` changes by a rounding with every step of the
price, and the roundings of one position's life do not cancel.  The invariant therefore counts in exact amounts.
`Common` is a multiple of every price, `Level(t, p)` an integer that says how much of a token a unit of liquidity
stands for at price p, in units of `1 / Unit(t)`; between two prices the exact amount is a difference of levels,
and every amount the code computes lies on the pool's side of it (`AmountBounds`, `StepCosts`, `AmountsCover`).  `Claim`
is what a position could have at most: what it is owed, the fees its liquidity has earned since, unrounded, and the exact
stock of its liquidity.  `Books(t)` adds the claims, the protocol's fees and the deposits, and `MoneyInv` says
that `Backing(t)` covers them: the balance in both versions, and during a mint or a swap that is not paid yet
the balance noted before it plus what it is due, which the pool insists on before it goes on.

* A round of the swap loop moves the stock of the active positions by no more than it takes in and gives out, and
  adds no more to their fees than the fee it took less the protocol's cut (`RoundIsFair`, `SwapIsFair`).  Growth
  outside a tick is turned over at a crossing, so that what lies within a range stays what it was
  (`ShiftTurns`).
* `_modifyPosition` adds no more to the claims than the amounts it asks for (`ModifyCovers`); a tick that comes into use
  may take any growth as outside, since no position with liquidity ends there yet.
* Deliveries, refunds and collects take from the books what they take from the balances; a failed transaction goes
  back to `saved`, for which the invariant holds as well.

Between transactions nothing but the balance is the backing, and `WorthIsClaimed` says that no position
is worth more than its claim: `Solvent`.  `EarningsKept` uses the same facts, that the growth within a
range never falls while there is liquidity in it, and that every modification first writes down what has
been earned.

* `PoolSolvent`: `[]Solvent`; `PoolEarningsKept`: the action property `EarningsKept`.  All six properties of
  the run, and `SwapsEnd`, are thus theorems for every pool.

## 6. SwapRouter and PeripheryPayments

`SwapRouter.tla` keeps the storage of both contracts: `erc223Deposits` and
`totalDeposits`, the lock `unlocked`, the one-shot `erc223CallPermit`, `call_sender`,
`token_sender`, `expectedCallbackPool`; and what users and the router hold of each token
and of ether.  The pools keep their promise (Section 5): one calls back for what the swap takes, then delivers, one unit for
one.  Tokens that call their recipients, and ether, hand over
control.  `calls` is the stack of the router's calls under way; while the latest one is
in its phase `outside`, everybody may call the router.  A call that fails is reverted
with all it did, hence one that is bound to fail has no next step, and deadlock is not
checked.

| Code | Action |
|---|---|
| `tokenReceived` | `tokenReceived` (credit, context, permit), `DispatchUnwrap`, `DispatchSwap` (the delegatecall, through `multicall` for several), `DispatchReturn`, `DepositEnd` |
| `exactInputSingle`, `exactInput` | `exactInput`, then for each pool of the path `InputHop` (the pool is called and set as the expected one; a deposit pays at once), `InputCallback`, `Deliver`, `InputReturn` |
| `exactOutputSingle`, `exactOutput` | `exactOutput`, then from the last pool to the first `OutputNext`, `OutputCallback` for the payment, `Deliver`, `OutputReturn` |
| `uniswapV3SwapCallback` | `Callback` in `InputCallback` and `OutputCallback`: the caller is the expected pool, which is forgotten; the payer of the context pays.  `ForeignCallback`: any other pool calls, with any payer |
| `pay`, `withdraw`, `unwrapWETH9`, `refundETH` | same names; `transfer` is a token that arrives unannounced |

Left out: minimum and maximum amounts, deadlines and price limits, which only make calls
fail; `exactOutput` dispatched in a deposit; self-permits; `unwrapWETH9WithFee`.  Withdrawing
hands over control at its very end, so that what its receiver calls is what he could call
next.  The tokens on the paths are those of the converter: each moves the exact amount and calls nobody
but the recipient.

The order within a swap matters for what foreign code finds.  A pool runs the callback, in which the
router checks and clears `expectedCallbackPool` (SwapRouter.sol:204) and somebody pays, before it
delivers (Dex223PoolLib.sol:848, 854 and 871, 876); so when the recipient's code runs, the swap is paid.
No pool is expected then, but the one that is delivering if a deposit paid for the swap, and that one is
locked. Hence the phases of a frame: `run`, `pool` (a callback is expected), `paid`, and `inside` or
`outside` once it was delivered, `outside` if foreign code runs.  Strangers cannot run code between
`pool` and `paid`, as long as the tokens of the path make no call but to their recipient.  There are
others, and a token of anybody's making can make its own pools call the router whenever a user has
control, hence `ForeignCallback`; all that stands in its way is `expectedCallbackPool`, and none of its
steps may pay.

| Run | What it checks |
|---|---|
| `swap_router` | deposits with and without calls, swaps of one pool and of a path, unwrapping, withdrawals, each inside the others: `DepositsBacked`, `SettledWhenIdle`, `SpentByOwner` (a deposit or an approval is spent by a step of its owner or in a call he made, never in one that somebody else made within it, and by no pool that calls back without having been called) |

Bounds: two users, one with two units of an ERC-223 token, one with a unit of ether; a path
of one pool whose input is wrapped ether and whose output calls its receiver, and a
path of two pools through wrapped ether; a call within a call (`MaxDepth` 2), the
least at which a stranger meets a permit or a sender that is not his.

**Proof** (`SwapRouterProofs.tla`).  `RouterSettledWhenIdle`: `[]SettledWhenIdle`, for any users, tokens,
paths, amounts and depth.  The invariant is `TypeOK`, `LockHeld` (the router is locked exactly while
calls are under way, and exactly the first of them took the lock), `PermitOfDeposit` (the permit is up
only while the latest call is a deposit with a call to dispatch), `SendersHaveCalls`, `PoolHasCall` (a
sender and a token have a call that set them; an expected pool is one that the latest call is in: it has
not been paid, or it is delivering and locked, so that no other pool is ever let in, `ForeignRefused`).
Without `LockHeld` a call that used the permit could release a lock it never took.

`DepositsAreBacked`: `[]DepositsBacked`, and `OnlyOwnersSpend`: the action property
`SpentByOwner`, by `ICustody`, which adds the contents of the ledgers (`Custody`: the deposits add up to
`totalDeposits`, which the router holds; a token that calls nobody was never deposited) and of the
context variables (`Context`).  The latter is the heart of `SpentByOwner`: `call_sender` and `token_sender` outlive
the call that set them as long as another one runs inside it, and the callback that pays a swap
reads them then.  That they are those of the caller's own deposit whenever the latest
call is a swap (`SwapContext`, `PaysHisOwn`) depends on the lock: below a call there can be only deposits, and each
of those waits for what came in on its permit (`DepositsBelow`).  `RouterAssumption` asks for finitely many users,
none of which is a token.

Two observations on the code.  A swap out of a deposit compares the deposited token with
`getERC223WrapperFor` of the path's token (SwapRouter.sol:378, 421), hence an asset whose
ERC-223 version is the origin cannot be swapped by deposit.  The comment at PeripheryPayments.sol:33
still speaks of `sweepTokenWithFee`, which the code no longer has.

## 7. Protocol fees and their keepers

`ProtocolFeeCollector.tla` has the collector's functions over the pools' fee settings and owed fees.  A
pool that was created but not initialized is locked: `enableFees` and `collect` skip it like one that
refuses (try/catch, ProtocolFeeCollector.sol:117-122).  The two denominators of a fee are one number, the
collector owns the factory and `revenue` is fixed (ownership, `setRevenue` and `execute` are left out).
`FeeKeeper.tla` extends it by RevenueV2's side of a sync (what is `accounted`, `queued` and `remaining`
of each token, enough to tell when `_startStream` starts; that a stream without stakers goes back to the
queue, RevenueV2.sol:486-488, is left out) and by a run of a keeper, the Lambda or the script: the pools
are read in `ReadPools`, sent in batches in `SendEnable` and `SendCollect`, the rewards are looked up in
`LookUpRewards` and synced in `SendSync`.  Between any two of these steps users create and initialize
pools and swap, the owner changes fees, others call the same open functions, and revenue streams out.
Faults: a node that lags, a transaction that fails before or after it was mined, a lookup that throws, a
day that is skipped, a death.  Of the other network of an invocation only its failure is modelled.

| Run | What it checks |
|---|---|
| `fee_keeper` | `GreenMeansDone` (a run that reports success has collected from every pool it planned to, but those that refuse, which it only logs: index.mjs:177), `FeesReachRevenue` (in the end every initialized pool that nobody has set by hand has a fee on if the default is on, and no pool that pays owes more than the unit left behind), `RevenueStreams` (with the Lambda, nothing is left unsynced or startable) |

Bounds: three pools, one of which refuses to pay and one of which is created
meanwhile, batches of two, one fault, one swap, one call of the owner, two networks.  The default may change from 4 to 5 or
0: a new default does not reach the pools that have a fee, and `FeesReachRevenue` does not say it does.
Fewer pools would fit a batch.  After the bounded disturbances the
system has to recover, which is what the two liveness properties say; the schedule
goes on for ever, and the cycle of runs that find nothing to do is part of the model.
Deadlock is not checked here: that the keeper never stops short is what the liveness
properties say.

Left out: nonces of a run (`NonceManager`, index.mjs:125, 181), gas limits, dry runs, the limit of
tokens in a sync, the rounding carry of a stream, Etherscan's paging and the check
that a node serves logs (fee-keeper.ts:49-83).  Of the script `RevenueStreams` would be
false: it restarts a stream only above a minimum of its own (fee-keeper.ts:176).  A
listed token whose `balanceOf` reverts makes every lookup of unsynced rewards throw
(index.mjs:202), although RevenueV2 itself skips such a token; `Unreadable` is in the model and
empty in the run.

## 8. Deployment at planned nonces

Six scripts send a fixed plan of transactions at fixed nonces, so that every contract
comes out at an address known beforehand.  `DeploymentPlans.tla` has the eight plans
as data: steps, which earlier contracts each step refers to, the pinned layouts, which steps
no check reads at the end.  `Deployment.tla` is the executor that the scripts share, among a mempool,
a chain whose last block can be taken back, nodes that lag, a process that dies
anywhere, and other uses of the deployer's key.  `log[n]` is what nonce `n` was used for:
its own step, nothing that lasts (`Void`), or a contract that is not of the plan (`Alien`).

A poll asks for the receipt and then, maybe another node, for the head (tx-wait.ts:13-14), and a
reorganisation may come between the two, or a node may still follow the replaced blocks.  `orphan` says that the
receipt the process holds is of a block that was taken back: then the step is asked for again, fails to read
back, or is recorded although it is not there.  `done` is therefore `made` (what was seen confirmed), `trusted`
(what was found on the chain, or confirmed by an orphan), or `no`; a trusted step that settles becomes `made`.

| Code | Action |
|---|---|
| start: pins and nonce against the plan | `Start` |
| the loop: recorded, found on the chain, refused, sent | `Skip`, `Found`, `Refuse`, `Send`, `Reject` |
| waiting, receipt, reading back | `AskAgain`, `Record`, `Failed`, `Timeout` (tx-wait.ts; in the scripts with `tx.wait` it need not happen) |
| checks at the end | `Announce`, `CheckFails` |
| environment | `Mine`, `Revert`, `Settle`, `CatchUp`, `Reorganise`, `Drop`, `UseKey`, `Crash`; `Open`, `CreatePool` of strangers |

`DeploymentLayout.tla` is the abstract specification: nonces are consumed in order, a planned
transaction goes out only over a plan that is whole or taken on trust, what settled stays,
and success is announced only over a layout that is whole, but for what was taken on trust and no check reads.
`Layout == INSTANCE DeploymentLayout WITH ...` is the refinement mapping.

| Run | What it checks |
|---|---|
| `deployment` | the six scripts with their real plans (532,739 states): `NothingOverAGap`, `RecordedStays` (what was recorded as made stays), `KeepsLayout` (the refinement), `Completes` (a script whose wait is bounded announces success, if in the end every nonce used holds its step) |

Bounds: a node lags by one nonce, two faults of any kinds and in any order, crashes and
repeated runs included; a fault in the middle of the recovery from another one is the
deepest case the code has a rule for.

**Proofs** (`DeploymentProofs.tla`), for any scripts that satisfy `ScriptAssumption`, any lag and any
number of faults: `StepsFollowThePlan`, `RecordIsSound`, and `ScriptsKeepTheLayout`, that `Spec`
implements `LayoutSpec`.  The invariant is `TypeOK`, `RecordedStays` and `InOrder`: whatever is in the
mempool, on the chain or about to be sent at nonce `n` was sent when all steps before it were done as far
as the state file knows.  What was taken on trust is exempt in all three, since the code itself cannot
tell; that nothing else is, however many receipts are orphaned, is what they show.  `ScriptAssumption`
holds a fact that turned out to be needed: a plan's last burned nonce is followed by at least as many
steps as a node may lag, for a burned nonce is recognised by the absence of code.

What the model shows of the code, beside the properties:

* A burned nonce looks unused to a node that lags; only the final check catches a contract
  that came out there.
* An orphaned receipt can be recorded.  A contract is read back, but by a node that may follow the same replaced
  blocks; a burned nonce is not read back at all.  If its transaction is dropped then and the nonce used otherwise,
  the next run skips the step and builds over the gap.
* A step that is found on the chain is not waited for.  When a reorganisation takes it
  back, the loop says "behind the plan" from then on, and a library no check reads
  stays unverified: hence `trusted` in the abstract specification.
* The open call `createERC20Wrapper` can be made by anybody first; the script then cannot go on
  (`Undisturbed` excludes it).
* Recovery looks at the length of code only; the loop of scripts with `tx.wait` may hang for
  good after a dropped transaction, which is why tx-wait.ts exists.
* A pool that is created before the transaction of `upgrade-pool-lib-mainnet` is mined keeps the
  old library, although `ALL CHECKS PASSED` (`oldPool`).

Left out: preflight checks of tokens, balances, prices and sizes; two runs of one script at
once; reorganisations deeper than two blocks; running out of gas is `Revert`.

## 9. Scripts with a file of addresses

The other scripts deploy at whatever nonce is next and resume from a file.  `RecordedPlans.tla` has
the fourteen scripts as data: their steps, how each tells that it was made, what must be recorded,
which hashes of the pool's code are compared, what is read at the end.  `Chains.tla` has what
differs between chains.  `RecordedDeploy.tla` runs the scripts that share a file, in order, with an operator who runs
each again until it is through, may change his mind, his inputs or his checkout, and does
what a run asks for (`Forget`, `CheckOut`, `PassOther`, `VerifyWith`).  `Send`, `Record`, `Reuse`, `Complain`, `Refuse`,
`Fail`, `GiveUp`, `Finish`, `CheckFails` are the process; `AlreadyVerified`, `Submit`, `ExplorerFails`,
`WrongCheckout` the verification of sources.

| Run | What it checks |
|---|---|
| `recorded_deploy` | each state file with its scripts, and verification on each chain (312,065 states): `NothingTwice`, `WiredTogether` (a script that comes to its last line leaves every contract of its file on the chain, built from and set to the contracts of the file), `PeripheryMatches` (the periphery derives the addresses of the factory's pools), `Completes` |

**Proofs.** `RecordedDeployProofs.tla` proves `DeployedOnce` (`[]NothingTwice`) for any files, scripts
and number of faults, from `RecordAssumption`: a name that one step looks up in the record is deployed by
no step that does not. What is counted is every deployment, in the code of the chain or in the mempool
(`Accounted`): there are at most as many as names that are owned, plus the faults and the entries removed
so far.  A name is owned when the file has it, or when the process that waits sent it and has not died
(`Awaited`).  So `Send` adds to both sides, `Mine` and `Record` change hands, and only a death, a lost
transaction or a removed entry loses an owner.  The rest of the invariant says that of the transactions
in the mempool at most one is the process's own, and that it is the step the process is at
(`WaitsForOne`), that a recorded contract is on the chain (`RecordedExists`), and shapes.

`FinishedScriptsAreWired` (`WiredTogether`) and `FinishedPeripheryMatches` (`PeripheryMatches`) depend on
what the steps of a file are; what they need of them is stated as two assumptions, which TLC evaluates on
the fourteen scripts. `NamingAssumption`: a script names contracts that it knows by then (that were
there, that it needs, or that it deployed) and does not deploy later; a step that is looked up in the
file alone, and every call, uses only contracts that last, that is no run deploys anew and no run asks to
remove; the checks at the end ask for every verification. `HashAssumption`: where one script takes the
recorded factory's pools for granted, so does every script of the file that deploys part of the
periphery.  The second invariant, `WInv`, says: what is recorded is on the chain under its name
(`Recorded`); what the file alone is asked for was constructed with what the file means (`FileWired`); a
call in the mempool, also one that a dead run left there, sets what the file still means (`CallsFit`),
since the names it carries last; a run has made the steps it has passed (`Passed`); the process's
transaction is the last of the mempool, so that its contract gets the number it is recorded by, and once
mined its step is made (`Waits`); and the recorded hash is that of the factory's pools and of the
periphery (`HashKept`).  `Grows` says in one formula what a block does to the contracts.

Only model-checked: `Completes` (liveness).

Bounds: three faults; three checkouts (one, another one, and one whose pool is not what it declares); three
inputs, one of which does not fit.

Assumed: blocks are final, deployments do not revert (the scripts throw on one and record nothing), a lag
ends before the next run, `HANDOVER=true`, the operator keeps to the order of a file's scripts.  Left
out: checks of balances and sizes, a state file torn while it is written, two scripts at once on one
file.  Scripts that only the factory's owner can run are exempt from `Completes` once the collector owns
it, and so are comparisons of contracts from several checkouts, which cannot pass.

What the model shows of the code, beside the properties: `deploy-sepolia-v3.ts:87` calls
`assertPoolHash()` without the recorded hash, which pool-hash.ts:49 asks to be passed, and
overwrites the record, so that a run resumed from another checkout builds a periphery that
cannot find the factory's pools (`PeripheryMatches` claims nothing of that script);
`deploy-payment-receiver` has no record, and its `CONVERTERS[...] || CONVERTERS.sepolia` passes
Sepolia's converter on a network it does not know; `deploy-revenue` always deploys anew; the periphery script records no
names for `verify` to find; a state file that `deploy-margin` shares with `sepolia-v3` always mismatches
(JSON numbers against strings).

## 10. Fairness, deadlock and findings

No contract schedules itself: of the contracts no fairness is assumed and no liveness claimed.
"Somebody can always ..." is stated as an invariant over the actions' guards (`EveryoneCanExit`,
`EveryoneCanClaim`, `Redeemable`, `AnyoneMayAfterWindow`, `RecoveredCanBeClosed`), never over `ENABLED`,
so that it can be proved, and is.  Off the chain there is fairness, all of it
weak, of what the environment or a loop does anyway and never of a fault or of a stranger:

* `FeeKeeper`: `Run` (a daily schedule, and a process that goes on) and `Stream` (time).
* `Deployment`: `Mine`, `Settle`, `CatchUp` (blocks, nodes), `Start` (an operator who runs a script
  again), `Loop`, `Wait`, and `Timeout` where the wait is bounded.
* `RecordedDeploy`: `Mine`, `CatchUp`, `Process`, `Start`, `Obey`, `SetRevenue` (the owner does what the collector's
  script tells him to).

Deadlock is checked but in `fee_keeper`, `deployment`, `recorded_deploy` (a system at rest), the three runs of the
margin module, `swap_router` and `converter_extraction` (see there).

Where the code and its own words disagree, each shown by a run:

* **A partly filled sale leaves a closed position its holdings.**
  Dex223MarginModule.sol:1231 says every holding is sold before a loss is booked; a
  swap that meets the floor but fills only part of its input leaves the rest.
* **Deposits behind ERC-20 wrappers count as stuck.**  TokenConverter.sol:407 calls
  `erc20Supply` what was deposited, and `extractStuckERC20` (line 566) pays out what
  exceeds it; `tokenReceived` does not add the ERC-223 deposits it mints ERC-20
  wrappers for.

Three more have no run of their own.  A base asset or initial collateral outside a static list
cannot be sold, although the comment at Dex223MarginModule.sol:83-86 promises that after the window
anybody may complete a liquidation: `getIdFromTokenlist` (1434, 1490) reverts for such a token.  `margin_loss`
keeps to lists that hold both, and `Sellable` names the condition in the two properties.  Another is the hash of
`deploy-sepolia-v3.ts` (Section 9).  The third is the order whose terms change under a loan that is being taken (Section 3):
the check of Dex223MarginModule.sol:495 refuses a change of terms only once the position is counted.

## 11. Not modelled, and the plan

Superseded contracts (`RevenueV1`, `Revenue_old`), descriptors, lenses, the migrator, rehearsals, build
configuration and test contracts are left out for good.  Of the pool, the observations, ether
(`receive`, `withdrawEther`), `set`, `quoteSwap` (always rolled back), deadlines, and dispatched calls
other than a swap are left out: such a call acts for the token contract, for which
nobody mints a position in the model.

Three listed hazards have no property: the change of terms under a loan (Dex223MarginModule.sol:795), of which
`Solvent` holds under `Reneging = {}` only; a forced sale whose condition may never come true (1434), for
nothing in the code makes it; and the hash that `deploy-sepolia-v3.ts:87` does not compare.

Type invariants are not repeated as properties of the runs: `TypeCorrect`, `ConverterTypeCorrect`,
`PaymentsTypeCorrect` are theorems, and the invariants proved of `Pool`, `Deployment` and `SwapRouter` begin with one.

Next, in order:

1. `PositionManager`, whose fees follow the pool's growth accumulators.
2. `Autolisting`, `Factory`; the oracle's TWAP and the ring of observations as
   functions against reference definitions.
3. Abstract specifications: a custody vault (accounts of one pooled balance) that RevenueV2,
   PaymentReceiver and PeripheryPayments implement, and a loan's life (none, open,
   frozen, closed) that MarginModule implements.
4. Theorems: of the safety properties only `GreenMeansDone` (the fee keepers) has none yet.  What needs fairness
   (`FeesReachRevenue`, `RevenueStreams`, the two `Completes`) stays with TLC: the prover has no rules for it.
