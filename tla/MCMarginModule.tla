--------------------------- MODULE MCMarginModule ---------------------------
(* Small instances of MarginModule for TLC.                                *)
EXTENDS MarginModule, TLC

CONSTANTS lender, borrower, usd, gem, third, eth

Symmetry == Permutations(Users)

AllListed == [isContract |-> FALSE, tokens |-> {usd, gem, third}]
Auto == [isContract |-> TRUE, tokens |-> {third}]

\* An order in the base token usd against one collateral, at leverage 3.
Terms(list, rate, rewardAsset) ==
    [whitelist |-> list, interestRate |-> rate, duration |-> 2, minLoan |-> 1,
     baseAsset |-> usd, currencyLimit |-> 3, leverage |-> 3,
     rewardAmount |-> 1, rewardAsset |-> rewardAsset, deadline |-> 2,
     collateralAssets |-> {gem}]

\* One order in WETH whose reward is paid in Ether, one in Ether; anything
\* auto-listed may be held.
CustodyOrders == {Terms(Auto, 0, eth),
                  [Terms(Auto, 0, usd) EXCEPT !.baseAsset = eth, !.collateralAssets = {eth}]}
AutoLists == {Auto}

OneOrder == {Terms(AllListed, 0, usd)}
CostlyOrder == {Terms(AllListed, 5000, usd)}
GemOnly == {{gem}}
PlainLists == {AllListed}

\* A sale may end above the quote, at it or below it.
Fills == {-2, 0, 2}

TwoAssets == (usd :> 1) @@ (gem :> 2) @@ (third :> 0) @@ (eth :> 0)
Quotes == (usd :> 1) @@ (gem :> 2) @@ (third :> 1) @@ (eth :> 0)
Crash == (usd :> {}) @@ (gem :> {1, 2}) @@ (third :> {}) @@ (eth :> {})
Still == [t \in Tokens |-> {}]
Drop == [Crash EXCEPT ![gem] = {1}]
=============================================================================
