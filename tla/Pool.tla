-------------------------------- MODULE Pool --------------------------------
(***************************************************************************)
(* One Dex223Pool with the Dex223PoolLib it delegates to                    *)
(* (src/contracts/dex-core): concentrated liquidity over ticks, every token *)
(* held in two versions, payment through callbacks, and the lock that keeps *)
(* everybody out while a call is under way, except the one call an ERC-223  *)
(* deposit brings along.                                                    *)
(*                                                                         *)
(* A call is split where the pool hands control to other code: the payment  *)
(* callbacks of mint and swap, the recipient's hook of a delivery, and the  *)
(* refund of a deposit.  `calls' is the stack of the calls under way.  A    *)
(* transaction that fails puts everything back to `saved'.                  *)
(*                                                                         *)
(* Left out: the observations (an oracle for others), native ether, and the *)
(* users' own balances: a callback may pay what it is asked or not.         *)
(***************************************************************************)
EXTENDS PoolMath, Sequences, FiniteSetsExt

CONSTANTS
    Users, NoOne,          \* callers, and address(0)
    Keys,                  \* positions: [owner, lower, upper]
    Orders,                \* swaps: [zeroForOne, amount, limit, ver, min]
    InitialPrices,         \* the prices initialize is called with
    Liquidities,           \* amounts of liquidity minted and burned
    Values,                \* values of ERC-223 deposits
    Requests,              \* amounts collectors ask for
    FeeProtocols,          \* fractions 1/x of the fee the owner may set, 0 for none
    TickSpacing, WordSize, \* spacing of ticks, ticks of a bitmap word (256)
    MaxLiquidityPerTick,
    Q128,                  \* FixedPoint128.Q128, the scale of fee growth
    MaxOps                 \* bound on the calls of a behaviour

Token == {0, 1}
Version == {"erc20", "erc223"}
Other(v) == IF v = "erc20" THEN "erc223" ELSE "erc20"
Payloads == [kind : {"swap"}, order : Orders] \cup [kind : {"none", "view"}]

ASSUME PoolAssumption ==
    /\ NoOne \notin Users /\ IsFiniteSet(Users)
    /\ IsFiniteSet(Keys)
    /\ Keys \subseteq [owner : Users, lower : Ticks, upper : Ticks]
    /\ Orders \subseteq [zeroForOne : BOOLEAN, amount : Int \ {0}, limit : Nat,
                         ver : Version, min : Nat]
    /\ InitialPrices \subseteq Nat \ {0}
    /\ Liquidities \subseteq Nat \ {0} /\ Values \subseteq Nat
    /\ Requests \subseteq Nat
    /\ FeeProtocols \subseteq {0} \cup 4 .. 10
    /\ TickSpacing \in Nat \ {0} /\ WordSize \in Nat \ {0} /\ Q128 \in Nat \ {0}
    /\ MaxLiquidityPerTick \in Nat /\ MaxOps \in Nat

VARIABLES
    sqrtPrice, tick, feeProtocol, unlocked,      \* slot0; 0 is "not initialized"
    permit,                                      \* erc223CallPermit
    feeGrowthGlobal, protocolFees,               \* per token
    swapSender, deposit,                         \* swap_sender, erc223deposit
    liquidity, ticks, bitmap, positions,
    balance,                                     \* per token and version
    calls, saved,                                \* the transaction under way
    ops                                          \* calls begun, for the bound

price == <<sqrtPrice, tick, liquidity, ticks, bitmap, feeGrowthGlobal>>
vars == <<sqrtPrice, tick, feeProtocol, unlocked, permit, feeGrowthGlobal, protocolFees,
          swapSender, deposit, liquidity, ticks, bitmap, positions, balance, calls, saved, ops>>

EmptyTick == [gross |-> 0, net |-> 0, outside |-> [t \in Token |-> 0]]
EmptyPosition == [liquidity |-> 0, last |-> [t \in Token |-> 0], owed |-> [t \in Token |-> 0]]
NoDeposits == [u \in Users |-> [t \in Token |-> 0]]
Idle == <<>>

Init ==
    /\ sqrtPrice = 0 /\ tick = 0 /\ feeProtocol = [t \in Token |-> 0]
    /\ unlocked = FALSE /\ permit = FALSE
    /\ feeGrowthGlobal = [t \in Token |-> 0] /\ protocolFees = [t \in Token |-> 0]
    /\ swapSender = NoOne /\ deposit = NoDeposits
    /\ liquidity = 0 /\ ticks = [t \in Ticks |-> EmptyTick] /\ bitmap = {}
    /\ positions = [k \in Keys |-> EmptyPosition]
    /\ balance = [t \in Token |-> [v \in Version |-> 0]]
    /\ calls = Idle /\ saved = Idle /\ ops = 0

(***************************************************************************)
(* Calls.  Others act when no call is under way, or when the innermost call *)
(* has handed over control.                                                 *)
(***************************************************************************)
Top == calls[Len(calls)]
Below == SubSeq(calls, 1, Len(calls) - 1)
Outside == calls # Idle => Top.phase \in {"pay", "paid", "out", "refunded"}
At(op, phase) == calls # Idle /\ Top.op = op /\ Top.phase = phase

\* What the EVM restores when the transaction fails.
State == [sqrtPrice |-> sqrtPrice, tick |-> tick, feeProtocol |-> feeProtocol,
          unlocked |-> unlocked, permit |-> permit,
          feeGrowthGlobal |-> feeGrowthGlobal, protocolFees |-> protocolFees,
          swapSender |-> swapSender, deposit |-> deposit, liquidity |-> liquidity,
          ticks |-> ticks, bitmap |-> bitmap, positions |-> positions,
          balance |-> balance, ops |-> ops]

Begin == Outside /\ ops < MaxOps /\ ops' = ops + 1
Save == saved' = IF calls = Idle THEN State ELSE saved

\* mutant: the lock is asked for but not taken
LockNotTaken == (~permit => unlocked) /\ permit' = FALSE /\ UNCHANGED unlocked

\* The head of the lock modifier: a permit is used up, or the lock is taken.
Lock == (~permit => unlocked) /\ permit' = FALSE /\ unlocked' = (permit /\ unlocked)

\* Head and tail in one, for a call that hands over no control.
LockAndRelease == (~permit => unlocked) /\ permit' = FALSE /\ UNCHANGED unlocked

\* The end of the innermost call, with the tail of the lock modifier.
Return ==
    /\ calls' = Below
    /\ saved' = IF Below = Idle THEN Idle ELSE saved
    /\ unlocked' = (unlocked \/ Top.unlocks)

AtPhase(phase) == [calls EXCEPT ![Len(calls)].phase = phase]

\* A failed transaction, for whatever reason: a callee that reverts, a check
\* that does not hold, a recipient that refuses.
Revert ==
    /\ calls # Idle
    /\ sqrtPrice' = saved.sqrtPrice /\ tick' = saved.tick
    /\ feeProtocol' = saved.feeProtocol /\ unlocked' = saved.unlocked
    /\ permit' = saved.permit /\ feeGrowthGlobal' = saved.feeGrowthGlobal
    /\ protocolFees' = saved.protocolFees /\ swapSender' = saved.swapSender
    /\ deposit' = saved.deposit /\ liquidity' = saved.liquidity /\ ticks' = saved.ticks
    /\ bitmap' = saved.bitmap /\ positions' = saved.positions
    /\ balance' = saved.balance /\ ops' = saved.ops
    /\ calls' = Idle /\ saved' = Idle

(***************************************************************************)
(* The two versions of a token.  optimisticDelivery pays in the version     *)
(* asked for and has the converter turn the other version into what is      *)
(* missing; the converter's answer comes in while the pool is locked and is *)
(* taken as a balance only.                                                 *)
(***************************************************************************)
Held(bal, t) == bal[t]["erc20"] + bal[t]["erc223"]

Deliverable(bal, t, n) == n <= Held(bal, t)

Delivered(bal, t, v, n) ==
    LET deficit == IF n > bal[t][v] THEN n - bal[t][v] ELSE 0
    IN  [bal EXCEPT ![t][v] = @ + deficit - n, ![t][Other(v)] = @ - deficit]

(***************************************************************************)
(* Ticks.                                                                   *)
(***************************************************************************)
\* Tick.getFeeGrowthInside.
FeeGrowthInside(tks, lower, upper, t) ==
    LET below == IF tick >= lower THEN tks[lower].outside[t]
                                  ELSE feeGrowthGlobal[t] - tks[lower].outside[t]
        above == IF tick < upper THEN tks[upper].outside[t]
                                 ELSE feeGrowthGlobal[t] - tks[upper].outside[t]
    IN  feeGrowthGlobal[t] - below - above

\* Tick.update.
TickUpdate(info, t, dL, upper) ==
    [gross   |-> info.gross + dL,
     net     |-> IF upper THEN info.net - dL ELSE info.net + dL,
     outside |-> IF info.gross = 0 /\ t <= tick THEN feeGrowthGlobal ELSE info.outside]

\* mutant: a tick the price stands on is not found going down
NextTickBelow(t, lte) ==
    LET c     == t \div TickSpacing
        start == IF lte THEN c ELSE c + 1
        word  == start \div WordSize
        bits  == word * WordSize .. (word + 1) * WordSize - 1
        hits  == {b \in bits \cap bitmap : IF lte THEN b < start ELSE b >= start}
    IN  [tick        |-> IF hits = {} THEN IF lte THEN Min(bits) ELSE Max(bits)
                         ELSE IF lte THEN Max(hits) ELSE Min(hits),
         initialized |-> hits # {}]

\* TickBitmap.nextInitializedTickWithinOneWord: the next initialized tick, or
\* the end of the word.
NextTick(t, lte) ==
    LET c     == t \div TickSpacing
        start == IF lte THEN c ELSE c + 1
        word  == start \div WordSize
        bits  == {b \in word * WordSize .. (word + 1) * WordSize - 1 :
                      IF lte THEN b <= start ELSE b >= start}
        hits  == bits \cap bitmap
        found == IF hits # {} THEN hits ELSE bits
        far   == (hits # {}) <=> lte
    IN  [tick        |-> TickSpacing * (IF far THEN Max(found) ELSE Min(found)),
         initialized |-> hits # {}]

(***************************************************************************)
(* Positions: PoolLib._modifyPosition with _updatePosition.                 *)
(***************************************************************************)
\* LiquidityMath.addDelta, Tick.update and Position.update let this through.
Modifiable(k, dL) ==
    /\ k.lower < k.upper
    /\ k.lower % TickSpacing = 0 /\ k.upper % TickSpacing = 0
    /\ positions[k].liquidity + dL >= 0
    /\ IF dL = 0 THEN positions[k].liquidity > 0
       ELSE \A t \in {k.lower, k.upper} : ticks[t].gross + dL \in 0 .. MaxLiquidityPerTick

UpdatedTicks(k, dL) ==
    [ticks EXCEPT ![k.lower] = TickUpdate(@, k.lower, dL, FALSE),
                  ![k.upper] = TickUpdate(@, k.upper, dL, TRUE)]

Flipped(tks) == {t \in Ticks : (tks[t].gross = 0) # (ticks[t].gross = 0)}

\* Position.update: fees since the last update, rounded down.
UpdatedPosition(k, dL, tks) ==
    LET p      == positions[k]
        inside == [t \in Token |-> FeeGrowthInside(tks, k.lower, k.upper, t)]
    IN  [liquidity |-> p.liquidity + dL,
         last      |-> inside,
         owed      |-> [t \in Token |->
                          p.owed[t] + MulDiv(inside[t] - p.last[t], p.liquidity, Q128)]]

\* What the pool is owed for dL more liquidity, negative if it owes.
PositionAmounts(k, dL) ==
    LET lo == SqrtRatio[k.lower]
        hi == SqrtRatio[k.upper]
    IN  CASE tick < k.lower                 -> <<Amount0Delta(lo, hi, dL), 0>>
          [] tick \in k.lower .. k.upper - 1 -> <<Amount0Delta(sqrtPrice, hi, dL),
                                                 Amount1Delta(lo, sqrtPrice, dL)>>
          [] OTHER                          -> <<0, Amount1Delta(lo, hi, dL)>>

\* The amounts are of the price and tick before; gain is added to the
\* position's tokens owed.
ModifyPosition(k, dL, gain) ==
    LET tks == IF dL = 0 THEN ticks ELSE UpdatedTicks(k, dL)
        p   == UpdatedPosition(k, dL, tks)
    IN  /\ Modifiable(k, dL)
        /\ positions' = [positions EXCEPT ![k] =
                           [p EXCEPT !.owed = [t \in Token |-> p.owed[t] + gain[t + 1]]]]
        /\ bitmap' = SymDiff(bitmap, {t \div TickSpacing : t \in Flipped(tks)})
        /\ ticks' = IF dL < 0
                    THEN [t \in Ticks |-> IF t \in Flipped(tks) THEN EmptyTick ELSE tks[t]]
                    ELSE tks
        /\ liquidity' = IF tick \in k.lower .. k.upper - 1 THEN liquidity + dL ELSE liquidity
        /\ UNCHANGED <<sqrtPrice, tick, feeGrowthGlobal>>

(***************************************************************************)
(* Dex223Pool.initialize, setFeeProtocol (the factory's owner calls it).    *)
(***************************************************************************)
Initialize(p) ==
    /\ Outside /\ sqrtPrice = 0
    /\ p \in SqrtRatio[MinTick] .. SqrtRatio[MaxTick] - 1
    /\ sqrtPrice' = p /\ tick' = TickAtSqrtRatio(p)
    /\ feeProtocol' = [t \in Token |-> 0] /\ unlocked' = TRUE
    /\ UNCHANGED <<permit, feeGrowthGlobal, protocolFees, swapSender, deposit, liquidity,
                   ticks, bitmap, positions, balance, calls, saved, ops>>

SetFeeProtocol(f0, f1) ==
    /\ Outside /\ LockAndRelease
    /\ feeProtocol' = [t \in Token |-> IF t = 0 THEN f0 ELSE f1]
    /\ UNCHANGED <<price, protocolFees, swapSender, deposit, positions, balance,
                   calls, saved, ops>>

(***************************************************************************)
(* mint: the position is written first, then the caller pays in a callback, *)
(* and the balances have to show it.  The callback can pay in ERC-20 only:  *)
(* an ERC-223 transfer meets the lock in tokenReceived.                     *)
(***************************************************************************)
Mint(k, dL) ==
    LET due == PositionAmounts(k, dL)
    IN  /\ Begin /\ Save /\ Lock
        /\ ModifyPosition(k, dL, <<0, 0>>)
        /\ calls' = Append(calls, [op |-> "mint", phase |-> "pay", unlocks |-> ~permit,
                                   due |-> due,
                                   before |-> <<Held(balance, 0), Held(balance, 1)>>])
        /\ UNCHANGED <<feeProtocol, protocolFees, swapSender, deposit, balance>>

\* The mint callback returns: it has paid the tokens in `paid' what was asked.
MintCallback(paid) ==
    /\ At("mint", "pay")
    /\ balance' = [t \in Token |->
                     [balance[t] EXCEPT !["erc20"] = IF t \in paid THEN @ + Top.due[t + 1] ELSE @]]
    /\ calls' = AtPhase("paid")
    /\ UNCHANGED <<price, feeProtocol, unlocked, permit, protocolFees, swapSender, deposit,
                   positions, saved, ops>>

MintEnd ==
    /\ At("mint", "paid")
    /\ \A t \in Token : Top.due[t + 1] > 0 =>
           Top.before[t + 1] + Top.due[t + 1] <= Held(balance, t)
    /\ Return
    /\ UNCHANGED <<price, feeProtocol, permit, protocolFees, swapSender, deposit, positions,
                   balance, ops>>

(***************************************************************************)
(* burn: no transfer, the position is owed what its liquidity was worth.    *)
(***************************************************************************)
Burn(k, dL) ==
    LET due == PositionAmounts(k, -dL)
    IN  /\ Begin /\ LockAndRelease
        /\ ModifyPosition(k, -dL, <<-due[1], -due[2]>>)
        /\ UNCHANGED <<feeProtocol, protocolFees, swapSender, deposit, balance, calls, saved>>

(***************************************************************************)
(* collect and collectProtocol: what is owed is written down before it is   *)
(* delivered, one token after the other, and each delivery may call the     *)
(* recipient.  `due' holds the amounts, fixed at the start.                 *)
(***************************************************************************)
\* Delivery of n of t in version v, if there is anything to deliver.
Deliver(t, v, n) ==
    IF n = 0 THEN UNCHANGED balance
    ELSE Deliverable(balance, t, n) /\ balance' = Delivered(balance, t, v, n)

AtMost(n, m) == IF n > m THEN m ELSE n

\* Control stays in the pool when nothing was delivered.
AfterDelivery(n, inside) == IF n > 0 THEN "out" ELSE inside

Collect(k, requested, vers) ==
    LET due == [t \in Token |-> AtMost(requested[t], positions[k].owed[t])]
    IN  /\ Begin /\ Save /\ Lock
        /\ positions' = [positions EXCEPT ![k].owed[0] = @ - due[0]]
        /\ Deliver(0, vers[0], due[0])
        /\ calls' = Append(calls, [op |-> "collect", phase |-> AfterDelivery(due[0], "next"),
                                   unlocks |-> ~permit, key |-> k, due |-> due,
                                   vers |-> vers, next |-> TRUE])
        /\ UNCHANGED <<price, feeProtocol, protocolFees, swapSender, deposit>>

CollectNext ==
    /\ calls # Idle /\ Top.op = "collect" /\ Top.next
    /\ positions' = [positions EXCEPT ![Top.key].owed[1] = @ - Top.due[1]]
    /\ Deliver(1, Top.vers[1], Top.due[1])
    /\ calls' = [calls EXCEPT ![Len(calls)].phase = AfterDelivery(Top.due[1], "end"),
                              ![Len(calls)].next = FALSE]
    /\ UNCHANGED <<price, feeProtocol, unlocked, permit, protocolFees, swapSender, deposit,
                   saved, ops>>

\* One unit stays behind when everything is asked for.
LeaveOne(t, n) == IF n > 0 /\ n = protocolFees[t] THEN n - 1 ELSE n

CollectProtocol(requested, vers) ==
    LET due == [t \in Token |-> AtMost(requested[t], protocolFees[t])]
        now == LeaveOne(0, due[0])
    IN  /\ Begin /\ Save /\ Lock
        /\ protocolFees' = [protocolFees EXCEPT ![0] = @ - now]
        /\ Deliver(0, vers[0], now)
        /\ calls' = Append(calls, [op |-> "collectProtocol", phase |-> AfterDelivery(now, "next"),
                                   unlocks |-> ~permit, due |-> due, vers |-> vers, next |-> TRUE])
        /\ UNCHANGED <<price, feeProtocol, swapSender, deposit, positions>>

CollectProtocolNext ==
    /\ calls # Idle /\ Top.op = "collectProtocol" /\ Top.next
    /\ LET now == LeaveOne(1, Top.due[1])
       IN  /\ protocolFees' = [protocolFees EXCEPT ![1] = @ - now]
           /\ Deliver(1, Top.vers[1], now)
           /\ calls' = [calls EXCEPT ![Len(calls)].phase = AfterDelivery(now, "end"),
                                     ![Len(calls)].next = FALSE]
    /\ UNCHANGED <<price, feeProtocol, unlocked, permit, swapSender, deposit, positions,
                   saved, ops>>

CollectEnd ==
    /\ calls # Idle /\ Top.op \in {"collect", "collectProtocol"} /\ ~Top.next
    /\ Return
    /\ UNCHANGED <<price, feeProtocol, permit, protocolFees, swapSender, deposit, positions,
                   balance, ops>>

(***************************************************************************)
(* swap: the loop over the ticks.                                           *)
(***************************************************************************)
In(o) == IF o.zeroForOne THEN 0 ELSE 1
Out(o) == 1 - In(o)

\* mutant: the growth of the output token is not turned over
CrossedForInput(s, o, t) == [s.ticks EXCEPT ![t].outside[In(o)] = s.growth - @]

\* Tick.cross, with the growth of the input token as the swap has it.
Crossed(s, o, t) ==
    [s.ticks EXCEPT ![t].outside[In(o)]  = s.growth - @,
                    ![t].outside[Out(o)] = feeGrowthGlobal[Out(o)] - @]

\* What the step adds to the amounts, the fee growth and the protocol's cut.
Accounted(s, o, step, cut) ==
    [s EXCEPT
       !.remaining   = IF o.amount > 0 THEN @ - (step.in + step.fee) ELSE @ + step.out,
       !.calculated  = IF o.amount > 0 THEN @ - step.out ELSE @ + step.in + step.fee,
       !.price       = step.price,
       !.growth      = IF s.liquidity > 0 THEN @ + MulDiv(step.fee - cut, Q128, s.liquidity) ELSE @,
       !.protocolFee = @ + cut]

Cut(o, fee) == IF feeProtocol[In(o)] > 0 THEN fee \div feeProtocol[In(o)] ELSE 0

StepTaken(s, o, step) == Accounted(s, o, step, Cut(o, step.fee))

Net(s, o, t) == IF o.zeroForOne THEN -s.ticks[t].net ELSE s.ticks[t].net

\* The tick after a step from price p: beyond the next tick if it is reached,
\* which is crossed if initialized.
Shifted(s, p, o, to, initialized) ==
    CASE s.price = SqrtRatio[to] /\ initialized ->
           [s EXCEPT !.tick = IF o.zeroForOne THEN to - 1 ELSE to,
                     !.ticks = Crossed(s, o, to), !.liquidity = @ + Net(s, o, to)]
      [] s.price = SqrtRatio[to] /\ ~initialized ->
           [s EXCEPT !.tick = IF o.zeroForOne THEN to - 1 ELSE to]
      [] s.price # SqrtRatio[to] /\ s.price # p ->
           [s EXCEPT !.tick = TickAtSqrtRatio(s.price)]
      [] OTHER -> s

\* The price a step aims at: the next tick's, but not beyond the limit.
Target(o, to) ==
    IF o.zeroForOne THEN Max({SqrtRatio[to], o.limit}) ELSE Min({SqrtRatio[to], o.limit})

StepTowards(s, o, to, initialized) ==
    Shifted(StepTaken(s, o, ComputeSwapStep(s.price, Target(o, to), s.liquidity, s.remaining)),
            s.price, o, to, initialized)

SwapStep(s, o) ==
    LET next == NextTick(s.tick, o.zeroForOne)
    IN  StepTowards(s, o, Max({MinTick, Min({MaxTick, next.tick})}), next.initialized)

Unfinished(s, o) == s.remaining # 0 /\ s.price # o.limit
SwapRound(s, o) == IF Unfinished(s, o) THEN SwapStep(s, o) ELSE s

SwapStart(o) ==
    [remaining |-> o.amount, calculated |-> 0, price |-> sqrtPrice, tick |-> tick,
     growth |-> feeGrowthGlobal[In(o)], protocolFee |-> 0,
     liquidity |-> liquidity, ticks |-> ticks]

\* The loop, by the rounds it has made.  A round that is not the last leaves
\* the tick it began in, so no swap has more rounds than there are ticks.
Rounds == MaxTick - MinTick

SwapResult(o) ==
    LET after[n \in 0 .. Rounds] ==
            IF n = 0 THEN SwapStart(o) ELSE SwapRound(after[n - 1], o)
    IN  after[Rounds]

\* The price limit is beyond the price, in the direction of the swap.
LimitAllowed(o) ==
    IF o.zeroForOne THEN o.limit < sqrtPrice /\ o.limit > SqrtRatio[MinTick]
                    ELSE o.limit > sqrtPrice /\ o.limit < SqrtRatio[MaxTick]

(***************************************************************************)
(* swap and swapExactInput: the new price is written, then the input is     *)
(* taken from the deposit of swap_sender or asked from it in a callback,    *)
(* and only then the output is delivered.  `stack' is the calls below.      *)
(*                                                                         *)
(* swapExactInput is a swap with a positive amount and a least output, min. *)
(* One that unwraps ether has the output delivered to the pool itself as    *)
(* ERC-20 and withdraws it, which costs the pool what a delivery costs.     *)
(***************************************************************************)
SwapBody(sender, o, stack) ==
    \E s \in {SwapResult(o)} :
    LET payer == IF swapSender = NoOne THEN sender ELSE swapSender
        due   == IF o.amount > 0 THEN o.amount - s.remaining ELSE s.calculated
        out   == IF o.amount > 0 THEN -s.calculated ELSE s.remaining - o.amount
        frame == [op |-> "swap", phase |-> "pay", unlocks |-> ~permit, order |-> o,
                  due |-> due, out |-> out, before |-> Held(balance, In(o))]
    IN  /\ LimitAllowed(o)
        /\ sqrtPrice' = s.price /\ tick' = s.tick
        /\ liquidity' = s.liquidity /\ ticks' = s.ticks
        /\ feeGrowthGlobal' = [feeGrowthGlobal EXCEPT ![In(o)] = s.growth]
        /\ protocolFees' = [protocolFees EXCEPT ![In(o)] = @ + s.protocolFee]
        /\ swapSender' = payer
        /\ IF due \in 0 .. deposit[payer][In(o)]      \* uint256(due) is huge if negative
           THEN /\ deposit' = [deposit EXCEPT ![payer][In(o)] = @ - due]
                /\ Deliver(Out(o), o.ver, out)
                /\ calls' = Append(stack, [frame EXCEPT !.phase = AfterDelivery(out, "end")])
           ELSE /\ calls' = Append(stack, frame)
                /\ UNCHANGED <<deposit, balance>>
        /\ UNCHANGED <<feeProtocol, bitmap, positions>>

Swap(u, o) == Begin /\ Save /\ Lock /\ SwapBody(u, o, calls)

\* The swap callback returns, with the input paid or not.
SwapCallback(pays) ==
    /\ At("swap", "pay")
    /\ balance' = IF pays THEN [balance EXCEPT ![In(Top.order)]["erc20"] = @ + Top.due]
                          ELSE balance
    /\ calls' = AtPhase("paid")
    /\ UNCHANGED <<price, feeProtocol, unlocked, permit, protocolFees, swapSender, deposit,
                   positions, saved, ops>>

SwapDeliver ==
    /\ At("swap", "paid")
    /\ Top.before + Top.due <= Held(balance, In(Top.order))
    /\ Deliver(Out(Top.order), Top.order.ver, Top.out)
    /\ calls' = AtPhase(AfterDelivery(Top.out, "end"))
    /\ UNCHANGED <<price, feeProtocol, unlocked, permit, protocolFees, swapSender, deposit,
                   positions, saved, ops>>

SwapEnd ==
    /\ At("swap", "out") \/ At("swap", "end")
    /\ Top.out >= Top.order.min
    /\ swapSender' = NoOne
    /\ Return
    /\ UNCHANGED <<price, feeProtocol, permit, protocolFees, deposit, positions, balance, ops>>

(***************************************************************************)
(* tokenReceived: a user sends n of the ERC-223 version of t.  The payload  *)
(* is a swap, a function that changes nothing ("view"), or absent.  Any     *)
(* other function it could name acts for the token contract, which owns no  *)
(* position here and pays nothing.                                          *)
(***************************************************************************)
TokenReceived(u, t, n, payload) ==
    /\ Begin /\ Save
    /\ unlocked /\ unlocked' = FALSE
    /\ swapSender' = u
    /\ deposit' = [deposit EXCEPT ![u][t] = @ + n]
    /\ balance' = [balance EXCEPT ![t]["erc223"] = @ + n]
    /\ permit' = IF payload.kind = "none" THEN permit ELSE TRUE
    /\ calls' = Append(calls, [op |-> "tokenReceived", unlocks |-> TRUE, from |-> u, token |-> t,
                               payload |-> payload,
                               phase |-> IF payload.kind = "swap" THEN "dispatch" ELSE "refund"])
    /\ UNCHANGED <<price, feeProtocol, protocolFees, positions>>

\* The delegatecall of the payload, msg.sender being the token.
Dispatch ==
    /\ At("tokenReceived", "dispatch")
    /\ Lock
    /\ SwapBody(NoOne, Top.payload.order, AtPhase("refund"))
    /\ UNCHANGED <<saved, ops>>

\* mutant: a permit nobody used stays
RefundKeepsPermit ==
    LET u == Top.from
        t == Top.token
    IN  /\ At("tokenReceived", "refund")
        /\ swapSender' = NoOne
        /\ deposit' = [deposit EXCEPT ![u][t] = 0]
        /\ deposit[u][t] <= balance[t]["erc223"]
        /\ balance' = [balance EXCEPT ![t]["erc223"] = @ - deposit[u][t]]
        /\ calls' = AtPhase("refunded")
        /\ UNCHANGED <<price, feeProtocol, unlocked, permit, protocolFees, positions, saved, ops>>

\* What is left of the deposit goes back, once the accounts are cleared.
Refund ==
    LET u == Top.from
        t == Top.token
    IN  /\ At("tokenReceived", "refund")
        /\ permit' = FALSE /\ swapSender' = NoOne
        /\ deposit' = [deposit EXCEPT ![u][t] = 0]
        /\ deposit[u][t] <= balance[t]["erc223"]
        /\ balance' = [balance EXCEPT ![t]["erc223"] = @ - deposit[u][t]]
        /\ calls' = AtPhase(IF deposit[u][t] > 0 THEN "refunded" ELSE "end")
        /\ UNCHANGED <<price, feeProtocol, unlocked, protocolFees, positions, saved, ops>>

ReceivedEnd ==
    /\ At("tokenReceived", "refunded") \/ At("tokenReceived", "end")
    /\ Return
    /\ UNCHANGED <<price, feeProtocol, permit, protocolFees, swapSender, deposit, positions,
                   balance, ops>>

-----------------------------------------------------------------------------
Versions == [Token -> Version]

Next ==
    \/ \E p \in InitialPrices : Initialize(p)
    \/ \E f0, f1 \in FeeProtocols : SetFeeProtocol(f0, f1)
    \/ \E k \in Keys, dL \in Liquidities : Mint(k, dL)
    \/ \E paid \in SUBSET Token : MintCallback(paid)
    \/ MintEnd
    \/ \E k \in Keys, dL \in Liquidities \cup {0} : Burn(k, dL)
    \/ \E k \in Keys, vers \in Versions, req \in [Token -> Requests] : Collect(k, req, vers)
    \/ CollectNext
    \/ \E vers \in Versions, req \in [Token -> Requests] : CollectProtocol(req, vers)
    \/ CollectProtocolNext
    \/ CollectEnd
    \/ \E u \in Users, o \in Orders : Swap(u, o)
    \/ \E pays \in BOOLEAN : SwapCallback(pays)
    \/ SwapDeliver
    \/ SwapEnd
    \/ \E u \in Users, t \in Token, n \in Values, payload \in Payloads :
           TokenReceived(u, t, n, payload)
    \/ Dispatch
    \/ Refund
    \/ ReceivedEnd
    \/ Revert

Spec == Init /\ [][Next]_vars

(***************************************************************************)
(* Properties.                                                              *)
(***************************************************************************)

\* What a position has coming in fees and released liquidity, and what its
\* owner would have after burning all of it now.
Earned(k, t) == UpdatedPosition(k, 0, ticks).owed[t]
Worth(k, t) == Earned(k, t) - PositionAmounts(k, -positions[k].liquidity)[t + 1]

Owed(t) == protocolFees[t] + SumFunctionOnSet([k \in Keys |-> Worth(k, t)], Keys)
                           + SumFunctionOnSet([u \in Users |-> deposit[u][t]], Users)

\* Between transactions, what the pool holds of a token in both versions
\* covers everything it could be asked for: every position burned and
\* collected, the protocol's fees and any deposit still on the books.  It
\* rests on the direction of every rounding, on each payment being counted
\* once, and on deliveries and refunds spending what they were booked for.
Solvent == calls = Idle /\ sqrtPrice # 0 => \A t \in Token : Owed(t) <= Held(balance, t)

\* The active liquidity is that of the positions around the current tick,
\* and every tick and the bitmap agree with the positions that end there,
\* however the price has crossed them since.
LiquidityAgrees ==
    LET L(S) == SumFunctionOnSet([k \in Keys |-> positions[k].liquidity], S)
        Lowers(t) == {k \in Keys : k.lower = t}
        Uppers(t) == {k \in Keys : k.upper = t}
    IN  /\ liquidity = L({k \in Keys : tick \in k.lower .. k.upper - 1})
        /\ \A t \in Ticks : /\ ticks[t].gross = L(Lowers(t) \cup Uppers(t))
                            /\ ticks[t].net = L(Lowers(t)) - L(Uppers(t))
        /\ bitmap = {t \div TickSpacing : t \in {s \in Ticks : ticks[s].gross > 0}}

\* The current tick is the one of the price; a price that came down to a
\* tick's lower end exactly counts as below it.  Only a pool in which nothing
\* has happened yet has no price, so that it is initialized once.
PriceInTick ==
    \/ sqrtPrice = 0 /\ calls = Idle /\ liquidity = 0
    \/ sqrtPrice # 0 /\ SqrtRatio[tick] <= sqrtPrice /\ sqrtPrice <= SqrtRatio[tick + 1]

\* No swap delivers anything for no input.
NothingForFree ==
    \A i \in DOMAIN calls :
        calls[i].op = "swap" /\ calls[i].out > 0 => calls[i].due > 0

\* An unlocked pool has no call under way, names no swap sender, holds no
\* permit and no deposit: whatever a deposit brought along, nothing of it is
\* left for the next caller.
SettledWhenUnlocked ==
    unlocked => /\ calls = Idle /\ swapSender = NoOne /\ ~permit
                /\ deposit = NoDeposits

\* What a position has earned never shrinks, whoever swaps, mints or burns,
\* until its owner collects; only a failed transaction takes back what it
\* had added itself.
EarningsKept ==
    [][\/ Revert
       \/ \A k \in Keys, t \in Token :
             \/ Earned(k, t)' >= Earned(k, t)
             \/ \E i \in DOMAIN calls' : calls'[i].op = "collect" /\ calls'[i].key = k]_vars
=============================================================================
