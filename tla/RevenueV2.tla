------------------------------ MODULE RevenueV2 ------------------------------
(***************************************************************************)
(* RevenueV2 (contracts/dex-periphery/RevenueV2.sol): stakers of the       *)
(* staking token, in its ERC-20 or its ERC-223 version, earn the protocol  *)
(* fees that arrive as plain transfers of the listed reward tokens.        *)
(*                                                                         *)
(* One action per external function.  A function that pays out is split at *)
(* the external token call: between that call and the return the contract  *)
(* is `locked`, the recipient or the token may run code (`open`), and the  *)
(* functions that carry no nonReentrant modifier can be entered.  A call   *)
(* that reverts changes nothing and is not a step.                         *)
(***************************************************************************)
EXTENDS Integers, Sequences, FiniteSets, Functions

CONSTANTS
    Users,            \* accounts that stake
    Erc20, Erc223,    \* the two versions of the staking token
    RewardTokens,     \* tokens the owner may list as rewards
    OwnerCandidates,  \* accounts ownership may be offered to
    Admin,            \* the deployer
    NoOne,            \* address(0)
    STREAM_SCALE,     \* scale of queued and rate
    RPT_SCALE,        \* further scale of reward_per_token
    MAX_REWARD_TOKENS,
    MAX_SYNC,
    MAX_CLAIM_DELAY,
    CLAIM_DELAY_NOTICE,
    reward_duration,
    min_stake,
    initial_claim_delay

CONSTANTS
    StakeAmounts,     \* version |-> amounts offered to stake, withdraw, deposit
    ArrivalAmounts,   \* token |-> amounts of a plain transfer to the contract
    ClaimLists,       \* argument lists of claim()
    DelayChoices,     \* arguments of set_claim_delay()
    MaxBalance,       \* bound: what the contract may hold of one token
    MaxTime           \* bound: last second modelled

Versions == {Erc20, Erc223}
Tokens == Versions \cup RewardTokens
PRECISION == STREAM_SCALE * RPT_SCALE

ASSUME ScaleAssumption ==
    /\ STREAM_SCALE \in Nat \ {0} /\ RPT_SCALE \in Nat \ {0}
    /\ MAX_SYNC \in Nat \ {0} /\ MAX_REWARD_TOKENS \in Nat
    /\ reward_duration \in 1 .. STREAM_SCALE
ASSUME TokenAssumption ==
    Erc20 # Erc223 /\ Versions \cap RewardTokens = {}
ASSUME UsersAssumption == IsFiniteSet(Users)
ASSUME ParameterAssumption ==
    /\ min_stake \in Nat \ {0}
    /\ MAX_CLAIM_DELAY \in Nat /\ CLAIM_DELAY_NOTICE \in Nat \ {0}
    /\ initial_claim_delay \in 0 .. MAX_CLAIM_DELAY
    /\ DelayChoices \subseteq Nat
    /\ StakeAmounts \in [Versions -> SUBSET Nat]
    /\ ArrivalAmounts \in [Tokens -> SUBSET Nat]
    /\ ClaimLists \subseteq Seq(RewardTokens)
    /\ MaxBalance \in Nat /\ MaxTime \in Nat

VARIABLES
    now,                      \* block.timestamp
    balance,                  \* token |-> balanceOf(this)
    total_staked, staked,
    staked_by_version, total_staked_by_version,
    unlock_time,
    erc223deposit, total_erc223_deposits,
    claim_delay_current, pending_claim_delay, pending_claim_delay_effective,
    reward_data, user_reward_per_token_paid, owed,
    owner, pending_owner,
    locked,                   \* the nonReentrant flag
    open,                     \* an external token call is in progress
    todo                      \* payouts the call in progress still has to make

stakeVars == <<total_staked, staked, staked_by_version,
               total_staked_by_version, unlock_time>>
depositVars == <<erc223deposit, total_erc223_deposits>>
delayVars == <<claim_delay_current, pending_claim_delay,
               pending_claim_delay_effective>>
rewardVars == <<reward_data, user_reward_per_token_paid, owed>>
ownerVars == <<owner, pending_owner>>
callVars == <<locked, open, todo>>
vars == <<now, balance, stakeVars, depositVars, delayVars, rewardVars,
          ownerVars, callVars>>

-----------------------------------------------------------------------------
(* Reward bookkeeping of one token: pure functions of its RewardData.      *)

RewardData == [listed : BOOLEAN, period_finish : Nat, last_update : Nat,
               rate : Nat, reward_per_token : Nat, queued : Nat,
               accounted : Nat]

NoReward == [listed |-> FALSE, period_finish |-> 0, last_update |-> 0,
             rate |-> 0, reward_per_token |-> 0, queued |-> 0,
             accounted |-> 0]

_min(a, b) == IF a < b THEN a ELSE b
mulDiv(a, b, c) == (a * b) \div c

\* What the running stream has released since the last accrual.
Released(r) == r.rate * (_min(now, r.period_finish) - r.last_update)

\* What the running stream has left to release.
Remaining(r) ==
    IF now < r.period_finish THEN r.rate * (r.period_finish - now) ELSE 0

\* mutant: all that was released is queued again, earned or not
AccrueCarriesAll(r) ==
    LET end == _min(now, r.period_finish)
        earnedPart == IF total_staked = 0 THEN 0
                      ELSE mulDiv(Released(r), RPT_SCALE, total_staked)
    IN  IF end <= r.last_update THEN r
        ELSE [r EXCEPT !.reward_per_token = @ + earnedPart,
                       !.queued = @ + Released(r), !.last_update = end]

_accrue(r) ==
    LET end       == _min(now, r.period_finish)
        amount    == Released(r)
        increment == mulDiv(amount, RPT_SCALE, total_staked)
    IN  CASE end <= r.last_update -> r
          [] end > r.last_update /\ total_staked = 0 ->
               [r EXCEPT !.queued = @ + amount, !.last_update = end]
          [] end > r.last_update /\ total_staked # 0 ->
               [r EXCEPT !.reward_per_token = @ + increment,
                         !.queued = @ + (amount - mulDiv(increment, total_staked, RPT_SCALE)),
                         !.last_update = end]

\* mutant: the queue is not emptied into the stream it starts
StreamKeepsQueue(r) ==
    LET rate == (r.queued + Remaining(r)) \div reward_duration
    IN  IF now < r.period_finish \/ rate * reward_duration < STREAM_SCALE THEN r
        ELSE [r EXCEPT !.rate = rate, !.last_update = now,
                       !.period_finish = now + reward_duration]

_startStream(r) ==
    LET pot  == r.queued + Remaining(r)
        rate == pot \div reward_duration
    IN  IF \/ now < r.period_finish /\ r.queued < Remaining(r)
           \/ rate * reward_duration < STREAM_SCALE
        THEN r
        ELSE [r EXCEPT !.queued = pot - rate * reward_duration,
                       !.rate = rate,
                       !.last_update = now,
                       !.period_finish = now + reward_duration]

\* Revenue is what the contract holds above what it has accounted for.
TakeIn(r, bal) ==
    LET incoming == _min(bal - r.accounted, MAX_SYNC)
    IN  IF bal > r.accounted
        THEN [r EXCEPT !.accounted = @ + incoming,
                       !.queued = @ + incoming * STREAM_SCALE]
        ELSE r

\* `readable`: the balanceOf call answered; otherwise intake is skipped.
_sync(r, bal, readable) ==
    _startStream(IF readable THEN TakeIn(_accrue(r), bal) ELSE _accrue(r))

\* What `user` earned at accumulator value rpt since the last settlement.
Unsettled(user, token, rpt) ==
    mulDiv(staked[user], rpt - user_reward_per_token_paid[user][token], PRECISION)

\* The checked subtraction rpt - paid does not revert.
Settleable(user, token, rpt) == user_reward_per_token_paid[user][token] <= rpt

CanCheckpoint(user) ==
    \A t \in RewardTokens :
      reward_data[t].listed =>
        Settleable(user, t, _startStream(_accrue(reward_data[t])).reward_per_token)

\* mutant: the accumulators move on but the user is not settled
CheckpointUnsettled(user) ==
    /\ reward_data' = [t \in RewardTokens |->
         IF reward_data[t].listed
         THEN _startStream(_accrue(reward_data[t])) ELSE reward_data[t]]
    /\ UNCHANGED <<owed, user_reward_per_token_paid>>

\* Every listed token accrued and streamed, `user` settled against each.
_checkpoint(user) ==
    LET Checked(t) == IF reward_data[t].listed
                      THEN _startStream(_accrue(reward_data[t]))
                      ELSE reward_data[t]
        rpt(t) == Checked(t).reward_per_token
    IN  /\ CanCheckpoint(user)
        /\ reward_data' = [t \in RewardTokens |-> Checked(t)]
        /\ owed' = [owed EXCEPT ![user] = [t \in RewardTokens |->
                      IF reward_data[t].listed
                      THEN owed[user][t] + Unsettled(user, t, rpt(t))
                      ELSE owed[user][t]]]
        /\ user_reward_per_token_paid' =
             [user_reward_per_token_paid EXCEPT ![user] = [t \in RewardTokens |->
                IF reward_data[t].listed
                THEN rpt(t) ELSE user_reward_per_token_paid[user][t]]]

claim_delay ==
    IF pending_claim_delay_effective # 0 /\ now >= pending_claim_delay_effective
    THEN pending_claim_delay ELSE claim_delay_current

\* The public view of what `user` could claim of `token` now.
earned(user, token) ==
    LET r   == reward_data[token]
        rpt == IF _min(now, r.period_finish) > r.last_update /\ total_staked # 0
               THEN r.reward_per_token + mulDiv(Released(r), RPT_SCALE, total_staked)
               ELSE r.reward_per_token
    IN  owed[user][token] + Unsettled(user, token, rpt)

-----------------------------------------------------------------------------
(* Payouts.  A payout is an external token call: it opens a window in      *)
(* which foreign code runs; todo holds what the call still has to pay.     *)

PayStakeItem(user, token, amount) ==
    [act |-> "payStake", user |-> user, token |-> token, amount |-> amount]
ClaimItem(user, token) ==
    [act |-> "claim", user |-> user, token |-> token, amount |-> 0]
Items == [act : {"payStake", "claim"}, user : Users, token : Tokens, amount : Nat]

\* nonReentrant functions start here and reset the lock in Return.
Enter == ~locked /\ locked' = TRUE

\* Functions without the modifier also run inside an external call.
Reachable == locked => open

\* TransferHelper.safeTransfer to an account outside the contract.
TransferOut(token, amount) ==
    /\ amount <= balance[token]
    /\ balance' = [balance EXCEPT ![token] = @ - amount]
    /\ open' = TRUE

CanPayStake(user, token, amount) ==
    /\ amount <= staked_by_version[user][token]
    /\ amount <= total_staked_by_version[token]
    /\ amount <= balance[token]

_payStake(user, token, amount) ==
    /\ CanPayStake(user, token, amount)
    /\ staked_by_version' = [staked_by_version EXCEPT ![user][token] = @ - amount]
    /\ total_staked_by_version' = [total_staked_by_version EXCEPT ![token] = @ - amount]
    /\ TransferOut(token, amount)

CanClaimOne(user, token, readable) ==
    LET r      == _sync(reward_data[token], balance[token], readable)
        amount == owed[user][token] + Unsettled(user, token, r.reward_per_token)
    IN  /\ reward_data[token].listed
        /\ Settleable(user, token, r.reward_per_token)
        /\ amount <= r.accounted /\ amount <= balance[token]

\* One round of the claim loop: take revenue in, settle, pay what is owed.
ClaimOne(user, token) ==
    \E readable \in BOOLEAN :
      LET r      == _sync(reward_data[token], balance[token], readable)
          amount == owed[user][token] + Unsettled(user, token, r.reward_per_token)
      IN  /\ CanClaimOne(user, token, readable)
          /\ reward_data' = [reward_data EXCEPT ![token] = [r EXCEPT !.accounted = @ - amount]]
          /\ user_reward_per_token_paid' =
               [user_reward_per_token_paid EXCEPT ![user][token] = r.reward_per_token]
          /\ owed' = [owed EXCEPT ![user][token] = 0]
          /\ IF amount = 0 THEN UNCHANGED balance /\ open' = FALSE
                           ELSE TransferOut(token, amount)

-----------------------------------------------------------------------------
(* Staking.                                                                *)

AlwaysUnlocked(user) == TRUE   \* mutant: the lock is not checked
Unlocked(user) == now >= unlock_time[user]

\* stake(): from a prior deposit when one covers it, else by transferFrom.
\* The hook an ERC-223 transferFrom may call back finds `pulling` set and
\* returns, so the pull is one step.
stake(user, token, amount) ==
    /\ ~locked
    /\ amount # 0
    /\ staked[user] + amount >= min_stake
    /\ _checkpoint(user)
    /\ IF token = Erc223 /\ erc223deposit[user] >= amount
       THEN /\ amount <= total_erc223_deposits
            /\ erc223deposit' = [erc223deposit EXCEPT ![user] = @ - amount]
            /\ total_erc223_deposits' = total_erc223_deposits - amount
            /\ UNCHANGED balance
       ELSE /\ balance[token] + amount <= MaxBalance
            /\ balance' = [balance EXCEPT ![token] = @ + amount]
            /\ UNCHANGED depositVars
    /\ staked' = [staked EXCEPT ![user] = @ + amount]
    /\ total_staked' = total_staked + amount
    /\ staked_by_version' = [staked_by_version EXCEPT ![user][token] = @ + amount]
    /\ total_staked_by_version' = [total_staked_by_version EXCEPT ![token] = @ + amount]
    /\ unlock_time' = [unlock_time EXCEPT ![user] = now + claim_delay]
    /\ UNCHANGED <<now, delayVars, ownerVars, callVars>>

withdraw(user, token, amount) ==
    /\ Enter /\ todo' = <<>>
    /\ amount # 0
    /\ Unlocked(user)
    /\ amount <= staked[user] /\ amount <= total_staked
    /\ staked[user] = amount \/ staked[user] - amount >= min_stake
    /\ _checkpoint(user)
    /\ staked' = [staked EXCEPT ![user] = @ - amount]
    /\ total_staked' = total_staked - amount
    /\ _payStake(user, token, amount)
    /\ UNCHANGED <<now, unlock_time, depositVars, delayVars, ownerVars>>

CanLeave(user) ==
    /\ staked[user] # 0 /\ staked[user] <= total_staked
    /\ Unlocked(user)

\* The tail withdraw_all() and emergency_withdraw() share: the position is
\* cleared, then each non-empty part is paid in its own version.
LeaveWith(user) ==
    LET part20  == staked_by_version[user][Erc20]
        part223 == staked_by_version[user][Erc223]
    IN  /\ CanLeave(user)
        /\ staked' = [staked EXCEPT ![user] = 0]
        /\ total_staked' = total_staked - staked[user]
        /\ IF part20 # 0
           THEN /\ _payStake(user, Erc20, part20)
                /\ todo' = IF part223 # 0
                           THEN <<PayStakeItem(user, Erc223, part223)>> ELSE <<>>
           ELSE /\ _payStake(user, Erc223, part223)
                /\ todo' = <<>>
        /\ UNCHANGED <<now, unlock_time, depositVars, delayVars, ownerVars>>

withdraw_all(user) ==
    /\ Enter
    /\ _checkpoint(user)
    /\ LeaveWith(user)

\* The unsettled share goes back to the queue, nothing is accrued.
Forfeit(user, token) ==
    LET r    == reward_data[token]
        paid == user_reward_per_token_paid[user][token]
    IN  IF r.listed /\ r.reward_per_token > paid
        THEN [r EXCEPT !.queued =
                @ + mulDiv(staked[user], r.reward_per_token - paid, PRECISION) * STREAM_SCALE]
        ELSE r

emergency_withdraw(user) ==
    /\ Enter
    /\ reward_data' = [t \in RewardTokens |-> Forfeit(user, t)]
    /\ user_reward_per_token_paid' =
         [user_reward_per_token_paid EXCEPT ![user] = [t \in RewardTokens |->
            IF reward_data[t].listed /\ reward_data[t].reward_per_token > @[t]
            THEN reward_data[t].reward_per_token ELSE @[t]]]
    /\ UNCHANGED owed
    /\ LeaveWith(user)

-----------------------------------------------------------------------------
(* Rewards.                                                                *)

\* A list that names an unlisted token reverts as a whole.
claim(user, tokens) ==
    /\ Enter
    /\ tokens # <<>>
    /\ \A i \in 1 .. Len(tokens) : reward_data[tokens[i]].listed
    /\ ClaimOne(user, Head(tokens))
    /\ todo' = [i \in 1 .. Len(tokens) - 1 |-> ClaimItem(user, tokens[i + 1])]
    /\ UNCHANGED <<now, stakeVars, depositVars, delayVars, ownerVars>>

\* sync() and syncAll() make view calls only, so a call for several tokens
\* is a sequence of these steps.
sync(token) ==
    /\ ~locked
    /\ reward_data[token].listed
    /\ \E readable \in BOOLEAN :
         reward_data' = [reward_data EXCEPT ![token] = _sync(@, balance[token], readable)]
    /\ UNCHANGED <<now, balance, stakeVars, depositVars, delayVars, ownerVars,
                   callVars, user_reward_per_token_paid, owed>>

\* The call in progress goes on after an external call returned.
Continue ==
    /\ locked /\ todo # <<>>
    /\ todo' = Tail(todo)
    /\ LET item == Head(todo)
       IN  \/ /\ item.act = "payStake"
              /\ _payStake(item.user, item.token, item.amount)
              /\ UNCHANGED <<total_staked, staked, unlock_time, rewardVars>>
           \/ /\ item.act = "claim"
              /\ ClaimOne(item.user, item.token)
              /\ UNCHANGED stakeVars
    /\ UNCHANGED <<now, locked, depositVars, delayVars, ownerVars>>

Return ==
    /\ locked /\ todo = <<>>
    /\ locked' = FALSE /\ open' = FALSE
    /\ UNCHANGED <<now, balance, stakeVars, depositVars, delayVars, rewardVars,
                   ownerVars, todo>>

-----------------------------------------------------------------------------
(* ERC-223 deposits.                                                       *)

\* A hooked ERC-223 transfer to the contract; it bounces while locked.
tokenReceived(user, amount) ==
    /\ ~locked
    /\ balance[Erc223] + amount <= MaxBalance
    /\ balance' = [balance EXCEPT ![Erc223] = @ + amount]
    /\ erc223deposit' = [erc223deposit EXCEPT ![user] = @ + amount]
    /\ total_erc223_deposits' = total_erc223_deposits + amount
    /\ UNCHANGED <<now, stakeVars, delayVars, rewardVars, ownerVars, callVars>>

withdrawDeposit(user) ==
    /\ Enter /\ todo' = <<>>
    /\ erc223deposit[user] # 0 /\ erc223deposit[user] <= total_erc223_deposits
    /\ erc223deposit' = [erc223deposit EXCEPT ![user] = 0]
    /\ total_erc223_deposits' = total_erc223_deposits - erc223deposit[user]
    /\ TransferOut(Erc223, erc223deposit[user])
    /\ UNCHANGED <<now, stakeVars, delayVars, rewardVars, ownerVars>>

-----------------------------------------------------------------------------
(* Owner.  Only sweep() is nonReentrant.                                   *)

add_reward_token(token) ==
    /\ Reachable
    /\ ~reward_data[token].listed
    /\ Cardinality({t \in RewardTokens : reward_data[t].listed}) < MAX_REWARD_TOKENS
    /\ reward_data' = [reward_data EXCEPT ![token].listed = TRUE,
                                          ![token].last_update = now]
    /\ UNCHANGED <<now, balance, stakeVars, depositVars, delayVars, ownerVars,
                   callVars, user_reward_per_token_paid, owed>>

\* mutant: a replacement keeps the date of the increase it replaces
EffectiveKept == IF pending_claim_delay_effective # 0
                 THEN pending_claim_delay_effective ELSE now + CLAIM_DELAY_NOTICE
EffectiveAt == now + CLAIM_DELAY_NOTICE

\* A lower lock applies at once, a higher one after CLAIM_DELAY_NOTICE.
set_claim_delay(delay) ==
    /\ Reachable
    /\ delay <= MAX_CLAIM_DELAY
    /\ IF delay <= claim_delay
       THEN /\ claim_delay_current' = delay
            /\ pending_claim_delay' = 0
            /\ pending_claim_delay_effective' = 0
       ELSE /\ claim_delay_current' = claim_delay
            /\ pending_claim_delay' = delay
            /\ pending_claim_delay_effective' = EffectiveAt
    /\ UNCHANGED <<now, balance, stakeVars, depositVars, rewardVars, ownerVars, callVars>>

\* mutant: unstaked deposits are taken for surplus
SweepsDeposits(token, amount) ==
    /\ token \in RewardTokens => ~reward_data[token].listed
    /\ token \in Versions => balance[token] >= total_staked_by_version[token] + amount
\* mutant: listed reward tokens can be swept
SweepsRewards(token, amount) ==
    token \in Versions =>
      balance[token] >= total_staked_by_version[token] + total_erc223_deposits + amount

\* Staking tokens only above all stakes and deposits; listed rewards never.
Sweepable(token, amount) ==
    /\ token \in RewardTokens => ~reward_data[token].listed
    /\ token = Erc20 => balance[token] >= total_staked_by_version[token] + amount
    /\ token = Erc223 =>
         balance[token] >= total_staked_by_version[token] + total_erc223_deposits + amount

sweep(token, amount) ==
    /\ Enter /\ todo' = <<>>
    /\ Sweepable(token, amount)
    /\ TransferOut(token, amount)
    /\ UNCHANGED <<now, stakeVars, depositVars, delayVars, rewardVars, ownerVars>>

transfer_ownership(account) ==
    /\ Reachable
    /\ pending_owner' = account
    /\ UNCHANGED <<now, balance, stakeVars, depositVars, delayVars, rewardVars,
                   callVars, owner>>

accept_ownership(account) ==
    /\ Reachable
    /\ account = pending_owner /\ account # NoOne
    /\ owner' = account /\ pending_owner' = NoOne
    /\ UNCHANGED <<now, balance, stakeVars, depositVars, delayVars, rewardVars, callVars>>

-----------------------------------------------------------------------------
(* The environment.                                                        *)

\* A plain transfer to the contract: revenue when the token is a reward
\* token, surplus when it is the staking token.  It may come from a window.
Arrive(token, amount) ==
    /\ Reachable
    /\ balance[token] + amount <= MaxBalance
    /\ balance' = [balance EXCEPT ![token] = @ + amount]
    /\ UNCHANGED <<now, stakeVars, depositVars, delayVars, rewardVars, ownerVars, callVars>>

\* block.timestamp does not move inside a transaction.
Tick ==
    /\ ~locked
    /\ now < MaxTime
    /\ now' = now + 1
    /\ UNCHANGED <<balance, stakeVars, depositVars, delayVars, rewardVars,
                   ownerVars, callVars>>

Init ==
    /\ now = 0
    /\ balance = [t \in Tokens |-> 0]
    /\ total_staked = 0
    /\ staked = [u \in Users |-> 0]
    /\ staked_by_version = [u \in Users |-> [v \in Versions |-> 0]]
    /\ total_staked_by_version = [v \in Versions |-> 0]
    /\ unlock_time = [u \in Users |-> 0]
    /\ erc223deposit = [u \in Users |-> 0]
    /\ total_erc223_deposits = 0
    /\ claim_delay_current = initial_claim_delay
    /\ pending_claim_delay = 0 /\ pending_claim_delay_effective = 0
    /\ reward_data = [t \in RewardTokens |-> NoReward]
    /\ user_reward_per_token_paid = [u \in Users |-> [t \in RewardTokens |-> 0]]
    /\ owed = [u \in Users |-> [t \in RewardTokens |-> 0]]
    /\ owner = Admin /\ pending_owner = NoOne
    /\ locked = FALSE /\ open = FALSE /\ todo = <<>>

StakerStep(user) ==
    \/ \E token \in Versions : \E amount \in StakeAmounts[token] :
         stake(user, token, amount) \/ withdraw(user, token, amount)
    \/ withdraw_all(user)
    \/ emergency_withdraw(user)
    \/ \E tokens \in ClaimLists : claim(user, tokens)
    \* Without amounts to deposit there is no deposit to take back either.
    \/ \E amount \in StakeAmounts[Erc223] :
         tokenReceived(user, amount) \/ withdrawDeposit(user)

OwnerStep ==
    \/ \E token \in RewardTokens : add_reward_token(token)
    \/ \E delay \in DelayChoices : set_claim_delay(delay)
    \/ \E token \in Tokens : \E amount \in ArrivalAmounts[token] : sweep(token, amount)
    \/ \E account \in OwnerCandidates : transfer_ownership(account)

Next ==
    \/ \E user \in Users : StakerStep(user)
    \/ \E token \in RewardTokens : sync(token)
    \/ Continue
    \/ Return
    \/ OwnerStep
    \/ \E account \in OwnerCandidates : accept_ownership(account)
    \/ \E token \in Tokens : \E amount \in ArrivalAmounts[token] : Arrive(token, amount)
    \/ Tick

Spec == Init /\ [][Next]_vars

-----------------------------------------------------------------------------
(* Properties.                                                             *)

\* Types of the storage variables and of the call frame.
TypeOK ==
    /\ now \in Nat
    /\ balance \in [Tokens -> Nat]
    /\ total_staked \in Nat
    /\ staked \in [Users -> Nat]
    /\ staked_by_version \in [Users -> [Versions -> Nat]]
    /\ total_staked_by_version \in [Versions -> Nat]
    /\ unlock_time \in [Users -> Nat]
    /\ erc223deposit \in [Users -> Nat]
    /\ total_erc223_deposits \in Nat
    /\ claim_delay_current \in Nat
    /\ pending_claim_delay \in Nat
    /\ pending_claim_delay_effective \in Nat
    /\ reward_data \in [RewardTokens -> RewardData]
    /\ user_reward_per_token_paid \in [Users -> [RewardTokens -> Nat]]
    /\ owed \in [Users -> [RewardTokens -> Nat]]
    /\ owner \in OwnerCandidates \cup {Admin}
    /\ pending_owner \in OwnerCandidates \cup {NoOne}
    /\ locked \in BOOLEAN /\ open \in BOOLEAN
    /\ todo \in Seq(Items)

\* Every stake, in the version it was staked in, and every unstaked ERC-223
\* deposit is held by the contract, in every state a foreign contract can
\* observe, the windows inside a payout included ("which this contract
\* always holds in full", staked_by_version).
PrincipalBacked ==
    /\ balance[Erc20] >= total_staked_by_version[Erc20]
    /\ balance[Erc223] >= total_staked_by_version[Erc223] + total_erc223_deposits

\* What is accounted for as reward is held: sweep(), claims and payouts of
\* other tokens never eat into it.
RewardsBacked ==
    \A t \in RewardTokens : reward_data[t].accounted <= balance[t]

\* All the contract owes of a token, in units of 1 / PRECISION: settled and
\* unsettled earnings, the queue, and what the stream has yet to accrue.
Promised(t) ==
    LET r == reward_data[t]
        toCome == IF r.period_finish > r.last_update
                  THEN r.rate * (r.period_finish - r.last_update) ELSE 0
        due(u) == owed[u][t] * PRECISION
                  + staked[u] * (r.reward_per_token - user_reward_per_token_paid[u][t])
    IN  SumFunction([u \in Users |-> due(u)]) + RPT_SCALE * (r.queued + toCome)

\* Everything promised is covered by what was taken in.  _accrue rounds the
\* carry it queues against the stakers by less than one scaled unit, and
\* accrues at most once a second: that is the whole slack, 1 / STREAM_SCALE
\* of a token unit a second.
RewardSolvency ==
    \A t \in RewardTokens :
      Promised(t) <= reward_data[t].accounted * PRECISION + RPT_SCALE * now

\* Whoever is unlocked can leave with the whole position by either exit, a
\* deposit can be taken back, and a payout that began can be completed: no
\* state of the stakes or of the reward bookkeeping makes a check or a checked
\* subtraction of these fail.
EveryoneCanExit ==
    /\ \A u \in Users :
         ~locked /\ staked[u] # 0 /\ now >= unlock_time[u] =>
           /\ CanCheckpoint(u) /\ CanLeave(u)
           /\ \A v \in Versions : CanPayStake(u, v, staked_by_version[u][v])
    /\ \A u \in Users : /\ erc223deposit[u] <= total_erc223_deposits
                       /\ erc223deposit[u] <= balance[Erc223]
    /\ todo # <<>> =>
         LET item == Head(todo) IN
         IF item.act = "payStake" THEN CanPayStake(item.user, item.token, item.amount)
         ELSE \A readable \in BOOLEAN : CanClaimOne(item.user, item.token, readable)

\* No order of claims, stakes and exits leaves a claim that must revert
\* because the reward accounting ran short, whether or not the token answers
\* the balanceOf call.
EveryoneCanClaim ==
    \A u \in Users, t \in RewardTokens, readable \in BOOLEAN :
      reward_data[t].listed => CanClaimOne(u, t, readable)

\* Earnings move with time alone.  At a fixed time no call changes what
\* anybody has earned, except that a claim pays the claimer exactly that,
\* and that the user of an emergency_withdraw forfeits the unsettled part
\* (which can only raise the others' view).
EarningsFollowTime ==
    [][\A u \in Users, t \in RewardTokens :
         IF now' # now THEN earned(u, t)' >= earned(u, t)
         ELSE \/ earned(u, t)' = earned(u, t)
              \/ /\ earned(u, t)' = 0
                 /\ balance'[t] = balance[t] - earned(u, t)
              \/ /\ \E w \in Users : emergency_withdraw(w)
                 /\ earned(u, t)' >= IF staked'[u] = 0 THEN owed[u][t] ELSE earned(u, t)
      ]_vars

\* Principal leaves only unlocked, and to its owner in full: when a part of
\* a position shrinks, its lock has expired and the contract pays out
\* exactly that amount of that version.
PrincipalLeavesUnlocked ==
    [][\A u \in Users, v \in Versions :
         staked_by_version'[u][v] < staked_by_version[u][v] =>
           /\ now >= unlock_time[u]
           /\ balance[v] - balance'[v] = staked_by_version[u][v] - staked_by_version'[u][v]
      ]_vars

=============================================================================
