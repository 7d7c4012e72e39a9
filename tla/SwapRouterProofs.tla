-------------------------- MODULE SwapRouterProofs --------------------------
(***************************************************************************)
(* The router between calls, for any users, tokens, paths and depth: a call *)
(* that has ended, in whatever way others came in meanwhile, leaves no     *)
(* sender, permit, lock or pool behind (SettledWhenIdle).                  *)
(***************************************************************************)
EXTENDS SwapRouter, SumLemmas, SequenceTheorems, TLAPS

(***************************************************************************)
(* Frames.                                                                 *)
(***************************************************************************)
Routes == {p \in Seq(Assets) : Len(p) >= 2}

Phases == {"run", "pool", "paid", "inside", "outside"}

DepositFrames ==
    [kind : {"deposit"}, by : Users, token : Tokens, todo : Seq({"swap", "unwrap"}),
     data : BOOLEAN, took : BOOLEAN, phase : Phases]

InputFrames ==
    [kind : {"input"}, by : Users, sender : Users \cup Tokens, path : Routes,
     amount : Amounts, to : Users \cup {Router}, prefer : BOOLEAN,
     payer : Users \cup {Router, NoOne}, took : BOOLEAN, phase : Phases]

OutputFrames ==
    [kind : {"output"}, by : Users, path : Routes, hop : Nat \ {0}, amount : Amounts,
     to : Users \cup {Router}, took : BOOLEAN, phase : Phases]

Frames == DepositFrames \cup InputFrames \cup OutputFrames

TypeOK ==
    /\ calls \in Seq(Frames)
    /\ unlocked \in BOOLEAN /\ erc223CallPermit \in BOOLEAN
    /\ call_sender \in Users \cup {NoOne}

\* The call under way at the bottom took the lock, the others came in on a permit.
LockHeld ==
    /\ unlocked <=> calls = <<>>
    /\ \A n \in 1..Len(calls) : calls[n].took <=> n = Len(calls)

\* A permit is that of the latest call, a deposit with a call to dispatch.
PermitOfDeposit ==
    erc223CallPermit =>
        calls # <<>> /\ calls[1].kind = "deposit" /\ calls[1].data

\* What is set belongs to a call that will clear it.
HasCall(S) == \E n \in 1..Len(calls) : calls[n].kind \in S
SendersHaveCalls ==
    /\ call_sender # NoOne => HasCall({"deposit", "input"})
    /\ token_sender # NoOne => HasCall({"deposit"})
\* A pool that may call back was called by the swap on top, and is the one that is
\* delivering when the swap has been paid.
Expects(f, p) ==
    /\ f.kind # "deposit" /\ f.phase # "run"
    /\ f.phase # "pool" => p = Pool(f.path)
PoolHasCall == expectedCallbackPool # NoOne => calls # <<>> /\ Expects(calls[1], expectedCallbackPool)

IInv == TypeOK /\ LockHeld /\ PermitOfDeposit /\ SendersHaveCalls /\ PoolHasCall

-----------------------------------------------------------------------------
(* The stack.                                                              *)

\* The first frame and the rest of a stack.
LEMMA TopFrame ==
  ASSUME TypeOK, calls # <<>>
  PROVE  /\ Top \in Frames /\ Top = calls[1] /\ Len(calls) \in Nat /\ Len(calls) >= 1
         /\ Tail(calls) \in Seq(Frames) /\ Len(Tail(calls)) = Len(calls) - 1
         /\ \A n \in 1..Len(calls) - 1 : Tail(calls)[n] = calls[n + 1]
  BY DEF TypeOK, Top

\* A call that comes in.
LEMMA Pushed ==
  ASSUME TypeOK, NEW f \in Frames, calls' = <<f>> \o calls
  PROVE  /\ calls' \in Seq(Frames) /\ calls' # <<>>
         /\ Len(calls) \in Nat /\ Len(calls') = Len(calls) + 1 /\ calls'[1] = f
         /\ \A n \in 1..Len(calls) : n + 1 \in 1..Len(calls') /\ calls'[n + 1] = calls[n]
         /\ \A n \in 1..Len(calls') : n # 1 => n - 1 \in 1..Len(calls) /\ calls'[n] = calls[n - 1]
  BY DEF TypeOK

\* A call that goes on.
LEMMA Replaced ==
  ASSUME TypeOK, calls # <<>>, NEW f \in Frames, calls' = <<f>> \o Tail(calls)
  PROVE  /\ calls' \in Seq(Frames) /\ calls' # <<>>
         /\ Len(calls) \in Nat /\ Len(calls') = Len(calls) /\ calls'[1] = f
         /\ \A n \in 1..Len(calls) : n # 1 => calls'[n] = calls[n]
  BY DEF TypeOK

\* A call that ends.
LEMMA Popped ==
  ASSUME TypeOK, calls # <<>>, calls' = Tail(calls)
  PROVE  /\ calls' \in Seq(Frames)
         /\ Len(calls) \in Nat /\ Len(calls') = Len(calls) - 1
         /\ (calls' = <<>>) <=> (Len(calls) = 1)
         /\ \A n \in 1..Len(calls') : n + 1 \in 1..Len(calls) /\ calls'[n] = calls[n + 1]
         /\ \A n \in 1..Len(calls) : n # 1 => n - 1 \in 1..Len(calls') /\ calls'[n - 1] = calls[n]
<1>1. calls \in Seq(Frames)  BY DEF TypeOK
<1>2. /\ calls' \in Seq(Frames) /\ Len(calls) \in Nat /\ Len(calls) >= 1
      /\ Len(calls') = Len(calls) - 1
      /\ \A n \in 1..Len(calls') : calls'[n] = calls[n + 1]
  BY <1>1
<1>3. (calls' = <<>>) <=> (Len(calls') = 0)  BY <1>2, EmptySeq
<1> QED  BY <1>2, <1>3

-----------------------------------------------------------------------------
(* What each way to treat the stack keeps.                                 *)

\* Nothing of the context changes.
LEMMA ContextKept ==
  ASSUME IInv, UNCHANGED <<contextVars, calls>>
  PROVE  IInv'
  BY DEF IInv, TypeOK, LockHeld, PermitOfDeposit, SendersHaveCalls, HasCall, PoolHasCall, Expects,
         contextVars

\* With no swap on top no pool may call back.
LEMMA NoPoolWaits ==
  ASSUME IInv, calls # <<>> => calls[1].kind = "deposit"
  PROVE  expectedCallbackPool = NoOne
  BY DEF IInv, PoolHasCall, Expects

LEMMA NoPoolAtEntry ==
  ASSUME IInv, CanEnter
  PROVE  expectedCallbackPool = NoOne
<1>1. calls # <<>> => calls[1].kind = "deposit"
  BY DEF IInv, CanEnter, LockHeld, PermitOfDeposit
<1> QED  BY <1>1, NoPoolWaits

\* A call that comes in takes the lock, or the permit of the deposit under way.
LEMMA EnterKeeps ==
  ASSUME IInv, NEW f \in Frames, NEW permitAfter \in BOOLEAN,
         Enter(permitAfter), calls' = <<f>> \o calls, CanEnter,
         f.took = ~ erc223CallPermit,
         permitAfter => f.kind = "deposit" /\ f.data
  PROVE  LockHeld' /\ PermitOfDeposit' /\ calls' \in Seq(Frames)
         /\ unlocked' \in BOOLEAN /\ erc223CallPermit' \in BOOLEAN
<1>1. TypeOK /\ LockHeld /\ PermitOfDeposit  BY DEF IInv
<1>2. erc223CallPermit <=> calls # <<>>
  BY <1>1 DEF CanEnter, LockHeld, PermitOfDeposit, TypeOK
<1>3. unlocked' = FALSE  BY <1>1, <1>2 DEF Enter, LockHeld, TypeOK
<1>4. erc223CallPermit' = permitAfter  BY DEF Enter
<1>5. \A n \in 1..Len(calls') : calls'[n].took <=> n = Len(calls')
  <2> SUFFICES ASSUME NEW n \in 1..Len(calls')
               PROVE  calls'[n].took <=> n = Len(calls')
    OBVIOUS
  <2>1. CASE n = 1
    <3>1. Len(calls') = 1 <=> calls = <<>>  BY <1>1, Pushed DEF TypeOK
    <3>2. calls'[n] = f  BY <1>1, <2>1, Pushed
    <3> QED  BY <1>1, <1>2, <2>1, <3>1, <3>2 DEF TypeOK
  <2>2. CASE n # 1
    <3>1. n - 1 \in 1..Len(calls) /\ calls'[n] = calls[n - 1] /\ Len(calls') = Len(calls) + 1
      BY <1>1, <2>2, Pushed
    <3>2. calls[n - 1].took <=> n - 1 = Len(calls)  BY <1>1, <3>1 DEF LockHeld
    <3>3. Len(calls) \in Nat  BY <1>1 DEF TypeOK
    <3> QED  BY <3>1, <3>2, <3>3
  <2> QED  BY <2>1, <2>2
<1>6. calls' \in Seq(Frames) /\ calls' # <<>> /\ calls'[1] = f  BY <1>1, Pushed
<1> QED  BY <1>3, <1>4, <1>5, <1>6 DEF LockHeld, PermitOfDeposit

\* The calls under way stay below it.
LEMMA PushKeepsCalls ==
  ASSUME TypeOK, NEW f \in Frames, calls' = <<f>> \o calls
  PROVE  \A S : HasCall(S) \/ f.kind \in S => HasCall(S)'
<1>1. /\ Len(calls) \in Nat /\ Len(calls') = Len(calls) + 1 /\ calls'[1] = f
      /\ \A n \in 1..Len(calls) : n + 1 \in 1..Len(calls') /\ calls'[n + 1] = calls[n]
  BY Pushed
<1>2. 1 \in 1..Len(calls')  BY <1>1
<1> QED  BY <1>1, <1>2 DEF HasCall

\* A call that goes on as what it was keeps the lock and the senders.
LEMMA ReplaceKeeps ==
  ASSUME TypeOK, calls # <<>>, NEW f \in Frames, calls' = <<f>> \o Tail(calls),
         f.kind = Top.kind, f.took = Top.took
  PROVE  /\ LockHeld /\ unlocked' = unlocked => LockHeld'
         /\ \A S : HasCall(S) => HasCall(S)'
         /\ calls' \in Seq(Frames) /\ calls' # <<>> /\ calls'[1] = f
<1>1. /\ calls' \in Seq(Frames) /\ calls' # <<>> /\ Top = calls[1]
      /\ Len(calls) \in Nat /\ Len(calls) >= 1 /\ Len(calls') = Len(calls) /\ calls'[1] = f
      /\ \A n \in 1..Len(calls) : n # 1 => calls'[n] = calls[n]
  BY Replaced, TopFrame
<1>2. \A n \in 1..Len(calls) : calls'[n].kind = calls[n].kind /\ calls'[n].took = calls[n].took
  BY <1>1
<1>3. ASSUME LockHeld, unlocked' = unlocked PROVE LockHeld'
  <2>1. unlocked' <=> calls' = <<>>  BY <1>1, <1>3 DEF LockHeld
  <2>2. ASSUME NEW n \in 1..Len(calls') PROVE calls'[n].took <=> n = Len(calls')
    <3>1. n \in 1..Len(calls) /\ Len(calls') = Len(calls)  BY <1>1
    <3>2. calls[n].took <=> n = Len(calls)  BY <1>3, <3>1 DEF LockHeld
    <3>3. calls'[n].took = calls[n].took  BY <1>2, <3>1
    <3> QED  BY <3>1, <3>2, <3>3
  <2> QED  BY <2>1, <2>2 DEF LockHeld
<1>4. ASSUME NEW S, HasCall(S) PROVE HasCall(S)'
  BY <1>1, <1>2, <1>4 DEF HasCall
<1> QED  BY <1>1, <1>3, <1>4

\* A call that ends releases the lock if it took it.
LEMMA PopKeeps ==
  ASSUME TypeOK, LockHeld, calls # <<>>, calls' = Tail(calls), Release(Top)
  PROVE  /\ LockHeld' /\ calls' \in Seq(Frames) /\ unlocked' \in BOOLEAN
         /\ \A S : HasCall(S) /\ Top.kind \notin S => HasCall(S)'
<1>1. /\ calls' \in Seq(Frames) /\ Top = calls[1] /\ Len(calls) >= 1
      /\ Len(calls) \in Nat /\ Len(calls') = Len(calls) - 1
      /\ (calls' = <<>>) <=> (Len(calls) = 1)
      /\ \A n \in 1..Len(calls') : n + 1 \in 1..Len(calls) /\ calls'[n] = calls[n + 1]
      /\ \A n \in 1..Len(calls) : n # 1 => n - 1 \in 1..Len(calls') /\ calls'[n - 1] = calls[n]
  BY Popped, TopFrame
<1>2. unlocked' <=> calls' = <<>>
  <2>1. Top.took <=> Len(calls) = 1
    <3>1. 1 \in 1..Len(calls)  BY <1>1
    <3>2. calls[1].took <=> 1 = Len(calls)  BY <3>1 DEF LockHeld
    <3> QED  BY <1>1, <3>2
  <2>2. unlocked = FALSE  BY DEF LockHeld, TypeOK
  <2> QED  BY <1>1, <2>1, <2>2 DEF Release
<1>3. ASSUME NEW n \in 1..Len(calls') PROVE calls'[n].took <=> n = Len(calls')
  <2>1. n + 1 \in 1..Len(calls) /\ calls'[n] = calls[n + 1]  BY <1>1
  <2>2. calls[n + 1].took <=> n + 1 = Len(calls)  BY <2>1 DEF LockHeld
  <2>3. calls'[n].took = calls[n + 1].took  BY <2>1
  <2>4. n + 1 = Len(calls) <=> n = Len(calls')
    <3>1. n \in Int  OBVIOUS
    <3> QED  BY <1>1, <3>1
  <2> QED  BY <2>2, <2>3, <2>4
<1>4. unlocked' \in BOOLEAN
  <2>1. Top \in Frames  BY TopFrame
  <2>2. Top.took \in BOOLEAN
    BY <2>1 DEF Frames, DepositFrames, InputFrames, OutputFrames
  <2> QED  BY <2>2 DEF Release, TypeOK
<1>5. ASSUME NEW S, HasCall(S), Top.kind \notin S PROVE HasCall(S)'
  BY <1>1, <1>5 DEF HasCall
<1> QED  BY <1>1, <1>2, <1>3, <1>4, <1>5 DEF LockHeld

-----------------------------------------------------------------------------
(* The actions.                                                            *)

\* The frame of a swap for an exact input.
LEMMA SwapFrame ==
  ASSUME call_sender' \in Users \cup {NoOne},
         NEW u \in Users, NEW sender \in Users \cup Tokens, NEW path \in Paths,
         NEW amount \in Amounts, NEW to \in Users \cup {Router}, NEW prefer \in BOOLEAN,
         erc223CallPermit \in BOOLEAN
  PROVE  /\ Swap(u, sender, path, amount, to, prefer) \in InputFrames
         /\ Swap(u, sender, path, amount, to, prefer).kind = "input"
         /\ Swap(u, sender, path, amount, to, prefer).took = ~ erc223CallPermit
<1>1. path \in Routes  BY RouterAssumption DEF Routes
<1> QED  BY <1>1 DEF Swap, InputFrames, Phases

\* A deposit comes in with the lock or on a permit, and names its sender.
LEMMA DepositKeeps ==
  ASSUME IInv, NEW u \in Users, NEW t \in Tokens, NEW v \in Amounts, NEW todo \in Payloads,
         tokenReceived(u, t, v, todo)
  PROVE  IInv'
<1> DEFINE f == [kind |-> "deposit", by |-> u, token |-> t, todo |-> todo, data |-> todo # <<>>,
                 took |-> ~ erc223CallPermit, phase |-> "run"]
<1>1. TypeOK /\ SendersHaveCalls  BY DEF IInv
<1>2. todo \in Seq({"swap", "unwrap"})
  <2>1. <<>> \in Seq({"swap", "unwrap"})  OBVIOUS
  <2>2. <<"swap">> \in Seq({"swap", "unwrap"})  OBVIOUS
  <2>3. <<"unwrap">> \in Seq({"swap", "unwrap"})  OBVIOUS
  <2>4. <<"unwrap", "swap">> \in Seq({"swap", "unwrap"})  OBVIOUS
  <2> QED  BY <2>1, <2>2, <2>3, <2>4 DEF Payloads
<1>3. f \in Frames  BY <1>1, <1>2 DEF Frames, DepositFrames, Phases, TypeOK
<1>4. calls' = <<f>> \o calls /\ Enter(todo # <<>>) /\ call_sender' = u
      /\ expectedCallbackPool' = expectedCallbackPool
  BY DEF tokenReceived, Push
<1>5. LockHeld' /\ PermitOfDeposit' /\ calls' \in Seq(Frames)
      /\ unlocked' \in BOOLEAN /\ erc223CallPermit' \in BOOLEAN
  <2>1. f.took = ~ erc223CallPermit /\ (todo # <<>> => f.kind = "deposit" /\ f.data)
    OBVIOUS
  <2>2. CanEnter  BY <1>4 DEF Enter
  <2>3. (todo # <<>>) \in BOOLEAN  OBVIOUS
  <2> QED  BY <1>3, <1>4, <2>1, <2>2, <2>3, EnterKeeps
<1>6. TypeOK'  BY <1>4, <1>5 DEF TypeOK
<1>7. \A S : f.kind \in S => HasCall(S)'
  BY <1>1, <1>3, <1>4, PushKeepsCalls
<1>8. HasCall({"deposit", "input"})' /\ HasCall({"deposit"})'  BY <1>7
<1>9. PoolHasCall'  BY <1>4, NoPoolAtEntry DEF PoolHasCall, Enter
<1> QED  BY <1>5, <1>6, <1>8, <1>9 DEF IInv, SendersHaveCalls

\* A swap comes in with the lock or on the permit of a deposit.
LEMMA InputKeeps ==
  ASSUME IInv, NEW u \in Users, NEW path \in Paths, NEW amount \in Amounts,
         NEW to \in Users \cup {Router}, NEW prefer \in BOOLEAN, NEW value \in {0} \cup Amounts,
         exactInput(u, path, amount, to, prefer, value)
  PROVE  IInv'
<1> DEFINE f == Swap(u, u, path, amount, to, prefer)
<1>1. TypeOK /\ SendersHaveCalls  BY DEF IInv
<1>2. /\ calls' = <<f>> \o calls /\ Enter(FALSE) /\ CanEnter
      /\ call_sender' = (IF call_sender = NoOne THEN u ELSE call_sender)
      /\ token_sender' = token_sender /\ expectedCallbackPool' = expectedCallbackPool
  BY DEF exactInput, Push, Enter
<1>3. call_sender' \in Users \cup {NoOne} /\ erc223CallPermit \in BOOLEAN
  BY <1>1, <1>2 DEF TypeOK
<1>4. f \in Frames /\ f.kind = "input" /\ f.took = ~ erc223CallPermit
  BY <1>3, SwapFrame DEF Frames
<1> HIDE DEF f
<1>5. LockHeld' /\ PermitOfDeposit' /\ calls' \in Seq(Frames)
      /\ unlocked' \in BOOLEAN /\ erc223CallPermit' \in BOOLEAN
  BY <1>2, <1>4, EnterKeeps
<1>6. TypeOK'  BY <1>3, <1>5 DEF TypeOK
<1>7. \A S : HasCall(S) \/ f.kind \in S => HasCall(S)'
  BY <1>1, <1>2, <1>4, PushKeepsCalls
<1>8. SendersHaveCalls'  BY <1>1, <1>2, <1>4, <1>7 DEF SendersHaveCalls
<1>9. PoolHasCall'  BY <1>2, NoPoolAtEntry DEF PoolHasCall
<1> QED  BY <1>5, <1>6, <1>8, <1>9 DEF IInv

LEMMA OutputKeeps ==
  ASSUME IInv, NEW u \in Users, NEW path \in Paths, NEW amount \in Amounts,
         NEW to \in Users \cup {Router}, NEW value \in {0} \cup Amounts,
         exactOutput(u, path, amount, to, value)
  PROVE  IInv'
<1> DEFINE f == [kind |-> "output", by |-> u, path |-> path, hop |-> 1, amount |-> amount,
                 to |-> to, took |-> ~ erc223CallPermit, phase |-> "pool"]
<1>1. TypeOK /\ SendersHaveCalls  BY DEF IInv
<1>2. /\ calls' = <<f>> \o calls /\ Enter(FALSE) /\ CanEnter
      /\ call_sender' = call_sender /\ token_sender' = token_sender
  BY DEF exactOutput, Push, Enter
<1>3. f \in Frames /\ f.kind = "output" /\ f.took = ~ erc223CallPermit /\ f.phase = "pool"
  <2>1. path \in Routes  BY RouterAssumption DEF Routes
  <2> QED  BY <1>1, <2>1 DEF Frames, OutputFrames, Phases, TypeOK
<1> HIDE DEF f
<1>4. LockHeld' /\ PermitOfDeposit' /\ calls' \in Seq(Frames)
      /\ unlocked' \in BOOLEAN /\ erc223CallPermit' \in BOOLEAN
  BY <1>2, <1>3, EnterKeeps
<1>5. TypeOK'  BY <1>1, <1>2, <1>4 DEF TypeOK
<1>6. \A S : HasCall(S) => HasCall(S)'  BY <1>1, <1>2, <1>3, PushKeepsCalls
<1>7. SendersHaveCalls'  BY <1>1, <1>2, <1>6 DEF SendersHaveCalls
<1>8. PoolHasCall'
  <2>1. calls'[1] = f /\ calls' # <<>>  BY <1>1, <1>2, <1>3, Pushed
  <2> QED  BY <1>3, <2>1 DEF PoolHasCall, Expects
<1> QED  BY <1>4, <1>5, <1>7, <1>8 DEF IInv

\* The recipient of unwrapped ether gets control, and gives it back.
LEMMA UnwrapKeeps ==
  ASSUME IInv, NEW to \in Users, DispatchUnwrap(to)
  PROVE  IInv'
<1> DEFINE f == [Top EXCEPT !.todo = Tail(@), !.phase = "outside"]
<1>1. TypeOK /\ LockHeld /\ PermitOfDeposit /\ SendersHaveCalls /\ PoolHasCall  BY DEF IInv
<1>2. /\ calls # <<>> /\ Top.kind = "deposit" /\ Top.todo # <<>>
      /\ calls' = <<f>> \o Tail(calls) /\ UNCHANGED contextVars
  BY DEF DispatchUnwrap, NextCall, Depositing, Replace, Unwrap
<1>3. Top \in DepositFrames /\ Top = calls[1]
  BY <1>1, <1>2, TopFrame DEF Frames, InputFrames, OutputFrames
<1>4. f \in DepositFrames /\ f.kind = Top.kind /\ f.took = Top.took /\ f.data = Top.data
  <2>1. Tail(Top.todo) \in Seq({"swap", "unwrap"})  BY <1>2, <1>3 DEF DepositFrames
  <2> QED  BY <1>3, <2>1 DEF DepositFrames, Phases
<1> HIDE DEF f
<1>5. f \in Frames  BY <1>4 DEF Frames
<1>6. /\ LockHeld' /\ (\A S : HasCall(S) => HasCall(S)')
      /\ calls' \in Seq(Frames) /\ calls' # <<>> /\ calls'[1] = f
  BY <1>1, <1>2, <1>4, <1>5, ReplaceKeeps DEF contextVars
<1>7. TypeOK' /\ PermitOfDeposit' /\ SendersHaveCalls'
  BY <1>1, <1>2, <1>3, <1>4, <1>6 DEF TypeOK, PermitOfDeposit, SendersHaveCalls, contextVars
<1>8. PoolHasCall'  BY <1>2, <1>3, NoPoolWaits DEF PoolHasCall, contextVars
<1> QED  BY <1>6, <1>7, <1>8 DEF IInv

LEMMA ReturnKeeps ==
  ASSUME IInv, DispatchReturn
  PROVE  IInv'
<1> DEFINE f == [Top EXCEPT !.phase = "run"]
<1>1. TypeOK /\ LockHeld /\ PermitOfDeposit /\ SendersHaveCalls /\ PoolHasCall  BY DEF IInv
<1>2. /\ calls # <<>> /\ Top.kind = "deposit"
      /\ calls' = <<f>> \o Tail(calls) /\ UNCHANGED contextVars
  BY DEF DispatchReturn, Depositing, Replace
<1>3. Top \in DepositFrames /\ Top = calls[1]
  BY <1>1, <1>2, TopFrame DEF Frames, InputFrames, OutputFrames
<1>4. f \in DepositFrames /\ f.kind = Top.kind /\ f.took = Top.took /\ f.data = Top.data
  BY <1>3 DEF DepositFrames, Phases
<1> HIDE DEF f
<1>5. f \in Frames  BY <1>4 DEF Frames
<1>6. /\ LockHeld' /\ (\A S : HasCall(S) => HasCall(S)')
      /\ calls' \in Seq(Frames) /\ calls' # <<>> /\ calls'[1] = f
  BY <1>1, <1>2, <1>4, <1>5, ReplaceKeeps DEF contextVars
<1>7. TypeOK' /\ PermitOfDeposit' /\ SendersHaveCalls'
  BY <1>1, <1>2, <1>3, <1>4, <1>6 DEF TypeOK, PermitOfDeposit, SendersHaveCalls, contextVars
<1>8. PoolHasCall'  BY <1>2, <1>3, NoPoolWaits DEF PoolHasCall, contextVars
<1> QED  BY <1>6, <1>7, <1>8 DEF IInv

\* A deposit that ends clears its sender, its token and its permit.
LEMMA DepositEndKeeps ==
  ASSUME IInv, DepositEnd
  PROVE  IInv'
<1>1. TypeOK /\ LockHeld /\ PermitOfDeposit /\ PoolHasCall  BY DEF IInv
<1>2. /\ calls # <<>> /\ Top.kind = "deposit" /\ calls' = Tail(calls) /\ Release(Top)
      /\ erc223CallPermit' = PermitAfter(Top)
      /\ call_sender' = NoOne /\ token_sender' = NoOne
      /\ expectedCallbackPool' = expectedCallbackPool
  BY DEF DepositEnd, Depositing
<1>3. LockHeld' /\ calls' \in Seq(Frames) /\ unlocked' \in BOOLEAN
  BY <1>1, <1>2, PopKeeps
<1>4. erc223CallPermit' = FALSE
  <2>1. Top = calls[1] /\ Top \in DepositFrames
    BY <1>1, <1>2, TopFrame DEF Frames, InputFrames, OutputFrames
  <2>2. erc223CallPermit => Top.data  BY <1>1, <2>1 DEF PermitOfDeposit
  <2>3. ~ PermitAfter(Top)  BY <2>2 DEF PermitAfter
  <2>4. PermitAfter(Top) \in BOOLEAN  BY DEF PermitAfter
  <2> QED  BY <1>2, <2>3, <2>4
<1>5. PoolHasCall'
  <2>1. Top = calls[1]  BY <1>1, <1>2, TopFrame
  <2> QED  BY <1>2, <2>1, NoPoolWaits DEF PoolHasCall
<1> QED  BY <1>2, <1>3, <1>4, <1>5 DEF IInv, TypeOK, PermitOfDeposit, SendersHaveCalls

\* A dispatched swap is pushed over the deposit that goes on after it.
LEMMA DispatchSwapKeeps ==
  ASSUME IInv, NEW path \in Paths, NEW amount \in Amounts,
         NEW to \in Users \cup {Router}, NEW prefer \in BOOLEAN,
         DispatchSwap(path, amount, to, prefer)
  PROVE  IInv'
<1> DEFINE d == [Top EXCEPT !.todo = Tail(@)]
           f == Swap(Top.by, Top.token, path, amount, to, prefer)
<1>1. TypeOK /\ LockHeld /\ PermitOfDeposit /\ SendersHaveCalls /\ PoolHasCall  BY DEF IInv
<1>2. /\ calls # <<>> /\ Top.kind = "deposit" /\ Top.todo # <<>>
      /\ calls' = <<f, d>> \o Tail(calls) /\ Enter(FALSE) /\ CanEnter
      /\ call_sender' = (IF call_sender = NoOne THEN Top.by ELSE call_sender)
      /\ token_sender' = token_sender /\ expectedCallbackPool' = expectedCallbackPool
  BY DEF DispatchSwap, NextCall, Depositing, Enter
<1>3. /\ Top \in DepositFrames /\ Top = calls[1] /\ Len(calls) \in Nat /\ Len(calls) >= 1
      /\ Tail(calls) \in Seq(Frames) /\ Len(Tail(calls)) = Len(calls) - 1
      /\ \A n \in 1..Len(calls) - 1 : Tail(calls)[n] = calls[n + 1]
  BY <1>1, <1>2, TopFrame DEF Frames, InputFrames, OutputFrames
<1>4. call_sender' \in Users \cup {NoOne} /\ erc223CallPermit \in BOOLEAN
  BY <1>1, <1>2, <1>3 DEF TypeOK, DepositFrames
<1>5. f \in Frames /\ f.kind = "input" /\ f.took = ~ erc223CallPermit
  <2>1. Top.by \in Users /\ Top.token \in Users \cup Tokens  BY <1>3 DEF DepositFrames
  <2>2. \A u \in Users, sender \in Users \cup Tokens :
           LET g == Swap(u, sender, path, amount, to, prefer)
           IN  g \in InputFrames /\ g.kind = "input" /\ g.took = ~ erc223CallPermit
    BY <1>4, SwapFrame
  <2>3. f \in InputFrames /\ f.kind = "input" /\ f.took = ~ erc223CallPermit
    BY <2>1, <2>2
  <2> HIDE DEF f
  <2> QED  BY <2>3 DEF Frames
<1>6. d \in DepositFrames /\ d.kind = "deposit" /\ d.took = Top.took
  <2>1. Tail(Top.todo) \in Seq({"swap", "unwrap"})  BY <1>2, <1>3 DEF DepositFrames
  <2> QED  BY <1>3, <2>1 DEF DepositFrames
<1> HIDE DEF d, f
<1>7. d \in Frames  BY <1>6 DEF Frames
<1>8. erc223CallPermit = TRUE /\ erc223CallPermit' = FALSE /\ unlocked' = FALSE
  BY <1>1, <1>2 DEF LockHeld, CanEnter, Enter, TypeOK
<1>9. /\ calls' \in Seq(Frames) /\ Len(calls') = Len(calls) + 1 /\ calls'[1] = f /\ calls'[2] = d
      /\ \A n \in 3..Len(calls') : calls'[n] = calls[n - 1]
  BY <1>2, <1>3, <1>5, <1>7
<1>10. \A n \in 2..Len(calls') : /\ n - 1 \in 1..Len(calls)
                                 /\ calls'[n].kind = calls[n - 1].kind
                                 /\ calls'[n].took = calls[n - 1].took
  <2> SUFFICES ASSUME NEW n \in 2..Len(calls')
               PROVE  /\ n - 1 \in 1..Len(calls)
                      /\ calls'[n].kind = calls[n - 1].kind /\ calls'[n].took = calls[n - 1].took
    OBVIOUS
  <2>1. n - 1 \in 1..Len(calls)  BY <1>3, <1>9
  <2>2. CASE n = 2  BY <1>2, <1>3, <1>6, <1>9, <2>1, <2>2
  <2>3. CASE n # 2  BY <1>3, <1>9, <2>1, <2>3
  <2> QED  BY <2>1, <2>2, <2>3
<1>11. LockHeld'
  <2>1. calls' # <<>>  BY <1>3, <1>9
  <2>2. ASSUME NEW n \in 1..Len(calls') PROVE calls'[n].took <=> n = Len(calls')
    <3>1. CASE n = 1
      <4>1. calls'[n].took = FALSE  BY <1>5, <1>8, <1>9, <3>1
      <4>2. n # Len(calls')  BY <1>3, <1>9, <3>1
      <4> QED  BY <4>1, <4>2
    <3>2. CASE n # 1
      <4>1. n \in 2..Len(calls')  BY <1>3, <1>9, <3>2
      <4>2. n - 1 \in 1..Len(calls) /\ calls'[n].took = calls[n - 1].took  BY <1>10, <4>1
      <4>3. calls[n - 1].took <=> n - 1 = Len(calls)  BY <1>1, <4>2 DEF LockHeld
      <4>4. n - 1 = Len(calls) <=> n = Len(calls')  BY <1>3, <1>9, <4>1
      <4> QED  BY <4>2, <4>3, <4>4
    <3> QED  BY <3>1, <3>2
  <2> QED  BY <1>8, <2>1, <2>2 DEF LockHeld
<1>12. HasCall({"deposit", "input"})' /\ HasCall({"deposit"})'
  <2>1. 1 \in 1..Len(calls') /\ 2 \in 1..Len(calls')  BY <1>3, <1>9
  <2> QED  BY <1>5, <1>6, <1>9, <2>1 DEF HasCall
<1>13. PoolHasCall'  BY <1>2, <1>3, NoPoolWaits DEF PoolHasCall
<1> QED
  BY <1>2, <1>4, <1>8, <1>9, <1>11, <1>12, <1>13
  DEF IInv, TypeOK, PermitOfDeposit, SendersHaveCalls

\* A swap that goes on: what it waits for is the pool it has called.
LEMMA SwapGoesOn ==
  ASSUME IInv, calls # <<>>, Top.kind # "deposit", NEW f \in Frames,
         calls' = <<f>> \o Tail(calls), f.kind = Top.kind, f.took = Top.took,
         UNCHANGED <<unlocked, erc223CallPermit, call_sender>>,
         token_sender' \in {token_sender, NoOne},
         expectedCallbackPool' # NoOne => Expects(f, expectedCallbackPool')
  PROVE  IInv'
<1>1. TypeOK /\ LockHeld /\ PermitOfDeposit /\ SendersHaveCalls  BY DEF IInv
<1>2. /\ LockHeld' /\ (\A S : HasCall(S) => HasCall(S)')
      /\ calls' \in Seq(Frames) /\ calls' # <<>> /\ calls'[1] = f
  BY <1>1, ReplaceKeeps
<1>3. ~ erc223CallPermit  BY <1>1, TopFrame DEF PermitOfDeposit
<1>4. PoolHasCall'  BY <1>2 DEF PoolHasCall
<1> QED  BY <1>1, <1>2, <1>3, <1>4 DEF IInv, TypeOK, PermitOfDeposit, SendersHaveCalls

\* A swap that ends.
LEMMA SwapEnds ==
  ASSUME IInv, calls # <<>>, Top.kind # "deposit", calls' = Tail(calls), Release(Top),
         expectedCallbackPool' = NoOne, UNCHANGED <<erc223CallPermit, token_sender>>,
         call_sender' = NoOne \/ (call_sender' = call_sender /\ Top.kind = "output")
  PROVE  IInv'
<1>1. TypeOK /\ LockHeld /\ PermitOfDeposit /\ SendersHaveCalls  BY DEF IInv
<1>2. /\ LockHeld' /\ calls' \in Seq(Frames) /\ unlocked' \in BOOLEAN
      /\ \A S : HasCall(S) /\ Top.kind \notin S => HasCall(S)'
  BY <1>1, PopKeeps
<1>3. ~ erc223CallPermit  BY <1>1, TopFrame DEF PermitOfDeposit
<1>4. SendersHaveCalls'
  <2>1. Top.kind = "output" /\ HasCall({"deposit", "input"}) => HasCall({"deposit", "input"})'
    BY <1>2
  <2>2. HasCall({"deposit"}) => HasCall({"deposit"})'  BY <1>2
  <2> QED  BY <1>1, <2>1, <2>2 DEF SendersHaveCalls
<1> QED  BY <1>1, <1>2, <1>3, <1>4 DEF IInv, TypeOK, PermitOfDeposit, PoolHasCall

\* What is on top while a swap is under way.
LEMMA SwapOnTop ==
  ASSUME IInv, calls # <<>>
  PROVE  /\ Top = calls[1]
         /\ Top.kind = "input" => Top \in InputFrames
         /\ Top.kind = "output" => Top \in OutputFrames
         /\ Top.kind # "deposit" => ~ erc223CallPermit
<1>1. TypeOK /\ PermitOfDeposit  BY DEF IInv
<1>2. Top \in Frames /\ Top = calls[1]  BY <1>1, TopFrame
<1> QED  BY <1>1, <1>2 DEF Frames, DepositFrames, InputFrames, OutputFrames, PermitOfDeposit

LEMMA InputHopKeeps ==
  ASSUME IInv, InputHop
  PROVE  IInv'
<1>1. /\ calls # <<>> /\ Top.kind = "input" /\ expectedCallbackPool' = Pool(Top.path)
      /\ UNCHANGED <<unlocked, erc223CallPermit, call_sender, token_sender>>
      /\ \E ph \in {"paid", "pool"} : calls' = <<[Top EXCEPT !.phase = ph]>> \o Tail(calls)
  BY DEF InputHop, Swapping, Replace
<1>2. PICK ph \in {"paid", "pool"} : calls' = <<[Top EXCEPT !.phase = ph]>> \o Tail(calls)
  BY <1>1
<1> DEFINE f == [Top EXCEPT !.phase = ph]
<1>3. Top \in InputFrames  BY <1>1, SwapOnTop
<1>4. /\ f \in Frames /\ f.kind = Top.kind /\ f.took = Top.took /\ f.phase = ph
      /\ f.path = Top.path
  BY <1>3 DEF Frames, InputFrames, Phases
<1> HIDE DEF f
<1> QED  BY <1>1, <1>2, <1>4, SwapGoesOn DEF f, Expects

LEMMA InputCallbackKeeps ==
  ASSUME IInv, NEW out \in Amounts, InputCallback(out)
  PROVE  IInv'
<1> DEFINE f == [Top EXCEPT !.amount = out, !.phase = "paid"]
<1>1. /\ calls # <<>> /\ Top.kind = "input" /\ calls' = <<f>> \o Tail(calls)
      /\ expectedCallbackPool' = NoOne
      /\ UNCHANGED <<unlocked, erc223CallPermit, call_sender, token_sender>>
  BY DEF InputCallback, Callback, Swapping, Replace
<1>2. Top \in InputFrames  BY <1>1, SwapOnTop
<1>3. f \in Frames /\ f.kind = Top.kind /\ f.took = Top.took
  BY <1>2 DEF Frames, InputFrames, Phases
<1> HIDE DEF f
<1> QED  BY <1>1, <1>3, SwapGoesOn

\* The frame of a swap that has delivered.
LEMMA DeliveredFrame ==
  ASSUME IInv, calls # <<>>, Top.kind \in {"input", "output"}, NEW ph \in Phases
  PROVE  LET f == [Top EXCEPT !.phase = ph]
         IN  /\ f \in Frames /\ f.kind = Top.kind /\ f.took = Top.took /\ f.phase = ph
             /\ f.path = Top.path /\ f.by = Top.by
             /\ Top.kind = "input" => f.payer = Top.payer /\ f.sender = Top.sender
<1>1. CASE Top.kind = "input"
  <2>1. Top \in InputFrames  BY <1>1, SwapOnTop
  <2> QED  BY <1>1, <2>1 DEF Frames, InputFrames
<1>2. CASE Top.kind = "output"
  <2>1. Top \in OutputFrames  BY <1>2, SwapOnTop
  <2> QED  BY <1>2, <2>1 DEF Frames, OutputFrames
<1> QED  BY <1>1, <1>2

LEMMA DeliverKeeps ==
  ASSUME IInv, Deliver
  PROVE  IInv'
<1>1. /\ calls # <<>> /\ Top.kind \in {"input", "output"} /\ Top.phase = "paid"
      /\ UNCHANGED contextVars
      /\ \E ph \in Delivered : calls' = <<[Top EXCEPT !.phase = ph]>> \o Tail(calls)
  BY DEF Deliver, Swapping, Replace, Delivered
<1>2. PICK ph \in Delivered : calls' = <<[Top EXCEPT !.phase = ph]>> \o Tail(calls)
  BY <1>1
<1> DEFINE f == [Top EXCEPT !.phase = ph]
<1>3. /\ f \in Frames /\ f.kind = Top.kind /\ f.took = Top.took /\ f.phase \in Delivered
      /\ f.path = Top.path
  BY <1>1, DeliveredFrame DEF Delivered, Phases
<1>4. calls' = <<f>> \o Tail(calls)  BY <1>2
<1> HIDE DEF f
<1>5. expectedCallbackPool' # NoOne => Expects(f, expectedCallbackPool')
  <2>1. expectedCallbackPool # NoOne => expectedCallbackPool = Pool(Top.path)
    BY <1>1, SwapOnTop DEF IInv, PoolHasCall, Expects
  <2> QED  BY <1>1, <1>3, <2>1 DEF Expects, Delivered, contextVars
<1> QED  BY <1>1, <1>3, <1>4, <1>5, SwapGoesOn DEF contextVars

\* The rest of a path of more than one pool.
LEMMA RestOfPath ==
  ASSUME NEW path \in Routes, ~ LastHop(path)
  PROVE  Tail(path) \in Routes /\ Tail(path)[1] = path[2]
<1> SUFFICES ASSUME NEW p \in Seq(Assets), Len(p) >= 2, Len(p) # 2
             PROVE  Tail(p) \in Seq(Assets) /\ Len(Tail(p)) >= 2 /\ Tail(p)[1] = p[2]
  BY DEF Routes, LastHop
<1>1. Len(p) \in Nat /\ p # <<>>  OBVIOUS
<1>2. Tail(p) \in Seq(Assets) /\ Len(Tail(p)) = Len(p) - 1
      /\ \A n \in 1..Len(p) - 1 : Tail(p)[n] = p[n + 1]
  BY <1>1
<1>3. 1 \in 1..Len(p) - 1 /\ 1 + 1 = 2  BY <1>1
<1> QED  BY <1>1, <1>2, <1>3

\* The call ends, or goes on with the next pool of its path.
LEMMA InputReturnKeeps ==
  ASSUME IInv, InputReturn
  PROVE  IInv'
<1>1. /\ calls # <<>> /\ Top.kind = "input"
      /\ expectedCallbackPool' = NoOne /\ erc223CallPermit' = erc223CallPermit
  BY DEF InputReturn, Swapping
<1>2. Top \in InputFrames  BY <1>1, SwapOnTop
<1>3. CASE LastHop(Top.path)
  <2>1. /\ calls' = Tail(calls) /\ Release(Top) /\ call_sender' = NoOne
        /\ token_sender' = token_sender
    BY <1>3 DEF InputReturn
  <2> QED  BY <1>1, <2>1, SwapEnds
<1>4. CASE ~ LastHop(Top.path)
  <2> DEFINE f == [Top EXCEPT !.path = Tail(@), !.payer = Router, !.phase = "run"]
  <2>1. /\ calls' = <<f>> \o Tail(calls) /\ token_sender' = NoOne
        /\ UNCHANGED <<call_sender, unlocked>>
    BY <1>4 DEF InputReturn, Replace
  <2>2. Tail(Top.path) \in Routes  BY <1>2, <1>4, RestOfPath DEF InputFrames
  <2>3. f \in Frames /\ f.kind = Top.kind /\ f.took = Top.took
    BY <1>2, <2>2 DEF Frames, InputFrames, Phases
  <2> HIDE DEF f
  <2> QED  BY <1>1, <2>1, <2>3, SwapGoesOn
<1> QED  BY <1>3, <1>4

LEMMA OutputNextKeeps ==
  ASSUME IInv, OutputNext
  PROVE  IInv'
<1> DEFINE f == [Top EXCEPT !.hop = @ + 1]
<1>1. /\ calls # <<>> /\ Top.kind = "output" /\ Top.phase = "pool" /\ calls' = <<f>> \o Tail(calls)
      /\ UNCHANGED <<unlocked, erc223CallPermit, call_sender, token_sender>>
  BY DEF OutputNext, Swapping, Replace
<1>2. Top \in OutputFrames  BY <1>1, SwapOnTop
<1>3. f \in Frames /\ f.kind = Top.kind /\ f.took = Top.took /\ f.phase = "pool"
  <2>1. Top.hop + 1 \in Nat \ {0}  BY <1>2 DEF OutputFrames
  <2> QED  BY <1>1, <1>2, <2>1 DEF Frames, OutputFrames
<1> HIDE DEF f
<1> QED  BY <1>1, <1>3, SwapGoesOn DEF Expects

LEMMA OutputCallbackKeeps ==
  ASSUME IInv, OutputCallback
  PROVE  IInv'
<1> DEFINE f == [Top EXCEPT !.phase = "paid"]
<1>1. /\ calls # <<>> /\ Top.kind = "output" /\ calls' = <<f>> \o Tail(calls)
      /\ expectedCallbackPool' = NoOne
      /\ UNCHANGED <<unlocked, erc223CallPermit, call_sender, token_sender>>
  BY DEF OutputCallback, Callback, Swapping, Replace
<1>2. f \in Frames /\ f.kind = Top.kind /\ f.took = Top.took
  BY <1>1, DeliveredFrame DEF Phases
<1> HIDE DEF f
<1> QED  BY <1>1, <1>2, SwapGoesOn

LEMMA OutputReturnKeeps ==
  ASSUME IInv, OutputReturn
  PROVE  IInv'
<1>1. /\ calls # <<>> /\ Top.kind = "output" /\ calls' = Tail(calls) /\ Release(Top)
      /\ expectedCallbackPool' = NoOne
      /\ UNCHANGED <<erc223CallPermit, call_sender, token_sender>>
  BY DEF OutputReturn, Swapping
<1> QED  BY <1>1, SwapEnds

\* A pool that calls back without having been called is refused: the one pool that
\* could is delivering, and locked.
LEMMA ForeignRefused ==
  ASSUME IInv, NEW p \in Pools, NEW a, NEW payer, NEW v, ForeignCallback(p, a, payer, v)
  PROVE  UNCHANGED vars
<1>1. Outside /\ ~ Locked(p)  BY DEF ForeignCallback
<1>2. p # NoOne  BY RouterAssumption
<1>3. expectedCallbackPool # p
  <2> SUFFICES ASSUME expectedCallbackPool = p PROVE FALSE  OBVIOUS
  <2>1. calls # <<>> /\ Expects(calls[1], expectedCallbackPool)  BY <1>2 DEF IInv, PoolHasCall
  <2>2. Top = calls[1]  BY <2>1, SwapOnTop
  <2>3. Top.phase = "outside"  BY <1>1, <2>1 DEF Outside
  <2> QED  BY <1>1, <2>1, <2>2, <2>3 DEF Expects, Locked
<1> QED  BY <1>3 DEF ForeignCallback, Bound

-----------------------------------------------------------------------------
\* Every step keeps the invariant.
LEMMA StepKeeps ==
  ASSUME IInv, [Next]_vars
  PROVE  IInv'
<1>1. CASE UNCHANGED vars  BY <1>1, ContextKept DEF vars
<1>2. ASSUME NEW u \in Users, Payment(u) PROVE IInv'
  <2>1. ASSUME NEW to \in Users, NEW t \in Tokens, NEW v \in Amounts, withdraw(u, to, t, v)
        PROVE  IInv'
    BY <2>1, ContextKept DEF withdraw
  <2>2. ASSUME NEW t \in Tokens, NEW v \in Amounts, transfer(u, t, v) PROVE IInv'
    BY <2>2, ContextKept DEF transfer
  <2> QED  BY <1>2, <2>1, <2>2, DepositKeeps DEF Payment
<1>3. ASSUME NEW u \in Users, Trade(u) PROVE IInv'
  BY <1>3, InputKeeps, OutputKeeps DEF Trade
<1>4. ASSUME NEW u \in Users, unwrapWETH9(u) PROVE IInv'
  BY <1>4, ContextKept DEF unwrapWETH9, Unwrap
<1>5. ASSUME NEW u \in Users, refundETH(u) PROVE IInv'
  BY <1>5, ContextKept DEF refundETH
<1>6. CASE Dispatch
  BY <1>6, UnwrapKeeps, ReturnKeeps, DepositEndKeeps, DispatchSwapKeeps DEF Dispatch
<1>7. CASE Hop
  BY <1>7, InputHopKeeps, InputCallbackKeeps, OutputNextKeeps, OutputCallbackKeeps,
     DeliverKeeps, InputReturnKeeps, OutputReturnKeeps DEF Hop
<1>8. CASE Foreign  BY <1>1, <1>8, ForeignRefused DEF Foreign
<1> QED  BY <1>1, <1>2, <1>3, <1>4, <1>5, <1>6, <1>7, <1>8 DEF Next

LEMMA RouterInit == Init => IInv
<1> SUFFICES ASSUME Init PROVE IInv  OBVIOUS
<1>1. calls = <<>> /\ calls \in Seq(Frames) /\ Len(calls) = 0  BY DEF Init
<1>2. \A n \in 1..Len(calls) : calls[n].took <=> n = Len(calls)  BY <1>1
<1> QED
  BY <1>1, <1>2 DEF Init, IInv, TypeOK, LockHeld, PermitOfDeposit, SendersHaveCalls, PoolHasCall

\* For any users, tokens, paths, amounts and depth of calls within calls: when no
\* call is under way the router is unlocked and there is no sender, no deposited
\* token, no permit and no pool that may call back (SwapRouter.sol:107-123, 134).
THEOREM RouterSettledWhenIdle == Spec => []SettledWhenIdle
<1>1. Init => IInv  BY RouterInit
<1>2. IInv /\ [Next]_vars => IInv'  BY StepKeeps
<1>3. IInv => SettledWhenIdle
  <2> SUFFICES ASSUME IInv, calls = <<>>
               PROVE  /\ unlocked /\ ~ erc223CallPermit
                      /\ call_sender = NoOne /\ token_sender = NoOne
                      /\ expectedCallbackPool = NoOne
    BY DEF SettledWhenIdle
  <2>1. 1..Len(calls) = {}  OBVIOUS
  <2>2. \A S : ~ HasCall(S)  BY <2>1 DEF HasCall
  <2> QED
    BY <2>1, <2>2
    DEF IInv, TypeOK, LockHeld, PermitOfDeposit, SendersHaveCalls, PoolHasCall
<1> QED  BY <1>1, <1>2, <1>3, PTL DEF Spec
-----------------------------------------------------------------------------
(* Custody.  A deposit backs no payment but its owner's, because whoever    *)
(* the router takes for the payer is the one who made the call: in the     *)
(* context of a deposit, the depositor; and what the router pays out of    *)
(* its own is of a token nobody deposits.                                  *)

BalanceTypes ==
    /\ wallet \in [Users -> [Tokens -> Nat]] /\ held \in [Tokens -> Nat]
    /\ erc223Deposits \in [Users -> [Tokens -> Nat]] /\ totalDeposits \in [Tokens -> Nat]
OnlyHookedDeposited == \A t \in Tokens : ~ Calls(t) => totalDeposits[t] = 0
Custody == BalanceTypes /\ OnlyHookedDeposited /\ DepositsBacked

\* A call waits only for calls that came in on the permit of a deposit.
DepositsBelow == \A n \in 1..Len(calls) : n # 1 => calls[n].kind = "deposit"
PermitContext == erc223CallPermit => token_sender = Top.token /\ call_sender = Top.by
PaysHisOwn(f, token, sender) ==
    /\ f.payer \in {f.by, Router}
    /\ f.payer = Router => ~ Calls(Erc20(f.path[1]))
    /\ f.phase \in Delivered /\ ~ LastHop(f.path) => ~ Calls(Erc20(f.path[2]))
    /\ token # NoOne => f.sender = token /\ sender = f.by
SwapContext == calls # <<>> /\ Top.kind = "input" => PaysHisOwn(Top, token_sender, call_sender)
Context ==
    /\ token_sender \in Tokens \cup {NoOne}
    /\ DepositsBelow /\ PermitContext /\ SwapContext

ICustody == IInv /\ Custody /\ Context

\* A step takes nothing from a user but in his own call.
Spares(u) ==
    \A t \in Tokens : wallet'[u][t] >= wallet[u][t] /\ erc223Deposits'[u][t] >= erc223Deposits[u][t]
CustodyStep == Custody' /\ Context' /\ \A u \in Users : Spares(u) \/ Own(u)

DepositSum(t) == SumFunction([u \in Users |-> erc223Deposits[u][t]])

LEMMA TokenFacts ==
  /\ IsFiniteSet(Users) /\ Users \cap Tokens = {} /\ Router \notin Users /\ NoOne \notin Users
  /\ NoOne \notin Tokens
  /\ \A v \in Amounts : v \in Nat /\ v > 0
  /\ \A a \in Assets : Erc20(a) \in Tokens /\ Erc223(a) \in Tokens
  /\ Erc20(WETH9) \in Tokens /\ ~ Calls(Erc20(WETH9))
<1>1. /\ IsFiniteSet(Users) /\ Users \cap Tokens = {} /\ Router \notin Users
      /\ NoOne \notin Users /\ NoOne \notin Tokens
  BY RouterAssumption
<1>2. \A v \in Amounts : v \in Nat /\ v > 0  BY RouterAssumption
<1>3. WETH9 \in Assets /\ WETH9 \notin Hooked20  BY RouterAssumption
<1> QED  BY <1>1, <1>2, <1>3 DEF Tokens, Versions, Erc20, Erc223, Calls

\* The sum of a token's deposits after the deposit of one user has changed.
LEMMA TotalMoves ==
  ASSUME BalanceTypes, NEW u \in Users, NEW t \in Tokens, NEW d \in Nat,
         erc223Deposits' = [erc223Deposits EXCEPT ![u][t] = d]
  PROVE  /\ erc223Deposits' \in [Users -> [Tokens -> Nat]]
         /\ DepositSum(t)' = DepositSum(t) + d - erc223Deposits[u][t]
         /\ \A s \in Tokens \ {t} : DepositSum(s)' = DepositSum(s)
         /\ erc223Deposits[u][t] <= DepositSum(t)
<1>1. erc223Deposits \in [Users -> [Tokens -> Nat]]  BY DEF BalanceTypes
<1>2. erc223Deposits' \in [Users -> [Tokens -> Nat]]  BY <1>1
<1>3. \A w \in Users, s \in Tokens :
        erc223Deposits'[w][s] = IF w = u /\ s = t THEN d ELSE erc223Deposits[w][s]
  BY <1>1
<1> DEFINE f(s) == [w \in Users |-> erc223Deposits[w][s]]
           g(s) == [w \in Users |-> erc223Deposits'[w][s]]
<1>4. \A s \in Tokens : f(s) \in [Users -> Nat] /\ g(s) \in [Users -> Nat]
  BY <1>1, <1>2
<1>5. \A s \in Tokens : DepositSum(s) = SumFunctionOnSet(f(s), Users)
                        /\ DepositSum(s)' = SumFunctionOnSet(g(s), Users)
  BY DEF DepositSum, SumFunction
<1>6. DepositSum(t)' = DepositSum(t) + d - erc223Deposits[u][t]
  <2>1. f(t) \in [Users -> Int] /\ g(t) \in [Users -> Int]  BY <1>4
  <2>2. \A w \in Users \ {u} : f(t)[w] = g(t)[w]  BY <1>3
  <2>3. f(t)[u] = erc223Deposits[u][t] /\ g(t)[u] = d  BY <1>3
  <2>4. SumFunctionOnSet(g(t), Users) = SumFunctionOnSet(f(t), Users) + g(t)[u] - f(t)[u]
    <3> HIDE DEF f, g
    <3> QED  BY <2>1, <2>2, SumChange, TokenFacts
  <2> QED  BY <1>5, <2>3, <2>4
<1>7. ASSUME NEW s \in Tokens \ {t} PROVE DepositSum(s)' = DepositSum(s)
  <2>1. \A w \in Users : f(s)[w] = g(s)[w]  BY <1>3
  <2>2. SumFunctionOnSet(f(s), Users) = SumFunctionOnSet(g(s), Users)
    <3> HIDE DEF f, g
    <3> QED  BY <2>1, SumSame, TokenFacts
  <2> QED  BY <1>5, <2>2
<1>8. erc223Deposits[u][t] <= DepositSum(t)
  <2>1. f(t)[u] <= SumFunctionOnSet(f(t), Users)
    <3>1. f(t) \in [Users -> Nat]  BY <1>4
    <3> HIDE DEF f
    <3> QED  BY <3>1, SumBounds, TokenFacts
  <2> QED  BY <1>5, <2>1
<1> QED  BY <1>2, <1>6, <1>7, <1>8

LEMMA DepositsAre ==
  DepositsBacked <=> \A t \in Tokens : totalDeposits[t] = DepositSum(t) /\ totalDeposits[t] <= held[t]
  BY DEF DepositsBacked, DepositSum

\* A deposit arrives.
LEMMA Credited ==
  ASSUME Custody, NEW u \in Users, NEW t \in Tokens, NEW v \in Nat, Calls(t),
         Credit(u, t, v), held' = [held EXCEPT ![t] = @ + v],
         wallet' \in [Users -> [Tokens -> Nat]]
  PROVE  Custody' /\ \A w \in Users, s \in Tokens : erc223Deposits'[w][s] >= erc223Deposits[w][s]
<1>1. BalanceTypes  BY DEF Custody
<1>2. erc223Deposits[u][t] + v \in Nat /\ erc223Deposits[u][t] \in Nat  BY <1>1 DEF BalanceTypes
<1>3. erc223Deposits' = [erc223Deposits EXCEPT ![u][t] = erc223Deposits[u][t] + v]
  BY <1>1 DEF Credit, BalanceTypes
<1>4. /\ erc223Deposits' \in [Users -> [Tokens -> Nat]]
      /\ DepositSum(t)' = DepositSum(t) + (erc223Deposits[u][t] + v) - erc223Deposits[u][t]
      /\ \A s \in Tokens \ {t} : DepositSum(s)' = DepositSum(s)
  BY <1>1, <1>2, <1>3, TotalMoves
<1>5. /\ totalDeposits' \in [Tokens -> Nat] /\ held' \in [Tokens -> Nat]
      /\ \A s \in Tokens : /\ totalDeposits'[s] = totalDeposits[s] + (IF s = t THEN v ELSE 0)
                           /\ held'[s] = held[s] + (IF s = t THEN v ELSE 0)
  BY <1>1 DEF Credit, BalanceTypes
<1>6. \A s \in Tokens : totalDeposits[s] = DepositSum(s) /\ totalDeposits[s] <= held[s]
                        /\ totalDeposits[s] \in Nat /\ held[s] \in Nat
  BY <1>1, DepositsAre DEF Custody, BalanceTypes
<1>7. ASSUME NEW s \in Tokens
      PROVE  totalDeposits'[s] = DepositSum(s)' /\ totalDeposits'[s] <= held'[s]
  <2>1. CASE s = t
    <3> HIDE DEF DepositSum
    <3> QED  BY <1>2, <1>4, <1>5, <1>6, <2>1
  <2>2. CASE s # t
    <3> HIDE DEF DepositSum
    <3> QED  BY <1>4, <1>5, <1>6, <2>2
  <2> QED  BY <2>1, <2>2
<1>8. DepositsBacked'  BY <1>7, DepositsAre DEF DepositsBacked, DepositSum
<1>9. OnlyHookedDeposited'  BY <1>5, <1>6 DEF Custody, OnlyHookedDeposited, Calls
<1>10. \A w \in Users, s \in Tokens : erc223Deposits'[w][s] >= erc223Deposits[w][s]
  BY <1>1, <1>2, <1>3 DEF BalanceTypes
<1> QED  BY <1>4, <1>5, <1>8, <1>9, <1>10 DEF Custody, BalanceTypes

\* A deposit is spent, and no more leaves the router than it.
LEMMA Debited ==
  ASSUME Custody, NEW u \in Users, NEW t \in Tokens, NEW v \in Nat,
         Debit(u, t, v), erc223Deposits[u][t] >= v,
         held' \in [Tokens -> Nat], wallet' \in [Users -> [Tokens -> Nat]],
         \A s \in Tokens : held'[s] >= held[s] - (IF s = t THEN v ELSE 0)
  PROVE  Custody' /\ \A w \in Users \ {u}, s \in Tokens : erc223Deposits'[w][s] = erc223Deposits[w][s]
<1>1. BalanceTypes  BY DEF Custody
<1>2. erc223Deposits[u][t] - v \in Nat /\ erc223Deposits[u][t] \in Nat  BY <1>1 DEF BalanceTypes
<1>3. erc223Deposits' = [erc223Deposits EXCEPT ![u][t] = erc223Deposits[u][t] - v]
  BY <1>1 DEF Debit, BalanceTypes
<1>4. /\ erc223Deposits' \in [Users -> [Tokens -> Nat]]
      /\ DepositSum(t)' = DepositSum(t) + (erc223Deposits[u][t] - v) - erc223Deposits[u][t]
      /\ \A s \in Tokens \ {t} : DepositSum(s)' = DepositSum(s)
      /\ erc223Deposits[u][t] <= DepositSum(t)
  BY <1>1, <1>2, <1>3, TotalMoves
<1>6. \A s \in Tokens : totalDeposits[s] = DepositSum(s) /\ totalDeposits[s] <= held[s]
                        /\ totalDeposits[s] \in Nat /\ held[s] \in Nat /\ held'[s] \in Nat
  BY <1>1, DepositsAre DEF Custody, BalanceTypes
<1>5. /\ \A s \in Tokens : totalDeposits'[s] = totalDeposits[s] - (IF s = t THEN v ELSE 0)
      /\ totalDeposits' \in [Tokens -> Nat]
  <2>1. totalDeposits \in [Tokens -> Nat] /\ totalDeposits' = [totalDeposits EXCEPT ![t] = @ - v]
    BY <1>1 DEF Debit, BalanceTypes
  <2>2. totalDeposits[t] - v \in Nat
    <3> HIDE DEF DepositSum
    <3> QED  BY <1>2, <1>4, <1>6
  <2> QED  BY <2>1, <2>2
<1>7. ASSUME NEW s \in Tokens
      PROVE  totalDeposits'[s] = DepositSum(s)' /\ totalDeposits'[s] <= held'[s]
  <2>1. CASE s = t
    <3> HIDE DEF DepositSum
    <3> QED  BY <1>2, <1>4, <1>5, <1>6, <2>1
  <2>2. CASE s # t
    <3> HIDE DEF DepositSum
    <3> QED  BY <1>4, <1>5, <1>6, <2>2
  <2> QED  BY <2>1, <2>2
<1>8. DepositsBacked'  BY <1>7 DEF DepositsBacked, DepositSum
<1>9. OnlyHookedDeposited'
  <2> SUFFICES ASSUME NEW s \in Tokens, ~ Calls(s) PROVE totalDeposits'[s] = 0
    BY DEF OnlyHookedDeposited, Calls
  <2>1. totalDeposits[s] = 0  BY DEF Custody, OnlyHookedDeposited
  <2> QED  BY <1>5, <2>1
<1>10. \A w \in Users \ {u}, s \in Tokens : erc223Deposits'[w][s] = erc223Deposits[w][s]
  BY <1>1, <1>3 DEF BalanceTypes
<1> QED  BY <1>4, <1>5, <1>8, <1>9, <1>10 DEF Custody, BalanceTypes

\* The deposits stay, and so does what backs them.
LEMMA StillBacked ==
  ASSUME Custody, UNCHANGED depositVars,
         held' \in [Tokens -> Nat], wallet' \in [Users -> [Tokens -> Nat]],
         \A s \in Tokens : held'[s] >= totalDeposits[s]
  PROVE  Custody'
<1>1. BalanceTypes  BY DEF Custody
<1>2. UNCHANGED <<erc223Deposits, totalDeposits>>  BY DEF depositVars
<1>3. BalanceTypes'  BY <1>1, <1>2 DEF BalanceTypes
<1>4. DepositsBacked'
  <2>1. \A s \in Tokens : totalDeposits[s] \in Nat /\ held'[s] \in Nat  BY <1>1 DEF BalanceTypes
  <2> QED  BY <1>2, <2>1 DEF Custody, DepositsBacked
<1>5. OnlyHookedDeposited'  BY <1>2 DEF Custody, OnlyHookedDeposited, Calls
<1> QED  BY <1>3, <1>4, <1>5 DEF Custody

\* Whoever pays, it is out of his own, or the router's where nobody deposits.
LEMMA PayKeeps ==
  ASSUME Custody, NEW a \in Assets, NEW payer \in Users \cup {Router}, NEW v \in Nat,
         pay(a, payer, v), payer = Router => ~ Calls(Erc20(a))
  PROVE  Custody' /\ \A u \in Users : u # payer => Spares(u)
<1> DEFINE t == Erc20(a)
<1>1. BalanceTypes /\ t \in Tokens  BY TokenFacts DEF Custody
<1>2. \A s \in Tokens : totalDeposits[s] \in Nat /\ held[s] \in Nat /\ totalDeposits[s] <= held[s]
  BY <1>1 DEF Custody, DepositsBacked, BalanceTypes
<1>3. CASE a = WETH9 /\ ether[Router] >= v
  <2>1. UNCHANGED <<wallet, held, depositVars>>  BY <1>3 DEF pay
  <2>2. Custody'  BY <1>1, <1>2, <2>1, StillBacked DEF BalanceTypes
  <2> QED  BY <1>1, <2>1, <2>2 DEF Spares, BalanceTypes, depositVars
<1>4. CASE ~ (a = WETH9 /\ ether[Router] >= v) /\ payer \in Users /\ erc223Deposits[payer][t] >= v
  <2>1. /\ held[t] >= v /\ Debit(payer, t, v) /\ held' = [held EXCEPT ![t] = @ - v]
        /\ UNCHANGED wallet
    BY <1>4 DEF pay
  <2>2. held' \in [Tokens -> Nat]
        /\ \A s \in Tokens : held'[s] = held[s] - (IF s = t THEN v ELSE 0)
    BY <1>1, <1>2, <2>1 DEF BalanceTypes
  <2> HIDE DEF t
  <2>3. /\ Custody'
        /\ \A w \in Users \ {payer}, s \in Tokens : erc223Deposits'[w][s] = erc223Deposits[w][s]
    <3>1. \A s \in Tokens : held'[s] >= held[s] - (IF s = t THEN v ELSE 0)
      BY <1>2, <2>2
    <3> QED  BY <1>1, <1>4, <2>1, <2>2, <3>1, Debited DEF BalanceTypes
  <2> QED  BY <1>1, <2>1, <2>3 DEF Spares, BalanceTypes
<1>5. CASE ~ (payer \in Users /\ erc223Deposits[payer][t] >= v)
           /\ ~ (a = WETH9 /\ ether[Router] >= v) /\ payer = Router
  <2>1. /\ held[t] >= v /\ held' = [held EXCEPT ![t] = @ - v]
        /\ UNCHANGED <<wallet, depositVars>>
    BY <1>5 DEF pay
  <2>2. totalDeposits[t] = 0  BY <1>1, <1>5 DEF Custody, OnlyHookedDeposited
  <2>3. held' \in [Tokens -> Nat]
        /\ \A s \in Tokens : held'[s] = held[s] - (IF s = t THEN v ELSE 0)
    BY <1>1, <1>2, <2>1 DEF BalanceTypes
  <2> HIDE DEF t
  <2>4. \A s \in Tokens : held'[s] >= totalDeposits[s]  BY <1>2, <2>2, <2>3
  <2>5. Custody'  BY <1>1, <2>1, <2>3, <2>4, StillBacked DEF BalanceTypes
  <2> QED  BY <1>1, <2>1, <2>5 DEF Spares, BalanceTypes, depositVars
<1>6. CASE ~ (payer \in Users /\ erc223Deposits[payer][t] >= v)
           /\ ~ (a = WETH9 /\ ether[Router] >= v) /\ payer # Router
  <2>1. /\ wallet[payer][t] >= v /\ wallet' = [wallet EXCEPT ![payer][t] = @ - v]
        /\ UNCHANGED <<held, depositVars>> /\ payer \in Users
    BY <1>6 DEF pay
  <2>2. wallet' \in [Users -> [Tokens -> Nat]]
        /\ \A w \in Users \ {payer} : wallet'[w] = wallet[w]
    BY <1>1, <2>1 DEF BalanceTypes
  <2>3. Custody'  BY <1>1, <1>2, <2>1, <2>2, StillBacked DEF BalanceTypes
  <2> QED  BY <1>1, <2>1, <2>2, <2>3 DEF Spares, BalanceTypes, depositVars
<1> QED  BY <1>3, <1>4, <1>5, <1>6

\* What somebody receives.
LEMMA ReceivesKeeps ==
  ASSUME Custody, UNCHANGED depositVars, NEW to, NEW t \in Tokens, NEW v \in Nat,
         Receives(to, t, v)
  PROVE  Custody' /\ \A u \in Users : Spares(u)
<1>1. BalanceTypes  BY DEF Custody
<1>2. /\ wallet' \in [Users -> [Tokens -> Nat]]
      /\ \A u \in Users, s \in Tokens : wallet'[u][s] >= wallet[u][s]
  BY <1>1 DEF Receives, BalanceTypes
<1>3. held' \in [Tokens -> Nat] /\ \A s \in Tokens : held'[s] >= held[s]
  BY <1>1 DEF Receives, BalanceTypes
<1>4. \A s \in Tokens : held'[s] >= totalDeposits[s]
  <2>1. \A s \in Tokens : totalDeposits[s] \in Nat /\ held[s] \in Nat /\ totalDeposits[s] <= held[s]
    BY <1>1 DEF Custody, DepositsBacked, BalanceTypes
  <2>2. \A s \in Tokens : held'[s] \in Nat  BY <1>3
  <2> QED  BY <1>3, <2>1, <2>2
<1>5. Custody'  BY <1>2, <1>3, <1>4, StillBacked
<1> QED  BY <1>1, <1>2, <1>5 DEF Spares, BalanceTypes, depositVars

\* A step that leaves the calls and their context alone.
LEMMA ContextStays ==
  ASSUME Context, UNCHANGED <<contextVars, calls>>
  PROVE  Context'
  BY DEF Context, DepositsBelow, PermitContext, SwapContext, PaysHisOwn, Top, LastHop,
         Delivered, Calls, Erc20, contextVars

-----------------------------------------------------------------------------
(* The actions of users.                                                   *)

LEMMA WithdrawSteps ==
  ASSUME ICustody, NEW u \in Users, NEW to \in Users, NEW t \in Tokens, NEW v \in Amounts,
         withdraw(u, to, t, v)
  PROVE  CustodyStep
<1>1. Custody /\ Context /\ BalanceTypes /\ v \in Nat  BY TokenFacts DEF ICustody, Custody
<1>2. /\ erc223Deposits[u][t] >= v /\ held[t] >= v /\ Debit(u, t, v)
      /\ held' = [held EXCEPT ![t] = @ - v] /\ wallet' = [wallet EXCEPT ![to][t] = @ + v]
      /\ UNCHANGED <<contextVars, calls>>
  BY DEF withdraw
<1>3. /\ held' \in [Tokens -> Nat]
      /\ \A s \in Tokens : held'[s] >= held[s] - (IF s = t THEN v ELSE 0)
  BY <1>1, <1>2 DEF BalanceTypes
<1>4. /\ wallet' \in [Users -> [Tokens -> Nat]]
      /\ \A w \in Users, s \in Tokens : wallet'[w][s] >= wallet[w][s]
  BY <1>1, <1>2 DEF BalanceTypes
<1>5. /\ Custody'
      /\ \A w \in Users \ {u}, s \in Tokens : erc223Deposits'[w][s] = erc223Deposits[w][s]
  BY <1>1, <1>2, <1>3, <1>4, Debited
<1>6. Context'  BY <1>1, <1>2, ContextStays
<1>7. \A w \in Users \ {u} : Spares(w)  BY <1>1, <1>4, <1>5 DEF Spares, BalanceTypes
<1>8. Own(u)  BY DEF Own, Payment
<1> QED  BY <1>5, <1>6, <1>7, <1>8 DEF CustodyStep

LEMMA TransferSteps ==
  ASSUME ICustody, NEW u \in Users, NEW t \in Tokens, NEW v \in Amounts, transfer(u, t, v)
  PROVE  CustodyStep
<1>1. Custody /\ Context /\ BalanceTypes /\ v \in Nat  BY TokenFacts DEF ICustody, Custody
<1>2. /\ wallet[u][t] >= v /\ wallet' = [wallet EXCEPT ![u][t] = @ - v]
      /\ held' = [held EXCEPT ![t] = @ + v] /\ UNCHANGED <<depositVars, contextVars, calls>>
  BY DEF transfer
<1>3. held' \in [Tokens -> Nat] /\ \A s \in Tokens : held'[s] >= held[s]
  BY <1>1, <1>2 DEF BalanceTypes
<1>4. wallet' \in [Users -> [Tokens -> Nat]] /\ \A w \in Users \ {u} : wallet'[w] = wallet[w]
  BY <1>1, <1>2 DEF BalanceTypes
<1>5. \A s \in Tokens : held'[s] >= totalDeposits[s]
  <2>1. \A s \in Tokens : totalDeposits[s] \in Nat /\ held[s] \in Nat /\ totalDeposits[s] <= held[s]
    BY <1>1 DEF Custody, DepositsBacked, BalanceTypes
  <2>2. \A s \in Tokens : held'[s] \in Nat  BY <1>3
  <2> QED  BY <1>3, <2>1, <2>2
<1>6. Custody'  BY <1>1, <1>2, <1>3, <1>4, <1>5, StillBacked
<1>7. Context'  BY <1>1, <1>2, ContextStays
<1>8. \A w \in Users \ {u} : Spares(w)  BY <1>1, <1>2, <1>4 DEF Spares, BalanceTypes, depositVars
<1>9. Own(u)  BY DEF Own, Payment
<1> QED  BY <1>6, <1>7, <1>8, <1>9 DEF CustodyStep

\* A call that comes in has only deposits below it.
LEMMA ComesInOver ==
  ASSUME IInv, Context, CanEnter, NEW f \in Frames, calls' = <<f>> \o calls
  PROVE  DepositsBelow' /\ Top' = f /\ calls' # <<>>
<1>1. TypeOK /\ LockHeld /\ PermitOfDeposit /\ DepositsBelow  BY DEF IInv, Context
<1>2. /\ calls' # <<>> /\ calls'[1] = f /\ calls' \in Seq(Frames) /\ Len(calls) \in Nat
      /\ \A n \in 1..Len(calls') : n # 1 => n - 1 \in 1..Len(calls) /\ calls'[n] = calls[n - 1]
  BY <1>1, Pushed
<1>3. calls = <<>> \/ calls[1].kind = "deposit"
  BY <1>1 DEF CanEnter, LockHeld, PermitOfDeposit
<1>4. DepositsBelow'
  <2> SUFFICES ASSUME NEW n \in 1..Len(calls'), n # 1 PROVE calls'[n].kind = "deposit"
    BY DEF DepositsBelow
  <2>1. n - 1 \in 1..Len(calls) /\ calls'[n] = calls[n - 1]  BY <1>2
  <2>2. CASE n - 1 = 1
    <3>1. calls # <<>>  BY <2>1
    <3> QED  BY <1>3, <2>1, <2>2, <3>1
  <2>3. CASE n - 1 # 1  BY <1>1, <2>1, <2>3 DEF DepositsBelow
  <2> QED  BY <2>2, <2>3
<1>5. Top' = f  BY <1>2 DEF Top
<1> QED  BY <1>2, <1>4, <1>5

LEMMA DepositSteps ==
  ASSUME ICustody, NEW u \in Users, NEW t \in Tokens, NEW v \in Amounts, NEW todo \in Payloads,
         tokenReceived(u, t, v, todo)
  PROVE  CustodyStep
<1> DEFINE f == [kind |-> "deposit", by |-> u, token |-> t, todo |-> todo, data |-> todo # <<>>,
                 took |-> ~ erc223CallPermit, phase |-> "run"]
<1>1. Custody /\ Context /\ IInv /\ BalanceTypes /\ v \in Nat  BY TokenFacts DEF ICustody, Custody
<1>2. /\ Calls(t) /\ wallet[u][t] >= v /\ CanEnter
      /\ wallet' = [wallet EXCEPT ![u][t] = @ - v] /\ held' = [held EXCEPT ![t] = @ + v]
      /\ Credit(u, t, v) /\ call_sender' = u /\ token_sender' = t
      /\ calls' = <<f>> \o calls
  BY DEF tokenReceived, Push, Enter
<1>3. wallet' \in [Users -> [Tokens -> Nat]] /\ \A w \in Users \ {u} : wallet'[w] = wallet[w]
  BY <1>1, <1>2 DEF BalanceTypes
<1>4. Custody' /\ \A w \in Users, s \in Tokens : erc223Deposits'[w][s] >= erc223Deposits[w][s]
  BY <1>1, <1>2, <1>3, Credited
<1>5. f \in Frames
  <2>1. todo \in Seq({"swap", "unwrap"})
    <3>1. <<>> \in Seq({"swap", "unwrap"})  OBVIOUS
    <3>2. <<"swap">> \in Seq({"swap", "unwrap"})  OBVIOUS
    <3>3. <<"unwrap">> \in Seq({"swap", "unwrap"})  OBVIOUS
    <3>4. <<"unwrap", "swap">> \in Seq({"swap", "unwrap"})  OBVIOUS
    <3> QED  BY <3>1, <3>2, <3>3, <3>4 DEF Payloads
  <2>2. erc223CallPermit \in BOOLEAN  BY <1>1 DEF IInv, TypeOK
  <2> QED  BY <2>1, <2>2 DEF Frames, DepositFrames, Phases
<1>6. f.kind = "deposit" /\ f.by = u /\ f.token = t  OBVIOUS
<1> HIDE DEF f
<1>7. DepositsBelow' /\ Top' = f  BY <1>1, <1>2, <1>5, ComesInOver
<1>8. Context'  BY <1>2, <1>6, <1>7 DEF Context, PermitContext, SwapContext
<1>9. \A w \in Users \ {u} : Spares(w)
  BY <1>1, <1>3, <1>4 DEF Spares, BalanceTypes
<1>10. Own(u)  BY DEF Own, Payment
<1> QED  BY <1>4, <1>8, <1>9, <1>10 DEF CustodyStep

\* A user's own call finds nobody else's context: the permit of a deposit is for
\* the deposited token only.
LEMMA InputSteps ==
  ASSUME ICustody, NEW u \in Users, NEW path \in Paths, NEW amount \in Amounts,
         NEW to \in Users \cup {Router}, NEW prefer \in BOOLEAN, NEW value \in {0} \cup Amounts,
         exactInput(u, path, amount, to, prefer, value)
  PROVE  CustodyStep
<1> DEFINE f == Swap(u, u, path, amount, to, prefer)
<1>1. Custody /\ Context /\ IInv /\ BalanceTypes  BY DEF ICustody, Custody
<1>2. /\ calls' = <<f>> \o calls /\ CanEnter /\ Enter(FALSE) /\ Matches(path[1], u)
      /\ call_sender' = (IF call_sender = NoOne THEN u ELSE call_sender)
      /\ token_sender' = token_sender /\ UNCHANGED <<wallet, held, depositVars>>
  BY DEF exactInput, Push, Enter
<1>3. path \in Routes /\ path[1] \in Assets
  <2>1. path \in Routes  BY RouterAssumption DEF Routes
  <2>2. \A p \in Seq(Assets) : Len(p) >= 2 => p[1] \in Assets  OBVIOUS
  <2> QED  BY <2>1, <2>2 DEF Routes
<1>4. token_sender = NoOne
  <2>1. u \notin {Erc20(path[1]), Erc223(path[1])}  BY <1>3, TokenFacts
  <2> QED  BY <1>2, <2>1 DEF Matches
<1>5. calls = <<>> /\ call_sender = NoOne
  <2>1. ~ erc223CallPermit
    <3> SUFFICES ASSUME erc223CallPermit PROVE FALSE  OBVIOUS
    <3>1. calls # <<>> /\ calls[1].kind = "deposit"  BY <1>1 DEF IInv, PermitOfDeposit
    <3>2. Top \in DepositFrames
      BY <1>1, <3>1, TopFrame DEF IInv, Frames, InputFrames, OutputFrames
    <3>3. token_sender = Top.token  BY <1>1 DEF Context, PermitContext
    <3> QED  BY <1>4, <3>2, <3>3, TokenFacts DEF DepositFrames
  <2>2. calls = <<>>  BY <1>1, <1>2, <2>1 DEF CanEnter, IInv, LockHeld
  <2>3. ~ HasCall({"deposit", "input"})
    <3>1. 1..Len(calls) = {}  BY <2>2
    <3> QED  BY <3>1 DEF HasCall
  <2> QED  BY <1>1, <2>2, <2>3 DEF IInv, SendersHaveCalls
<1>6. call_sender' = u  BY <1>2, <1>5
<1>7. f \in Frames /\ f.kind = "input" /\ f.by = u /\ f.payer = u /\ f.phase = "run"
  <2>1. erc223CallPermit \in BOOLEAN  BY <1>1 DEF IInv, TypeOK
  <2>2. f \in InputFrames /\ f.kind = "input"  BY <1>6, <2>1, SwapFrame
  <2>3. f.by = u /\ f.payer = u /\ f.phase = "run"  BY <1>6 DEF Swap
  <2> HIDE DEF f
  <2> QED  BY <2>2, <2>3 DEF Frames
<1> HIDE DEF f
<1>8. DepositsBelow' /\ Top' = f  BY <1>1, <1>2, <1>7, ComesInOver
<1>9. erc223CallPermit' = FALSE  BY <1>2 DEF Enter
<1>10. PaysHisOwn(Top, token_sender, call_sender)'  BY <1>2, <1>4, <1>7, <1>8, TokenFacts DEF PaysHisOwn, Delivered
<1>11. Context'
  <2>1. SwapContext'  BY <1>10 DEF SwapContext
  <2> QED  BY <1>2, <1>4, <1>8, <1>9, <2>1 DEF Context, PermitContext
<1>12. Custody'
  <2>1. \A s \in Tokens : held[s] >= totalDeposits[s]
    BY <1>1 DEF Custody, DepositsBacked, BalanceTypes
  <2> QED  BY <1>1, <1>2, <2>1, StillBacked DEF BalanceTypes
<1>13. \A w \in Users : Spares(w)  BY <1>1, <1>2 DEF Spares, BalanceTypes, depositVars
<1> QED  BY <1>11, <1>12, <1>13 DEF CustodyStep

LEMMA OutputSteps ==
  ASSUME ICustody, NEW u \in Users, NEW path \in Paths, NEW amount \in Amounts,
         NEW to \in Users \cup {Router}, NEW value \in {0} \cup Amounts,
         exactOutput(u, path, amount, to, value)
  PROVE  CustodyStep
<1> DEFINE f == [kind |-> "output", by |-> u, path |-> path, hop |-> 1, amount |-> amount,
                 to |-> to, took |-> ~ erc223CallPermit, phase |-> "pool"]
<1>1. Custody /\ Context /\ IInv  BY DEF ICustody
<1>2. /\ calls' = <<f>> \o calls /\ CanEnter /\ Enter(FALSE)
      /\ UNCHANGED <<wallet, held, depositVars>> /\ UNCHANGED <<call_sender, token_sender>>
  BY DEF exactOutput, Push, Enter
<1>3. path \in Routes  BY RouterAssumption DEF Routes
<1>4. f \in Frames /\ f.kind = "output"
  <2>1. erc223CallPermit \in BOOLEAN  BY <1>1 DEF IInv, TypeOK
  <2> QED  BY <1>3, <2>1 DEF Frames, OutputFrames, Phases
<1> HIDE DEF f
<1>5. DepositsBelow' /\ Top' = f  BY <1>1, <1>2, <1>4, ComesInOver
<1>6. Context'
  BY <1>1, <1>2, <1>4, <1>5 DEF Context, PermitContext, SwapContext, Enter
<1>7. Custody' /\ \A w \in Users : Spares(w)
  <2>1. \A s \in Tokens : held[s] >= totalDeposits[s]
    BY <1>1 DEF Custody, DepositsBacked, BalanceTypes
  <2>2. BalanceTypes  BY <1>1 DEF Custody
  <2>3. Custody'  BY <1>1, <1>2, <2>1, <2>2, StillBacked DEF BalanceTypes
  <2> QED  BY <1>2, <2>2, <2>3 DEF Spares, BalanceTypes, depositVars
<1> QED  BY <1>6, <1>7 DEF CustodyStep

\* All of the router's wrapped ether goes, of which there is no deposit.
LEMMA UnwrapPays ==
  ASSUME Custody, NEW to, Unwrap(to)
  PROVE  Custody' /\ \A u \in Users : Spares(u)
<1>1. BalanceTypes  BY DEF Custody
<1>2. held' = [held EXCEPT ![Erc20(WETH9)] = 0] /\ UNCHANGED <<wallet, depositVars>>
  BY DEF Unwrap
<1>3. totalDeposits[Erc20(WETH9)] = 0  BY TokenFacts DEF Custody, OnlyHookedDeposited
<1>4. held' \in [Tokens -> Nat]  BY <1>1, <1>2 DEF BalanceTypes
<1>5. \A s \in Tokens : held'[s] >= totalDeposits[s]
  <2>1. \A s \in Tokens : totalDeposits[s] \in Nat /\ held[s] \in Nat /\ totalDeposits[s] <= held[s]
    BY <1>1 DEF Custody, DepositsBacked, BalanceTypes
  <2>2. \A s \in Tokens : s # Erc20(WETH9) => held'[s] = held[s]  BY <1>1, <1>2 DEF BalanceTypes
  <2>3. held'[Erc20(WETH9)] = 0  BY <1>1, <1>2, TokenFacts DEF BalanceTypes
  <2> QED  BY <1>3, <2>1, <2>2, <2>3
<1>6. Custody'  BY <1>1, <1>2, <1>4, <1>5, StillBacked DEF BalanceTypes
<1> QED  BY <1>1, <1>2, <1>6 DEF Spares, BalanceTypes, depositVars

-----------------------------------------------------------------------------
(* The steps of the calls under way.                                       *)

\* A frame in the place of the one on top, or of one that ended.
LEMMA BelowAfter ==
  ASSUME IInv, DepositsBelow, calls # <<>>
  PROVE  /\ \A f \in Frames : calls' = <<f>> \o Tail(calls) =>
                DepositsBelow' /\ Top' = f /\ calls' # <<>>
         /\ calls' = Tail(calls) =>
                DepositsBelow' /\ (calls' # <<>> => Top'.kind = "deposit")
<1>1. TypeOK  BY DEF IInv
<1>2. ASSUME NEW f \in Frames, calls' = <<f>> \o Tail(calls)
      PROVE  DepositsBelow' /\ Top' = f /\ calls' # <<>>
  <2>1. /\ calls' # <<>> /\ Len(calls') = Len(calls) /\ calls'[1] = f
        /\ \A n \in 1..Len(calls) : n # 1 => calls'[n] = calls[n]
    BY <1>1, <1>2, Replaced
  <2>2. DepositsBelow'  BY <2>1 DEF DepositsBelow
  <2>3. Top' = f  BY <1>1, <1>2 DEF Top, TypeOK
  <2> QED  BY <2>1, <2>2, <2>3
<1>3. ASSUME calls' = Tail(calls)
      PROVE  DepositsBelow' /\ (calls' # <<>> => Top'.kind = "deposit")
  <2>1. /\ calls' \in Seq(Frames)
        /\ \A n \in 1..Len(calls') : n + 1 \in 1..Len(calls) /\ calls'[n] = calls[n + 1]
    BY <1>1, <1>3, Popped
  <2>2. \A n \in 1..Len(calls') : calls'[n].kind = "deposit"
    <3> SUFFICES ASSUME NEW n \in 1..Len(calls') PROVE calls'[n].kind = "deposit"
      OBVIOUS
    <3>1. n + 1 # 1  OBVIOUS
    <3> QED  BY <2>1, <3>1 DEF DepositsBelow
  <2>3. DepositsBelow'  BY <2>2 DEF DepositsBelow
  <2>4. ASSUME calls' # <<>> PROVE Top'.kind = "deposit"
    <3>1. Top' = calls'[1] /\ 1 \in 1..Len(calls')  BY <2>1, <2>4 DEF Top
    <3> QED  BY <2>2, <3>1
  <2> QED  BY <2>3, <2>4
<1> QED  BY <1>2, <1>3

LEMMA DispatchUnwrapSteps ==
  ASSUME ICustody, NEW to \in Users, DispatchUnwrap(to)
  PROVE  CustodyStep
<1> DEFINE f == [Top EXCEPT !.todo = Tail(@), !.phase = "outside"]
<1>1. Custody /\ Context /\ IInv  BY DEF ICustody
<1>2. /\ calls # <<>> /\ Top.kind = "deposit" /\ Top.todo # <<>> /\ Unwrap(to)
      /\ calls' = <<f>> \o Tail(calls) /\ UNCHANGED contextVars
  BY DEF DispatchUnwrap, NextCall, Depositing, Replace, Unwrap
<1>3. Top \in DepositFrames
  BY <1>1, <1>2, TopFrame DEF IInv, Frames, InputFrames, OutputFrames
<1>4. f \in Frames /\ f.kind = "deposit" /\ f.by = Top.by /\ f.token = Top.token
  <2>1. Tail(Top.todo) \in Seq({"swap", "unwrap"})  BY <1>2, <1>3 DEF DepositFrames
  <2> QED  BY <1>3, <2>1 DEF DepositFrames, Phases, Frames
<1> HIDE DEF f
<1>5. DepositsBelow' /\ Top' = f  BY <1>1, <1>2, <1>4, BelowAfter DEF Context
<1>6. Context'
  BY <1>1, <1>2, <1>4, <1>5 DEF Context, PermitContext, SwapContext, contextVars
<1>7. Custody' /\ \A u \in Users : Spares(u)  BY <1>1, <1>2, UnwrapPays
<1> QED  BY <1>6, <1>7 DEF CustodyStep

\* A step that moves nothing.
LEMMA NothingMoves ==
  ASSUME Custody, UNCHANGED <<wallet, held, depositVars>>
  PROVE  Custody' /\ \A u \in Users : Spares(u)
<1>1. BalanceTypes  BY DEF Custody
<1>2. \A s \in Tokens : held[s] >= totalDeposits[s]
  BY <1>1 DEF Custody, DepositsBacked, BalanceTypes
<1>3. Custody'  BY <1>1, <1>2, StillBacked DEF BalanceTypes
<1> QED  BY <1>1, <1>3 DEF Spares, BalanceTypes, depositVars

LEMMA DispatchReturnSteps ==
  ASSUME ICustody, DispatchReturn
  PROVE  CustodyStep
<1> DEFINE f == [Top EXCEPT !.phase = "run"]
<1>1. Custody /\ Context /\ IInv  BY DEF ICustody
<1>2. /\ calls # <<>> /\ Top.kind = "deposit" /\ UNCHANGED <<wallet, held, depositVars>>
      /\ calls' = <<f>> \o Tail(calls) /\ UNCHANGED contextVars
  BY DEF DispatchReturn, Depositing, Replace, balanceVars
<1>3. Top \in DepositFrames
  BY <1>1, <1>2, TopFrame DEF IInv, Frames, InputFrames, OutputFrames
<1>4. f \in Frames /\ f.kind = "deposit" /\ f.by = Top.by /\ f.token = Top.token
  BY <1>3 DEF DepositFrames, Phases, Frames
<1> HIDE DEF f
<1>5. DepositsBelow' /\ Top' = f  BY <1>1, <1>2, <1>4, BelowAfter DEF Context
<1>6. Context'
  BY <1>1, <1>2, <1>4, <1>5 DEF Context, PermitContext, SwapContext, contextVars
<1>7. Custody' /\ \A u \in Users : Spares(u)  BY <1>1, <1>2, NothingMoves
<1> QED  BY <1>6, <1>7 DEF CustodyStep

LEMMA DepositEndSteps ==
  ASSUME ICustody, DepositEnd
  PROVE  CustodyStep
<1>1. Custody /\ Context /\ IInv  BY DEF ICustody
<1>2. /\ calls # <<>> /\ calls' = Tail(calls) /\ Top.kind = "deposit"
      /\ erc223CallPermit' = PermitAfter(Top) /\ token_sender' = NoOne
      /\ UNCHANGED <<wallet, held, depositVars>>
  BY DEF DepositEnd, Depositing, balanceVars
<1>3. DepositsBelow' /\ (calls' # <<>> => Top'.kind = "deposit")
  BY <1>1, <1>2, BelowAfter DEF Context
<1>4. ~ erc223CallPermit'
  <2>1. Top = calls[1]  BY <1>1, <1>2, TopFrame DEF IInv
  <2>2. erc223CallPermit => Top.data  BY <1>1, <2>1 DEF IInv, PermitOfDeposit
  <2> QED  BY <1>2, <2>2 DEF PermitAfter
<1>5. Context'  BY <1>2, <1>3, <1>4 DEF Context, PermitContext, SwapContext
<1>6. Custody' /\ \A u \in Users : Spares(u)  BY <1>1, <1>2, NothingMoves
<1> QED  BY <1>5, <1>6 DEF CustodyStep

\* The dispatched swap is the depositor's, of the deposited token.
LEMMA DispatchSwapSteps ==
  ASSUME ICustody, NEW path \in Paths, NEW amount \in Amounts,
         NEW to \in Users \cup {Router}, NEW prefer \in BOOLEAN,
         DispatchSwap(path, amount, to, prefer)
  PROVE  CustodyStep
<1> DEFINE d == [Top EXCEPT !.todo = Tail(@)]
           f == Swap(Top.by, Top.token, path, amount, to, prefer)
<1>1. Custody /\ Context /\ IInv /\ IInv'  BY DispatchSwapKeeps DEF ICustody
<1>2. /\ calls # <<>> /\ Top.kind = "deposit" /\ Top.todo # <<>>
      /\ calls' = <<f, d>> \o Tail(calls) /\ Enter(FALSE) /\ CanEnter
      /\ call_sender' = (IF call_sender = NoOne THEN Top.by ELSE call_sender)
      /\ token_sender' = token_sender /\ UNCHANGED <<wallet, held, depositVars>>
  BY DEF DispatchSwap, NextCall, Depositing, Enter, balanceVars
<1>3. /\ Top \in DepositFrames /\ Top = calls[1] /\ Len(calls) \in Nat /\ Len(calls) >= 1
      /\ Tail(calls) \in Seq(Frames) /\ Len(Tail(calls)) = Len(calls) - 1
      /\ \A n \in 1..Len(calls) - 1 : Tail(calls)[n] = calls[n + 1]
  BY <1>1, <1>2, TopFrame DEF IInv, Frames, InputFrames, OutputFrames
<1>4. erc223CallPermit /\ ~ erc223CallPermit'
  BY <1>1, <1>2 DEF IInv, LockHeld, CanEnter, Enter
<1>5. token_sender = Top.token /\ call_sender = Top.by /\ Top.by \in Users
  BY <1>1, <1>3, <1>4 DEF Context, PermitContext, DepositFrames
<1>6. call_sender' = Top.by  BY <1>2, <1>5, TokenFacts
<1>7. f.payer = Top.by /\ f.by = Top.by /\ f.sender = Top.token /\ f.phase = "run"
  BY <1>6 DEF Swap
<1>8. d.kind = "deposit"  BY <1>2, <1>3 DEF DepositFrames
<1>9. calls' \in Seq(Frames)  BY <1>1 DEF IInv, TypeOK
<1> HIDE DEF d, f
<1>10. /\ calls' # <<>> /\ Len(calls') = Len(calls) + 1 /\ calls'[1] = f /\ calls'[2] = d
       /\ \A n \in 3..Len(calls') : calls'[n] = calls[n - 1]
  BY <1>2, <1>3
<1>11. Top' = f  BY <1>9, <1>10 DEF Top
<1>12. DepositsBelow'
  <2> SUFFICES ASSUME NEW n \in 1..Len(calls'), n # 1 PROVE calls'[n].kind = "deposit"
    BY DEF DepositsBelow
  <2>1. CASE n = 2  BY <1>8, <1>10, <2>1
  <2>2. CASE n # 2
    <3>1. n - 1 \in 1..Len(calls) /\ n - 1 # 1 /\ calls'[n] = calls[n - 1]
      BY <1>3, <1>10, <2>2
    <3> QED  BY <1>1, <3>1 DEF Context, DepositsBelow
  <2> QED  BY <2>1, <2>2
<1>13. PaysHisOwn(Top, token_sender, call_sender)'
  BY <1>2, <1>5, <1>6, <1>7, <1>11, TokenFacts DEF PaysHisOwn, Delivered
<1>14. SwapContext'  BY <1>13 DEF SwapContext
<1>15. Context'  BY <1>1, <1>2, <1>4, <1>12, <1>14 DEF Context, PermitContext
<1>16. Custody' /\ \A u \in Users : Spares(u)  BY <1>1, <1>2, NothingMoves
<1> QED  BY <1>15, <1>16 DEF CustodyStep

\* The context of a swap that goes on, and of one that ends.
LEMMA ContextGoesOn ==
  ASSUME ICustody, calls # <<>>, Top.kind # "deposit", NEW f \in Frames,
         calls' = <<f>> \o Tail(calls), f.kind = Top.kind,
         erc223CallPermit' = erc223CallPermit, token_sender' \in {token_sender, NoOne},
         f.kind = "input" => PaysHisOwn(f, token_sender', call_sender')
  PROVE  Context'
<1>1. Context /\ IInv  BY DEF ICustody
<1>2. ~ erc223CallPermit  BY <1>1, SwapOnTop
<1>3. DepositsBelow' /\ Top' = f  BY <1>1, BelowAfter DEF Context
<1> QED  BY <1>1, <1>2, <1>3 DEF Context, PermitContext, SwapContext

LEMMA ContextEnds ==
  ASSUME ICustody, calls # <<>>, Top.kind # "deposit", calls' = Tail(calls),
         UNCHANGED <<erc223CallPermit, token_sender>>
  PROVE  Context'
<1>1. Context /\ IInv  BY DEF ICustody
<1>2. ~ erc223CallPermit  BY <1>1, SwapOnTop
<1>3. DepositsBelow' /\ (calls' # <<>> => Top'.kind = "deposit")
  BY <1>1, BelowAfter DEF Context
<1> QED  BY <1>1, <1>2, <1>3 DEF Context, PermitContext, SwapContext

\* The assets of a path.
LEMMA RouteAssets ==
  ASSUME NEW path \in Routes
  PROVE  path[1] \in Assets /\ path[2] \in Assets /\ path[Len(path)] \in Assets
<1>1. \A p \in Seq(Assets) : Len(p) >= 2 =>
         p[1] \in Assets /\ p[2] \in Assets /\ p[Len(p)] \in Assets
  OBVIOUS
<1> QED  BY <1>1 DEF Routes

\* What covers a swap is the deposit of the one whose call it is.
LEMMA InputHopSteps ==
  ASSUME ICustody, InputHop
  PROVE  CustodyStep
<1> DEFINE covered == /\ call_sender # NoOne /\ token_sender # NoOne
                      /\ erc223Deposits[call_sender][token_sender] >= Top.amount
<1>1. Custody /\ Context /\ IInv /\ BalanceTypes  BY DEF ICustody, Custody
<1>2. /\ calls # <<>> /\ Top.kind = "input" /\ Top.phase = "run"
      /\ UNCHANGED <<wallet, erc223CallPermit, call_sender, token_sender>>
      /\ \E ph \in {"paid", "pool"} : calls' = <<[Top EXCEPT !.phase = ph]>> \o Tail(calls)
  BY DEF InputHop, Swapping, Replace
<1>3. Top \in InputFrames /\ Top = calls[1]  BY <1>1, <1>2, SwapOnTop
<1>4. PaysHisOwn(Top, token_sender, call_sender)  BY <1>1, <1>2 DEF Context, SwapContext
<1>5. Top.by \in Users /\ Top.amount \in Nat  BY <1>3, TokenFacts DEF InputFrames
<1>6. Context'
  <2>1. PICK ph \in {"paid", "pool"} : calls' = <<[Top EXCEPT !.phase = ph]>> \o Tail(calls)
    BY <1>2
  <2> DEFINE f == [Top EXCEPT !.phase = ph]
  <2>2. /\ f \in Frames /\ f.kind = Top.kind /\ f.phase = ph /\ f.path = Top.path
        /\ f.by = Top.by /\ f.payer = Top.payer /\ f.sender = Top.sender
    BY <1>1, <1>2, DeliveredFrame DEF Phases
  <2>3. calls' = <<f>> \o Tail(calls)  BY <2>1
  <2> HIDE DEF f
  <2>4. PaysHisOwn(f, token_sender', call_sender')  BY <1>2, <1>4, <2>2 DEF PaysHisOwn, Delivered, Calls, Erc20
  <2> QED  BY <1>2, <2>2, <2>3, <2>4, ContextGoesOn
<1>7. CASE covered
  <2>1. /\ IF Top.sender \in Tokens
           THEN Debit(call_sender, Top.sender, Top.amount)
           ELSE UNCHANGED depositVars
        /\ held' = [held EXCEPT ![token_sender] = @ - Top.amount]
    BY <1>7 DEF InputHop
  <2>2. Top.sender = token_sender /\ call_sender = Top.by /\ token_sender \in Tokens
    BY <1>1, <1>4, <1>7 DEF PaysHisOwn, Context
  <2>3. Debit(Top.by, token_sender, Top.amount) /\ erc223Deposits[Top.by][token_sender] >= Top.amount
    BY <1>7, <2>1, <2>2
  <2>4. held[token_sender] >= Top.amount
    <3>1. /\ erc223Deposits[Top.by][token_sender] <= DepositSum(token_sender)
          /\ erc223Deposits[Top.by][token_sender] \in Nat
      <4>1. erc223Deposits[Top.by][token_sender] - Top.amount \in Nat
        BY <1>1, <1>5, <2>2, <2>3 DEF BalanceTypes
      <4>2. erc223Deposits' = [erc223Deposits EXCEPT
                ![Top.by][token_sender] = erc223Deposits[Top.by][token_sender] - Top.amount]
        BY <1>1, <1>5, <2>2, <2>3 DEF Debit, BalanceTypes
      <4>3. erc223Deposits[Top.by][token_sender] \in Nat  BY <1>1, <1>5, <2>2 DEF BalanceTypes
      <4> QED  BY <1>1, <1>5, <2>2, <4>1, <4>2, <4>3, TotalMoves
    <3>2. /\ totalDeposits[token_sender] = DepositSum(token_sender)
          /\ totalDeposits[token_sender] <= held[token_sender]
          /\ totalDeposits[token_sender] \in Nat /\ held[token_sender] \in Nat
      BY <1>1, <2>2, DepositsAre DEF Custody, BalanceTypes
    <3> HIDE DEF DepositSum
    <3> QED  BY <1>5, <2>3, <3>1, <3>2
  <2>5. /\ held' \in [Tokens -> Nat]
        /\ \A s \in Tokens : held'[s] >= held[s] - (IF s = token_sender THEN Top.amount ELSE 0)
    <3>1. \A s \in Tokens : held[s] \in Nat  BY <1>1 DEF BalanceTypes
    <3> QED  BY <1>1, <1>5, <2>1, <2>2, <2>4, <3>1 DEF BalanceTypes
  <2>6. wallet' \in [Users -> [Tokens -> Nat]]  BY <1>1, <1>2 DEF BalanceTypes
  <2>7. /\ Custody'
        /\ \A u \in Users \ {Top.by}, s \in Tokens : erc223Deposits'[u][s] = erc223Deposits[u][s]
    BY <1>1, <1>5, <2>2, <2>3, <2>5, <2>6, Debited
  <2>8. \A u \in Users \ {Top.by} : Spares(u)  BY <1>1, <1>2, <2>7 DEF Spares, BalanceTypes
  <2>9. Own(Top.by)  BY <1>2 DEF Own
  <2> QED  BY <1>6, <2>7, <2>8, <2>9 DEF CustodyStep
<1>8. CASE ~ covered
  <2>1. UNCHANGED <<wallet, held, depositVars>>  BY <1>2, <1>8 DEF InputHop
  <2> QED  BY <1>1, <1>6, <2>1, NothingMoves DEF CustodyStep
<1> QED  BY <1>7, <1>8

\* The callback takes the payment from the one who made the call.
LEMMA InputCallbackSteps ==
  ASSUME ICustody, NEW out \in Amounts, InputCallback(out)
  PROVE  CustodyStep
<1> DEFINE f == [Top EXCEPT !.amount = out, !.phase = "paid"]
<1>1. Custody /\ Context /\ IInv /\ out \in Nat  BY TokenFacts DEF ICustody
<1>2. /\ calls # <<>> /\ Top.kind = "input" /\ Top.phase = "pool" /\ calls' = <<f>> \o Tail(calls)
      /\ pay(Top.path[1], Top.payer, out)
      /\ UNCHANGED <<erc223CallPermit, call_sender, token_sender>>
  BY DEF InputCallback, Callback, Swapping, Replace
<1>3. Top \in InputFrames  BY <1>1, <1>2, SwapOnTop
<1>4. PaysHisOwn(Top, token_sender, call_sender)  BY <1>1, <1>2 DEF Context, SwapContext
<1>5. Top.path[1] \in Assets /\ Top.by \in Users
  BY <1>3, RouteAssets DEF InputFrames
<1>6. /\ f \in Frames /\ f.kind = "input" /\ f.phase = "paid" /\ f.path = Top.path
      /\ f.by = Top.by /\ f.payer = Top.payer /\ f.sender = Top.sender
  BY <1>2, <1>3 DEF Frames, InputFrames, Phases
<1> HIDE DEF f
<1>7. PaysHisOwn(f, token_sender', call_sender')  BY <1>2, <1>4, <1>6 DEF PaysHisOwn, Delivered, Calls, Erc20
<1>8. Context'  BY <1>2, <1>6, <1>7, ContextGoesOn
<1>9. /\ Top.payer \in Users \cup {Router}
      /\ Top.payer = Router => ~ Calls(Erc20(Top.path[1]))
  BY <1>4, <1>5 DEF PaysHisOwn
<1>10. Custody' /\ \A u \in Users : u # Top.payer => Spares(u)
  BY <1>1, <1>2, <1>5, <1>9, PayKeeps
<1>11. \A u \in Users : u = Top.payer => Own(u)
  BY <1>2, <1>4, TokenFacts DEF PaysHisOwn, Own
<1> QED  BY <1>8, <1>10, <1>11 DEF CustodyStep

\* What the router itself receives for the next pool of a path is of a token that
\* does not call it.
LEMMA DeliverSteps ==
  ASSUME ICustody, Deliver
  PROVE  CustodyStep
<1>1. Custody /\ Context /\ IInv  BY DEF ICustody
<1>2. /\ calls # <<>> /\ Top.kind \in {"input", "output"}
      /\ ~ (Recipient(Top) = Router /\ Calls(Output(Top)))
      /\ Receives(Recipient(Top), Output(Top), Top.amount)
      /\ UNCHANGED depositVars /\ UNCHANGED contextVars
      /\ \E ph \in Delivered : calls' = <<[Top EXCEPT !.phase = ph]>> \o Tail(calls)
  BY DEF Deliver, Swapping, Replace, Delivered
<1>3. Top.path \in Routes /\ Top.amount \in Nat
  BY <1>1, <1>2, SwapOnTop, TokenFacts DEF InputFrames, OutputFrames
<1>4. Output(Top) \in Tokens  BY <1>3, RouteAssets, TokenFacts DEF Output
<1>5. Custody' /\ \A u \in Users : Spares(u)  BY <1>1, <1>2, <1>3, <1>4, ReceivesKeeps
<1>6. Context'
  <2>1. PICK ph \in Delivered : calls' = <<[Top EXCEPT !.phase = ph]>> \o Tail(calls)
    BY <1>2
  <2> DEFINE f == [Top EXCEPT !.phase = ph]
  <2>2. /\ f \in Frames /\ f.kind = Top.kind /\ f.path = Top.path /\ f.by = Top.by
        /\ Top.kind = "input" => f.payer = Top.payer /\ f.sender = Top.sender
    BY <1>1, <1>2, DeliveredFrame DEF Delivered, Phases
  <2>3. calls' = <<f>> \o Tail(calls)  BY <2>1
  <2> HIDE DEF f
  <2>4. ASSUME f.kind = "input" PROVE PaysHisOwn(f, token_sender', call_sender')
    <3>1. PaysHisOwn(Top, token_sender, call_sender)  BY <1>1, <1>2, <2>2, <2>4 DEF Context, SwapContext
    <3>2. ~ LastHop(Top.path) => ~ Calls(Erc20(Top.path[2]))
      BY <1>2, <2>2, <2>4 DEF Recipient, Output
    <3> QED
      BY <1>2, <2>2, <2>4, <3>1, <3>2 DEF PaysHisOwn, contextVars, LastHop, Calls, Erc20
  <2> QED  BY <1>2, <2>2, <2>3, <2>4, ContextGoesOn DEF contextVars
<1> QED  BY <1>5, <1>6 DEF CustodyStep

LEMMA InputReturnSteps ==
  ASSUME ICustody, InputReturn
  PROVE  CustodyStep
<1>1. Custody /\ Context /\ IInv  BY DEF ICustody
<1>2. /\ calls # <<>> /\ Top.kind = "input" /\ Top.phase \in Delivered
      /\ erc223CallPermit' = erc223CallPermit /\ UNCHANGED <<wallet, held, depositVars>>
  BY DEF InputReturn, Swapping, balanceVars
<1>3. Top \in InputFrames  BY <1>1, <1>2, SwapOnTop
<1>4. PaysHisOwn(Top, token_sender, call_sender)  BY <1>1, <1>2 DEF Context, SwapContext
<1>5. Custody' /\ \A u \in Users : Spares(u)  BY <1>1, <1>2, NothingMoves
<1>6. CASE LastHop(Top.path)
  <2>1. calls' = Tail(calls) /\ token_sender' = token_sender  BY <1>6 DEF InputReturn
  <2>2. Context'  BY <1>2, <2>1, ContextEnds
  <2> QED  BY <1>5, <2>2 DEF CustodyStep
<1>7. CASE ~ LastHop(Top.path)
  <2> DEFINE f == [Top EXCEPT !.path = Tail(@), !.payer = Router, !.phase = "run"]
  <2>1. calls' = <<f>> \o Tail(calls) /\ token_sender' = NoOne
    BY <1>7 DEF InputReturn, Replace
  <2>2. Tail(Top.path) \in Routes /\ Tail(Top.path)[1] = Top.path[2]
    BY <1>3, <1>7, RestOfPath DEF InputFrames
  <2>3. /\ f \in Frames /\ f.kind = "input" /\ f.payer = Router /\ f.phase = "run"
        /\ f.path = Tail(Top.path)
    BY <1>2, <1>3, <2>2 DEF InputFrames, Phases, Frames
  <2> HIDE DEF f
  <2>4. ~ Calls(Erc20(f.path[1]))  BY <1>2, <1>4, <1>7, <2>2, <2>3 DEF PaysHisOwn
  <2>5. PaysHisOwn(f, token_sender', call_sender')  BY <2>1, <2>3, <2>4 DEF PaysHisOwn, Delivered, Calls, Erc20
  <2>6. Context'  BY <1>2, <2>1, <2>3, <2>5, ContextGoesOn
  <2> QED  BY <1>5, <2>6 DEF CustodyStep
<1> QED  BY <1>6, <1>7

LEMMA OutputNextSteps ==
  ASSUME ICustody, OutputNext
  PROVE  CustodyStep
<1> DEFINE f == [Top EXCEPT !.hop = @ + 1]
<1>1. Custody /\ IInv  BY DEF ICustody
<1>2. /\ calls # <<>> /\ Top.kind = "output" /\ calls' = <<f>> \o Tail(calls)
      /\ UNCHANGED <<wallet, held, depositVars>> /\ UNCHANGED <<erc223CallPermit, token_sender>>
  BY DEF OutputNext, Swapping, Replace, balanceVars
<1>3. f \in Frames /\ f.kind = "output"
  <2>1. Top \in OutputFrames  BY <1>1, <1>2, SwapOnTop
  <2>2. Top.hop + 1 \in Nat \ {0}  BY <2>1 DEF OutputFrames
  <2> QED  BY <1>2, <2>1, <2>2 DEF Frames, OutputFrames
<1> HIDE DEF f
<1>4. Context'  BY <1>2, <1>3, ContextGoesOn
<1> QED  BY <1>1, <1>2, <1>4, NothingMoves DEF CustodyStep

LEMMA OutputCallbackSteps ==
  ASSUME ICustody, OutputCallback
  PROVE  CustodyStep
<1> DEFINE f == [Top EXCEPT !.phase = "paid"]
<1>1. Custody /\ IInv  BY DEF ICustody
<1>2. /\ calls # <<>> /\ Top.kind = "output" /\ Top.phase = "pool" /\ calls' = <<f>> \o Tail(calls)
      /\ pay(Top.path[Len(Top.path)], Top.by, Top.amount)
      /\ UNCHANGED <<erc223CallPermit, token_sender>>
  BY DEF OutputCallback, Callback, Swapping, Replace
<1>3. f \in Frames /\ f.kind = "output"  BY <1>1, <1>2, DeliveredFrame DEF Phases
<1> HIDE DEF f
<1>4. Context'  BY <1>2, <1>3, ContextGoesOn
<1>5. Top.path[Len(Top.path)] \in Assets /\ Top.by \in Users /\ Top.amount \in Nat
  <2>1. Top \in OutputFrames  BY <1>1, <1>2, SwapOnTop
  <2> QED  BY <2>1, RouteAssets, TokenFacts DEF OutputFrames
<1>6. Custody' /\ \A u \in Users : u # Top.by => Spares(u)
  <2>1. Top.by \in Users \cup {Router} /\ Top.by # Router  BY <1>5, TokenFacts
  <2> QED  BY <1>1, <1>2, <1>5, <2>1, PayKeeps
<1>7. Own(Top.by)  BY <1>2 DEF Own
<1> QED  BY <1>4, <1>6, <1>7 DEF CustodyStep

LEMMA OutputReturnSteps ==
  ASSUME ICustody, OutputReturn
  PROVE  CustodyStep
<1>1. /\ calls # <<>> /\ Top.kind = "output" /\ calls' = Tail(calls)
      /\ UNCHANGED <<wallet, held, depositVars>> /\ UNCHANGED <<erc223CallPermit, token_sender>>
  BY DEF OutputReturn, Swapping, balanceVars
<1>2. Context'  BY <1>1, ContextEnds
<1> QED  BY <1>1, <1>2, NothingMoves DEF CustodyStep, ICustody

-----------------------------------------------------------------------------
\* Every step keeps custody, and takes from nobody but the one whose step it is.
LEMMA StepsKeepCustody ==
  ASSUME ICustody, Next
  PROVE  CustodyStep
<1>1. ASSUME NEW u \in Users, Payment(u) PROVE CustodyStep
  BY <1>1, WithdrawSteps, TransferSteps, DepositSteps DEF Payment
<1>2. ASSUME NEW u \in Users, Trade(u) PROVE CustodyStep
  BY <1>2, InputSteps, OutputSteps DEF Trade
<1>3. ASSUME NEW u \in Users, unwrapWETH9(u) PROVE CustodyStep
  <2>1. Unwrap(u) /\ UNCHANGED <<contextVars, calls>>  BY <1>3 DEF unwrapWETH9, Unwrap
  <2> QED  BY <2>1, UnwrapPays, ContextStays DEF ICustody, CustodyStep
<1>4. ASSUME NEW u \in Users, refundETH(u) PROVE CustodyStep
  <2>1. UNCHANGED <<wallet, held, depositVars, contextVars, calls>>  BY <1>4 DEF refundETH
  <2>2. UNCHANGED <<wallet, held, depositVars>> /\ UNCHANGED <<contextVars, calls>>  BY <2>1
  <2> QED  BY <2>2, NothingMoves, ContextStays DEF ICustody, CustodyStep
<1>5. CASE Dispatch
  BY <1>5, DispatchUnwrapSteps, DispatchReturnSteps, DepositEndSteps, DispatchSwapSteps DEF Dispatch
<1>6. CASE Hop
  BY <1>6, InputHopSteps, InputCallbackSteps, OutputNextSteps, OutputCallbackSteps,
     DeliverSteps, InputReturnSteps, OutputReturnSteps DEF Hop
<1>7. CASE Foreign
  <2>1. UNCHANGED vars  BY <1>7, ForeignRefused DEF Foreign, ICustody
  <2>2. UNCHANGED <<wallet, held, depositVars>> /\ UNCHANGED <<contextVars, calls>>
    BY <2>1 DEF vars, balanceVars
  <2> QED  BY <2>2, NothingMoves, ContextStays DEF ICustody, CustodyStep
<1> QED  BY <1>1, <1>2, <1>3, <1>4, <1>5, <1>6, <1>7 DEF Next

LEMMA CustodyInit == Init => ICustody
<1> SUFFICES ASSUME Init PROVE ICustody  OBVIOUS
<1>1. IInv  BY RouterInit
<1>2. BalanceTypes  BY RouterAssumption DEF Init, BalanceTypes
<1>3. \A t \in Tokens : totalDeposits[t] = 0 /\ held[t] = 0  BY DEF Init
<1>4. \A t \in Tokens : DepositSum(t) = 0
  <2> SUFFICES ASSUME NEW t \in Tokens PROVE DepositSum(t) = 0  OBVIOUS
  <2> DEFINE f == [u \in Users |-> erc223Deposits[u][t]]
  <2>1. f = [u \in Users |-> 0]  BY DEF Init
  <2>2. SumFunctionOnSet(f, Users) = 0  BY <2>1, TokenFacts, SumZero
  <2> QED  BY <2>2 DEF DepositSum, SumFunction
<1>5. Custody
  BY <1>2, <1>3, <1>4, DepositsAre DEF Custody, OnlyHookedDeposited
<1>6. Context
  <2>1. 1..Len(calls) = {} /\ calls = <<>>  BY DEF Init
  <2> QED  BY <2>1 DEF Init, Context, DepositsBelow, PermitContext, SwapContext
<1> QED  BY <1>1, <1>5, <1>6 DEF ICustody

LEMMA CustodyInductive == Spec => []ICustody
<1>1. ICustody /\ [Next]_vars => ICustody'
  <2> SUFFICES ASSUME ICustody, [Next]_vars PROVE ICustody'  OBVIOUS
  <2>1. IInv'  BY StepKeeps DEF ICustody
  <2>2. CASE Next  BY <2>1, <2>2, StepsKeepCustody DEF ICustody, CustodyStep
  <2>3. CASE UNCHANGED vars
    <3>1. UNCHANGED <<wallet, held, depositVars>> /\ UNCHANGED <<contextVars, calls>>
      BY <2>3 DEF vars, balanceVars
    <3> QED  BY <2>1, <3>1, NothingMoves, ContextStays DEF ICustody
  <2> QED  BY <2>2, <2>3
<1> QED  BY CustodyInit, <1>1, PTL DEF Spec

\* For any users, tokens, paths, amounts and depth of calls within calls: the total
\* of a token's deposits is their sum, and the router has it: no swap, unwrapping or
\* withdrawal is paid with somebody else's deposit (PeripheryPayments.sol:38).
THEOREM DepositsAreBacked == Spec => []DepositsBacked
<1>1. ICustody => DepositsBacked  BY DEF ICustody, Custody
<1> QED  BY <1>1, CustodyInductive, PTL

\* And whatever others call meanwhile, a deposit or an approval of a user is spent
\* only by his own step or in a call that he made (SwapRouter.sol:107-123).
THEOREM OnlyOwnersSpend == Spec => SpentByOwner
<1>1. ICustody /\ [Next]_vars =>
        [\A u \in Users :
           (\E t \in Tokens : wallet'[u][t] < wallet[u][t]
                              \/ erc223Deposits'[u][t] < erc223Deposits[u][t]) => Own(u)]_vars
  <2> SUFFICES ASSUME ICustody, Next, NEW u \in Users, NEW t \in Tokens,
                      \/ wallet'[u][t] < wallet[u][t]
                      \/ erc223Deposits'[u][t] < erc223Deposits[u][t]
               PROVE  Own(u)
    BY DEF vars
  <2>1. Custody' /\ (Spares(u) \/ Own(u))  BY StepsKeepCustody DEF CustodyStep
  <2>2. BalanceTypes /\ BalanceTypes'  BY <2>1 DEF ICustody, Custody
  <2>3. /\ wallet[u][t] \in Nat /\ wallet'[u][t] \in Nat
        /\ erc223Deposits[u][t] \in Nat /\ erc223Deposits'[u][t] \in Nat
    BY <2>2 DEF BalanceTypes
  <2>4. ~ Spares(u)  BY <2>3 DEF Spares
  <2> QED  BY <2>1, <2>4
<1> QED  BY <1>1, CustodyInductive, PTL DEF Spec, SpentByOwner
=============================================================================
