--------------------------- MODULE PaymentsProofs ---------------------------
(* What TLAPS proves of TokenConverter, and of Payments on top of it, for  *)
(* every value of the constants.                                           *)
EXTENDS Payments, SumLemmas, SequenceTheorems, TLAPS

Balances == [Tokens -> [Accounts -> Nat]]

(* What the three operations on balances do.                               *)

LEMMA MoveFacts ==
  ASSUME NEW bal \in Balances, NEW t \in Tokens, NEW from \in Accounts,
         NEW to \in Accounts, NEW v \in Nat, v <= bal[t][from]
  PROVE  /\ Move(bal, t, from, to, v) \in Balances
         /\ \A s \in Tokens, a \in Accounts :
              Move(bal, t, from, to, v)[s][a] =
                IF s = t /\ from # to
                THEN IF a = from THEN bal[s][a] - v
                     ELSE IF a = to THEN bal[s][a] + v ELSE bal[s][a]
                ELSE bal[s][a]
<1>1. bal[t] \in [Accounts -> Nat]
  BY DEF Balances
<1>2. [bal[t] EXCEPT ![from] = @ - v, ![to] = @ + v] \in [Accounts -> Nat]
  BY <1>1
<1>3. Move(bal, t, from, to, v) =
        [bal EXCEPT ![t] = [bal[t] EXCEPT ![from] = @ - v, ![to] = @ + v]]
  BY <1>1 DEF Move, Balances
<1> QED
  BY <1>1, <1>2, <1>3 DEF Balances

LEMMA MintFacts ==
  ASSUME NEW bal \in Balances, NEW t \in Tokens, NEW to \in Accounts, NEW v \in Nat
  PROVE  /\ Mint(bal, t, to, v) \in Balances
         /\ \A s \in Tokens, a \in Accounts :
              Mint(bal, t, to, v)[s][a] =
                IF s = t /\ a = to THEN bal[s][a] + v ELSE bal[s][a]
  BY DEF Mint, Balances

LEMMA BurnFacts ==
  ASSUME NEW bal \in Balances, NEW t \in Tokens, NEW from \in Accounts,
         NEW v \in Nat, v <= bal[t][from]
  PROVE  /\ Burn(bal, t, from, v) \in Balances
         /\ \A s \in Tokens, a \in Accounts :
              Burn(bal, t, from, v)[s][a] =
                IF s = t /\ a = from THEN bal[s][a] - v ELSE bal[s][a]
  BY DEF Burn, Balances

-----------------------------------------------------------------------------
(* Wrappers.  The address of a wrapper is determined by its token, and no  *)
(* address is that of two wrappers.                                        *)

LEMMA Addresses ==
  /\ \A t \in DOMAIN erc223Address :
       /\ t \in Tokens /\ erc223Address[t] \in Tokens /\ erc223Address[t] \in Hooked
       /\ erc223Address[t] # t
       /\ erc223Address[t] \in Range(erc223Address)
       /\ \A s \in DOMAIN erc223Address : erc223Address[s] = erc223Address[t] => s = t
       /\ \A s \in DOMAIN erc20Address : erc20Address[s] # erc223Address[t]
  /\ \A t \in DOMAIN erc20Address :
       /\ t \in Tokens /\ erc20Address[t] \in Tokens /\ erc20Address[t] # t
       /\ erc20Address[t] \notin Range(erc223Address)
       /\ \A s \in DOMAIN erc20Address : erc20Address[s] = erc20Address[t] => s = t
  /\ Range(erc223Address) \subseteq Tokens
<1>1. /\ DOMAIN erc223Address \subseteq Tokens /\ DOMAIN erc20Address \subseteq Tokens
      /\ \A t \in DOMAIN erc223Address : erc223Address[t] \in Hooked
      /\ \A t \in DOMAIN erc20Address : erc20Address[t] \in Tokens \ Hooked
      /\ Hooked \subseteq Tokens
      /\ \A t \in DOMAIN erc223Address : erc223Address[t] # t
      /\ \A t \in DOMAIN erc20Address : erc20Address[t] # t
  BY AddressAssumption
<1>2. /\ \A s, t \in DOMAIN erc223Address : erc223Address[s] = erc223Address[t] => s = t
      /\ \A s, t \in DOMAIN erc20Address : erc20Address[s] = erc20Address[t] => s = t
  BY AddressAssumption DEF IsInjective
<1>3. \A w : w \in Range(erc223Address) <=> \E t \in DOMAIN erc223Address : w = erc223Address[t]
  BY DEF Range
<1> QED
  BY <1>1, <1>2, <1>3

LEMMA AccountFacts ==
  /\ Users \subseteq Accounts /\ Others \subseteq Accounts
  /\ Converter \in Accounts /\ Extractor \in Accounts
  /\ Converter \notin Users /\ Converter \notin Others /\ Extractor # Converter
  /\ \A v \in Amounts : v \in Nat
  BY AccountAssumption DEF Accounts

-----------------------------------------------------------------------------
(* The invariant.                                                          *)

\* A wrapper that is not deployed has no supply.
UndeployedEmpty ==
    /\ \A t \in DOMAIN erc223Address \ erc223Wrappers :
         totalSupply[erc223Address[t]] = 0 /\ unburned[erc223Address[t]] = 0
    /\ \A t \in DOMAIN erc20Address \ erc20Wrappers : totalSupply[erc20Address[t]] = 0

\* Only ERC-223 wrappers are burned after a payout.
OnlyWrappersBurn ==
    \A t \in Tokens \ Range(erc223Address) : unburned[t] = 0

IInv == ConverterTypeOK /\ ReservesCover /\ UndeployedEmpty /\ OnlyWrappersBurn

\* The extraction is called for plain ERC-20 tokens: neither wrappers nor
\* tokens that have an ERC-20 wrapper.
PlainExtraction ==
    StuckTokens \cap (DOMAIN erc20Address \cup Range(erc223Address)) = {}

-----------------------------------------------------------------------------
(* Types.                                                                  *)

LEMMA TypeFacts ==
  ASSUME ConverterTypeOK
  PROVE  /\ balanceOf \in Balances
         /\ totalSupply \in [Tokens -> Nat] /\ erc20Supply \in [Tokens -> Nat]
         /\ unburned \in [Tokens -> Int]
         /\ erc223Wrappers \subseteq DOMAIN erc223Address
         /\ erc20Wrappers \subseteq DOMAIN erc20Address
  BY DEF ConverterTypeOK, Balances

THEOREM ConverterInitType == ConverterInit => ConverterTypeOK
<1> SUFFICES ASSUME ConverterInit PROVE ConverterTypeOK
  OBVIOUS
<1>1. \A t \in Tokens, a \in Accounts :
        (IF a \in Users THEN InitialBalances[t][a] ELSE 0) \in Nat
  BY AccountAssumption
<1>2. balanceOf \in [Tokens -> [Accounts -> Nat]]
  BY <1>1 DEF ConverterInit
<1> QED
  BY <1>2 DEF ConverterInit, ConverterTypeOK

\* What a step of the converter does to balances and types.  Accounts that
\* are neither users nor the converter's or extractor's keep theirs.
Untouched ==
    \A t \in Tokens, a \in Accounts \ (Users \cup {Converter, Extractor}) :
      balanceOf'[t][a] = balanceOf[t][a]

\* The steps that extract nothing keep the extractor's too.
OutsidersKeep ==
    \A s \in Tokens, a \in Accounts \ (Users \cup {Converter}) :
      balanceOf'[s][a] = balanceOf[s][a]

LEMMA transferStep ==
  ASSUME ConverterTypeOK, NEW t \in Tokens, NEW from \in Accounts,
         NEW to \in Accounts, NEW v \in Nat, transfer(t, from, to, v)
  PROVE  /\ ConverterTypeOK'
         /\ \A s \in Tokens, a \in Accounts :
              balanceOf'[s][a] =
                IF s = t /\ from # to
                THEN IF a = from THEN balanceOf[s][a] - v
                     ELSE IF a = to THEN balanceOf[s][a] + v ELSE balanceOf[s][a]
                ELSE balanceOf[s][a]
<1>1. v <= balanceOf[t][from] /\ balanceOf' = Move(balanceOf, t, from, to, v)
  BY DEF transfer
<1>2. balanceOf' \in Balances
  BY <1>1, TypeFacts, MoveFacts
<1>3. UNCHANGED <<totalSupply, erc223Wrappers, erc20Wrappers, erc20Supply, burning, unburned>>
  BY DEF transfer, wrapperVars, callVars
<1>4. ConverterTypeOK'
  BY <1>2, <1>3 DEF ConverterTypeOK, Balances
<1> QED
  BY <1>1, <1>4, TypeFacts, MoveFacts

LEMMA createType ==
  ASSUME ConverterTypeOK, NEW t \in Tokens,
         createERC223Wrapper(t) \/ createERC20Wrapper(t)
  PROVE  ConverterTypeOK' /\ UNCHANGED balanceOf
<1>1. CASE createERC223Wrapper(t)
  <2>1. erc223Wrappers' \subseteq DOMAIN erc223Address
    BY <1>1, TypeFacts DEF createERC223Wrapper, CanHaveErc223
  <2>2. UNCHANGED <<balanceOf, totalSupply, erc20Wrappers, erc20Supply, burning, unburned>>
    BY <1>1 DEF createERC223Wrapper, callVars
  <2> QED
    BY <2>1, <2>2 DEF ConverterTypeOK
<1>2. CASE createERC20Wrapper(t)
  <2>1. erc20Wrappers' \subseteq DOMAIN erc20Address
    BY <1>2, TypeFacts DEF createERC20Wrapper, CanHaveErc20
  <2>2. UNCHANGED <<balanceOf, totalSupply, erc223Wrappers, erc20Supply, burning, unburned>>
    BY <1>2 DEF createERC20Wrapper, callVars
  <2> QED
    BY <2>1, <2>2 DEF ConverterTypeOK
<1> QED
  BY <1>1, <1>2

LEMMA wrapStep ==
  ASSUME ConverterTypeOK, NEW who \in Users, NEW t \in Tokens, NEW v \in Nat,
         wrapERC20toERC223(who, t, v)
  PROVE  /\ ConverterTypeOK'
         /\ t \in DOMAIN erc223Address
         /\ \A s \in Tokens, a \in Accounts \ Users :
              balanceOf'[s][a] =
                IF s = t /\ a = Converter THEN balanceOf[s][a] + v ELSE balanceOf[s][a]
<1> DEFINE w == erc223Address[t]
           moved == Move(balanceOf, t, who, Converter, v)
<1>1. t \in DOMAIN erc223Address /\ v <= balanceOf[t][who]
  BY TypeFacts DEF wrapERC20toERC223, CanHaveErc223
<1>2. w \in Tokens /\ who \in Accounts /\ Converter \in Accounts /\ who # Converter
  BY <1>1, Addresses, AccountFacts
<1>3. /\ moved \in Balances
      /\ \A s \in Tokens, a \in Accounts :
           moved[s][a] = IF s = t
                         THEN IF a = who THEN balanceOf[s][a] - v
                              ELSE IF a = Converter THEN balanceOf[s][a] + v ELSE balanceOf[s][a]
                         ELSE balanceOf[s][a]
  BY <1>1, <1>2, TypeFacts, MoveFacts
<1> HIDE DEF moved, w
<1>4. balanceOf' = Mint(moved, w, who, v)
  BY DEF wrapERC20toERC223, moved, w
<1>5. /\ balanceOf' \in Balances
      /\ \A s \in Tokens, a \in Accounts :
           balanceOf'[s][a] = IF s = w /\ a = who THEN moved[s][a] + v ELSE moved[s][a]
  BY <1>2, <1>3, <1>4, MintFacts
<1>6. /\ erc20Supply' \in [Tokens -> Nat] /\ totalSupply' \in [Tokens -> Nat]
      /\ erc223Wrappers' \subseteq DOMAIN erc223Address
      /\ UNCHANGED <<erc20Wrappers, burning, unburned>>
  <2>1. /\ erc20Supply' = [erc20Supply EXCEPT ![t] = @ + v]
        /\ totalSupply' = [totalSupply EXCEPT ![w] = @ + v]
        /\ erc223Wrappers' = erc223Wrappers \cup {t}
        /\ UNCHANGED <<erc20Wrappers, burning, unburned>>
    BY DEF wrapERC20toERC223, callVars, w
  <2> QED
    BY <1>1, <1>2, <2>1, TypeFacts
<1>7. ConverterTypeOK'
  BY <1>5, <1>6 DEF ConverterTypeOK, Balances
<1> QED
  BY <1>1, <1>2, <1>3, <1>5, <1>7, AccountFacts

\* Redeem followed by what it pays out of the origin.
LEMMA PaidOutFacts ==
  ASSUME ConverterTypeOK, NEW w \in Tokens, NEW t \in Tokens, NEW from \in Users,
         NEW v \in Nat, Redeem(w, t, from, v)
  PROVE  /\ PaidOut(w, t, from, v) \in Balances
         /\ w \in Range(erc223Address) /\ t \in DOMAIN erc223Address
         /\ erc223Address[t] = w /\ w # t
         /\ \A s \in Tokens, a \in Accounts \ Users :
              PaidOut(w, t, from, v)[s][a] =
                IF a = Converter
                THEN IF s = w THEN balanceOf[s][a] + v
                     ELSE IF s = t THEN balanceOf[s][a] - v ELSE balanceOf[s][a]
                ELSE balanceOf[s][a]
         /\ erc20Supply' \in [Tokens -> Nat]
<1> DEFINE first == Move(balanceOf, w, from, Converter, v)
<1>1. /\ t \in erc223Wrappers /\ erc223Address[t] = w
      /\ v <= balanceOf[w][from] /\ v <= balanceOf[t][Converter] /\ v <= erc20Supply[t]
  BY DEF Redeem, CanRedeem, erc20Origins
<1>2. t \in DOMAIN erc223Address /\ w \in Range(erc223Address) /\ w # t
  BY <1>1, TypeFacts, Addresses
<1>3. from \in Accounts /\ Converter \in Accounts /\ from # Converter
  BY AccountFacts
<1>4. /\ first \in Balances
      /\ \A s \in Tokens, a \in Accounts :
           first[s][a] = IF s = w
                         THEN IF a = from THEN balanceOf[s][a] - v
                              ELSE IF a = Converter THEN balanceOf[s][a] + v ELSE balanceOf[s][a]
                         ELSE balanceOf[s][a]
  BY <1>1, <1>3, TypeFacts, MoveFacts
<1> HIDE DEF first
<1>5. PaidOut(w, t, from, v) = Move(first, t, Converter, from, v)
  BY DEF PaidOut, first
<1>6. v <= first[t][Converter]
  BY <1>1, <1>2, <1>3, <1>4
<1>7. /\ PaidOut(w, t, from, v) \in Balances
      /\ \A s \in Tokens, a \in Accounts :
           PaidOut(w, t, from, v)[s][a] =
             IF s = t
             THEN IF a = Converter THEN first[s][a] - v
                  ELSE IF a = from THEN first[s][a] + v ELSE first[s][a]
             ELSE first[s][a]
  BY <1>3, <1>4, <1>5, <1>6, MoveFacts
<1>8. erc20Supply' \in [Tokens -> Nat]
  BY <1>1, TypeFacts DEF Redeem, CanRedeem
<1> QED
  BY <1>1, <1>2, <1>3, <1>4, <1>7, <1>8, AccountFacts

LEMMA UnwrapPlainStep ==
  ASSUME ConverterTypeOK, NEW w \in Tokens, NEW from \in Users, NEW v \in Nat,
         NEW t \in Tokens, Redeem(w, t, from, v),
         balanceOf' = Burn(PaidOut(w, t, from, v), w, Converter, v),
         totalSupply' \in [Tokens -> Nat], UNCHANGED callVars
  PROVE  /\ ConverterTypeOK'
         /\ \A s \in Tokens, a \in Accounts \ Users :
              balanceOf'[s][a] = IF s = t /\ a = Converter THEN balanceOf[s][a] - v
                                                          ELSE balanceOf[s][a]
<1> DEFINE paid == PaidOut(w, t, from, v)
<1>1. /\ paid \in Balances /\ w # t
      /\ \A s \in Tokens, a \in Accounts \ Users :
           paid[s][a] = IF a = Converter
                        THEN IF s = w THEN balanceOf[s][a] + v
                             ELSE IF s = t THEN balanceOf[s][a] - v ELSE balanceOf[s][a]
                        ELSE balanceOf[s][a]
      /\ erc20Supply' \in [Tokens -> Nat]
  BY PaidOutFacts
<1> HIDE DEF paid
<1>2. v <= paid[w][Converter]
  BY <1>1, TypeFacts, AccountFacts DEF Balances
<1>3. /\ balanceOf' \in Balances
      /\ \A s \in Tokens, a \in Accounts :
           balanceOf'[s][a] = IF s = w /\ a = Converter THEN paid[s][a] - v ELSE paid[s][a]
  BY <1>1, <1>2, BurnFacts, AccountFacts DEF paid
<1>5. UNCHANGED <<erc223Wrappers, erc20Wrappers, burning, unburned>>
  BY DEF Redeem, CanRedeem, wrapperVars, callVars
<1>6. ConverterTypeOK'
  BY <1>1, <1>3, <1>5 DEF ConverterTypeOK, Balances
<1> QED
  BY <1>1, <1>3, <1>6, TypeFacts, AccountFacts DEF Balances

LEMMA UnwrapHookedStep ==
  ASSUME ConverterTypeOK, NEW w \in Tokens, NEW from \in Users, NEW v \in Nat,
         NEW t \in Tokens, Redeem(w, t, from, v),
         balanceOf' = PaidOut(w, t, from, v),
         burning' = Append(burning, [token |-> w, amount |-> v]),
         unburned' = [unburned EXCEPT ![w] = @ + v],
         UNCHANGED totalSupply
  PROVE  ConverterTypeOK'
<1>1. /\ balanceOf' \in Balances /\ erc20Supply' \in [Tokens -> Nat]
      /\ w \in Range(erc223Address)
  BY PaidOutFacts
<1>2. burning' \in Seq([token : Range(erc223Address), amount : Nat])
  BY <1>1 DEF ConverterTypeOK
<1>3. unburned' \in [Tokens -> Int]
  BY TypeFacts
<1>4. UNCHANGED <<erc223Wrappers, erc20Wrappers, totalSupply>>
  BY DEF Redeem, CanRedeem, wrapperVars
<1> QED
  BY <1>1, <1>2, <1>3, <1>4 DEF ConverterTypeOK, Balances

LEMMA burnStep ==
  ASSUME ConverterTypeOK, burn
  PROVE  /\ ConverterTypeOK'
         /\ \E w \in Range(erc223Address), v \in Nat :
              /\ v <= balanceOf[w][Converter]
              /\ totalSupply' = [totalSupply EXCEPT ![w] = @ - v]
              /\ unburned' = [unburned EXCEPT ![w] = @ - v]
              /\ \A s \in Tokens, a \in Accounts :
                   balanceOf'[s][a] = IF s = w /\ a = Converter THEN balanceOf[s][a] - v
                                                              ELSE balanceOf[s][a]
<1> DEFINE last == burning[Len(burning)]
           Frames == [token : Range(erc223Address), amount : Nat]
<1>1. burning \in Seq(Frames) /\ burning # <<>>
  BY DEF ConverterTypeOK, burn, CanBurn
<1> HIDE DEF Frames
<1>2. last \in Frames
  <2>1. Len(burning) \in 1 .. Len(burning)
    BY <1>1
  <2> QED
    BY <1>1, <2>1
<1>3. last.token \in Range(erc223Address) /\ last.token \in Tokens /\ last.amount \in Nat
  BY <1>2, Addresses DEF Frames
<1>4. /\ last.amount <= balanceOf[last.token][Converter]
      /\ last.amount <= totalSupply[last.token]
      /\ balanceOf' = Burn(balanceOf, last.token, Converter, last.amount)
      /\ totalSupply' = [totalSupply EXCEPT ![last.token] = @ - last.amount]
      /\ unburned' = [unburned EXCEPT ![last.token] = @ - last.amount]
      /\ burning' = SubSeq(burning, 1, Len(burning) - 1)
      /\ UNCHANGED <<erc223Wrappers, erc20Wrappers, erc20Supply>>
  BY DEF burn, CanBurn, wrapperVars
<1>5. burning' \in Seq(Frames)
  <2>1. \A i \in 1 .. Len(burning) - 1 : burning[i] \in Frames
    BY <1>1
  <2>2. 1 \in Int /\ Len(burning) - 1 \in Int
    BY <1>1
  <2> QED
    BY <1>4, <2>1, <2>2, SubSeqProperties
<1> HIDE DEF last
<1>6. /\ balanceOf' \in Balances
      /\ \A s \in Tokens, a \in Accounts :
           balanceOf'[s][a] = IF s = last.token /\ a = Converter
                              THEN balanceOf[s][a] - last.amount ELSE balanceOf[s][a]
  BY <1>3, <1>4, TypeFacts, AccountFacts, BurnFacts
<1>7. totalSupply' \in [Tokens -> Nat] /\ unburned' \in [Tokens -> Int]
  BY <1>3, <1>4, TypeFacts
<1>8. ConverterTypeOK'
  BY <1>4, <1>5, <1>6, <1>7 DEF ConverterTypeOK, Balances, Frames
<1> QED
  BY <1>3, <1>4, <1>6, <1>8

LEMMA Wrap223Step ==
  ASSUME ConverterTypeOK, NEW t \in Tokens, NEW from \in Users, NEW v \in Nat,
         Wrap223(t, from, v)
  PROVE  /\ ConverterTypeOK'
         /\ t \in DOMAIN erc20Address
         /\ \A s \in Tokens, a \in Accounts \ Users :
              balanceOf'[s][a] =
                IF s = t /\ a = Converter THEN balanceOf[s][a] + v ELSE balanceOf[s][a]
<1> DEFINE w == erc20Address[t]
           moved == Move(balanceOf, t, from, Converter, v)
<1>1. t \in DOMAIN erc20Address /\ v <= balanceOf[t][from]
  BY TypeFacts DEF Wrap223, CanHaveErc20
<1>2. w \in Tokens /\ from \in Accounts /\ Converter \in Accounts /\ from # Converter
  BY <1>1, Addresses, AccountFacts
<1>3. /\ moved \in Balances
      /\ \A s \in Tokens, a \in Accounts :
           moved[s][a] = IF s = t
                         THEN IF a = from THEN balanceOf[s][a] - v
                              ELSE IF a = Converter THEN balanceOf[s][a] + v ELSE balanceOf[s][a]
                         ELSE balanceOf[s][a]
  BY <1>1, <1>2, TypeFacts, MoveFacts
<1> HIDE DEF moved, w
<1>4. /\ balanceOf' = Mint(moved, w, from, v)
      /\ totalSupply' = [totalSupply EXCEPT ![w] = @ + v]
      /\ erc20Wrappers' = erc20Wrappers \cup {t}
      /\ UNCHANGED <<erc223Wrappers, erc20Supply, burning, unburned>>
  BY DEF Wrap223, callVars, moved, w
<1>5. /\ balanceOf' \in Balances
      /\ \A s \in Tokens, a \in Accounts :
           balanceOf'[s][a] = IF s = w /\ a = from THEN moved[s][a] + v ELSE moved[s][a]
  <2>1. balanceOf' = Mint(moved, w, from, v)
    BY <1>4
  <2> QED
    BY <1>2, <1>3, <2>1, MintFacts
<1>6. totalSupply' \in [Tokens -> Nat] /\ erc20Wrappers' \subseteq DOMAIN erc20Address
  BY <1>1, <1>2, <1>4, TypeFacts
<1>7. ConverterTypeOK'
  BY <1>4, <1>5, <1>6 DEF ConverterTypeOK, Balances
<1> QED
  BY <1>1, <1>2, <1>3, <1>5, <1>7, AccountFacts

LEMMA unwrapStep ==
  ASSUME ConverterTypeOK, NEW who \in Users, NEW w \in Tokens, NEW v \in Nat,
         NEW t \in erc20Wrappers, erc223Origins(w, t),
         v <= balanceOf[w][who], v <= balanceOf[t][Converter],
         balanceOf' = Move(Burn(balanceOf, w, who, v), t, Converter, who, v),
         totalSupply' \in [Tokens -> Nat],
         UNCHANGED <<wrapperVars, erc20Supply, callVars>>
  PROVE  /\ ConverterTypeOK'
         /\ \A s \in Tokens, a \in Accounts \ Users :
              balanceOf'[s][a] =
                IF s = t /\ a = Converter THEN balanceOf[s][a] - v ELSE balanceOf[s][a]
<1> DEFINE left == Burn(balanceOf, w, who, v)
<1>1. t \in Tokens /\ who \in Accounts /\ Converter \in Accounts /\ who # Converter
  BY TypeFacts, Addresses, AccountFacts
<1>2. /\ left \in Balances
      /\ \A s \in Tokens, a \in Accounts :
           left[s][a] = IF s = w /\ a = who THEN balanceOf[s][a] - v ELSE balanceOf[s][a]
  BY <1>1, TypeFacts, BurnFacts
<1> HIDE DEF left
<1>3. v <= left[t][Converter]
  BY <1>1, <1>2
<1>4. /\ balanceOf' \in Balances
      /\ \A s \in Tokens, a \in Accounts :
           balanceOf'[s][a] = IF s = t
                              THEN IF a = Converter THEN left[s][a] - v
                                   ELSE IF a = who THEN left[s][a] + v ELSE left[s][a]
                              ELSE left[s][a]
  BY <1>1, <1>2, <1>3, MoveFacts DEF left
<1>6. UNCHANGED <<erc223Wrappers, erc20Wrappers, erc20Supply, burning, unburned>>
  BY DEF wrapperVars, callVars
<1>7. ConverterTypeOK'
  BY <1>4, <1>6 DEF ConverterTypeOK, Balances
<1> QED
  BY <1>1, <1>2, <1>4, <1>7

LEMMA extractStep ==
  ASSUME ConverterTypeOK, NEW t \in Tokens, extractStuckERC20(t)
  PROVE  /\ ConverterTypeOK'
         /\ \A s \in Tokens :
              balanceOf'[s][Converter] = IF s = t THEN erc20Supply[s] ELSE balanceOf[s][Converter]
         /\ Untouched
         /\ \A s \in Tokens \ {t} : balanceOf'[s][Extractor] = balanceOf[s][Extractor]
<1> DEFINE v == balanceOf[t][Converter] - erc20Supply[t]
<1>1. v \in Nat /\ v <= balanceOf[t][Converter]
  BY TypeFacts, AccountFacts DEF extractStuckERC20, Balances
<1>2. balanceOf' = Move(balanceOf, t, Converter, Extractor, v)
  BY DEF extractStuckERC20
<1> HIDE DEF v
<1>3. /\ balanceOf' \in Balances
      /\ \A s \in Tokens, a \in Accounts :
           balanceOf'[s][a] = IF s = t
                              THEN IF a = Converter THEN balanceOf[s][a] - v
                                   ELSE IF a = Extractor THEN balanceOf[s][a] + v
                                   ELSE balanceOf[s][a]
                              ELSE balanceOf[s][a]
  BY <1>1, <1>2, TypeFacts, AccountFacts, MoveFacts
<1>4. UNCHANGED <<totalSupply, erc223Wrappers, erc20Wrappers, erc20Supply, burning, unburned>>
  BY DEF extractStuckERC20, wrapperVars, callVars
<1>5. ConverterTypeOK'
  BY <1>3, <1>4 DEF ConverterTypeOK, Balances
<1>6. \A s \in Tokens : balanceOf'[s][Converter] =
         IF s = t THEN erc20Supply[s] ELSE balanceOf[s][Converter]
  BY <1>3, AccountFacts, TypeFacts DEF v, Balances
<1>7. Untouched
  BY <1>3 DEF Untouched
<1>8. \A s \in Tokens \ {t} : balanceOf'[s][Extractor] = balanceOf[s][Extractor]
  BY <1>3, AccountFacts
<1> QED
  BY <1>5, <1>6, <1>7, <1>8

-----------------------------------------------------------------------------
(* Every step of the converter, by its cases.                              *)

\* The storage keeps its types, and no step touches the balance of an
\* account that is no user's, the converter's or the extractor's; the
\* extractor's changes by an extraction only.
LEMMA ConverterStep ==
  ASSUME ConverterTypeOK, ConverterNext
  PROVE  /\ ConverterTypeOK' /\ Untouched
         /\ OutsidersKeep \/ \E t \in StuckTokens : extractStuckERC20(t)
<1>1. ASSUME NEW t \in Tokens, createERC223Wrapper(t) \/ createERC20Wrapper(t)
      PROVE  ConverterTypeOK' /\ OutsidersKeep
  BY <1>1, createType DEF OutsidersKeep
<1>2. ASSUME NEW who \in Users, NEW t \in Tokens, NEW v \in Amounts,
             NEW to \in Users \cup {Converter}, transfer(t, who, to, v)
      PROVE  ConverterTypeOK' /\ OutsidersKeep
  <2>1. who \in Accounts /\ to \in Accounts /\ v \in Nat
    BY AccountFacts
  <2> QED
    BY <1>2, <2>1, transferStep DEF OutsidersKeep
<1>3. ASSUME NEW who \in Users, NEW t \in Tokens, NEW v \in Amounts, tokenReceived(t, who, v)
      PROVE  ConverterTypeOK' /\ OutsidersKeep
  <2>0. v \in Nat
    BY AccountFacts
  <2>1. CASE UnwrapPlain(t, who, v)
    <3>1. /\ \E o \in Tokens : /\ Redeem(t, o, who, v)
                               /\ balanceOf' = Burn(PaidOut(t, o, who, v), t, Converter, v)
          /\ v <= totalSupply[t] /\ totalSupply' = [totalSupply EXCEPT ![t] = @ - v]
          /\ UNCHANGED callVars
      BY <2>1 DEF UnwrapPlain
    <3>3. totalSupply' \in [Tokens -> Nat] /\ UNCHANGED callVars
      BY <2>0, <3>1, TypeFacts
    <3>4. PICK o \in Tokens : /\ Redeem(t, o, who, v)
                              /\ balanceOf' = Burn(PaidOut(t, o, who, v), t, Converter, v)
      BY <3>1
    <3>2. /\ ConverterTypeOK'
          /\ \A s \in Tokens, a \in Accounts \ Users :
               balanceOf'[s][a] = IF s = o /\ a = Converter THEN balanceOf[s][a] - v
                                                           ELSE balanceOf[s][a]
      BY <2>0, <3>3, <3>4, UnwrapPlainStep
    <3> QED
      BY <3>2 DEF OutsidersKeep
  <2>2. CASE UnwrapHooked(t, who, v)
    <3>1. PICK o \in Hooked : /\ Redeem(t, o, who, v)
                              /\ balanceOf' = PaidOut(t, o, who, v)
                              /\ burning' = Append(burning, [token |-> t, amount |-> v])
                              /\ unburned' = [unburned EXCEPT ![t] = @ + v]
                              /\ UNCHANGED totalSupply
      BY <2>2 DEF UnwrapHooked
    <3>2. o \in Tokens
      BY AddressAssumption
    <3>3. ConverterTypeOK'
      BY <2>0, <3>1, <3>2, UnwrapHookedStep
    <3>4. OutsidersKeep
      BY <2>0, <3>1, <3>2, PaidOutFacts DEF OutsidersKeep
    <3> QED
      BY <3>3, <3>4
  <2>3. CASE Wrap223(t, who, v)
    BY <2>0, <2>3, Wrap223Step DEF OutsidersKeep
  <2> QED
    BY <1>3, <2>1, <2>2, <2>3 DEF tokenReceived
<1>4. ASSUME NEW who \in Users, NEW t \in Tokens, NEW v \in Amounts, wrapERC20toERC223(who, t, v)
      PROVE  ConverterTypeOK' /\ OutsidersKeep
  BY <1>4, wrapStep, AccountFacts DEF OutsidersKeep
<1>5. ASSUME NEW who \in Users, NEW t \in Tokens, NEW v \in Amounts, unwrapERC20toERC223(who, t, v)
      PROVE  ConverterTypeOK' /\ OutsidersKeep
  <2>1. v \in Nat
    BY AccountFacts
  <2>2. /\ \E o \in erc20Wrappers :
             /\ erc223Origins(t, o)
             /\ v <= balanceOf[t][who] /\ v <= balanceOf[o][Converter]
             /\ balanceOf' = Move(Burn(balanceOf, t, who, v), o, Converter, who, v)
        /\ v <= totalSupply[t] /\ totalSupply' = [totalSupply EXCEPT ![t] = @ - v]
        /\ UNCHANGED <<wrapperVars, erc20Supply, callVars>>
    BY <1>5 DEF unwrapERC20toERC223, CanUnwrap
  <2>4. totalSupply' \in [Tokens -> Nat] /\ UNCHANGED <<wrapperVars, erc20Supply, callVars>>
    BY <2>1, <2>2, TypeFacts
  <2>5. PICK o \in erc20Wrappers :
             /\ erc223Origins(t, o)
             /\ v <= balanceOf[t][who] /\ v <= balanceOf[o][Converter]
             /\ balanceOf' = Move(Burn(balanceOf, t, who, v), o, Converter, who, v)
    BY <2>2
  <2>3. /\ ConverterTypeOK'
        /\ \A s \in Tokens, a \in Accounts \ Users :
             balanceOf'[s][a] =
               IF s = o /\ a = Converter THEN balanceOf[s][a] - v ELSE balanceOf[s][a]
    BY <2>1, <2>4, <2>5, unwrapStep
  <2> QED
    BY <2>3 DEF OutsidersKeep
<1>6. ASSUME burn PROVE ConverterTypeOK' /\ OutsidersKeep
  <2>1. PICK w \in Range(erc223Address), v \in Nat :
          \A s \in Tokens, a \in Accounts :
            balanceOf'[s][a] = IF s = w /\ a = Converter THEN balanceOf[s][a] - v
                                                       ELSE balanceOf[s][a]
    BY <1>6, burnStep
  <2>2. OutsidersKeep
    BY <2>1 DEF OutsidersKeep
  <2> QED
    BY <2>2, <1>6, Zenon, burnStep
<1>7. ASSUME NEW t \in StuckTokens, extractStuckERC20(t), t \in Tokens
      PROVE  ConverterTypeOK' /\ Untouched
  BY <1>7, extractStep
<1>8. OutsidersKeep => Untouched
  BY DEF OutsidersKeep, Untouched
<1> QED
  BY <1>1, <1>2, <1>3, <1>4, <1>5, <1>6, <1>7, <1>8, AccountAssumption DEF ConverterNext, convertERC20

-----------------------------------------------------------------------------
(* Reserves.                                                               *)

Reserves == ReservesCover /\ UndeployedEmpty /\ OnlyWrappersBurn

LEMMA transferReserves ==
  ASSUME ConverterTypeOK, Reserves, NEW t \in Tokens, NEW from \in Accounts \ {Converter},
         NEW to \in Accounts, NEW v \in Nat, transfer(t, from, to, v)
  PROVE  Reserves'
<1>1. \A s \in Tokens : balanceOf'[s][Converter] >= balanceOf[s][Converter]
  BY transferStep, TypeFacts, AccountFacts DEF Balances
<1>2. UNCHANGED <<totalSupply, erc223Wrappers, erc20Wrappers, erc20Supply, unburned>>
  BY DEF transfer, wrapperVars, callVars
<1>3. \A s \in Tokens : Supply20(s) \in Nat /\ unburned[s] \in Int
  BY TypeFacts, Addresses DEF Supply20
<1>4. \A s \in Tokens : Supply20(s)' = Supply20(s) /\ Supply223(s)' = Supply223(s)
  BY <1>2 DEF Supply20, Supply223
<1>5. transfer(t, from, to, v) => ConverterTypeOK'
  BY transferStep
<1>6. ReservesCover'
  <2> SUFFICES ASSUME NEW s \in Tokens
               PROVE  /\ erc20Supply'[s] = Supply223(s)'
                      /\ balanceOf'[s][Converter] >= erc20Supply'[s] + Supply20(s)' + unburned'[s]
    BY DEF ReservesCover
  <2>1. /\ erc20Supply[s] = Supply223(s)
        /\ balanceOf[s][Converter] >= erc20Supply[s] + Supply20(s) + unburned[s]
    BY DEF Reserves, ReservesCover
  <2>2. /\ balanceOf[s][Converter] \in Nat /\ balanceOf'[s][Converter] \in Nat
        /\ erc20Supply[s] \in Nat
    BY <1>5, TypeFacts, AccountFacts DEF ConverterTypeOK
  <2> QED
    BY <1>1, <1>2, <1>3, <1>4, <2>1, <2>2
<1> QED
  BY <1>2, <1>6 DEF Reserves, UndeployedEmpty, OnlyWrappersBurn

LEMMA createReserves ==
  ASSUME ConverterTypeOK, Reserves, NEW t \in Tokens,
         createERC223Wrapper(t) \/ createERC20Wrapper(t)
  PROVE  Reserves'
<1>0. UNCHANGED <<balanceOf, totalSupply, erc20Supply, unburned>>
  BY DEF createERC223Wrapper, createERC20Wrapper, callVars
<1>1. \A s \in Tokens : Supply223(s)' = Supply223(s) /\ Supply20(s)' = Supply20(s)
  <2>1. CASE createERC223Wrapper(t)
    <3>1. /\ t \in DOMAIN erc223Address \ erc223Wrappers
          /\ erc223Wrappers' = erc223Wrappers \cup {t} /\ UNCHANGED erc20Wrappers
      BY <2>1, TypeFacts DEF createERC223Wrapper, CanHaveErc223
    <3>2. totalSupply[erc223Address[t]] = 0 /\ unburned[erc223Address[t]] = 0
      BY <3>1 DEF Reserves, UndeployedEmpty
    <3> QED
      BY <1>0, <3>1, <3>2 DEF Supply223, Supply20
  <2>2. CASE createERC20Wrapper(t)
    <3>1. /\ t \in DOMAIN erc20Address \ erc20Wrappers
          /\ erc20Wrappers' = erc20Wrappers \cup {t} /\ UNCHANGED erc223Wrappers
      BY <2>2, TypeFacts DEF createERC20Wrapper, CanHaveErc20
    <3>2. totalSupply[erc20Address[t]] = 0
      BY <3>1 DEF Reserves, UndeployedEmpty
    <3> QED
      BY <1>0, <3>1, <3>2 DEF Supply223, Supply20
  <2> QED
    BY <2>1, <2>2
<1>2. erc223Wrappers \subseteq erc223Wrappers' /\ erc20Wrappers \subseteq erc20Wrappers'
  BY DEF createERC223Wrapper, createERC20Wrapper
<1>3. ReservesCover'
  BY <1>0, <1>1 DEF Reserves, ReservesCover
<1> QED
  BY <1>0, <1>2, <1>3 DEF Reserves, UndeployedEmpty, OnlyWrappersBurn

\* A deposit of v behind the ERC-223 wrapper of t, whoever holds what is minted.
LEMMA DepositReserves ==
  ASSUME ConverterTypeOK, Reserves, NEW t \in DOMAIN erc223Address, NEW v \in Nat,
         \A s \in Tokens : balanceOf'[s][Converter] =
           IF s = t THEN balanceOf[s][Converter] + v ELSE balanceOf[s][Converter],
         erc223Wrappers' = erc223Wrappers \cup {t},
         erc20Supply' = [erc20Supply EXCEPT ![t] = @ + v],
         totalSupply' = [totalSupply EXCEPT ![erc223Address[t]] = @ + v],
         UNCHANGED <<erc20Wrappers, unburned>>
  PROVE  Reserves'
<1> DEFINE w == erc223Address[t]
<1>1. t \in Tokens /\ w \in Tokens
  BY Addresses
<1>2. /\ \A s \in Tokens : erc20Supply'[s] = IF s = t THEN erc20Supply[s] + v ELSE erc20Supply[s]
      /\ \A s \in Tokens : totalSupply'[s] = IF s = w THEN totalSupply[s] + v ELSE totalSupply[s]
  BY <1>1, TypeFacts
<1>3. \A s \in DOMAIN erc20Address : totalSupply'[erc20Address[s]] = totalSupply[erc20Address[s]]
  BY <1>1, <1>2, Addresses
<1>4. \A s \in DOMAIN erc223Address :
        totalSupply'[erc223Address[s]] = IF s = t THEN totalSupply[w] + v
                                                  ELSE totalSupply[erc223Address[s]]
  BY <1>1, <1>2, Addresses
<1>5. \A s \in Tokens : Supply20(s)' = Supply20(s)
  BY <1>2, <1>3, TypeFacts DEF Supply20
<1>6. t \notin erc223Wrappers => totalSupply[w] = 0 /\ unburned[w] = 0
  BY <1>1 DEF Reserves, UndeployedEmpty
<1>7. totalSupply[w] \in Nat /\ unburned[w] \in Int
  BY <1>1, TypeFacts
<1>8. \A s \in Tokens : Supply223(s)' = IF s = t THEN Supply223(s) + v ELSE Supply223(s)
  <2> TAKE s \in Tokens
  <2>1. CASE s = t
    BY <1>1, <1>2, <1>4, <1>6, <1>7, <2>1 DEF Supply223
  <2>2. CASE s # t
    BY <1>2, <1>4, <2>2, TypeFacts DEF Supply223
  <2> QED
    BY <2>1, <2>2
<1>9. ReservesCover'
  <2> SUFFICES ASSUME NEW s \in Tokens
               PROVE  /\ erc20Supply'[s] = Supply223(s)'
                      /\ balanceOf'[s][Converter] >= erc20Supply'[s] + Supply20(s)' + unburned'[s]
    BY DEF ReservesCover
  <2>1. /\ erc20Supply[s] = Supply223(s)
        /\ balanceOf[s][Converter] >= erc20Supply[s] + Supply20(s) + unburned[s]
    BY DEF Reserves, ReservesCover
  <2>2. /\ balanceOf[s][Converter] \in Nat /\ erc20Supply[s] \in Nat
        /\ Supply20(s) \in Nat /\ unburned[s] \in Int
    BY TypeFacts, AccountFacts, Addresses DEF Supply20, Balances
  <2> QED
    BY <1>1, <1>2, <1>5, <1>8, <2>1, <2>2
<1>10. UndeployedEmpty'
  BY <1>2, <1>3, <1>4 DEF Reserves, UndeployedEmpty
<1> QED
  BY <1>2, <1>9, <1>10 DEF Reserves, OnlyWrappersBurn

LEMMA wrapReserves ==
  ASSUME ConverterTypeOK, Reserves, NEW who \in Users, NEW t \in Tokens, NEW v \in Nat,
         wrapERC20toERC223(who, t, v)
  PROVE  Reserves'
<1>1. /\ t \in DOMAIN erc223Address
      /\ \A s \in Tokens : balanceOf'[s][Converter] =
           IF s = t THEN balanceOf[s][Converter] + v ELSE balanceOf[s][Converter]
  BY wrapStep, AccountFacts
<1> QED
  BY <1>1, DepositReserves DEF wrapERC20toERC223, callVars

LEMMA UnwrapPlainReserves ==
  ASSUME ConverterTypeOK, Reserves, NEW w \in Tokens, NEW from \in Users, NEW v \in Nat,
         UnwrapPlain(w, from, v)
  PROVE  Reserves'
<1>1. PICK t \in Tokens : /\ Redeem(w, t, from, v)
                          /\ balanceOf' = Burn(PaidOut(w, t, from, v), w, Converter, v)
  BY DEF UnwrapPlain
<1>2. v <= totalSupply[w] /\ totalSupply' = [totalSupply EXCEPT ![w] = @ - v]
  BY DEF UnwrapPlain
<1>3. UNCHANGED callVars
  BY DEF UnwrapPlain
<1>4. totalSupply' \in [Tokens -> Nat]
  BY <1>2, TypeFacts
<1>5. /\ t \in erc223Wrappers /\ t \in DOMAIN erc223Address /\ erc223Address[t] = w
      /\ w \in Range(erc223Address)
  BY <1>1, PaidOutFacts DEF Redeem, CanRedeem, erc20Origins
<1>6. \A s \in Tokens : balanceOf'[s][Converter] =
        IF s = t THEN balanceOf[s][Converter] - v ELSE balanceOf[s][Converter]
  BY <1>1, <1>3, <1>4, UnwrapPlainStep, AccountFacts
<1>7. /\ \A s \in Tokens : erc20Supply'[s] = IF s = t THEN erc20Supply[s] - v ELSE erc20Supply[s]
      /\ UNCHANGED <<erc223Wrappers, erc20Wrappers, unburned>>
  BY <1>1, <1>3, TypeFacts DEF Redeem, CanRedeem, wrapperVars, callVars
<1>8. \A s \in Tokens : totalSupply'[s] = IF s = w THEN totalSupply[s] - v ELSE totalSupply[s]
  BY <1>2, TypeFacts
<1>9. \A s \in DOMAIN erc20Address : totalSupply'[erc20Address[s]] = totalSupply[erc20Address[s]]
  BY <1>5, <1>8, Addresses
<1>10. \A s \in DOMAIN erc223Address :
         totalSupply'[erc223Address[s]] = IF s = t THEN totalSupply[w] - v
                                                   ELSE totalSupply[erc223Address[s]]
  BY <1>5, <1>8, Addresses
<1>11. \A s \in Tokens : Supply20(s)' = Supply20(s)
  BY <1>7, <1>9, TypeFacts DEF Supply20
<1>12. \A s \in Tokens : Supply223(s)' = IF s = t THEN Supply223(s) - v ELSE Supply223(s)
  <2> TAKE s \in Tokens
  <2>1. CASE s = t
    <3>1. totalSupply[w] \in Nat /\ unburned[w] \in Int
      BY TypeFacts
    <3> QED
      BY <1>5, <1>7, <1>10, <2>1, <3>1 DEF Supply223
  <2>2. CASE s # t
    BY <1>7, <1>10, <2>2, TypeFacts DEF Supply223
  <2> QED
    BY <2>1, <2>2
<1>13. ReservesCover'
  <2> SUFFICES ASSUME NEW s \in Tokens
               PROVE  /\ erc20Supply'[s] = Supply223(s)'
                      /\ balanceOf'[s][Converter] >= erc20Supply'[s] + Supply20(s)' + unburned'[s]
    BY DEF ReservesCover
  <2>1. /\ erc20Supply[s] = Supply223(s)
        /\ balanceOf[s][Converter] >= erc20Supply[s] + Supply20(s) + unburned[s]
    BY DEF Reserves, ReservesCover
  <2>2. /\ balanceOf[s][Converter] \in Nat /\ erc20Supply[s] \in Nat
        /\ Supply20(s) \in Nat /\ unburned[s] \in Int
    BY TypeFacts, AccountFacts, Addresses DEF Supply20, Balances
  <2> QED
    BY <1>6, <1>7, <1>11, <1>12, <2>1, <2>2
<1>14. UndeployedEmpty'
  BY <1>5, <1>7, <1>9, <1>10 DEF Reserves, UndeployedEmpty
<1> QED
  BY <1>7, <1>13, <1>14 DEF Reserves, OnlyWrappersBurn

LEMMA UnwrapHookedReserves ==
  ASSUME ConverterTypeOK, Reserves, NEW w \in Tokens, NEW from \in Users, NEW v \in Nat,
         UnwrapHooked(w, from, v)
  PROVE  Reserves'
<1>1. PICK t \in Hooked : Redeem(w, t, from, v) /\ balanceOf' = PaidOut(w, t, from, v)
  BY DEF UnwrapHooked
<1>2. unburned' = [unburned EXCEPT ![w] = @ + v] /\ UNCHANGED totalSupply
  BY DEF UnwrapHooked
<1>3. t \in Tokens
  BY AddressAssumption
<1>4. /\ t \in erc223Wrappers /\ t \in DOMAIN erc223Address /\ erc223Address[t] = w
      /\ w \in Range(erc223Address) /\ w # t
      /\ \A s \in Tokens : balanceOf'[s][Converter] =
           IF s = w THEN balanceOf[s][Converter] + v
           ELSE IF s = t THEN balanceOf[s][Converter] - v ELSE balanceOf[s][Converter]
  <2>1. Redeem(w, t, from, v)
    BY <1>1
  <2>2. /\ w \in Range(erc223Address) /\ t \in DOMAIN erc223Address
        /\ erc223Address[t] = w /\ w # t
        /\ \A s \in Tokens, a \in Accounts \ Users :
             PaidOut(w, t, from, v)[s][a] =
               IF a = Converter
               THEN IF s = w THEN balanceOf[s][a] + v
                    ELSE IF s = t THEN balanceOf[s][a] - v ELSE balanceOf[s][a]
               ELSE balanceOf[s][a]
    BY <1>3, <2>1, PaidOutFacts
  <2>3. t \in erc223Wrappers
    BY <2>1 DEF Redeem, CanRedeem, erc20Origins
  <2>4. balanceOf' = PaidOut(w, t, from, v)
    BY <1>1
  <2> QED
    BY <2>2, <2>3, <2>4, AccountFacts
<1>5. /\ \A s \in Tokens : erc20Supply'[s] = IF s = t THEN erc20Supply[s] - v ELSE erc20Supply[s]
      /\ UNCHANGED <<erc223Wrappers, erc20Wrappers>>
  BY <1>1, <1>3, TypeFacts DEF Redeem, CanRedeem, wrapperVars
<1>6. \A s \in Tokens : unburned'[s] = IF s = w THEN unburned[s] + v ELSE unburned[s]
  BY <1>2, TypeFacts
<1>7. \A s \in DOMAIN erc223Address :
        unburned'[erc223Address[s]] = IF s = t THEN unburned[w] + v
                                               ELSE unburned[erc223Address[s]]
  BY <1>4, <1>6, Addresses
<1>8. \A s \in Tokens : Supply20(s)' = Supply20(s)
  BY <1>2, <1>5 DEF Supply20
<1>9. \A s \in Tokens : Supply223(s)' = IF s = t THEN Supply223(s) - v ELSE Supply223(s)
  <2> TAKE s \in Tokens
  <2>1. CASE s = t
    <3>1. totalSupply[w] \in Nat /\ unburned[w] \in Int
      BY TypeFacts
    <3> QED
      BY <1>2, <1>4, <1>5, <1>7, <2>1, <3>1 DEF Supply223
  <2>2. CASE s # t
    BY <1>2, <1>5, <1>7, <2>2, TypeFacts DEF Supply223
  <2> QED
    BY <2>1, <2>2
<1>10. ReservesCover'
  <2> SUFFICES ASSUME NEW s \in Tokens
               PROVE  /\ erc20Supply'[s] = Supply223(s)'
                      /\ balanceOf'[s][Converter] >= erc20Supply'[s] + Supply20(s)' + unburned'[s]
    BY DEF ReservesCover
  <2>1. /\ erc20Supply[s] = Supply223(s)
        /\ balanceOf[s][Converter] >= erc20Supply[s] + Supply20(s) + unburned[s]
    BY DEF Reserves, ReservesCover
  <2>2. /\ balanceOf[s][Converter] \in Nat /\ erc20Supply[s] \in Nat
        /\ Supply20(s) \in Nat /\ unburned[s] \in Int
    BY TypeFacts, AccountFacts, Addresses DEF Supply20, Balances
  <2> QED
    BY <1>4, <1>5, <1>6, <1>8, <1>9, <2>1, <2>2
<1>11. UndeployedEmpty'
  BY <1>2, <1>4, <1>5, <1>7 DEF Reserves, UndeployedEmpty
<1> QED
  BY <1>4, <1>6, <1>10, <1>11 DEF Reserves, OnlyWrappersBurn

LEMMA burnReserves ==
  ASSUME ConverterTypeOK, Reserves, burn
  PROVE  Reserves'
<1>1. PICK w \in Range(erc223Address), v \in Nat :
        /\ totalSupply' = [totalSupply EXCEPT ![w] = @ - v]
        /\ unburned' = [unburned EXCEPT ![w] = @ - v]
        /\ \A s \in Tokens, a \in Accounts :
             balanceOf'[s][a] = IF s = w /\ a = Converter THEN balanceOf[s][a] - v
                                                        ELSE balanceOf[s][a]
  BY burnStep
<1>2. \A s \in Tokens : balanceOf'[s][Converter] =
        IF s = w THEN balanceOf[s][Converter] - v ELSE balanceOf[s][Converter]
  BY <1>1, AccountFacts
<1>3. /\ \A s \in Tokens : totalSupply'[s] = IF s = w THEN totalSupply[s] - v ELSE totalSupply[s]
      /\ \A s \in Tokens : unburned'[s] = IF s = w THEN unburned[s] - v ELSE unburned[s]
  BY <1>1, TypeFacts
<1>4. UNCHANGED <<erc223Wrappers, erc20Wrappers, erc20Supply>>
  BY DEF burn, CanBurn, wrapperVars
<1>5. \A s \in DOMAIN erc20Address : totalSupply'[erc20Address[s]] = totalSupply[erc20Address[s]]
  BY <1>3, Addresses
<1>6. \A s \in Tokens : Supply20(s)' = Supply20(s)
  BY <1>4, <1>5, TypeFacts DEF Supply20
<1>7. \A s \in DOMAIN erc223Address :
        totalSupply'[erc223Address[s]] - unburned'[erc223Address[s]]
          = totalSupply[erc223Address[s]] - unburned[erc223Address[s]]
  BY <1>3, Addresses, TypeFacts
<1>8. \A s \in Tokens : Supply223(s)' = Supply223(s)
  BY <1>4, <1>7, TypeFacts DEF Supply223
<1>9. ReservesCover'
  <2> SUFFICES ASSUME NEW s \in Tokens
               PROVE  /\ erc20Supply'[s] = Supply223(s)'
                      /\ balanceOf'[s][Converter] >= erc20Supply'[s] + Supply20(s)' + unburned'[s]
    BY DEF ReservesCover
  <2>1. /\ erc20Supply[s] = Supply223(s)
        /\ balanceOf[s][Converter] >= erc20Supply[s] + Supply20(s) + unburned[s]
    BY DEF Reserves, ReservesCover
  <2>2. /\ balanceOf[s][Converter] \in Nat /\ erc20Supply[s] \in Nat
        /\ Supply20(s) \in Nat /\ unburned[s] \in Int
    BY TypeFacts, AccountFacts, Addresses DEF Supply20, Balances
  <2> QED
    BY <1>2, <1>3, <1>4, <1>6, <1>8, <2>1, <2>2
<1>10. \A s \in DOMAIN erc223Address \ erc223Wrappers : erc223Address[s] # w \/ v = 0
  <2> SUFFICES ASSUME NEW s \in DOMAIN erc223Address \ erc223Wrappers, erc223Address[s] = w
               PROVE  v = 0
    OBVIOUS
  <2>1. totalSupply[w] = 0 /\ w \in Tokens
    BY Addresses DEF Reserves, UndeployedEmpty
  <2>2. totalSupply'[w] = 0 - v
    BY <1>3, <2>1
  <2>3. totalSupply'[w] \in Nat
    BY burnStep, <2>1 DEF ConverterTypeOK
  <2> QED
    BY <2>2, <2>3
<1>11. UndeployedEmpty'
  <2>1. \A s \in DOMAIN erc223Address \ erc223Wrappers :
          totalSupply'[erc223Address[s]] = 0 /\ unburned'[erc223Address[s]] = 0
    BY <1>3, <1>10, Addresses, TypeFacts DEF Reserves, UndeployedEmpty
  <2> QED
    BY <1>4, <1>5, <2>1 DEF Reserves, UndeployedEmpty
<1> QED
  BY <1>3, <1>9, <1>11 DEF Reserves, OnlyWrappersBurn

LEMMA Wrap223Reserves ==
  ASSUME ConverterTypeOK, Reserves, NEW t \in Tokens, NEW from \in Users, NEW v \in Nat,
         Wrap223(t, from, v)
  PROVE  Reserves'
<1> DEFINE w == erc20Address[t]
<1>1. /\ t \in DOMAIN erc20Address /\ w \in Tokens
      /\ \A s \in Tokens : balanceOf'[s][Converter] =
           IF s = t THEN balanceOf[s][Converter] + v ELSE balanceOf[s][Converter]
  BY Wrap223Step, Addresses, AccountFacts
<1>2. /\ \A s \in Tokens : totalSupply'[s] = IF s = w THEN totalSupply[s] + v ELSE totalSupply[s]
      /\ erc20Wrappers' = erc20Wrappers \cup {t}
      /\ UNCHANGED <<erc223Wrappers, erc20Supply, unburned>>
  BY <1>1, TypeFacts DEF Wrap223, callVars
<1>3. \A s \in DOMAIN erc223Address : totalSupply'[erc223Address[s]] = totalSupply[erc223Address[s]]
  BY <1>1, <1>2, Addresses
<1>4. \A s \in DOMAIN erc20Address :
        totalSupply'[erc20Address[s]] = IF s = t THEN totalSupply[w] + v
                                                 ELSE totalSupply[erc20Address[s]]
  BY <1>1, <1>2, Addresses
<1>5. \A s \in Tokens : Supply223(s)' = Supply223(s)
  BY <1>2, <1>3, TypeFacts DEF Supply223
<1>6. t \notin erc20Wrappers => totalSupply[w] = 0
  BY <1>1 DEF Reserves, UndeployedEmpty
<1>7. \A s \in Tokens : Supply20(s)' = IF s = t THEN Supply20(s) + v ELSE Supply20(s)
  <2> TAKE s \in Tokens
  <2>1. CASE s = t
    <3>1. totalSupply[w] \in Nat
      BY <1>1, TypeFacts
    <3> QED
      BY <1>1, <1>2, <1>4, <1>6, <2>1, <3>1 DEF Supply20
  <2>2. CASE s # t
    BY <1>2, <1>4, <2>2, TypeFacts DEF Supply20
  <2> QED
    BY <2>1, <2>2
<1>8. ReservesCover'
  <2> SUFFICES ASSUME NEW s \in Tokens
               PROVE  /\ erc20Supply'[s] = Supply223(s)'
                      /\ balanceOf'[s][Converter] >= erc20Supply'[s] + Supply20(s)' + unburned'[s]
    BY DEF ReservesCover
  <2>1. /\ erc20Supply[s] = Supply223(s)
        /\ balanceOf[s][Converter] >= erc20Supply[s] + Supply20(s) + unburned[s]
    BY DEF Reserves, ReservesCover
  <2>2. /\ balanceOf[s][Converter] \in Nat /\ erc20Supply[s] \in Nat
        /\ Supply20(s) \in Nat /\ unburned[s] \in Int
    BY TypeFacts, AccountFacts, Addresses DEF Supply20, Balances
  <2> QED
    BY <1>1, <1>2, <1>5, <1>7, <2>1, <2>2
<1>9. UndeployedEmpty'
  BY <1>2, <1>3, <1>4 DEF Reserves, UndeployedEmpty
<1> QED
  BY <1>2, <1>8, <1>9 DEF Reserves, OnlyWrappersBurn

\* A payout of v from behind the ERC-20 wrapper of t, which is burned first.
LEMMA PayoutReserves ==
  ASSUME ConverterTypeOK, Reserves, NEW t \in erc20Wrappers, NEW v \in Nat,
         v <= totalSupply[erc20Address[t]],
         \A s \in Tokens : balanceOf'[s][Converter] =
           IF s = t THEN balanceOf[s][Converter] - v ELSE balanceOf[s][Converter],
         totalSupply' = [totalSupply EXCEPT ![erc20Address[t]] = @ - v],
         UNCHANGED <<erc223Wrappers, erc20Wrappers, erc20Supply, unburned>>
  PROVE  Reserves'
<1> DEFINE w == erc20Address[t]
<1>1. t \in DOMAIN erc20Address /\ t \in Tokens /\ w \in Tokens
  BY TypeFacts, Addresses
<1>2. \A s \in Tokens : totalSupply'[s] = IF s = w THEN totalSupply[s] - v ELSE totalSupply[s]
  BY <1>1, TypeFacts
<1>3. \A s \in DOMAIN erc223Address : totalSupply'[erc223Address[s]] = totalSupply[erc223Address[s]]
  BY <1>1, <1>2, Addresses
<1>4. \A s \in DOMAIN erc20Address :
         totalSupply'[erc20Address[s]] = IF s = t THEN totalSupply[w] - v
                                                  ELSE totalSupply[erc20Address[s]]
  BY <1>1, <1>2, Addresses
<1>5. \A s \in Tokens : Supply223(s)' = Supply223(s)
  BY <1>3, TypeFacts DEF Supply223
<1>6. \A s \in Tokens : Supply20(s)' = IF s = t THEN Supply20(s) - v ELSE Supply20(s)
  <2> TAKE s \in Tokens
  <2>1. CASE s = t
    BY <1>1, <1>4, <2>1, TypeFacts DEF Supply20
  <2>2. CASE s # t
    BY <1>4, <2>2, TypeFacts DEF Supply20
  <2> QED
    BY <2>1, <2>2
<1>7. ReservesCover'
  <2> SUFFICES ASSUME NEW s \in Tokens
               PROVE  /\ erc20Supply'[s] = Supply223(s)'
                      /\ balanceOf'[s][Converter] >= erc20Supply'[s] + Supply20(s)' + unburned'[s]
    BY DEF ReservesCover
  <2>1. /\ erc20Supply[s] = Supply223(s)
        /\ balanceOf[s][Converter] >= erc20Supply[s] + Supply20(s) + unburned[s]
    BY DEF Reserves, ReservesCover
  <2>2. /\ balanceOf[s][Converter] \in Nat /\ erc20Supply[s] \in Nat
        /\ Supply20(s) \in Nat /\ unburned[s] \in Int
    BY TypeFacts, AccountFacts, Addresses DEF Supply20, Balances
  <2> QED
    BY <1>5, <1>6, <2>1, <2>2
<1>8. UndeployedEmpty'
  BY <1>1, <1>3, <1>4 DEF Reserves, UndeployedEmpty
<1> QED
  BY <1>7, <1>8 DEF Reserves, OnlyWrappersBurn

LEMMA unwrapReserves ==
  ASSUME ConverterTypeOK, Reserves, NEW who \in Users, NEW w \in Tokens, NEW v \in Nat,
         unwrapERC20toERC223(who, w, v)
  PROVE  Reserves'
<1>1. PICK t \in erc20Wrappers :
        /\ erc223Origins(w, t)
        /\ v <= balanceOf[w][who] /\ v <= balanceOf[t][Converter]
        /\ balanceOf' = Move(Burn(balanceOf, w, who, v), t, Converter, who, v)
  BY DEF unwrapERC20toERC223, CanUnwrap
<1>2. v <= totalSupply[w] /\ totalSupply' = [totalSupply EXCEPT ![w] = @ - v]
  BY DEF unwrapERC20toERC223, CanUnwrap
<1>3. UNCHANGED <<wrapperVars, erc20Supply, callVars>>
  BY DEF unwrapERC20toERC223, CanUnwrap
<1>4. totalSupply' \in [Tokens -> Nat]
  BY <1>2, TypeFacts
<1>5. t \in DOMAIN erc20Address /\ t \in Tokens /\ erc20Address[t] = w
  BY <1>1, TypeFacts, Addresses DEF erc223Origins
<1>6. \A s \in Tokens : balanceOf'[s][Converter] =
        IF s = t THEN balanceOf[s][Converter] - v ELSE balanceOf[s][Converter]
  BY <1>1, <1>3, <1>4, unwrapStep, AccountFacts
<1>7. UNCHANGED <<erc223Wrappers, erc20Wrappers, erc20Supply, unburned>>
  BY <1>3 DEF wrapperVars, callVars
<1> QED
  BY <1>1, <1>2, <1>5, <1>6, <1>7, PayoutReserves

LEMMA extractReserves ==
  ASSUME ConverterTypeOK, Reserves, PlainExtraction, NEW t \in StuckTokens,
         extractStuckERC20(t)
  PROVE  Reserves'
<1>1. /\ t \in Tokens /\ t \notin DOMAIN erc20Address /\ t \notin Range(erc223Address)
  BY AccountAssumption DEF PlainExtraction
<1>2. \A s \in Tokens :
        balanceOf'[s][Converter] = IF s = t THEN erc20Supply[s] ELSE balanceOf[s][Converter]
  BY <1>1, extractStep
<1>3. UNCHANGED <<totalSupply, erc223Wrappers, erc20Wrappers, erc20Supply, unburned>>
  BY DEF extractStuckERC20, wrapperVars, callVars
<1>4. Supply20(t) = 0 /\ unburned[t] = 0
  BY <1>1, TypeFacts DEF Supply20, Reserves, OnlyWrappersBurn
<1>5. \A s \in Tokens : Supply20(s)' = Supply20(s) /\ Supply223(s)' = Supply223(s)
  BY <1>3 DEF Supply20, Supply223
<1>6. ReservesCover'
  <2> SUFFICES ASSUME NEW s \in Tokens
               PROVE  /\ erc20Supply'[s] = Supply223(s)'
                      /\ balanceOf'[s][Converter] >= erc20Supply'[s] + Supply20(s)' + unburned'[s]
    BY DEF ReservesCover
  <2>1. /\ erc20Supply[s] = Supply223(s)
        /\ balanceOf[s][Converter] >= erc20Supply[s] + Supply20(s) + unburned[s]
    BY DEF Reserves, ReservesCover
  <2>2. /\ balanceOf[s][Converter] \in Nat /\ erc20Supply[s] \in Nat
        /\ Supply20(s) \in Nat /\ unburned[s] \in Int
    BY TypeFacts, AccountFacts, Addresses DEF Supply20, Balances
  <2> QED
    BY <1>2, <1>3, <1>4, <1>5, <2>1, <2>2
<1> QED
  BY <1>3, <1>6 DEF Reserves, UndeployedEmpty, OnlyWrappersBurn

-----------------------------------------------------------------------------
(* The theorems.                                                           *)

LEMMA ReservesNext ==
  ASSUME ConverterTypeOK, Reserves, PlainExtraction, ConverterNext
  PROVE  Reserves'
<1>1. ASSUME NEW t \in Tokens, createERC223Wrapper(t) \/ createERC20Wrapper(t)
      PROVE  Reserves'
  BY <1>1, createReserves
<1>2. ASSUME NEW who \in Users, NEW t \in Tokens, NEW v \in Amounts,
             NEW to \in Users \cup {Converter}, transfer(t, who, to, v)
      PROVE  Reserves'
  <2>1. who \in Accounts \ {Converter} /\ to \in Accounts /\ v \in Nat
    BY AccountFacts
  <2> QED
    BY <1>2, <2>1, transferReserves
<1>3. ASSUME NEW who \in Users, NEW t \in Tokens, NEW v \in Amounts, tokenReceived(t, who, v)
      PROVE  Reserves'
  BY <1>3, UnwrapPlainReserves, UnwrapHookedReserves, Wrap223Reserves, AccountFacts
     DEF tokenReceived
<1>4. ASSUME NEW who \in Users, NEW t \in Tokens, NEW v \in Amounts, wrapERC20toERC223(who, t, v)
      PROVE  Reserves'
  BY <1>4, wrapReserves, AccountFacts
<1>5. ASSUME NEW who \in Users, NEW t \in Tokens, NEW v \in Amounts, unwrapERC20toERC223(who, t, v)
      PROVE  Reserves'
  BY <1>5, unwrapReserves, AccountFacts
<1>6. CASE burn
  BY <1>6, burnReserves
<1>7. ASSUME NEW t \in StuckTokens, extractStuckERC20(t)
      PROVE  Reserves'
  BY <1>7, extractReserves
<1> QED
  BY <1>1, <1>2, <1>3, <1>4, <1>5, <1>6, <1>7 DEF ConverterNext, convertERC20

LEMMA ConverterInitReserves == ConverterInit => Reserves
<1> SUFFICES ASSUME ConverterInit PROVE Reserves
  OBVIOUS
<1>1. /\ totalSupply = [t \in Tokens |-> 0] /\ erc20Supply = [t \in Tokens |-> 0]
      /\ unburned = [t \in Tokens |-> 0]
      /\ erc223Wrappers = {} /\ erc20Wrappers = {}
      /\ balanceOf = [t \in Tokens |-> [a \in Accounts |->
                        IF a \in Users THEN InitialBalances[t][a] ELSE 0]]
  BY DEF ConverterInit
<1>2. \A t \in Tokens : balanceOf[t][Converter] = 0
  BY <1>1, AccountFacts
<1>3. ReservesCover
  BY <1>1, <1>2 DEF ReservesCover, Supply223, Supply20
<1>4. UndeployedEmpty
  BY <1>1, Addresses DEF UndeployedEmpty
<1>5. OnlyWrappersBurn
  BY <1>1 DEF OnlyWrappersBurn
<1> QED
  BY <1>3, <1>4, <1>5 DEF Reserves

LEMMA ReservesStutter ==
  ASSUME ConverterTypeOK, Reserves, UNCHANGED converterVars
  PROVE  ConverterTypeOK' /\ Reserves'
<1>1. UNCHANGED <<balanceOf, totalSupply, erc223Wrappers, erc20Wrappers, erc20Supply,
                  burning, unburned>>
  BY DEF converterVars, wrapperVars, callVars
<1>2. ConverterTypeOK'
  BY <1>1 DEF ConverterTypeOK
<1>3. Reserves'
  BY <1>1 DEF Reserves, ReservesCover, UndeployedEmpty, OnlyWrappersBurn, Supply223, Supply20
<1> QED
  BY <1>2, <1>3

\* Balances, supplies and deposits never go below zero, however the calls of
\* the converter and of its payouts' receivers interleave.
THEOREM ConverterTypeCorrect == ConverterSpec => []ConverterTypeOK
<1>1. ConverterTypeOK /\ [ConverterNext]_converterVars => ConverterTypeOK'
  <2> SUFFICES ASSUME ConverterTypeOK, [ConverterNext]_converterVars PROVE ConverterTypeOK'
    OBVIOUS
  <2>1. CASE ConverterNext
    BY <2>1, ConverterStep
  <2>2. CASE UNCHANGED converterVars
    BY <2>2 DEF converterVars, wrapperVars, callVars, ConverterTypeOK
  <2> QED
    BY <2>1, <2>2
<1> QED
  BY <1>1, ConverterInitType, PTL DEF ConverterSpec

\* Every step keeps the invariant when only plain tokens are extracted.
LEMMA InvariantStep ==
  ASSUME PlainExtraction
  PROVE  IInv /\ [ConverterNext]_converterVars => IInv'
<1> SUFFICES ASSUME IInv, [ConverterNext]_converterVars PROVE IInv'
  OBVIOUS
<1>1. ConverterTypeOK /\ Reserves
  BY DEF IInv, Reserves
<1>2. CASE ConverterNext
  <2>1. ConverterTypeOK'
    BY <1>1, <1>2, ConverterStep
  <2>2. Reserves'
    BY <1>1, <1>2, ReservesNext
  <2> QED
    BY <2>1, <2>2 DEF IInv, Reserves
<1>3. CASE UNCHANGED converterVars
  BY <1>1, <1>3, ReservesStutter DEF IInv, Reserves
<1> QED
  BY <1>2, <1>3

\* What the converter holds covers both wrappers of every token, in every
\* order of deposits, redemptions and nested payouts, for any tokens and any
\* depth, as long as only plain ERC-20 tokens are extracted.
THEOREM ReservesAlwaysCover == ASSUME PlainExtraction PROVE ConverterSpec => []ReservesCover
<1>1. ConverterInit => IInv
  BY ConverterInitType, ConverterInitReserves DEF IInv, Reserves
<1>2. IInv /\ [ConverterNext]_converterVars => IInv'
  BY InvariantStep
<1>3. IInv => ReservesCover
  BY DEF IInv
<1> QED
  BY <1>1, <1>2, <1>3, PTL DEF ConverterSpec

\* "No stuck tokens to extract": what extractStuckERC20 pays out of a plain
\* ERC-20 token is what no wrapper stands for, and the extractor, if it uses the
\* converter for nothing else, gets tokens in no other way.
THEOREM PlainExtractionTakesStuck ==
  ASSUME PlainExtraction, Extractor \notin Users
  PROVE  ConverterSpec => OnlyStuckExtracted
<1> DEFINE Takes == \A t \in Tokens : balanceOf'[t][Extractor] > balanceOf[t][Extractor] =>
                      balanceOf'[t][Converter] >= Supply223(t) + Supply20(t)
<1>1. ConverterInit => IInv
  BY ConverterInitType, ConverterInitReserves DEF IInv, Reserves
<1>2. IInv /\ [ConverterNext]_converterVars => IInv'
  BY InvariantStep
<1>3. IInv /\ [ConverterNext]_converterVars => [Takes]_converterVars
  <2> SUFFICES ASSUME IInv, ConverterNext PROVE Takes
    OBVIOUS
  <2>1. ConverterTypeOK /\ Reserves
    BY DEF IInv, Reserves
  <2>2. \A s \in Tokens : balanceOf[s][Extractor] \in Nat
    BY <2>1, AccountFacts DEF ConverterTypeOK
  <2>3. CASE OutsidersKeep
    <3>1. \A s \in Tokens : balanceOf'[s][Extractor] = balanceOf[s][Extractor]
      BY <2>3, AccountFacts DEF OutsidersKeep
    <3> QED
      BY <2>2, <3>1
  <2>4. ASSUME NEW t \in StuckTokens, extractStuckERC20(t) PROVE Takes
    <3>1. /\ t \in Tokens /\ t \notin DOMAIN erc20Address
      BY AccountAssumption DEF PlainExtraction
    <3>2. /\ balanceOf'[t][Converter] = erc20Supply[t]
          /\ \A s \in Tokens \ {t} : balanceOf'[s][Extractor] = balanceOf[s][Extractor]
      BY <2>1, <2>4, <3>1, extractStep
    <3>3. Supply20(t) = 0 /\ erc20Supply[t] = Supply223(t) /\ erc20Supply[t] \in Nat
      BY <2>1, <3>1, TypeFacts DEF Supply20, Reserves, ReservesCover
    <3>4. balanceOf'[t][Converter] >= Supply223(t) + Supply20(t)
      BY <3>2, <3>3
    <3> QED
      BY <2>2, <3>2, <3>4
  <2> QED
    BY <2>1, <2>3, <2>4, ConverterStep
<1> QED
  BY <1>1, <1>2, <1>3, PTL DEF ConverterSpec, OnlyStuckExtracted

-----------------------------------------------------------------------------
(* Payments: what the receiver has credited.                               *)

LEMMA PaymentAccounts ==
  /\ Users \subseteq Accounts /\ Converter \in Accounts
  /\ Router \in Accounts /\ Receiver \in Accounts
  /\ Router \notin Users /\ Receiver \notin Users
  /\ Router # Receiver /\ Router # Converter /\ Receiver # Converter
  /\ Receiver # Extractor /\ Converter \notin Users
  /\ Deployer \in Users /\ PayoutChoices \subseteq Users /\ OwnerCandidates \subseteq Users
  /\ AcceptChoices \subseteq Tokens
  BY PaymentsAssumption, AccountFacts

ReceiverTypeOK ==
    /\ owner \in Users /\ pendingOwner \in Users \cup {NoOne} /\ payout \in Users
    /\ credited \in [Tokens -> Nat]
    /\ acceptedToken \subseteq Tokens /\ whitelistEnabled \in BOOLEAN

IPay == TypeOK /\ CreditBacked

LEMMA TypeParts == TypeOK <=> ConverterTypeOK /\ ReceiverTypeOK
  BY DEF TypeOK, ReceiverTypeOK

LEMMA PayInit == Init => IPay
<1> SUFFICES ASSUME Init PROVE IPay
  OBVIOUS
<1>1. ConverterInit
  BY DEF Init
<1>2. ConverterTypeOK
  BY <1>1, ConverterInitType
<1>3. ReceiverTypeOK
  BY PaymentAccounts DEF Init, ReceiverTypeOK
<1>4. \A t \in Tokens : balanceOf[t][Receiver] = 0 /\ credited[t] = 0
  BY <1>1, PaymentAccounts DEF Init, ConverterInit
<1>5. CreditBacked
  BY <1>4 DEF CreditBacked
<1> QED
  BY <1>2, <1>3, <1>5, TypeParts DEF IPay

-----------------------------------------------------------------------------
(* The converter's own steps leave the receiver's balances alone.          *)

LEMMA ConverterKeepsCredit ==
  ASSUME IPay, ConverterNext, UNCHANGED receiverVars
  PROVE  IPay'
<1>1. ConverterTypeOK' /\ Untouched
  BY ConverterStep, TypeParts DEF IPay
<1>2. UNCHANGED <<owner, pendingOwner, payout, credited, acceptedToken, whitelistEnabled>>
  BY DEF receiverVars
<1>3. ReceiverTypeOK'
  BY <1>2, TypeParts DEF IPay, ReceiverTypeOK
<1>4. \A t \in Tokens : balanceOf'[t][Receiver] = balanceOf[t][Receiver]
  BY <1>1, PaymentAccounts DEF Untouched
<1>5. CreditBacked'
  BY <1>2, <1>4 DEF IPay, CreditBacked
<1> QED
  BY <1>1, <1>3, <1>5 DEF IPay, TypeOK, ReceiverTypeOK

-----------------------------------------------------------------------------
(* Payments in.                                                            *)

\* A credited payment is covered by what the receiver holds after it.
LEMMA CreditStep ==
  ASSUME IPay, ConverterTypeOK', NEW t \in Tokens, NEW v \in Nat,
         Credit(t, v, balanceOf'[t][Receiver]),
         UNCHANGED <<owner, pendingOwner, payout, acceptedToken, whitelistEnabled>>,
         \A s \in Tokens \ {t} : balanceOf'[s][Receiver] >= balanceOf[s][Receiver]
  PROVE  IPay'
<1>1. credited \in [Tokens -> Nat]
  BY DEF IPay, TypeOK
<1>2. credited' = [credited EXCEPT ![t] = @ + v]
  BY DEF Credit
<1>3. /\ credited' \in [Tokens -> Nat]
      /\ \A s \in Tokens : credited'[s] = IF s = t THEN credited[t] + v ELSE credited[s]
  BY <1>1, <1>2
<1>4. ReceiverTypeOK'
  BY <1>3, TypeParts DEF IPay, ReceiverTypeOK
<1>5. balanceOf'[t][Receiver] >= credited[t] + v
  BY DEF Credit
<1>6. \A s \in Tokens : balanceOf[s][Receiver] \in Nat /\ balanceOf'[s][Receiver] \in Nat
  BY PaymentAccounts DEF IPay, TypeOK, ConverterTypeOK
<1>7. CreditBacked'
  <2> SUFFICES ASSUME NEW s \in Tokens PROVE credited'[s] <= balanceOf'[s][Receiver]
    BY DEF CreditBacked
  <2>1. CASE s = t
    BY <1>3, <1>5, <1>6, <1>1, <2>1
  <2>2. CASE s # t
    <3>1. credited[s] <= balanceOf[s][Receiver]
      BY DEF IPay, CreditBacked
    <3>2. balanceOf'[s][Receiver] >= balanceOf[s][Receiver]
      BY <2>2
    <3> QED
      BY <1>1, <1>3, <1>6, <2>2, <3>1, <3>2
  <2> QED
    BY <2>1, <2>2
<1> QED
  BY <1>4, <1>7 DEF IPay, TypeOK, ReceiverTypeOK

\* So is the credit when nothing is credited and nothing leaves.
LEMMA HeldStep ==
  ASSUME IPay, ConverterTypeOK', UNCHANGED receiverVars,
         \A s \in Tokens : balanceOf'[s][Receiver] >= credited[s]
  PROVE  IPay'
<1>1. UNCHANGED <<owner, pendingOwner, payout, credited, acceptedToken, whitelistEnabled>>
  BY DEF receiverVars
<1>2. ReceiverTypeOK'
  BY <1>1, TypeParts DEF IPay, ReceiverTypeOK
<1>3. credited \in [Tokens -> Nat]
  BY DEF IPay, TypeOK
<1>4. \A s \in Tokens : balanceOf'[s][Receiver] \in Nat
  BY PaymentAccounts DEF ConverterTypeOK
<1>5. CreditBacked'
  BY <1>1, <1>3, <1>4 DEF CreditBacked
<1> QED
  BY <1>2, <1>5 DEF IPay, TypeOK, ReceiverTypeOK

\* A transfer to or from the receiver.
LEMMA ReceiverTransfer ==
  ASSUME IPay, NEW t \in Tokens, NEW from \in Accounts, NEW to \in Accounts, NEW v \in Nat,
         transfer(t, from, to, v)
  PROVE  /\ ConverterTypeOK' /\ v <= balanceOf[t][from]
         /\ \A s \in Tokens :
              /\ balanceOf[s][Receiver] \in Nat
              /\ credited[s] \in Nat /\ credited[s] <= balanceOf[s][Receiver]
              /\ balanceOf'[s][Receiver] =
                   IF s = t /\ from # to
                   THEN IF Receiver = from THEN balanceOf[s][Receiver] - v
                        ELSE IF Receiver = to THEN balanceOf[s][Receiver] + v
                        ELSE balanceOf[s][Receiver]
                   ELSE balanceOf[s][Receiver]
<1>1. ConverterTypeOK
  BY DEF IPay, TypeOK
<1>2. /\ ConverterTypeOK'
      /\ \A s \in Tokens, a \in Accounts :
           balanceOf'[s][a] =
             IF s = t /\ from # to
             THEN IF a = from THEN balanceOf[s][a] - v
                  ELSE IF a = to THEN balanceOf[s][a] + v ELSE balanceOf[s][a]
             ELSE balanceOf[s][a]
  BY <1>1, transferStep
<1>3. v <= balanceOf[t][from]
  BY DEF transfer
<1>4. \A s \in Tokens : balanceOf[s][Receiver] \in Nat
  BY <1>1, PaymentAccounts DEF ConverterTypeOK
<1>5. \A s \in Tokens : credited[s] \in Nat /\ credited[s] <= balanceOf[s][Receiver]
  BY DEF IPay, TypeOK, CreditBacked
<1> QED
  BY <1>2, <1>3, <1>4, <1>5, PaymentAccounts

LEMMA payStep ==
  ASSUME IPay, NEW who \in Users, NEW t \in Tokens, NEW v \in Nat, pay(who, t, v)
  PROVE  IPay'
<1>1. who \in Accounts /\ Receiver \in Accounts /\ who # Receiver
  BY PaymentAccounts
<1>2. transfer(t, who, Receiver, v)
  BY DEF pay
<1>3. ConverterTypeOK' /\ \A s \in Tokens \ {t} : balanceOf'[s][Receiver] >= balanceOf[s][Receiver]
  BY <1>1, <1>2, ReceiverTransfer
<1>4. /\ Credit(t, v, balanceOf'[t][Receiver])
      /\ UNCHANGED <<owner, pendingOwner, payout, acceptedToken, whitelistEnabled>>
  BY DEF pay
<1> QED
  BY <1>3, <1>4, CreditStep

LEMMA payUnannouncedStep ==
  ASSUME IPay, NEW who \in Users, NEW t \in Tokens, NEW v \in Nat, payUnannounced(who, t, v)
  PROVE  IPay'
<1>1. who \in Accounts /\ Receiver \in Accounts /\ who # Receiver
  BY PaymentAccounts
<1>2. transfer(t, who, Receiver, v) /\ UNCHANGED receiverVars
  BY DEF payUnannounced
<1>3. ConverterTypeOK' /\ \A s \in Tokens : balanceOf'[s][Receiver] >= credited[s]
  BY <1>1, <1>2, ReceiverTransfer
<1> QED
  BY <1>2, <1>3, HeldStep

-----------------------------------------------------------------------------
(* The router.                                                             *)

\* What wrapAndSend leaves at its recipient, whichever way it goes.
LEMMA DeliveredStep ==
  ASSUME IPay, ConverterTypeOK', NEW t \in Tokens, NEW to \in Users \cup {Receiver},
         NEW v \in Nat, Delivered(t, to, v),
         \A s \in Tokens : balanceOf'[s][Receiver] >= balanceOf[s][Receiver]
  PROVE  IPay'
<1>1. CASE to = Receiver
  BY <1>1, CreditStep DEF Delivered
<1>2. CASE to # Receiver
  <2>1. UNCHANGED receiverVars
    BY <1>2 DEF Delivered
  <2>2. \A s \in Tokens : /\ credited[s] \in Nat /\ credited[s] <= balanceOf[s][Receiver]
                          /\ balanceOf[s][Receiver] \in Nat /\ balanceOf'[s][Receiver] \in Nat
    BY PaymentAccounts DEF IPay, TypeOK, ConverterTypeOK, CreditBacked
  <2>3. \A s \in Tokens : balanceOf'[s][Receiver] >= credited[s]
    BY <2>2
  <2> QED
    BY <2>1, <2>3, HeldStep
<1> QED
  BY <1>1, <1>2

LEMMA SendOriginStep ==
  ASSUME IPay, NEW who \in Users, NEW w \in Tokens, NEW to \in Users \cup {Receiver},
         NEW v \in Nat, v <= balanceOf[w][who], SendOrigin(who, w, to, v)
  PROVE  IPay' /\ (Reserves => Reserves')
<1>1. PICK t \in erc20Wrappers :
        /\ erc223Origins(w, t) /\ v <= balanceOf[t][Converter]
        /\ balanceOf' = Move(Move(Burn(Move(balanceOf, w, who, Router, v), w, Router, v),
                                  t, Converter, Router, v), t, Router, to, v)
        /\ Delivered(t, to, v)
  BY DEF SendOrigin
<1>2. v <= totalSupply[w] /\ totalSupply' = [totalSupply EXCEPT ![w] = @ - v]
  BY DEF SendOrigin
<1>3. UNCHANGED <<erc223Wrappers, erc20Wrappers, erc20Supply, burning, unburned>>
  BY DEF SendOrigin, wrapperVars, callVars
<1>4. ConverterTypeOK
  BY DEF IPay, TypeOK
<1>5. t \in Tokens /\ w # t
  BY <1>1, <1>4, TypeFacts, Addresses DEF erc223Origins
<1>6. who \in Accounts /\ to \in Accounts /\ who # Router
  BY PaymentAccounts
<1> DEFINE one == Move(balanceOf, w, who, Router, v)
           two == Burn(one, w, Router, v)
           three == Move(two, t, Converter, Router, v)
<1>7. /\ one \in Balances
      /\ \A s \in Tokens, a \in Accounts :
           one[s][a] = IF s = w
                       THEN IF a = who THEN balanceOf[s][a] - v
                            ELSE IF a = Router THEN balanceOf[s][a] + v ELSE balanceOf[s][a]
                       ELSE balanceOf[s][a]
  BY <1>4, <1>6, PaymentAccounts, TypeFacts, MoveFacts
<1>8. balanceOf' = Move(three, t, Router, to, v)
  BY <1>1
<1> HIDE DEF one
<1>9. /\ two \in Balances
      /\ \A s \in Tokens, a \in Accounts :
           two[s][a] = IF s = w /\ a = Router THEN one[s][a] - v ELSE one[s][a]
  <2>1. v <= one[w][Router]
    BY <1>4, <1>6, <1>7, PaymentAccounts, TypeFacts DEF Balances
  <2> QED
    BY <1>7, <2>1, PaymentAccounts, BurnFacts
<1> HIDE DEF two
<1>10. /\ three \in Balances
       /\ \A s \in Tokens, a \in Accounts :
            three[s][a] = IF s = t
                          THEN IF a = Converter THEN two[s][a] - v
                               ELSE IF a = Router THEN two[s][a] + v ELSE two[s][a]
                          ELSE two[s][a]
  <2>1. v <= two[t][Converter]
    BY <1>1, <1>5, <1>7, <1>9, PaymentAccounts
  <2> QED
    BY <1>5, <1>9, <2>1, PaymentAccounts, MoveFacts
<1> HIDE DEF three
<1>11. /\ balanceOf' \in Balances
       /\ \A s \in Tokens, a \in Accounts :
            balanceOf'[s][a] = IF s = t /\ Router # to
                               THEN IF a = Router THEN three[s][a] - v
                                    ELSE IF a = to THEN three[s][a] + v ELSE three[s][a]
                               ELSE three[s][a]
  <2>1. v <= three[t][Router]
    BY <1>5, <1>9, <1>10, PaymentAccounts DEF Balances
  <2> QED
    BY <1>5, <1>6, <1>8, <1>10, <2>1, PaymentAccounts, MoveFacts
<1>12. totalSupply' \in [Tokens -> Nat]
  BY <1>2, <1>4, TypeFacts
<1>13. ConverterTypeOK'
  BY <1>3, <1>4, <1>11, <1>12 DEF ConverterTypeOK, Balances
<1>14. \A s \in Tokens : three[s][Receiver] = balanceOf[s][Receiver]
  BY <1>7, <1>9, <1>10, PaymentAccounts
<1>15. \A s \in Tokens : balanceOf'[s][Receiver] >= balanceOf[s][Receiver]
  BY <1>4, <1>11, <1>14, PaymentAccounts, TypeFacts DEF Balances
<1>16. IPay'
  BY <1>1, <1>5, <1>13, <1>15, DeliveredStep
<1>17. \A s \in Tokens : balanceOf'[s][Converter] =
         IF s = t THEN balanceOf[s][Converter] - v ELSE balanceOf[s][Converter]
  BY <1>5, <1>6, <1>7, <1>9, <1>10, <1>11, PaymentAccounts
<1>18. erc20Address[t] = w
  BY <1>1 DEF erc223Origins
<1>19. Reserves => Reserves'
  BY <1>1, <1>2, <1>3, <1>4, <1>17, <1>18, PayoutReserves
<1> QED
  BY <1>16, <1>19

LEMMA SendWrappedStep ==
  ASSUME IPay, NEW who \in Users, NEW t \in Tokens, NEW to \in Users \cup {Receiver},
         NEW v \in Nat, v <= balanceOf[t][who], SendWrapped(who, t, to, v)
  PROVE  IPay' /\ (Reserves => Reserves')
<1> DEFINE w == erc223Address[t]
           one == Move(balanceOf, t, who, Router, v)
           two == Move(one, t, Router, Converter, v)
           three == Mint(two, w, Router, v)
<1>1. /\ CanHaveErc223(t)
      /\ balanceOf' = Move(three, w, Router, to, v)
      /\ Delivered(w, to, v)
      /\ erc223Wrappers' = erc223Wrappers \cup {t}
  BY DEF SendWrapped
<1>2. /\ erc20Supply' = [erc20Supply EXCEPT ![t] = @ + v]
      /\ totalSupply' = [totalSupply EXCEPT ![w] = @ + v]
  BY DEF SendWrapped
<1>3. UNCHANGED <<erc20Wrappers, burning, unburned>>
  BY DEF SendWrapped, callVars
<1>4. ConverterTypeOK
  BY DEF IPay, TypeOK
<1>5. t \in DOMAIN erc223Address /\ w \in Tokens /\ w # t
  BY <1>1, <1>4, TypeFacts, Addresses DEF CanHaveErc223
<1>6. who \in Accounts /\ to \in Accounts /\ who # Router
  BY PaymentAccounts
<1>7. /\ one \in Balances
      /\ \A s \in Tokens, a \in Accounts :
           one[s][a] = IF s = t
                       THEN IF a = who THEN balanceOf[s][a] - v
                            ELSE IF a = Router THEN balanceOf[s][a] + v ELSE balanceOf[s][a]
                       ELSE balanceOf[s][a]
  BY <1>4, <1>6, PaymentAccounts, TypeFacts, MoveFacts
<1> HIDE DEF one
<1>8. /\ two \in Balances
      /\ \A s \in Tokens, a \in Accounts :
           two[s][a] = IF s = t
                       THEN IF a = Router THEN one[s][a] - v
                            ELSE IF a = Converter THEN one[s][a] + v ELSE one[s][a]
                       ELSE one[s][a]
  <2>1. v <= one[t][Router]
    BY <1>4, <1>6, <1>7, PaymentAccounts, TypeFacts DEF Balances
  <2> QED
    BY <1>7, <2>1, PaymentAccounts, MoveFacts
<1> HIDE DEF two, w
<1>9. /\ three \in Balances
      /\ \A s \in Tokens, a \in Accounts :
           three[s][a] = IF s = w /\ a = Router THEN two[s][a] + v ELSE two[s][a]
  BY <1>5, <1>8, PaymentAccounts, MintFacts
<1> HIDE DEF three
<1>10. /\ balanceOf' \in Balances
       /\ \A s \in Tokens, a \in Accounts :
            balanceOf'[s][a] = IF s = w /\ Router # to
                               THEN IF a = Router THEN three[s][a] - v
                                    ELSE IF a = to THEN three[s][a] + v ELSE three[s][a]
                               ELSE three[s][a]
  <2>1. v <= three[w][Router]
    BY <1>5, <1>8, <1>9, PaymentAccounts DEF Balances
  <2> QED
    BY <1>1, <1>5, <1>6, <1>9, <2>1, PaymentAccounts, MoveFacts
<1>11. totalSupply' \in [Tokens -> Nat] /\ erc20Supply' \in [Tokens -> Nat]
  BY <1>2, <1>4, <1>5, TypeFacts
<1>12. erc223Wrappers' \subseteq DOMAIN erc223Address
  BY <1>1, <1>4, <1>5, TypeFacts
<1>13. ConverterTypeOK'
  BY <1>3, <1>4, <1>10, <1>11, <1>12 DEF ConverterTypeOK, Balances
<1>14. \A s \in Tokens : three[s][Receiver] = balanceOf[s][Receiver]
  BY <1>6, <1>7, <1>8, <1>9, PaymentAccounts
<1>15. \A s \in Tokens : balanceOf'[s][Receiver] >= balanceOf[s][Receiver]
  BY <1>4, <1>10, <1>14, PaymentAccounts, TypeFacts DEF Balances
<1>16. IPay'
  BY <1>1, <1>5, <1>13, <1>15, DeliveredStep
<1>17. \A s \in Tokens : balanceOf'[s][Converter] =
         IF s = t THEN balanceOf[s][Converter] + v ELSE balanceOf[s][Converter]
  BY <1>5, <1>6, <1>7, <1>8, <1>9, <1>10, PaymentAccounts
<1>18. totalSupply' = [totalSupply EXCEPT ![erc223Address[t]] = @ + v]
  BY DEF SendWrapped
<1>19. Reserves => Reserves'
  BY <1>1, <1>2, <1>3, <1>4, <1>5, <1>17, <1>18, DepositReserves
<1> QED
  BY <1>16, <1>19

-----------------------------------------------------------------------------
(* The receiver's owner.                                                   *)

LEMMA rescueStep ==
  ASSUME IPay, NEW who \in Users, NEW t \in Tokens, NEW to \in Users, NEW v \in Nat,
         rescue(who, t, to, v)
  PROVE  IPay'
<1>1. to \in Accounts /\ Receiver \in Accounts /\ to # Receiver
  BY PaymentAccounts
<1>2. /\ credited[t] + v <= balanceOf[t][Receiver]
      /\ transfer(t, Receiver, to, v) /\ UNCHANGED receiverVars
  BY DEF rescue
<1>3. ConverterTypeOK' /\ \A s \in Tokens : balanceOf'[s][Receiver] >= credited[s]
  BY <1>1, <1>2, ReceiverTransfer
<1> QED
  BY <1>2, <1>3, HeldStep

\* A payout of v that is taken off the credit first.
LEMMA payoutStep ==
  ASSUME IPay, NEW t \in Tokens, NEW v \in Nat, v <= credited[t],
         credited' = [credited EXCEPT ![t] = credited[t] - v],
         transfer(t, Receiver, payout, v),
         UNCHANGED <<owner, pendingOwner, payout, acceptedToken, whitelistEnabled>>
  PROVE  IPay'
<1>1. payout \in Users /\ credited \in [Tokens -> Nat]
  BY DEF IPay, TypeOK
<1>2. payout \in Accounts /\ Receiver \in Accounts /\ payout # Receiver
  BY <1>1, PaymentAccounts
<1>3. /\ credited' \in [Tokens -> Nat]
      /\ \A s \in Tokens : credited'[s] = IF s = t THEN credited[s] - v ELSE credited[s]
  BY <1>1
<1>4. /\ ConverterTypeOK'
      /\ \A s \in Tokens :
           /\ balanceOf[s][Receiver] \in Nat
           /\ credited[s] \in Nat /\ credited[s] <= balanceOf[s][Receiver]
           /\ balanceOf'[s][Receiver] =
                IF s = t THEN balanceOf[s][Receiver] - v ELSE balanceOf[s][Receiver]
  BY <1>2, ReceiverTransfer
<1>5. ReceiverTypeOK'
  BY <1>3, TypeParts DEF IPay, ReceiverTypeOK
<1>6. CreditBacked'
  BY <1>3, <1>4 DEF CreditBacked
<1> QED
  BY <1>4, <1>5, <1>6 DEF IPay, TypeOK, ReceiverTypeOK

LEMMA OwnerStepKeeps ==
  ASSUME IPay, NEW who \in Users, OwnerStep(who)
  PROVE  IPay'
<1>1. ReceiverTypeOK /\ ConverterTypeOK
  BY TypeParts DEF IPay
<1>2. UNCHANGED converterVars /\ UNCHANGED credited
  BY DEF OwnerStep, transferOwnership, acceptOwnership, setPayout, setWhitelistEnabled,
         setAcceptedToken
<1>3. UNCHANGED <<balanceOf, totalSupply, erc223Wrappers, erc20Wrappers, erc20Supply,
                  burning, unburned>>
  BY <1>2 DEF converterVars, wrapperVars, callVars
<1>4. ConverterTypeOK'
  BY <1>1, <1>3 DEF ConverterTypeOK
<1>5. ReceiverTypeOK'
  BY <1>1, <1>2, PaymentAccounts
     DEF ReceiverTypeOK, OwnerStep, transferOwnership, acceptOwnership, setPayout,
         setWhitelistEnabled, setAcceptedToken
<1>6. CreditBacked'
  BY <1>2, <1>3 DEF IPay, CreditBacked
<1> QED
  BY <1>4, <1>5, <1>6 DEF IPay, TypeOK, ReceiverTypeOK

-----------------------------------------------------------------------------
(* The theorems.                                                           *)

LEMMA PayStep == IPay /\ [Next]_vars => IPay'
<1> SUFFICES ASSUME IPay, [Next]_vars PROVE IPay'
  OBVIOUS
<1>1. CASE ConverterNext /\ UNCHANGED receiverVars
  BY <1>1, ConverterKeepsCredit
<1>2. ASSUME NEW who \in Users, OwnerStep(who) PROVE IPay'
  BY <1>2, OwnerStepKeeps
<1>3. ASSUME NEW who \in Users, NEW t \in Tokens, withdrawAll(who, t) PROVE IPay'
  <2>1. credited[t] \in Nat /\ credited[t] <= credited[t] /\ credited[t] - credited[t] = 0
    BY DEF IPay, TypeOK
  <2>2. credited' = [credited EXCEPT ![t] = credited[t] - credited[t]]
    BY <1>3, <2>1 DEF withdrawAll
  <2>3. /\ transfer(t, Receiver, payout, credited[t])
        /\ UNCHANGED <<owner, pendingOwner, payout, acceptedToken, whitelistEnabled>>
    BY <1>3 DEF withdrawAll
  <2> QED
    BY <2>1, <2>2, <2>3, payoutStep
<1>4. ASSUME NEW who \in Users, NEW t \in Tokens, NEW v \in Amounts, pay(who, t, v) PROVE IPay'
  BY <1>4, payStep, AccountFacts
<1>5. ASSUME NEW who \in Users, NEW t \in Tokens, NEW v \in Amounts, payUnannounced(who, t, v)
      PROVE  IPay'
  BY <1>5, payUnannouncedStep, AccountFacts
<1>6. ASSUME NEW who \in Users, NEW t \in Tokens, NEW v \in Amounts, withdraw(who, t, v)
      PROVE  IPay'
  <2>1. v \in Nat /\ v <= credited[t]
    BY <1>6, AccountFacts DEF withdraw
  <2>2. /\ credited' = [credited EXCEPT ![t] = credited[t] - v]
        /\ transfer(t, Receiver, payout, v)
        /\ UNCHANGED <<owner, pendingOwner, payout, acceptedToken, whitelistEnabled>>
    BY <1>6 DEF withdraw
  <2> QED
    BY <2>1, <2>2, payoutStep
<1>7. ASSUME NEW who \in Users, NEW t \in Tokens, NEW v \in Amounts, NEW to \in Users,
             rescue(who, t, to, v)
      PROVE  IPay'
  BY <1>7, rescueStep, AccountFacts
<1>8. ASSUME NEW who \in Users, NEW t \in Tokens, NEW v \in Amounts,
             NEW to \in Users \cup {Receiver}, wrapAndSend(who, t, to, v)
      PROVE  IPay'
  BY <1>8, SendOriginStep, SendWrappedStep, AccountFacts DEF wrapAndSend
<1>9. CASE UNCHANGED vars
  <2>1. UNCHANGED converterVars /\ UNCHANGED receiverVars
    BY <1>9 DEF vars
  <2>2. UNCHANGED <<balanceOf, totalSupply, erc223Wrappers, erc20Wrappers, erc20Supply,
                    burning, unburned>>
    BY <2>1 DEF converterVars, wrapperVars, callVars
  <2>3. UNCHANGED <<owner, pendingOwner, payout, credited, acceptedToken, whitelistEnabled>>
    BY <2>1 DEF receiverVars
  <2>4. TypeOK'
    BY <2>2, <2>3 DEF IPay, TypeOK, ConverterTypeOK
  <2>5. CreditBacked'
    BY <2>2, <2>3 DEF IPay, CreditBacked
  <2> QED
    BY <2>4, <2>5 DEF IPay
<1> QED
  BY <1>1, <1>2, <1>3, <1>4, <1>5, <1>6, <1>7, <1>8, <1>9 DEF Next

\* The router's two ways and the receiver's transfers keep the converter's
\* reserves; only extraction could take from them.
LEMMA PayReserves ==
  ASSUME IPay, Reserves, PlainExtraction, [Next]_vars
  PROVE  Reserves'
<1>1. ConverterTypeOK
  BY DEF IPay, TypeOK
<1>2. Users \subseteq Accounts \ {Converter} /\ Receiver \in Accounts \ {Converter}
  BY PaymentAccounts
<1>3. CASE ConverterNext /\ UNCHANGED receiverVars
  BY <1>1, <1>3, ReservesNext
<1>4. ASSUME NEW who \in Users, OwnerStep(who) PROVE Reserves'
  <2>1. UNCHANGED converterVars
    BY <1>4 DEF OwnerStep, transferOwnership, acceptOwnership, setPayout,
               setWhitelistEnabled, setAcceptedToken
  <2> QED
    BY <1>1, <2>1, ReservesStutter
<1>5. ASSUME NEW t \in Tokens, NEW v \in Nat,
             NEW from \in Users \cup {Receiver}, NEW to \in Users \cup {Receiver},
             transfer(t, from, to, v)
      PROVE  Reserves'
  <2>1. from \in Accounts \ {Converter} /\ to \in Accounts
    BY <1>2
  <2> QED
    BY <1>1, <1>5, <2>1, transferReserves
<1>6. ASSUME NEW who \in Users, NEW t \in Tokens, withdrawAll(who, t) PROVE Reserves'
  <2>1. credited[t] \in Nat /\ payout \in Users
    BY DEF IPay, TypeOK
  <2> QED
    BY <1>5, <1>6, <2>1 DEF withdrawAll
<1>7. ASSUME NEW who \in Users, NEW t \in Tokens, NEW v \in Amounts,
             pay(who, t, v) \/ payUnannounced(who, t, v) \/ withdraw(who, t, v)
      PROVE  Reserves'
  <2>1. v \in Nat /\ payout \in Users
    BY AccountFacts DEF IPay, TypeOK
  <2> QED
    BY <1>5, <1>7, <2>1 DEF pay, payUnannounced, withdraw
<1>8. ASSUME NEW who \in Users, NEW t \in Tokens, NEW v \in Amounts, NEW to \in Users,
             rescue(who, t, to, v)
      PROVE  Reserves'
  BY <1>5, <1>8, AccountFacts DEF rescue
<1>9. ASSUME NEW who \in Users, NEW t \in Tokens, NEW v \in Amounts,
             NEW to \in Users \cup {Receiver}, wrapAndSend(who, t, to, v)
      PROVE  Reserves'
  BY <1>9, SendOriginStep, SendWrappedStep, AccountFacts DEF wrapAndSend
<1>10. CASE UNCHANGED vars
  BY <1>1, <1>10, ReservesStutter DEF vars
<1> QED
  BY <1>3, <1>4, <1>6, <1>7, <1>8, <1>9, <1>10 DEF Next

-----------------------------------------------------------------------------
(* Redemption.  What all accounts hold of a wrapper is its supply, so that *)
(* nobody holds more than what the reserves cover.                         *)

Ledgers == [Tokens -> [Accounts -> Int]]
Total(bal, t) == SumFunction(bal[t])

LEMMA TotalInt ==
  ASSUME NEW bal \in Ledgers, NEW t \in Tokens
  PROVE  Total(bal, t) \in Int
<1>1. bal[t] \in [Accounts -> Int] /\ DOMAIN bal[t] = Accounts
  BY DEF Ledgers
<1>2. IsFiniteSet(Accounts)
  BY AccountAssumption
<1> QED
  BY <1>1, <1>2, SumInt DEF Total, SumFunction

\* One balance changes by v, and the total with it.
LEMMA TotalChange ==
  ASSUME NEW bal \in Ledgers, NEW new \in Ledgers,
         NEW t \in Tokens, NEW a \in Accounts, NEW v \in Int,
         \A s \in Tokens, b \in Accounts :
           new[s][b] = IF s = t /\ b = a THEN bal[s][b] + v ELSE bal[s][b]
  PROVE  \A s \in Tokens : Total(new, s) = IF s = t THEN Total(bal, s) + v ELSE Total(bal, s)
<1>1. \A s \in Tokens : /\ bal[s] \in [Accounts -> Int] /\ new[s] \in [Accounts -> Int]
                        /\ DOMAIN bal[s] = Accounts /\ DOMAIN new[s] = Accounts
  BY DEF Ledgers
<1>2. IsFiniteSet(Accounts)
  BY AccountAssumption
<1>3. ASSUME NEW s \in Tokens, s # t
      PROVE  Total(new, s) = Total(bal, s)
  <2> DEFINE f == bal[s]  g == new[s]
  <2>1. f \in [Accounts -> Int] /\ g \in [Accounts -> Int] /\ \A b \in Accounts : f[b] = g[b]
    BY <1>1, <1>3
  <2>2. f = g
    <3> HIDE DEF f, g
    <3> QED  BY <2>1
  <2> QED
    BY <2>2 DEF Total
<1>4. Total(new, t) = Total(bal, t) + v
  <2> DEFINE f == bal[t]  g == new[t]
  <2>1. f \in [Accounts -> Int] /\ g \in [Accounts -> Int] /\ \A b \in Accounts \ {a} : f[b] = g[b]
    BY <1>1
  <2>2. g[a] = f[a] + v
    OBVIOUS
  <2>3. Total(new, t) = SumFunctionOnSet(g, Accounts) /\ Total(bal, t) = SumFunctionOnSet(f, Accounts)
    BY <1>1 DEF Total, SumFunction
  <2> HIDE DEF f, g
  <2>4. SumFunctionOnSet(g, Accounts) = SumFunctionOnSet(f, Accounts) + g[a] - f[a]
    BY <2>1, <1>2, SumChange
  <2>5. SumFunctionOnSet(f, Accounts) \in Int /\ f[a] \in Int
    BY <2>1, <1>2, SumInt
  <2> QED
    BY <2>2, <2>3, <2>4, <2>5
<1> QED
  BY <1>3, <1>4

\* What is minted, burned and moved of the total.
LEMMA MintTotal ==
  ASSUME NEW bal \in Ledgers, NEW t \in Tokens, NEW to \in Accounts, NEW v \in Int
  PROVE  /\ Mint(bal, t, to, v) \in Ledgers
         /\ \A s \in Tokens : Total(Mint(bal, t, to, v), s) =
                                IF s = t THEN Total(bal, s) + v ELSE Total(bal, s)
<1> DEFINE new == Mint(bal, t, to, v)
<1>1. new \in Ledgers /\ \A s \in Tokens, b \in Accounts :
        new[s][b] = IF s = t /\ b = to THEN bal[s][b] + v ELSE bal[s][b]
  BY DEF Mint, Ledgers
<1> HIDE DEF new
<1>2. \A s \in Tokens : Total(new, s) = IF s = t THEN Total(bal, s) + v ELSE Total(bal, s)
  BY <1>1, TotalChange
<1> QED
  BY <1>1, <1>2 DEF new

LEMMA BurnTotal ==
  ASSUME NEW bal \in Ledgers, NEW t \in Tokens, NEW from \in Accounts, NEW v \in Int
  PROVE  /\ Burn(bal, t, from, v) \in Ledgers
         /\ \A s \in Tokens : Total(Burn(bal, t, from, v), s) =
                                IF s = t THEN Total(bal, s) - v ELSE Total(bal, s)
<1> DEFINE new == Burn(bal, t, from, v)
<1>1. new \in Ledgers /\ \A s \in Tokens, b \in Accounts :
        bal[s][b] = IF s = t /\ b = from THEN new[s][b] + v ELSE new[s][b]
  BY DEF Burn, Ledgers
<1> HIDE DEF new
<1>2. \A s \in Tokens : Total(bal, s) = IF s = t THEN Total(new, s) + v ELSE Total(new, s)
  BY <1>1, TotalChange
<1>3. \A s \in Tokens : Total(new, s) \in Int
  BY <1>1, TotalInt
<1>4. \A s \in Tokens : Total(new, s) = IF s = t THEN Total(bal, s) - v ELSE Total(bal, s)
  BY <1>2, <1>3
<1> QED
  BY <1>1, <1>4 DEF new

LEMMA MoveTotal ==
  ASSUME NEW bal \in Ledgers, NEW t \in Tokens, NEW from \in Accounts, NEW to \in Accounts,
         NEW v \in Int
  PROVE  /\ Move(bal, t, from, to, v) \in Ledgers
         /\ \A s \in Tokens : Total(Move(bal, t, from, to, v), s) = Total(bal, s)
<1> DEFINE less == Burn(bal, t, from, v)  new == Move(bal, t, from, to, v)
<1>1. less \in Ledgers
  BY BurnTotal
<1>6. \A s \in Tokens : Total(less, s) = IF s = t THEN Total(bal, s) - v ELSE Total(bal, s)
  BY BurnTotal
<1>2. new \in Ledgers
  BY DEF Move, Ledgers
<1>7. \A s \in Tokens, b \in Accounts :
        less[s][b] = IF s = t /\ b = from THEN bal[s][b] - v ELSE bal[s][b]
  BY DEF Burn, Ledgers
<1>8. \A s \in Tokens, b \in Accounts :
        new[s][b] = IF s = t /\ b = to
                    THEN (IF from = to THEN bal[s][b] - v ELSE bal[s][b]) + v
                    ELSE IF s = t /\ b = from THEN bal[s][b] - v ELSE bal[s][b]
  <2>1. /\ bal[t] \in [Accounts -> Int]
        /\ new[t] = [bal[t] EXCEPT ![from] = @ - v, ![to] = @ + v]
        /\ \A s \in Tokens : s # t => new[s] = bal[s]
    BY DEF Move, Ledgers
  <2>2. \A b \in Accounts :
          new[t][b] = IF b = to THEN (IF from = to THEN bal[t][b] - v ELSE bal[t][b]) + v
                                ELSE IF b = from THEN bal[t][b] - v ELSE bal[t][b]
    BY <2>1
  <2> HIDE DEF new
  <2> QED  BY <2>1, <2>2
<1>9. \A s \in Tokens, b \in Accounts :
        new[s][b] = IF s = t /\ b = to THEN less[s][b] + v ELSE less[s][b]
  BY <1>7, <1>8
<1> HIDE DEF less, new
<1>3. \A s \in Tokens : Total(bal, s) \in Int
  BY TotalInt
<1>4. \A s \in Tokens : Total(new, s) = IF s = t THEN Total(less, s) + v ELSE Total(less, s)
  BY <1>1, <1>2, <1>9, TotalChange
<1>5. \A s \in Tokens : Total(new, s) = Total(bal, s)
  BY <1>6, <1>3, <1>4
<1> QED
  BY <1>2, <1>5 DEF new

\* A step that changes what is held of a token and its supply alike.
Conserves ==
    \A s \in Tokens : Total(balanceOf', s) + totalSupply[s] = Total(balanceOf, s) + totalSupply'[s]

LEMMA LedgerFacts ==
  ASSUME ConverterTypeOK
  PROVE  /\ balanceOf \in Ledgers
         /\ \A s \in Tokens : totalSupply[s] \in Int /\ Total(balanceOf, s) \in Int
<1>1. balanceOf \in Ledgers
  BY TypeFacts DEF Balances, Ledgers
<1> QED
  BY <1>1, TypeFacts, TotalInt

\* What the steps of the converter do to balances and supplies.
LEMMA MovesConserve ==
  ASSUME ConverterTypeOK, NEW t \in Tokens, NEW from \in Accounts, NEW to \in Accounts,
         NEW v \in Int, balanceOf' = Move(balanceOf, t, from, to, v), UNCHANGED totalSupply
  PROVE  Conserves
  BY LedgerFacts, MoveTotal DEF Conserves

LEMMA wrapConserves ==
  ASSUME ConverterTypeOK, NEW t \in DOMAIN erc223Address \cup DOMAIN erc20Address,
         NEW w \in Tokens, NEW who \in Accounts, NEW v \in Int,
         balanceOf' = Mint(Move(balanceOf, t, who, Converter, v), w, who, v),
         totalSupply' = [totalSupply EXCEPT ![w] = @ + v]
  PROVE  Conserves
<1> DEFINE moved == Move(balanceOf, t, who, Converter, v)
<1>1. t \in Tokens /\ Converter \in Accounts
  BY Addresses, AccountFacts
<1>2. moved \in Ledgers /\ \A s \in Tokens : Total(moved, s) = Total(balanceOf, s)
  BY <1>1, LedgerFacts, MoveTotal
<1> HIDE DEF moved
<1>3. \A s \in Tokens : Total(balanceOf', s) = IF s = w THEN Total(moved, s) + v ELSE Total(moved, s)
  BY <1>2, MintTotal DEF moved
<1>4. \A s \in Tokens : totalSupply'[s] = IF s = w THEN totalSupply[s] + v ELSE totalSupply[s]
  BY TypeFacts
<1> QED
  BY <1>2, <1>3, <1>4, LedgerFacts DEF Conserves

LEMMA PaidOutTotal ==
  ASSUME ConverterTypeOK, NEW w \in Tokens, NEW t \in Tokens, NEW from \in Users, NEW v \in Int
  PROVE  /\ PaidOut(w, t, from, v) \in Ledgers
         /\ \A s \in Tokens : Total(PaidOut(w, t, from, v), s) = Total(balanceOf, s)
<1> DEFINE first == Move(balanceOf, w, from, Converter, v)
<1>1. from \in Accounts /\ Converter \in Accounts
  BY AccountFacts
<1>2. first \in Ledgers /\ \A s \in Tokens : Total(first, s) = Total(balanceOf, s)
  BY <1>1, LedgerFacts, MoveTotal
<1>3. PaidOut(w, t, from, v) = Move(first, t, Converter, from, v)
  BY DEF PaidOut
<1> HIDE DEF first
<1> QED
  BY <1>1, <1>2, <1>3, MoveTotal

\* The supply is reduced by what is burned.
LEMMA BurnsConserve ==
  ASSUME ConverterTypeOK, NEW w \in Tokens, NEW v \in Int,
         \A s \in Tokens :
           Total(balanceOf', s) = IF s = w THEN Total(balanceOf, s) - v ELSE Total(balanceOf, s),
         totalSupply' = [totalSupply EXCEPT ![w] = @ - v]
  PROVE  Conserves
<1>1. \A s \in Tokens : totalSupply'[s] = IF s = w THEN totalSupply[s] - v ELSE totalSupply[s]
  BY TypeFacts
<1> QED
  BY <1>1, LedgerFacts DEF Conserves

LEMMA tokenReceivedConserves ==
  ASSUME ConverterTypeOK, NEW t \in Tokens, NEW who \in Users, NEW v \in Nat,
         tokenReceived(t, who, v)
  PROVE  Conserves
<1>1. CASE UnwrapPlain(t, who, v)
  <2>1. PICK o \in Tokens : balanceOf' = Burn(PaidOut(t, o, who, v), t, Converter, v)
    BY <1>1 DEF UnwrapPlain
  <2>2. totalSupply' = [totalSupply EXCEPT ![t] = @ - v]
    BY <1>1 DEF UnwrapPlain
  <2>3. /\ PaidOut(t, o, who, v) \in Ledgers
        /\ \A s \in Tokens : Total(PaidOut(t, o, who, v), s) = Total(balanceOf, s)
    BY PaidOutTotal
  <2> DEFINE paid == PaidOut(t, o, who, v)
  <2>4. /\ paid \in Ledgers /\ \A s \in Tokens : Total(paid, s) = Total(balanceOf, s)
        /\ balanceOf' = Burn(paid, t, Converter, v) /\ v \in Int /\ Converter \in Accounts
    BY <2>1, <2>3, AccountFacts
  <2> HIDE DEF paid
  <2>5. \A s \in Tokens :
          Total(balanceOf', s) = IF s = t THEN Total(balanceOf, s) - v ELSE Total(balanceOf, s)
    BY <2>4, BurnTotal
  <2> QED
    BY <2>2, <2>4, <2>5, BurnsConserve
<1>2. CASE UnwrapHooked(t, who, v)
  <2>1. PICK o \in Hooked : balanceOf' = PaidOut(t, o, who, v)
    BY <1>2 DEF UnwrapHooked
  <2>2. UNCHANGED totalSupply
    BY <1>2 DEF UnwrapHooked
  <2>3. o \in Tokens
    BY AddressAssumption
  <2>4. \A s \in Tokens : Total(balanceOf', s) = Total(balanceOf, s)
    BY <2>1, <2>3, PaidOutTotal
  <2> QED
    BY <2>2, <2>4 DEF Conserves
<1>3. CASE Wrap223(t, who, v)
  <2>1. /\ t \in DOMAIN erc20Address
        /\ balanceOf' = Mint(Move(balanceOf, t, who, Converter, v), erc20Address[t], who, v)
        /\ totalSupply' = [totalSupply EXCEPT ![erc20Address[t]] = @ + v]
    BY <1>3, TypeFacts DEF Wrap223, CanHaveErc20
  <2> DEFINE w == erc20Address[t]
  <2>2. w \in Tokens /\ who \in Accounts /\ v \in Int /\ t \in DOMAIN erc223Address \cup DOMAIN erc20Address
    BY <2>1, Addresses, AccountFacts
  <2>3. /\ balanceOf' = Mint(Move(balanceOf, t, who, Converter, v), w, who, v)
        /\ totalSupply' = [totalSupply EXCEPT ![w] = @ + v]
    BY <2>1
  <2> HIDE DEF w
  <2> QED
    BY <2>2, <2>3, wrapConserves
<1> QED
  BY <1>1, <1>2, <1>3 DEF tokenReceived

LEMMA unwrapConserves ==
  ASSUME ConverterTypeOK, NEW w \in Tokens, NEW who \in Users, NEW v \in Nat,
         unwrapERC20toERC223(who, w, v)
  PROVE  Conserves
<1>1. /\ \E t \in erc20Wrappers :
           balanceOf' = Move(Burn(balanceOf, w, who, v), t, Converter, who, v)
      /\ totalSupply' = [totalSupply EXCEPT ![w] = @ - v]
  BY DEF unwrapERC20toERC223
<1>2. PICK t \in erc20Wrappers :
        balanceOf' = Move(Burn(balanceOf, w, who, v), t, Converter, who, v)
  BY <1>1
<1>3. t \in Tokens /\ who \in Accounts /\ Converter \in Accounts
  BY TypeFacts, Addresses, AccountFacts
<1> DEFINE burned == Burn(balanceOf, w, who, v)
<1>4. burned \in Ledgers
  BY <1>3, LedgerFacts, BurnTotal
<1>5. balanceOf' = Move(burned, t, Converter, who, v)
  BY <1>2
<1>6. balanceOf \in Ledgers /\ burned = Burn(balanceOf, w, who, v)
  BY LedgerFacts
<1> HIDE DEF burned
<1>7. v \in Int /\ \A s \in Tokens : Total(balanceOf', s) = Total(burned, s)
  BY <1>3, <1>4, <1>5, MoveTotal
<1>8. \A s \in Tokens : Total(burned, s) = IF s = w THEN Total(balanceOf, s) - v ELSE Total(balanceOf, s)
  BY <1>3, <1>6, BurnTotal
<1> QED
  BY <1>1, <1>7, <1>8, BurnsConserve

LEMMA burnConserves ==
  ASSUME ConverterTypeOK, burn
  PROVE  Conserves
<1>1. PICK w \in Range(erc223Address), v \in Nat :
        /\ totalSupply' = [totalSupply EXCEPT ![w] = @ - v]
        /\ \A s \in Tokens, a \in Accounts :
             balanceOf'[s][a] = IF s = w /\ a = Converter THEN balanceOf[s][a] - v ELSE balanceOf[s][a]
  BY burnStep
<1>2. ConverterTypeOK'
  BY burnStep
<1>3. balanceOf' \in Ledgers
  BY <1>2 DEF ConverterTypeOK, Ledgers
<1>4. w \in Tokens /\ v \in Int /\ Converter \in Accounts
  BY Addresses, AccountFacts
<1>5. \A s \in Tokens, a \in Accounts :
        balanceOf[s][a] = IF s = w /\ a = Converter THEN balanceOf'[s][a] + v ELSE balanceOf'[s][a]
  BY <1>1, <1>4, LedgerFacts DEF Ledgers
<1>6. \A s \in Tokens :
        Total(balanceOf, s) = IF s = w THEN Total(balanceOf', s) + v ELSE Total(balanceOf', s)
  <2> DEFINE after == balanceOf'
  <2>1. /\ after \in Ledgers /\ balanceOf \in Ledgers
        /\ \A s \in Tokens, a \in Accounts :
             balanceOf[s][a] = IF s = w /\ a = Converter THEN after[s][a] + v ELSE after[s][a]
    BY <1>3, <1>5, LedgerFacts
  <2> HIDE DEF after
  <2>2. \A s \in Tokens : Total(balanceOf, s) = IF s = w THEN Total(after, s) + v ELSE Total(after, s)
    BY <1>4, <2>1, TotalChange
  <2> QED  BY <2>2 DEF after
<1>7. \A s \in Tokens :
        Total(balanceOf', s) = IF s = w THEN Total(balanceOf, s) - v ELSE Total(balanceOf, s)
  BY <1>3, <1>6, TotalInt
<1> QED
  BY <1>1, <1>4, <1>7, BurnsConserve

\* The router's transfers: out of the user's, through its own.
LEMMA SendOriginConserves ==
  ASSUME ConverterTypeOK, NEW who \in Users, NEW w \in Tokens, NEW to \in Users \cup {Receiver},
         NEW v \in Nat, SendOrigin(who, w, to, v)
  PROVE  Conserves
<1>1. totalSupply' = [totalSupply EXCEPT ![w] = @ - v]
  BY DEF SendOrigin
<1>2. PICK t \in erc20Wrappers :
        balanceOf' = Move(Move(Burn(Move(balanceOf, w, who, Router, v), w, Router, v),
                               t, Converter, Router, v), t, Router, to, v)
  BY DEF SendOrigin
<1>3. /\ t \in Tokens /\ who \in Accounts /\ to \in Accounts /\ v \in Int
      /\ Router \in Accounts /\ Converter \in Accounts
  BY TypeFacts, Addresses, PaymentAccounts
<1> DEFINE one == Move(balanceOf, w, who, Router, v)
           two == Burn(one, w, Router, v)
           three == Move(two, t, Converter, Router, v)
<1>4. balanceOf' = Move(three, t, Router, to, v)
  BY <1>2
<1>5. one \in Ledgers /\ \A s \in Tokens : Total(one, s) = Total(balanceOf, s)
  BY <1>3, LedgerFacts, MoveTotal
<1> HIDE DEF one
<1>6. /\ two \in Ledgers
      /\ \A s \in Tokens : Total(two, s) = IF s = w THEN Total(one, s) - v ELSE Total(one, s)
  BY <1>3, <1>5, BurnTotal
<1> HIDE DEF two
<1>7. three \in Ledgers /\ \A s \in Tokens : Total(three, s) = Total(two, s)
  BY <1>3, <1>6, MoveTotal
<1> HIDE DEF three
<1>8. \A s \in Tokens : Total(balanceOf', s) = Total(three, s)
  BY <1>3, <1>4, <1>7, MoveTotal
<1>9. \A s \in Tokens :
        Total(balanceOf', s) = IF s = w THEN Total(balanceOf, s) - v ELSE Total(balanceOf, s)
  BY <1>5, <1>6, <1>7, <1>8
<1> QED
  BY <1>1, <1>3, <1>9, BurnsConserve

LEMMA SendWrappedConserves ==
  ASSUME ConverterTypeOK, NEW who \in Users, NEW t \in Tokens, NEW to \in Users \cup {Receiver},
         NEW v \in Nat, SendWrapped(who, t, to, v)
  PROVE  Conserves
<1> DEFINE w == erc223Address[t]
           one == Move(balanceOf, t, who, Router, v)
           two == Move(one, t, Router, Converter, v)
           three == Mint(two, w, Router, v)
<1>1. t \in DOMAIN erc223Address
  BY TypeFacts DEF SendWrapped, CanHaveErc223
<1>2. totalSupply' = [totalSupply EXCEPT ![w] = @ + v]
  BY DEF SendWrapped
<1>3. /\ w \in Tokens /\ who \in Accounts /\ to \in Accounts /\ v \in Int
      /\ Router \in Accounts /\ Converter \in Accounts
  BY <1>1, Addresses, PaymentAccounts
<1>4. balanceOf' = Move(three, w, Router, to, v)
  BY DEF SendWrapped
<1>5. one \in Ledgers /\ \A s \in Tokens : Total(one, s) = Total(balanceOf, s)
  BY <1>3, LedgerFacts, MoveTotal
<1> HIDE DEF one, w
<1>6. two \in Ledgers /\ \A s \in Tokens : Total(two, s) = Total(one, s)
  BY <1>3, <1>5, MoveTotal
<1> HIDE DEF two
<1>7. /\ three \in Ledgers
      /\ \A s \in Tokens : Total(three, s) = IF s = w THEN Total(two, s) + v ELSE Total(two, s)
  BY <1>3, <1>6, MintTotal
<1> HIDE DEF three
<1>8. \A s \in Tokens : Total(balanceOf', s) = Total(three, s)
  BY <1>3, <1>4, <1>7, MoveTotal
<1>9. \A s \in Tokens : totalSupply'[s] = IF s = w THEN totalSupply[s] + v ELSE totalSupply[s]
  BY <1>2, <1>3, TypeFacts
<1> QED
  BY <1>5, <1>6, <1>7, <1>8, <1>9, LedgerFacts DEF Conserves

\* Every step of the converter, ...
LEMMA ConverterConserves ==
  ASSUME ConverterTypeOK, ConverterNext
  PROVE  Conserves
<1>1. ASSUME NEW t \in Tokens, createERC223Wrapper(t) \/ createERC20Wrapper(t)
      PROVE  Conserves
  <2>1. UNCHANGED <<balanceOf, totalSupply>>
    BY <1>1 DEF createERC223Wrapper, createERC20Wrapper
  <2> QED
    BY <2>1 DEF Conserves
<1>2. ASSUME NEW who \in Users, NEW t \in Tokens, NEW v \in Amounts,
             NEW to \in Users \cup {Converter}, transfer(t, who, to, v)
      PROVE  Conserves
  <2>1. who \in Accounts /\ to \in Accounts /\ v \in Int
    BY AccountFacts
  <2>2. balanceOf' = Move(balanceOf, t, who, to, v) /\ UNCHANGED totalSupply
    BY <1>2 DEF transfer
  <2> QED
    BY <2>1, <2>2, MovesConserve
<1>3. ASSUME NEW who \in Users, NEW t \in Tokens, NEW v \in Amounts, tokenReceived(t, who, v)
      PROVE  Conserves
  BY <1>3, tokenReceivedConserves, AccountFacts
<1>4. ASSUME NEW who \in Users, NEW t \in Tokens, NEW v \in Amounts, wrapERC20toERC223(who, t, v)
      PROVE  Conserves
  <2> DEFINE w == erc223Address[t]
  <2>1. t \in DOMAIN erc223Address
    BY <1>4, TypeFacts DEF wrapERC20toERC223, CanHaveErc223
  <2>2. w \in Tokens /\ who \in Accounts /\ v \in Int /\ t \in DOMAIN erc223Address \cup DOMAIN erc20Address
    BY <2>1, Addresses, AccountFacts
  <2>3. /\ balanceOf' = Mint(Move(balanceOf, t, who, Converter, v), w, who, v)
        /\ totalSupply' = [totalSupply EXCEPT ![w] = @ + v]
    BY <1>4 DEF wrapERC20toERC223
  <2> HIDE DEF w
  <2> QED
    BY <2>2, <2>3, wrapConserves
<1>5. ASSUME NEW who \in Users, NEW t \in Tokens, NEW v \in Amounts, unwrapERC20toERC223(who, t, v)
      PROVE  Conserves
  BY <1>5, unwrapConserves, AccountFacts
<1>6. CASE burn
  BY <1>6, burnConserves
<1>7. ASSUME NEW t \in StuckTokens, extractStuckERC20(t)
      PROVE  Conserves
  <2> DEFINE v == balanceOf[t][Converter] - erc20Supply[t]
  <2>1. t \in Tokens /\ Converter \in Accounts /\ Extractor \in Accounts
    BY AccountAssumption, AccountFacts
  <2>2. v \in Int
    BY <2>1, TypeFacts DEF Balances
  <2>3. balanceOf' = Move(balanceOf, t, Converter, Extractor, v) /\ UNCHANGED totalSupply
    BY <1>7 DEF extractStuckERC20
  <2> HIDE DEF v
  <2> QED
    BY <2>1, <2>2, <2>3, MovesConserve
<1> QED
  BY <1>1, <1>2, <1>3, <1>4, <1>5, <1>6, <1>7 DEF ConverterNext, convertERC20

\* ... of the receiver and of the router.
LEMMA PaymentsConserve ==
  ASSUME IPay, [Next]_vars
  PROVE  Conserves
<1>1. ConverterTypeOK
  BY DEF IPay, TypeOK
<1>2. ASSUME NEW t \in Tokens, NEW v \in Nat,
             NEW from \in Users \cup {Receiver}, NEW to \in Users \cup {Receiver},
             transfer(t, from, to, v)
      PROVE  Conserves
  <2>1. from \in Accounts /\ to \in Accounts /\ v \in Int
    BY PaymentAccounts
  <2>2. balanceOf' = Move(balanceOf, t, from, to, v) /\ UNCHANGED totalSupply
    BY <1>2 DEF transfer
  <2> QED
    BY <1>1, <2>1, <2>2, MovesConserve
<1>3. CASE ConverterNext
  BY <1>1, <1>3, ConverterConserves
<1>4. ASSUME UNCHANGED converterVars PROVE Conserves
  BY <1>4 DEF converterVars, Conserves
<1>5. ASSUME NEW who \in Users, OwnerStep(who) PROVE Conserves
  <2>1. UNCHANGED converterVars
    BY <1>5 DEF OwnerStep, transferOwnership, acceptOwnership, setPayout,
               setWhitelistEnabled, setAcceptedToken
  <2> QED
    BY <1>4, <2>1
<1>6. ASSUME NEW who \in Users, NEW t \in Tokens, withdrawAll(who, t) PROVE Conserves
  <2>1. credited[t] \in Nat /\ payout \in Users
    BY DEF IPay, TypeOK
  <2> QED
    BY <1>2, <1>6, <2>1 DEF withdrawAll
<1>7. ASSUME NEW who \in Users, NEW t \in Tokens, NEW v \in Amounts,
             pay(who, t, v) \/ payUnannounced(who, t, v) \/ withdraw(who, t, v)
      PROVE  Conserves
  <2>1. v \in Nat /\ payout \in Users
    BY AccountFacts DEF IPay, TypeOK
  <2> QED
    BY <1>2, <1>7, <2>1 DEF pay, payUnannounced, withdraw
<1>8. ASSUME NEW who \in Users, NEW t \in Tokens, NEW v \in Amounts, NEW to \in Users,
             rescue(who, t, to, v)
      PROVE  Conserves
  BY <1>2, <1>8, AccountFacts DEF rescue
<1>9. ASSUME NEW who \in Users, NEW t \in Tokens, NEW v \in Amounts,
             NEW to \in Users \cup {Receiver}, wrapAndSend(who, t, to, v)
      PROVE  Conserves
  BY <1>1, <1>9, SendOriginConserves, SendWrappedConserves, AccountFacts DEF wrapAndSend
<1> QED
  BY <1>3, <1>4, <1>5, <1>6, <1>7, <1>8, <1>9 DEF Next, vars

-----------------------------------------------------------------------------
(* What the invariant of the reserves leaves open: all that is held of a   *)
(* wrapper is its supply, and unburned adds up the burns still to be made. *)

SupplyHeld == \A w \in Wrappers : Total(balanceOf, w) = totalSupply[w]

BurnsOf(b, t) == [k \in 1 .. Len(b) |-> IF b[k].token = t THEN b[k].amount ELSE 0]

BurnsCounted == \A t \in Tokens : unburned[t] = SumFunction(BurnsOf(burning, t))

LEMMA WrapperTokens == Wrappers \subseteq Tokens
  BY Addresses DEF Wrappers, Range

LEMMA SupplyHeldInit == ConverterInit => SupplyHeld
<1> SUFFICES ASSUME ConverterInit, NEW w \in Wrappers PROVE Total(balanceOf, w) = totalSupply[w]
  BY DEF SupplyHeld
<1>1. w \in Tokens
  BY WrapperTokens
<1>2. balanceOf[w] = [a \in Accounts |-> 0]
  BY <1>1, AccountAssumption DEF ConverterInit
<1>3. totalSupply[w] = 0
  BY <1>1 DEF ConverterInit
<1> DEFINE f == balanceOf[w]
<1>4. f = [a \in Accounts |-> 0] /\ DOMAIN f = Accounts /\ IsFiniteSet(Accounts)
  BY <1>2, AccountAssumption
<1> HIDE DEF f
<1>5. SumFunction(f) = 0
  BY <1>4, SumZero DEF SumFunction
<1> QED
  BY <1>3, <1>5 DEF f, Total

LEMMA SupplyHeldStep ==
  ASSUME ConverterTypeOK, ConverterTypeOK', SupplyHeld, Conserves
  PROVE  SupplyHeld'
<1>1. \A w \in Wrappers : Total(balanceOf', w) = totalSupply'[w]
  <2> SUFFICES ASSUME NEW w \in Wrappers PROVE Total(balanceOf', w) = totalSupply'[w]
    OBVIOUS
  <2>1. w \in Tokens /\ Total(balanceOf, w) = totalSupply[w]
    BY WrapperTokens DEF SupplyHeld
  <2>2. Total(balanceOf', w) + totalSupply[w] = Total(balanceOf, w) + totalSupply'[w]
    BY <2>1 DEF Conserves
  <2> DEFINE after == balanceOf'
  <2>3. after \in Ledgers /\ totalSupply[w] \in Int /\ totalSupply'[w] \in Int
    BY <2>1 DEF ConverterTypeOK, Ledgers
  <2> HIDE DEF after
  <2>4. Total(after, w) \in Int
    BY <2>1, <2>3, TotalInt
  <2>5. Total(after, w) + totalSupply[w] = Total(balanceOf, w) + totalSupply'[w]
    BY <2>2 DEF after
  <2>6. Total(after, w) = totalSupply'[w]
    <3> DEFINE n == Total(after, w)  m == totalSupply[w]  k == Total(balanceOf, w)  l == totalSupply'[w]
    <3>1. n \in Int /\ m \in Int /\ k \in Int /\ l \in Int /\ n + m = k + l /\ k = m
      BY <2>1, <2>3, <2>4, <2>5
    <3> HIDE DEF n, m, k, l
    <3>2. n = l
      BY <3>1
    <3> QED
      BY <3>2 DEF n, l
  <2> QED
    BY <2>6 DEF after
<1> QED
  BY <1>1 DEF SupplyHeld, Total

Frames == [token : Range(erc223Address), amount : Nat]

LEMMA BurnsOfFacts ==
  ASSUME NEW b \in Seq(Frames), NEW t \in Tokens
  PROVE  BurnsOf(b, t) \in [1 .. Len(b) -> Nat] /\ SumFunction(BurnsOf(b, t)) \in Nat
<1>1. \A k \in 1 .. Len(b) : b[k] \in Frames
  OBVIOUS
<1>2. BurnsOf(b, t) \in [1 .. Len(b) -> Nat]
  BY <1>1 DEF BurnsOf, Frames
<1>3. IsFiniteSet(1 .. Len(b)) /\ DOMAIN BurnsOf(b, t) = 1 .. Len(b)
  BY <1>2, FS_Interval
<1> DEFINE f == BurnsOf(b, t)  D == 1 .. Len(b)
<1>4. f \in [D -> Nat] /\ DOMAIN f = D /\ IsFiniteSet(D) /\ D \in SUBSET D
  BY <1>2, <1>3
<1> HIDE DEF f, D
<1>5. SumFunction(f) \in Nat
  BY <1>4, SumNat DEF SumFunction
<1> QED
  BY <1>2, <1>5 DEF f

\* One more burn, and the last one done.
LEMMA BurnsAppend ==
  ASSUME NEW b \in Seq(Frames), NEW fr \in Frames, NEW t \in Tokens
  PROVE  SumFunction(BurnsOf(Append(b, fr), t)) =
           SumFunction(BurnsOf(b, t)) + IF fr.token = t THEN fr.amount ELSE 0
<1> DEFINE n == Len(b)  c == Append(b, fr)  f == BurnsOf(b, t)  g == BurnsOf(c, t)
<1>1. c \in Seq(Frames) /\ Len(c) = n + 1 /\ n \in Nat
      /\ c[n + 1] = fr /\ \A k \in 1 .. n : c[k] = b[k]
  OBVIOUS
<1>2. f \in [1 .. n -> Int] /\ g \in [1 .. n + 1 -> Int]
  <2>1. f \in [1 .. n -> Nat]
    BY BurnsOfFacts
  <2>2. g \in [1 .. n + 1 -> Nat]
    BY <1>1, BurnsOfFacts
  <2> QED
    BY <2>1, <2>2
<1>3. \A k \in 1 .. n : g[k] = f[k]
  BY <1>1 DEF BurnsOf
<1>4. g[n + 1] = IF fr.token = t THEN fr.amount ELSE 0
  BY <1>1 DEF BurnsOf
<1> HIDE DEF n, c, f, g
<1>5. SumFunction(g) = SumFunction(f) + g[n + 1]
  BY <1>1, <1>2, <1>3, SumAppend
<1> QED
  BY <1>4, <1>5 DEF f, g, c

LEMMA BurnsFront ==
  ASSUME NEW b \in Seq(Frames), b # <<>>, NEW t \in Tokens
  PROVE  LET last == b[Len(b)]  front == SubSeq(b, 1, Len(b) - 1) IN
         /\ last \in Frames /\ front \in Seq(Frames)
         /\ SumFunction(BurnsOf(b, t)) =
              SumFunction(BurnsOf(front, t)) + IF last.token = t THEN last.amount ELSE 0
<1> DEFINE n == Len(b) - 1  last == b[Len(b)]  front == SubSeq(b, 1, n)
<1>1. n \in Nat /\ n + 1 = Len(b) /\ Len(b) \in 1 .. Len(b)
  OBVIOUS
<1>2. last \in Frames
  BY <1>1
<1>3. front \in Seq(Frames) /\ Len(front) = n /\ \A k \in 1 .. n : front[k] = b[k]
  <2>1. \A i \in 1 .. n : b[i] \in Frames
    BY <1>1
  <2>2. 1 \in Int /\ n \in Int
    BY <1>1
  <2> HIDE DEF n
  <2> QED
    BY <1>1, <2>1, <2>2, SubSeqProperties
<1> DEFINE f == BurnsOf(front, t)  g == BurnsOf(b, t)
<1>4. f \in [1 .. n -> Int] /\ g \in [1 .. n + 1 -> Int]
  <2>1. f \in [1 .. n -> Nat]
    BY <1>3, BurnsOfFacts
  <2>2. g \in [1 .. n + 1 -> Nat]
    BY <1>1, BurnsOfFacts
  <2> QED
    BY <2>1, <2>2
<1>5. /\ \A k \in 1 .. n : g[k] = f[k]
      /\ g[n + 1] = IF last.token = t THEN last.amount ELSE 0
  BY <1>1, <1>3 DEF BurnsOf
<1> HIDE DEF f, g
<1>6. SumFunction(g) = SumFunction(f) + g[n + 1]
  BY <1>1, <1>4, <1>5, SumAppend
<1> QED
  BY <1>2, <1>3, <1>5, <1>6 DEF f, g

LEMMA BurnsKept ==
  ASSUME BurnsCounted, UNCHANGED callVars
  PROVE  BurnsCounted'
<1>1. burning' = burning /\ unburned' = unburned
  BY DEF callVars
<1> QED
  BY <1>1 DEF BurnsCounted, BurnsOf

LEMMA BurnsChange ==
  ASSUME ConverterTypeOK, BurnsCounted, NEW w \in Tokens, NEW v \in Int,
         unburned' = [unburned EXCEPT ![w] = @ + v],
         \A t \in Tokens : SumFunction(BurnsOf(burning', t)) =
                             SumFunction(BurnsOf(burning, t)) + IF w = t THEN v ELSE 0
  PROVE  BurnsCounted'
<1>1. \A t \in Tokens : unburned'[t] = unburned[t] + IF w = t THEN v ELSE 0
  BY TypeFacts
<1>2. \A t \in Tokens : unburned'[t] = SumFunction(BurnsOf(burning', t))
  BY <1>1 DEF BurnsCounted
<1> QED
  BY <1>2 DEF BurnsCounted, BurnsOf

LEMMA ConverterBurns ==
  ASSUME ConverterTypeOK, BurnsCounted, ConverterNext
  PROVE  BurnsCounted'
<1>1. ASSUME NEW w \in Tokens, NEW who \in Users, NEW v \in Nat, UnwrapHooked(w, who, v)
      PROVE  BurnsCounted'
  <2> DEFINE fr == [token |-> w, amount |-> v]
  <2>1. PICK t \in Hooked : Redeem(w, t, who, v)
    BY <1>1 DEF UnwrapHooked
  <2>2. burning' = Append(burning, fr) /\ unburned' = [unburned EXCEPT ![w] = @ + v]
    BY <1>1 DEF UnwrapHooked
  <2>3. t \in erc223Wrappers /\ erc223Address[t] = w
    BY <2>1 DEF Redeem, CanRedeem, erc20Origins
  <2>4. w \in Range(erc223Address) /\ v \in Int
    BY <2>3, TypeFacts, Addresses
  <2>5. fr \in Frames /\ fr.token = w /\ fr.amount = v /\ burning \in Seq(Frames)
    BY <2>4 DEF Frames, ConverterTypeOK
  <2> HIDE DEF fr
  <2>6. \A s \in Tokens : SumFunction(BurnsOf(burning', s)) =
                            SumFunction(BurnsOf(burning, s)) + IF w = s THEN v ELSE 0
    BY <2>2, <2>5, BurnsAppend
  <2> QED
    BY <2>2, <2>4, <2>6, BurnsChange
<1>2. ASSUME burn PROVE BurnsCounted'
  <2> DEFINE last == burning[Len(burning)]  front == SubSeq(burning, 1, Len(burning) - 1)
  <2>1. burning \in Seq(Frames) /\ burning # <<>>
    BY <1>2 DEF burn, ConverterTypeOK, Frames
  <2>2. /\ burning' = front
        /\ unburned' = [unburned EXCEPT ![last.token] = @ - last.amount]
    BY <1>2 DEF burn
  <2>3. \A s \in Tokens : /\ last \in Frames /\ front \in Seq(Frames)
                          /\ SumFunction(BurnsOf(burning, s)) =
                               SumFunction(BurnsOf(front, s)) + IF last.token = s THEN last.amount ELSE 0
    BY <2>1, BurnsFront
  <2> DEFINE w == last.token  v == -last.amount
  <2>4. w \in Tokens /\ last.amount \in Nat
    <3>1. last \in Frames
      BY <2>1, BurnsFront, AddressAssumption, <2>3
    <3> QED
      BY <3>1, Addresses DEF Frames
  <2> HIDE DEF last, front
  <2>5. v \in Int /\ unburned' = [unburned EXCEPT ![w] = @ + v]
    <3>1. v \in Int /\ \A n \in Int : n - last.amount = n + v
      BY <2>4
    <3>2. unburned[w] \in Int
      BY <2>4, TypeFacts
    <3> HIDE DEF v
    <3>3. unburned[w] - last.amount = unburned[w] + v
      BY <3>1, <3>2
    <3> QED
      BY <2>2, <3>1, <3>3
  <2>6. \A s \in Tokens : SumFunction(BurnsOf(front, s)) \in Int
    BY <2>3, BurnsOfFacts
  <2>7. \A s \in Tokens : SumFunction(BurnsOf(front, s)) =
                            SumFunction(BurnsOf(burning, s)) + IF w = s THEN v ELSE 0
    BY <2>3, <2>4, <2>6
  <2> HIDE DEF w, v
  <2> QED
    BY <2>2, <2>4, <2>5, <2>7, BurnsChange
<1>3. ASSUME NEW t \in Tokens, NEW who \in Users, NEW v \in Amounts, tokenReceived(t, who, v)
      PROVE  BurnsCounted'
  <2>1. CASE UnwrapHooked(t, who, v)
    BY <1>1, <2>1, AccountFacts
  <2>2. CASE UnwrapPlain(t, who, v) \/ Wrap223(t, who, v)
    <3>1. UNCHANGED callVars
      BY <2>2 DEF UnwrapPlain, Wrap223
    <3> QED
      BY <3>1, BurnsKept
  <2> QED
    BY <1>3, <2>1, <2>2 DEF tokenReceived
<1>4. CASE UNCHANGED callVars
  BY <1>4, BurnsKept
<1> QED
  BY <1>2, <1>3, <1>4
     DEF ConverterNext, createERC223Wrapper, createERC20Wrapper, transfer, wrapERC20toERC223,
         unwrapERC20toERC223, convertERC20, extractStuckERC20

LEMMA PaymentsBurns ==
  ASSUME IPay, BurnsCounted, [Next]_vars
  PROVE  BurnsCounted'
<1>1. CASE ConverterNext
  BY <1>1, ConverterBurns DEF IPay, TypeOK
<1>2. CASE UNCHANGED callVars
  BY <1>2, BurnsKept
<1>3. UNCHANGED converterVars => UNCHANGED callVars
  BY DEF converterVars
<1>4. ASSUME NEW who \in Users, OwnerStep(who) PROVE UNCHANGED callVars
  BY <1>3, <1>4 DEF OwnerStep, transferOwnership, acceptOwnership, setPayout,
                   setWhitelistEnabled, setAcceptedToken
<1> QED
  BY <1>1, <1>2, <1>3, <1>4
     DEF Next, vars, pay, payUnannounced, withdraw, withdrawAll, rescue, wrapAndSend,
         SendOrigin, SendWrapped, transfer

LEMMA BurnsInit == ConverterInit => BurnsCounted
<1> SUFFICES ASSUME ConverterInit, NEW t \in Tokens
             PROVE  unburned[t] = SumFunction(BurnsOf(burning, t))
  BY DEF BurnsCounted
<1>1. burning = <<>> /\ unburned[t] = 0
  BY DEF ConverterInit
<1>2. DOMAIN BurnsOf(burning, t) = {}
  BY <1>1 DEF BurnsOf
<1> QED
  BY <1>1, <1>2, SumNone DEF SumFunction

-----------------------------------------------------------------------------
(* What follows for a holder.                                              *)

Redemption == Reserves /\ SupplyHeld /\ BurnsCounted

\* What two accounts hold of a token is part of what all hold.
LEMMA TwoHolders ==
  ASSUME ConverterTypeOK, NEW t \in Tokens, NEW a \in Accounts, NEW b \in Accounts, a # b
  PROVE  balanceOf[t][a] + balanceOf[t][b] <= Total(balanceOf, t)
<1> DEFINE f == balanceOf[t]  S == Accounts  R == S \ {a}
<1>1. f \in [S -> Nat] /\ DOMAIN f = S /\ IsFiniteSet(S)
  BY AccountAssumption DEF ConverterTypeOK
<1>2. Total(balanceOf, t) = SumFunctionOnSet(f, S)
  BY <1>1 DEF Total, SumFunction
<1>3. IsFiniteSet(R) /\ R \in SUBSET S /\ a \in S /\ b \in R /\ S \in SUBSET S
  BY <1>1, FS_Subset
<1> HIDE DEF f, S
<1>4. f \in [S -> Int]
  BY <1>1
<1>5. SumFunctionOnSet(f, S) = f[a] + SumFunctionOnSet(f, R)
  BY <1>1, <1>3, <1>4, SumSplit
<1> HIDE DEF R
<1>6. f[b] <= SumFunctionOnSet(f, R) /\ SumFunctionOnSet(f, R) \in Nat
  BY <1>1, <1>3, SumPartBounds, SumNat
<1>7. f[a] \in Nat /\ f[b] \in Nat
  BY <1>1, <1>3
<1>8. f[a] + f[b] <= SumFunctionOnSet(f, S)
  BY <1>5, <1>6, <1>7
<1> QED
  BY <1>2, <1>8 DEF f

LEMMA RedemptionRedeems ==
  ASSUME ConverterTypeOK, Redemption
  PROVE  Redeemable
<1>1. \A t \in Tokens : unburned[t] \in Nat
  BY BurnsOfFacts DEF ConverterTypeOK, Redemption, BurnsCounted, Frames
<1>2. \A t \in Tokens : /\ erc20Supply[t] \in Nat /\ totalSupply[t] \in Nat
                        /\ \A a \in Accounts : balanceOf[t][a] \in Nat
  BY DEF ConverterTypeOK
<1>3. \A t \in Tokens : Supply20(t) \in Nat
  BY <1>2, TypeFacts, Addresses DEF Supply20
<1>4. \A t \in Tokens : /\ erc20Supply[t] = Supply223(t)
                        /\ balanceOf[t][Converter] >= erc20Supply[t] + Supply20(t) + unburned[t]
  BY DEF Redemption, Reserves, ReservesCover
<1>5. UndeployedEmpty
  BY DEF Redemption, Reserves
<1>6. ASSUME NEW w \in Wrappers, NEW u \in Users, balanceOf[w][u] > 0
      PROVE  IF w \in Hooked
             THEN \E t \in Tokens : CanRedeem(w, t, u, balanceOf[w][u]) /\ balanceOf[w][u] <= totalSupply[w]
             ELSE \E t \in erc20Wrappers : CanUnwrap(w, t, u, balanceOf[w][u])
  <2> DEFINE all == balanceOf[w][u]
  <2>1. w \in Tokens /\ u \in Accounts /\ Converter \in Accounts /\ u # Converter
    BY WrapperTokens, AccountFacts
  <2>2. all + balanceOf[w][Converter] <= totalSupply[w]
    BY <2>1, TwoHolders DEF Redemption, SupplyHeld
  <2>3. all \in Nat /\ all > 0 /\ balanceOf[w][Converter] \in Nat /\ totalSupply[w] \in Nat
    BY <1>2, <1>6, <2>1
  <2>4. balanceOf[w][Converter] >= unburned[w]
    BY <1>1, <1>2, <1>3, <1>4, <2>1, <2>3
  <2>5. all + unburned[w] <= totalSupply[w] /\ all <= totalSupply[w] /\ totalSupply[w] # 0
    BY <1>1, <2>1, <2>2, <2>3, <2>4
  <2>6. CASE w \in Hooked
    <3>1. PICK t \in DOMAIN erc223Address : w = erc223Address[t]
      BY <2>6, AddressAssumption DEF Wrappers, Range
    <3>2. t \in erc223Wrappers /\ t \in Tokens
      BY <1>5, <2>5, <3>1, Addresses DEF UndeployedEmpty
    <3>3. erc20Supply[t] = totalSupply[w] - unburned[w]
      BY <1>4, <3>1, <3>2 DEF Supply223
    <3>4. all <= erc20Supply[t]
      BY <1>1, <2>1, <2>3, <2>5, <3>3
    <3>5. erc20Supply[t] <= balanceOf[t][Converter]
      BY <1>1, <1>2, <1>3, <1>4, <2>1, <3>2
    <3>6. all <= balanceOf[t][Converter]
      BY <1>2, <2>1, <2>3, <3>2, <3>4, <3>5
    <3>7. CanRedeem(w, t, u, all)
      BY <2>3, <3>1, <3>2, <3>4, <3>6 DEF CanRedeem, erc20Origins
    <3> QED
      BY <2>5, <2>6, <3>2, <3>7
  <2>7. CASE w \notin Hooked
    <3>1. PICK t \in DOMAIN erc20Address : w = erc20Address[t]
      BY <2>7, AddressAssumption DEF Wrappers, Range
    <3>2. t \in erc20Wrappers /\ t \in Tokens
      BY <1>5, <2>5, <3>1, Addresses DEF UndeployedEmpty
    <3>3. Supply20(t) = totalSupply[w]
      BY <3>1, <3>2 DEF Supply20
    <3>4. Supply20(t) <= balanceOf[t][Converter]
      BY <1>1, <1>2, <1>3, <1>4, <2>1, <3>2
    <3>5. all <= balanceOf[t][Converter]
      BY <1>2, <2>1, <2>3, <2>5, <3>2, <3>3, <3>4
    <3>6. CanUnwrap(w, t, u, all)
      BY <2>3, <2>5, <3>1, <3>2, <3>5 DEF CanUnwrap, erc223Origins
    <3> QED
      BY <2>7, <3>2, <3>6
  <2> QED
    BY <2>6, <2>7
<1>7. ASSUME burning # <<>> PROVE CanBurn(burning[Len(burning)])
  <2> DEFINE last == burning[Len(burning)]  w == last.token  n == Len(burning)
  <2>1. burning \in Seq(Frames) /\ n \in 1 .. n /\ n \in Nat
    BY <1>7 DEF ConverterTypeOK, Frames
  <2>2. last \in Frames
    BY <2>1
  <2>3. w \in Range(erc223Address) /\ w \in Tokens /\ last.amount \in Nat
    BY <2>2, Addresses DEF Frames
  <2> DEFINE f == BurnsOf(burning, w)  D == 1 .. n
  <2>4. f \in [D -> Nat] /\ f[n] = last.amount /\ unburned[w] = SumFunction(f)
    BY <2>1, <2>3, BurnsOfFacts DEF BurnsOf, Redemption, BurnsCounted
  <2>5. IsFiniteSet(D) /\ DOMAIN f = D /\ n \in D
    BY <2>1, <2>4, FS_Interval
  <2> HIDE DEF f, D, w, last, n
  <2>6. last.amount <= unburned[w]
    BY <2>4, <2>5, SumBounds DEF SumFunction
  <2>7. unburned[w] <= balanceOf[w][Converter]
    BY <1>1, <1>2, <1>3, <1>4, <2>3, AccountFacts
  <2>8. last.amount <= balanceOf[w][Converter]
    BY <1>1, <1>2, <2>3, <2>6, <2>7, AccountFacts
  <2>9. unburned[w] <= totalSupply[w]
    <3>1. PICK t \in DOMAIN erc223Address : w = erc223Address[t]
      BY <2>3 DEF Range
    <3>2. CASE t \in erc223Wrappers
      <4>1. erc20Supply[t] = totalSupply[w] - unburned[w] /\ erc20Supply[t] \in Nat
        BY <1>2, <1>4, <3>1, <3>2, Addresses DEF Supply223
      <4> QED
        BY <1>1, <1>2, <2>3, <4>1
    <3>3. CASE t \notin erc223Wrappers
      BY <1>5, <3>1, <3>3 DEF UndeployedEmpty
    <3> QED
      BY <3>2, <3>3
  <2>10. last.amount <= totalSupply[w]
    BY <1>1, <1>2, <2>3, <2>6, <2>9
  <2> QED
    BY <2>8, <2>10 DEF CanBurn, w, last, n
<1> QED
  BY <1>6, <1>7 DEF Redeemable


\* The receiver's storage and everything below it keep their types: no balance
\* and no credit goes below zero, whoever calls whom.
THEOREM PaymentsTypeCorrect == Spec => []TypeOK
<1>1. IPay => TypeOK
  BY DEF IPay
<1> QED
  BY <1>1, PayInit, PayStep, PTL DEF Spec

\* "credited never exceeds what is held", with any users, tokens and amounts,
\* through every interleaving with the converter and the router.
THEOREM CreditsAreBacked == Spec => []CreditBacked
<1>1. IPay => CreditBacked
  BY DEF IPay
<1> QED
  BY <1>1, PayInit, PayStep, PTL DEF Spec

\* The converter's reserves cover every wrapper with the router and the
\* receiver in the system too: what wrapAndSend deposits, mints, burns and pays
\* out is counted like any user's conversion, and nothing the receiver's owner
\* does reaches them, as long as only plain ERC-20 tokens are extracted.
THEOREM PaymentsKeepReserves == ASSUME PlainExtraction PROVE Spec => []ReservesCover
<1>1. Init => IPay /\ Reserves
  BY PayInit, ConverterInitReserves DEF Init
<1>2. IPay /\ Reserves /\ [Next]_vars => (IPay /\ Reserves)'
  BY PayStep, PayReserves
<1>3. IPay /\ Reserves => ReservesCover
  BY DEF Reserves
<1> QED
  BY <1>1, <1>2, <1>3, PTL DEF Spec

\* "ERC-223 tokens can be converted back to the ERC-20 origin anytime": no
\* subtraction fails when a holder of either wrapper redeems all of it, inside
\* nested payouts too, nor when a payout returns and its burn follows, in any
\* state that any users, tokens, amounts and depth lead to.
THEOREM HoldersRedeem == ASSUME PlainExtraction PROVE ConverterSpec => []Redeemable
<1>1. ConverterInit => IInv /\ SupplyHeld /\ BurnsCounted
  BY ConverterInitType, ConverterInitReserves, SupplyHeldInit, BurnsInit DEF IInv, Reserves
<1>2. IInv /\ SupplyHeld /\ BurnsCounted /\ [ConverterNext]_converterVars
        => (IInv /\ SupplyHeld /\ BurnsCounted)'
  <2> SUFFICES ASSUME IInv, SupplyHeld, BurnsCounted, [ConverterNext]_converterVars
               PROVE  (IInv /\ SupplyHeld /\ BurnsCounted)'
    OBVIOUS
  <2>1. IInv' /\ ConverterTypeOK /\ ConverterTypeOK'
    BY InvariantStep DEF IInv
  <2>2. CASE ConverterNext
    BY <2>1, <2>2, ConverterConserves, ConverterBurns, SupplyHeldStep
  <2>3. CASE UNCHANGED converterVars
    <3>1. Conserves /\ UNCHANGED callVars
      BY <2>3 DEF converterVars, Conserves
    <3> QED
      BY <2>1, <3>1, BurnsKept, SupplyHeldStep
  <2> QED
    BY <2>2, <2>3
<1>3. IInv /\ SupplyHeld /\ BurnsCounted => Redeemable
  BY RedemptionRedeems DEF IInv, Redemption, Reserves
<1> QED
  BY <1>1, <1>2, <1>3, PTL DEF ConverterSpec

\* The same with the router minting, burning and paying out, and with the
\* receiver and its owner in the system.
THEOREM PaymentsHoldersRedeem == ASSUME PlainExtraction PROVE Spec => []Redeemable
<1>1. Init => IPay /\ Redemption
  BY PayInit, ConverterInitReserves, SupplyHeldInit, BurnsInit DEF Init, Redemption
<1>2. IPay /\ Redemption /\ [Next]_vars => (IPay /\ Redemption)'
  <2> SUFFICES ASSUME IPay, Redemption, [Next]_vars PROVE (IPay /\ Redemption)'
    OBVIOUS
  <2>1. IPay' /\ ConverterTypeOK /\ ConverterTypeOK'
    BY PayStep DEF IPay, TypeOK
  <2>2. Reserves'
    BY PayReserves DEF Redemption
  <2>3. SupplyHeld'
    BY <2>1, PaymentsConserve, SupplyHeldStep DEF Redemption
  <2>4. BurnsCounted'
    BY PaymentsBurns DEF Redemption
  <2> QED
    BY <2>1, <2>2, <2>3, <2>4 DEF Redemption
<1>3. IPay /\ Redemption => Redeemable
  BY RedemptionRedeems DEF IPay, TypeOK
<1> QED
  BY <1>1, <1>2, <1>3, PTL DEF Spec

=============================================================================
