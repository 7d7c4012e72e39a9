--------------------------- MODULE TokenConverter ---------------------------
(***************************************************************************)
(* TokenStandardConverter (contracts/converter/TokenConverter.sol): every  *)
(* ERC-20 token has an ERC-223 wrapper and every ERC-223 token an ERC-20   *)
(* wrapper, minted against deposits of the origin and burned for them.     *)
(*                                                                         *)
(* One action per external function.  Unwrapping pays the origin out       *)
(* before it burns the wrapper: if the origin is an ERC-223 token too, its *)
(* receiver runs in between, and the burn is an action of its own.  Every  *)
(* function can be entered then, for none is guarded.  Tokens move exact   *)
(* amounts; allowances are taken as given.                                 *)
(***************************************************************************)
EXTENDS Integers, Sequences, FiniteSets, Functions

CONSTANTS
    Users,
    Converter,         \* address(this)
    Extractor,         \* the account extractStuckERC20 is reserved to
    Others,            \* accounts of other contracts
    Tokens,            \* origins and wrappers, deployed or not
    Hooked,            \* the tokens whose transfer calls a contract recipient
    erc223Address,     \* token |-> where its ERC-223 wrapper is deployed
    erc20Address,      \* token |-> where its ERC-20 wrapper is deployed
    InitialBalances,   \* token |-> user |-> what the user starts with
    Amounts,
    StuckTokens,       \* the tokens extractStuckERC20 is called for
    MaxDepth           \* bound: calls of tokenReceived in one another

Accounts == Users \cup Others \cup {Converter, Extractor}
Wrappers == Range(erc223Address) \cup Range(erc20Address)

\* A wrapper is deployed with CREATE2, at an address its token determines.
ASSUME AddressAssumption ==
    /\ DOMAIN erc223Address \subseteq Tokens /\ DOMAIN erc20Address \subseteq Tokens
    /\ erc223Address \in [DOMAIN erc223Address -> Hooked]
    /\ erc20Address \in [DOMAIN erc20Address -> Tokens \ Hooked]
    /\ IsInjective(erc223Address) /\ IsInjective(erc20Address)
    /\ \A t \in DOMAIN erc223Address : erc223Address[t] # t
    /\ \A t \in DOMAIN erc20Address : erc20Address[t] # t
    /\ Hooked \subseteq Tokens
ASSUME AccountAssumption ==
    /\ Converter \notin Users \cup Others /\ Extractor # Converter /\ IsFiniteSet(Accounts)
    /\ InitialBalances \in [Tokens -> [Users -> Nat]]
    /\ \A w \in Wrappers, u \in Users : InitialBalances[w][u] = 0
    /\ Amounts \subseteq Nat /\ MaxDepth \in Nat /\ StuckTokens \subseteq Tokens

VARIABLES
    balanceOf,        \* token |-> account |-> balance
    totalSupply,      \* token |-> supply, of the wrappers
    erc223Wrappers,   \* the tokens that have an ERC-223 wrapper
    erc20Wrappers,    \* the tokens that have an ERC-20 wrapper
    erc20Supply,      \* token |-> deposits of it behind its ERC-223 wrapper
    burning,          \* the burns the calls in progress have still to make
    unburned          \* token |-> what they burn of it together

wrapperVars == <<erc223Wrappers, erc20Wrappers>>
callVars == <<burning, unburned>>
converterVars == <<balanceOf, totalSupply, wrapperVars, erc20Supply, callVars>>

-----------------------------------------------------------------------------
(* Balances of one token.                                                  *)

Move(bal, t, from, to, v) == [bal EXCEPT ![t][from] = @ - v, ![t][to] = @ + v]
MintTwice(bal, t, to, v) == [bal EXCEPT ![t][to] = @ + v + v]   \* mutant
Mint(bal, t, to, v) == [bal EXCEPT ![t][to] = @ + v]
Burn(bal, t, from, v) == [bal EXCEPT ![t][from] = @ - v]

-----------------------------------------------------------------------------
(* Wrappers.                                                               *)

\* getERC20OriginFor, getERC223OriginFor: w is the deployed wrapper of t.
erc20Origins(w, t) == t \in erc223Wrappers /\ erc223Address[t] = w
erc223Origins(w, t) == t \in erc20Wrappers /\ erc20Address[t] = w

isWrapper(t) == \E o \in Tokens : erc20Origins(t, o) \/ erc223Origins(t, o)

\* A token has its wrapper, or gets one now; a wrapper gets none.
CanHaveErc223(t) == t \in erc223Wrappers \/ (t \in DOMAIN erc223Address /\ ~isWrapper(t))
CanHaveErc20(t) == t \in erc20Wrappers \/ (t \in DOMAIN erc20Address /\ ~isWrapper(t))

createERC223Wrapper(t) ==
    /\ t \notin erc223Wrappers /\ CanHaveErc223(t)
    /\ erc223Wrappers' = erc223Wrappers \cup {t}
    /\ UNCHANGED <<balanceOf, totalSupply, erc20Wrappers, erc20Supply, callVars>>

createERC20Wrapper(t) ==
    /\ t \notin erc20Wrappers /\ CanHaveErc20(t)
    /\ erc20Wrappers' = erc20Wrappers \cup {t}
    /\ UNCHANGED <<balanceOf, totalSupply, erc223Wrappers, erc20Supply, callVars>>

-----------------------------------------------------------------------------
(* Tokens that reach the converter without being announced, and transfers  *)
(* between accounts that react to them in no way that matters here.        *)

transfer(t, from, to, v) ==
    /\ v <= balanceOf[t][from]
    /\ balanceOf' = Move(balanceOf, t, from, to, v)
    /\ UNCHANGED <<totalSupply, wrapperVars, erc20Supply, callVars>>

-----------------------------------------------------------------------------
(* ERC-20 origin, ERC-223 wrapper.                                         *)

wrapERC20toERC223(who, t, v) ==
    /\ CanHaveErc223(t)
    /\ v <= balanceOf[t][who]
    /\ erc223Wrappers' = erc223Wrappers \cup {t}
    /\ erc20Supply' = [erc20Supply EXCEPT ![t] = @ + v]
    /\ balanceOf' = Mint(Move(balanceOf, t, who, Converter, v), erc223Address[t], who, v)
    /\ totalSupply' = [totalSupply EXCEPT ![erc223Address[t]] = @ + v]
    /\ UNCHANGED <<erc20Wrappers, callVars>>

\* The origin t of w, deposited by `from`, is paid out; w is still there.
PaidOut(w, t, from, v) ==
    Move(Move(balanceOf, w, from, Converter, v), t, Converter, from, v)

\* What is subtracted when v of w, the wrapper of t, is redeemed.
CanRedeem(w, t, from, v) ==
    /\ erc20Origins(w, t) /\ v <= balanceOf[w][from]
    /\ v <= erc20Supply[t] /\ v <= balanceOf[t][Converter]

\* mutant: the deposits are not reduced
KeepSupply(w, t, from, v) ==
    CanRedeem(w, t, from, v) /\ UNCHANGED <<erc20Supply, wrapperVars>>

Redeem(w, t, from, v) ==
    /\ CanRedeem(w, t, from, v)
    /\ erc20Supply' = [erc20Supply EXCEPT ![t] = @ - v]
    /\ UNCHANGED wrapperVars

\* tokenReceived of an ERC-223 wrapper whose origin calls nobody.
UnwrapPlain(w, from, v) ==
    \E t \in Tokens \ Hooked :
      /\ Redeem(w, t, from, v)
      /\ v <= totalSupply[w]
      /\ balanceOf' = Burn(PaidOut(w, t, from, v), w, Converter, v)
      /\ totalSupply' = [totalSupply EXCEPT ![w] = @ - v]
      /\ UNCHANGED callVars

\* tokenReceived of an ERC-223 wrapper whose origin calls its receiver.
UnwrapHooked(w, from, v) ==
    \E t \in Hooked :
      /\ Len(burning) < MaxDepth
      /\ Redeem(w, t, from, v)
      /\ balanceOf' = PaidOut(w, t, from, v)
      /\ burning' = Append(burning, [token |-> w, amount |-> v])
      /\ unburned' = [unburned EXCEPT ![w] = @ + v]
      /\ UNCHANGED totalSupply

CanBurn(last) ==
    /\ last.amount <= balanceOf[last.token][Converter]
    /\ last.amount <= totalSupply[last.token]

\* The payout's receiver has returned.
burn ==
    LET last == burning[Len(burning)]
    IN  /\ burning # <<>> /\ CanBurn(last)
        /\ balanceOf' = Burn(balanceOf, last.token, Converter, last.amount)
        /\ totalSupply' = [totalSupply EXCEPT ![last.token] = @ - last.amount]
        /\ burning' = SubSeq(burning, 1, Len(burning) - 1)
        /\ unburned' = [unburned EXCEPT ![last.token] = @ - last.amount]
        /\ UNCHANGED <<wrapperVars, erc20Supply>>

-----------------------------------------------------------------------------
(* ERC-223 origin, ERC-20 wrapper.                                         *)

\* tokenReceived of any other ERC-223 token.
Wrap223(t, from, v) ==
    /\ \A o \in Tokens : ~erc20Origins(t, o)
    /\ CanHaveErc20(t)
    /\ v <= balanceOf[t][from]
    /\ erc20Wrappers' = erc20Wrappers \cup {t}
    /\ balanceOf' = Mint(Move(balanceOf, t, from, Converter, v), erc20Address[t], from, v)
    /\ totalSupply' = [totalSupply EXCEPT ![erc20Address[t]] = @ + v]
    /\ UNCHANGED <<erc223Wrappers, erc20Supply, callVars>>

tokenReceived(t, from, v) ==
    t \in Hooked /\ (UnwrapPlain(t, from, v) \/ UnwrapHooked(t, from, v) \/ Wrap223(t, from, v))

CanUnwrap(w, t, who, v) ==
    /\ erc223Origins(w, t)
    /\ v <= balanceOf[w][who] /\ v <= balanceOf[t][Converter] /\ v <= totalSupply[w]

\* The wrapper is burned before the origin is paid out.
unwrapERC20toERC223(who, w, v) ==
    \E t \in erc20Wrappers :
      /\ CanUnwrap(w, t, who, v)
      /\ balanceOf' = Move(Burn(balanceOf, w, who, v), t, Converter, who, v)
      /\ totalSupply' = [totalSupply EXCEPT ![w] = @ - v]
      /\ UNCHANGED <<wrapperVars, erc20Supply, callVars>>

convertERC20(who, t, v) ==
    \/ isWrapper(t) /\ unwrapERC20toERC223(who, t, v)
    \/ ~isWrapper(t) /\ wrapERC20toERC223(who, t, v)

\* Called by an account without code, so never inside another call.
extractStuckERC20(t) ==
    /\ burning = <<>>
    /\ balanceOf[t][Converter] > erc20Supply[t]
    /\ balanceOf' = Move(balanceOf, t, Converter, Extractor,
                         balanceOf[t][Converter] - erc20Supply[t])
    /\ UNCHANGED <<totalSupply, wrapperVars, erc20Supply, callVars>>

-----------------------------------------------------------------------------

ConverterInit ==
    /\ balanceOf = [t \in Tokens |-> [a \in Accounts |->
                      IF a \in Users THEN InitialBalances[t][a] ELSE 0]]
    /\ totalSupply = [t \in Tokens |-> 0]
    /\ erc223Wrappers = {} /\ erc20Wrappers = {}
    /\ erc20Supply = [t \in Tokens |-> 0]
    /\ burning = <<>> /\ unburned = [t \in Tokens |-> 0]

ConverterNext ==
    \/ \E t \in Tokens : createERC223Wrapper(t) \/ createERC20Wrapper(t)
    \/ \E who \in Users, t \in Tokens, v \in Amounts :
         \/ \E to \in Users \cup {Converter} : transfer(t, who, to, v)
         \/ tokenReceived(t, who, v)
         \/ wrapERC20toERC223(who, t, v)
         \/ unwrapERC20toERC223(who, t, v)
         \/ convertERC20(who, t, v)
    \/ burn
    \/ \E t \in StuckTokens : extractStuckERC20(t)

ConverterSpec == ConverterInit /\ [][ConverterNext]_converterVars

-----------------------------------------------------------------------------
(* Properties.                                                             *)

\* Types of the storage of the converter and its tokens.
ConverterTypeOK ==
    /\ balanceOf \in [Tokens -> [Accounts -> Nat]]
    /\ totalSupply \in [Tokens -> Nat] /\ erc20Supply \in [Tokens -> Nat]
    /\ erc223Wrappers \subseteq DOMAIN erc223Address
    /\ erc20Wrappers \subseteq DOMAIN erc20Address
    /\ burning \in Seq([token : Range(erc223Address), amount : Nat])
    /\ unburned \in [Tokens -> Int]

\* The supply of the wrappers of t that is not about to be burned.
Supply223(t) ==
    IF t \in erc223Wrappers
    THEN totalSupply[erc223Address[t]] - unburned[erc223Address[t]] ELSE 0
Supply20(t) == IF t \in erc20Wrappers THEN totalSupply[erc20Address[t]] ELSE 0

\* Both wrappers of a token, and the burns still to be made of it, are backed
\* by what the converter holds of it; erc20Supply counts what is behind its
\* ERC-223 wrapper.  This holds inside every payout, however deep, and with
\* wrappers that were deployed for what later became a wrapper itself.
ReservesCover ==
    \A t \in Tokens :
      /\ erc20Supply[t] = Supply223(t)
      /\ balanceOf[t][Converter] >= erc20Supply[t] + Supply20(t) + unburned[t]

\* "ERC-223 tokens can be converted back to the ERC-20 origin anytime", and
\* the ERC-20 wrappers to theirs: redeeming all that a user holds of a wrapper
\* subtracts nowhere more than there is, inside the calls of others too, and
\* neither does the burn that a payout in progress leaves to its end.
Redeemable ==
    /\ \A w \in Wrappers, u \in Users :
         LET all == balanceOf[w][u] IN
         all > 0 =>
           IF w \in Hooked
           THEN \E t \in Tokens : CanRedeem(w, t, u, all) /\ all <= totalSupply[w]
           ELSE \E t \in erc20Wrappers : CanUnwrap(w, t, u, all)
    /\ burning # <<>> => CanBurn(burning[Len(burning)])

\* "no stuck tokens to extract": extraction takes what no wrapper stands for.
OnlyStuckExtracted ==
    [][\A t \in Tokens : balanceOf'[t][Extractor] > balanceOf[t][Extractor] =>
         balanceOf'[t][Converter] >= Supply223(t) + Supply20(t)
      ]_converterVars

=============================================================================
