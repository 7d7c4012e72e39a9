------------------------------ MODULE Payments ------------------------------
(***************************************************************************)
(* SafeSendRouter and PaymentReceiver (contracts/payments) on top of the   *)
(* converter: the router wraps a user's ERC-20 tokens and sends them on as *)
(* ERC-223 tokens; the receiver credits what arrives with a tokenReceived  *)
(* call and pays its owner's payout account.                               *)
(*                                                                         *)
(* wrapAndSend calls the receiver of the payment last, and the converter's *)
(* own transfers reach no foreign code on the way, so it is one step; its  *)
(* expectedOrigin is address(0) outside it.                                *)
(***************************************************************************)
EXTENDS TokenConverter

CONSTANTS
    Router,           \* the SafeSendRouter
    Receiver,         \* a PaymentReceiver
    Deployer,         \* owner and payout account at deployment
    NoOne,            \* address(0)
    OwnerCandidates,  \* accounts ownership is offered to
    PayoutChoices,    \* arguments of setPayout
    AcceptChoices     \* tokens setAcceptedToken is called for

ASSUME PaymentsAssumption ==
    /\ Router \in Others /\ Receiver \in Others /\ Router # Receiver
    /\ Others \cap Users = {} /\ Extractor \notin Others
    /\ Deployer \in Users /\ PayoutChoices \subseteq Users
    /\ OwnerCandidates \subseteq Users /\ AcceptChoices \subseteq Tokens

VARIABLES
    owner, pendingOwner, payout,
    credited,          \* token |-> credited balance
    acceptedToken,     \* the accepted tokens
    whitelistEnabled

receiverVars == <<owner, pendingOwner, payout, credited, acceptedToken, whitelistEnabled>>
vars == <<converterVars, receiverVars>>

-----------------------------------------------------------------------------
(* PaymentReceiver: payments in.                                           *)

\* tokenReceived of the receiver, called by t, of which it now holds `held`.
Credit(t, v, held) ==
    /\ whitelistEnabled => t \in acceptedToken
    /\ v > 0 /\ held >= credited[t] + v
    /\ credited' = [credited EXCEPT ![t] = @ + v]

\* A user pays: with a hooked transfer, or in a way that calls nobody.
pay(who, t, v) ==
    /\ t \in Hooked
    /\ transfer(t, who, Receiver, v)
    /\ Credit(t, v, balanceOf'[t][Receiver])
    /\ UNCHANGED <<owner, pendingOwner, payout, acceptedToken, whitelistEnabled>>

payUnannounced(who, t, v) ==
    /\ v > 0 /\ transfer(t, who, Receiver, v)
    /\ UNCHANGED receiverVars

-----------------------------------------------------------------------------
(* SafeSendRouter.                                                         *)

\* The tokens the router forwards go to a user or are credited.
Delivered(token223, to, v) ==
    IF to = Receiver
    THEN /\ Credit(token223, v, balanceOf'[token223][Receiver])
         /\ UNCHANGED <<owner, pendingOwner, payout, acceptedToken, whitelistEnabled>>
    ELSE UNCHANGED receiverVars

\* An ERC-20 wrapper is unwrapped into its ERC-223 origin.
SendOrigin(who, w, to, v) ==
    \E t \in erc20Wrappers :
      /\ erc223Origins(w, t)
      /\ v <= balanceOf[t][Converter] /\ v <= totalSupply[w]
      /\ balanceOf' = Move(Move(Burn(Move(balanceOf, w, who, Router, v), w, Router, v),
                                t, Converter, Router, v), t, Router, to, v)
      /\ totalSupply' = [totalSupply EXCEPT ![w] = @ - v]
      /\ UNCHANGED <<wrapperVars, erc20Supply, callVars>>
      /\ Delivered(t, to, v)

\* Any other ERC-20 is wrapped.
SendWrapped(who, t, to, v) ==
    LET w == erc223Address[t]
    IN  /\ ~\E o \in erc20Wrappers : erc223Origins(t, o)
        /\ CanHaveErc223(t)
        /\ erc223Wrappers' = erc223Wrappers \cup {t}
        /\ erc20Supply' = [erc20Supply EXCEPT ![t] = @ + v]
        /\ balanceOf' = Move(Mint(Move(Move(balanceOf, t, who, Router, v), t, Router, Converter, v),
                                  w, Router, v), w, Router, to, v)
        /\ totalSupply' = [totalSupply EXCEPT ![w] = @ + v]
        /\ UNCHANGED <<erc20Wrappers, callVars>>
        /\ Delivered(w, to, v)

wrapAndSend(who, t, to, v) ==
    /\ v > 0 /\ v <= balanceOf[t][who]
    /\ SendOrigin(who, t, to, v) \/ SendWrapped(who, t, to, v)

-----------------------------------------------------------------------------
(* PaymentReceiver: its owner.                                             *)

\* mutant: only the whole balance bounds a rescue
RescueAnything(who, t, to, v) ==
    /\ who = owner /\ v > 0
    /\ transfer(t, Receiver, to, v)
    /\ UNCHANGED receiverVars

rescue(who, t, to, v) ==
    /\ who = owner /\ v > 0
    /\ credited[t] + v <= balanceOf[t][Receiver]
    /\ transfer(t, Receiver, to, v)
    /\ UNCHANGED receiverVars

\* The credit is reduced before the payout account is called.
withdraw(who, t, v) ==
    /\ who = owner /\ v > 0 /\ v <= credited[t]
    /\ credited' = [credited EXCEPT ![t] = @ - v]
    /\ transfer(t, Receiver, payout, v)
    /\ UNCHANGED <<owner, pendingOwner, payout, acceptedToken, whitelistEnabled>>

withdrawAll(who, t) ==
    /\ who = owner /\ credited[t] > 0
    /\ credited' = [credited EXCEPT ![t] = 0]
    /\ transfer(t, Receiver, payout, credited[t])
    /\ UNCHANGED <<owner, pendingOwner, payout, acceptedToken, whitelistEnabled>>

transferOwnership(who, newOwner) ==
    /\ who = owner
    /\ pendingOwner' = newOwner
    /\ UNCHANGED <<converterVars, owner, payout, credited, acceptedToken, whitelistEnabled>>

acceptOwnership(who) ==
    /\ who = pendingOwner
    /\ owner' = who /\ pendingOwner' = NoOne
    /\ UNCHANGED <<converterVars, payout, credited, acceptedToken, whitelistEnabled>>

setPayout(who, account) ==
    /\ who = owner
    /\ payout' = account
    /\ UNCHANGED <<converterVars, owner, pendingOwner, credited, acceptedToken, whitelistEnabled>>

setWhitelistEnabled(who, enabled) ==
    /\ who = owner
    /\ whitelistEnabled' = enabled
    /\ UNCHANGED <<converterVars, owner, pendingOwner, payout, credited, acceptedToken>>

setAcceptedToken(who, t, accepted) ==
    /\ who = owner
    /\ acceptedToken' = IF accepted THEN acceptedToken \cup {t} ELSE acceptedToken \ {t}
    /\ UNCHANGED <<converterVars, owner, pendingOwner, payout, credited, whitelistEnabled>>

-----------------------------------------------------------------------------

Init ==
    /\ ConverterInit
    /\ owner = Deployer /\ pendingOwner = NoOne /\ payout = Deployer
    /\ credited = [t \in Tokens |-> 0]
    /\ acceptedToken = {} /\ whitelistEnabled = FALSE

OwnerStep(who) ==
    \/ \E newOwner \in OwnerCandidates : transferOwnership(who, newOwner)
    \/ acceptOwnership(who)
    \/ \E account \in PayoutChoices : setPayout(who, account)
    \/ \E enabled \in BOOLEAN : setWhitelistEnabled(who, enabled)
    \/ \E t \in AcceptChoices, accepted \in BOOLEAN : setAcceptedToken(who, t, accepted)

Next ==
    \/ ConverterNext /\ UNCHANGED receiverVars
    \/ \E who \in Users :
         \/ OwnerStep(who)
         \/ \E t \in Tokens :
              \/ withdrawAll(who, t)
              \/ \E v \in Amounts :
                   \/ pay(who, t, v)
                   \/ payUnannounced(who, t, v)
                   \/ withdraw(who, t, v)
                   \/ \E to \in Users : rescue(who, t, to, v)
                   \/ \E to \in Users \cup {Receiver} : wrapAndSend(who, t, to, v)

Spec == Init /\ [][Next]_vars

-----------------------------------------------------------------------------
(* Properties.                                                             *)

\* Types of the receiver's storage and of all below it.
TypeOK ==
    /\ ConverterTypeOK
    /\ owner \in Users /\ pendingOwner \in Users \cup {NoOne} /\ payout \in Users
    /\ credited \in [Tokens -> Nat]
    /\ acceptedToken \subseteq Tokens /\ whitelistEnabled \in BOOLEAN

\* "credited never exceeds what is held": payments, payments through the
\* router, payouts and rescues of what was never credited all draw on one
\* balance per token.
CreditBacked == \A t \in Tokens : credited[t] <= balanceOf[t][Receiver]

=============================================================================
