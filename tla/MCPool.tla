------------------------------- MODULE MCPool -------------------------------
(***************************************************************************)
(* One pool with a wide and a narrow position of two owners.  A price is    *)
(* doubled by a tick, so that a few units of a token cross several.         *)
(***************************************************************************)
EXTENDS Pool

CONSTANTS ann, ben

LowestTick == -2

Doubling == [t \in Ticks |-> CASE t = -2 -> 2 [] t = -1 -> 4 [] t = 0 -> 8
                               [] t = 1 -> 16 [] t = 2 -> 32]

WideAndNarrow == {[owner |-> ann, lower |-> -1, upper |-> 1],
                  [owner |-> ben, lower |-> 0, upper |-> 1]}

\* Down across two ticks, up across two, and one unit of output down to a limit.
FewSwaps ==
    {[zeroForOne |-> TRUE,  amount |-> 40, limit |-> 3,  ver |-> "erc20",  min |-> 0],
     [zeroForOne |-> FALSE, amount |-> 25, limit |-> 31, ver |-> "erc223", min |-> 1],
     [zeroForOne |-> TRUE,  amount |-> -1, limit |-> 5,  ver |-> "erc20",  min |-> 0]}
=============================================================================
