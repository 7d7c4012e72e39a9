--------------------------- MODULE RevenueV2Notice ---------------------------
(***************************************************************************)
(* RevenueV2 with a history variable: what lock the contract made public   *)
(* at the end of each second, in force or scheduled.                       *)
(***************************************************************************)
EXTENDS RevenueV2

VARIABLE announced   \* second |-> longest lock public when it ended

PublicDelay ==
    IF pending_claim_delay_effective # 0 /\ pending_claim_delay > claim_delay
    THEN pending_claim_delay ELSE claim_delay

NoticeInit == Init /\ announced = [s \in 0 .. MaxTime |-> 0]

NoticeNext ==
    /\ Next
    /\ announced' = IF now' # now THEN [announced EXCEPT ![now] = PublicDelay]
                                  ELSE announced

NoticeSpec == NoticeInit /\ [][NoticeNext]_<<vars, announced>>

\* "An increase of the lock only applies this long after it is announced, so
\* the owner cannot raise it in front of someone's stake": whenever a stake
\* sets an unlock time, a lock at least that long had been public at the end
\* of every second of the notice period before it, whatever schedule of
\* increases, decreases and replacements came in between.
LockWasAnnounced ==
    [][\A u \in Users : unlock_time'[u] # unlock_time[u] =>
         \A s \in 0 .. now - 1 : s >= now - CLAIM_DELAY_NOTICE =>
           unlock_time'[u] <= now + announced[s]
      ]_<<vars, announced>>

=============================================================================
