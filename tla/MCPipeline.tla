----------------------------- MODULE MCPipeline -----------------------------
(***************************************************************************)
(* Two instances of the table in one run, told apart by the clock they     *)
(* live in.  At the coarse instants, two deals and the decks prepared for  *)
(* the deals after them, with a newcomer, players leaving and steps missed;*)
(* deals are kept short, the player to act folds.  At the fine ones, the   *)
(* single heads-up deal of MCClock.                                        *)
(***************************************************************************)
EXTENDS MCClock

CONSTANTS
    cho,
    CoarseTimes     \* the rest of Times is fine

ASSUME CoarseTimesAssumption == CoarseTimes \subseteq Times

PipelineInit == SeatedInit(<<ann, bob>>, <<MAX_BUY_IN, MAX_BUY_IN>>) /\ time \in CoarseTimes

\* The card steps up to the first bet, all shares in one transaction.
ToTheFirstBet(p) ==
    \E s \in Seats, now \in Times :
        \/ post_key(p, s, now)
        \/ shuffle(p, s, now)
        \/ shares(p, s, 0..(2 * n_players - 1) \ own_positions(s), now)

Fold(p) == \E s \in Seats, now \in Times : act_out(p, s, 0, 0, now)

\* cho is the one newcomer, at any time; nobody who left comes back.
Newcomer == join(cho, MAX_BUY_IN)
Leave(p) == \E s \in Seats : leave(p, s)

PipelineNext ==
    \/ Tick \/ TableCall \/ Newcomer
    \/ \E p \in Players : PrepCall(p) \/ ToTheFirstBet(p) \/ Fold(p) \/ Leave(p)

PipelineSpec == PipelineInit /\ [][PipelineNext]_vars

\* The fine clock's one deal.
OneDeal == (Tick /\ time' \notin CoarseTimes) \/ (DealCall /\ deal_no' <= 1)

TableInit == PipelineInit \/ (ClockInit /\ time \notin CoarseTimes)
TableNext ==
    \/ time \in CoarseTimes /\ PipelineNext
    \/ time \notin CoarseTimes /\ OneDeal

TableSpec == TableInit /\ [][TableNext]_vars
==============================================================================
