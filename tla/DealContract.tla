---------------------------- MODULE DealContract ----------------------------
(***************************************************************************)
(* One table: the contract of src/contracts/deal.compact, called by anyone *)
(* in any order, against a block clock.  Each circuit is one action; a     *)
(* transaction is atomic, so the only interleaving is that of whole calls. *)
(***************************************************************************)
EXTENDS Settlement

\* The chain's clock moves on to a later instant of Times.
Tick ==
    /\ time' \in {t \in Times : t > time}
    /\ UNCHANGED <<escrow, seatVars, stack, rosterVars, stageVars, streetVars, potVars,
                   deckVars, shareVars, showVars, nextVars, release_street, bank, act_by,
                   offender>>

\* The sets of hole positions seat s may share in one transaction.
share_batches(s) ==
    LET others == 0..(2 * n_players - 1) \ own_positions(s)
    IN IF PartialShares THEN (SUBSET others) \ {{}} ELSE {others}

SeatCall(p) ==
    \/ \E buy \in Amounts : join(p, buy)
    \/ \E s \in Seats, up \in BOOLEAN : stand_up(p, s, up)
    \/ \E s \in Seats, a \in Amounts : buy_in(p, s, a)
    \/ \E s \in Seats : leave(p, s)

PrepCall(p) ==
    \/ \E s \in Seats, now \in Times : post_next_key(p, s, now)
    \/ \E s \in Seats, now \in Times : shuffle_next(p, s, now)

CardCall(p) ==
    \/ \E s \in Seats, now \in Times : post_key(p, s, now)
    \/ \E s \in Seats, now \in Times : shuffle(p, s, now)
    \/ \E s \in Seats, now \in Times : \E ps \in share_batches(s) : shares(p, s, ps, now)
    \/ \E s \in Seats, now \in Times : release(p, s, now)
    \/ \E s \in Seats, now \in Times : show(p, s, now)
    \/ \E s \in Seats, score \in Scores, now \in Times : show_hand(p, s, score, now)

\* A raise names its target; a fold, a check and a call state 0.
BetCall(p) ==
    \E s \in Seats, kind \in Kinds, now \in Times :
        \E t \in IF kind = 2 THEN Amounts ELSE {0} :
            act(p, s, kind, t, now) \/ act_out(p, s, kind, t, now)

\* Circuits that are anyone's to call.
TableCall ==
    \/ \E now \in Times : start_deal(now)
    \/ \E now \in Times : expire_next(now)
    \/ settle
    \/ expire
    \/ settle_abort

Call == TableCall \/ \E p \in Players : SeatCall(p) \/ PrepCall(p) \/ CardCall(p) \/ BetCall(p)

Next == Tick \/ Call

Spec == Init /\ [][Next]_vars

\* As long as some player owes a step of the deal, a bet included, or it can be
\* settled, the players' clients do not all stop.  Nobody is assumed to start a
\* deal, to come or go, or to move the clock.
PlayersRespond ==
    WF_vars((\E p \in Players : CardCall(p) \/ BetCall(p)) \/ settle \/ settle_abort)

==============================================================================
