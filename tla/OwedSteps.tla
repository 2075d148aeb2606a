----------------------------- MODULE OwedSteps -----------------------------
(***************************************************************************)
(* What a client reads off a ledger: src/src/referee/rules.ts, with the    *)
(* card reading of src/contracts/client.ts it rests on.  Pure operators of *)
(* a ledger `l`, a record with the fields of DealLedger; the Practice and  *)
(* the Live referee both act on what these say.                            *)
(***************************************************************************)
EXTENDS SeatVectors, Sequences, FiniteSets

\* No legal actions: it is not this seat's turn.
NoLegal == [check |-> FALSE, call |-> 0, raise |-> <<>>]

\* Seats with a player in them.
occupied_in(l) == {s \in Seats : l.seat_owner[s] # l.nobody}

\* The seat of player p, NONE when they have none.
seatOf(l, p) == first_in({s \in Seats : l.seat_owner[s] = p})

live_in(l) == l.in_deal \ l.folded

------------------------------------------------------------------------------
(* Reading cards: a card opens once every share it takes is posted, the     *)
(* reader's own deck key standing for their share (the key they posted:     *)
(* LiveReferee and PracticeReferee say when they still hold it).            *)

openCard(l, pos, own) == \A j \in l.in_deal \ own : <<pos, j>> \in l.shares_posted

\* The two hole positions of a seat, by dealing order.
hole_positions(l, seat) == {2 * order_of(l.in_deal, seat), 2 * order_of(l.in_deal, seat) + 1}

holeCards(l, seat) == \A pos \in hole_positions(l, seat) : openCard(l, pos, {seat})

\* Another seat's cards, readable by anyone once that seat has shown them.
shownCards(l, seat) == \A pos \in hole_positions(l, seat) : openCard(l, pos, {})

------------------------------------------------------------------------------
(* What a seat may do. *)

\* Mutant: a seat that has acted may raise again.
legal_reraise(l, seat) ==
    LET to_call == l.current_bet - l.bet[seat]
        max == l.bet[seat] + l.stack[seat]
        min == min_u(max, IF l.current_bet = 0 THEN l.big_blind ELSE l.current_bet + l.min_raise)
        may_raise == l.stack[seat] > to_call /\ count_b(live_in(l) \ l.all_in) > 1
    IN IF l.phase # "playing" \/ l.to_act # seat THEN NoLegal
       ELSE [check |-> to_call = 0, call |-> min_u(to_call, l.stack[seat]),
             raise |-> IF may_raise THEN <<min, max>> ELSE <<>>]

\* The contract's betting rules for a seat: <<min, max>> of a raise, or <<>>.
legal(l, seat) ==
    LET to_call == l.current_bet - l.bet[seat]
        max == l.bet[seat] + l.stack[seat]
        min == min_u(max, IF l.current_bet = 0 THEN l.big_blind ELSE l.current_bet + l.min_raise)
        may_raise == /\ l.stack[seat] > to_call
                     /\ count_b(live_in(l) \ l.all_in) > 1
                     /\ seat \notin l.acted
    IN IF l.phase # "playing" \/ l.to_act # seat THEN NoLegal
       ELSE [check |-> to_call = 0, call |-> min_u(to_call, l.stack[seat]),
             raise |-> IF may_raise THEN <<min, max>> ELSE <<>>]

\* Once the deal is over, a player dealt in may open their cards, once.
canShow(l, seat) ==
    /\ l.phase \in {"showdown", "done", "aborted"}
    /\ seat \in l.in_deal
    /\ ~shownCards(l, seat)

\* A betting action as the circuit it is: leaving chips behind or not.
actionStep(l, seat, type, to) ==
    CASE type = "fold"  -> [circuit |-> "act_out", kind |-> 0, to |-> 0]
      [] type = "check" -> [circuit |-> "act", kind |-> 0, to |-> 0]
      [] type = "call"  -> [circuit |-> IF legal(l, seat).call >= l.stack[seat] THEN "act_out" ELSE "act",
                            kind |-> 1, to |-> 0]
      [] OTHER -> [circuit |-> IF to - l.bet[seat] >= l.stack[seat] THEN "act_out" ELSE "act",
                   kind |-> 2, to |-> to]

\* What the rail's buttons can ask for, given what it shows as legal.
rail_actions(g) ==
    {<<"fold", 0>>}
    \cup {<<IF g.check THEN "check" ELSE "call", 0>>}
    \cup (IF g.raise = <<>> THEN {} ELSE {<<"raise", t>> : t \in g.raise[1]..g.raise[2]})

------------------------------------------------------------------------------
(* The steps a seat owes, none of them a decision. *)

\* The hole positions of the other players dealt in.
other_positions(l, seat) == UNION {hole_positions(l, i) : i \in l.in_deal \ {seat}}

\* Mutant: the street being bet, not the one that opens.
owes_release_of_street(l, seat) == l.board_shares[seat] < board_len(l.street)

\* Seat's shares of the board cards the release opens.
owes_release(l, seat) == l.board_shares[seat] < board_len(l.release_street)

deal_step(l, seat) ==
    CASE l.phase = "keys" /\ seat \in l.in_deal /\ l.keys[seat] = l.nobody -> <<"post_key">>
      [] l.phase = "shuffle" /\ l.turn = seat -> <<"shuffle">>
      [] l.phase = "holes" /\ seat \in l.in_deal
         /\ l.hole_shares[seat] < 2 * count_b(l.in_deal) - 2 -> <<"shares">>
      [] l.phase = "release" /\ seat \in live_in(l) /\ owes_release(l, seat) -> <<"release">>
      [] l.phase = "tabling" /\ seat \in live_in(l) /\ ~shownCards(l, seat) -> <<"show">>
      [] l.phase = "showdown" /\ seat \in live_in(l) /\ l.scores[seat] = 0 -> <<"show_hand">>
      [] l.phase = "showdown" /\ seat = first_in(live_in(l))
         /\ \A i \in live_in(l) : l.scores[i] # 0 -> <<"settle">>
      [] l.phase = "aborted" /\ seat = first_in(occupied_in(l)) -> <<"settle_abort">>
      [] OTHER -> <<>>

\* Mutant: a newcomer thinks the next deck is theirs too.
owes_next_key_seated(l, seat) == l.next_prep = "keys" /\ l.next_keys[seat] = l.nobody

owes_next_key(l, seat) ==
    l.next_prep = "keys" /\ seat \in l.next_in_deal /\ l.next_keys[seat] = l.nobody

\* The next deck, prepared alongside the deal once it is under way.
prep_step(l, seat) ==
    IF l.phase \in {"idle", "keys", "shuffle", "holes"} THEN <<>>
    ELSE IF owes_next_key(l, seat) THEN <<"post_next_key">>
    ELSE IF l.next_prep = "shuffle" /\ l.next_turn = seat THEN <<"shuffle_next">>
    ELSE <<>>

\* In this order; a client sends the first.
owed(l, seat) == deal_step(l, seat) \o prep_step(l, seat)

------------------------------------------------------------------------------
(* The table as the scene sees it. *)

\* The seconds a transaction is given to land: a player must have acted this much
\* before the contract's deadline.
ACTION_SLACK == 60

\* Mutant: the contract's own deadline.
act_before_of_contract(l) == IF l.phase = "playing" THEN l.deadline ELSE 0

\* When the seat to act must have acted; 0 when nobody is on the clock.
act_before(l) ==
    IF l.phase = "playing" /\ l.deadline # 0 THEN l.deadline - ACTION_SLACK ELSE 0

\* What a seat was paid in the deal, given the stacks before it; and who won.
payout(l, stack_before, s) == l.stack[s] - stack_before[s] + l.total[s]
outcome(l, stack_before) ==
    IF l.offender # NONE THEN {} ELSE {s \in Seats : payout(l, stack_before, s) > 0}

streets == <<"preflop", "flop", "turn", "river">>

\* Before anything has happened: the seats are known, nothing else.
emptyTable(you) ==
    [you |-> you, winners |-> {}, legal |-> NoLegal, canShow |-> FALSE, deadline |-> 0,
     timeBank |-> 0, toAct |-> NONE, dealer |-> NONE, street |-> "between", mine |-> FALSE,
     faceUp |-> {}, inHand |-> {}, stacks |-> zeros, bets |-> zeros, pot |-> 0, board |-> 0]

\* Cards are opened while a deal is bet on.
betting(l) == l.phase \in {"playing", "release", "tabling", "showdown"}

\* Mutant: a finished deal does not stay on the table.
opened_betting(l) == betting(l)

\* A finished deal's stay open until the next one starts.
opened(l) == betting(l) \/ l.phase = "done"

\* What the scene may know of the table, for the player at seat `you`: whose hole cards
\* it can read, how many board cards, who holds cards at all, and who won.
tableFrom(l, you, won) ==
    LET shown == {i \in l.in_deal : (opened(l) \/ l.phase = "aborted") /\ shownCards(l, i)}
        board == 2 * l.n_players..2 * l.n_players + board_len(l.street) - 1
    IN [you |-> you,
        winners |-> won,
        legal |-> legal(l, you),
        canShow |-> canShow(l, you),
        deadline |-> act_before(l),
        timeBank |-> l.bank[you],
        toAct |-> IF l.phase = "playing" THEN l.to_act ELSE NONE,
        dealer |-> l.dealer,
        street |-> CASE l.phase = "showdown" -> "showdown"
                     [] l.phase \in {"playing", "release", "tabling"} -> streets[l.street + 1]
                     [] OTHER -> "between",
        mine |-> opened(l) /\ you \in l.in_deal /\ holeCards(l, you),
        faceUp |-> shown \ {you},
        inHand |-> IF l.phase = "idle" THEN {} ELSE live_in(l) \cup shown,
        stacks |-> l.stack,
        bets |-> IF l.phase = "idle" THEN zeros ELSE l.bet,
        pot |-> sum_u(l.total),
        board |-> IF opened(l) /\ \A pos \in board : openCard(l, pos, {})
                  THEN board_len(l.street) ELSE 0]
==============================================================================
