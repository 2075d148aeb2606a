----------------------------- MODULE TableView -----------------------------
(***************************************************************************)
(* The cards and chips as the scene shows them:                            *)
(* src/src/scene/table-view.ts.  A record of what is on the table; where   *)
(* things stand and labels are left out.                                                           *)
(***************************************************************************)
EXTENDS OwedSteps, Chips

\* `hands` are the seats whose avatar holds its own cards, `holding` those that have
\* any; `flights` the cards in the air, in the order they were thrown; `felt` the piles
\* of chips.
no_chips == [middle |-> pile(0), bets |-> [s \in Seats |-> pile(0)], stacks |-> [s \in Seats |-> pile(0)]]
EmptyView ==
    [street |-> "between", board |-> 0, mine |-> FALSE, faceUp |-> {}, winners |-> {},
     hands |-> {}, holding |-> {}, flights |-> <<>>, felt |-> no_chips]

\* A seat's cards go from the felt into its avatar's hands.
attachHoleCards(v, seat) == [v EXCEPT !.hands = @ \cup {seat}]

\* One card to each player in hand clockwise from the button, then a second round; a
\* seat without hands is left out.
deal(v, t) ==
    LET to == t.inHand \cap v.hands
        n == count_b(to)
        place(s) == count_b({k \in to : clockwise(t.dealer, k) < clockwise(t.dealer, s)})
        seat(i) == CHOOSE s \in to : place(s) = i
    IN [i \in 1..2 * n |-> <<seat((i - 1) % n), (i - 1) \div n>>]

\* The chips in the middle are the pot less the bets still out.
chips(t) ==
    [middle |-> pile(t.pot - sum_u(t.bets)),
     bets |-> [s \in Seats |-> pile(t.bets[s])], stacks |-> [s \in Seats |-> pile(t.stacks[s])]]

chips_counted(felt) ==
    worth(felt.middle) + sum_u([s \in Seats |-> worth(felt.bets[s]) + worth(felt.stacks[s])])

\* The cards are thrown when the table's street turns to preflop.
update_view(v, t) ==
    [v EXCEPT !.street = t.street, !.board = t.board, !.mine = t.mine /\ t.you \in t.inHand,
              !.faceUp = t.faceUp, !.winners = t.winners, !.holding = t.inHand, !.felt = chips(t),
              !.flights = IF t.street = "preflop" /\ v.street # "preflop" THEN deal(v, t) ELSE @]

\* A frame: the cards that have reached their player come to rest.
animate(v, landed) == [v EXCEPT !.flights = SubSeq(@, landed + 1, Len(@))]
==============================================================================
