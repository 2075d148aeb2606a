------------------------------- MODULE MCHands -------------------------------
(***************************************************************************)
(* Three small machines that share nothing, checked in one run; `part` is  *)
(* the one that moves, the others rest where they start.  Hands:           *)
(* every pattern of five cards over a few values, named in every order: a  *)
(* player's witness may name their best five in any.  Suits matter only as *)
(* being all the same or not, so one choice of each kind stands for all.   *)
(* The band: two pages come into the room over two hours' changes.  The    *)
(* gate: the three deals of the proof gate.                                *)
(***************************************************************************)
EXTENDS HandRank, Lounge, Harness
LOCAL INSTANCE Functions

CONSTANTS Values, ann, bob, cid

VARIABLES part, hand

InOrder == <<ann, bob, cid>>

\* Bars of three lengths, for the last hour of a day and the first two of the next.
Bars == [h \in 0..23 |-> IF h = 23 THEN 3 ELSE IF h = 0 THEN 6 ELSE 4]

\* And the best hand of all, whose ranks are none of theirs.
Descending ==
    {<<14, 13, 12, 11, 10>>}
        \cup {v \in [1..5 -> Values] : v[1] # v[5] /\ \A i \in 1..4 : v[i] >= v[i + 1]}

\* The i-th card's suit: equal values take different suits, and all different ones
\* share a suit in a flush, or all but the last.
suit(v, flush, i) ==
    IF \A j \in 1..4 : v[j] # v[j + 1] THEN IF flush \/ i < 5 THEN 2 ELSE 3
    ELSE Cardinality({j \in 1..(i - 1) : v[j] = v[i]})

five_of(v, flush) == [i \in 1..5 |-> suit(v, flush, i) * 13 + v[i] - 2]

Hands == {five_of(v, flush) : v \in Descending, flush \in BOOLEAN}

AnyHand == CHOOSE h \in Hands : TRUE

HandsInit ==
    /\ part \in {"hands", "band", "gate"}
    /\ IF part = "hands" THEN hand \in Hands ELSE hand = AnyHand
    /\ LoungeInit
    /\ HarnessInit
    /\ part # "gate" => script = "missed"

\* The witness names two of the cards the other way round.
Reorder ==
    \E i, j \in 1..5 :
        i < j /\ hand' = [hand EXCEPT ![i] = hand[j], ![j] = hand[i]]

HandsNext ==
    \/ part = "hands" /\ Reorder /\ UNCHANGED <<part, loungeVars, vars, scriptVars>>
    \/ part = "band" /\ LoungeStep /\ UNCHANGED <<part, hand, vars, scriptVars>>
    \/ part = "gate" /\ HarnessStep /\ UNCHANGED <<part, hand, loungeVars>>

HandsSpec == HandsInit /\ [][HandsNext]_<<part, hand, loungeVars, vars, scriptVars>>

\* "The score of five cards, as src/poker/hand.ts computes it" (score5): the
\* comparator network and its neighbour tests find what sorting and counting do,
\* in whatever order the cards come.
ScoreAgrees == score5(hand) = rank5(hand).score

scored(h) == [rank |-> rank(h), score |-> score5(h)]

\* Each hand with what decides it.
Ranked == {scored(h) : h \in Hands}

\* A higher score is a better hand, an equal one a chop: no tiebreak digit ever
\* carries into the one before it or into the category (the base 15 of score5).
\* Compared on the hands as dealt: that their order is nothing, ScoreAgrees says.
ScoreOrdersHands ==
    part = "hands" /\ hand \in Hands =>
        \A mine \in {scored(hand)}, k \in Ranked :
            mine.score > k.score <=>
                \/ mine.rank[1] > k.rank[1]
                \/ mine.rank[1] = k.rank[1] /\ beats(mine.rank[2], k.rank[2])
\* What else may lie on the board: nothing, or a turn and a river.
Later == {<<>>, <<0, 29>>}

\* The contract's score of five, taken apart again.
category_of(score) == score \div 15 ^ 5
digit_of(score, i) == (score \div 15 ^ (5 - i)) % 15
wheel(score) == category_of(score) \in {4, 8} /\ digit_of(score, 1) = 5

\* "Witness for show_hand: the slots of the best five" (client.ts, bestFive), and
\* "what the hand is, in a dealer's words" (ui/hand.ts, describe): of all a player
\* can make of their two cards and the board, the slots their client has proved are
\* those the contract scores highest, and the panel names what that score pays by,
\* its category and the ranks that lead it.  A wheel aside: the panel calls it ace
\* high, and the wheel of one suit a royal flush.
HandNamed ==
    part = "hands" /\ hand \in Hands =>
        \A more \in {t \in Later : Range(t) \cap Range(hand) = {}} :
            LET hole == SubSeq(hand, 1, 2)
                board == SubSeq(hand, 3, 5) \o more
                seven == hole \o board
                taken(slots) == [i \in 1..5 |-> seven[slots[i]]]
            IN \A paid \in {score5(taken(bestFive(hole, board)))} :
                  /\ \A slots \in choose5[Len(seven)] : score5(taken(slots)) <= paid
                  /\ ~wheel(paid) => \A word \in hand_panel(hole, board, FALSE).hint :
                        /\ word.category = category_of(paid)
                        /\ \A i \in 1..Len(word.ranks) : word.ranks[i] = digit_of(paid, i)
                        /\ word.royal <=> category_of(paid) = 8 /\ digit_of(paid, 1) = 14
==============================================================================
