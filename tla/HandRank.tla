------------------------------ MODULE HandRank ------------------------------
(***************************************************************************)
(* The rank of five cards, twice: score5 of src/contracts/deal.compact,    *)
(* which sorts with a comparator network and reads the groups off equal    *)
(* neighbours, and its reference score5 in src/poker/hand.ts, rank5 here,  *)
(* which counts.  A card is its index in the deck; a hand is five of them  *)
(* in the order its player names them.  Then what the players' pages make  *)
(* of it: the five of seven a client has its circuit show, and the words   *)
(* of the panel beside the table.                                          *)
(***************************************************************************)
EXTENDS Integers, Sequences, FiniteSets
LOCAL INSTANCE SequencesExt
LOCAL INSTANCE FiniteSetsExt

\* Suits c d h s by thirteen, values 2 to 14.
suit_of(k) == k \div 13
value_of(k) == k - suit_of(k) * 13 + 2

values(hand) == [i \in 1..5 |-> value_of(hand[i])]
one_suit(hand) == \A i \in 2..5 : suit_of(hand[i]) = suit_of(hand[1])

------------------------------------------------------------------------------
(* The contract. *)

hi(a, b) == IF a > b THEN a ELSE b
lo(a, b) == IF a > b THEN b ELSE a

\* A comparator: the higher of two places first.
exchanged(v, c) ==
    [v EXCEPT ![c[1]] = hi(v[c[1]], v[c[2]]), ![c[2]] = lo(v[c[1]], v[c[2]])]

\* Mutant: the network without its last comparator.
sort5_eight(v) ==
    FoldLeft(exchanged, v, <<<<1, 2>>, <<4, 5>>, <<3, 5>>, <<3, 4>>, <<1, 4>>, <<1, 3>>,
                             <<2, 5>>, <<2, 4>>>>)

\* Nine comparators put five values in descending order.
sort5(v) ==
    FoldLeft(exchanged, v, <<<<1, 2>>, <<4, 5>>, <<3, 5>>, <<3, 4>>, <<1, 4>>, <<1, 3>>,
                             <<2, 5>>, <<2, 4>>, <<2, 3>>>>)

\* Mutant: one digit short.
four_digits(cat, t) == FoldLeft(LAMBDA score, d : score * 15 + d, cat, SubSeq(t, 1, 4))

\* The category, then five tiebreak digits.
in_base_15(cat, t) == FoldLeft(LAMBDA score, d : score * 15 + d, cat, t)

score5(hand) ==
    LET v == sort5(values(hand))
        e(i) == v[i] = v[i + 1]
        flush == one_suit(hand)
        distinct == \A i \in 1..4 : ~e(i)
        straight_high == IF distinct /\ v[1] - v[5] = 4 THEN v[1]
                         ELSE IF distinct /\ v[1] = 14 /\ v[2] = 5 /\ v[5] = 2 THEN 5
                         ELSE 0
        quads == e(2) /\ e(3) /\ (e(1) \/ e(4))
        full == e(1) /\ e(4) /\ (e(2) \/ e(3))
        trips == (e(2) /\ (e(1) \/ e(3))) \/ (e(3) /\ e(4))
        two_pair == (e(1) /\ e(3)) \/ (e(1) /\ e(4)) \/ (e(2) /\ e(4))
        pair == ~distinct
        cat == IF straight_high # 0 /\ flush THEN 8 ELSE IF quads THEN 7 ELSE IF full THEN 6
               ELSE IF flush THEN 5 ELSE IF straight_high # 0 THEN 4 ELSE IF trips THEN 3
               ELSE IF two_pair THEN 2 ELSE IF pair THEN 1 ELSE 0
        top3 == e(1) /\ e(2)
        digits ==
            CASE cat \in {8, 4} -> <<straight_high, 0, 0, 0, 0>>
              [] cat = 7 -> <<v[2], IF top3 /\ e(3) THEN v[5] ELSE v[1], 0, 0, 0>>
              [] cat = 6 -> <<IF top3 THEN v[1] ELSE v[3], IF top3 THEN v[4] ELSE v[1], 0, 0, 0>>
              [] cat = 3 -> <<v[3], IF top3 THEN v[4] ELSE v[1],
                              IF e(3) /\ e(4) THEN v[2] ELSE v[5], 0, 0>>
              [] cat = 2 -> <<v[2], v[4], IF e(1) /\ e(3) THEN v[5]
                                          ELSE IF e(1) /\ e(4) THEN v[3] ELSE v[1], 0, 0>>
              [] cat = 1 -> <<IF e(1) THEN v[1] ELSE IF e(2) THEN v[2]
                              ELSE IF e(3) THEN v[3] ELSE v[4],
                              IF e(1) THEN v[3] ELSE v[1],
                              IF e(1) \/ e(2) THEN v[4] ELSE v[2],
                              IF e(4) THEN v[3] ELSE v[5], 0>>
              [] OTHER -> v
    IN in_base_15(cat, digits)

------------------------------------------------------------------------------
(* The reference. *)

\* The values of a hand, those it has most of first, then the higher.
groups(hand) ==
    LET vals == values(hand)
        S == {vals[i] : i \in 1..5}
        count == [r \in S |-> Cardinality({i \in 1..5 : vals[i] = r})]
        before(q, r) == count[q] > count[r] \/ (count[q] = count[r] /\ q > r)
    IN [i \in 1..Cardinality(S) |->
           CHOOSE r \in S : Cardinality({q \in S : before(q, r)}) = i - 1]

\* A category, and what ties within it are broken by.
rank(hand) ==
    LET vals == SortSeq(values(hand), LAMBDA r, q : r > q)
        flush == one_suit(hand)
        distinct == groups(hand)
        of(i) == IF i > Len(distinct) THEN 0
                 ELSE Cardinality({j \in 1..5 : vals[j] = distinct[i]})
        straight_high == IF Len(distinct) # 5 THEN 0
                         ELSE IF vals[1] - vals[5] = 4 THEN vals[1]
                         ELSE IF vals[1] = 14 /\ vals[2] = 5 /\ vals[5] = 2 THEN 5
                         ELSE 0
    IN IF straight_high # 0 /\ flush THEN <<8, <<straight_high>>>>
       ELSE IF of(1) = 4 THEN <<7, distinct>>
       ELSE IF of(1) = 3 /\ of(2) = 2 THEN <<6, distinct>>
       ELSE IF flush THEN <<5, vals>>
       ELSE IF straight_high # 0 THEN <<4, <<straight_high>>>>
       ELSE IF of(1) = 3 THEN <<3, distinct>>
       ELSE IF of(1) = 2 /\ of(2) = 2 THEN <<2, distinct>>
       ELSE IF of(1) = 2 THEN <<1, distinct>>
       ELSE <<0, vals>>

rank5(hand) ==
    LET r == rank(hand)
        digit(i) == IF i <= Len(r[2]) THEN r[2][i] ELSE 0
    IN [category |-> r[1],
        score |-> FoldLeft(LAMBDA score, i : score * 15 + digit(i), r[1], <<1, 2, 3, 4, 5>>)]

\* The first tuple of numbers wins over the second: the first place they differ
\* in decides.  Hands of one category have as many.
beats(t, u) ==
    \E i \in DOMAIN t : t[i] > u[i] /\ \A j \in 1..(i - 1) : t[j] = u[j]
------------------------------------------------------------------------------
(* The best five of up to seven, and what the page says of them. *)

\* Where five of n cards may be taken from, each choice in the cards' order.
choose5 ==
    [n \in 5..7 |->
        {[i \in 1..5 |-> CHOOSE at \in five : Cardinality({q \in five : q < at}) = i - 1] :
            five \in kSubset(5, 1..n)}]

\* Of two choices, the one the generator yields first.
yielded_before(s, t) == \E i \in 1..5 : s[i] < t[i] /\ \A j \in 1..(i - 1) : s[j] = t[j]

\* The first choice no other outscores: the slots a client names to show_hand, and
\* the hand they make.
evaluate(cards) ==
    LET taken(s) == [i \in 1..5 |-> cards[s[i]]]
        fives == {[slots |-> s, best |-> taken(s), rank |-> rank5(taken(s))] :
                     s \in choose5[Len(cards)]}
    IN CHOOSE m \in fives : \A other \in fives \ {m} :
           \/ m.rank.score > other.rank.score
           \/ m.rank.score = other.rank.score /\ yielded_before(m.slots, other.slots)

bestFive(hole, board) == evaluate(hole \o board).slots

\* What words there are for a hand: its category and the ranks named with it.
named(category, ranks) == [category |-> category, ranks |-> ranks, royal |-> FALSE]

\* Mutant: the ranks of the five ordered by rank alone.
ordered_by_rank(best) ==
    SortSeq(SetToSeq({value_of(best[i]) : i \in 1..5}), LAMBDA r, q : r > q)

\* The ranks of the five, those it has most of first, then the higher.
ordered(best) ==
    LET count(r) == Cardinality({i \in 1..5 : value_of(best[i]) = r})
    IN SortSeq(SetToSeq({value_of(best[i]) : i \in 1..5}),
               LAMBDA r, q : count(r) > count(q) \/ (count(r) = count(q) /\ r > q))

\* How many ranks the words of a category name.
ranks_named == [category \in 0..8 |-> IF category \in {2, 6} THEN 2 ELSE 1]

\* The words for the best five: its high card, or what it has most of.
words(made) ==
    LET high == SortSeq(values(made.best), LAMBDA r, q : r > q)[1]
    IN IF made.rank.category = 8 /\ high = 14 THEN [named(8, <<>>) EXCEPT !.royal = TRUE]
       ELSE IF made.rank.category \in {0, 4, 5, 8} THEN named(made.rank.category, <<high>>)
       ELSE named(made.rank.category, SubSeq(ordered(made.best), 1, ranks_named[made.rank.category]))

\* Before the flop the two cards themselves.
describe(hole, board) ==
    LET two == [i \in 1..2 |-> value_of(hole[i])]
        a == hi(two[1], two[2])
        b == lo(two[1], two[2])
    IN IF Len(board) >= 3 THEN words(evaluate(hole \o board))
       ELSE IF a = b THEN named(1, <<a>>) ELSE named(0, <<a, b>>)

\* Somebody without cards has none to describe, somebody folded is told so.
hand_panel(hole, board, folded) ==
    [hidden |-> hole = <<>> /\ board = <<>>,
     hole |-> IF hole = <<>> THEN <<"back", "back">> ELSE hole,
     board |-> [i \in 1..5 |-> IF i <= Len(board) THEN board[i] ELSE "empty"],
     hint |-> IF hole = <<>> THEN {} ELSE IF folded THEN {"Folded"} ELSE {describe(hole, board)}]
==============================================================================
