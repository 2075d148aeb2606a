------------------------------- MODULE Payout -------------------------------
(***************************************************************************)
(* How a pot is divided outside the contract: settle of                    *)
(* src/src/poker/payout.ts, the reference the contract names, and splits of*)
(* src/contracts/client.ts, the witness a client hands to the circuit      *)
(* settle.  A contender is a seat dealt in; `total` is what it put in,     *)
(* `score` its hand, `live` the seats that did not fold.                   *)
(***************************************************************************)
EXTENDS SeatVectors, FiniteSets, FiniteSetsExt

\* What each live seat put in, the level below one of them, and who reached it.
levels(total, live) == {total[i] : i \in live}
below(level, total, live) == Max({0} \cup {k \in levels(total, live) : k < level})
eligible(level, total, live) == {i \in live : total[i] >= level}
best_of(seats, score) == {i \in seats : \A k \in seats : score[k] <= score[i]}

\* One live seat of each level, the lowest, stands for it.
stands_for(j, total, live) == j \in live /\ \A i \in live : i < j => total[i] # total[j]

\* The chips of one level, folded players' too.
level_pot(level, dealt, total, live) ==
    LET part(i) == Max({0, min_u(total[i], level) - below(level, total, live)})
    IN sum_u([i \in Seats |-> IF i \in dealt THEN part(i) ELSE 0])

\* Mutant: the odd chips go to the lowest seats.
level_share_by_seat(i, level, dealt, total, live, score, dealer) ==
    LET won == best_of(eligible(level, total, live), score)
        pot == level_pot(level, dealt, total, live)
        n == Cardinality(won)
        place == Cardinality({k \in won : k < i})
    IN IF i \notin won THEN 0 ELSE pot \div n + (IF place < pot % n THEN 1 ELSE 0)

\* An equal share each, and the odd chips to the first winners clockwise.
level_share(i, level, dealt, total, live, score, dealer) ==
    LET won == best_of(eligible(level, total, live), score)
        pot == level_pot(level, dealt, total, live)
        n == Cardinality(won)
        place == Cardinality({k \in won : clockwise(dealer, k) < clockwise(dealer, i)})
    IN IF i \notin won THEN 0 ELSE pot \div n + (IF place < pot % n THEN 1 ELSE 0)

\* payout.ts: level by level; chips above every live total to the last level's
\* first winner.
payouts(dealt, total, live, score, dealer) ==
    LET of_level(i, j) == IF stands_for(j, total, live)
                          THEN level_share(i, total[j], dealt, total, live, score, dealer) ELSE 0
        by_level(i) == sum_u([j \in Seats |-> of_level(i, j)])
        paid == sum_u([i \in Seats |-> by_level(i)])
        all == sum_u([i \in Seats |-> IF i \in dealt THEN total[i] ELSE 0])
        last == best_of(eligible(Max(levels(total, live)), total, live), score)
    IN [i \in Seats |-> by_level(i) + (IF i = first_clockwise(dealer, last) THEN all - paid ELSE 0)]

\* client.ts: the share and the odd chips of the level seat j stands for; zeros
\* elsewhere.
splits(j, dealt, total, live, score) ==
    LET pot == level_pot(total[j], dealt, total, live)
        n == Cardinality(best_of(eligible(total[j], total, live), score))
    IN IF stands_for(j, total, live) THEN [share |-> pot \div n, odd |-> pot % n] ELSE [share |-> 0, odd |-> 0]

\* client.ts: the witnesses of settle_abort, what the offender forfeits split equally;
\* and of expire_next, the bond of whoever holds up the next deck, if it is not gone.
forfeitSplit(forfeit, payees) ==
    LET n == Cardinality(payees) IN
    IF n = 0 THEN [share |-> 0, odd |-> 0] ELSE [share |-> forfeit \div n, odd |-> forfeit % n]

prepForfeitSplit(bond, late, left, seated) ==
    IF late \notin seated THEN [share |-> 0, odd |-> 0]
    ELSE forfeitSplit(bond, (left \cap seated) \ {late})
==============================================================================
