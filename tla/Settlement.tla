----------------------------- MODULE Settlement -----------------------------
(***************************************************************************)
(* How a deal ends: show_hand and settle at showdown, expire and           *)
(* settle_abort when a step was missed, of src/contracts/deal.compact.     *)
(***************************************************************************)
EXTENDS Betting

\* The card at `pos` decrypts for `reader`: its deck is locked under exactly the
\* keys of the players in the deal, and every share it takes is on the ledger.
opens(pos, reader, own) ==
    /\ joint_key = {<<s, keys[s]>> : s \in in_deal}
    /\ \A s \in in_deal : (own /\ s = reader) \/ <<pos, s>> \in shares_posted

show_hand_asserts(p, s, now) ==
    /\ phase = "showdown"
    /\ s \in live(folded)
    /\ scores[s] = 0
    /\ key_check(s, p)
    /\ check_now(now)
    /\ \A pos \in own_positions(s) : opens(pos, s, TRUE)
    /\ \A pos \in board_positions(0, 3) : opens(pos, s, FALSE)

\* A player still in proves the rank of their best hand, whatever it is.
show_hand(p, s, score, now) ==
    /\ show_hand_asserts(p, s, now)
    /\ scores' = [scores EXCEPT ![s] = score]
    /\ shown' = shown + 1
    /\ UNCHANGED <<time, seatVars, moneyVars, rosterVars, stageVars, streetVars, potVars,
                   deckVars, shareVars, nextVars, release_street, bank, act_by, offender>>

------------------------------------------------------------------------------
(* The pot, one level for each distinct amount a live player put in. *)

\* The lowest live seat of each level stands for it.
level_seats ==
    {j \in live(folded) : \A i \in live(folded) : total[i] = total[j] => j <= i}

\* The level below seat j's, 0 when there is none.
level_below(j) ==
    LET lower == {total[i] : i \in {k \in live(folded) : total[k] < total[j]}}
    IN IF lower = {} THEN 0 ELSE CHOOSE m \in lower : \A x \in lower : x <= m

\* Everyone's chips, folded players' too, between that level and seat j's.
layer(j) ==
    sum_u([i \in Seats |->
             IF i \in in_deal
             THEN min_u(total[i], total[j]) - min_u(total[i], level_below(j))
             ELSE 0])

\* Mutant: a level is open to players who did not reach it.
winners_of_all(j) ==
    {i \in live(folded) : \A k \in live(folded) : scores[k] <= scores[i]}

\* The best scores among the live players who reached seat j's level.
winners(j) ==
    LET eligible == {i \in live(folded) : total[i] >= total[j]}
    IN {i \in eligible : \A k \in eligible : scores[k] <= scores[i]}

\* Seat i's part of level j: an equal share, and one of the odd chips for the
\* first winners clockwise from the dealer.  As with forfeits, the circuit
\* checks a witnessed share and odd, which the layer pins.
level_pay(j, i) ==
    LET n == count_b(winners(j))
        place == count_b({m \in winners(j) : clockwise(dealer, m) < clockwise(dealer, i)})
    IN IF i \in winners(j)
       THEN layer(j) \div n + (IF place < layer(j) % n THEN 1 ELSE 0)
       ELSE 0

pay == [i \in Seats |->
          sum_u([j \in Seats |-> IF j \in level_seats THEN level_pay(j, i) ELSE 0])]

settle_asserts ==
    /\ phase = "showdown"
    /\ shown = count_b(live(folded))
    /\ sum_u(pay) = sum_u(total)

\* Anyone, once every score is in.
settle ==
    /\ settle_asserts
    /\ stack' = [s \in Seats |-> stack[s] + pay[s]]
    /\ phase' = "done" /\ deadline' = 0 /\ to_act' = NONE
    /\ UNCHANGED <<time, escrow, seatVars, rosterVars, streetVars, potVars, deckVars,
                   shareVars, showVars, nextVars, release_street, bank, act_by, offender>>

------------------------------------------------------------------------------
(* Missed steps. *)

\* Mutant: to_act is cleared before it is recorded.
owing_after_reset ==
    CASE phase = "keys"    -> first_without_key
      [] phase = "shuffle" -> turn
      [] phase = "holes"   -> first_without_holes
      [] phase = "playing" -> NONE
      [] phase = "release" -> first_without_release
      [] phase = "tabling" -> first_without_show
      [] OTHER             -> first_without_score

\* The seat that owes the step the deal is waiting for.
owing ==
    CASE phase = "keys"    -> first_without_key
      [] phase = "shuffle" -> turn
      [] phase = "holes"   -> first_without_holes
      [] phase = "playing" -> to_act
      [] phase = "release" -> first_without_release
      [] phase = "tabling" -> first_without_show
      [] OTHER             -> first_without_score

\* Mutant: the deadline stays.
expire_again ==
    /\ deadline # 0 /\ deadline <= time
    /\ offender' = owing
    /\ phase' = "aborted" /\ to_act' = NONE
    /\ UNCHANGED <<time, seatVars, moneyVars, rosterVars, deadline, streetVars, potVars,
                   deckVars, shareVars, showVars, nextVars, release_street, bank, act_by>>

\* Anyone, once the deadline has passed.
expire ==
    /\ deadline # 0 /\ deadline <= time
    /\ offender' = owing
    /\ phase' = "aborted" /\ deadline' = 0 /\ to_act' = NONE
    /\ UNCHANGED <<time, seatVars, moneyVars, rosterVars, streetVars, potVars, deckVars,
                   shareVars, showVars, nextVars, release_street, bank, act_by>>

\* Mutant: the offender's bets go to nobody.
abort_pay_bond(o) ==
    LET won == split_among(BOND, live(folded) \ {o})
    IN [s \in Seats |-> (IF s \in in_deal \ {o} THEN total[s] ELSE 0) + won[s]]

\* What an abort gives each seat: its bets back, and an equal part of the
\* offender's bond and bets to the players still in.
abort_pay(o) ==
    LET won == split_among(BOND + total[o], live(folded) \ {o})
    IN [s \in Seats |-> (IF s \in in_deal \ {o} THEN total[s] ELSE 0) + won[s]]

settle_abort_asserts ==
    /\ phase = "aborted"
    /\ offender # NONE
    /\ live(folded) \ {offender} # {}

\* Anyone, after an abort: the offender's remaining stack goes home and their
\* seat is freed.
settle_abort ==
    LET o == offender IN
    /\ settle_abort_asserts
    /\ escrow' = escrow - stack[o]
    /\ free_seat(o)
    /\ stack' = [s \in Seats |-> IF s = o THEN 0 ELSE stack[s] + abort_pay(o)[s]]
    /\ phase' = "done"
    /\ UNCHANGED <<time, rosterVars, deadline, to_act, streetVars, potVars, deckVars,
                   shareVars, showVars, nextVars, release_street, bank, act_by, offender>>

==============================================================================
