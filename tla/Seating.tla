------------------------------ MODULE Seating ------------------------------
(***************************************************************************)
(* Coming to the table and going: join, stand_up, buy_in and leave of      *)
(* src/contracts/deal.compact.  A circuit's asserts are its guards: a call *)
(* that fails one changes nothing.                                         *)
(***************************************************************************)
EXTENDS DealLedger

\* What a seat's removal does to the seats themselves; the caller sees to the
\* stack, which goes to 0.
free_seat(s) ==
    /\ seat_owner' = [seat_owner EXCEPT ![s] = NoPlayer]
    /\ leaving' = leaving \ {s}

join(p, buy) ==
    LET s == first_in(Seats \ occupied) IN
    /\ MIN_BUY_IN <= buy /\ buy <= MAX_BUY_IN
    /\ \A k \in Seats : seat_owner[k] # p
    /\ s # NONE
    /\ escrow' = escrow + buy + BOND
    /\ seat_owner' = [seat_owner EXCEPT ![s] = p]
    /\ stack' = [stack EXCEPT ![s] = buy]
    /\ leaving' = leaving \ {s}
    /\ UNCHANGED <<time, rosterVars, stageVars, streetVars, potVars, deckVars, shareVars,
                   showVars, nextVars, release_street, bank, act_by, offender>>

\* Sits out of the next deals, or back in.
stand_up(p, s, up) ==
    /\ owner_check(s, p)
    /\ leaving' = IF up THEN leaving \cup {s} ELSE leaving \ {s}
    /\ UNCHANGED <<time, seat_owner, moneyVars, rosterVars, stageVars, streetVars, potVars,
                   deckVars, shareVars, showVars, nextVars, release_street, bank, act_by,
                   offender>>

buy_in(p, s, a) ==
    /\ owner_check(s, p)
    /\ not_dealing(s)
    /\ 0 < a /\ MIN_BUY_IN <= stack[s] + a /\ stack[s] + a <= MAX_BUY_IN
    /\ escrow' = escrow + a
    /\ stack' = [stack EXCEPT ![s] = stack[s] + a]
    /\ UNCHANGED <<time, seatVars, rosterVars, stageVars, streetVars, potVars, deckVars,
                   shareVars, showVars, nextVars, release_street, bank, act_by, offender>>

\* Stack and bond back to the player's address.
leave(p, s) ==
    /\ owner_check(s, p)
    /\ not_dealing(s)
    /\ escrow' = escrow - (stack[s] + BOND)
    /\ free_seat(s)
    /\ stack' = [stack EXCEPT ![s] = 0]
    /\ UNCHANGED <<time, rosterVars, stageVars, streetVars, potVars, deckVars, shareVars,
                   showVars, nextVars, release_street, bank, act_by, offender>>

==============================================================================
