---------------------------- MODULE ClientRules ----------------------------
(***************************************************************************)
(* The contract beside its clients' rules: the ledger as a client reads it,*)
(* the circuit calls its steps and bets stand for, and what must hold      *)
(* between the two implementations of the rules for a table to work.       *)
(***************************************************************************)
EXTENDS DealProperties, ActionBar

P == INSTANCE Payout

\* The ledger a client reads from the chain.
ledger_now ==
    [nobody |-> NoPlayer, big_blind |-> BIG_BLIND, deal_no |-> deal_no, phase |-> phase,
     seat_owner |-> seat_owner, stack |-> stack, in_deal |-> in_deal, n_players |-> n_players,
     dealer |-> dealer, turn |-> turn, offender |-> offender, street |-> street,
     release_street |-> release_street, to_act |-> to_act, deadline |-> deadline, bank |-> bank,
     current_bet |-> current_bet,
     min_raise |-> min_raise, bet |-> bet, total |-> total, folded |-> folded,
     all_in |-> all_in, acted |-> acted, keys |-> keys, shuffles_done |-> shuffles_done,
     shares_posted |-> shares_posted, hole_shares |-> hole_shares,
     board_shares |-> board_shares, scores |-> scores, next_prep |-> next_prep,
     next_in_deal |-> next_in_deal, next_keys |-> next_keys, next_turn |-> next_turn]

\* The division of the offender's bond and bets a client proposes is one the circuit takes.
forfeit_divides ==
    LET payees == live(folded) \ {offender}
        w == P!forfeitSplit(BOND + total[offender], payees)
    IN w.share * count_b(payees) + w.odd = BOND + total[offender] /\ w.odd < count_b(payees)

\* And the division of the pot, level by level, nothing where a seat stands for none.
splits_divide ==
    \A j \in Seats :
        LET w == P!splits(j, in_deal, total, live(folded), scores)
            n == count_b(winners(j))
        IN IF j \in level_seats THEN w.share * n + w.odd = layer(j) /\ w.odd < n
           ELSE w = [share |-> 0, odd |-> 0]

\* The call a step of player p at seat s is.  A player proves some hand.
call_step(p, s, step, now) ==
    \/ step = "post_key" /\ post_key(p, s, now)
    \/ step = "shuffle" /\ shuffle(p, s, now)
    \/ step = "shares" /\ shares(p, s, other_positions(ledger_now, s), now)
    \/ step = "release" /\ release(p, s, now)
    \/ step = "show" /\ show(p, s, now)
    \/ step = "show_hand" /\ \E score \in Scores : show_hand(p, s, score, now)
    \/ step = "settle" /\ settle /\ splits_divide
    \/ step = "settle_abort" /\ settle_abort /\ forfeit_divides
    \/ step = "start_deal" /\ start_deal(now)
    \/ step = "post_next_key" /\ post_next_key(p, s, now)
    \/ step = "shuffle_next" /\ shuffle_next(p, s, now)

\* The call a bet of player p at seat s is.
call_bet(p, s, b, now) ==
    \/ b.circuit = "act" /\ act(p, s, b.kind, b.to, now)
    \/ b.circuit = "act_out" /\ act_out(p, s, b.kind, b.to, now)

\* The contract takes the step, or the bet: what the circuit asserts of the call holds.
takes_step(p, s, step, now) ==
    \/ step = "post_key" /\ post_key_asserts(p, s, now)
    \/ step = "shuffle" /\ shuffle_asserts(p, s, now)
    \/ step = "shares" /\ shares_asserts(p, s, other_positions(ledger_now, s), now)
    \/ step = "release" /\ release_asserts(p, s, now)
    \/ step = "show" /\ show_asserts(p, s, now)
    \/ step = "show_hand" /\ show_hand_asserts(p, s, now)
    \/ step = "settle" /\ settle_asserts /\ splits_divide
    \/ step = "settle_abort" /\ settle_abort_asserts /\ forfeit_divides
    \/ step = "start_deal" /\ start_deal_asserts(now)
    \/ step = "post_next_key" /\ post_next_key_asserts(p, s, now)
    \/ step = "shuffle_next" /\ shuffle_next_asserts(p, s, now)

takes_bet(p, s, b, now) ==
    \/ b.circuit = "act" /\ act_asserts(p, s, b.kind, b.to, now)
    \/ b.circuit = "act_out" /\ act_out_asserts(p, s, b.kind, b.to, now)

------------------------------------------------------------------------------
(* Properties. *)

\* A pot or an abort the contract cannot pay (PotAlwaysPayable and
\* AbortAlwaysPayable say when).
unpayable(step) ==
    \/ step = "settle" /\ overfolded
    \/ step = "settle_abort" /\ (offender = NONE \/ live(folded) \ {offender} = {})

\* Seat s was dealt in under somebody else's key (DealtUnderOwnKey says when).
locked_out(s) == keys[s] \notin {NoPlayer, seat_owner[s]}

\* rules.ts's owed: a step a client believes it owes is one the contract accepts
\* from it now, or its transaction would fail and cost a fee for nothing.
OwedAccepted ==
    \A s \in {k \in occupied : ~locked_out(k)} :
        LET steps == owed(ledger_now, s) IN
        \A i \in DOMAIN steps :
            unpayable(steps[i]) \/ takes_step(seat_owner[s], s, steps[i], time)

\* Whatever the deal waits for, the client of somebody seated knows to do it: it
\* owes the step or has the turn.  Otherwise the table would stand still until
\* the deadline.  The same for a preparation, unless whoever owes it has left.
WaitedFor ==
    /\ dealing => \E s \in occupied : deal_step(ledger_now, s) # <<>>
                                      \/ (phase = "playing" /\ s = to_act)
    /\ next_prep \in {"keys", "shuffle"} /\ phase \notin {"idle", "keys", "shuffle", "holes"}
        => next_offender \notin occupied \/ prep_step(ledger_now, next_offender) # <<>>

\* rules.ts's legal and actionStep: for the seat to act, the rail offers exactly
\* the actions the contract accepts, and sends each by the circuit (chips left
\* behind or not) that takes it, unless the seat was dealt in under somebody else's
\* key.  Bar and rail say BET where nobody has bet on the street, and ALL IN beside
\* exactly the amount that is all the player has.
RailAgrees ==
    phase = "playing" /\ to_act \in occupied /\ ~locked_out(to_act) =>
        LET t == tableFrom(ledger_now, to_act, {})
            all == bet[to_act] + stack[to_act]
            shows(to) == {bar_shows(t, to, BIG_BLIND), rail_shows(t, to, BIG_BLIND)}
        IN
        \A a \in ({"fold", "check", "call"} \X {0}) \cup ({"raise"} \X (0..all + 1)) :
            LET sent == actionStep(ledger_now, to_act, a[1], a[2]) IN
            /\ a \in rail_actions(t.legal) <=> takes_bet(seat_owner[to_act], to_act, sent, time)
            /\ a[1] = "raise" /\ a \in rail_actions(t.legal) => \A said \in shows(a[2]) :
                  /\ said.all_in = (sent.circuit = "act_out")
                  /\ (said.raise = "BET") = (current_bet = 0)

\* The clock a player watches keeps its word.  While it counts their thirty seconds,
\* acting costs nothing of the bank; it never counts more than those and the bank;
\* and nobody can expire them before it has run out.
ClockHonest ==
    phase = "playing" /\ to_act \in occupied =>
        LET t == tableFrom(ledger_now, to_act, {})
            c == clock(t, time)
        IN
        /\ rail_clock(t, time) = c
        /\ IF c.bank THEN c.seconds <= bank[to_act]
           ELSE c.seconds <= ACT_SECONDS /\ \A now \in Times : now <= time => bank_left(to_act, now) = bank
        /\ time >= deadline => c.bank /\ c.seconds = 0

\* With every score in, the contract and the reference it names divide the pot the
\* same way; chips nobody still in had matched aside, which only the reference pays
\* and at which alone the contract's check of its division fails.
PayoutsAgree ==
    /\ OnlyOverfoldedSticks
    /\ phase = "showdown" /\ shown = count_b(live(folded)) =>
           LET reference == P!payouts(in_deal, total, live(folded), scores, dealer) IN
           /\ sum_u(reference) = sum_u(total)
           /\ overfolded \/ reference = pay
==============================================================================
