------------------------------ MODULE Betting ------------------------------
(***************************************************************************)
(* No-limit betting: act and act_out of src/contracts/deal.compact.  Both  *)
(* are action_amount (is it legal, what does it commit) followed by        *)
(* apply_action (the bookkeeping, and whose turn it is).                   *)
(***************************************************************************)
EXTENDS Dealing

\* 0 is a fold (act_out) or a check (act), 1 a call, 2 a raise to `t`.
Kinds == 0..2

\* A call needs something to call.  No raise once the seat has acted since the
\* last full raise, none when nobody could respond, and a raise is at least the
\* last full one unless it is the whole stack.
legal_action(s, kind, t) ==
    LET to_call == current_bet - bet[s]
        max_to == bet[s] + stack[s]
        min_to == IF current_bet = 0 THEN BIG_BLIND ELSE current_bet + min_raise
    IN /\ kind = 1 => to_call > 0
       /\ kind = 2 => /\ stack[s] > to_call
                      /\ count_b(actors(folded, all_in)) > 1
                      /\ s \notin acted
                      /\ t <= max_to
                      /\ t >= min_u(min_to, max_to)

\* The chips a legal action commits.
action_amount(s, kind, t) ==
    IF kind = 2 THEN t - bet[s]
    ELSE IF kind = 1 THEN min_u(current_bet - bet[s], stack[s])
    ELSE 0

\* Mutant: acting once is enough, whatever was raised since.
round_open_unmatched(betting, ac, b, cb) == \E s \in betting : s \notin ac

\* Someone with a decision left has not acted since the last full raise, or has
\* less in than the bet cb.
round_open(betting, ac, b, cb) == \E s \in betting : s \notin ac \/ b[s] # cb

\* `out` marks the seat folded (kind 0) or all in.  bs is what act_check left of
\* the time banks.
apply_action(s, kind, t, out, now, bk) ==
    LET amount == action_amount(s, kind, t)
        full_raise == kind = 2 /\ t - current_bet >= min_raise
        f == IF out /\ kind = 0 THEN folded \cup {s} ELSE folded \ {s}
        a == IF out /\ kind # 0 THEN all_in \cup {s} ELSE all_in \ {s}
        ac == (IF full_raise THEN {} ELSE acted) \cup {s}
        b == [bet EXCEPT ![s] = @ + amount]
        cb == IF kind = 2 THEN t ELSE current_bet
        paid == [stack EXCEPT ![s] = @ - amount]
        tot == [total EXCEPT ![s] = @ + amount]
        last_in == first_in(live(f))
    IN
    /\ bet' = b /\ total' = tot
    /\ folded' = f /\ all_in' = a /\ acted' = ac
    /\ current_bet' = cb
    /\ min_raise' = IF full_raise THEN t - current_bet ELSE min_raise
    /\ bank' = bk
    /\ \/ \* Everyone else folded: the pot goes to the last player standing.
          /\ count_b(live(f)) = 1
          /\ stack' = [paid EXCEPT ![last_in] = @ + sum_u(tot)]
          /\ phase' = "done" /\ to_act' = NONE /\ deadline' = 0
          /\ UNCHANGED <<act_by, release_street>>
       \/ /\ count_b(live(f)) # 1 /\ round_open(actors(f, a), ac, b, cb)
          /\ stack' = paid
          /\ set_turn(first_clockwise(s, actors(f, a)), now, bk)
          /\ UNCHANGED <<phase, release_street>>
       \/ /\ count_b(live(f)) # 1 /\ ~round_open(actors(f, a), ac, b, cb)
          /\ stack' = paid
          /\ close_street(now, street, actors(f, a))
          /\ UNCHANGED act_by

\* The actor is the seat's owner and it is their turn.
act_check(p, s, now) ==
    /\ phase = "playing"
    /\ owner_check(s, p)
    /\ s = to_act
    /\ check_now(now)

\* Mutant: a late action may overdraw the bank.
bank_overdrawn(s, now) ==
    [bank EXCEPT ![s] = @ - (IF now > act_by THEN now - act_by ELSE 0)]

\* Mutant: an early action fills the bank up.
bank_refilled(s, now) == [bank EXCEPT ![s] = @ - min_u(now - act_by, @)]

\* The seconds past the actor's 30 come out of their time bank.
bank_left(s, now) ==
    LET over == IF now > act_by THEN now - act_by ELSE 0
    IN [bank EXCEPT ![s] = @ - min_u(over, @)]

act_asserts(p, s, kind, t, now) ==
    /\ act_check(p, s, now)
    /\ kind = 0 => bet[s] = current_bet
    /\ legal_action(s, kind, t)
    /\ stack[s] > action_amount(s, kind, t)

\* Check, call or raise, leaving chips behind.
act(p, s, kind, t, now) ==
    /\ act_asserts(p, s, kind, t, now)
    /\ apply_action(s, kind, t, FALSE, now, bank_left(s, now))
    /\ UNCHANGED <<time, escrow, seatVars, rosterVars, street, deckVars, shareVars,
                   showVars, nextVars, offender>>

act_out_asserts(p, s, kind, t, now) ==
    /\ act_check(p, s, now)
    /\ legal_action(s, kind, t)
    /\ kind = 0 \/ stack[s] = action_amount(s, kind, t)
    /\ key_check(s, p)

\* Fold, or put the whole stack in: out of the betting either way, so shares
\* for every board position come along.
act_out(p, s, kind, t, now) ==
    /\ act_out_asserts(p, s, kind, t, now)
    /\ shares_posted' = shares_posted \cup (board_positions(0, 3) \X {s})
    /\ board_shares' = [board_shares EXCEPT ![s] = 5]
    /\ apply_action(s, kind, t, TRUE, now, bank_left(s, now))
    /\ UNCHANGED <<time, escrow, seatVars, rosterVars, street, deckVars, hole_shares,
                   holes_done, showVars, nextVars, offender>>

==============================================================================
