----------------------------- MODULE ActionBar -----------------------------
(***************************************************************************)
(* The player's controls: the bar of src/src/ui/actions.ts in a browser,   *)
(* the rail of src/src/scene/rail.ts in a headset.  Both hold what the     *)
(* table last published and the amount a raise would name, and both are    *)
(* told of every publication whichever of them the player sees.            *)
(***************************************************************************)
EXTENDS OwedSteps

max_u(a, b) == IF a > b THEN a ELSE b

\* Nothing published yet.
Unlit == [legal |-> NoLegal, canShow |-> FALSE, raiseTo |-> 0]

\* Mutant: the amount of the last turn is kept.
update_kept(c, legal_now, can_show) ==
    [legal |-> legal_now, canShow |-> can_show,
     raiseTo |-> IF c.raiseTo = 0 /\ legal_now.raise # <<>> THEN legal_now.raise[1] ELSE c.raiseTo]

\* The amount starts again at the least raise when a turn begins.
update(c, legal_now, can_show) ==
    [legal |-> legal_now, canShow |-> can_show,
     raiseTo |-> IF legal_now = NoLegal \/ c.legal # NoLegal THEN c.raiseTo
                 ELSE IF legal_now.raise = <<>> THEN 0 ELSE legal_now.raise[1]]

\* One step up or down by `by`; the last step up lands on all-in.
stepped(to, r, dir, by) ==
    LET near == min_u(r[2], max_u(r[1], to + dir * by)) IN
    IF dir > 0 /\ near > r[2] - by THEN r[2] ELSE near

bar_step(c, dir, by) ==
    IF c.legal.raise = <<>> THEN c
    ELSE [c EXCEPT !.raiseTo = stepped(@, c.legal.raise, dir, by)]

\* Dark when it is not your turn.  The thirty seconds first, then the bank.
clock(t, now) ==
    LET left == max_u(0, t.deadline - now)
        on_bank == left <= t.timeBank
    IN IF t.legal = NoLegal \/ t.deadline = 0 THEN [bank |-> FALSE, seconds |-> NONE]
       ELSE [bank |-> on_bank, seconds |-> IF on_bank THEN left ELSE left - t.timeBank]

\* The word on the button that raises.
word(t, big_blind) ==
    IF t.street = "preflop" \/ t.legal.call > 0 \/ t.legal.raise[1] > big_blind THEN "RAISE" ELSE "BET"

\* What the bar shows of its buttons at your turn, with `to` the amount of a raise.
bar_shows(t, to, big_blind) ==
    LET can_raise == t.legal.raise # <<>> IN
    [call |-> IF t.legal.check THEN <<"check", 0>> ELSE <<"call", t.legal.call>>,
     raise |-> IF can_raise THEN word(t, big_blind) ELSE "hidden",
     all_in |-> can_raise /\ to = t.legal.raise[2]]

\* What the buttons send: FOLD, CHECK or CALL, and RAISE when there is one.
buttons(c) ==
    IF c.legal = NoLegal THEN {}
    ELSE {<<"fold", 0>>, <<IF c.legal.check THEN "check" ELSE "call", 0>>}
         \cup (IF c.legal.raise = <<>> THEN {} ELSE {<<"raise", c.raiseTo>>})

\* The rail's own amount, clamped the other way round.
rail_step(c, dir, by) ==
    LET r == c.legal.raise
        near == max_u(r[1], min_u(r[2], c.raiseTo + dir * by))
    IN IF r = <<>> THEN c
       ELSE [c EXCEPT !.raiseTo = IF dir > 0 /\ near > r[2] - by THEN r[2] ELSE near]

\* The rail says and sends what the bar does, each in its own code.
rail_update(c, legal_now, can_show) == update(c, legal_now, can_show)
rail_buttons(c) == buttons(c)
rail_shows(t, to, big_blind) == bar_shows(t, to, big_blind)
rail_clock(t, now) == clock(t, now)
==============================================================================
