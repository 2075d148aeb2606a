-------------------------- MODULE PracticeReferee --------------------------
(***************************************************************************)
(* A Practice table: ContractReferee of src/src/referee/contract.ts, the   *)
(* deal contract run in the page with every player's secrets.  It runs the *)
(* steps all the seats owe, one at a time; a timer decides for a bot, for a*)
(* player who does not, and between deals.                                 *)
(*                                                                         *)
(* JavaScript runs to completion: only timers and clicks come in between.  *)
(* An action ends where the code gives them the chance, after each step    *)
(* (setTimeout 0) and when a timer is left to run.  Timers fire in time.   *)
(***************************************************************************)
EXTENDS ClientRules, TableView

CONSTANT Names          \* the players, in the order they join; the first is you
ASSUME NamesAssumption == Names \in Seq(Players) /\ Len(Names) \in 2..6

VARIABLES
    game,                   \* the referee
    posted, next_posted,    \* the deck key behind each seat's posted point
    bar, rail,              \* your controls, in a browser and in a headset
    view                    \* the scene's table

practiceVars == <<vars, game, posted, next_posted, bar, rail, view>>

you == 0
at_table == 0..(Len(Names) - 1)
NoKey == 0

\* `at` is what goes on: "joining" players, "buying" back in, "driving" the steps owed,
\* "waiting" for `timer` (with none set, for good), "over", or "thrown" by an
\* unhandled rejection.  `seat` and `todo` are where runOwed has got to.
Started == [at |-> "joining", timer |-> "none", seat |-> 5, todo |-> <<>>,
            x |-> [s \in Seats |-> 1], nextX |-> [s \in Seats |-> 2],
            before |-> zeros, won |-> {}]

\* A deck key seat s has not used of late.
fresh(s, others) ==
    LET used == {game.x[s], game.nextX[s], posted[s], next_posted[s]} \cup others
    IN CHOOSE k \in 1..6 \ used : \A j \in 1..6 \ used : k <= j

\* Mutant: the prepared key is not carried over.
rotate_anew(s, was_prepared) == [x |-> fresh(s, {}), nextX |-> fresh(s, {fresh(s, {})})]

\* A deal started: the prepared key becomes this deal's, or a fresh one.
rotate(s, was_prepared) ==
    LET one == fresh(s, {}) IN
    IF was_prepared THEN [x |-> game.nextX[s], nextX |-> one]
    ELSE [x |-> one, nextX |-> fresh(s, {one})]

\* The scene and the controls are shown the ledger l, and the winners `won`.
publish(l, won) ==
    \E t \in {tableFrom(l, you, won)} :
        /\ view' = update_view(view, [t EXCEPT !.mine = @ /\ game.x[you] = posted[you]])
        /\ bar' = update(bar, t.legal, t.canShow)
        /\ rail' = rail_update(rail, t.legal, t.canShow)

\* Everyone joins in turn.
Join ==
    LET n == count_b(occupied) IN
    /\ game.at = "joining"
    /\ join(Names[n + 1], MAX_BUY_IN)
    /\ game' = [game EXCEPT !.at = IF n + 1 = Len(Names) THEN "buying" ELSE @]
    /\ IF n + 1 = Len(Names) THEN publish(ledger_now', {}) ELSE UNCHANGED <<view, bar, rail>>
    /\ UNCHANGED <<posted, next_posted>>

------------------------------------------------------------------------------
(* Between deals: nextDeal. *)

under_minimum == {s \in at_table \cap occupied : stack[s] < MIN_BUY_IN}

\* A seat that dropped under the minimum buys back in to the maximum.
BuyBack ==
    /\ game.at = "buying" /\ under_minimum # {}
    /\ \E s \in {first_in(under_minimum)} :
           buy_in(seat_owner[s], s, MAX_BUY_IN - stack[s])
    /\ UNCHANGED <<game, posted, next_posted, bar, rail, view>>

\* Mutant: what is in the pot is part of a stack.
stacks_and_bets == [s \in Seats |-> stack[s] + total[s]]

\* The stacks before the deal, to tell what each seat wins.
stacks_before == [s \in Seats |-> stack[s]]

StartDeal ==
    /\ game.at = "buying" /\ under_minimum = {}
    /\ IF start_deal_asserts(time)
       THEN \E was_prepared \in BOOLEAN :
               /\ start_deal(time) /\ was_prepared = (phase' = "holes")
               /\ posted' = IF was_prepared THEN next_posted ELSE [s \in Seats |-> NoKey]
               /\ next_posted' = [s \in Seats |-> NoKey]
               /\ game' = [game EXCEPT !.at = "driving", !.seat = 5,
                              !.before = stacks_before, !.won = {},
                              !.x = [s \in Seats |-> rotate(s, was_prepared).x],
                              !.nextX = [s \in Seats |-> rotate(s, was_prepared).nextX]]
               /\ UNCHANGED <<bar, rail, view>>
       ELSE /\ game' = [game EXCEPT !.at = "over"] /\ publish(ledger_now, {})
            /\ UNCHANGED <<vars, posted, next_posted>>

------------------------------------------------------------------------------
(* drive: whatever needs no decision, then a timer. *)

\* The circuit's checks against the deck key posted at seat s.
proves_key(s, step) ==
    \/ step \in {"post_key", "shuffle", "settle", "settle_abort", "post_next_key",
                 "shuffle_next"}
    \/ posted[s] = game.x[s]

\* A step is published, then called: a call the contract refuses throws.
Run(s, step, rest) ==
    /\ publish(ledger_now, game.won)
    /\ IF proves_key(s, step) /\ takes_step(seat_owner[s], s, step, time)
       THEN LET drawn == IF step = "post_key" THEN fresh(s, {}) ELSE game.x[s] IN
            /\ call_step(seat_owner[s], s, step, time)
            /\ posted' = IF step = "post_key" THEN [posted EXCEPT ![s] = drawn] ELSE posted
            /\ next_posted' = IF step = "post_next_key"
                              THEN [next_posted EXCEPT ![s] = game.nextX[s]] ELSE next_posted
            /\ game' = [game EXCEPT !.seat = s, !.todo = rest, !.x[s] = drawn]
       ELSE /\ game' = [game EXCEPT !.at = "thrown"]
            /\ UNCHANGED <<vars, posted, next_posted>>

\* Seats that owe a step, in the order the passes over them go.
owing_seats == {s \in at_table : owed(ledger_now, s) # <<>>}

\* A seat's list is read once: what is left of it runs whatever happened meanwhile.
Drive ==
    /\ game.at = "driving"
    /\ IF game.todo # <<>> THEN Run(game.seat, Head(game.todo), Tail(game.todo))
       ELSE /\ owing_seats # {}
            /\ \E s \in {first_clockwise(game.seat, owing_seats)} : \E steps \in {owed(ledger_now, s)} :
                  Run(s, Head(steps), Tail(steps))

\* Nothing owed: the turn's timer, the pause between deals, or none.
timer_for ==
    CASE phase = "playing" -> IF to_act = you THEN "you" ELSE "bot"
      [] phase = "done" -> "next"
      [] OTHER -> "none"

\* (The code names the winners before the last steps of the next deck, from the same books.)
Decide ==
    /\ game.at = "driving" /\ game.todo = <<>> /\ owing_seats = {}
    /\ \E won \in {IF phase = "done" THEN outcome(ledger_now, game.before) ELSE game.won} :
          /\ game' = [game EXCEPT !.at = "waiting", !.timer = timer_for, !.won = won]
          /\ publish(ledger_now, won)
    /\ UNCHANGED <<vars, posted, next_posted>>

------------------------------------------------------------------------------
(* Decisions: perform, then drive. *)

perform(s, type, to) ==
    \E b \in {actionStep(ledger_now, s, type, to)} :
        IF (b.circuit = "act" \/ posted[s] = game.x[s]) /\ takes_bet(seat_owner[s], s, b, time)
        THEN /\ call_bet(seat_owner[s], s, b, time)
             /\ game' = IF game.at = "driving" THEN game
                        ELSE [game EXCEPT !.at = "driving", !.timer = "none", !.seat = 5]
        ELSE /\ game' = [game EXCEPT !.at = "thrown", !.timer = "none"]
             /\ UNCHANGED vars

\* A click on one of the buttons, while a step runs too.
Act(pressed) ==
    /\ game.at \in {"driving", "waiting"}
    /\ phase = "playing" /\ to_act = you
    /\ \E b \in pressed : perform(you, b[1], b[2])
    /\ UNCHANGED <<posted, next_posted, bar, rail, view>>

\* Check, otherwise fold, when the clock runs out.
AutoFold ==
    /\ game.timer = "you"
    /\ perform(you, IF legal(ledger_now, you).check THEN "check" ELSE "fold", 0)
    /\ UNCHANGED <<posted, next_posted, bar, rail, view>>

\* A bot checks or calls, folds to a bet, or raises: to all in, or to an amount in the
\* lowest quarter of the range.
botAction(g) ==
    {<<IF g.check THEN "check" ELSE "call", 0>>}
    \cup (IF g.check THEN {} ELSE {<<"fold", 0>>})
    \cup (IF g.raise = <<>> THEN {}
          ELSE {<<"raise", g.raise[2]>>}
               \cup {<<"raise", t>> : t \in g.raise[1]..(g.raise[1] + (g.raise[2] - g.raise[1] + 1) \div 4)})

BotActs ==
    /\ game.timer = "bot"
    /\ \E b \in botAction(legal(ledger_now, to_act)) : perform(to_act, b[1], b[2])
    /\ UNCHANGED <<posted, next_posted, bar, rail, view>>

\* Bound: MaxDeals deals.
NextDeal ==
    /\ game.timer = "next" /\ deal_no < MaxDeals
    /\ game' = [game EXCEPT !.at = "buying", !.timer = "none"]
    /\ UNCHANGED <<vars, posted, next_posted, bar, rail, view>>

\* You show your cards once the deal is over.
Show ==
    /\ game.at \in {"driving", "waiting"} /\ bar.canShow
    /\ canShow(ledger_now, you)
    /\ IF posted[you] = game.x[you] /\ show_asserts(seat_owner[you], you, time)
       THEN show(seat_owner[you], you, time) /\ publish(ledger_now', game.won)
       ELSE UNCHANGED <<vars, bar, rail, view>>
    /\ UNCHANGED <<game, posted, next_posted>>

\* The arrows beside the amount.
StepAmount ==
    /\ \E dir \in {1, -1} : bar' = bar_step(bar, dir, BIG_BLIND) /\ rail' = rail_step(rail, dir, BIG_BLIND)
    /\ UNCHANGED <<vars, game, posted, next_posted, view>>

------------------------------------------------------------------------------
(* Properties. *)

\* Whenever nothing runs one timer is set, and it is the one the table waits for.
TimerSet ==
    game.at = "waiting" =>
        /\ phase \in {"playing", "done"}
        /\ game.timer = IF phase = "playing" THEN IF to_act = you THEN "you" ELSE "bot" ELSE "next"

\* The game never comes to a stop: there is that timer, and no step the referee takes,
\* and nothing a click sends, is refused by the contract: that would be an unhandled
\* rejection, with no timer left.  Among three or more one thing does stop it, a pot
\* PotAlwaysPayable is about.
AlwaysScheduled == (game.at = "thrown" => phase = "showdown" /\ overfolded) /\ TimerSet

\* While somebody is to act, the chips to be counted on the felt, pot, bets and stacks,
\* are all the players brought.  When a deal is over the scene has shown how it ended:
\* your cards unless you folded and kept them to yourself, and the board if the hands
\* went to a showdown.
SceneToldTheDeal ==
    /\ game.timer \in {"you", "bot"} =>
          chips_counted(view.felt) = escrow - BOND * count_b(occupied)
    /\ game.timer = "next" =>
          /\ view.mine = (you \notin folded \/ shownCards(ledger_now, you))
          /\ count_b(live(folded)) > 1 => view.board = 5

\* The winners the scene names when a deal is over are players still in it, and what
\* they are said to win is the whole pot.
WinnersTakeThePot ==
    game.timer = "next" =>
        /\ view.winners \subseteq live(folded)
        /\ sum_u([s \in Seats |-> IF s \in view.winners THEN payout(ledger_now, game.before, s) ELSE 0])
              = sum_u(total)
==============================================================================
