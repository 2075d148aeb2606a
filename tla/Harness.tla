------------------------------ MODULE Harness ------------------------------
(***************************************************************************)
(* The repository's own run of the contract: the table of players the      *)
(* tests and the proof gate play with (src/contracts/harness.ts), and the  *)
(* three deals of the gate (src/scripts/prove-deal.ts), which must run     *)
(* every circuit once so that each can be proved.  A line of a deal is one *)
(* call, or a helper that calls circuits until the table is where it is    *)
(* wanted; what a helper calls next is read from the ledger.               *)
(***************************************************************************)
EXTENDS DealContract, Sequences

P == INSTANCE Payout

CONSTANT Line   \* the players in the order they sit down

VARIABLES
    script,     \* which of the gate's deals is played
    at,         \* the line it is at
    broke,      \* who lost everything in the showdown
    preimages   \* the circuits that have run

scriptVars == <<script, at, broke, preimages>>

CIRCUITS == {"join", "buy_in", "stand_up", "leave", "start_deal", "post_key", "shuffle",
             "post_next_key", "shuffle_next", "expire_next", "shares", "release", "act",
             "act_out", "show", "show_hand", "settle", "expire", "settle_abort"}

\* A heads-up deal to showdown with the next deck prepared alongside, then a buy-in
\* and a leave; a deal aborted in the keys; a preparation step missed.
Scripts ==
    [showdown |-> <<"seated", "dealt", "prepare", "checked down", "released", "shoves",
                    "is called", "tableAll", "showAll", "settles", "buys in", "stands up",
                    "leaves">>,
     abort |-> <<"seated", "starts", "key 0", "key 2", "keys missed", "expires",
                 "settles the abort">>,
     missed |-> <<"seated", "dealt", "foldOut", "next key 0", "next key 2",
                  "preparation missed", "expires the next">>]

seated_for == [showdown |-> 2, abort |-> 3, missed |-> 3]

ended == at > Len(Scripts[script])
line == Scripts[script][at]

\* Mutant: the keys' 60 seconds without the clock's slack.
keys_missed_early == 60

\* How long the gate lets a step be missed: its budget after the 60 seconds' slack.
keys_missed == 120
preparation_missed == 240

------------------------------------------------------------------------------
(* The calls of a line. *)

calls(s, circuit) == {[seat |-> s, circuit |-> circuit, kind |-> 0, to |-> 0]}
bets(s, circuit, kind, to) == {[seat |-> s, circuit |-> circuit, kind |-> kind, to |-> to]}

\* The lowest seat of S calls a circuit, as long as there is one.
lowest(S, circuit) == IF S = {} THEN {} ELSE calls(first_in(S), circuit)

hole_need == 2 * n_players - 2

\* The deal is started; unless a prepared deck serves, everyone posts a key and
\* shuffles; everyone shares everyone else's hole cards.
dealt ==
    CASE phase \in {"idle", "done"} -> calls(0, "start_deal")
      [] phase = "keys" -> lowest({s \in in_deal : keys[s] = NoPlayer}, "post_key")
      [] phase = "shuffle" -> lowest(in_deal \ deck, "shuffle")
      [] phase = "holes" -> lowest({s \in in_deal : hole_shares[s] < hole_need}, "shares")
      [] OTHER -> {}

prepare ==
    CASE next_prep = "keys" ->
             lowest({s \in next_in_deal : next_keys[s] = NoPlayer}, "post_next_key")
      [] next_prep = "shuffle" -> calls(next_turn, "shuffle_next")
      [] OTHER -> {}

\* checkAndRelease, first half: the street is called or checked down.
checked_down ==
    IF phase = "playing"
    THEN bets(to_act, "act", IF bet[to_act] < current_bet THEN 1 ELSE 0, 0) ELSE {}

\* And second half: those still in whose shares are short release the next.
released_by_all ==
    LET need == <<3, 4, 5>>[release_street]
    IN IF phase = "release"
       THEN lowest({s \in live(folded) : board_shares[s] < need}, "release") ELSE {}

foldOut == IF phase = "playing" THEN bets(to_act, "act_out", 0, 0) ELSE {}

tableAll ==
    IF phase = "tabling"
    THEN lowest({s \in live(folded) : ~has_shown(s, shares_posted)}, "show") ELSE {}

showAll == lowest({s \in live(folded) : scores[s] = 0}, "show_hand")

\* What a line calls next.  The lines that are a single call go on after it, the
\* helpers when they have nothing more to call.
next_calls ==
    CASE line = "seated" ->
             IF count_b(occupied) < seated_for[script]
             THEN calls(count_b(occupied), "join") ELSE {}
      [] line = "dealt" -> dealt
      [] line = "prepare" -> prepare
      [] line = "checked down" -> checked_down
      [] line = "released" -> released_by_all
      [] line = "foldOut" -> foldOut
      [] line = "tableAll" -> tableAll
      [] line = "showAll" -> showAll
      [] line = "starts" -> calls(0, "start_deal")
      [] line = "shoves" -> bets(to_act, "act_out", 2, bet[to_act] + stack[to_act])
      [] line = "is called" -> bets(to_act, "act_out", 1, 0)
      [] line = "settles" -> calls(0, "settle")
      [] line = "buys in" -> lowest({broke} \ {NONE}, "buy_in")
      [] line = "stands up" -> calls(1 - broke, "stand_up")
      [] line = "leaves" -> calls(1 - broke, "leave")
      [] line = "key 0" -> calls(0, "post_key")
      [] line = "key 2" -> calls(2, "post_key")
      [] line = "next key 0" -> calls(0, "post_next_key")
      [] line = "next key 2" -> calls(2, "post_next_key")
      [] line = "expires" -> calls(2, "expire")
      [] line = "settles the abort" -> calls(2, "settle_abort")
      [] line = "expires the next" -> calls(2, "expire_next")
      [] OTHER -> {}

helpers == {"seated", "dealt", "prepare", "checked down", "released", "foldOut",
            "tableAll", "showAll"}
waits == {"keys missed", "preparation missed"}

\* Where a helper must have brought the table.
brought ==
    CASE line = "dealt" -> phase = "playing"
      [] line = "prepare" -> next_prep = "ready"
      [] line = "foldOut" -> phase = "done"
      [] OTHER -> TRUE

\* The division of a player's forfeit the harness's players propose is one the circuit
\* takes: of the offender's bond and bets, of the bond of whoever the next deck awaits.
forfeit_divides ==
    LET payees == live(folded) \ {offender}
        w == P!forfeitSplit(BOND + total[offender], payees)
    IN w.share * count_b(payees) + w.odd = BOND + total[offender] /\ w.odd < count_b(payees)

prep_forfeit_divides ==
    LET late == IF next_prep = "keys"
                THEN first_in({s \in next_in_deal : next_keys[s] = NoPlayer}) ELSE next_turn
        payees == (next_in_deal \cap occupied) \ {late}
        w == P!prepForfeitSplit(BOND, late, next_in_deal, occupied)
    IN late \in occupied => w.share * count_b(payees) + w.odd = BOND /\ w.odd < count_b(payees)

\* A call of the compiled contract, at the table's clock.
performs(c) ==
    LET p == Line[c.seat + 1]
        s == c.seat
        others == 0..(2 * n_players - 1) \ own_positions(s)
    IN \/ c.circuit = "join" /\ join(p, MAX_BUY_IN)
       \/ c.circuit = "start_deal" /\ start_deal(time)
       \/ c.circuit = "post_key" /\ post_key(p, s, time)
       \/ c.circuit = "shuffle" /\ shuffle(p, s, time)
       \/ c.circuit = "shares" /\ shares(p, s, others, time)
       \/ c.circuit = "post_next_key" /\ post_next_key(p, s, time)
       \/ c.circuit = "shuffle_next" /\ shuffle_next(p, s, time)
       \/ c.circuit = "act" /\ act(p, s, c.kind, c.to, time)
       \/ c.circuit = "act_out" /\ act_out(p, s, c.kind, c.to, time)
       \/ c.circuit = "release" /\ release(p, s, time)
       \/ c.circuit = "show" /\ show(p, s, time)
       \/ c.circuit = "show_hand" /\ \E score \in Scores : show_hand(p, s, score, time)
       \/ c.circuit = "settle" /\ settle
       \/ c.circuit = "buy_in" /\ buy_in(p, s, MAX_BUY_IN)
       \/ c.circuit = "stand_up" /\ stand_up(p, s, TRUE)
       \/ c.circuit = "leave" /\ leave(p, s)
       \/ c.circuit = "expire" /\ expire
       \/ c.circuit = "settle_abort" /\ forfeit_divides /\ settle_abort
       \/ c.circuit = "expire_next" /\ prep_forfeit_divides /\ expire_next(time)

HarnessInit ==
    /\ Init
    /\ script \in DOMAIN Scripts /\ at = 1 /\ broke = NONE /\ preimages = {}

Calls ==
    /\ ~ended
    /\ \E c \in next_calls :
           /\ performs(c)
           /\ preimages' = preimages \cup {c.circuit}
           /\ at' = IF line \in helpers THEN at ELSE at + 1
           /\ broke' = IF line = "settles" THEN first_in({s \in in_deal : stack'[s] = 0})
                       ELSE broke
    /\ UNCHANGED script

Returns ==
    /\ ~ended /\ line \in helpers /\ next_calls = {} /\ brought
    /\ at' = at + 1
    /\ UNCHANGED <<vars, script, broke, preimages>>

Waits ==
    /\ ~ended /\ line \in waits
    /\ time' = time + (IF line = "keys missed" THEN keys_missed ELSE preparation_missed)
    /\ at' = at + 1
    /\ UNCHANGED <<escrow, seatVars, stack, rosterVars, stageVars, streetVars, potVars,
                   deckVars, shareVars, showVars, nextVars, release_street, bank, act_by,
                   offender, script, broke, preimages>>

HarnessStep == Calls \/ Returns \/ Waits

------------------------------------------------------------------------------

\* The circuits a deal of the gate is the first to run.
counted_on ==
    [showdown |-> CIRCUITS \ {"expire", "settle_abort", "expire_next"},
     abort |-> {"expire", "settle_abort"},
     missed |-> {"expire_next"}]

\* "Plays deals through the contract locally until every circuit has run once"
\* (prove-deal.ts): at every line of its three deals the contract takes the call the
\* harness makes, each helper brings the table where it is wanted, and at the end
\* the deals have run all nineteen circuits between them.  Except when the two
\* hands of the showdown tie: nobody is broke then, and the gate has nobody to call
\* buy_in for.
GateRunsEveryCircuit ==
    IF ended THEN counted_on[script] \subseteq preimages
    ELSE \/ line \in waits
         \/ next_calls = {} /\ line \in helpers /\ brought
         \/ \E c \in next_calls : ENABLED performs(c)
         \/ line = "buys in" /\ broke = NONE /\ scores[0] = scores[1]
=============================================================================
