------------------------------ MODULE Dealing ------------------------------
(***************************************************************************)
(* A deal's cards: start_deal, post_key, shuffle, shares, release and show *)
(* of src/contracts/deal.compact, with close_street, run_out and           *)
(* resume_betting, which move a deal between streets.  Shares, releases    *)
(* and shows are checked against the seat's deck key, never its owner.     *)
(***************************************************************************)
EXTENDS NextDeck

\* Hands the action to seat s: 30 seconds, and what bk leaves of their bank.
set_turn(s, now, bk) ==
    /\ to_act' = s
    /\ act_by' = due(now, ACT_SECONDS)
    /\ deadline' = due(now, ACT_SECONDS) + bk[s]

\* Mutant: a deck somebody has yet to mix is dealt from.
prepared_unmixed == next_prep \in {"shuffle", "ready"} /\ next_in_deal \subseteq players_present

\* Everyone the prepared deck was shuffled for is seated here with chips.
prepared == next_prep = "ready" /\ next_in_deal \subseteq players_present

\* The small and the big blind of a deal among `v` with the button at d: heads
\* up, the dealer is the small blind.
small_blind(v, d) == IF count_b(v) = 2 THEN d ELSE next_round(v, d)
big_blind(v, d) == next_round(v, small_blind(v, d))

\* What each seat posts before the cards: both blinds are capped by the stack.
blinds(v, d) ==
    [s \in Seats |-> IF s = big_blind(v, d) THEN min_u(BIG_BLIND, stack[s])
                     ELSE IF s = small_blind(v, d) THEN min_u(1, stack[s])
                     ELSE 0]

\* First to act after the blinds b, which put the seats of `a` all in; nobody
\* when the only one left to bet has the big blind in already.
first_to_act(v, d, b, a) ==
    LET first == first_clockwise(big_blind(v, d), v \ a)
        covers == first # NONE /\ b[first] >= BIG_BLIND
    IN IF count_b(v \ a) > 1 \/ ~covers THEN first ELSE NONE

start_deal_asserts(now) ==
    /\ phase \in {"idle", "done"}
    /\ check_now(now)
    /\ count_b(players_present) >= 2
    /\ deal_no < MaxDeals

start_deal(now) ==
    LET v == IF prepared THEN next_in_deal ELSE players_present
        d == IF dealer = NONE THEN first_in(v) ELSE next_round(v, dealer)
        b == blinds(v, d)
        a == {s \in Seats \cap {small_blind(v, d), big_blind(v, d)} : b[s] = stack[s]}
    IN
    /\ start_deal_asserts(now)
    /\ in_deal' = v
    /\ n_players' = IF prepared THEN next_n_players ELSE count_b(v)
    /\ deal_no' = deal_no + 1
    /\ deck' = IF prepared THEN next_deck ELSE {}
    /\ joint_key' = IF prepared THEN next_joint_key ELSE {}
    /\ keys' = IF prepared THEN next_keys ELSE no_keys
    /\ keys_posted' = 0 /\ shuffles_done' = 0
    /\ shares_posted' = {} /\ hole_shares' = zeros /\ holes_done' = 0
    /\ board_shares' = zeros /\ scores' = zeros /\ shown' = 0
    /\ offender' = NONE
    /\ dealer' = d
    /\ stack' = [s \in Seats |-> stack[s] - b[s]]
    /\ bet' = b /\ total' = b
    /\ folded' = {} /\ all_in' = a /\ acted' = {}
    /\ bank' = [s \in Seats |-> TIME_BANK_SECONDS]
    /\ street' = 0 /\ current_bet' = BIG_BLIND /\ min_raise' = BIG_BLIND
    /\ to_act' = first_to_act(v, d, b, a)
    /\ IF prepared
       THEN phase' = "holes" /\ deadline' = due(now, HOLES_SECONDS)
       ELSE phase' = "keys" /\ deadline' = due(now, KEYS_SECONDS)
    /\ begin_prep(now, players_present)
    /\ UNCHANGED <<time, escrow, seatVars, turn, release_street, act_by>>

post_key_asserts(p, s, now) ==
    /\ phase = "keys"
    /\ owner_check(s, p)
    /\ s \in in_deal
    /\ keys[s] = NoPlayer
    /\ check_now(now)

post_key(p, s, now) ==
    /\ post_key_asserts(p, s, now)
    /\ keys' = [keys EXCEPT ![s] = p]
    /\ joint_key' = joint_key \cup {<<s, p>>}
    /\ keys_posted' = keys_posted + 1
    /\ IF keys_posted' = n_players
       THEN /\ phase' = "shuffle"
            /\ turn' = first_in(in_deal)
            /\ deadline' = due(now, SHUFFLE_SECONDS)
       ELSE UNCHANGED <<phase, turn, deadline>>
    /\ UNCHANGED <<time, seatVars, moneyVars, rosterVars, to_act, streetVars, potVars, deck,
                   shuffles_done, shareVars, showVars, nextVars, release_street, bank, act_by,
                   offender>>

shuffle_asserts(p, s, now) ==
    /\ phase = "shuffle"
    /\ owner_check(s, p)
    /\ s = turn
    /\ check_clock(now, SHUFFLE_SLACK)

shuffle(p, s, now) ==
    LET nxt == next_in(in_deal, s) IN
    /\ shuffle_asserts(p, s, now)
    /\ deck' = deck \cup {s}
    /\ shuffles_done' = shuffles_done + 1
    /\ IF nxt = NONE
       THEN /\ phase' = "holes"
            /\ deadline' = due_by(now, SHUFFLE_SLACK, HOLES_SECONDS)
            /\ UNCHANGED turn
       ELSE /\ turn' = nxt
            /\ deadline' = due_by(now, SHUFFLE_SLACK, SHUFFLE_SECONDS)
            /\ UNCHANGED phase
    /\ UNCHANGED <<time, seatVars, moneyVars, rosterVars, to_act, streetVars, potVars,
                   joint_key, keys, keys_posted, shareVars, showVars, nextVars,
                   release_street, bank, act_by, offender>>

------------------------------------------------------------------------------
(* Between streets. *)

\* Street st's betting is over: to showdown after the river, to tabling when
\* nobody can bet any more, otherwise to the next street's release.
close_street(now, st, betting) ==
    /\ to_act' = NONE
    /\ \/ /\ st = 3
          /\ phase' = "showdown"
          /\ deadline' = due(now, SHOWDOWN_SECONDS)
          /\ UNCHANGED release_street
       \/ /\ st # 3 /\ count_b(betting) <= 1
          /\ phase' = "tabling"
          /\ deadline' = due(now, TABLING_SECONDS)
          /\ UNCHANGED release_street
       \/ /\ st # 3 /\ count_b(betting) > 1
          /\ phase' = "release"
          /\ release_street' = st + 1
          /\ deadline' = due(now, RELEASE_SECONDS)

\* Hands tabled: the rest of the board runs out in one release, or straight to
\* showdown when every share is already there.
run_out(now) ==
    IF released(folded, 3, board_shares)
    THEN /\ street' = 3
         /\ phase' = "showdown"
         /\ deadline' = due(now, SHOWDOWN_SECONDS)
         /\ UNCHANGED release_street
    ELSE /\ release_street' = 3
         /\ phase' = "release"
         /\ deadline' = due(now, RELEASE_SECONDS)
         /\ UNCHANGED street

\* The released street's betting begins, unless nobody is left to bet.
resume_betting(now) ==
    LET betting == actors(folded, all_in) IN
    /\ street' = release_street
    /\ bet' = zeros /\ acted' = {} /\ current_bet' = 0 /\ min_raise' = BIG_BLIND
    /\ IF count_b(betting) > 1
       THEN /\ phase' = "playing"
            /\ set_turn(first_clockwise(dealer, betting), now, bank)
            /\ UNCHANGED release_street
       ELSE /\ close_street(now, release_street, betting)
            /\ UNCHANGED act_by

------------------------------------------------------------------------------
(* Shares. *)

\* Mutant: a repeated share counts again.
newly_shared_repeats(ps, s) == Cardinality(ps)

\* How many of the positions ps seat s has not shared yet: repeating a share
\* posts the same point and counts for nothing.
newly_shared(ps, s) == Cardinality({q \in ps : <<q, s>> \notin shares_posted})

\* Mutant: betting begins although the blinds left nobody a decision.
begin_betting_always(now) ==
    /\ phase' = "playing"
    /\ IF to_act # NONE THEN set_turn(to_act, now, bank)
       ELSE UNCHANGED <<to_act, act_by, deadline>>

\* Betting begins with whoever start_deal left to act; when the blinds left
\* nobody a decision, hands are tabled at once.
begin_betting(now) ==
    IF to_act # NONE
    THEN /\ phase' = "playing"
         /\ set_turn(to_act, now, bank)
    ELSE /\ phase' = "tabling"
         /\ deadline' = due(now, TABLING_SECONDS)
         /\ UNCHANGED <<to_act, act_by>>

shares_asserts(p, s, ps, now) ==
    /\ phase = "holes"
    /\ key_check(s, p)
    /\ check_now(now)
    /\ ps # {} /\ ps \subseteq 0..(2 * n_players - 1) \ own_positions(s)

\* Shares of seat s for other players' hole positions ps.  Once everyone has
\* shared all of them betting begins.
shares(p, s, ps, now) ==
    LET need == 2 * n_players - 2
        count == hole_shares[s] + newly_shared(ps, s)
        complete == hole_shares[s] < need /\ count = need
    IN
    /\ shares_asserts(p, s, ps, now)
    /\ hole_shares' = [hole_shares EXCEPT ![s] = count]
    /\ shares_posted' = shares_posted \cup (ps \X {s})
    /\ holes_done' = IF complete THEN holes_done + 1 ELSE holes_done
    /\ IF complete /\ holes_done + 1 = n_players
       THEN begin_betting(now)
       ELSE UNCHANGED <<stageVars, act_by>>
    /\ UNCHANGED <<time, seatVars, moneyVars, rosterVars, streetVars, potVars, deckVars,
                   board_shares, showVars, nextVars, release_street, bank, offender>>

\* Mutant: a release runs one street too far.
release_too_far == board_positions(street, release_street + 1)

\* The board positions of the street being released: all that are left when the
\* board runs out.
release_positions == board_positions(street, release_street)

release_asserts(p, s, now) ==
    /\ phase = "release"
    /\ key_check(s, p)
    /\ check_now(now)

\* Shares of seat s for every one of them.
release(p, s, now) ==
    LET ps == release_positions IN
    /\ release_asserts(p, s, now)
    /\ board_shares' = [board_shares EXCEPT ![s] = @ + newly_shared(ps, s)]
    /\ shares_posted' = shares_posted \cup (ps \X {s})
    /\ IF released(folded, release_street, board_shares')
       THEN resume_betting(now)
       ELSE UNCHANGED <<stageVars, street, current_bet, min_raise, bet, acted,
                        release_street, act_by>>
    /\ UNCHANGED <<time, seatVars, moneyVars, rosterVars, potVars, deckVars, hole_shares,
                   holes_done, showVars, nextVars, bank, offender>>

show_asserts(p, s, now) ==
    /\ phase \in {"tabling", "showdown", "done", "aborted"}
    /\ s \in in_deal
    /\ key_check(s, p)
    /\ check_now(now)

\* Seat s's own shares for its own hole cards: by choice once a deal is over,
\* owed by everyone still in while hands are tabled.
show(p, s, now) ==
    /\ show_asserts(p, s, now)
    /\ shares_posted' = shares_posted \cup (own_positions(s) \X {s})
    /\ IF phase = "tabling" /\ \A k \in live(folded) : has_shown(k, shares_posted')
       THEN run_out(now)
       ELSE UNCHANGED <<phase, deadline, street, release_street>>
    /\ UNCHANGED <<time, seatVars, moneyVars, rosterVars, to_act, current_bet, min_raise, bet,
                   acted, potVars, deckVars, hole_shares, holes_done, board_shares, showVars,
                   nextVars, bank, act_by, offender>>

==============================================================================
