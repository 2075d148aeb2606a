----------------------------- MODULE DealLedger -----------------------------
(***************************************************************************)
(* The ledger of src/contracts/deal.compact: what a table keeps on chain,  *)
(* its constants, its initial state and the circuits that only read it.    *)
(*                                                                         *)
(* A player is a model value that stands for their three secrets: the      *)
(* identity (player_secret), the deck key and the next deck's key.  A key  *)
(* point on the ledger is the player who knows its secret, so only that    *)
(* player passes a check against it.  The payout address is recorded and   *)
(* removed together with seat_owner and is the player's own.               *)
(* A locked deck is the set of seats that have mixed it since it was       *)
(* fresh; a joint key is the set of <<seat, key>> whose points it sums.    *)
(***************************************************************************)
EXTENDS SeatVectors, FiniteSets

CONSTANTS
    Players,        \* everyone who may ever hold a seat
    NoPlayer,       \* an empty seat, a missing key
    MIN_BUY_IN,     \* 80 in the code: stakes are scaled down for model checking
    MAX_BUY_IN,     \* 200 in the code
    BIG_BLIND,      \* 2 in the code; the small blind is the literal 1 there
    Amounts,        \* buy-ins, and raise targets, tried as inputs
    Scores,         \* proven hand scores: score5 never returns 0
    Times,          \* block times, and clocks a caller states
    MaxDeals,       \* bound: deals started at this table
    PartialShares   \* bound: TRUE allows hole shares in several transactions

ASSUME PlayersAssumption == NoPlayer \notin Players
ASSUME StakesAssumption ==
    /\ MIN_BUY_IN \in Nat /\ MAX_BUY_IN \in Nat /\ BIG_BLIND \in Nat
    /\ 0 < MIN_BUY_IN /\ MIN_BUY_IN <= MAX_BUY_IN /\ 0 < BIG_BLIND
ASSUME InputsAssumption ==
    /\ Amounts \subseteq Nat /\ Scores \subseteq Nat \ {0} /\ Times \subseteq Nat \ {0}
    /\ MaxDeals \in Nat /\ PartialShares \in BOOLEAN

BOND == MAX_BUY_IN

\* Budgets in seconds.
KEYS_SECONDS == 60
SHUFFLE_SECONDS == 240
HOLES_SECONDS == 90
RELEASE_SECONDS == 90
SHOWDOWN_SECONDS == 90
TABLING_SECONDS == 60
PREP_KEYS_SECONDS == 180
PREP_SHUFFLE_SECONDS == 480
ACT_SECONDS == 30
TIME_BANK_SECONDS == 30
CLOCK_SLACK == 60
SHUFFLE_SLACK == 240

VARIABLES
    time,             \* the block's time (the chain's, not the contract's)
    escrow,           \* tokens the contract holds: received less sent
    seat_owner, stack, leaving,
    phase, deal_no, in_deal, n_players, dealer, turn, deadline, offender,
    street, release_street, to_act, current_bet, min_raise,
    bet, total, folded, all_in, acted, bank, act_by,
    deck, joint_key, keys, keys_posted, shuffles_done,
    shares_posted, hole_shares, holes_done, board_shares, scores, shown,
    next_prep, next_in_deal, next_n_players, next_deck, next_joint_key,
    next_keys, next_keys_posted, next_turn, next_deadline

\* Grouped by what the circuits change together.
seatVars   == <<seat_owner, leaving>>
moneyVars  == <<stack, escrow>>
rosterVars == <<deal_no, in_deal, n_players, dealer>>
stageVars  == <<phase, deadline, to_act>>
streetVars == <<street, current_bet, min_raise, bet, acted>>
potVars    == <<total, folded, all_in>>
deckVars   == <<deck, joint_key, keys, keys_posted, shuffles_done, turn>>
shareVars  == <<shares_posted, hole_shares, holes_done, board_shares>>
showVars   == <<scores, shown>>
nextVars   == <<next_prep, next_in_deal, next_n_players, next_deck, next_joint_key,
                next_keys, next_keys_posted, next_turn, next_deadline>>
vars == <<time, seatVars, moneyVars, rosterVars, stageVars, streetVars, potVars,
          deckVars, shareVars, showVars, nextVars,
          release_street, bank, act_by, offender>>

Phase == {"idle", "keys", "shuffle", "holes", "playing", "release", "tabling",
          "showdown", "done", "aborted"}
Prep == {"none", "keys", "shuffle", "ready"}

no_keys == [s \in Seats |-> NoPlayer]

\* A table nobody has dealt at yet, whoever sits there.
NeverDealt ==
    /\ leaving = {}
    /\ phase = "idle" /\ deal_no = 0 /\ in_deal = {} /\ n_players = 0
    /\ dealer = NONE /\ turn = 0 /\ deadline = 0 /\ offender = NONE
    /\ street = 0 /\ release_street = 0 /\ to_act = NONE
    /\ current_bet = 0 /\ min_raise = 0 /\ bet = zeros /\ total = zeros
    /\ folded = {} /\ all_in = {} /\ acted = {} /\ bank = zeros /\ act_by = 0
    /\ deck = {} /\ joint_key = {} /\ keys = no_keys /\ keys_posted = 0
    /\ shuffles_done = 0
    /\ shares_posted = {} /\ hole_shares = zeros /\ holes_done = 0
    /\ board_shares = zeros /\ scores = zeros /\ shown = 0
    /\ next_prep = "none" /\ next_in_deal = {} /\ next_n_players = 0
    /\ next_deck = {} /\ next_joint_key = {} /\ next_keys = no_keys
    /\ next_keys_posted = 0 /\ next_turn = NONE /\ next_deadline = 0

\* The constructor: an empty table.
Init ==
    /\ time \in Times /\ escrow = 0
    /\ seat_owner = no_keys /\ stack = zeros
    /\ NeverDealt

------------------------------------------------------------------------------
(* Circuits that only read. *)

occupied == {s \in Seats : seat_owner[s] # NoPlayer}

\* p's identity is the one at seat s.
owner_check(s, p) == seat_owner[s] = p

\* p knows the deck key behind seat s's posted point.
key_check(s, p) == keys[s] = p

\* The clock a caller states is not ahead of the block, and within the slack.
check_clock(now, slack) == now <= time /\ time < now + slack
check_now(now) == check_clock(now, CLOCK_SLACK)

\* Mutant: the deadline counts from the stated clock alone.
due_by_from_stated(now, slack, budget) == now + budget

due_by(now, slack, budget) == now + slack + budget
due(now, budget) == due_by(now, CLOCK_SLACK, budget)

\* Mutant: an aborted deal counts as over before its bets are returned.
not_dealing_aborted(s) == phase \in {"idle", "done", "aborted"} \/ s \notin in_deal

\* Between deals, or sitting out the one in progress.
not_dealing(s) == phase \in {"idle", "done"} \/ s \notin in_deal

players_present == {s \in occupied : stack[s] > 0 /\ s \notin leaving}

\* The players still in, given who has folded; and those who can still bet.
live(f) == in_deal \ f
\* Mutant: a player who is all in still gets the action.
actors_all_in(f, a) == in_deal \ f

actors(f, a) == in_deal \ (f \cup a)

\* Mutant: players who are all in are taken to have released.
released_but_all_in(f, rs, bs) == \A s \in actors(f, all_in) : bs[s] >= board_len(rs)

\* Every player still in has released up to street rs, given how many board
\* positions each has shared.
released(f, rs, bs) == \A s \in live(f) : bs[s] >= board_len(rs)

\* Mutant: only the first hole card is refused.
own_first_position(s) == {2 * order_of(in_deal, s)}

\* The two hole positions of seat s, and the board's positions of streets
\* after `from` up to and including `to`.
own_positions(s) == {2 * order_of(in_deal, s), 2 * order_of(in_deal, s) + 1}
board_positions(from, to) ==
    (2 * n_players + board_len(from))..(2 * n_players + board_len(to) - 1)

\* Among the shares sp, seat s has posted those for its own hole cards.
has_shown(s, sp) == <<2 * order_of(in_deal, s), s>> \in sp

first_without_key == first_in({s \in in_deal : keys[s] = NoPlayer})
first_without_holes == first_in({s \in in_deal : hole_shares[s] < 2 * n_players - 2})
first_without_release ==
    first_in({s \in live(folded) : board_shares[s] < board_len(release_street)})
first_without_show == first_in({s \in live(folded) : ~has_shown(s, shares_posted)})
first_without_score == first_in({s \in live(folded) : scores[s] = 0})

==============================================================================
