--------------------------- MODULE DealProperties ---------------------------
(***************************************************************************)
(* What the table contract promises: its type, its books, the secrecy of   *)
(* its cards, its betting, its clock, and the way a deal ends.             *)
(***************************************************************************)
EXTENDS DealContract

dealing == phase \notin {"idle", "done"}

Hole == 0..11          \* at most six players, two cards each
Positions == 0..16     \* and five board cards

SeatTypes == seat_owner \in [Seats -> Players \cup {NoPlayer}] /\ leaving \subseteq Seats
MoneyTypes == stack \in [Seats -> Nat] /\ escrow \in Int
RosterTypes == /\ deal_no \in Nat /\ in_deal \subseteq Seats /\ n_players \in 0..6
               /\ dealer \in Seats \cup {NONE}
StageTypes == phase \in Phase /\ deadline \in Nat /\ to_act \in Seats \cup {NONE}
StreetTypes == /\ street \in 0..3 /\ current_bet \in Nat /\ min_raise \in Nat
               /\ bet \in [Seats -> Nat] /\ acted \subseteq Seats
PotTypes == total \in [Seats -> Nat] /\ folded \subseteq Seats /\ all_in \subseteq Seats
DeckTypes == /\ deck \subseteq Seats /\ joint_key \subseteq Seats \X Players
             /\ keys \in [Seats -> Players \cup {NoPlayer}]
             /\ keys_posted \in Nat /\ shuffles_done \in Nat /\ turn \in Seats \cup {NONE}
ShareTypes == /\ shares_posted \subseteq Positions \X Seats
              /\ hole_shares \in [Seats -> Nat] /\ holes_done \in Nat
              /\ board_shares \in [Seats -> Nat]
ShowTypes == scores \in [Seats -> Scores \cup {0}] /\ shown \in Nat
NextTypes == /\ next_prep \in Prep /\ next_in_deal \subseteq Seats /\ next_n_players \in 0..6
             /\ next_deck \subseteq Seats /\ next_joint_key \subseteq Seats \X Players
             /\ next_keys \in [Seats -> Players \cup {NoPlayer}] /\ next_keys_posted \in Nat
             /\ next_turn \in Seats \cup {NONE} /\ next_deadline \in Nat
ClockTypes == time \in Times /\ bank \in [Seats -> Nat] /\ act_by \in Nat

\* Every field has its type: no chip count, bank or counter goes below zero
\* (Uint<64> arithmetic would refuse the call) and every seat is one or NONE.
TypeOK ==
    /\ SeatTypes /\ MoneyTypes /\ RosterTypes /\ StageTypes /\ StreetTypes /\ PotTypes
    /\ DeckTypes /\ ShareTypes /\ ShowTypes /\ NextTypes /\ ClockTypes
    /\ release_street \in 0..3 /\ offender \in Seats \cup {NONE}

------------------------------------------------------------------------------
(* The books. *)

\* The books as a player sees them: a claim is the stack and the bond, a stake what
\* is in the pot of the deal in progress.
claims == [s \in Seats |-> IF s \in occupied THEN stack[s] + BOND ELSE 0]
stakes == IF dealing THEN total ELSE zeros

\* What the table owes: every seat its stack and its bond, and the bets of the
\* deal in progress.
owed_stacks == sum_u(claims)
owed_bets == IF dealing THEN sum_u(total) ELSE 0

\* The tokens the contract holds are exactly what its books owe, through
\* buy-ins, blinds, bets, side pots, forfeits and departures.
EscrowBacksBooks == escrow = owed_stacks + owed_bets

\* Nobody in a deal in progress loses their seat, or changes it, before the
\* deal is settled: leave and expire_next keep off it.
SeatsHeldDuringDeal == dealing => in_deal \subseteq occupied

\* Whatever circuits are called, in whatever order, money at the table changes hands
\* only as TableCustody says: it is bet by its owner, won out of a pot, taken home
\* between deals, or forfeited by the one player who held the table up.
Custody == INSTANCE TableCustody WITH
    Nobody <- NoPlayer,
    Bond <- BOND,
    holder <- seat_owner,
    claim <- claims,
    stake <- stakes,
    held <- escrow

KeepsCustody == Custody!CustodySpec

\* Settling can win a player no more, of each opponent's chips, than they put in
\* themselves: side pots are capped by what the winner matched.  And whoever holds the
\* best hand, alone or tied, gets back at least all they put in.
ShowdownFair ==
    [][ phase = "showdown" /\ phase' = "done" => \A w \in in_deal :
            /\ stack'[w] - stack[w] <= sum_u([s \in Seats |-> min_u(total[s], total[w])])
            /\ w \in live(folded) /\ (\A k \in live(folded) : scores[k] <= scores[w])
                   => stack'[w] >= stack[w] + total[w] ]_vars

------------------------------------------------------------------------------
(* The betting. *)

\* Whoever the contract waits for owes the street an action: in the deal with
\* chips behind, and either facing a bet or not heard since the last full raise.
\* Before the cards only the small blind may be alone in that, against a bigger
\* blind; while betting there is always such a seat.
ToActHasDecision ==
    /\ phase = "playing" => to_act # NONE
    /\ to_act # NONE => /\ to_act \in actors(folded, all_in)
                        /\ stack[to_act] > 0
                        /\ to_act \notin acted \/ bet[to_act] < current_bet
    /\ (to_act # NONE /\ phase # "playing") =>
           bet[to_act] < BIG_BLIND \/ count_b(actors(folded, all_in)) > 1

\* When a street's betting has closed, everyone who can still bet has put in as
\* much as anyone still in, and whoever has less is all in.
BetsMatched ==
    phase \in {"release", "tabling", "showdown"} =>
        \A s \in actors(folded, all_in), k \in live(folded) : total[k] <= total[s]

------------------------------------------------------------------------------
(* The cards. *)

\* From the hole cards on, the deck is locked under the keys of exactly the
\* players dealt in, and each of them has mixed it.
DeckLockedAndMixed ==
    phase \in {"holes", "playing", "release", "tabling", "showdown"} =>
        /\ joint_key = {<<s, keys[s]>> : s \in in_deal}
        /\ deck = in_deal
        /\ \A s \in in_deal : keys[s] # NoPlayer

\* Every share but seat s's own is on the ledger for pos: s can read it.
readable_by(pos, s) == \A k \in in_deal \ {s} : <<pos, k>> \in shares_posted
\* Anyone can.
readable(pos) == \A k \in in_deal : <<pos, k>> \in shares_posted

\* While anyone still has a decision, no hole card is readable to anyone but its
\* holder: the holder's own share is not on the ledger.
HoleCardsPrivate ==
    to_act # NONE =>
        \A s \in in_deal : LET first == 2 * order_of(in_deal, s) IN
            <<first, s>> \notin shares_posted /\ <<first + 1, s>> \notin shares_posted

\* While a street is being bet, no later board card is open to the table, and
\* none is readable to a player who could still face a bet from another.
BoardUnread ==
    phase = "playing" =>
        \A pos \in board_positions(street, 3) :
            /\ ~ readable(pos)
            /\ \A s \in actors(folded, all_in) :
                  readable_by(pos, s) => actors(folded, all_in) = {s}

\* "Board cards [are readable] only after every active player has released them
\* for that street" (docs/adr/0004-mental-poker-dealing.md): nobody who still
\* has a decision can read a later street's card on their own either.
BoardOnlyAfterRelease ==
    phase = "playing" =>
        \A pos \in board_positions(street, 3) :
            \A s \in actors(folded, all_in) : ~ readable_by(pos, s)

\* At showdown every card a hand needs opens: everyone dealt in, the folded
\* included, has shared the board and every other seat's hole cards.
ShowdownOpens ==
    phase = "showdown" =>
        \A s \in live(folded) :
            /\ \A pos \in own_positions(s) : opens(pos, s, TRUE)
            /\ \A pos \in board_positions(0, 3) : opens(pos, s, FALSE)

\* The counts the contract decides by are the number of shares there are.
CountsMatchShares ==
    phase \in {"holes", "playing", "release", "tabling", "showdown"} =>
        \A s \in in_deal :
            /\ hole_shares[s] = Cardinality({pos \in Hole :
                    /\ pos < 2 * n_players /\ pos \notin own_positions(s)
                    /\ <<pos, s>> \in shares_posted})
            /\ board_shares[s] = Cardinality({pos \in board_positions(0, 3) :
                    <<pos, s>> \in shares_posted})

\* "Only the seat's owner could have posted that key" (key_check): every seat
\* dealt in is held by the player whose key its cards are under.
DealtUnderOwnKey ==
    phase \in {"holes", "playing", "release", "tabling", "showdown"} =>
        \A s \in in_deal : keys[s] = seat_owner[s]

------------------------------------------------------------------------------
(* The clock. *)

budget(ph) ==
    CASE ph = "keys" -> KEYS_SECONDS       [] ph = "shuffle" -> SHUFFLE_SECONDS
      [] ph = "holes" -> HOLES_SECONDS     [] ph = "playing" -> ACT_SECONDS
      [] ph = "release" -> RELEASE_SECONDS [] ph = "tabling" -> TABLING_SECONDS
      [] OTHER -> SHOWDOWN_SECONDS

\* Whatever clock the caller states, the next step gets its whole budget from
\* the block on, and betting the actor's time bank on top.
BudgetFromTheBlock ==
    [][ deadline' \notin {deadline, 0} =>
            deadline' >= time + budget(phase')
                         + (IF phase' = "playing" THEN bank'[to_act'] ELSE 0) ]_vars

\* A deal in progress always has its next step under a deadline, or is over.
DeadlineWhileDealing == deadline = 0 <=> phase \in {"idle", "done", "aborted"}

\* A time bank only shrinks during a deal, and only its owner's action draws it.
BankOnlyDrawnByActor ==
    [][ deal_no' = deal_no =>
            \A s \in Seats : bank'[s] # bank[s] => /\ bank'[s] < bank[s]
                                                   /\ s = to_act /\ act_by < time ]_vars

------------------------------------------------------------------------------
(* How a deal ends. *)

\* An abort names a seat of the deal that is still in, with another player still
\* in to be paid, unless every hand had been shown in time.
AbortNamesOwer ==
    phase = "aborted" =>
        \/ offender \in live(folded) \cap occupied /\ live(folded) # {offender}
        \/ shown = count_b(live(folded))

\* "The deal aborts and the seat that owed the step is recorded; settle_abort
\* then pays" (expire): an abort always has an offender.
AbortAlwaysPayable == phase = "aborted" => offender # NONE

\* Some folded player had put in more than anyone still in.
overfolded == \E k \in folded : \A s \in live(folded) : total[k] > total[s]

\* While every player takes the steps they owe, before any deadline, a deal that
\* was started ends, unless its pot cannot be paid as above.
DealEnds == dealing ~> (~dealing \/ (phase = "showdown" /\ overfolded))

\* Settle pays the pot "as src/poker/payout.ts does it", which always pays all
\* of it: once every score is in, the pot can be paid.
PotAlwaysPayable ==
    phase = "showdown" /\ shown = count_b(live(folded)) => sum_u(pay) = sum_u(total)

\* Settle's own check of the pot fails for no other reason: side pots, ties and odd
\* chips always come to all of it, unless a folded player had put in more than anyone
\* still in.
OnlyOverfoldedSticks == phase = "showdown" => (sum_u(pay) = sum_u(total) <=> ~overfolded)

\* "Folded and all-in players can never stall" (docs/adr/0006-abort-economics.md):
\* a release never waits for a player who is all in.
AllInNeverAwaited == phase = "release" => first_without_release \notin all_in

------------------------------------------------------------------------------
(* The next deck. *)

\* A preparation waits for exactly one kind of step at a time: while keys are
\* wanted someone's is missing, while it is being shuffled the seats before
\* next_turn have mixed it, and once ready everyone has.
PreparationInOrder ==
    LET has_key == {s \in Seats : next_keys[s] # NoPlayer} IN
    /\ next_joint_key = {<<s, next_keys[s]>> : s \in has_key}
    /\ next_prep = "keys" => has_key # next_in_deal /\ next_deck = {}
    /\ next_prep = "shuffle" => /\ has_key = next_in_deal
                                /\ next_turn \in next_in_deal
                                /\ next_deck = {s \in next_in_deal : s < next_turn}
    /\ next_prep = "ready" => has_key = next_in_deal /\ next_deck = next_in_deal

==============================================================================
