------------------------------ MODULE DealProofs ------------------------------
(***************************************************************************)
(* The table contract's fields one by one, for every set of players, any   *)
(* stakes, any inputs and any clock: their types; that a deal in progress  *)
(* runs against a deadline and a table without one has none, so that no    *)
(* state of a deal is one nobody could expire; and what a deadline is, a   *)
(* whole budget from the block on, plus a time bank that only its owner's  *)
(* lateness draws.                                                         *)
(*                                                                         *)
(* TypeOK alone is not inductive: a raise to t commits t - bet[s], which   *)
(* is a number of chips only because nobody has more in than current_bet.  *)
(***************************************************************************)
EXTENDS DealProperties, SeatVectorsProofs, FiniteSetTheorems

\* Nobody has more in, this street, than the bet to be matched.
BetsCovered == \A s \in Seats : bet[s] <= current_bet

TypeInv == TypeOK /\ BetsCovered

\* A group of fields that a call leaves alone keeps its types.
LEMMA TypesKept ==
    ASSUME TypeInv
    PROVE  /\ UNCHANGED seatVars => SeatTypes'
           /\ UNCHANGED moneyVars => MoneyTypes'
           /\ UNCHANGED rosterVars => RosterTypes'
           /\ UNCHANGED stageVars => StageTypes'
           /\ UNCHANGED streetVars => StreetTypes' /\ BetsCovered'
           /\ UNCHANGED potVars => PotTypes'
           /\ UNCHANGED deckVars => DeckTypes'
           /\ UNCHANGED shareVars => ShareTypes'
           /\ UNCHANGED showVars => ShowTypes'
           /\ UNCHANGED nextVars => NextTypes'
           /\ UNCHANGED <<time, bank, act_by>> => ClockTypes'
<1> USE DEF TypeInv, TypeOK
<1>1. UNCHANGED seatVars => SeatTypes'
  BY DEF SeatTypes, seatVars
<1>2. UNCHANGED moneyVars => MoneyTypes'
  BY DEF MoneyTypes, moneyVars
<1>3. UNCHANGED rosterVars => RosterTypes'
  BY DEF RosterTypes, rosterVars
<1>4. UNCHANGED stageVars => StageTypes'
  BY DEF StageTypes, stageVars
<1>5. UNCHANGED streetVars => StreetTypes' /\ BetsCovered'
  BY DEF StreetTypes, BetsCovered, streetVars
<1>6. UNCHANGED potVars => PotTypes'
  BY DEF PotTypes, potVars
<1>7. UNCHANGED deckVars => DeckTypes'
  BY DEF DeckTypes, deckVars
<1>8. UNCHANGED shareVars => ShareTypes'
  BY DEF ShareTypes, shareVars
<1>9. UNCHANGED showVars => ShowTypes'
  BY DEF ShowTypes, showVars
<1>10. UNCHANGED nextVars => NextTypes'
  BY DEF NextTypes, nextVars
<1>11. UNCHANGED <<time, bank, act_by>> => ClockTypes'
  BY DEF ClockTypes
<1> QED
  BY <1>1, <1>2, <1>3, <1>4, <1>5, <1>6, <1>7, <1>8, <1>9, <1>10, <1>11

\* The players present are seats, and every stated clock is a natural.
LEMMA PresentSeats == players_present \subseteq occupied /\ occupied \subseteq Seats
  BY DEF players_present, occupied

LEMMA DueNat ==
    ASSUME NEW now \in Times, NEW budget_s \in Nat
    PROVE  /\ due(now, budget_s) \in Nat
           /\ due_by(now, SHUFFLE_SLACK, budget_s) \in Nat
  BY InputsAssumption DEF due, due_by, CLOCK_SLACK, SHUFFLE_SLACK

------------------------------------------------------------------------------
(* Seats. *)

LEMMA JoinTypes ==
    ASSUME TypeInv, NEW p \in Players, NEW buy \in Amounts, join(p, buy)
    PROVE  TypeInv'
<1> DEFINE s == first_in(Seats \ occupied)
<1>1. s \in Seats
  <2>1. s # NONE
    BY DEF join
  <2> QED
    BY <2>1, FirstIn
<1>2. SeatTypes'
  BY <1>1 DEF join, TypeInv, TypeOK, SeatTypes
<1>3. MoneyTypes'
  BY <1>1, InputsAssumption, StakesAssumption DEF join, TypeInv, TypeOK, MoneyTypes, BOND
<1>4. UNCHANGED <<time, rosterVars, stageVars, streetVars, potVars, deckVars, shareVars,
                  showVars, nextVars, release_street, bank, act_by, offender>>
  BY DEF join
<1> QED
  BY <1>2, <1>3, <1>4, TypesKept DEF TypeInv, TypeOK

LEMMA StandUpTypes ==
    ASSUME TypeInv, NEW p \in Players, NEW s \in Seats, NEW up \in BOOLEAN,
           stand_up(p, s, up)
    PROVE  TypeInv'
<1>1. SeatTypes'
  BY DEF stand_up, TypeInv, TypeOK, SeatTypes
<1>2. UNCHANGED <<time, moneyVars, rosterVars, stageVars, streetVars, potVars, deckVars,
                  shareVars, showVars, nextVars, release_street, bank, act_by, offender>>
  BY DEF stand_up
<1> QED
  BY <1>1, <1>2, TypesKept DEF TypeInv, TypeOK

LEMMA BuyInTypes ==
    ASSUME TypeInv, NEW p \in Players, NEW s \in Seats, NEW a \in Amounts, buy_in(p, s, a)
    PROVE  TypeInv'
<1>1. MoneyTypes'
  BY InputsAssumption DEF buy_in, TypeInv, TypeOK, MoneyTypes
<1>2. UNCHANGED <<time, seatVars, rosterVars, stageVars, streetVars, potVars, deckVars,
                  shareVars, showVars, nextVars, release_street, bank, act_by, offender>>
  BY DEF buy_in
<1> QED
  BY <1>1, <1>2, TypesKept DEF TypeInv, TypeOK

LEMMA LeaveTypes ==
    ASSUME TypeInv, NEW p \in Players, NEW s \in Seats, leave(p, s)
    PROVE  TypeInv'
<1>1. SeatTypes'
  BY DEF leave, free_seat, TypeInv, TypeOK, SeatTypes
<1>2. MoneyTypes'
  BY StakesAssumption DEF leave, TypeInv, TypeOK, MoneyTypes, BOND
<1>3. UNCHANGED <<time, rosterVars, stageVars, streetVars, potVars, deckVars, shareVars,
                  showVars, nextVars, release_street, bank, act_by, offender>>
  BY DEF leave
<1> QED
  BY <1>1, <1>2, <1>3, TypesKept DEF TypeInv, TypeOK

------------------------------------------------------------------------------
(* The next deck. *)

LEMMA BeginPrepTypes ==
    ASSUME TypeInv, NEW now \in Times, NEW present \in SUBSET Seats,
           begin_prep(now, present)
    PROVE  NextTypes'
<1>1. due(now, PREP_KEYS_SECONDS) \in Nat
  BY DueNat DEF PREP_KEYS_SECONDS
<1>2. count_b(present) \in 0..6
  BY CountB
<1>3. no_keys \in [Seats -> Players \cup {NoPlayer}]
  BY DEF no_keys
<1> QED
  BY <1>1, <1>2, <1>3 DEF begin_prep, NextTypes, Prep

LEMMA PostNextKeyTypes ==
    ASSUME TypeInv, NEW p \in Players, NEW s \in Seats, NEW now \in Times,
           post_next_key(p, s, now)
    PROVE  TypeInv'
<1>1. due(now, PREP_SHUFFLE_SECONDS) \in Nat
  BY DueNat DEF PREP_SHUFFLE_SECONDS
<1>2. first_in(next_in_deal) \in Seats \cup {NONE}
  BY FirstIn DEF TypeInv, TypeOK, NextTypes
<1>3. NextTypes'
  BY <1>1, <1>2 DEF post_next_key, post_next_key_asserts, TypeInv, TypeOK, NextTypes, Prep
<1>4. UNCHANGED <<time, seatVars, moneyVars, rosterVars, stageVars, streetVars, potVars,
                  deckVars, shareVars, showVars, release_street, bank, act_by, offender>>
  BY DEF post_next_key, post_next_key_asserts
<1> QED
  BY <1>3, <1>4, TypesKept DEF TypeInv, TypeOK

LEMMA ShuffleNextTypes ==
    ASSUME TypeInv, NEW p \in Players, NEW s \in Seats, NEW now \in Times,
           shuffle_next(p, s, now)
    PROVE  TypeInv'
<1>1. due_by(now, SHUFFLE_SLACK, PREP_SHUFFLE_SECONDS) \in Nat
  BY DueNat DEF PREP_SHUFFLE_SECONDS
<1>2. next_in(next_in_deal, s) \in Seats \cup {NONE}
  BY NextIn DEF TypeInv, TypeOK, NextTypes
<1>3. NextTypes'
  BY <1>1, <1>2 DEF shuffle_next, shuffle_next_asserts, TypeInv, TypeOK, NextTypes, Prep
<1>4. UNCHANGED <<time, seatVars, moneyVars, rosterVars, stageVars, streetVars, potVars,
                  deckVars, shareVars, showVars, release_street, bank, act_by, offender>>
  BY DEF shuffle_next, shuffle_next_asserts
<1> QED
  BY <1>3, <1>4, TypesKept DEF TypeInv, TypeOK

\* A split gives every seat a natural number of chips.
LEMMA SplitTypes ==
    ASSUME NEW amount \in Nat, NEW v \in SUBSET Seats
    PROVE  split_among(amount, v) \in [Seats -> Nat]
<1>1. CASE v = {}
  BY <1>1 DEF split_among
<1>2. CASE v # {}
  <2>1. count_b(v) \in Nat /\ count_b(v) > 0
    BY <1>2, CountB
  <2>2. amount \div count_b(v) \in Nat /\ amount % count_b(v) \in Nat
    BY <2>1
  <2> QED
    BY <2>2 DEF split_among
<1> QED
  BY <1>1, <1>2

LEMMA ExpireNextTypes ==
    ASSUME TypeInv, NEW now \in Times, expire_next(now)
    PROVE  TypeInv'
<1> DEFINE o == next_offender
           eligible == (next_in_deal \cap occupied) \ {o}
<1>1. o \in Seats
  <2>1. first_in({s \in next_in_deal : next_keys[s] = NoPlayer}) \in Seats \cup {NONE}
    BY FirstIn DEF TypeInv, TypeOK, NextTypes
  <2>2. o \in Seats \cup {NONE}
    BY <2>1 DEF next_offender, TypeInv, TypeOK, NextTypes
  <2>3. o # NONE
    BY DEF expire_next
  <2> QED
    BY <2>2, <2>3
<1>2. split_among(BOND, eligible) \in [Seats -> Nat]
  BY SplitTypes, StakesAssumption, PresentSeats DEF BOND
<1>3. SeatTypes' /\ MoneyTypes'
  <2>1. CASE o \in occupied
    <3>1. SeatTypes'
      BY <1>1, <2>1 DEF expire_next, free_seat, TypeInv, TypeOK, SeatTypes
    <3>2. MoneyTypes'
      <4> DEFINE won == split_among(BOND, eligible)
      <4>1. /\ stack' = [s \in Seats |-> IF s = o THEN 0 ELSE stack[s] + won[s]]
            /\ escrow' = escrow - stack[o]
        BY <2>1 DEF expire_next
      <4> HIDE DEF won, eligible, o
      <4>2. won \in [Seats -> Nat]
        BY <1>2 DEF won
      <4> QED
        BY <1>1, <4>1, <4>2 DEF TypeInv, TypeOK, MoneyTypes
    <3> QED
      BY <3>1, <3>2
  <2>2. CASE o \notin occupied
    BY <2>2, TypesKept DEF expire_next
  <2> QED
    BY <2>1, <2>2
<1>6. NextTypes'
  <2>1. players_present' \in SUBSET Seats
    BY PresentSeats DEF players_present, occupied
  <2> QED
    BY <2>1, BeginPrepTypes DEF expire_next
<1>7. UNCHANGED <<time, rosterVars, stageVars, streetVars, potVars, deckVars, shareVars,
                  showVars, release_street, bank, act_by, offender>>
  BY DEF expire_next
<1> QED
  BY <1>3, <1>6, <1>7, TypesKept DEF TypeInv, TypeOK

------------------------------------------------------------------------------
(* A deal's cards. *)

\* Blinds are natural, no bigger than the stack they come from or the big blind.
LEMMA BlindsTypes ==
    ASSUME TypeInv, NEW v \in SUBSET Seats, NEW d
    PROVE  /\ blinds(v, d) \in [Seats -> Nat]
           /\ \A s \in Seats : blinds(v, d)[s] <= stack[s] /\ blinds(v, d)[s] <= BIG_BLIND
<1>1. \A s \in Seats : stack[s] \in Nat
  BY DEF TypeInv, TypeOK, MoneyTypes
<1>2. BIG_BLIND \in Nat /\ 1 <= BIG_BLIND
  BY StakesAssumption
<1>3. ASSUME NEW s \in Seats, NEW x \in Nat, x <= BIG_BLIND
      PROVE  /\ min_u(x, stack[s]) \in Nat
             /\ min_u(x, stack[s]) <= stack[s] /\ min_u(x, stack[s]) <= BIG_BLIND
  <2>1. stack[s] \in Nat
    BY <1>1
  <2> QED
    BY <1>2, <1>3, <2>1 DEF min_u
<1> QED
  BY <1>1, <1>2, <1>3 DEF blinds

\* The first to act is a seat still able to bet, or nobody.
LEMMA FirstToAct ==
    ASSUME NEW v \in SUBSET Seats, NEW d, NEW b, NEW a
    PROVE  first_to_act(v, d, b, a) \in (v \ a) \cup {NONE}
<1>1. big_blind(v, d) \in Int
  <2>1. big_blind(v, d) \in v \cup {NONE}
    BY NextRound DEF big_blind
  <2>2. v \subseteq Int /\ NONE \in Int
    BY DEF Seats, NONE
  <2> QED
    BY <2>1, <2>2
<1>2. first_clockwise(big_blind(v, d), v \ a) \in (v \ a) \cup {NONE}
  BY <1>1, FirstClockwise
<1> QED
  BY <1>2 DEF first_to_act

LEMMA StartDealTypes ==
    ASSUME TypeInv, NEW now \in Times, start_deal(now)
    PROVE  TypeInv'
<1> DEFINE v == IF prepared THEN next_in_deal ELSE players_present
           d == IF dealer = NONE THEN first_in(v) ELSE next_round(v, dealer)
           b == blinds(v, d)
           a == {s \in Seats \cap {small_blind(v, d), big_blind(v, d)} : b[s] = stack[s]}
<1>1. v \in SUBSET Seats
  BY PresentSeats DEF TypeInv, TypeOK, NextTypes
<1>2. d \in v \cup {NONE}
  BY <1>1, FirstIn, NextRound
<1>3. b \in [Seats -> Nat] /\ \A s \in Seats : b[s] <= stack[s] /\ b[s] <= BIG_BLIND
  BY <1>1, BlindsTypes
<1>5. first_to_act(v, d, b, a) \in Seats \cup {NONE}
  BY <1>1, FirstToAct
<1>6. RosterTypes'
  <2>1. in_deal' = v /\ dealer' = d /\ deal_no' = deal_no + 1
    BY DEF start_deal, start_deal_asserts
  <2>2. n_players' \in 0..6
    BY <1>1, CountB DEF start_deal, start_deal_asserts, TypeInv, TypeOK, NextTypes
  <2> QED
    BY <1>1, <1>2, <2>1, <2>2 DEF TypeInv, TypeOK, RosterTypes
<1>7. StageTypes'
  <2>1. due(now, HOLES_SECONDS) \in Nat /\ due(now, KEYS_SECONDS) \in Nat
    BY DueNat DEF HOLES_SECONDS, KEYS_SECONDS
  <2>2. to_act' = first_to_act(v, d, b, a)
    BY DEF start_deal, start_deal_asserts
  <2>3. \/ phase' = "holes" /\ deadline' = due(now, HOLES_SECONDS)
        \/ phase' = "keys" /\ deadline' = due(now, KEYS_SECONDS)
    BY DEF start_deal, start_deal_asserts
  <2> QED
    BY <1>5, <2>1, <2>2, <2>3 DEF StageTypes, Phase
<1>8. /\ stack' = [s \in Seats |-> stack[s] - b[s]] /\ bet' = b /\ total' = b
      /\ all_in' = a /\ folded' = {} /\ acted' = {} /\ street' = 0
      /\ current_bet' = BIG_BLIND /\ min_raise' = BIG_BLIND
      /\ escrow' = escrow
  BY DEF start_deal, start_deal_asserts
<1>9. MoneyTypes' /\ StreetTypes' /\ BetsCovered'
  <2> HIDE DEF b, a
  <2>1. BIG_BLIND \in Nat
    BY StakesAssumption
  <2>2. ASSUME NEW s \in Seats PROVE stack[s] - b[s] \in Nat
    BY <1>3 DEF TypeInv, TypeOK, MoneyTypes
  <2> QED
    BY <1>3, <1>8, <2>1, <2>2 DEF TypeInv, TypeOK, MoneyTypes, StreetTypes, BetsCovered
<1>10. PotTypes'
  BY <1>3, <1>8 DEF PotTypes
<1>11. DeckTypes'
  <2>1. no_keys \in [Seats -> Players \cup {NoPlayer}]
    BY DEF no_keys
  <2>2. UNCHANGED turn
    BY DEF start_deal, start_deal_asserts
  <2>3. /\ deck' \in {next_deck, {}} /\ joint_key' \in {next_joint_key, {}}
        /\ keys' \in {next_keys, no_keys} /\ keys_posted' = 0 /\ shuffles_done' = 0
    BY DEF start_deal, start_deal_asserts
  <2> QED
    BY <2>1, <2>2, <2>3 DEF TypeInv, TypeOK, DeckTypes, NextTypes
<1>12. ShareTypes' /\ ShowTypes'
  <2>1. zeros \in [Seats -> Nat]
    BY DEF zeros
  <2>2. zeros \in [Seats -> Scores \cup {0}]
    BY DEF zeros
  <2> QED
    BY <2>1, <2>2 DEF start_deal, start_deal_asserts, ShareTypes, ShowTypes
<1>13. SeatTypes'
  BY TypesKept DEF start_deal, start_deal_asserts
<1>14. NextTypes'
  BY PresentSeats, BeginPrepTypes DEF start_deal, start_deal_asserts
<1>15. ClockTypes'
  BY DEF start_deal, start_deal_asserts, TypeInv, TypeOK, ClockTypes, TIME_BANK_SECONDS
<1>16. release_street' \in 0..3 /\ offender' \in Seats \cup {NONE}
  BY DEF start_deal, start_deal_asserts, TypeInv, TypeOK
<1> QED
  BY <1>6, <1>7, <1>9, <1>10, <1>11, <1>12, <1>13, <1>14, <1>15, <1>16 DEF TypeInv, TypeOK

LEMMA PostKeyTypes ==
    ASSUME TypeInv, NEW p \in Players, NEW s \in Seats, NEW now \in Times,
           post_key(p, s, now)
    PROVE  TypeInv'
<1>1. due(now, SHUFFLE_SECONDS) \in Nat
  BY DueNat DEF SHUFFLE_SECONDS
<1>2. first_in(in_deal) \in Seats \cup {NONE}
  BY FirstIn DEF TypeInv, TypeOK, RosterTypes
<1>3. DeckTypes' /\ StageTypes'
  BY <1>1, <1>2 DEF post_key, post_key_asserts, TypeInv, TypeOK, DeckTypes, StageTypes, Phase
<1>4. UNCHANGED <<time, seatVars, moneyVars, rosterVars, streetVars, potVars, shareVars,
                  showVars, nextVars, release_street, bank, act_by, offender>>
  BY DEF post_key, post_key_asserts
<1> QED
  BY <1>3, <1>4, TypesKept DEF TypeInv, TypeOK

LEMMA ShuffleTypes ==
    ASSUME TypeInv, NEW p \in Players, NEW s \in Seats, NEW now \in Times,
           shuffle(p, s, now)
    PROVE  TypeInv'
<1>1. /\ due_by(now, SHUFFLE_SLACK, HOLES_SECONDS) \in Nat
      /\ due_by(now, SHUFFLE_SLACK, SHUFFLE_SECONDS) \in Nat
  BY DueNat DEF HOLES_SECONDS, SHUFFLE_SECONDS
<1>2. next_in(in_deal, s) \in Seats \cup {NONE}
  BY NextIn DEF TypeInv, TypeOK, RosterTypes
<1>3. DeckTypes' /\ StageTypes'
  BY <1>1, <1>2 DEF shuffle, shuffle_asserts, TypeInv, TypeOK, DeckTypes, StageTypes, Phase
<1>4. UNCHANGED <<time, seatVars, moneyVars, rosterVars, streetVars, potVars, shareVars,
                  showVars, nextVars, release_street, bank, act_by, offender>>
  BY DEF shuffle, shuffle_asserts
<1> QED
  BY <1>3, <1>4, TypesKept DEF TypeInv, TypeOK

\* Handing the action to a seat leaves a natural deadline, whatever its bank.
LEMMA SetTurnTypes ==
    ASSUME TypeInv, NEW s \in Seats, NEW now \in Times, NEW bk \in [Seats -> Nat],
           set_turn(s, now, bk)
    PROVE  to_act' \in Seats /\ deadline' \in Nat /\ act_by' \in Nat
<1>1. due(now, ACT_SECONDS) \in Nat
  BY DueNat DEF ACT_SECONDS
<1> QED
  BY <1>1 DEF set_turn

\* Closing street st leaves a stage and a street to release.
LEMMA CloseStreetTypes ==
    ASSUME TypeInv, NEW now \in Times, NEW st \in 0..3, NEW betting,
           close_street(now, st, betting)
    PROVE  StageTypes' /\ release_street' \in 0..3
<1>1. /\ due(now, SHOWDOWN_SECONDS) \in Nat /\ due(now, TABLING_SECONDS) \in Nat
      /\ due(now, RELEASE_SECONDS) \in Nat
  BY DueNat DEF SHOWDOWN_SECONDS, TABLING_SECONDS, RELEASE_SECONDS
<1> QED
  BY <1>1 DEF close_street, StageTypes, Phase, TypeInv, TypeOK

LEMMA RunOutTypes ==
    ASSUME TypeInv, NEW now \in Times, run_out(now), UNCHANGED to_act
    PROVE  StageTypes' /\ street' \in 0..3 /\ release_street' \in 0..3
<1>1. due(now, SHOWDOWN_SECONDS) \in Nat /\ due(now, RELEASE_SECONDS) \in Nat
  BY DueNat DEF SHOWDOWN_SECONDS, RELEASE_SECONDS
<1> QED
  BY <1>1 DEF run_out, StageTypes, StreetTypes, Phase, TypeInv, TypeOK

LEMMA ResumeBettingTypes ==
    ASSUME TypeInv, NEW now \in Times, resume_betting(now), UNCHANGED bank
    PROVE  /\ StageTypes' /\ StreetTypes' /\ BetsCovered'
           /\ release_street' \in 0..3 /\ act_by' \in Nat
<1> DEFINE betting == actors(folded, all_in)
<1>1. betting \in SUBSET Seats
  BY DEF actors, TypeInv, TypeOK, RosterTypes
<1>2. StreetTypes' /\ BetsCovered'
  BY StakesAssumption
     DEF resume_betting, zeros, StreetTypes, BetsCovered, TypeInv, TypeOK
<1>3. CASE count_b(betting) > 1
  <2>1. betting # {}
    BY <1>1, <1>3, CountB
  <2>2. dealer \in Int
    BY DEF Seats, NONE, TypeInv, TypeOK, RosterTypes
  <2>3. first_clockwise(dealer, betting) \in Seats
    BY <1>1, <2>1, <2>2, FirstClockwise
  <2>4. /\ phase' = "playing" /\ UNCHANGED release_street
        /\ set_turn(first_clockwise(dealer, betting), now, bank)
    BY <1>3 DEF resume_betting
  <2>5. to_act' \in Seats /\ deadline' \in Nat /\ act_by' \in Nat
    BY <2>3, <2>4, SetTurnTypes DEF TypeInv, TypeOK, ClockTypes
  <2> QED
    BY <1>2, <2>4, <2>5 DEF StageTypes, Phase, TypeInv, TypeOK
<1>4. CASE ~(count_b(betting) > 1)
  <2>1. close_street(now, release_street, betting) /\ UNCHANGED act_by
    BY <1>4 DEF resume_betting
  <2> QED
    BY <1>2, <2>1, CloseStreetTypes DEF TypeInv, TypeOK, ClockTypes
<1> QED
  BY <1>3, <1>4

\* Any positions a table has are finitely many, so newly posted shares can be
\* counted.
LEMMA NewlyShared ==
    ASSUME NEW ps \in SUBSET Positions, NEW s
    PROVE  newly_shared(ps, s) \in Nat
<1>1. IsFiniteSet(Positions)
  <2>1. \A a, b \in Int : IsFiniteSet(a..b)
    BY FS_Interval, Zenon
  <2>2. 0 \in Int /\ 16 \in Int
    OBVIOUS
  <2>3. IsFiniteSet(0..16)
    BY <2>1, <2>2
  <2> QED
    BY <2>3 DEF Positions
<1>2. IsFiniteSet({q \in ps : <<q, s>> \notin shares_posted})
  BY <1>1, FS_Subset
<1> QED
  BY <1>2, FS_CardinalityType DEF newly_shared

LEMMA SharesTypes ==
    ASSUME TypeInv, NEW p \in Players, NEW s \in Seats, NEW ps, NEW now \in Times,
           shares(p, s, ps, now)
    PROVE  TypeInv'
<1>1. ps \in SUBSET Positions
  <2>1. n_players \in 0..6
    BY DEF TypeInv, TypeOK, RosterTypes
  <2>2. 0..(2 * n_players - 1) \subseteq Positions
    BY <2>1 DEF Positions
  <2> QED
    BY <2>2 DEF shares, shares_asserts
<1>2. newly_shared(ps, s) \in Nat
  BY <1>1, NewlyShared
<1>3. ShareTypes'
  <2>1. /\ hole_shares' = [hole_shares EXCEPT ![s] = hole_shares[s] + newly_shared(ps, s)]
        /\ shares_posted' = shares_posted \cup (ps \X {s})
        /\ holes_done' \in {holes_done, holes_done + 1}
        /\ UNCHANGED board_shares
    BY DEF shares, shares_asserts
  <2> QED
    BY <1>1, <1>2, <2>1 DEF ShareTypes, TypeInv, TypeOK
<1>4. StageTypes' /\ act_by' \in Nat
  <2>1. CASE UNCHANGED <<stageVars, act_by>>
    BY <2>1, TypesKept DEF TypeInv, TypeOK, ClockTypes
  <2>2. CASE begin_betting(now)
    <3>1. CASE to_act # NONE
      <4>1. phase' = "playing" /\ set_turn(to_act, now, bank)
        BY <2>2, <3>1 DEF begin_betting
      <4>2. to_act \in Seats /\ bank \in [Seats -> Nat]
        BY <3>1 DEF TypeInv, TypeOK, StageTypes, ClockTypes
      <4>3. to_act' \in Seats /\ deadline' \in Nat /\ act_by' \in Nat
        BY <4>1, <4>2, SetTurnTypes
      <4> QED
        BY <4>1, <4>3 DEF StageTypes, Phase
    <3>2. CASE to_act = NONE
      <4>1. due(now, TABLING_SECONDS) \in Nat
        BY DueNat DEF TABLING_SECONDS
      <4> QED
        BY <2>2, <3>2, <4>1 DEF begin_betting, StageTypes, ClockTypes, Phase, TypeInv, TypeOK
    <3> QED
      BY <3>1, <3>2
  <2> QED
    BY <2>1, <2>2 DEF shares, shares_asserts
<1>5. UNCHANGED <<time, seatVars, moneyVars, rosterVars, streetVars, potVars, deckVars,
                  showVars, nextVars, release_street, bank, offender>>
  BY DEF shares, shares_asserts
<1>6. ClockTypes'
  BY <1>4, <1>5 DEF ClockTypes, TypeInv, TypeOK
<1> QED
  BY <1>3, <1>4, <1>5, <1>6, TypesKept DEF TypeInv, TypeOK

\* Board positions of the streets of a deal are positions of its table.
LEMMA BoardPositions ==
    ASSUME TypeInv, NEW from \in 0..3, NEW to \in 0..3
    PROVE  board_positions(from, to) \in SUBSET Positions
<1>1. n_players \in 0..6
  BY DEF TypeInv, TypeOK, RosterTypes
<1>2. board_len(from) \in 0..5 /\ board_len(to) \in 0..5
  BY BoardLen
<1> QED
  BY <1>1, <1>2 DEF board_positions, Positions

LEMMA ReleaseTypes ==
    ASSUME TypeInv, NEW p \in Players, NEW s \in Seats, NEW now \in Times,
           release(p, s, now)
    PROVE  TypeInv'
<1> DEFINE ps == release_positions
<1>1. ps \in SUBSET Positions
  BY BoardPositions DEF release_positions, TypeInv, TypeOK, StreetTypes
<1>2. newly_shared(ps, s) \in Nat
  BY <1>1, NewlyShared
<1>3. ShareTypes'
  <2>1. /\ board_shares' = [board_shares EXCEPT ![s] = @ + newly_shared(ps, s)]
        /\ shares_posted' = shares_posted \cup (ps \X {s})
        /\ UNCHANGED <<hole_shares, holes_done>>
    BY DEF release, release_asserts
  <2> HIDE DEF ps
  <2> QED
    BY <1>1, <1>2, <2>1 DEF ShareTypes, TypeInv, TypeOK
<1>4. UNCHANGED <<time, seatVars, moneyVars, rosterVars, potVars, deckVars, showVars,
                  nextVars, bank, offender>>
  BY DEF release, release_asserts
<1>5. /\ StageTypes' /\ StreetTypes' /\ BetsCovered'
      /\ release_street' \in 0..3 /\ act_by' \in Nat
  <2>1. CASE resume_betting(now)
    BY <1>4, <2>1, ResumeBettingTypes
  <2>2. CASE UNCHANGED <<stageVars, street, current_bet, min_raise, bet, acted,
                         release_street, act_by>>
    BY <2>2, TypesKept DEF TypeInv, TypeOK, ClockTypes, streetVars
  <2> QED
    BY <2>1, <2>2 DEF release, release_asserts
<1>6. ClockTypes'
  BY <1>4, <1>5 DEF ClockTypes, TypeInv, TypeOK
<1> QED
  BY <1>3, <1>4, <1>5, <1>6, TypesKept DEF TypeInv, TypeOK

LEMMA ShowTypesKept ==
    ASSUME TypeInv, NEW p \in Players, NEW s \in Seats, NEW now \in Times,
           show(p, s, now)
    PROVE  TypeInv'
<1>1. own_positions(s) \subseteq Positions
  <2>1. order_of(in_deal, s) \in 0..5
    BY OrderOf DEF TypeInv, TypeOK, RosterTypes
  <2> QED
    BY <2>1 DEF own_positions, Positions
<1>2. UNCHANGED <<time, seatVars, moneyVars, rosterVars, to_act, current_bet, min_raise,
                  bet, acted, potVars, deckVars, hole_shares, holes_done, board_shares,
                  showVars, nextVars, bank, act_by, offender>>
  BY DEF show, show_asserts
<1>3. ShareTypes'
  <2>1. shares_posted' = shares_posted \cup (own_positions(s) \X {s})
    BY DEF show, show_asserts
  <2> QED
    BY <1>1, <1>2, <2>1 DEF ShareTypes, TypeInv, TypeOK
<1>4. StageTypes' /\ street' \in 0..3 /\ release_street' \in 0..3
  <2>1. CASE run_out(now)
    BY <1>2, <2>1, RunOutTypes
  <2>2. CASE UNCHANGED <<phase, deadline, street, release_street>>
    BY <1>2, <2>2 DEF StageTypes, StreetTypes, TypeInv, TypeOK
  <2> QED
    BY <2>1, <2>2 DEF show, show_asserts
<1>5. StreetTypes' /\ BetsCovered'
  BY <1>2, <1>4 DEF StreetTypes, BetsCovered, TypeInv, TypeOK
<1> QED
  BY <1>2, <1>3, <1>4, <1>5, TypesKept DEF TypeInv, TypeOK

------------------------------------------------------------------------------
(* Betting. *)

\* A legal action commits chips the seat has, never takes any back, and leaves
\* nobody with more in than the bet.
LEMMA LegalAmount ==
    ASSUME TypeInv, NEW s \in Seats, NEW kind \in Kinds, NEW t \in Nat,
           legal_action(s, kind, t)
    PROVE  LET amount == action_amount(s, kind, t)
               cb == IF kind = 2 THEN t ELSE current_bet
           IN /\ amount \in Nat /\ amount <= stack[s]
              /\ cb \in Nat /\ current_bet <= cb /\ bet[s] + amount <= cb
<1>1. /\ stack[s] \in Nat /\ bet[s] \in Nat /\ current_bet \in Nat /\ min_raise \in Nat
      /\ bet[s] <= current_bet
  BY DEF TypeInv, TypeOK, MoneyTypes, StreetTypes, BetsCovered
<1>2. CASE kind = 0
  BY <1>1, <1>2 DEF action_amount
<1>3. CASE kind = 1
  BY <1>1, <1>3 DEF action_amount, min_u
<1>4. CASE kind = 2
  <2> DEFINE max_to == bet[s] + stack[s]
             min_to == IF current_bet = 0 THEN BIG_BLIND ELSE current_bet + min_raise
  <2>1. /\ stack[s] > current_bet - bet[s] /\ t <= max_to /\ t >= min_u(min_to, max_to)
    BY <1>4 DEF legal_action
  <2>2. BIG_BLIND \in Nat
    BY StakesAssumption
  <2>3. min_to \in Nat /\ current_bet <= min_to /\ current_bet <= max_to
    BY <1>1, <2>1, <2>2
  <2>4. min_u(min_to, max_to) >= current_bet
    BY <1>1, <2>3 DEF min_u
  <2>5. min_u(min_to, max_to) \in Nat
    BY <1>1, <2>3 DEF min_u
  <2>6. t >= current_bet
    BY <1>1, <2>1, <2>4, <2>5
  <2> QED
    BY <1>1, <1>4, <2>1, <2>6 DEF action_amount
<1> QED
  BY <1>2, <1>3, <1>4 DEF Kinds

LEMMA ApplyActionTypes ==
    ASSUME TypeInv, NEW s \in Seats, NEW kind \in Kinds, NEW t \in Nat, NEW out \in BOOLEAN,
           NEW now \in Times, NEW bk \in [Seats -> Nat],
           legal_action(s, kind, t), apply_action(s, kind, t, out, now, bk),
           UNCHANGED <<escrow, street, time>>
    PROVE  /\ MoneyTypes' /\ StageTypes' /\ StreetTypes' /\ BetsCovered' /\ PotTypes'
           /\ ClockTypes' /\ release_street' \in 0..3
<1> DEFINE amount == action_amount(s, kind, t)
           full_raise == kind = 2 /\ t - current_bet >= min_raise
           f == IF out /\ kind = 0 THEN folded \cup {s} ELSE folded \ {s}
           a == IF out /\ kind # 0 THEN all_in \cup {s} ELSE all_in \ {s}
           ac == (IF full_raise THEN {} ELSE acted) \cup {s}
           b == [bet EXCEPT ![s] = @ + amount]
           cb == IF kind = 2 THEN t ELSE current_bet
           paid == [stack EXCEPT ![s] = @ - amount]
           tot == [total EXCEPT ![s] = @ + amount]
           last_in == first_in(live(f))
<1>1. /\ amount \in Nat /\ amount <= stack[s]
      /\ cb \in Nat /\ current_bet <= cb /\ bet[s] + amount <= cb
  BY LegalAmount
<1>2. f \subseteq Seats /\ a \subseteq Seats /\ ac \subseteq Seats
  BY DEF TypeInv, TypeOK, PotTypes, StreetTypes
<1>3. /\ bet' = b /\ total' = tot /\ folded' = f /\ all_in' = a /\ acted' = ac
      /\ current_bet' = cb /\ bank' = bk
      /\ min_raise' = IF full_raise THEN t - current_bet ELSE min_raise
  BY DEF apply_action
<1> HIDE DEF amount, f, a, ac, cb
<1>4. paid \in [Seats -> Nat] /\ tot \in [Seats -> Nat] /\ b \in [Seats -> Nat]
  BY <1>1 DEF TypeInv, TypeOK, MoneyTypes, PotTypes, StreetTypes
<1>5. min_raise' \in Nat
  BY <1>3 DEF TypeInv, TypeOK, StreetTypes
<1>6. StreetTypes' /\ PotTypes'
  BY <1>1, <1>2, <1>3, <1>4, <1>5 DEF TypeInv, TypeOK, StreetTypes, PotTypes
<1>7. BetsCovered'
  BY <1>1, <1>3 DEF TypeInv, TypeOK, StreetTypes, BetsCovered
<1>8. actors(f, a) \in SUBSET Seats /\ live(f) \in SUBSET Seats
  BY DEF actors, live, TypeInv, TypeOK, RosterTypes
<1>9. MoneyTypes' /\ StageTypes' /\ release_street' \in 0..3 /\ act_by' \in Nat
  <2>1. CASE /\ stack' = [paid EXCEPT ![last_in] = @ + sum_u(tot)]
             /\ phase' = "done" /\ to_act' = NONE /\ deadline' = 0
             /\ UNCHANGED <<act_by, release_street>>
    <3>1. sum_u(tot) \in Nat
      BY <1>4, SumU
    <3> HIDE DEF paid, tot, last_in
    <3>2. stack' \in [Seats -> Nat]
      <4>1. \A i \in Seats : paid[i] + sum_u(tot) \in Nat
        BY <1>4, <3>1
      <4>2. stack' = [i \in Seats |-> IF i = last_in THEN paid[i] + sum_u(tot) ELSE paid[i]]
        BY <1>4, <2>1
      <4> QED
        BY <1>4, <4>1, <4>2
    <3> QED
      BY <2>1, <3>2 DEF TypeInv, TypeOK, MoneyTypes, StageTypes, ClockTypes, Phase
  <2>2. CASE /\ round_open(actors(f, a), ac, b, cb)
             /\ stack' = paid
             /\ set_turn(first_clockwise(s, actors(f, a)), now, bk)
             /\ UNCHANGED <<phase, release_street>>
    <3>1. actors(f, a) # {}
      BY <2>2 DEF round_open
    <3>2. first_clockwise(s, actors(f, a)) \in Seats
      <4>1. s \in Int
        BY DEF Seats
      <4>2. \A v \in SUBSET Seats, from \in Int : v # {} => first_clockwise(from, v) \in v
        BY FirstClockwise
      <4> QED
        BY <1>8, <3>1, <4>1, <4>2
    <3>3. to_act' \in Seats /\ deadline' \in Nat /\ act_by' \in Nat
      BY <2>2, <3>2, SetTurnTypes
    <3> QED
      BY <1>4, <2>2, <3>3 DEF TypeInv, TypeOK, MoneyTypes, StageTypes
  <2>3. CASE /\ stack' = paid
             /\ close_street(now, street, actors(f, a))
             /\ UNCHANGED act_by
    <3>1. StageTypes' /\ release_street' \in 0..3
      BY <2>3, CloseStreetTypes DEF TypeInv, TypeOK, StreetTypes
    <3> QED
      BY <1>4, <2>3, <3>1 DEF TypeInv, TypeOK, MoneyTypes, ClockTypes
  <2> QED
    BY <2>1, <2>2, <2>3 DEF apply_action, amount, f, a, ac, cb
<1>10. ClockTypes'
  BY <1>3, <1>9 DEF ClockTypes, TypeInv, TypeOK
<1> QED
  BY <1>6, <1>7, <1>9, <1>10

\* A late action leaves the bank natural: it draws at most what is left.
LEMMA BankLeftTypes ==
    ASSUME TypeInv, NEW s \in Seats, NEW now \in Times
    PROVE  bank_left(s, now) \in [Seats -> Nat]
<1> DEFINE over == IF now > act_by THEN now - act_by ELSE 0
<1>1. bank \in [Seats -> Nat] /\ act_by \in Nat /\ now \in Nat
  BY InputsAssumption DEF TypeInv, TypeOK, ClockTypes
<1>2. over \in Nat
  BY <1>1
<1> HIDE DEF over
<1>3. \A x \in Nat : x - min_u(over, x) \in Nat
  BY <1>2 DEF min_u
<1>4. bank_left(s, now) = [bank EXCEPT ![s] = @ - min_u(over, @)]
  BY DEF bank_left, over
<1> QED
  BY <1>1, <1>3, <1>4

LEMMA ActTypes ==
    ASSUME TypeInv, NEW p \in Players, NEW s \in Seats, NEW kind \in Kinds, NEW t \in Nat,
           NEW now \in Times, act(p, s, kind, t, now)
    PROVE  TypeInv'
<1>1. /\ MoneyTypes' /\ StageTypes' /\ StreetTypes' /\ BetsCovered' /\ PotTypes'
      /\ ClockTypes' /\ release_street' \in 0..3
  <2>1. bank_left(s, now) \in [Seats -> Nat]
    BY BankLeftTypes
  <2>2. /\ legal_action(s, kind, t)
        /\ apply_action(s, kind, t, FALSE, now, bank_left(s, now))
        /\ UNCHANGED <<escrow, street, time>>
    BY DEF act, act_asserts
  <2> QED
    BY <2>1, <2>2, ApplyActionTypes
<1>2. UNCHANGED <<seatVars, rosterVars, deckVars, shareVars, showVars, nextVars, offender>>
  BY DEF act, act_asserts
<1> QED
  BY <1>1, <1>2, TypesKept DEF TypeInv, TypeOK

LEMMA ActOutTypes ==
    ASSUME TypeInv, NEW p \in Players, NEW s \in Seats, NEW kind \in Kinds, NEW t \in Nat,
           NEW now \in Times, act_out(p, s, kind, t, now)
    PROVE  TypeInv'
<1>1. /\ MoneyTypes' /\ StageTypes' /\ StreetTypes' /\ BetsCovered' /\ PotTypes'
      /\ ClockTypes' /\ release_street' \in 0..3
  <2>1. bank_left(s, now) \in [Seats -> Nat]
    BY BankLeftTypes
  <2>2. /\ legal_action(s, kind, t)
        /\ apply_action(s, kind, t, TRUE, now, bank_left(s, now))
        /\ UNCHANGED <<escrow, street, time>>
    BY DEF act_out, act_out_asserts
  <2> QED
    BY <2>1, <2>2, ApplyActionTypes
<1>2. UNCHANGED <<seatVars, rosterVars, deckVars, hole_shares, holes_done, showVars,
                  nextVars, offender>>
  BY DEF act_out, act_out_asserts
<1>3. ShareTypes'
  <2>1. board_positions(0, 3) \in SUBSET Positions
    BY BoardPositions
  <2>2. /\ shares_posted' = shares_posted \cup (board_positions(0, 3) \X {s})
        /\ board_shares' = [board_shares EXCEPT ![s] = 5]
    BY DEF act_out, act_out_asserts
  <2> QED
    BY <1>2, <2>1, <2>2 DEF ShareTypes, TypeInv, TypeOK
<1> QED
  BY <1>1, <1>2, <1>3, TypesKept DEF TypeInv, TypeOK

------------------------------------------------------------------------------
(* Settlement. *)

LEMMA ShowHandTypes ==
    ASSUME TypeInv, NEW p \in Players, NEW s \in Seats, NEW score \in Scores,
           NEW now \in Times, show_hand(p, s, score, now)
    PROVE  TypeInv'
<1>1. ShowTypes'
  BY DEF show_hand, show_hand_asserts, TypeInv, TypeOK, ShowTypes
<1>2. UNCHANGED <<time, seatVars, moneyVars, rosterVars, stageVars, streetVars, potVars,
                  deckVars, shareVars, nextVars, release_street, bank, act_by, offender>>
  BY DEF show_hand, show_hand_asserts
<1> QED
  BY <1>1, <1>2, TypesKept DEF TypeInv, TypeOK

\* The level below a seat's: 0, or the highest total of a live player lower than it.
LEMMA LevelBelow ==
    ASSUME TypeInv, NEW j \in Seats
    PROVE  /\ level_below(j) \in Nat /\ level_below(j) <= total[j]
           /\ \/ level_below(j) = 0
              \/ \E m \in live(folded) : total[m] = level_below(j) /\ total[m] < total[j]
           /\ \A k \in live(folded) : total[k] < total[j] => total[k] <= level_below(j)
<1> DEFINE w == {k \in live(folded) : total[k] < total[j]}
           lower == {total[i] : i \in w}
           g == [s \in Seats |-> 0 - total[s]]
<1>1. total \in [Seats -> Nat] /\ w \in SUBSET Seats
  BY DEF live, TypeInv, TypeOK, PotTypes, RosterTypes
<1>2. CASE w = {}
  <2>1. level_below(j) = 0
    BY <1>2 DEF level_below
  <2> QED
    BY <1>1, <1>2, <2>1
<1>3. CASE w # {}
  <2>1. g \in [Seats -> Int]
    BY <1>1
  <2>2. Least(g, w)
    BY <1>1, <1>3, <2>1, LeastExists
  <2>3. PICK s \in w : \A k \in w : g[s] <= g[k]
    BY <2>2 DEF Least
  <2>4. \A k \in w : total[k] <= total[s]
    <3> SUFFICES ASSUME NEW k \in w PROVE total[k] <= total[s]
      OBVIOUS
    <3>1. g[s] <= g[k] /\ g[s] = 0 - total[s] /\ g[k] = 0 - total[k]
      BY <1>1, <2>3
    <3>2. total[s] \in Nat /\ total[k] \in Nat
      BY <1>1
    <3> QED
      BY <3>1, <3>2
  <2>5. level_below(j) = total[s]
    <3>1. level_below(j) = CHOOSE m \in lower : \A x \in lower : x <= m
      BY <1>3 DEF level_below
    <3>2. total[s] \in lower /\ \A x \in lower : x <= total[s]
      BY <2>4
    <3>3. \A x \in lower : x \in Nat
      BY <1>1
    <3>4. level_below(j) \in lower /\ \A x \in lower : x <= level_below(j)
      <4> HIDE DEF lower
      <4> QED
        BY <3>1, <3>2
    <3> HIDE DEF lower
    <3>5. total[s] <= level_below(j) /\ level_below(j) <= total[s]
      BY <3>2, <3>4
    <3> QED
      BY <3>2, <3>3, <3>4, <3>5
  <2>6. total[s] \in Nat /\ total[j] \in Nat /\ total[s] < total[j] /\ s \in live(folded)
    BY <1>1
  <2> QED
    BY <2>4, <2>5, <2>6
<1> QED
  BY <1>2, <1>3

\* Every layer is a natural number of chips.
LEMMA LayerTypes ==
    ASSUME TypeInv, NEW j \in Seats
    PROVE  layer(j) \in Nat
<1> DEFINE part == [i \in Seats |->
             IF i \in in_deal
             THEN min_u(total[i], total[j]) - min_u(total[i], level_below(j))
             ELSE 0]
<1>1. level_below(j) \in Nat /\ level_below(j) <= total[j]
  BY LevelBelow
<1>2. ASSUME NEW i \in Seats PROVE part[i] \in Nat
  <2>1. total[i] \in Nat /\ total[j] \in Nat
    BY DEF TypeInv, TypeOK, PotTypes
  <2>2. min_u(total[i], total[j]) - min_u(total[i], level_below(j)) \in Nat
    BY <1>1, <2>1 DEF min_u
  <2> QED
    BY <2>2
<1>3. part \in [Seats -> Nat]
  BY <1>2
<1>4. layer(j) = sum_u(part)
  BY DEF layer
<1> HIDE DEF part
<1> QED
  BY <1>3, <1>4, SumU

\* Nobody's part of a level is negative, nor more than there is in it.
LEMMA LevelPayTypes ==
    ASSUME TypeInv, NEW j \in Seats, NEW i \in Seats
    PROVE  level_pay(j, i) \in Nat /\ level_pay(j, i) <= layer(j)
<1> DEFINE n == count_b(winners(j))
           w == {m \in winners(j) : clockwise(dealer, m) < clockwise(dealer, i)}
           place == count_b(w)
<1>1. winners(j) \in SUBSET Seats /\ w \in SUBSET Seats
  BY DEF winners, live, TypeInv, TypeOK, RosterTypes
<1>2. layer(j) \in Nat
  BY LayerTypes
<1>3. CASE i \in winners(j)
  <2>1. n \in 1..6 /\ place \in 0..6
    BY <1>1, <1>3, CountB
  <2>2. level_pay(j, i) = layer(j) \div n + (IF place < layer(j) % n THEN 1 ELSE 0)
    BY <1>3 DEF level_pay
  <2>3. ASSUME NEW L \in Nat, NEW k \in 1..6, NEW x \in 0..6
        PROVE  LET part == L \div k + (IF x < L % k THEN 1 ELSE 0)
               IN part \in Nat /\ part <= L
    <3>1. k = 1 \/ k = 2 \/ k = 3 \/ k = 4 \/ k = 5 \/ k = 6
      OBVIOUS
    <3> QED
      BY <2>3, <3>1, Z3
  <2> HIDE DEF n, place
  <2> QED
    BY <1>2, <2>1, <2>2, <2>3
<1>4. CASE i \notin winners(j)
  BY <1>2, <1>4 DEF level_pay
<1> QED
  BY <1>3, <1>4

\* Nobody is paid a negative amount from a pot.
LEMMA PayTypes ==
    ASSUME TypeInv
    PROVE  pay \in [Seats -> Nat]
<1>1. ASSUME NEW j \in Seats, NEW i \in Seats PROVE level_pay(j, i) \in Nat
  BY LevelPayTypes
<1>2. ASSUME NEW i \in Seats PROVE pay[i] \in Nat
  <2> DEFINE part == [j \in Seats |-> IF j \in level_seats THEN level_pay(j, i) ELSE 0]
  <2>1. part \in [Seats -> Nat]
    BY <1>1, <1>2
  <2>2. pay[i] = sum_u(part)
    BY <1>2 DEF pay
  <2> HIDE DEF part
  <2> QED
    BY <2>1, <2>2, SumU
<1>3. pay = [i \in Seats |-> pay[i]]
  BY DEF pay
<1> QED
  BY <1>2, <1>3

LEMMA SettleTypes ==
    ASSUME TypeInv, settle
    PROVE  TypeInv'
<1>1. pay \in [Seats -> Nat]
  BY PayTypes
<1>2. MoneyTypes'
  BY <1>1 DEF settle, settle_asserts, TypeInv, TypeOK, MoneyTypes
<1>3. StageTypes'
  BY DEF settle, settle_asserts, StageTypes, Phase
<1>4. UNCHANGED <<time, seatVars, rosterVars, streetVars, potVars, deckVars, shareVars,
                  showVars, nextVars, release_street, bank, act_by, offender>>
  BY DEF settle, settle_asserts
<1> QED
  BY <1>2, <1>3, <1>4, TypesKept DEF TypeInv, TypeOK

\* The seat an abort is blamed on is in the deal, or nobody.
LEMMA OwingInDeal ==
    ASSUME TypeInv
    PROVE  owing \in in_deal \cup {NONE, to_act} \/ (phase = "shuffle" /\ owing = turn)
<1>1. in_deal \in SUBSET Seats
  BY DEF TypeInv, TypeOK, RosterTypes
<1>2. first_without_key \in in_deal \cup {NONE}
  BY <1>1, FirstIn DEF first_without_key
<1>3. first_without_holes \in in_deal \cup {NONE}
  BY <1>1, FirstIn DEF first_without_holes
<1>4. first_without_release \in in_deal \cup {NONE}
  BY <1>1, FirstIn DEF first_without_release, live
<1>5. first_without_show \in in_deal \cup {NONE}
  BY <1>1, FirstIn DEF first_without_show, live
<1>6. first_without_score \in in_deal \cup {NONE}
  BY <1>1, FirstIn DEF first_without_score, live
<1> QED
  BY <1>2, <1>3, <1>4, <1>5, <1>6, Zenon DEF owing

LEMMA ExpireTypes ==
    ASSUME TypeInv, expire
    PROVE  TypeInv'
<1>1. offender' \in Seats \cup {NONE}
  BY OwingInDeal DEF expire, TypeInv, TypeOK, RosterTypes, DeckTypes, StageTypes
<1>2. StageTypes'
  BY DEF expire, StageTypes, Phase
<1>3. UNCHANGED <<time, seatVars, moneyVars, rosterVars, streetVars, potVars, deckVars,
                  shareVars, showVars, nextVars, release_street, bank, act_by>>
  BY DEF expire
<1> QED
  BY <1>1, <1>2, <1>3, TypesKept DEF TypeInv, TypeOK

LEMMA SettleAbortTypes ==
    ASSUME TypeInv, settle_abort
    PROVE  TypeInv'
<1> DEFINE o == offender
           back == [s \in Seats |-> IF s \in in_deal \ {o} THEN total[s] ELSE 0]
           won == split_among(BOND + total[o], live(folded) \ {o})
<1>1. o \in Seats
  BY DEF settle_abort, settle_abort_asserts, TypeInv, TypeOK
<1>2. won \in [Seats -> Nat]
  <2>1. BOND + total[o] \in Nat
    BY <1>1, StakesAssumption DEF BOND, TypeInv, TypeOK, PotTypes
  <2>2. live(folded) \ {o} \in SUBSET Seats
    BY DEF live, TypeInv, TypeOK, RosterTypes
  <2> QED
    BY <2>1, <2>2, SplitTypes
<1>3. back \in [Seats -> Nat]
  BY DEF TypeInv, TypeOK, PotTypes
<1>4. /\ stack' = [s \in Seats |-> IF s = o THEN 0 ELSE stack[s] + (back[s] + won[s])]
      /\ escrow' = escrow - stack[o]
  BY DEF settle_abort, settle_abort_asserts, abort_pay
<1>5. SeatTypes'
  BY DEF settle_abort, settle_abort_asserts, free_seat, TypeInv, TypeOK, SeatTypes
<1> HIDE DEF back, won, o
<1>6. MoneyTypes'
  BY <1>1, <1>2, <1>3, <1>4 DEF TypeInv, TypeOK, MoneyTypes
<1>7. StageTypes'
  BY DEF settle_abort, settle_abort_asserts, StageTypes, Phase, TypeInv, TypeOK
<1>8. UNCHANGED <<time, rosterVars, streetVars, potVars, deckVars, shareVars, showVars,
                  nextVars, release_street, bank, act_by, offender>>
  BY DEF settle_abort, settle_abort_asserts
<1> QED
  BY <1>5, <1>6, <1>7, <1>8, TypesKept DEF TypeInv, TypeOK

------------------------------------------------------------------------------
(* The type invariant of the whole table. *)

LEMMA TickTypes ==
    ASSUME TypeInv, Tick
    PROVE  TypeInv'
<1>1. UNCHANGED <<seatVars, moneyVars, rosterVars, stageVars, streetVars, potVars, deckVars,
                  shareVars, showVars, nextVars, release_street, bank, act_by, offender>>
  BY DEF Tick, moneyVars
<1>2. ClockTypes'
  BY <1>1 DEF Tick, ClockTypes, TypeInv, TypeOK
<1> QED
  BY <1>1, <1>2, TypesKept DEF TypeInv, TypeOK

\* A table nobody has dealt at yet, with anybody in its seats.
FreshTable == time \in Times /\ SeatTypes /\ MoneyTypes /\ escrow = owed_stacks /\ NeverDealt

\* The constructor's is one: nobody in its seats.
LEMMA EmptyTable == Init => FreshTable
<1> SUFFICES ASSUME Init PROVE FreshTable
  OBVIOUS
<1>1. no_keys \in [Seats -> Players \cup {NoPlayer}] /\ zeros \in [Seats -> Nat]
  BY DEF no_keys, zeros
<1>2. SeatTypes /\ MoneyTypes
  BY <1>1 DEF Init, NeverDealt, SeatTypes, MoneyTypes
<1>3. owed_stacks = 0
  BY DEF owed_stacks, claims, Init, no_keys, occupied, sum_u, Seats
<1> QED
  BY <1>2, <1>3 DEF FreshTable, Init

LEMMA TypesInitially == FreshTable => TypeInv
<1> SUFFICES ASSUME FreshTable PROVE TypeInv
  OBVIOUS
<1>1. no_keys \in [Seats -> Players \cup {NoPlayer}] /\ zeros \in [Seats -> Nat]
      /\ zeros \in [Seats -> Scores \cup {0}]
  BY DEF no_keys, zeros
<1>2. SeatTypes /\ MoneyTypes /\ RosterTypes /\ StageTypes /\ ClockTypes
  BY <1>1 DEF FreshTable, NeverDealt, RosterTypes, StageTypes, ClockTypes, Phase
<1>3. StreetTypes /\ PotTypes /\ BetsCovered
  BY <1>1 DEF FreshTable, NeverDealt, StreetTypes, PotTypes, BetsCovered, zeros
<1>4. DeckTypes /\ ShareTypes /\ ShowTypes /\ NextTypes
  BY <1>1 DEF FreshTable, NeverDealt, DeckTypes, ShareTypes, ShowTypes, NextTypes, Prep, Seats
<1> QED
  BY <1>2, <1>3, <1>4 DEF TypeInv, TypeOK, FreshTable, NeverDealt

LEMMA TypesPreserved == TypeInv /\ [Next]_vars => TypeInv'
<1> SUFFICES ASSUME TypeInv, [Next]_vars PROVE TypeInv'
  OBVIOUS
<1>1. CASE Tick
  BY <1>1, TickTypes
<1>2. CASE TableCall
  BY <1>2, StartDealTypes, ExpireNextTypes, SettleTypes, ExpireTypes, SettleAbortTypes
     DEF TableCall
<1>3. ASSUME NEW p \in Players, SeatCall(p) PROVE TypeInv'
  BY <1>3, JoinTypes, StandUpTypes, BuyInTypes, LeaveTypes DEF SeatCall
<1>4. ASSUME NEW p \in Players, PrepCall(p) PROVE TypeInv'
  BY <1>4, PostNextKeyTypes, ShuffleNextTypes DEF PrepCall
<1>5. ASSUME NEW p \in Players, CardCall(p) PROVE TypeInv'
  BY <1>5, PostKeyTypes, ShuffleTypes, SharesTypes, ReleaseTypes, ShowTypesKept, ShowHandTypes
     DEF CardCall
<1>6. ASSUME NEW p \in Players, BetCall(p) PROVE TypeInv'
  <2>1. PICK s \in Seats, kind \in Kinds, now \in Times :
            \E t \in IF kind = 2 THEN Amounts ELSE {0} :
                act(p, s, kind, t, now) \/ act_out(p, s, kind, t, now)
    BY <1>6 DEF BetCall
  <2>2. PICK t \in Nat : act(p, s, kind, t, now) \/ act_out(p, s, kind, t, now)
    BY <2>1, InputsAssumption
  <2> QED
    BY <2>1, <2>2, ActTypes, ActOutTypes
<1>7. CASE UNCHANGED vars
  BY <1>7, TypesKept DEF vars, moneyVars, TypeInv, TypeOK
<1> QED
  BY <1>1, <1>2, <1>3, <1>4, <1>5, <1>6, <1>7 DEF Next, Call

\* Every field keeps its type, whoever plays, whatever the stakes and the clock:
\* in particular no circuit ever makes a stack, a bet, a bank or a payment
\* negative, where the contract's unsigned subtraction would refuse the call.
THEOREM TypeCorrect == Spec => []TypeOK
<1>1. TypeInv => TypeOK
  BY DEF TypeInv
<1> QED
  BY EmptyTable, <1>1, TypesInitially, TypesPreserved, PTL DEF Spec

-------------------------------------------------------------------------------
(* Deadlines. *)

DeadlineInv == TypeInv /\ DeadlineWhileDealing

\* The phases that run against a deadline.
Running == {"keys", "shuffle", "holes", "playing", "release", "tabling", "showdown"}

\* It is enough that a step leaves both alone, starts a running phase with a
\* deadline, or stops the deal and clears it.
LEMMA DeadlineKept ==
    ASSUME DeadlineInv, TypeInv',
           \/ UNCHANGED <<phase, deadline>>
           \/ phase' \in Running /\ deadline' \in Nat /\ deadline' > 0
           \/ phase' \in {"done", "aborted"} /\ deadline' = 0
    PROVE  DeadlineInv'
  BY DEF DeadlineInv, DeadlineWhileDealing, Running

\* A deadline counts from an instant after the epoch.
LEMMA DuePositive ==
    ASSUME NEW now \in Times, NEW budget_s \in Nat
    PROVE  /\ due(now, budget_s) \in Nat /\ due(now, budget_s) > 0
           /\ due_by(now, SHUFFLE_SLACK, budget_s) \in Nat
           /\ due_by(now, SHUFFLE_SLACK, budget_s) > 0
  BY InputsAssumption DEF due, due_by, CLOCK_SLACK, SHUFFLE_SLACK

LEMMA SetTurnDeadline ==
    ASSUME NEW s \in Seats, NEW now \in Times, NEW bk \in [Seats -> Nat],
           set_turn(s, now, bk)
    PROVE  deadline' \in Nat /\ deadline' > 0
<1>1. due(now, ACT_SECONDS) \in Nat /\ due(now, ACT_SECONDS) > 0
  BY DuePositive DEF ACT_SECONDS
<1> QED
  BY <1>1 DEF set_turn

LEMMA CloseStreetDeadline ==
    ASSUME NEW now \in Times, NEW st, NEW betting, close_street(now, st, betting)
    PROVE  phase' \in Running /\ deadline' \in Nat /\ deadline' > 0
  BY DuePositive
     DEF close_street, Running, SHOWDOWN_SECONDS, TABLING_SECONDS, RELEASE_SECONDS

------------------------------------------------------------------------------

LEMMA StartDealDeadline ==
    ASSUME DeadlineInv, TypeInv', NEW now \in Times, start_deal(now)
    PROVE  DeadlineInv'
<1>1. \/ phase' = "holes" /\ deadline' = due(now, HOLES_SECONDS)
      \/ phase' = "keys" /\ deadline' = due(now, KEYS_SECONDS)
  BY DEF start_deal, start_deal_asserts
<1> QED
  BY <1>1, DuePositive, DeadlineKept DEF HOLES_SECONDS, KEYS_SECONDS, Running

LEMMA PostKeyDeadline ==
    ASSUME DeadlineInv, TypeInv', NEW p \in Players, NEW s \in Seats, NEW now \in Times,
           post_key(p, s, now)
    PROVE  DeadlineInv'
<1>1. \/ phase' = "shuffle" /\ deadline' = due(now, SHUFFLE_SECONDS)
      \/ UNCHANGED <<phase, deadline>>
  BY DEF post_key, post_key_asserts
<1> QED
  BY <1>1, DuePositive, DeadlineKept DEF SHUFFLE_SECONDS, Running

LEMMA ShuffleDeadline ==
    ASSUME DeadlineInv, TypeInv', NEW p \in Players, NEW s \in Seats, NEW now \in Times,
           shuffle(p, s, now)
    PROVE  DeadlineInv'
<1>1. \/ phase' = "holes" /\ deadline' = due_by(now, SHUFFLE_SLACK, HOLES_SECONDS)
      \/ phase' = "shuffle" /\ deadline' = due_by(now, SHUFFLE_SLACK, SHUFFLE_SECONDS)
  BY DEF shuffle, shuffle_asserts
<1> QED
  BY <1>1, DuePositive, DeadlineKept DEF HOLES_SECONDS, SHUFFLE_SECONDS, Running

LEMMA SharesDeadline ==
    ASSUME DeadlineInv, TypeInv', NEW p \in Players, NEW s \in Seats, NEW ps,
           NEW now \in Times, shares(p, s, ps, now)
    PROVE  DeadlineInv'
<1>1. CASE UNCHANGED stageVars
  BY <1>1, DeadlineKept DEF stageVars
<1>2. CASE begin_betting(now)
  <2>1. CASE to_act # NONE
    <3>1. to_act \in Seats /\ bank \in [Seats -> Nat]
      BY <2>1 DEF DeadlineInv, TypeInv, TypeOK, StageTypes, ClockTypes
    <3>2. phase' = "playing" /\ set_turn(to_act, now, bank)
      BY <1>2, <2>1 DEF begin_betting
    <3>3. deadline' \in Nat /\ deadline' > 0
      BY <3>1, <3>2, SetTurnDeadline
    <3> QED
      BY <3>2, <3>3, DeadlineKept DEF Running
  <2>2. CASE to_act = NONE
    <3>1. phase' = "tabling" /\ deadline' = due(now, TABLING_SECONDS)
      BY <1>2, <2>2 DEF begin_betting
    <3> QED
      BY <3>1, DuePositive, DeadlineKept DEF TABLING_SECONDS, Running
  <2> QED
    BY <2>1, <2>2
<1> QED
  BY <1>1, <1>2 DEF shares, shares_asserts

LEMMA ReleaseDeadline ==
    ASSUME DeadlineInv, TypeInv', NEW p \in Players, NEW s \in Seats, NEW now \in Times,
           release(p, s, now)
    PROVE  DeadlineInv'
<1> DEFINE betting == actors(folded, all_in)
<1>1. CASE UNCHANGED stageVars
  BY <1>1, DeadlineKept DEF stageVars
<1>2. CASE resume_betting(now) /\ count_b(betting) > 1
  <2>1. betting \in SUBSET Seats
    BY DEF actors, DeadlineInv, TypeInv, TypeOK, RosterTypes
  <2>2. betting # {}
    BY <1>2, <2>1, CountB
  <2>3. dealer \in Int
    BY DEF Seats, NONE, DeadlineInv, TypeInv, TypeOK, RosterTypes
  <2>4. first_clockwise(dealer, betting) \in Seats
    BY <2>1, <2>2, <2>3, FirstClockwise
  <2>5. phase' = "playing" /\ set_turn(first_clockwise(dealer, betting), now, bank)
    BY <1>2 DEF resume_betting
  <2>6. deadline' \in Nat /\ deadline' > 0
    BY <2>4, <2>5, SetTurnDeadline DEF DeadlineInv, TypeInv, TypeOK, ClockTypes
  <2> QED
    BY <2>5, <2>6, DeadlineKept DEF Running
<1>3. CASE resume_betting(now) /\ ~(count_b(betting) > 1)
  <2>1. close_street(now, release_street, betting)
    BY <1>3 DEF resume_betting
  <2> QED
    BY <2>1, CloseStreetDeadline, DeadlineKept
<1> QED
  BY <1>1, <1>2, <1>3 DEF release, release_asserts

LEMMA ShowDeadline ==
    ASSUME DeadlineInv, TypeInv', NEW p \in Players, NEW s \in Seats, NEW now \in Times,
           show(p, s, now)
    PROVE  DeadlineInv'
<1>1. \/ UNCHANGED <<phase, deadline>>
      \/ phase' = "showdown" /\ deadline' = due(now, SHOWDOWN_SECONDS)
      \/ phase' = "release" /\ deadline' = due(now, RELEASE_SECONDS)
  BY DEF show, show_asserts, run_out
<1> QED
  BY <1>1, DuePositive, DeadlineKept DEF SHOWDOWN_SECONDS, RELEASE_SECONDS, Running

\* A bet hands the action on, closes the street, or ends the deal.
LEMMA ApplyActionDeadline ==
    ASSUME DeadlineInv, TypeInv', NEW s \in Seats, NEW kind, NEW t, NEW out,
           NEW now \in Times, NEW bk \in [Seats -> Nat], phase = "playing",
           apply_action(s, kind, t, out, now, bk)
    PROVE  DeadlineInv'
<1>1. PICK f, a, ac, b, cb :
          \/ phase' = "done" /\ deadline' = 0
          \/ /\ round_open(actors(f, a), ac, b, cb)
             /\ set_turn(first_clockwise(s, actors(f, a)), now, bk)
             /\ UNCHANGED phase
          \/ close_street(now, street, actors(f, a))
  BY DEF apply_action
<1>2. CASE phase' = "done" /\ deadline' = 0
  BY <1>2, DeadlineKept
<1>3. CASE /\ round_open(actors(f, a), ac, b, cb)
           /\ set_turn(first_clockwise(s, actors(f, a)), now, bk)
           /\ UNCHANGED phase
  <2>1. actors(f, a) \in SUBSET Seats /\ actors(f, a) # {}
    BY <1>3 DEF round_open, actors, DeadlineInv, TypeInv, TypeOK, RosterTypes
  <2>2. first_clockwise(s, actors(f, a)) \in Seats
    BY <2>1, FirstClockwise DEF Seats
  <2>3. deadline' \in Nat /\ deadline' > 0
    BY <1>3, <2>2, SetTurnDeadline
  <2> QED
    BY <1>3, <2>3, DeadlineKept DEF Running
<1>4. CASE close_street(now, street, actors(f, a))
  BY <1>4, CloseStreetDeadline, DeadlineKept
<1> QED
  BY <1>1, <1>2, <1>3, <1>4

LEMMA BetDeadline ==
    ASSUME DeadlineInv, TypeInv', NEW p \in Players, NEW s \in Seats, NEW kind, NEW t,
           NEW now \in Times, act(p, s, kind, t, now) \/ act_out(p, s, kind, t, now)
    PROVE  DeadlineInv'
<1>1. bank_left(s, now) \in [Seats -> Nat]
  BY BankLeftTypes DEF DeadlineInv
<1>2. phase = "playing"
  BY DEF act, act_asserts, act_out, act_out_asserts, act_check
<1>3. PICK out \in BOOLEAN : apply_action(s, kind, t, out, now, bank_left(s, now))
  BY DEF act, act_asserts, act_out, act_out_asserts
<1> QED
  BY <1>1, <1>2, <1>3, ApplyActionDeadline

------------------------------------------------------------------------------

LEMMA DeadlineInitially == FreshTable => DeadlineInv
<1>1. FreshTable => DeadlineWhileDealing
  BY DEF FreshTable, NeverDealt, DeadlineWhileDealing
<1> QED
  BY <1>1, TypesInitially DEF DeadlineInv

LEMMA DeadlinePreserved == DeadlineInv /\ [Next]_vars => DeadlineInv'
<1> SUFFICES ASSUME DeadlineInv, [Next]_vars PROVE DeadlineInv'
  OBVIOUS
<1>0. TypeInv'
  BY TypesPreserved DEF DeadlineInv
<1>1. CASE Tick \/ UNCHANGED vars
  <2>1. UNCHANGED <<phase, deadline>>
    BY <1>1 DEF Tick, vars, stageVars
  <2> QED
    BY <1>0, <2>1, DeadlineKept
<1>2. CASE TableCall
  <2>1. ASSUME NEW now \in Times, start_deal(now) PROVE DeadlineInv'
    BY <1>0, <2>1, StartDealDeadline
  <2>2. ASSUME NEW now \in Times, expire_next(now) PROVE DeadlineInv'
    <3>1. UNCHANGED <<phase, deadline>>
      BY <2>2 DEF expire_next, stageVars
    <3> QED
      BY <1>0, <3>1, DeadlineKept
  <2>3. CASE settle \/ expire
    <3>1. phase' \in {"done", "aborted"} /\ deadline' = 0
      BY <2>3 DEF settle, settle_asserts, expire
    <3> QED
      BY <1>0, <3>1, DeadlineKept
  <2>4. CASE settle_abort
    <3>1. phase' = "done" /\ deadline' = 0
      BY <2>4 DEF settle_abort, settle_abort_asserts, DeadlineInv, DeadlineWhileDealing
    <3> QED
      BY <1>0, <3>1, DeadlineKept
  <2> QED
    BY <1>2, <2>1, <2>2, <2>3, <2>4 DEF TableCall
<1>3. ASSUME NEW p \in Players, SeatCall(p) \/ PrepCall(p) PROVE DeadlineInv'
  <2>1. UNCHANGED <<phase, deadline>>
    BY <1>3 DEF SeatCall, PrepCall, join, stand_up, buy_in, leave, post_next_key, post_next_key_asserts,
                shuffle_next, shuffle_next_asserts, stageVars
  <2> QED
    BY <1>0, <2>1, DeadlineKept
<1>4. ASSUME NEW p \in Players, CardCall(p) PROVE DeadlineInv'
  <2>1. ASSUME NEW s \in Seats, NEW score \in Scores, NEW now \in Times,
               show_hand(p, s, score, now)
        PROVE  DeadlineInv'
    <3>1. UNCHANGED <<phase, deadline>>
      BY <2>1 DEF show_hand, show_hand_asserts, stageVars
    <3> QED
      BY <1>0, <3>1, DeadlineKept
  <2> QED
    BY <1>0, <1>4, <2>1, PostKeyDeadline, ShuffleDeadline, SharesDeadline, ReleaseDeadline,
       ShowDeadline DEF CardCall
<1>5. ASSUME NEW p \in Players, BetCall(p) PROVE DeadlineInv'
  BY <1>0, <1>5, BetDeadline DEF BetCall
<1> QED
  BY <1>1, <1>2, <1>3, <1>4, <1>5 DEF Next, Call

\* A deal in progress always has its next step under a deadline, so whoever owes
\* it can be expired; a table between deals, or with an aborted one, has none.
THEOREM DeadlineCorrect == Spec => []DeadlineWhileDealing
<1>1. DeadlineInv => DeadlineWhileDealing
  BY DEF DeadlineInv
<1> QED
  BY EmptyTable, <1>1, DeadlineInitially, DeadlinePreserved, PTL DEF Spec

------------------------------------------------------------------------------
(* How long a step gets, and whose time bank pays for a late one. *)

\* What a step that sets a deadline leaves the next one, from the block on.
BudgetGranted ==
    deadline' \notin {deadline, 0} =>
        deadline' >= time + budget(phase')
                     + (IF phase' = "playing" THEN bank'[to_act'] ELSE 0)

\* What a step may do to the time banks.
BankDrawn ==
    deal_no' = deal_no =>
        \A s \in Seats : bank'[s] # bank[s] => /\ bank'[s] < bank[s]
                                               /\ s = to_act /\ act_by < time

\* A deadline counts from the stated clock and its slack, which the block has not passed.
LEMMA DueFromTheBlock ==
    ASSUME TypeInv, NEW now \in Times, NEW budget_s \in Nat
    PROVE  /\ check_now(now) => /\ due(now, budget_s) \in Nat
                                /\ due(now, budget_s) >= time + budget_s
           /\ check_clock(now, SHUFFLE_SLACK) =>
                  due_by(now, SHUFFLE_SLACK, budget_s) >= time + budget_s
<1>1. now \in Nat /\ time \in Nat
  BY InputsAssumption DEF TypeInv, TypeOK, ClockTypes
<1> QED
  BY <1>1 DEF check_now, check_clock, due, due_by, CLOCK_SLACK, SHUFFLE_SLACK

LEMMA SetTurnBudget ==
    ASSUME TypeInv, NEW s \in Seats, NEW now \in Times, check_now(now), phase' = "playing",
           bank' \in [Seats -> Nat], set_turn(s, now, bank')
    PROVE  BudgetGranted
<1>1. due(now, ACT_SECONDS) \in Nat /\ due(now, ACT_SECONDS) >= time + ACT_SECONDS
  BY DueFromTheBlock DEF ACT_SECONDS
<1>2. deadline' = due(now, ACT_SECONDS) + bank'[s] /\ to_act' = s
  BY DEF set_turn
<1>3. budget("playing") = ACT_SECONDS
  BY DEF budget
<1>4. time \in Nat /\ bank'[s] \in Nat
  BY InputsAssumption DEF TypeInv, TypeOK, ClockTypes
<1> QED
  BY <1>1, <1>2, <1>3, <1>4 DEF BudgetGranted, ACT_SECONDS

\* Any other deadline is the stated clock's, with its phase's budget.
LEMMA PhaseBudget ==
    ASSUME TypeInv, NEW now \in Times, phase' \in Running \ {"playing"},
           \/ check_now(now) /\ deadline' = due(now, budget(phase'))
           \/ check_clock(now, SHUFFLE_SLACK) /\ phase' \in {"shuffle", "holes"}
              /\ deadline' = due_by(now, SHUFFLE_SLACK, budget(phase'))
    PROVE  BudgetGranted
<1>1. budget(phase') \in Nat
  BY DEF Running, budget, KEYS_SECONDS, SHUFFLE_SECONDS, HOLES_SECONDS, RELEASE_SECONDS,
         TABLING_SECONDS, SHOWDOWN_SECONDS
<1>2. deadline' >= time + budget(phase')
  BY <1>1, DueFromTheBlock
<1>3. time \in Nat /\ phase' # "playing"
  BY InputsAssumption DEF TypeInv, TypeOK, ClockTypes
<1> QED
  BY <1>1, <1>2, <1>3 DEF BudgetGranted

LEMMA CloseStreetBudget ==
    ASSUME TypeInv, NEW now \in Times, NEW st, NEW betting, check_now(now),
           close_street(now, st, betting)
    PROVE  BudgetGranted
<1>1. phase' \in {"showdown", "tabling", "release"} /\ deadline' = due(now, budget(phase'))
  BY DEF close_street, budget
<1> QED
  BY <1>1, PhaseBudget DEF Running

LEMMA CardBudget ==
    ASSUME TypeInv, NEW p \in Players, CardCall(p)
    PROVE  BudgetGranted
<1>0. bank \in [Seats -> Nat] /\ to_act \in Seats \cup {NONE} /\ dealer \in Int
  BY DEF TypeInv, TypeOK, ClockTypes, StageTypes, RosterTypes, Seats, NONE
<1>1. ASSUME NEW s \in Seats, NEW now \in Times, post_key(p, s, now) PROVE BudgetGranted
  <2>1. \/ check_now(now) /\ phase' = "shuffle" /\ deadline' = due(now, budget(phase'))
        \/ UNCHANGED deadline
    BY <1>1 DEF post_key, post_key_asserts, budget
  <2> QED
    BY <2>1, PhaseBudget DEF Running, BudgetGranted
<1>2. ASSUME NEW s \in Seats, NEW now \in Times, shuffle(p, s, now) PROVE BudgetGranted
  <2>1. /\ check_clock(now, SHUFFLE_SLACK) /\ phase' \in {"shuffle", "holes"}
        /\ deadline' = due_by(now, SHUFFLE_SLACK, budget(phase'))
    BY <1>2 DEF shuffle, shuffle_asserts, budget
  <2> QED
    BY <2>1, PhaseBudget DEF Running
<1>3. ASSUME NEW s \in Seats, NEW now \in Times, NEW ps, shares(p, s, ps, now)
      PROVE  BudgetGranted
  <2>1. check_now(now) /\ bank' = bank /\ (begin_betting(now) \/ UNCHANGED deadline)
    BY <1>3 DEF shares, shares_asserts, stageVars
  <2>2. CASE begin_betting(now) /\ to_act # NONE
    <3>1. phase' = "playing" /\ set_turn(to_act, now, bank') /\ to_act \in Seats
      BY <1>0, <2>1, <2>2 DEF begin_betting
    <3> QED
      BY <1>0, <2>1, <3>1, SetTurnBudget
  <2>3. CASE begin_betting(now) /\ to_act = NONE
    <3>1. phase' = "tabling" /\ deadline' = due(now, budget(phase'))
      BY <2>3 DEF begin_betting, budget
    <3> QED
      BY <2>1, <3>1, PhaseBudget DEF Running
  <2> QED
    BY <2>1, <2>2, <2>3 DEF BudgetGranted
<1>4. ASSUME NEW s \in Seats, NEW now \in Times, release(p, s, now) PROVE BudgetGranted
  <2> DEFINE betting == actors(folded, all_in)
  <2>1. check_now(now) /\ bank' = bank /\ (resume_betting(now) \/ UNCHANGED deadline)
    BY <1>4 DEF release, release_asserts, stageVars
  <2>2. CASE resume_betting(now) /\ count_b(betting) > 1
    <3>1. betting \in SUBSET Seats
      BY DEF actors, TypeInv, TypeOK, RosterTypes
    <3>2. betting # {}
      BY <2>2, <3>1, CountB
    <3>3. first_clockwise(dealer, betting) \in Seats
      BY <1>0, <3>1, <3>2, FirstClockwise
    <3>4. phase' = "playing" /\ set_turn(first_clockwise(dealer, betting), now, bank')
      BY <2>1, <2>2 DEF resume_betting
    <3> QED
      BY <1>0, <2>1, <3>3, <3>4, SetTurnBudget
  <2>3. CASE resume_betting(now) /\ ~(count_b(betting) > 1)
    <3>1. close_street(now, release_street, betting)
      BY <2>3 DEF resume_betting
    <3> QED
      BY <2>1, <3>1, CloseStreetBudget
  <2> QED
    BY <2>1, <2>2, <2>3 DEF BudgetGranted
<1>5. ASSUME NEW s \in Seats, NEW now \in Times, show(p, s, now) PROVE BudgetGranted
  <2>1. /\ check_now(now)
        /\ \/ phase' \in {"showdown", "release"} /\ deadline' = due(now, budget(phase'))
           \/ UNCHANGED deadline
    BY <1>5 DEF show, show_asserts, run_out, budget
  <2> QED
    BY <2>1, PhaseBudget DEF Running, BudgetGranted
<1>6. ASSUME NEW s \in Seats, NEW score \in Scores, NEW now \in Times,
             show_hand(p, s, score, now)
      PROVE  BudgetGranted
  BY <1>6 DEF show_hand, show_hand_asserts, stageVars, BudgetGranted
<1> QED
  BY <1>1, <1>2, <1>3, <1>4, <1>5, <1>6 DEF CardCall

LEMMA BetBudget ==
    ASSUME TypeInv, TypeInv', NEW p \in Players, NEW s \in Seats, NEW kind, NEW t,
           NEW now \in Times, act(p, s, kind, t, now) \/ act_out(p, s, kind, t, now)
    PROVE  BudgetGranted
<1>1. check_now(now) /\ phase = "playing"
  BY DEF act, act_asserts, act_out, act_out_asserts, act_check
<1>2. PICK out, bk : apply_action(s, kind, t, out, now, bk)
  BY DEF act, act_asserts, act_out, act_out_asserts
<1>3. PICK f, a, ac, b, cb :
          /\ bank' = bk
          /\ \/ deadline' = 0
             \/ /\ round_open(actors(f, a), ac, b, cb)
                /\ set_turn(first_clockwise(s, actors(f, a)), now, bk)
                /\ UNCHANGED phase
             \/ close_street(now, street, actors(f, a))
  BY <1>2 DEF apply_action
<1>4. CASE deadline' = 0
  BY <1>4 DEF BudgetGranted
<1>5. CASE /\ round_open(actors(f, a), ac, b, cb)
           /\ set_turn(first_clockwise(s, actors(f, a)), now, bk)
           /\ UNCHANGED phase
  <2>1. actors(f, a) \in SUBSET Seats /\ actors(f, a) # {}
    BY <1>5 DEF round_open, actors, TypeInv, TypeOK, RosterTypes
  <2>2. first_clockwise(s, actors(f, a)) \in Seats
    BY <2>1, FirstClockwise DEF Seats
  <2>3. bank' \in [Seats -> Nat]
    BY DEF TypeInv, TypeOK, ClockTypes
  <2> QED
    BY <1>1, <1>3, <1>5, <2>2, <2>3, SetTurnBudget
<1>6. CASE close_street(now, street, actors(f, a))
  BY <1>1, <1>6, CloseStreetBudget
<1> QED
  BY <1>3, <1>4, <1>5, <1>6

\* A late action draws its actor's bank by the seconds it is late, as far as it goes.
LEMMA BetBank ==
    ASSUME TypeInv, NEW p \in Players, NEW s \in Seats, NEW kind, NEW t,
           NEW now \in Times, act(p, s, kind, t, now) \/ act_out(p, s, kind, t, now)
    PROVE  BankDrawn
<1> DEFINE over == IF now > act_by THEN now - act_by ELSE 0
<1>1. s = to_act /\ now <= time
  BY DEF act, act_asserts, act_out, act_out_asserts, act_check, check_now, check_clock
<1>2. bank' = bank_left(s, now)
  BY DEF act, act_asserts, act_out, act_out_asserts, apply_action
<1>3. /\ now \in Nat /\ time \in Nat /\ act_by \in Nat /\ bank \in [Seats -> Nat]
  BY InputsAssumption DEF TypeInv, TypeOK, ClockTypes
<1>4. bank' = [bank EXCEPT ![s] = @ - min_u(over, @)]
  BY <1>2 DEF bank_left
<1>5. over \in Nat /\ (over > 0 => act_by < time)
  BY <1>1, <1>3
<1> HIDE DEF over
<1>6. ASSUME NEW k \in Seats, bank'[k] # bank[k]
      PROVE  bank'[k] < bank[k] /\ k = to_act /\ act_by < time
  <2>1. k = s
    BY <1>3, <1>4, <1>6
  <2>2. bank'[s] = bank[s] - min_u(over, bank[s])
    BY <1>3, <1>4
  <2>3. bank[s] \in Nat
    BY <1>3
  <2> QED
    BY <1>1, <1>5, <1>6, <2>1, <2>2, <2>3 DEF min_u
<1> QED
  BY <1>6 DEF BankDrawn

\* Every step of the table grants its successor a whole budget, and draws a time bank
\* only as it may.
LEMMA ClockStep == TypeInv /\ [Next]_vars => BudgetGranted /\ BankDrawn
<1> SUFFICES ASSUME TypeInv, [Next]_vars PROVE BudgetGranted /\ BankDrawn
  OBVIOUS
<1>0. TypeInv'
  BY TypesPreserved
<1>1. (Tick \/ UNCHANGED vars) => UNCHANGED <<deadline, bank>>
  BY DEF Tick, vars, stageVars
<1>2. CASE TableCall
  <2>1. ASSUME NEW now \in Times, start_deal(now) PROVE BudgetGranted /\ BankDrawn
    <3>1. check_now(now) /\ phase' \in {"keys", "holes"}
          /\ deadline' = due(now, budget(phase'))
      BY <2>1 DEF start_deal, start_deal_asserts, budget
    <3>2. deal_no' = deal_no + 1 /\ deal_no \in Nat
      BY <2>1 DEF start_deal, start_deal_asserts, TypeInv, TypeOK, RosterTypes
    <3>3. BankDrawn
      BY <3>2 DEF BankDrawn
    <3> QED
      BY <3>1, <3>3, PhaseBudget DEF Running
  <2>2. ASSUME NEW now \in Times, expire_next(now) PROVE BudgetGranted /\ BankDrawn
    BY <2>2 DEF expire_next, stageVars, BudgetGranted, BankDrawn
  <2>3. CASE settle \/ expire \/ settle_abort
    BY <2>3 DEF settle, settle_asserts, expire, settle_abort, settle_abort_asserts, BudgetGranted,
                BankDrawn
  <2> QED
    BY <1>2, <2>1, <2>2, <2>3 DEF TableCall
<1>3. ASSUME NEW p \in Players, SeatCall(p) \/ PrepCall(p) PROVE BudgetGranted /\ BankDrawn
  <2>1. UNCHANGED <<deadline, bank>>
    BY <1>3 DEF SeatCall, PrepCall, join, stand_up, buy_in, leave, post_next_key, post_next_key_asserts,
                shuffle_next, shuffle_next_asserts, stageVars
  <2> QED
    BY <2>1 DEF BudgetGranted, BankDrawn
<1>4. ASSUME NEW p \in Players, CardCall(p) PROVE BudgetGranted /\ BankDrawn
  <2>1. UNCHANGED bank
    BY <1>4 DEF CardCall, post_key, post_key_asserts, shuffle, shuffle_asserts, shares,
                shares_asserts, release, release_asserts, show, show_asserts, show_hand,
                show_hand_asserts
  <2> QED
    BY <1>4, <2>1, CardBudget DEF BankDrawn
<1>5. ASSUME NEW p \in Players, BetCall(p) PROVE BudgetGranted /\ BankDrawn
  BY <1>0, <1>5, BetBudget, BetBank DEF BetCall
<1> QED
  BY <1>1, <1>2, <1>3, <1>4, <1>5 DEF Next, Call, BudgetGranted, BankDrawn

\* Whatever clock a caller states, within the slack it may, the step it leads to has
\* its whole budget from the block on, and a bet its actor's time bank on top.
THEOREM BudgetCorrect == Spec => BudgetFromTheBlock
<1>1. TypeInv /\ [Next]_vars => [BudgetGranted]_vars
  BY ClockStep
<1> QED
  BY EmptyTable, <1>1, TypesInitially, TypesPreserved, PTL DEF Spec, BudgetFromTheBlock, BudgetGranted

\* During a deal a time bank only shrinks, by its owner's action, once their own
\* seconds have run out: nobody else's call and no early one touches it.
THEOREM BankCorrect == Spec => BankOnlyDrawnByActor
<1>1. TypeInv /\ [Next]_vars => [BankDrawn]_vars
  BY ClockStep
<1> QED
  BY EmptyTable, <1>1, TypesInitially, TypesPreserved, PTL DEF Spec, BankOnlyDrawnByActor, BankDrawn
===============================================================================
