----------------------------- MODULE ClientProofs -----------------------------
(***************************************************************************)
(* What the contract promises its clients, and what their calls do to it.  *)
(***************************************************************************)
EXTENDS ClientRules, CardProofs

\* The first of some seats is one of them.
LEMMA FirstOf ==
    ASSUME NEW v \in SUBSET Seats, v # {}
    PROVE  first_in(v) \in v
  BY FirstIn

\* While a deal is under way, somebody seated has a step of it to take by rules.ts, or the turn.
LEMMA DealWaitedFor ==
    ASSUME ShareInv, dealing
    PROVE  \E s \in occupied : deal_step(ledger_now, s) # <<>> \/ (phase = "playing" /\ s = to_act)
<1>0. /\ in_deal \subseteq occupied /\ occupied \subseteq Seats /\ live(folded) \subseteq in_deal
      /\ count_b(live(folded)) >= 2 /\ n_players = count_b(in_deal) /\ n_players \in 0..6
      /\ phase \in Phase /\ hole_shares \in [Seats -> Nat] /\ Roster
  BY DEF ShareInv, BettingInv, BettingOrder, TwoStillIn, CustodyInv, BooksInv, SeatsHeldDuringDeal,
         dealing, live, TypeInv, TypeOK, RosterTypes, StageTypes, ShareTypes, occupied, DeckInv,
         DeckInOrder, Roster
<1>1. live(folded) # {} /\ occupied # {}
  <2>1. live(folded) # {}
    BY <1>0, CountB
  <2> QED
    BY <1>0, <2>1
<1>2. CASE phase = "keys"
  <2>1. PICK s \in in_deal : keys[s] = NoPlayer
    BY <1>0, <1>2 DEF ShareInv, DeckInv, DeckInOrder, key_holders
  <2> QED
    BY <1>0, <1>2, <2>1 DEF deal_step, ledger_now
<1>3. CASE phase = "shuffle"
  <2>1. turn \in in_deal
    BY <1>3 DEF ShareInv, DeckInv, DeckInOrder
  <2> QED
    BY <1>0, <1>3, <2>1 DEF deal_step, ledger_now
<1>4. CASE phase = "holes"
  <2>1. PICK s \in in_deal : hole_shares[s] # need
    BY <1>4 DEF ShareInv, ShareOrder, HolesIn, complete_seats, Before
  <2>2. hole_shares[s] = Cardinality(holes_shared(s))
    BY DEF ShareInv, ShareOrder, SharesCounted
  <2>3. Cardinality(holes_shared(s)) \in Nat /\ Cardinality(holes_shared(s)) <= need
    BY <1>0, SharesBounded
  <2>4. hole_shares[s] < 2 * count_b(in_deal) - 2
    BY <1>0, <2>1, <2>2, <2>3 DEF need
  <2> QED
    BY <1>0, <1>4, <2>4 DEF deal_step, ledger_now
<1>5. CASE phase = "playing"
  <2>1. to_act \in in_deal
    BY <1>5 DEF ShareInv, BettingInv, BettingOrder, TurnPhases, CustodyInv, BooksInv, RolesInDeal
  <2> QED
    BY <1>0, <1>5, <2>1
<1>6. CASE phase = "release"
  <2>1. PICK s \in live(folded) : ~(board_shares[s] >= board_len(release_street))
    BY <1>6 DEF ShareInv, ShareOrder, StepOwed, released
  <2>2. board_shares[s] \in Nat /\ board_len(release_street) \in Nat
    BY <1>0 DEF ShareInv, DeckInv, PrepInv, TypeInv, TypeOK, ShareTypes, board_len
  <2>3. owes_release(ledger_now, s) /\ s \in live_in(ledger_now)
    BY <2>1, <2>2 DEF owes_release, live_in, live, ledger_now
  <2> QED
    BY <1>0, <1>6, <2>3 DEF deal_step, ledger_now
<1>7. CASE phase = "tabling"
  <2>1. PICK s \in live(folded) : ~has_shown(s, shares_posted)
    BY <1>7 DEF ShareInv, ShareOrder, StepOwed
  <2>2. <<2 * order_of(in_deal, s), s>> \notin shares_posted
    BY <2>1 DEF has_shown
  <2>3. ~shownCards(ledger_now, s) /\ s \in live_in(ledger_now)
    BY <1>0, <2>2 DEF shownCards, hole_positions, openCard, live_in, live, ledger_now
  <2> QED
    BY <1>0, <1>7, <2>3 DEF deal_step, ledger_now
<1>8. CASE phase = "showdown"
  <2>1. CASE \E s \in live(folded) : scores[s] = 0
    <3>1. PICK s \in live(folded) : scores[s] = 0
      BY <2>1
    <3> QED
      BY <1>0, <1>8, <3>1 DEF deal_step, live_in, live, ledger_now
  <2>2. CASE \A s \in live(folded) : scores[s] # 0
    <3>1. first_in(live(folded)) \in live(folded)
      BY <1>0, <1>1, FirstOf
    <3> QED
      BY <1>0, <1>8, <2>2, <3>1 DEF deal_step, live_in, live, ledger_now
  <2> QED
    BY <2>1, <2>2
<1>9. CASE phase = "aborted"
  <2>1. first_in(occupied) \in occupied /\ occupied_in(ledger_now) = occupied
    BY <1>0, <1>1, FirstOf DEF occupied_in, occupied, ledger_now
  <2> QED
    BY <1>9, <2>1 DEF deal_step, ledger_now
<1> QED
  BY <1>0, <1>2, <1>3, <1>4, <1>5, <1>6, <1>7, <1>8, <1>9 DEF dealing, Phase

LEMMA OwerKnows == ShareInv => WaitedFor
<1> SUFFICES ASSUME ShareInv, next_prep \in {"keys", "shuffle"},
                    phase \notin {"idle", "keys", "shuffle", "holes"}
             PROVE  next_offender \notin occupied \/ prep_step(ledger_now, next_offender) # <<>>
  BY DealWaitedFor DEF WaitedFor
<1>1. CASE next_prep = "keys"
  <2> DEFINE w == {s \in next_in_deal : next_keys[s] = NoPlayer}
  <2>1. w \in SUBSET Seats /\ w # {}
    BY <1>1 DEF ShareInv, DeckInv, PrepInv, PreparationInOrder, PreparationCounted, key_holders,
                TypeInv, TypeOK, NextTypes
  <2>2. first_in(w) \in w
    BY <2>1, FirstOf
  <2> QED
    BY <1>1, <2>2 DEF next_offender, prep_step, owes_next_key, ledger_now
<1>2. CASE next_prep = "shuffle"
  BY <1>2 DEF next_offender, prep_step, owes_next_key, ledger_now
<1> QED
  BY <1>1, <1>2

\* Whatever a deal waits for, the client of somebody seated knows to do it, whoever plays
\* and whatever was called before; and the same for the next deck, unless whoever owes it
\* their step has left (rules.ts owed against the phases of the circuits).
THEOREM SomebodyOwes == Spec => []WaitedFor
  BY EmptyTable, OwerKnows, ShareInitially, SharePreserved, PTL DEF Spec

------------------------------------------------------------------------------
(* The player's clock. *)

\* The turn in progress ends a bank after its owner's seconds and the slack are over, and
\* began at a clock the chain had reached.
TurnClock ==
    phase = "playing" => /\ deadline = act_by + bank[to_act]
                         /\ act_by > CLOCK_SLACK
                         /\ act_by <= time + CLOCK_SLACK + ACT_SECONDS

ClockInv == BettingInv /\ TurnClock

\* A turn handed over at a clock the chain has reached.
LEMMA TurnHandedOver ==
    ASSUME TypeInv, NEW s, NEW now \in Times, check_now(now), set_turn(s, now, bank'),
           UNCHANGED time
    PROVE  TurnClock'
<1>1. now \in Nat /\ now > 0 /\ time \in Nat /\ now <= time
  BY InputsAssumption DEF TypeInv, TypeOK, ClockTypes, check_now, check_clock
<1>2. to_act' = s /\ act_by' = now + CLOCK_SLACK + ACT_SECONDS /\ deadline' = act_by' + bank'[s]
  BY DEF set_turn, due, due_by
<1> QED
  BY <1>1, <1>2 DEF TurnClock, CLOCK_SLACK, ACT_SECONDS

\* Or one nobody took.
LEMMA TurnGoesOn ==
    ASSUME TypeInv, TypeInv', TurnClock, UNCHANGED <<phase, deadline, to_act, bank, act_by>>,
           time' >= time
    PROVE  TurnClock'
<1>1. time \in Nat /\ time' \in Nat /\ act_by \in Nat
  BY InputsAssumption DEF TypeInv, TypeOK, ClockTypes
<1>2. phase' = phase /\ deadline' = deadline /\ act_by' = act_by /\ bank[to_act]' = bank[to_act]
  OBVIOUS
<1>3. ASSUME NEW a \in Nat, NEW t \in Nat, NEW t2 \in Nat, a <= t + 90, t2 >= t
      PROVE  a <= t2 + 90
  BY <1>3
<1>4. ASSUME phase = "playing"
      PROVE  deadline = act_by + bank[to_act] /\ act_by > 60 /\ act_by <= time' + 90
  <2>1. deadline = act_by + bank[to_act] /\ act_by > 60 /\ act_by <= time + 90
    BY <1>1, <1>4 DEF TurnClock, CLOCK_SLACK, ACT_SECONDS
  <2> QED
    BY <1>1, <1>3, <2>1
<1>5. time' + CLOCK_SLACK + ACT_SECONDS = time' + 90
  BY <1>1 DEF CLOCK_SLACK, ACT_SECONDS
<1> QED
  BY <1>2, <1>4, <1>5 DEF TurnClock, CLOCK_SLACK

LEMMA BetTurn ==
    ASSUME TypeInv, NEW p \in Players, NEW s \in Seats, NEW kind, NEW t, NEW now \in Times,
           act(p, s, kind, t, now) \/ act_out(p, s, kind, t, now)
    PROVE  TurnClock'
<1>1. check_now(now) /\ UNCHANGED time
  BY DEF act, act_asserts, act_out, act_out_asserts, act_check
<1>2. PICK out, bk : apply_action(s, kind, t, out, now, bk)
  BY DEF act, act_asserts, act_out, act_out_asserts
<1>3. PICK k, can_bet :
          /\ bank' = bk
          /\ \/ phase' = "done"
             \/ set_turn(k, now, bk)
             \/ close_street(now, street, can_bet)
  BY <1>2 DEF apply_action
<1>4. CASE phase' = "done"
  BY <1>4 DEF TurnClock
<1>5. CASE set_turn(k, now, bk)
  BY <1>1, <1>3, <1>5, TurnHandedOver
<1>6. CASE close_street(now, street, can_bet)
  BY <1>6 DEF close_street, TurnClock
<1> QED
  BY <1>3, <1>4, <1>5, <1>6

LEMMA CardTurn ==
    ASSUME TypeInv, TypeInv', TurnClock, NEW p \in Players, CardCall(p)
    PROVE  TurnClock'
<1>0. UNCHANGED <<time, bank>> /\ time \in Nat
  BY InputsAssumption
     DEF CardCall, post_key, post_key_asserts, shuffle, shuffle_asserts, shares, shares_asserts,
         release, release_asserts, show, show_asserts, show_hand, show_hand_asserts, TypeInv, TypeOK,
         ClockTypes
<1>1. ASSUME NEW s \in Seats, NEW now \in Times,
             post_key(p, s, now) \/ shuffle(p, s, now) \/ show(p, s, now)
      PROVE  TurnClock'
  <2>1. phase' # "playing"
    BY <1>1 DEF post_key, post_key_asserts, shuffle, shuffle_asserts, show, show_asserts, run_out
  <2> QED
    BY <2>1 DEF TurnClock
<1>2. ASSUME NEW s \in Seats, NEW score \in Scores, NEW now \in Times, show_hand(p, s, score, now)
      PROVE  TurnClock'
  <2>1. phase' # "playing"
    BY <1>2 DEF show_hand, show_hand_asserts, stageVars
  <2> QED
    BY <2>1 DEF TurnClock
<1>3. ASSUME NEW s \in Seats, NEW now \in Times, NEW ps, shares(p, s, ps, now)
      PROVE  TurnClock'
  <2>1. check_now(now) /\ phase = "holes" /\ (begin_betting(now) \/ UNCHANGED phase)
    BY <1>3 DEF shares, shares_asserts, stageVars
  <2>2. phase' = "playing" => set_turn(to_act, now, bank')
    BY <1>0, <2>1 DEF begin_betting
  <2> QED
    BY <1>0, <2>1, <2>2, TurnHandedOver DEF TurnClock
<1>4. ASSUME NEW s \in Seats, NEW now \in Times, release(p, s, now) PROVE TurnClock'
  <2>1. check_now(now) /\ phase = "release" /\ (resume_betting(now) \/ UNCHANGED phase)
    BY <1>4 DEF release, release_asserts, stageVars
  <2>2. phase' = "playing" => set_turn(first_clockwise(dealer, actors(folded, all_in)), now, bank')
    BY <1>0, <2>1 DEF resume_betting, close_street
  <2> QED
    BY <1>0, <2>1, <2>2, TurnHandedOver DEF TurnClock
<1> QED
  BY <1>1, <1>2, <1>3, <1>4 DEF CardCall

LEMMA ClockInitially == FreshTable => ClockInv
  BY BettingInitially DEF ClockInv, TurnClock, FreshTable, NeverDealt

LEMMA ClockPreserved == ClockInv /\ [Next]_vars => ClockInv'
<1> SUFFICES ASSUME ClockInv, [Next]_vars PROVE TurnClock'
  BY BettingPreserved DEF ClockInv
<1>0. TypeInv /\ TypeInv' /\ TurnClock
  <2>1. BettingInv /\ BettingInv'
    BY BettingPreserved DEF ClockInv
  <2> QED
    BY <2>1 DEF BettingInv, CustodyInv, BooksInv, ClockInv
<1>1. CASE Tick \/ UNCHANGED vars
  <2>1. UNCHANGED <<phase, deadline, to_act, bank, act_by>> /\ time' >= time
    BY <1>0, <1>1, InputsAssumption DEF Tick, vars, stageVars, TypeInv, TypeOK, ClockTypes
  <2> QED
    BY <1>0, <2>1, TurnGoesOn
<1>2. CASE TableCall
  <2>1. phase' # "playing"
    BY <1>2 DEF TableCall, start_deal, start_deal_asserts, expire_next, settle, settle_asserts,
                expire, settle_abort, settle_abort_asserts, stageVars
  <2> QED
    BY <2>1 DEF TurnClock
<1>3. ASSUME NEW p \in Players, SeatCall(p) \/ PrepCall(p) PROVE TurnClock'
  <2>1. UNCHANGED <<phase, deadline, to_act, bank, act_by>> /\ time' >= time
    BY <1>0, <1>3, InputsAssumption
       DEF SeatCall, PrepCall, join, stand_up, buy_in, leave, post_next_key, post_next_key_asserts,
           shuffle_next, shuffle_next_asserts, stageVars,
           TypeInv, TypeOK, ClockTypes
  <2> QED
    BY <1>0, <2>1, TurnGoesOn
<1>4. ASSUME NEW p \in Players, CardCall(p) PROVE TurnClock'
  BY <1>0, <1>4, CardTurn
<1>5. ASSUME NEW p \in Players, BetCall(p) PROVE TurnClock'
  BY <1>0, <1>5, BetTurn DEF BetCall
<1> QED
  BY <1>1, <1>2, <1>3, <1>4, <1>5 DEF Next, Call

\* The clock the page shows whoever is to act keeps its word: acting while it counts their
\* thirty seconds leaves their bank alone, it never counts more than those or the bank, and
\* when the contract would let anyone expire them it has run out (scene.ts and rail.ts
\* against set_turn and bank_left of the contract).
THEOREM ClockKeepsItsWord == Spec => []ClockHonest
<1>1. ClockInv => ClockHonest
  <2> SUFFICES ASSUME ClockInv, phase = "playing", to_act \in occupied PROVE ClockHonest
    BY DEF ClockHonest
  <2> DEFINE t == tableFrom(ledger_now, to_act, {})
             left == max_u(0, deadline - ACTION_SLACK - time)
  <2>a. TypeOK /\ BetsCovered /\ BettingOrder /\ occupied \subseteq Seats
    BY DEF ClockInv, BettingInv, CustodyInv, BooksInv, TypeInv, occupied
  <2>b. to_act \in Seats /\ stack[to_act] > 0 /\ bet[to_act] <= current_bet
    <3>1. to_act \in Seats /\ to_act # NONE
      BY <2>a DEF Seats, NONE
    <3> QED
      BY <2>a, <3>1 DEF BettingOrder, TurnInOrder, ActorsHaveChips, BetsCovered, dealing
  <2>0. /\ to_act \in Seats /\ deadline \in Nat /\ time \in Nat /\ act_by \in Nat
        /\ bank \in [Seats -> Nat] /\ bank[to_act] \in Nat /\ stack[to_act] > 0 /\ stack[to_act] \in Nat
        /\ current_bet \in Nat /\ bet[to_act] \in Nat /\ bet[to_act] <= current_bet
    BY <2>a, <2>b, InputsAssumption DEF TypeOK, StageTypes, ClockTypes, MoneyTypes, StreetTypes
  <2>1. deadline = act_by + bank[to_act] /\ act_by > 60 /\ act_by <= time + 90
    BY <2>0 DEF ClockInv, TurnClock, CLOCK_SLACK, ACT_SECONDS
  <2>2. t.legal = legal(ledger_now, to_act) /\ t.legal # NoLegal
    <3>1. t.legal = legal(ledger_now, to_act)
      BY DEF tableFrom
    <3>2. /\ legal(ledger_now, to_act).check = (current_bet - bet[to_act] = 0)
          /\ legal(ledger_now, to_act).call = min_u(current_bet - bet[to_act], stack[to_act])
      BY DEF legal, ledger_now
    <3>4. NoLegal.check = FALSE /\ NoLegal.call = 0
      BY DEF NoLegal
    <3>3. current_bet - bet[to_act] = 0 \/ min_u(current_bet - bet[to_act], stack[to_act]) # 0
      BY <2>0 DEF min_u
    <3> QED
      BY <3>1, <3>2, <3>3, <3>4 DEF NoLegal
  <2>3. t.deadline = deadline - ACTION_SLACK /\ t.deadline # 0 /\ t.timeBank = bank[to_act]
    BY <2>0, <2>1 DEF tableFrom, act_before, ledger_now, ACTION_SLACK
  <2> HIDE DEF t
  <2>c. ~(left <= t.timeBank) =>
          clock(t, time) = [bank |-> FALSE, seconds |-> left - t.timeBank]
    <3>1. SUFFICES ASSUME ~(left <= t.timeBank)
                   PROVE  clock(t, time) = [bank |-> FALSE, seconds |-> left - t.timeBank]
      OBVIOUS
    <3>2. left = max_u(0, t.deadline - time) /\ (left <= t.timeBank) = FALSE
      BY <2>3, <3>1
    <3> HIDE DEF left
    <3> QED
      BY <2>2, <2>3, <3>2, Zenon DEF clock
  <2>4. left <= bank[to_act] => clock(t, time) = [bank |-> TRUE, seconds |-> left]
    BY <2>2, <2>3 DEF clock
  <2>5. ~(left <= bank[to_act]) => clock(t, time) = [bank |-> FALSE, seconds |-> left - bank[to_act]]
    BY <2>3, <2>c
  <2>6. left \in Nat /\ (left > bank[to_act] => left - bank[to_act] <= ACT_SECONDS /\ time < act_by)
        /\ (time >= deadline => left = 0)
    BY <2>0, <2>1 DEF max_u, ACTION_SLACK, ACT_SECONDS
  <2>7. ASSUME NEW now \in Times, now <= time, time < act_by PROVE bank_left(to_act, now) = bank
    <3>1. now \in Nat
      BY InputsAssumption
    <3>2. ~(now > act_by) /\ min_u(0, bank[to_act]) = 0
      BY <2>0, <2>7, <3>1 DEF min_u
    <3>3. bank_left(to_act, now) = [bank EXCEPT ![to_act] = bank[to_act] - 0]
      BY <3>2 DEF bank_left
    <3> QED
      BY <2>0, <3>3
  <2>8. rail_clock(t, time) = clock(t, time)
    BY DEF rail_clock
  <2> HIDE DEF left
  <2> DEFINE c == clock(t, time)
  <2> HIDE DEF c
  <2>9. IF c.bank THEN c.seconds <= bank[to_act]
        ELSE c.seconds <= ACT_SECONDS /\ \A now \in Times : now <= time => bank_left(to_act, now) = bank
    <3>1. CASE left <= bank[to_act]
      <4>1. c.bank = TRUE /\ c.seconds = left
        BY <2>4, <3>1 DEF c
      <4> QED
        BY <3>1, <4>1
    <3>2. CASE ~(left <= bank[to_act])
      <4>1. left > bank[to_act]
        BY <2>0, <2>6, <3>2
      <4>2. c.bank = FALSE /\ c.seconds = left - bank[to_act]
        BY <2>5, <3>2 DEF c
      <4> QED
        BY <2>6, <2>7, <4>1, <4>2
    <3> QED
      BY <3>1, <3>2
  <2>10. time >= deadline => c.bank /\ c.seconds = 0
    <3>1. SUFFICES ASSUME time >= deadline PROVE c.bank /\ c.seconds = 0
      OBVIOUS
    <3>2. left = 0 /\ left <= bank[to_act]
      BY <2>0, <2>6, <3>1
    <3> QED
      BY <2>4, <3>2 DEF c
  <2> QED
    BY <2>8, <2>9, <2>10 DEF ClockHonest, c, t
<1> QED
  BY EmptyTable, <1>1, ClockInitially, ClockPreserved, PTL DEF Spec

------------------------------------------------------------------------------
(* The client's steps: each is a call whose asserts hold. *)

\* The contract counts a set of seats, the client its elements.
LEMMA SeatsCounted ==
    ASSUME NEW v \in SUBSET Seats
    PROVE  Cardinality(v) = count_b(v)
<1> DEFINE below(n) == {s \in v : s < n}
           Counted(n) == IsFiniteSet(below(n)) /\ Cardinality(below(n)) = count_b(below(n))
<1>a. \A s \in v : s \in Int /\ 0 <= s /\ s < 6
  BY DEF Seats
<1>0. Counted(0)
  <2>1. below(0) = {} /\ {} \in SUBSET Seats
    BY <1>a
  <2> QED
    BY <2>1, FS_EmptySet, CountB
<1>1. ASSUME NEW n \in Seats, Counted(n) PROVE Counted(n + 1)
  <2>1. CASE n \in v
    <3>1. below(n + 1) = below(n) \cup {n} /\ n \in Seats \ below(n) /\ below(n) \in SUBSET Seats
      BY <1>a, <2>1
    <3> HIDE DEF below
    <3>2. IsFiniteSet(below(n)) /\ Cardinality(below(n)) \in Nat
      BY <1>1, FS_CardinalityType
    <3>3. IsFiniteSet(below(n + 1)) /\ Cardinality(below(n + 1)) = Cardinality(below(n)) + 1
      BY <3>1, <3>2, FS_AddElement
    <3> QED
      BY <1>1, <3>1, <3>3, CountAdd
  <2>2. CASE n \notin v
    <3>1. below(n + 1) = below(n)
      <4>1. n \in Int
        BY DEF Seats
      <4>2. \A s \in v : s # n /\ (s < n + 1 <=> s < n)
        BY <1>a, <2>2, <4>1
      <4> QED
        BY <4>2
    <3> QED
      BY <1>1, <3>1
  <2> QED
    BY <2>1, <2>2
<1> HIDE DEF Counted
<1>2. Counted(6)
  <2>1. Counted(1) BY <1>0, <1>1 DEF Seats
  <2>2. Counted(2) BY <2>1, <1>1 DEF Seats
  <2>3. Counted(3) BY <2>2, <1>1 DEF Seats
  <2>4. Counted(4) BY <2>3, <1>1 DEF Seats
  <2>5. Counted(5) BY <2>4, <1>1 DEF Seats
  <2> QED BY <2>5, <1>1 DEF Seats
<1>3. below(6) = v
  BY <1>a
<1> QED
  BY <1>2, <1>3 DEF Counted

\* The reference's vocabulary is the contract's.
LEMMA PayoutVectors ==
    /\ P!Seats = Seats
    /\ \A v : P!sum_u(v) = sum_u(v)
    /\ \A a, b : P!min_u(a, b) = min_u(a, b)
    /\ \A a, b : P!clockwise(a, b) = clockwise(a, b)
  BY DEF P!Seats, P!sum_u, P!min_u, P!clockwise, Seats, sum_u, min_u, clockwise

\* And so is its count.
LEMMA PayoutCounts == \A v : P!Cardinality(v) = Cardinality(v)
  BY DEF P!Cardinality, Cardinality

\* The largest of a set of numbers.
LEMMA LargestIs ==
    ASSUME NEW S, NEW m \in S, \A y \in S : y \in Int /\ y <= m
    PROVE  P!Max(S) = m
<1>1. \A y \in S : m >= y
  OBVIOUS
<1>2. \A x \in S : (\A y \in S : x >= y) => x = m
  OBVIOUS
<1> QED
  BY <1>1, <1>2 DEF P!Max

\* The client counts the chips of a level as the contract does.
LEMMA LevelCounted ==
    ASSUME TypeInv, NEW j \in live(folded)
    PROVE  P!level_pot(total[j], in_deal, total, live(folded)) = layer(j)
<1> DEFINE low == level_below(j)
           under == {k \in P!levels(total, live(folded)) : k < total[j]}
           part(i) == P!Max({0, P!min_u(total[i], total[j])
                                 - P!below(total[j], total, live(folded))})
<1>1. /\ total \in [Seats -> Nat] /\ live(folded) \in SUBSET Seats /\ j \in Seats /\ total[j] \in Nat
      /\ \A i \in live(folded) : total[i] \in Nat
  BY DEF live, TypeInv, TypeOK, PotTypes, RosterTypes
<1>2. /\ low \in Nat /\ low <= total[j]
      /\ \/ low = 0
         \/ \E m \in live(folded) : total[m] = low /\ total[m] < total[j]
      /\ \A k \in live(folded) : total[k] < total[j] => total[k] <= low
  BY <1>1, LevelBelow
<1> HIDE DEF low
<1>3. under = {total[i] : i \in {k \in live(folded) : total[k] < total[j]}}
  BY DEF P!levels
<1>4. P!below(total[j], total, live(folded)) = low
  <2>1. low \in {0} \cup under
    BY <1>2, <1>3
  <2>2. \A y \in {0} \cup under : y \in Int /\ y <= low
    BY <1>1, <1>2, <1>3
  <2> HIDE DEF under
  <2>3. P!Max({0} \cup under) = low
    BY <2>1, <2>2, LargestIs
  <2> QED
    BY <2>3 DEF P!below, under
<1>5. ASSUME NEW i \in Seats PROVE part(i) = min_u(total[i], total[j]) - min_u(total[i], low)
  <2> DEFINE mine == min_u(total[i], total[j])  gain == mine - min_u(total[i], low)
  <2>1. total[i] \in Nat
    BY <1>1
  <2>2. mine - low \in Int /\ gain \in {0, mine - low} /\ 0 <= gain /\ mine - low <= gain
    BY <1>1, <1>2, <2>1 DEF min_u
  <2> HIDE DEF mine, gain
  <2>3. P!Max({0, mine - low}) = gain
    <3>1. \A y \in {0, mine - low} : y \in Int /\ y <= gain
      BY <2>2
    <3> QED
      BY <2>2, <3>1, LargestIs
  <2> QED
    BY <1>4, <2>3, PayoutVectors DEF mine, gain
<1>6. P!level_pot(total[j], in_deal, total, live(folded))
          = sum_u([i \in Seats |-> IF i \in in_deal THEN part(i) ELSE 0])
  BY PayoutVectors DEF P!level_pot
<1>7. [i \in Seats |-> IF i \in in_deal THEN part(i) ELSE 0]
          = [i \in Seats |-> IF i \in in_deal
                             THEN min_u(total[i], total[j]) - min_u(total[i], low) ELSE 0]
  BY <1>5
<1> QED
  BY <1>6, <1>7 DEF layer, low

\* The client finds the winners of a level the contract finds.
LEMMA WinnersFound ==
    ASSUME TypeInv, NEW j \in live(folded)
    PROVE  LET won == P!best_of(P!eligible(total[j], total, live(folded)), scores)
           IN  won = winners(j) /\ P!Cardinality(won) = count_b(winners(j))
<1>1. P!best_of(P!eligible(total[j], total, live(folded)), scores) = winners(j)
  BY DEF P!best_of, P!eligible, winners
<1> QED
  BY <1>1, SomebodyWins, SeatsCounted, PayoutCounts

\* Whole numbers divide.
LEMMA Divides ==
    ASSUME NEW amount \in Nat, NEW n \in 1..6
    PROVE  (amount \div n) * n + (amount % n) = amount /\ amount % n < n
<1>1. n = 1 \/ n = 2 \/ n = 3 \/ n = 4 \/ n = 5 \/ n = 6
  OBVIOUS
<1> QED
  BY <1>1, Z3

\* The circuit takes the division of the pot a client hands it (splits of client.ts).
LEMMA SplitsFit ==
    ASSUME TypeInv
    PROVE  splits_divide
<1> SUFFICES ASSUME NEW j \in Seats
             PROVE  LET w == P!splits(j, in_deal, total, live(folded), scores)
                        n == count_b(winners(j))
                    IN IF j \in level_seats THEN w.share * n + w.odd = layer(j) /\ w.odd < n
                       ELSE w = [share |-> 0, odd |-> 0]
  BY DEF splits_divide
<1> DEFINE w == P!splits(j, in_deal, total, live(folded), scores)
           n == count_b(winners(j))
           rep == j \in live(folded) /\ \A i \in live(folded) : i < j => total[i] # total[j]
<1>1. live(folded) \in SUBSET Seats /\ \A i \in live(folded) : i \in Int /\ j \in Int
  <2>1. live(folded) \in SUBSET Seats
    BY DEF live, TypeInv, TypeOK, RosterTypes
  <2> QED
    BY <2>1 DEF Seats
<1>2. rep <=> j \in level_seats
  BY <1>1 DEF level_seats
<1>3. CASE j \in level_seats
  <2>1. j \in live(folded)
    BY <1>3 DEF level_seats
  <2>2. n \in 1..6 /\ layer(j) \in Nat
    BY <2>1, SomebodyWins, CountB, LayerTypes
  <2>3. w = [share |-> layer(j) \div n, odd |-> layer(j) % n]
    <3>1. rep
      BY <1>2, <1>3
    <3>2. P!level_pot(total[j], in_deal, total, live(folded)) = layer(j)
      BY <2>1, LevelCounted
    <3>3. P!Cardinality(P!best_of(P!eligible(total[j], total, live(folded)), scores)) = n
      BY <2>1, WinnersFound
    <3> HIDE DEF n
    <3> QED
      BY <3>1, <3>2, <3>3 DEF P!splits, P!stands_for
  <2> HIDE DEF n
  <2>4. (layer(j) \div n) * n + (layer(j) % n) = layer(j) /\ layer(j) % n < n
    BY <2>2, Divides
  <2>5. w.share = layer(j) \div n /\ w.odd = layer(j) % n
    BY <2>3
  <2> HIDE DEF w
  <2> QED
    BY <1>3, <2>4, <2>5 DEF w, n
<1>4. CASE j \notin level_seats
  <2>1. ~rep
    BY <1>2, <1>4
  <2>2. w = [share |-> 0, odd |-> 0]
    BY <2>1 DEF P!splits, P!stands_for
  <2> QED
    BY <1>4, <2>2
<1> QED
  BY <1>3, <1>4

\* Of one level the reference gives everyone what the contract does.
LEMMA LevelShared ==
    ASSUME TypeInv, NEW j \in live(folded), NEW i \in Seats
    PROVE  P!level_share(i, total[j], in_deal, total, live(folded), scores, dealer) = level_pay(j, i)
<1> DEFINE won == P!best_of(P!eligible(total[j], total, live(folded)), scores)
           nearer == {k \in won : P!clockwise(dealer, k) < P!clockwise(dealer, i)}
<1>1. P!level_pot(total[j], in_deal, total, live(folded)) = layer(j)
  BY LevelCounted
<1>2. won = winners(j) /\ P!Cardinality(won) = count_b(winners(j)) /\ winners(j) \in SUBSET Seats
  BY WinnersFound, SomebodyWins
<1>3. nearer = {m \in winners(j) : clockwise(dealer, m) < clockwise(dealer, i)}
  BY <1>2, PayoutVectors
<1>4. P!Cardinality(nearer) = count_b(nearer)
  BY <1>2, <1>3, SeatsCounted, PayoutCounts
<1> HIDE DEF won, nearer
<1>5. P!level_share(i, total[j], in_deal, total, live(folded), scores, dealer)
          = IF i \notin won THEN 0
            ELSE (layer(j) \div P!Cardinality(won))
                 + (IF P!Cardinality(nearer) < layer(j) % P!Cardinality(won) THEN 1 ELSE 0)
  BY <1>1 DEF P!level_share, won, nearer
<1> QED
  BY <1>2, <1>3, <1>4, <1>5 DEF level_pay

\* And all its levels together, before what nobody still in had matched.
LEMMA LevelsShared ==
    ASSUME TypeInv, NEW i \in Seats
    PROVE  sum_u([j \in Seats |->
               IF P!stands_for(j, total, live(folded))
               THEN P!level_share(i, total[j], in_deal, total, live(folded), scores, dealer)
               ELSE 0]) = pay[i]
<1>1. ASSUME NEW j \in Seats
      PROVE  (IF P!stands_for(j, total, live(folded))
              THEN P!level_share(i, total[j], in_deal, total, live(folded), scores, dealer)
              ELSE 0) = IF j \in level_seats THEN level_pay(j, i) ELSE 0
  <2>1. live(folded) \in SUBSET Seats
    BY DEF live, TypeInv, TypeOK, RosterTypes
  <2>2. j \in Int /\ \A k \in live(folded) : k \in Int
    BY <2>1 DEF Seats
  <2>3. P!stands_for(j, total, live(folded)) <=> j \in level_seats
    BY <2>2 DEF P!stands_for, level_seats
  <2>4. j \in level_seats => j \in live(folded)
    BY DEF level_seats
  <2> QED
    BY <2>3, <2>4, LevelShared
<1> QED
  BY <1>1 DEF pay

\* The reference pays what the contract pays, and the rest of the pot to somebody.
LEMMA ReferenceAgrees ==
    ASSUME TypeInv, RolesInDeal, live(folded) # {}
    PROVE  LET reference == P!payouts(in_deal, total, live(folded), scores, dealer) IN
           /\ sum_u(reference) = sum_u(total)
           /\ overfolded \/ reference = pay
<1> DEFINE by_level(i) ==
               sum_u([j \in Seats |->
                   IF P!stands_for(j, total, live(folded))
                   THEN P!level_share(i, total[j], in_deal, total, live(folded), scores, dealer)
                   ELSE 0])
           most == P!Max(P!levels(total, live(folded)))
           last == P!best_of(P!eligible(most, total, live(folded)), scores)
           f == first_clockwise(dealer, last)
           rest == sum_u(total) - sum_u(pay)
           more == [i \in Seats |-> IF i = f THEN rest ELSE 0]
           reference == P!payouts(in_deal, total, live(folded), scores, dealer)
<1>0. /\ total \in [Seats -> Nat] /\ live(folded) \in SUBSET Seats /\ dealer \in Int
      /\ \A i \in live(folded) : total[i] \in Nat
  BY DEF live, TypeInv, TypeOK, PotTypes, RosterTypes, Seats, NONE
<1>1. pay \in [Seats -> Nat] /\ sum_u(pay) \in Nat /\ sum_u(total) \in Nat
  <2>1. pay \in [Seats -> Nat]
    BY PayTypes
  <2> QED
    BY <1>0, <2>1, SumU
<1>2. \A i \in Seats : by_level(i) = pay[i]
  BY LevelsShared
<1> HIDE DEF by_level
<1>3. sum_u([i \in Seats |-> by_level(i)]) = sum_u(pay)
  <2>1. [i \in Seats |-> by_level(i)] = pay
    BY <1>1, <1>2
  <2> QED
    BY <2>1
<1>4. sum_u([i \in Seats |-> IF i \in in_deal THEN total[i] ELSE 0]) = sum_u(total)
  <2>1. [i \in Seats |-> IF i \in in_deal THEN total[i] ELSE 0] = total
    BY <1>0 DEF RolesInDeal
  <2> QED
    BY <2>1
<1>5. f \in Seats
  <2>1. PICK top \in live(folded) : \A k \in live(folded) : total[k] <= total[top]
    BY LargestTotal
  <2>2. most = total[top]
    <3>1. total[top] \in P!levels(total, live(folded))
      BY DEF P!levels
    <3>2. \A y \in P!levels(total, live(folded)) : y \in Int /\ y <= total[top]
      BY <1>0, <2>1 DEF P!levels
    <3> QED
      BY <3>1, <3>2, LargestIs
  <2>3. last = winners(top) /\ winners(top) \in SUBSET Seats /\ winners(top) # {}
    BY <2>2, WinnersFound, SomebodyWins
  <2> HIDE DEF last
  <2> QED
    BY <1>0, <2>3, FirstClockwise
<1>6. \A v : P!first_clockwise(dealer, v) = first_clockwise(dealer, v)
  BY DEF P!first_clockwise, first_clockwise, P!clockwise, clockwise, P!NONE, NONE
<1>7. reference = [i \in Seats |-> pay[i] + more[i]]
  <2>1. reference = [i \in Seats |-> by_level(i)
                        + (IF i = f THEN sum_u([k \in Seats |-> IF k \in in_deal THEN total[k] ELSE 0])
                                         - sum_u([k \in Seats |-> by_level(k)]) ELSE 0)]
    BY <1>6, PayoutVectors DEF P!payouts, by_level
  <2> HIDE DEF f, reference
  <2> QED
    BY <1>2, <1>3, <1>4, <2>1
<1> HIDE DEF f, reference
<1>8. sum_u(reference) = sum_u(total)
  <2>1. more \in [Seats -> Int] /\ reference \in [Seats -> Int] /\ pay \in [Seats -> Int]
    BY <1>1, <1>7
  <2>2. sum_u(more) = rest
    <3>1. rest \in Int
      BY <1>1
    <3> HIDE DEF rest
    <3> QED
      BY <1>5, <3>1, SumOne
  <2>3. sum_u(reference) = sum_u(pay) + sum_u(more)
    BY <1>7, <2>1, SumDelta
  <2> HIDE DEF more
  <2> QED
    BY <1>1, <2>2, <2>3
<1>9. ~overfolded => reference = pay
  <2>1. ~overfolded => rest = 0
    BY <1>1, PotDivides
  <2> HIDE DEF rest
  <2>2. ASSUME rest = 0 PROVE \A i \in Seats : pay[i] + more[i] = pay[i]
    BY <1>1, <2>2
  <2> QED
    BY <1>1, <1>7, <2>1, <2>2
<1> QED
  BY <1>8, <1>9 DEF reference

\* At every showdown the contract, the reference it names and the witness of its clients
\* divide the pot alike, and the contract's own check refuses only a pot of which a folded
\* player had put in more than anyone still in.
THEOREM PotsAgree == Spec => []PayoutsAgree
<1>1. ShareInv => PayoutsAgree
  <2> SUFFICES ASSUME ShareInv, phase = "showdown"
               PROVE  PayoutsAgree
    BY DEF PayoutsAgree, OnlyOverfoldedSticks
  <2>1. TypeInv /\ RolesInDeal /\ live(folded) # {}
    <3>1. count_b(live(folded)) >= 2
      BY DEF ShareInv, BettingInv, BettingOrder, TwoStillIn, dealing
    <3> QED
      BY <3>1, CountB DEF ShareInv, BettingInv, CustodyInv, BooksInv
  <2> QED
    BY <2>1, PotDivides, ReferenceAgrees DEF PayoutsAgree, OnlyOverfoldedSticks
<1> QED
  BY EmptyTable, <1>1, ShareInitially, SharePreserved, PTL DEF Spec

\* And of what an offender forfeits (forfeitSplit of client.ts).
LEMMA ForfeitFits ==
    ASSUME TypeInv, offender # NONE, live(folded) \ {offender} # {}
    PROVE  forfeit_divides
<1> DEFINE payees == live(folded) \ {offender}
           n == count_b(payees)
           lost == BOND + total[offender]
           w == P!forfeitSplit(lost, payees)
<1>1. payees \in SUBSET Seats /\ payees # {} /\ lost \in Nat
  BY StakesAssumption DEF live, TypeInv, TypeOK, RosterTypes, PotTypes, BOND
<1>2. n \in 1..6 /\ P!Cardinality(payees) = n
  BY <1>1, CountB, SeatsCounted, PayoutCounts
<1> HIDE DEF lost, payees, n
<1>3. w.share = lost \div n /\ w.odd = lost % n
  <2>1. n # 0
    BY <1>2
  <2>2. w = [share |-> lost \div n, odd |-> lost % n]
    BY <1>2, <2>1 DEF P!forfeitSplit
  <2> QED
    BY <2>2
<1>4. (lost \div n) * n + (lost % n) = lost /\ lost % n < n
  BY <1>1, <1>2, Divides
<1>5. w.share * n + w.odd = lost /\ w.odd < n
  BY <1>3, <1>4
<1> QED
  BY <1>5 DEF forfeit_divides, lost, payees, n

\* The positions a client shares are all the hole positions but its own two.
LEMMA OtherPositions ==
    ASSUME Roster, NEW s \in in_deal
    PROVE  other_positions(ledger_now, s) = others_holes(s)
<1> DEFINE place(i) == order_of(in_deal, i)
<1>1. in_deal \in SUBSET Seats /\ n_players \in 1..6 /\ n_players = count_b(in_deal)
  BY HolePositions DEF Roster, RosterTypes
<1>2. \A i \in in_deal : /\ place(i) \in Nat /\ place(i) < n_players
                         /\ \A k \in in_deal : place(k) = place(i) => k = i
  BY <1>1, DealingOrder
<1>3. ASSUME NEW m \in Nat, m < n_players PROVE \E i \in in_deal : place(i) = m
  <2>1. PICK i \in in_deal : count_b({k \in in_deal : clockwise(5, k) < clockwise(5, i)}) = m
    BY <1>1, <1>3, EveryPlaceTaken
  <2>2. \A k \in Seats : clockwise(5, k) = k
    BY DEF clockwise, Seats
  <2>3. {k \in in_deal : clockwise(5, k) < clockwise(5, i)} = {k \in in_deal : k < i}
    BY <1>1, <2>2
  <2> QED
    BY <2>1, <2>3 DEF order_of
<1>4. /\ own_positions(s) = {2 * place(s), 2 * place(s) + 1}
      /\ other_positions(ledger_now, s)
             = UNION {{2 * place(i), 2 * place(i) + 1} : i \in in_deal \ {s}}
  BY DEF own_positions, other_positions, hole_positions, ledger_now
<1> HIDE DEF place
<1>5. ASSUME NEW pos \in other_positions(ledger_now, s) PROVE pos \in others_holes(s)
  <2>1. PICK i \in in_deal \ {s} : pos \in {2 * place(i), 2 * place(i) + 1}
    BY <1>4, <1>5
  <2>2. /\ place(i) \in Nat /\ place(i) < n_players /\ place(s) \in Nat
        /\ place(i) # place(s)
    BY <1>2
  <2> QED
    BY <1>1, <1>4, <2>1, <2>2 DEF others_holes
<1>6. ASSUME NEW pos \in others_holes(s) PROVE pos \in other_positions(ledger_now, s)
  <2>1. pos \in 0..(2 * n_players - 1) /\ pos \notin own_positions(s)
    BY <1>6 DEF others_holes
  <2>2. PICK m \in Nat : m < n_players /\ (pos = 2 * m \/ pos = 2 * m + 1)
    <3>1. pos \div 2 \in Nat /\ pos \div 2 < n_players /\ (pos = 2 * (pos \div 2) \/ pos = 2 * (pos \div 2) + 1)
      BY <1>1, <2>1
    <3> QED
      BY <3>1
  <2>3. PICK i \in in_deal : place(i) = m
    BY <1>3, <2>2
  <2>4. i # s
    BY <1>4, <2>1, <2>2, <2>3
  <2> QED
    BY <1>4, <2>2, <2>3, <2>4
<1> QED
  BY <1>5, <1>6

\* Somebody not locked out holds the key of every card the deal waits for them with.
LEMMA OwnsKey ==
    ASSUME ShareInv, NEW s \in in_deal, phase \in Dealt, ~locked_out(s)
    PROVE  keys[s] = seat_owner[s]
<1>1. s \in key_holders(keys)
  BY DEF ShareInv, DeckInv, DeckInOrder
<1> QED
  BY <1>1 DEF key_holders, locked_out

LEMMA NowIsNow ==
    ASSUME TypeInv
    PROVE  check_now(time) /\ check_clock(time, SHUFFLE_SLACK)
  BY InputsAssumption
     DEF TypeInv, TypeOK, ClockTypes, check_now, check_clock, CLOCK_SLACK, SHUFFLE_SLACK

\* Somebody not locked out, told by rules.ts that the deal waits for a step of theirs, is
\* not refused.
LEMMA DealStepTaken ==
    ASSUME ShareInv, NEW s \in occupied, ~locked_out(s), NEW step,
           deal_step(ledger_now, s) = <<step>>, ~unpayable(step)
    PROVE  takes_step(seat_owner[s], s, step, time)
<1> DEFINE p == seat_owner[s]
           said(t) == deal_step(ledger_now, s) = <<t>>
<1>0. /\ TypeInv /\ s \in Seats /\ n_players = count_b(in_deal) /\ Roster /\ RolesInDeal
      /\ dealing => count_b(live(folded)) >= 2
      /\ in_deal \in SUBSET Seats /\ live(folded) \in SUBSET in_deal
      /\ check_now(time) /\ check_clock(time, SHUFFLE_SLACK)
  <2>1. TypeInv
    BY DEF ShareInv, DeckInv, PrepInv
  <2> QED
    BY <2>1, NowIsNow
       DEF ShareInv, BettingInv, BettingOrder, TwoStillIn, CustodyInv, BooksInv, DeckInv, DeckInOrder,
           Roster, TypeInv, TypeOK, RosterTypes, occupied, live
<1>1. /\ ledger_now.phase = phase /\ ledger_now.in_deal = in_deal /\ ledger_now.keys = keys
      /\ ledger_now.nobody = NoPlayer /\ ledger_now.turn = turn /\ ledger_now.folded = folded
      /\ ledger_now.hole_shares = hole_shares /\ ledger_now.scores = scores
      /\ live_in(ledger_now) = live(folded)
  BY DEF ledger_now, live_in, live
<1>2. \/ phase = "keys" /\ s \in in_deal /\ keys[s] = NoPlayer /\ step = "post_key"
      \/ phase = "shuffle" /\ turn = s /\ step = "shuffle"
      \/ phase = "holes" /\ s \in in_deal /\ hole_shares[s] < 2 * count_b(in_deal) - 2 /\ step = "shares"
      \/ phase = "release" /\ s \in live(folded) /\ step = "release"
      \/ phase = "tabling" /\ s \in live(folded) /\ step = "show"
      \/ phase = "showdown" /\ s \in live(folded) /\ scores[s] = 0 /\ step = "show_hand"
      \/ phase = "showdown" /\ (\A i \in live(folded) : scores[i] # 0) /\ step = "settle"
      \/ phase = "aborted" /\ step = "settle_abort"
  BY <1>1 DEF deal_step
<1>3. s \in live(folded) => s \in in_deal
  BY <1>0
<1>4. CASE phase = "keys" /\ step = "post_key"
  BY <1>0, <1>2, <1>4 DEF takes_step, post_key_asserts, owner_check
<1>5. CASE phase = "shuffle" /\ step = "shuffle"
  BY <1>0, <1>2, <1>5 DEF takes_step, shuffle_asserts, owner_check
<1>6. CASE phase = "holes" /\ step = "shares"
  <2>1. s \in in_deal /\ hole_shares[s] < 2 * count_b(in_deal) - 2
    BY <1>2, <1>6
  <2>2. keys[s] = p
    BY <1>6, <2>1, OwnsKey DEF Dealt
  <2>3. other_positions(ledger_now, s) = others_holes(s)
    BY <1>0, <2>1, OtherPositions
  <2>4. others_holes(s) # {}
    <3> SUFFICES ASSUME others_holes(s) = {} PROVE FALSE
      OBVIOUS
    <3>1. holes_shared(s) = {}
      BY DEF holes_shared
    <3>2. hole_shares[s] = 0
      BY <2>1, <3>1, FS_EmptySet DEF ShareInv, ShareOrder, SharesCounted
    <3>3. Cardinality(others_holes(s)) = 2 * n_players - 2
      BY <1>0, <2>1, HolesOwed DEF need
    <3> QED
      BY <1>0, <2>1, <3>2, <3>3, FS_EmptySet
  <2> QED
    BY <1>0, <1>6, <2>2, <2>3, <2>4 DEF takes_step, shares_asserts, key_check, others_holes
<1>7. CASE phase = "release" /\ step = "release"
  BY <1>0, <1>2, <1>7, OwnsKey DEF Dealt, takes_step, release_asserts, key_check
<1>8. CASE phase = "tabling" /\ step = "show"
  BY <1>0, <1>2, <1>8, OwnsKey DEF Dealt, takes_step, show_asserts, key_check
<1>9. CASE phase = "showdown" /\ step = "show_hand"
  <2>1. s \in live(folded) /\ scores[s] = 0 /\ s \in in_deal
    BY <1>2, <1>3, <1>9
  <2>2. keys[s] = p
    BY <1>9, <2>1, OwnsKey DEF Dealt
  <2>3. ShowdownOpens
    BY ShowdownReady
  <2>4. \A pos \in own_positions(s) : opens(pos, s, TRUE)
    BY <1>9, <2>1, <2>3 DEF ShowdownOpens
  <2>5. \A pos \in board_positions(0, 3) : opens(pos, s, FALSE)
    BY <1>9, <2>1, <2>3 DEF ShowdownOpens
  <2> QED
    BY <1>0, <1>9, <2>1, <2>2, <2>4, <2>5 DEF takes_step, show_hand_asserts, key_check
<1>10. CASE phase = "showdown" /\ step = "settle"
  <2>1. \A i \in live(folded) : scores[i] # 0
    BY <1>2, <1>10
  <2>2. scored = live(folded)
    BY <2>1 DEF scored
  <2>3. shown = count_b(live(folded))
    BY <1>10, <2>2 DEF ShareInv, ShareOrder, ScoresCounted
  <2>4. ~overfolded
    BY <1>10 DEF unpayable
  <2>5. live(folded) # {}
    BY <1>0, <1>10, CountB DEF dealing
  <2>6. sum_u(pay) = sum_u(total) /\ splits_divide
    BY <1>0, <2>4, <2>5, PotDivides, SplitsFit
  <2> QED
    BY <1>10, <2>3, <2>6 DEF takes_step, settle_asserts
<1>11. CASE phase = "aborted" /\ step = "settle_abort"
  <2>1. offender # NONE /\ live(folded) \ {offender} # {}
    BY <1>11 DEF unpayable
  <2> QED
    BY <1>0, <1>11, <2>1, ForfeitFits DEF takes_step, settle_abort_asserts
<1> QED
  BY <1>2, <1>4, <1>5, <1>6, <1>7, <1>8, <1>9, <1>10, <1>11

\* Nor is somebody told to prepare the next deck.
LEMMA PrepStepTaken ==
    ASSUME ShareInv, NEW s \in occupied, NEW step, prep_step(ledger_now, s) = <<step>>
    PROVE  takes_step(seat_owner[s], s, step, time)
<1>0. check_now(time) /\ check_clock(time, SHUFFLE_SLACK)
  <2>1. TypeInv
    BY DEF ShareInv, DeckInv, PrepInv
  <2> QED
    BY <2>1, NowIsNow
<1>1. \/ step = "post_next_key" /\ next_prep = "keys" /\ s \in next_in_deal /\ next_keys[s] = NoPlayer
      \/ step = "shuffle_next" /\ next_prep = "shuffle" /\ next_turn = s
  BY DEF prep_step, owes_next_key, ledger_now
<1> QED
  BY <1>0, <1>1
     DEF takes_step, post_next_key_asserts, shuffle_next_asserts, owner_check

LEMMA OwedTaken == ShareInv => OwedAccepted
<1> SUFFICES ASSUME ShareInv, NEW s \in occupied, ~locked_out(s),
                    NEW i \in DOMAIN owed(ledger_now, s)
             PROVE  \/ unpayable(owed(ledger_now, s)[i])
                    \/ takes_step(seat_owner[s], s, owed(ledger_now, s)[i], time)
  BY DEF OwedAccepted
<1> DEFINE d == deal_step(ledger_now, s)  b == prep_step(ledger_now, s)
           step == owed(ledger_now, s)[i]
<1>1. d \in {<<>>, <<"post_key">>, <<"shuffle">>, <<"shares">>, <<"release">>, <<"show">>,
             <<"show_hand">>, <<"settle">>, <<"settle_abort">>}
  BY DEF deal_step
<1>2. b \in {<<>>, <<"post_next_key">>, <<"shuffle_next">>}
  BY DEF prep_step
<1>3. owed(ledger_now, s) = d \o b
  BY DEF owed
<1> HIDE DEF d, b
<1>4. d = <<step>> \/ b = <<step>>
  <2>1. d = <<>> \/ \E x : d = <<x>>
    BY <1>1
  <2>2. b = <<>> \/ \E x : b = <<x>>
    BY <1>2
  <2>3. i \in DOMAIN (d \o b) /\ step = (d \o b)[i]
    BY <1>3
  <2> HIDE DEF step
  <2> QED
    BY <2>1, <2>2, <2>3
<1> QED
  BY <1>4, DealStepTaken, PrepStepTaken DEF d, b

\* A step a client's rules say it owes is never refused, whatever everybody else does,
\* but by a pot or an abort the contract cannot pay and by a key that is not the seat's:
\* every precondition of rules.ts and of the witnesses of client.ts against the asserts of
\* the circuit it calls.
THEOREM NoStepRefused == Spec => []OwedAccepted
  BY EmptyTable, OwedTaken, ShareInitially, SharePreserved, PTL DEF Spec

------------------------------------------------------------------------------
(* What a street is bet for: the rail's words. *)

\* The blinds open the first street, and a later one is open until somebody bets; then
\* whoever has not acted since has less in than the bet.
StreetBets ==
    /\ phase \in Before \cup {"playing"} => min_raise > 0
    /\ phase \in Before \cup {"playing"} /\ street = 0 => current_bet >= BIG_BLIND
    /\ phase = "playing" /\ street > 0 =>
          \A k \in actors(folded, all_in) \ acted : bet[k] < current_bet \/ current_bet = 0
    /\ phase = "release" => release_street > 0

RailInv == ShareInv /\ StreetBets

\* Nothing of a street changes, or betting begins on the first.
LEMMA StreetKept ==
    ASSUME RailInv, UNCHANGED streetVars, UNCHANGED <<in_deal, folded, all_in, release_street>>,
           \/ phase' = phase \/ phase' \notin Before \cup {"playing", "release"}
           \/ phase \in Before /\ phase' \in Before \cup {"playing"}
    PROVE  StreetBets'
<1>1. StreetBets /\ (phase \in Before => street = 0)
  BY DEF RailInv, ShareInv, ShareOrder, LaterStreetsKept
<1>2. /\ street' = street /\ current_bet' = current_bet /\ min_raise' = min_raise
      /\ bet' = bet /\ acted' = acted /\ release_street' = release_street
      /\ actors(folded, all_in)' = actors(folded, all_in)
  BY DEF streetVars, actors
<1>3. CASE phase' = phase
  BY <1>1, <1>2, <1>3 DEF StreetBets
<1>4. CASE phase' \notin Before \cup {"playing", "release"}
  BY <1>4 DEF StreetBets
<1>5. CASE phase \in Before /\ phase' \in Before \cup {"playing"}
  <2>1. street' = 0 /\ phase' # "release"
    BY <1>1, <1>2, <1>5 DEF Before
  <2> QED
    BY <1>1, <1>2, <1>5, <2>1 DEF StreetBets
<1> QED
  BY <1>3, <1>4, <1>5

\* The street that opens is a later one.
LEMMA StreetReleased ==
    ASSUME RailInv, NEW p \in Players, NEW s \in Seats, NEW now \in Times, release(p, s, now)
    PROVE  StreetBets'
<1>1. phase = "release" /\ release_street \in 0..3 /\ release_street > 0 /\ BIG_BLIND > 0
  BY StakesAssumption
     DEF release, release_asserts, RailInv, StreetBets, ShareInv, BettingInv, CustodyInv, BooksInv,
         TypeInv, TypeOK
<1>2. CASE UNCHANGED <<stageVars, street, current_bet, min_raise, bet, acted, release_street>>
  BY <1>1, <1>2 DEF StreetBets, stageVars, Before
<1>3. CASE resume_betting(now)
  <2>1. street' = release_street /\ current_bet' = 0 /\ min_raise' = BIG_BLIND
    BY <1>3 DEF resume_betting
  <2>2. phase' \notin Before /\ (phase' = "release" => release_street' > 0)
    <3>1. phase' = "playing" \/ close_street(now, release_street, actors(folded, all_in))
      BY <1>3 DEF resume_betting
    <3> QED
      BY <1>1, <3>1 DEF close_street, Before
  <2> QED
    BY <1>1, <2>1, <2>2 DEF StreetBets
<1> QED
  BY <1>2, <1>3 DEF release

\* A raise leaves everybody else less in than the bet; whoever acts has acted.
LEMMA StreetBet ==
    ASSUME RailInv, NEW p \in Players, BetCall(p)
    PROVE  StreetBets'
<1>1. PICK s \in Seats, kind \in Kinds, now \in Times :
          \E t \in IF kind = 2 THEN Amounts ELSE {0} :
              act(p, s, kind, t, now) \/ act_out(p, s, kind, t, now)
  BY DEF BetCall
<1>2. PICK t \in Nat : act(p, s, kind, t, now) \/ act_out(p, s, kind, t, now)
  BY <1>1, InputsAssumption
<1>3. phase = "playing" /\ legal_action(s, kind, t) /\ UNCHANGED <<in_deal, street>>
  BY <1>2 DEF act, act_asserts, act_out, act_out_asserts, act_check, rosterVars
<1>4. \E out, bk : apply_action(s, kind, t, out, now, bk)
  BY <1>2 DEF act, act_out
<1> DEFINE full_raise == kind = 2 /\ t - current_bet >= min_raise
<1>5. /\ bet' = [bet EXCEPT ![s] = @ + action_amount(s, kind, t)]
      /\ acted' = (IF full_raise THEN {} ELSE acted) \cup {s}
      /\ current_bet' = IF kind = 2 THEN t ELSE current_bet
      /\ min_raise' = IF full_raise THEN t - current_bet ELSE min_raise
      /\ actors(folded, all_in)' \ {s} \subseteq actors(folded, all_in)
  BY <1>3, <1>4 DEF apply_action, actors, live
<1>6. /\ TypeInv /\ bet \in [Seats -> Nat] /\ current_bet \in Nat /\ min_raise \in Nat
      /\ \A k \in Seats : bet[k] <= current_bet
      /\ actors(folded, all_in) \subseteq Seats /\ street \in 0..3 /\ BIG_BLIND \in Nat
      /\ StreetBets /\ min_raise > 0
  <2>1. TypeInv /\ StreetBets
    BY DEF RailInv, ShareInv, BettingInv, CustodyInv, BooksInv
  <2> QED
    BY <1>3, <2>1, ActorSets, StakesAssumption DEF StreetBets, TypeInv, TypeOK, StreetTypes, BetsCovered
<1>7. kind = 2 => t > current_bet
  <2>1. CASE full_raise
    BY <1>6, <2>1
  <2>2. CASE ~full_raise
    BY <1>3, <1>6, <2>2, ShortRaise
  <2> QED
    BY <2>1, <2>2
<1>8. phase' \in {"done", "playing", "release", "tabling", "showdown"}
      /\ (phase' = "release" => release_street' = street + 1)
  BY <1>3, <1>4 DEF apply_action, close_street
<1>9. min_raise' > 0 /\ current_bet' >= current_bet
  BY <1>5, <1>6, <1>7
<1>10. ASSUME phase' = "playing", street > 0, NEW k \in actors(folded, all_in)' \ acted'
       PROVE  bet'[k] < current_bet' \/ current_bet' = 0
  <2>1. k # s /\ k \in actors(folded, all_in) /\ k \in Seats
    BY <1>5, <1>6, <1>10
  <2>2. bet'[k] = bet[k]
    BY <1>5, <1>6, <2>1
  <2>3. CASE kind = 2
    BY <1>5, <1>6, <1>7, <2>1, <2>2, <2>3
  <2>4. CASE kind # 2
    <3>1. k \notin acted /\ current_bet' = current_bet
      BY <1>5, <1>10, <2>4
    <3> QED
      BY <1>3, <1>6, <1>10, <2>1, <2>2, <3>1 DEF StreetBets
  <2> QED
    BY <2>3, <2>4
<1>11. street' = 0 => current_bet' >= BIG_BLIND
  <2>1. street = 0 => current_bet >= BIG_BLIND
    BY <1>3, <1>6 DEF StreetBets
  <2>2. current_bet' \in Nat
    BY <1>5, <1>6
  <2> QED
    BY <1>3, <1>6, <1>9, <2>1, <2>2
<1> HIDE DEF full_raise
<1> QED
  BY <1>3, <1>6, <1>8, <1>9, <1>10, <1>11 DEF StreetBets, Before

LEMMA RailInitially == FreshTable => RailInv
  BY ShareInitially DEF RailInv, StreetBets, FreshTable, NeverDealt, Before

LEMMA RailPreserved == RailInv /\ [Next]_vars => RailInv'
<1> SUFFICES ASSUME RailInv, [Next]_vars PROVE StreetBets'
  BY SharePreserved DEF RailInv
<1>1. CASE Tick \/ UNCHANGED vars
  <2>1. UNCHANGED <<streetVars, in_deal, folded, all_in, release_street, phase>>
    BY <1>1 DEF Tick, vars, rosterVars, potVars, stageVars
  <2> QED
    BY <2>1, StreetKept
<1>2. ASSUME NEW now \in Times, start_deal(now) PROVE StreetBets'
  <2>1. /\ street' = 0 /\ current_bet' = BIG_BLIND /\ min_raise' = BIG_BLIND
        /\ phase' \in {"keys", "holes"}
    BY <1>2 DEF start_deal
  <2> QED
    BY <2>1, StakesAssumption DEF StreetBets
<1>3. ASSUME settle \/ expire \/ settle_abort \/ \E now \in Times : expire_next(now)
      PROVE  StreetBets'
  <2>1. phase' \in {"idle", "done", "aborted"}
    BY <1>3 DEF settle, settle_abort, expire, expire_next, stageVars
  <2> QED
    BY <2>1 DEF StreetBets, Before
<1>4. ASSUME NEW p \in Players, SeatCall(p) \/ PrepCall(p) PROVE StreetBets'
  <2>1. UNCHANGED <<streetVars, in_deal, folded, all_in, release_street, phase>>
    BY <1>4 DEF SeatCall, join, stand_up, buy_in, leave, PrepCall, post_next_key, shuffle_next,
                rosterVars, potVars, stageVars
  <2> QED
    BY <2>1, StreetKept
<1>5. ASSUME NEW p \in Players, CardCall(p) PROVE StreetBets'
  <2>1. ASSUME NEW s \in Seats, NEW now \in Times, post_key(p, s, now) \/ shuffle(p, s, now)
        PROVE  StreetBets'
    <3>1. UNCHANGED <<streetVars, in_deal, folded, all_in, release_street>>
          /\ phase \in Before /\ phase' \in Before
      BY <2>1 DEF post_key, post_key_asserts, shuffle, shuffle_asserts, rosterVars, potVars, Before
    <3> QED
      BY <3>1, StreetKept
  <2>2. ASSUME NEW s \in Seats, NEW now \in Times, NEW ps, shares(p, s, ps, now)
        PROVE  StreetBets'
    <3>1. UNCHANGED <<streetVars, in_deal, folded, all_in, release_street>>
          /\ phase = "holes" /\ phase' \in {"holes", "playing", "tabling"}
      BY <2>2 DEF shares, shares_asserts, begin_betting, rosterVars, potVars, stageVars
    <3> QED
      BY <3>1, StreetKept DEF Before
  <2>3. ASSUME NEW s \in Seats, NEW now \in Times, release(p, s, now) PROVE StreetBets'
    BY <2>3, StreetReleased
  <2>4. ASSUME NEW s \in Seats, NEW now \in Times, show(p, s, now) PROVE StreetBets'
    <3>1. CASE UNCHANGED <<phase, street, release_street>>
      <4>1. UNCHANGED <<streetVars, in_deal, folded, all_in, release_street, phase>>
        BY <2>4, <3>1 DEF show, rosterVars, potVars, streetVars
      <4> QED
        BY <4>1, StreetKept
    <3>2. CASE run_out(now)
      <4>1. phase' \in {"showdown", "release"} /\ (phase' = "release" => release_street' = 3)
        BY <3>2 DEF run_out
      <4> QED
        BY <4>1 DEF StreetBets, Before
    <3> QED
      BY <2>4, <3>1, <3>2 DEF show
  <2>5. ASSUME NEW s \in Seats, NEW score \in Scores, NEW now \in Times,
               show_hand(p, s, score, now)
        PROVE  StreetBets'
    <3>1. UNCHANGED <<streetVars, in_deal, folded, all_in, release_street, phase>>
      BY <2>5 DEF show_hand, rosterVars, potVars, stageVars
    <3> QED
      BY <3>1, StreetKept
  <2> QED
    BY <1>5, <2>1, <2>2, <2>3, <2>4, <2>5 DEF CardCall
<1>6. ASSUME NEW p \in Players, BetCall(p) PROVE StreetBets'
  BY <1>6, StreetBet
<1> QED
  BY <1>1, <1>2, <1>3, <1>4, <1>5, <1>6 DEF Next, Call, TableCall

\* What rules.ts makes of the seat to act: a call of what is left to match, a raise from the
\* least to all the player has.
LEMMA RailReads ==
    ASSUME phase = "playing"
    PROVE  LET g == legal(ledger_now, to_act)
               to_call == current_bet - bet[to_act]
               all == bet[to_act] + stack[to_act]
               least == min_u(all, IF current_bet = 0 THEN BIG_BLIND ELSE current_bet + min_raise)
           IN
           /\ g.check = (to_call = 0) /\ g.call = min_u(to_call, stack[to_act])
           /\ \/ /\ g.raise = <<least, all>>
                 /\ stack[to_act] > to_call /\ count_b(actors(folded, all_in)) > 1
                 /\ to_act \notin acted
              \/ /\ g.raise = <<>>
                 /\ ~(stack[to_act] > to_call /\ count_b(actors(folded, all_in)) > 1
                      /\ to_act \notin acted)
<1> DEFINE may_raise == /\ stack[to_act] > current_bet - bet[to_act]
                        /\ count_b(actors(folded, all_in)) > 1
                        /\ to_act \notin acted
           all == bet[to_act] + stack[to_act]
           least == min_u(all, IF current_bet = 0 THEN BIG_BLIND ELSE current_bet + min_raise)
<1>1. /\ ledger_now.phase = "playing" /\ ledger_now.to_act = to_act
      /\ ledger_now.current_bet = current_bet /\ ledger_now.bet = bet /\ ledger_now.stack = stack
      /\ ledger_now.acted = acted /\ ledger_now.all_in = all_in /\ ledger_now.min_raise = min_raise
      /\ ledger_now.big_blind = BIG_BLIND /\ live_in(ledger_now) = live(folded)
  BY DEF ledger_now, live_in, live
<1>2. /\ legal(ledger_now, to_act).check = (current_bet - bet[to_act] = 0)
      /\ legal(ledger_now, to_act).call = min_u(current_bet - bet[to_act], stack[to_act])
  BY <1>1 DEF legal
<1>3. legal(ledger_now, to_act).raise = IF may_raise THEN <<least, all>> ELSE <<>>
  <2>1. live_in(ledger_now) \ ledger_now.all_in = actors(folded, all_in)
    BY <1>1 DEF actors, live
  <2>2. CASE may_raise
    <3>1. legal(ledger_now, to_act).raise = <<least, all>>
      BY <1>1, <2>1, <2>2 DEF legal
    <3> QED
      BY <2>2, <3>1
  <2>3. CASE ~may_raise
    <3>1. legal(ledger_now, to_act).raise = <<>>
      BY <1>1, <2>1, <2>3 DEF legal
    <3> QED
      BY <2>3, <3>1
  <2> QED
    BY <2>2, <2>3
<1> HIDE DEF all, least
<1>4. may_raise \/ ~may_raise
  OBVIOUS
<1> HIDE DEF may_raise
<1> QED
  BY <1>2, <1>3, <1>4 DEF may_raise, all, least

LEMMA RailTrue == RailInv => RailAgrees
<1> SUFFICES ASSUME RailInv, phase = "playing", to_act \in occupied, ~locked_out(to_act)
             PROVE  RailAgrees
  BY DEF RailAgrees
<1> DEFINE s == to_act
           p == seat_owner[to_act]
           g == legal(ledger_now, to_act)
           all == bet[to_act] + stack[to_act]
           to_call == current_bet - bet[to_act]
           floor == IF current_bet = 0 THEN BIG_BLIND ELSE current_bet + min_raise
           least == min_u(all, floor)
           may_raise == /\ stack[to_act] > to_call /\ count_b(actors(folded, all_in)) > 1
                        /\ to_act \notin acted
           t == tableFrom(ledger_now, to_act, {})
           sent(a) == actionStep(ledger_now, to_act, a[1], a[2])
           taken(a) == takes_bet(p, s, sent(a), time)
           offered(a) == a \in rail_actions(t.legal)
<1>0. TypeInv /\ BettingOrder /\ StreetBets /\ BetsCovered /\ ShareInv
  BY DEF RailInv, ShareInv, BettingInv, CustodyInv, BooksInv, TypeInv
<1>1. /\ s \in actors(folded, all_in) /\ s \in in_deal /\ s \in Seats
  BY <1>0, ActorSets DEF BettingOrder, TurnPhases, TurnInOrder
<1>2. /\ stack[s] \in Nat /\ stack[s] > 0 /\ bet[s] \in Nat /\ current_bet \in Nat
      /\ bet[s] <= current_bet /\ min_raise \in Nat /\ BIG_BLIND \in Nat /\ BIG_BLIND > 0
      /\ street \in 0..3
  BY <1>0, <1>1, StakesAssumption
     DEF BettingOrder, ActorsHaveChips, dealing, TypeInv, TypeOK, MoneyTypes, StreetTypes, BetsCovered
<1>3. key_check(s, p) /\ act_check(p, s, time)
  <2>1. keys[s] = p
    BY <1>0, <1>1, OwnsKey DEF Dealt
  <2>2. check_now(time) /\ owner_check(s, p)
    BY <1>0, NowIsNow DEF owner_check, occupied
  <2> QED
    BY <1>1, <2>1, <2>2 DEF key_check, act_check
<1>4. t.legal = g
  BY DEF tableFrom
<1>5. /\ g.check <=> to_call = 0
      /\ g.call = min_u(to_call, stack[s])
      /\ may_raise => g.raise = <<least, all>>
      /\ ~may_raise => g.raise = <<>>
  BY RailReads
<1>6. ASSUME NEW b PROVE /\ b.circuit = "act_out" =>
                               (takes_bet(p, s, b, time)
                                <=> /\ legal_action(s, b.kind, b.to)
                                    /\ b.kind = 0 \/ stack[s] = action_amount(s, b.kind, b.to))
                         /\ b.circuit = "act" =>
                               (takes_bet(p, s, b, time)
                                <=> /\ b.kind = 0 => bet[s] = current_bet
                                    /\ legal_action(s, b.kind, b.to)
                                    /\ stack[s] > action_amount(s, b.kind, b.to))
  BY <1>3 DEF takes_bet, act_asserts, act_out_asserts
<1> HIDE DEF g, t, p, may_raise, least, all, to_call
<1>7. ASSUME NEW a, a = <<"fold", 0>> PROVE offered(a) <=> taken(a)
  <2>1. sent(a) = [circuit |-> "act_out", kind |-> 0, to |-> 0]
    BY <1>7 DEF actionStep
  <2>2. legal_action(s, 0, 0)
    BY DEF legal_action
  <2>3. taken(a)
    BY <1>6, <2>1, <2>2
  <2> QED
    BY <1>7, <2>3 DEF rail_actions
<1>8. ASSUME NEW a, a = <<"check", 0>> PROVE offered(a) <=> taken(a)
  <2>1. sent(a) = [circuit |-> "act", kind |-> 0, to |-> 0]
    BY <1>8 DEF actionStep
  <2>2. legal_action(s, 0, 0) /\ action_amount(s, 0, 0) = 0
    BY DEF legal_action, action_amount
  <2>3. taken(a) <=> bet[s] = current_bet
    <3>1. stack[s] > 0
      BY <1>2
    <3>2. sent(a).circuit = "act" /\ sent(a).kind = 0 /\ sent(a).to = 0
      BY <2>1
    <3> QED
      BY <1>6, <2>2, <3>1, <3>2
  <2>4. offered(a) <=> g.check
    BY <1>4, <1>8 DEF rail_actions
  <2> QED
    BY <1>2, <1>5, <2>3, <2>4 DEF to_call
<1>9. ASSUME NEW a, a = <<"call", 0>> PROVE offered(a) <=> taken(a)
  <2> DEFINE amount == min_u(to_call, stack[s])
  <2>1. /\ sent(a).circuit = (IF amount >= stack[s] THEN "act_out" ELSE "act")
        /\ sent(a).kind = 1 /\ sent(a).to = 0
    <3>1. ledger_now.stack = stack
      BY DEF ledger_now
    <3> QED
      BY <1>5, <1>9, <3>1 DEF actionStep, g
  <2>2. (legal_action(s, 1, 0) <=> to_call > 0) /\ action_amount(s, 1, 0) = amount
    BY DEF legal_action, action_amount, to_call
  <2>3. amount <= stack[s] /\ amount \in Nat /\ to_call \in Nat
    BY <1>2 DEF min_u, to_call
  <2> HIDE DEF amount
  <2>4. taken(a) <=> to_call > 0
    <3>1. CASE amount >= stack[s]
      <4>1. sent(a).circuit = "act_out" /\ sent(a).kind = 1 /\ sent(a).to = 0
        BY <2>1, <3>1
      <4>2. amount = stack[s]
        BY <1>2, <2>3, <3>1
      <4> QED
        BY <1>6, <2>2, <4>1, <4>2
    <3>2. CASE ~(amount >= stack[s])
      <4>1. sent(a).circuit = "act" /\ sent(a).kind = 1 /\ sent(a).to = 0
        BY <2>1, <3>2
      <4>2. stack[s] > amount
        BY <1>2, <2>3, <3>2
      <4> QED
        BY <1>6, <2>2, <4>1, <4>2
    <3> QED
      BY <3>1, <3>2
  <2>5. offered(a) <=> ~g.check
    BY <1>4, <1>9 DEF rail_actions
  <2> QED
    BY <1>5, <2>3, <2>4, <2>5
<1>10. ASSUME NEW to \in 0..all + 1, NEW a, a = <<"raise", to>>
       PROVE  /\ offered(a) <=> taken(a)
              /\ offered(a) => \A said \in {bar_shows(t, to, BIG_BLIND), rail_shows(t, to, BIG_BLIND)} :
                    /\ said.all_in = (sent(a).circuit = "act_out")
                    /\ (said.raise = "BET") = (current_bet = 0)
  <2>1. /\ sent(a).circuit = (IF to - bet[s] >= stack[s] THEN "act_out" ELSE "act")
        /\ sent(a).kind = 2 /\ sent(a).to = to
    <3>1. ledger_now.stack = stack /\ ledger_now.bet = bet
      BY DEF ledger_now
    <3> QED
      BY <1>10, <3>1 DEF actionStep
  <2>2. all \in Nat /\ to \in Nat /\ least \in Nat /\ least <= all /\ to_call \in Nat
        /\ all = bet[s] + stack[s]
    <3>1. all \in Nat /\ all = bet[s] + stack[s]
      BY <1>2 DEF all
    <3> QED
      BY <1>2, <3>1 DEF least, min_u, to_call
  <2>3. action_amount(s, 2, to) = to - bet[s]
    BY DEF action_amount
  <2>4. legal_action(s, 2, to) <=> may_raise /\ to <= all /\ to >= least
    <3>1. min_u(floor, bet[s] + stack[s]) = least
      BY <1>2 DEF least, all, min_u
    <3> QED
      BY <3>1 DEF legal_action, may_raise, to_call, all
  <2>5. taken(a) <=> may_raise /\ to <= all /\ to >= least
    <3>1. CASE to - bet[s] >= stack[s]
      <4>1. sent(a).circuit = "act_out"
        BY <2>1, <3>1
      <4>2. to <= all => stack[s] = to - bet[s]
        BY <1>2, <2>2, <3>1
      <4> QED
        BY <1>6, <2>1, <2>3, <2>4, <4>1, <4>2
    <3>2. CASE ~(to - bet[s] >= stack[s])
      <4>1. sent(a).circuit = "act"
        BY <2>1, <3>2
      <4>2. stack[s] > to - bet[s]
        BY <1>2, <2>2, <3>2
      <4> QED
        BY <1>6, <2>1, <2>3, <2>4, <4>1, <4>2
    <3> QED
      BY <3>1, <3>2
  <2>6. offered(a) <=> may_raise /\ to <= all /\ to >= least
    <3>1. CASE may_raise
      <4>1. g.raise # <<>> /\ g.raise[1] = least /\ g.raise[2] = all
        BY <1>5, <3>1
      <4>2. offered(a) <=> to \in least..all
        BY <1>4, <1>10, <4>1 DEF rail_actions
      <4> QED
        BY <2>2, <3>1, <4>2
    <3>2. CASE ~may_raise
      <4>1. g.raise = <<>>
        BY <1>5, <3>2
      <4>2. ~offered(a)
        BY <1>4, <1>10, <4>1 DEF rail_actions
      <4> QED
        BY <3>2, <4>2
    <3> QED
      BY <3>1, <3>2
  <2>7. ASSUME may_raise, to <= all
        PROVE  LET said == bar_shows(t, to, BIG_BLIND) IN
               /\ said.all_in = (sent(a).circuit = "act_out")
               /\ (said.raise = "BET") = (current_bet = 0)
    <3>0. g.raise = <<least, all>>
      BY <1>5, <2>7
    <3>1. g.raise # <<>> /\ g.raise[1] = least /\ g.raise[2] = all
      BY <3>0
    <3>2. bar_shows(t, to, BIG_BLIND).all_in = (to = all)
      BY <1>4, <3>1 DEF bar_shows
    <3>3. bar_shows(t, to, BIG_BLIND).raise = word(t, BIG_BLIND)
      BY <1>4, <3>1 DEF bar_shows
    <3>4. to = all <=> to - bet[s] >= stack[s]
      BY <1>2, <2>2, <2>7
    <3>5. sent(a).circuit = "act_out" <=> to - bet[s] >= stack[s]
      BY <2>1
    <3>6. word(t, BIG_BLIND) = "BET" <=> current_bet = 0
      <4>1. t.street = "preflop" <=> street = 0
        <5>1. t.street = streets[street + 1]
          BY DEF tableFrom, t, ledger_now
        <5>2. /\ streets[1] = "preflop" /\ streets[2] = "flop" /\ streets[3] = "turn"
              /\ streets[4] = "river"
          BY DEF streets
        <5>3. street = 0 \/ street = 1 \/ street = 2 \/ street = 3
          BY <1>2
        <5> QED
          BY <5>1, <5>2, <5>3
      <4>2. word(t, BIG_BLIND) = "BET"
            <=> ~(t.street = "preflop" \/ g.call > 0 \/ least > BIG_BLIND)
        BY <1>4, <3>1 DEF word
      <4>3. CASE current_bet = 0
        <5>1. street # 0
          BY <1>0, <1>2, <4>3 DEF StreetBets
        <5>2. to_call = 0 /\ g.call = 0
          BY <1>2, <1>5, <4>3 DEF to_call, min_u
        <5>3. least <= BIG_BLIND
          BY <1>2, <2>2, <4>3 DEF least, min_u
        <5> QED
          BY <1>2, <2>2, <4>1, <4>2, <4>3, <5>1, <5>2, <5>3
      <4>4. CASE current_bet # 0
        <5>1. CASE street = 0
          BY <4>1, <4>2, <4>4, <5>1
        <5>2. CASE street # 0
          <6>1. s \in actors(folded, all_in) \ acted /\ street > 0
            BY <1>1, <1>2, <2>7, <5>2 DEF may_raise
          <6>2. bet[s] < current_bet
            BY <1>0, <4>4, <6>1 DEF StreetBets
          <6>3. g.call > 0
            BY <1>2, <1>5, <6>2 DEF to_call, min_u
          <6> QED
            BY <4>2, <4>4, <6>3
        <5> QED
          BY <5>1, <5>2
      <4> QED
        BY <4>3, <4>4
    <3> QED
      BY <3>2, <3>3, <3>4, <3>5, <3>6
  <2> QED
    BY <2>5, <2>6, <2>7 DEF rail_shows
<1> QED
  BY <1>7, <1>8, <1>9, <1>10 DEF RailAgrees, t, all, p

\* Bar and rail offer whoever is to act exactly what the contract takes from them, send each
\* by the circuit that takes it, and name it truly, for every stack, bet and raise before
\* it: legal and actionStep of rules.ts, actions.ts and rail.ts against legal_action of the
\* contract.
THEOREM RailHonest == Spec => []RailAgrees
  BY EmptyTable, RailTrue, RailInitially, RailPreserved, PTL DEF Spec

-------------------------------------------------------------------------------
(* What clients call. *)

\* The circuits a referee calls free no seat and stop no deal; only start_deal starts a
\* deal, and none goes back to collecting its keys.
LEMMA ChainMoves ==
    ASSUME phase \in Phase \ {"aborted"}, NEW p, NEW s, NEW step, NEW now, NEW b,
           call_step(p, s, step, now) \/ (step = "bet" /\ call_bet(p, s, b, now))
    PROVE  /\ seat_owner' = seat_owner
           /\ \/ /\ step = "start_deal" /\ deal_no' = deal_no + 1 /\ phase' \in {"keys", "holes"}
              \/ /\ step # "start_deal" /\ deal_no' = deal_no /\ phase' \in Phase \ {"aborted"}
                 /\ phase' \in {"keys", "shuffle"} => phase \in {"keys", "shuffle"}
                 /\ phase' = "idle" => phase = "idle"
<1> DEFINE ok == /\ seat_owner' = seat_owner /\ deal_no' = deal_no /\ phase' \in Phase \ {"aborted"}
                 /\ phase' \in {"keys", "shuffle"} => phase \in {"keys", "shuffle"}
                 /\ phase' = "idle" => phase = "idle"
<1>1. CASE step = "start_deal" /\ start_deal(now)
  BY <1>1 DEF start_deal, start_deal_asserts, seatVars
<1>2. post_key(p, s, now) => ok
  BY DEF post_key, post_key_asserts, Phase, seatVars, rosterVars
<1>3. shuffle(p, s, now) => ok
  BY DEF shuffle, shuffle_asserts, Phase, seatVars, rosterVars
<1>4. shares(p, s, other_positions(ledger_now, s), now) => ok
  BY DEF shares, shares_asserts, begin_betting, Phase, seatVars, rosterVars, stageVars
<1>5. release(p, s, now) => ok
  BY DEF release, release_asserts, resume_betting, close_street, Phase, seatVars, rosterVars, stageVars
<1>6. show(p, s, now) => ok
  BY DEF show, show_asserts, run_out, Phase, seatVars, rosterVars
<1>7. \A score \in Scores : show_hand(p, s, score, now) => ok
  BY DEF show_hand, show_hand_asserts, Phase, seatVars, rosterVars, stageVars
<1>8. settle => ok
  BY DEF settle, settle_asserts, Phase, seatVars, rosterVars
<1>9. ~settle_abort
  BY DEF settle_abort, settle_abort_asserts
<1>10. post_next_key(p, s, now) \/ shuffle_next(p, s, now) => ok
  BY DEF post_next_key, post_next_key_asserts, shuffle_next, shuffle_next_asserts, Phase, seatVars,
         rosterVars, stageVars
<1>11. ASSUME call_bet(p, s, b, now) PROVE ok
  <2>1. PICK kind, t, out, bk : /\ apply_action(s, kind, t, out, now, bk)
                                /\ UNCHANGED <<seatVars, rosterVars>> /\ phase = "playing"
    BY <1>11 DEF call_bet, act, act_asserts, act_out, act_out_asserts, act_check
  <2> QED
    BY <2>1 DEF apply_action, close_street, Phase, seatVars, rosterVars
<1> HIDE DEF ok
<1>12. CASE step # "start_deal" /\ call_step(p, s, step, now)
  <2>1. ok
    BY <1>12, <1>2, <1>3, <1>4, <1>5, <1>6, <1>7, <1>8, <1>9, <1>10 DEF call_step
  <2> QED
    BY <1>12, <2>1 DEF ok
<1>13. CASE step = "bet" /\ call_bet(p, s, b, now)
  BY <1>11, <1>13 DEF ok
<1> QED
  BY <1>1, <1>12, <1>13 DEF call_step

\* A step a client calls is a circuit of the contract, with arguments it takes.
LEMMA StepsAreCalls ==
    ASSUME DeckInv, NEW p \in Players, NEW s \in Seats, NEW now \in Times, NEW step,
           call_step(p, s, step, now)
    PROVE  Next
<1>1. ASSUME shares(p, s, other_positions(ledger_now, s), now) PROVE CardCall(p)
  <2> DEFINE ps == other_positions(ledger_now, s)
  <2>1. phase = "holes" /\ keys[s] = p /\ ps # {}
    BY <1>1 DEF shares, shares_asserts, key_check
  <2>2. s \in in_deal /\ Roster
    BY <2>1, PlayersAssumption DEF DeckInv, DeckInOrder, PrepInv, TypeInv, TypeOK, Roster, key_holders
  <2>3. ps = others_holes(s)
    BY <2>2, OtherPositions
  <2> HIDE DEF ps
  <2>4. ps \in share_batches(s)
    <3>1. others_holes(s) \in (SUBSET others_holes(s)) \ {{}}
      BY <2>1, <2>3
    <3>2. others_holes(s) \in share_batches(s)
      <4>1. CASE PartialShares
        BY <3>1, <4>1 DEF share_batches, others_holes
      <4>2. CASE ~PartialShares
        BY <4>2 DEF share_batches, others_holes
      <4> QED
        BY <4>1, <4>2
    <3> QED
      BY <2>3, <3>2
  <2> QED
    BY <1>1, <2>4 DEF CardCall, ps
<1>2. \/ TableCall \/ CardCall(p) \/ PrepCall(p)
  BY <1>1 DEF call_step, CardCall, PrepCall, TableCall
<1> QED
  BY <1>2 DEF Next, Call

\* So is a bet.
LEMMA BetsAreCalls ==
    ASSUME NEW p \in Players, NEW s \in Seats, NEW now \in Times, NEW b,
           b.kind \in Kinds, b.to \in IF b.kind = 2 THEN Amounts ELSE {0},
           call_bet(p, s, b, now)
    PROVE  Next
<1>1. BetCall(p)
  BY DEF call_bet, BetCall
<1> QED
  BY <1>1 DEF Next, Call

===============================================================================
