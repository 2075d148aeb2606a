---------------------------- MODULE BettingProofs ----------------------------
(***************************************************************************)
(* The betting of the table contract: whoever it waits for has a decision  *)
(* to make, and a street closes with every bet matched, for every set of   *)
(* players, any stakes, any inputs and any clock.                          *)
(*                                                                         *)
(* The circuits hand the action to the next player clockwise who can still *)
(* bet, without asking whether that player has anything left to decide.    *)
(* That is right only because the players who are done always sit behind   *)
(* the one to act: going round from there, those who owe the street        *)
(* something all come before those who do not.                             *)
(***************************************************************************)
EXTENDS CustodyProofs

\* The blinds are in, the cards are on their way.
Before == {"keys", "shuffle", "holes"}

\* Seat s has not acted since the last full raise, or has less in than the bet.
owes(s) == s \notin acted \/ bet[s] # current_bet

TurnPhases ==
    /\ phase = "playing" => to_act # NONE
    /\ to_act # NONE => phase \in Before \cup {"playing"}

TwoStillIn == dealing => count_b(live(folded)) >= 2

ActorsHaveChips == dealing => \A s \in actors(folded, all_in) : stack[s] > 0

TurnInOrder ==
    to_act # NONE =>
        /\ to_act \in actors(folded, all_in) /\ owes(to_act)
        /\ \A u, d \in actors(folded, all_in) :
              owes(u) /\ ~owes(d) /\ u # to_act => clockwise(to_act, u) < clockwise(to_act, d)

Matched == \A s \in actors(folded, all_in), k \in live(folded) : total[k] <= total[s]

\* Before the cards only a small blind may be alone with a decision; when nobody has
\* one the blinds are matched.
BlindsOpen ==
    phase \in Before =>
        /\ to_act # NONE => bet[to_act] < BIG_BLIND \/ count_b(actors(folded, all_in)) > 1
        /\ to_act = NONE => count_b(actors(folded, all_in)) <= 1 /\ Matched

\* What was put in on the streets before is matched.
EarlierMatched ==
    phase \in Before \cup {"playing"} =>
        \A s \in actors(folded, all_in), k \in live(folded) :
            total[k] - bet[k] <= total[s] - bet[s]

\* Hands are tabled only when nobody could bet any more.
TablingClosed == phase = "tabling" => count_b(actors(folded, all_in)) <= 1

BettingOrder ==
    /\ TurnPhases /\ TwoStillIn /\ ActorsHaveChips /\ TurnInOrder /\ BlindsOpen
    /\ EarlierMatched /\ TablingClosed
    /\ phase \in {"release", "tabling", "showdown"} => Matched

BettingInv == CustodyInv /\ BettingOrder

------------------------------------------------------------------------------
(* Turn order. *)

\* The action passes from s to the first of the seats A that can still bet.  If those
\* who owe, U, come before the others going round from s, it passes to one who owes,
\* and the same is true going round from there.
LEMMA TurnPassed ==
    ASSUME NEW s \in Seats, NEW A \in SUBSET Seats, NEW U \in SUBSET A, U # {}, s \notin U,
           \A u \in U, d \in A \ U : d # s => clockwise(s, u) < clockwise(s, d)
    PROVE  LET n == first_clockwise(s, A) IN
           /\ n \in U
           /\ \A u \in U \ {n}, d \in A \ U : clockwise(n, u) < clockwise(n, d)
<1> DEFINE n == first_clockwise(s, A)
<1>1. n \in A /\ \A k \in A : clockwise(s, n) <= clockwise(s, k)
  <2>1. s \in Int
    BY DEF Seats
  <2>2. A # {}
    OBVIOUS
  <2> QED
    BY <2>1, <2>2, FirstClockwise
<1>2. n \in Seats
  BY <1>1
<1> HIDE DEF n
<1>3. n \in U
  <2> SUFFICES ASSUME n \notin U PROVE FALSE
    OBVIOUS
  <2>1. PICK u \in U : clockwise(s, n) <= clockwise(s, u)
    BY <1>1
  <2>2. u \in Seats /\ u # s
    BY <2>1
  <2>3. clockwise(s, u) < 5 /\ clockwise(s, s) = 5 /\ clockwise(s, u) \in 0..5
        /\ clockwise(s, n) \in 0..5
    BY <1>2, <2>2, Clockwise
  <2>4. n # s
    BY <2>1, <2>3
  <2>5. clockwise(s, u) < clockwise(s, n)
    BY <1>1, <2>4
  <2> QED
    BY <2>1, <2>3, <2>5
<1>4. ASSUME NEW u \in U \ {n}, NEW d \in A \ U PROVE clockwise(n, u) < clockwise(n, d)
  <2>1. u \in Seats /\ d \in Seats /\ u # s /\ u # n
    BY <1>4
  <2>2. clockwise(s, n) \in 0..5 /\ clockwise(s, u) \in 0..5 /\ clockwise(s, d) \in 0..5
    BY <1>2, <2>1, Clockwise
  <2>3. clockwise(s, n) < clockwise(s, u)
    <3>1. clockwise(s, n) <= clockwise(s, u)
      BY <1>1
    <3>2. clockwise(s, u) # clockwise(s, n)
      BY <1>2, <2>1, Clockwise
    <3> QED
      BY <2>2, <3>1, <3>2
  <2>4. clockwise(s, u) < clockwise(s, d)
    <3>1. CASE d = s
      BY <2>1, <3>1, Clockwise
    <3>2. CASE d # s
      BY <3>2
    <3> QED
      BY <3>1, <3>2
  <2>5. clockwise(s, n) < clockwise(s, d)
    BY <2>2, <2>3, <2>4
  <2>6. /\ clockwise(n, u) = clockwise(s, u) - clockwise(s, n) - 1
        /\ clockwise(n, d) = clockwise(s, d) - clockwise(s, n) - 1
    BY <1>2, <2>1, <2>3, <2>5, Clockwise
  <2> QED
    BY <2>2, <2>4, <2>6
<1> QED
  BY <1>3, <1>4 DEF n

------------------------------------------------------------------------------
(* Steps that leave the betting alone. *)

LEMMA ActorSets ==
    ASSUME TypeInv, NEW f, NEW a
    PROVE  actors(f, a) \in SUBSET Seats /\ live(f) \in SUBSET Seats
           /\ actors(f, a) \subseteq live(f) /\ live(f) \subseteq in_deal
  BY DEF actors, live, TypeInv, TypeOK, RosterTypes

\* Nothing of the betting changes, nor the stack of anyone in the deal.
LEMMA BettingKept ==
    ASSUME BettingOrder, TypeInv, UNCHANGED <<in_deal, folded, all_in, acted, bet, current_bet>>,
           UNCHANGED <<total, to_act>>, dealing => \A s \in in_deal : stack'[s] = stack[s],
           phase' = phase \/ (phase \in Before /\ phase' \in Before)
    PROVE  BettingOrder'
<1>1. dealing' = dealing
  BY DEF dealing, Before
<1>2. /\ actors(folded, all_in)' = actors(folded, all_in) /\ live(folded)' = live(folded)
      /\ actors(folded, all_in) \subseteq in_deal
  BY ActorSets DEF actors, live
<1>3. Matched' = Matched
  BY <1>2 DEF Matched
<1>4. TurnPhases' /\ TwoStillIn'
  BY <1>1, <1>2 DEF BettingOrder, TurnPhases, TwoStillIn, Before
<1>5. ActorsHaveChips'
  BY <1>1, <1>2 DEF BettingOrder, ActorsHaveChips
<1>6. TurnInOrder'
  BY <1>2 DEF BettingOrder, TurnInOrder, owes
<1>7. BlindsOpen' /\ EarlierMatched'
  BY <1>2, <1>3 DEF BettingOrder, BlindsOpen, EarlierMatched, Before
<1>8. TablingClosed' /\ (phase' \in {"release", "tabling", "showdown"} => Matched')
  BY <1>2, <1>3 DEF BettingOrder, TablingClosed, Before
<1> QED
  BY <1>4, <1>5, <1>6, <1>7, <1>8 DEF BettingOrder

\* Once a deal is over there is no betting.
LEMMA BettingOver ==
    ASSUME ~dealing', to_act' = NONE
    PROVE  BettingOrder'
  BY DEF BettingOrder, dealing, TurnPhases, TwoStillIn, ActorsHaveChips, TurnInOrder,
         BlindsOpen, EarlierMatched, TablingClosed, Before

\* Nobody is to act, with the bets matched.
LEMMA BettingClosed ==
    ASSUME to_act' = NONE, phase' \in {"release", "tabling", "showdown"}, TwoStillIn',
           ActorsHaveChips', Matched',
           phase' = "tabling" => count_b(actors(folded, all_in)') <= 1
    PROVE  BettingOrder'
  BY DEF BettingOrder, TurnPhases, TurnInOrder, BlindsOpen, EarlierMatched, TablingClosed, Before

------------------------------------------------------------------------------
(* The deal begins. *)

\* first_to_act leaves nobody to act only when at most one could bet, with the blinds
\* matched: that one has the big blind in.
LEMMA FirstDecision ==
    ASSUME NEW v \in SUBSET Seats, NEW d, NEW a, NEW b \in [Seats -> Nat],
           \A s \in Seats : b[s] <= BIG_BLIND
    PROVE  LET first == first_to_act(v, d, b, a) IN
           /\ first # NONE => first \in v \ a /\ (b[first] < BIG_BLIND \/ count_b(v \ a) > 1)
           /\ first = NONE => count_b(v \ a) <= 1 /\ \A s \in v \ a, k \in v : b[k] <= b[s]
<1> DEFINE w == v \ a
           bb == big_blind(v, d)
           one == first_clockwise(bb, w)
           covers == one # NONE /\ b[one] >= BIG_BLIND
<1>1. w \in SUBSET Seats /\ NONE \notin Seats /\ BIG_BLIND \in Nat
  <2>1. NONE \notin Seats
    BY DEF NONE, Seats
  <2> QED
    BY <2>1, StakesAssumption
<1>2. bb \in Int
  <2>1. bb \in v \cup {NONE}
    BY NextRound DEF big_blind
  <2>2. NONE \in Int /\ \A k \in Seats : k \in Int
    BY DEF Seats, NONE
  <2> QED
    BY <2>1, <2>2
<1>3. (w = {} => one = NONE) /\ (w # {} => one \in w)
  BY <1>1, <1>2, FirstClockwise
<1>4. first_to_act(v, d, b, a) = IF count_b(w) > 1 \/ ~covers THEN one ELSE NONE
  BY DEF first_to_act
<1>5. count_b(w) \in 0..6 /\ (count_b(w) = 0 <=> w = {})
  BY <1>1, CountB
<1> HIDE DEF bb, one
<1>6. ASSUME first_to_act(v, d, b, a) # NONE
      PROVE  LET first == first_to_act(v, d, b, a) IN
             first \in w /\ (b[first] < BIG_BLIND \/ count_b(w) > 1)
  <2>1. first_to_act(v, d, b, a) = one /\ one # NONE /\ (count_b(w) > 1 \/ ~covers)
    BY <1>4, <1>6
  <2>2. one \in w /\ b[one] \in Nat
    BY <1>1, <1>3, <2>1
  <2> QED
    BY <1>1, <2>1, <2>2
<1>7. ASSUME first_to_act(v, d, b, a) = NONE
      PROVE  count_b(w) <= 1 /\ \A s \in w, k \in v : b[k] <= b[s]
  <2>1. CASE w = {}
    BY <1>5, <2>1
  <2>2. CASE w # {}
    <3>1. one \in w /\ one # NONE
      BY <1>1, <1>3, <2>2
    <3>2. ~(count_b(w) > 1) /\ covers
      BY <1>4, <1>7, <3>1
    <3>3. \A s \in w : s = one
      <4> SUFFICES ASSUME NEW s \in w, s # one PROVE FALSE
        OBVIOUS
      <4>1. {one} \in SUBSET Seats /\ s \in Seats \ {one} /\ {one} \cup {s} \in SUBSET w
        BY <1>1, <3>1
      <4>2. count_b({one} \cup {s}) = count_b({one}) + 1
        BY <4>1, CountAdd
      <4>3. count_b({one}) = 1
        BY <4>1, CountOne
      <4>4. count_b({one} \cup {s}) <= count_b(w)
        BY <1>1, <4>1, CountPart
      <4> QED
        BY <1>5, <3>2, <4>2, <4>3, <4>4
    <3>4. \A k \in v : b[k] <= b[one]
      <4>1. b[one] \in Nat /\ b[one] >= BIG_BLIND /\ \A k \in v : b[k] \in Nat /\ b[k] <= BIG_BLIND
        BY <1>1, <3>1, <3>2
      <4> QED
        BY <1>1, <4>1
    <3> QED
      BY <1>5, <3>2, <3>3, <3>4
  <2> QED
    BY <2>1, <2>2
<1> QED
  BY <1>6, <1>7

LEMMA StartDealBetting ==
    ASSUME CustodyInv, TypeInv', NEW now \in Times, start_deal(now)
    PROVE  BettingOrder'
<1> DEFINE v == IF prepared THEN next_in_deal ELSE players_present
           d == IF dealer = NONE THEN first_in(v) ELSE next_round(v, dealer)
           b == blinds(v, d)
           a == {s \in Seats \cap {small_blind(v, d), big_blind(v, d)} : b[s] = stack[s]}
           first == first_to_act(v, d, b, a)
<1>1. v \in SUBSET Seats /\ v \subseteq players_present
  BY PresentSeats DEF prepared
<1>2. count_b(v) >= 2
  BY DEF start_deal, start_deal_asserts, prepared, CustodyInv, PotOpen
<1>3. b \in [Seats -> Nat] /\ \A s \in Seats : b[s] <= stack[s] /\ b[s] <= BIG_BLIND
  BY <1>1, BlindsTypes DEF CustodyInv, BooksInv
<1>4. /\ in_deal' = v /\ stack' = [s \in Seats |-> stack[s] - b[s]]
      /\ bet' = b /\ total' = b /\ folded' = {} /\ all_in' = a /\ acted' = {}
      /\ to_act' = first /\ phase' \in {"keys", "holes"} /\ current_bet' = BIG_BLIND
  BY DEF start_deal, start_deal_asserts
<1>5. ASSUME NEW s \in v \ a PROVE stack[s] - b[s] > 0
  <2>1. s \in Seats /\ stack[s] \in Nat /\ stack[s] > 0 /\ b[s] \in Nat /\ b[s] <= stack[s]
    BY <1>1, <1>3 DEF players_present, occupied, CustodyInv, BooksInv, TypeInv, TypeOK, MoneyTypes
  <2>2. s \in {small_blind(v, d), big_blind(v, d)} => b[s] # stack[s]
    BY <1>5, <2>1
  <2>3. s \notin {small_blind(v, d), big_blind(v, d)} => b[s] = 0
    BY <2>1 DEF blinds
  <2> QED
    BY <2>1, <2>2, <2>3
<1> HIDE DEF v, d, b, a
<1>6. /\ first # NONE => first \in v \ a /\ (b[first] < BIG_BLIND \/ count_b(v \ a) > 1)
      /\ first = NONE => count_b(v \ a) <= 1 /\ \A s \in v \ a, k \in v : b[k] <= b[s]
  BY <1>1, <1>3, FirstDecision
<1> HIDE DEF first
<1>7. /\ actors(folded, all_in)' = v \ a /\ live(folded)' = v
      /\ dealing' /\ phase' \in Before
  BY <1>4 DEF actors, live, dealing, Before
<1>8. TurnPhases' /\ TwoStillIn' /\ TablingClosed'
  BY <1>2, <1>4, <1>7 DEF TurnPhases, TwoStillIn, TablingClosed
<1>9. ActorsHaveChips'
  <2>1. \A s \in v \ a : stack'[s] > 0
    BY <1>1, <1>4, <1>5
  <2> QED
    BY <1>7, <2>1 DEF ActorsHaveChips
<1>10. TurnInOrder'
  BY <1>4, <1>6, <1>7 DEF TurnInOrder, owes
<1>11. Matched' <=> \A s \in v \ a, k \in v : b[k] <= b[s]
  BY <1>4, <1>7 DEF Matched
<1>12. BlindsOpen'
  BY <1>4, <1>6, <1>7, <1>11 DEF BlindsOpen
<1>13. EarlierMatched'
  <2>1. \A k \in v : b[k] - b[k] = 0
    BY <1>1, <1>3
  <2>2. v \ a \subseteq v
    OBVIOUS
  <2> QED
    BY <1>4, <1>7, <2>1, <2>2 DEF EarlierMatched
<1> QED
  BY <1>4, <1>8, <1>9, <1>10, <1>12, <1>13 DEF BettingOrder

------------------------------------------------------------------------------
(* Cards. *)

\* Who can still bet and who is still in stay, with their chips, in and behind.
LEMMA PlayersKept ==
    ASSUME BettingOrder, TypeInv, dealing, dealing', UNCHANGED <<in_deal, folded, all_in, total, stack>>
    PROVE  /\ actors(folded, all_in)' = actors(folded, all_in) /\ live(folded)' = live(folded)
           /\ TwoStillIn' /\ ActorsHaveChips' /\ Matched' = Matched
<1>1. actors(folded, all_in)' = actors(folded, all_in) /\ live(folded)' = live(folded)
  BY DEF actors, live
<1>2. TwoStillIn' /\ ActorsHaveChips'
  BY <1>1 DEF BettingOrder, TwoStillIn, ActorsHaveChips
<1>3. Matched' = Matched
  BY <1>1 DEF Matched
<1> QED
  BY <1>1, <1>2, <1>3

LEMMA SharesBetting ==
    ASSUME BettingInv, NEW p \in Players, NEW s \in Seats, NEW ps, NEW now \in Times,
           shares(p, s, ps, now)
    PROVE  BettingOrder'
<1>0. BettingOrder /\ TypeInv
  BY DEF BettingInv, CustodyInv, BooksInv
<1>1. /\ phase = "holes" /\ dealing
      /\ UNCHANGED <<in_deal, folded, all_in, acted, bet, current_bet, total, stack>>
  BY DEF shares, shares_asserts, rosterVars, potVars, streetVars, moneyVars, dealing
<1>2. CASE UNCHANGED stageVars
  BY <1>0, <1>1, <1>2, BettingKept DEF stageVars
<1>3. CASE to_act # NONE /\ to_act' = to_act /\ phase' = "playing"
  <2>1. dealing'
    BY <1>3 DEF dealing
  <2>2. /\ actors(folded, all_in)' = actors(folded, all_in) /\ live(folded)' = live(folded)
        /\ TwoStillIn' /\ ActorsHaveChips'
    BY <1>0, <1>1, <2>1, PlayersKept
  <2>3. TurnPhases' /\ BlindsOpen' /\ TablingClosed'
    BY <1>3 DEF TurnPhases, BlindsOpen, TablingClosed, Before
  <2>4. TurnInOrder'
    BY <1>0, <1>1, <1>3, <2>2 DEF BettingOrder, TurnInOrder, owes
  <2>5. EarlierMatched'
    BY <1>0, <1>1, <2>2 DEF BettingOrder, EarlierMatched, Before
  <2> QED
    BY <1>3, <2>2, <2>3, <2>4, <2>5 DEF BettingOrder
<1>4. CASE to_act = NONE /\ to_act' = to_act /\ phase' = "tabling"
  <2>1. dealing'
    BY <1>4 DEF dealing
  <2>2. /\ actors(folded, all_in)' = actors(folded, all_in)
        /\ TwoStillIn' /\ ActorsHaveChips' /\ Matched' = Matched
    BY <1>0, <1>1, <2>1, PlayersKept
  <2>3. count_b(actors(folded, all_in)) <= 1 /\ Matched
    BY <1>0, <1>1, <1>4 DEF BettingOrder, BlindsOpen, Before
  <2> QED
    BY <1>4, <2>2, <2>3, BettingClosed
<1> QED
  BY <1>2, <1>3, <1>4 DEF shares, shares_asserts, begin_betting, set_turn

LEMMA ReleaseBetting ==
    ASSUME BettingInv, TypeInv', NEW p \in Players, NEW s \in Seats, NEW now \in Times,
           release(p, s, now)
    PROVE  BettingOrder'
<1> DEFINE betting == actors(folded, all_in)
           first == first_clockwise(dealer, betting)
<1>0. BettingOrder /\ TypeInv
  BY DEF BettingInv, CustodyInv, BooksInv
<1>1. phase = "release" /\ dealing /\ UNCHANGED <<in_deal, folded, all_in, total, stack>>
  BY DEF release, release_asserts, rosterVars, potVars, moneyVars, dealing
<1>2. Matched
  BY <1>0, <1>1 DEF BettingOrder
<1>3. CASE UNCHANGED <<stageVars, acted, bet, current_bet>>
  BY <1>0, <1>1, <1>3, BettingKept DEF stageVars
<1>4. CASE /\ bet' = zeros /\ acted' = {} /\ current_bet' = 0
           /\ count_b(betting) > 1 /\ phase' = "playing" /\ to_act' = first
  <2>1. dealing'
    BY <1>4 DEF dealing
  <2>2. /\ actors(folded, all_in)' = betting /\ live(folded)' = live(folded)
        /\ TwoStillIn' /\ ActorsHaveChips'
    BY <1>0, <1>1, <2>1, PlayersKept
  <2>3. first \in betting /\ NONE \notin betting /\ betting \in SUBSET Seats
        /\ live(folded) \in SUBSET Seats
    <3>1. betting \in SUBSET Seats /\ live(folded) \in SUBSET Seats
      BY <1>0, ActorSets
    <3>2. dealer \in Int
      BY <1>0 DEF TypeInv, TypeOK, RosterTypes, Seats, NONE
    <3>3. NONE \notin Seats
      BY DEF NONE, Seats
    <3>4. betting # {}
      BY <1>4, <3>1, CountB
    <3> HIDE DEF betting
    <3>5. first \in betting
      BY <3>1, <3>2, <3>4, FirstClockwise
    <3> QED
      BY <3>1, <3>3, <3>5
  <2> HIDE DEF betting, first
  <2>4. TurnPhases' /\ BlindsOpen' /\ TablingClosed'
    BY <1>4, <2>3 DEF TurnPhases, BlindsOpen, TablingClosed, Before
  <2>5. TurnInOrder'
    BY <1>4, <2>2, <2>3 DEF TurnInOrder, owes
  <2>6. EarlierMatched'
    <3>1. \A k \in Seats : total'[k] - bet'[k] = total[k]
      BY <1>0, <1>1, <1>4 DEF zeros, TypeInv, TypeOK, PotTypes
    <3>2. \A i \in betting, k \in live(folded) : total[k] <= total[i]
      BY <1>2 DEF Matched, betting
    <3> QED
      BY <2>2, <2>3, <3>1, <3>2 DEF EarlierMatched
  <2> QED
    BY <1>4, <2>2, <2>4, <2>5, <2>6 DEF BettingOrder
<1>5. CASE close_street(now, release_street, betting) /\ ~(count_b(betting) > 1)
  <2>1. to_act' = NONE /\ phase' \in {"release", "tabling", "showdown"} /\ dealing'
    BY <1>5 DEF close_street, dealing
  <2>2. /\ actors(folded, all_in)' = betting /\ TwoStillIn' /\ ActorsHaveChips' /\ Matched'
    BY <1>0, <1>1, <1>2, <2>1, PlayersKept
  <2>3. phase' = "tabling" => count_b(betting) <= 1
    BY <1>5 DEF close_street
  <2> QED
    BY <2>1, <2>2, <2>3, BettingClosed
<1> QED
  BY <1>3, <1>4, <1>5 DEF release, release_asserts, resume_betting, set_turn

LEMMA ShowBetting ==
    ASSUME BettingInv, NEW p \in Players, NEW s \in Seats, NEW now \in Times, show(p, s, now)
    PROVE  BettingOrder'
<1>0. BettingOrder /\ TypeInv
  BY DEF BettingInv, CustodyInv, BooksInv
<1>1. UNCHANGED <<in_deal, folded, all_in, acted, bet, current_bet, total, stack, to_act>>
  BY DEF show, show_asserts, rosterVars, potVars, moneyVars
<1>2. CASE UNCHANGED phase
  BY <1>0, <1>1, <1>2, BettingKept
<1>3. CASE phase = "tabling" /\ phase' \in {"release", "showdown"}
  <2>1. dealing /\ dealing'
    BY <1>3 DEF dealing
  <2>2. TwoStillIn' /\ ActorsHaveChips' /\ Matched'
    BY <1>0, <1>1, <1>3, <2>1, PlayersKept DEF BettingOrder
  <2>3. to_act' = NONE
    BY <1>0, <1>1, <1>3 DEF BettingOrder, TurnPhases, Before
  <2> QED
    BY <1>3, <2>2, <2>3, BettingClosed
<1> QED
  BY <1>2, <1>3 DEF show, show_asserts, run_out

------------------------------------------------------------------------------
(* Bets. *)

\* A raise that is not a full one still raises: it is all its player has.
LEMMA ShortRaise ==
    ASSUME TypeInv, NEW s \in Seats, NEW t \in Nat, legal_action(s, 2, t),
           ~(t - current_bet >= min_raise)
    PROVE  t > current_bet
<1> DEFINE max_to == bet[s] + stack[s]
           min_to == IF current_bet = 0 THEN BIG_BLIND ELSE current_bet + min_raise
<1>1. /\ stack[s] \in Nat /\ bet[s] \in Nat /\ current_bet \in Nat /\ min_raise \in Nat
      /\ BIG_BLIND \in Nat /\ BIG_BLIND > 0
  BY StakesAssumption DEF TypeInv, TypeOK, MoneyTypes, StreetTypes
<1>2. stack[s] > current_bet - bet[s] /\ t >= min_u(min_to, max_to)
  BY DEF legal_action
<1>3. max_to > current_bet
  BY <1>1, <1>2
<1>4. min_u(min_to, max_to) \in {min_to, max_to}
  BY DEF min_u
<1>5. CASE t >= max_to
  BY <1>1, <1>3, <1>5
<1>6. CASE t >= min_to
  BY <1>1, <1>6
<1> QED
  BY <1>2, <1>4, <1>5, <1>6

\* What an action makes of who owes the street something: after a raise everybody else
\* who can still bet does, after anything else whoever did; the actor never does.
LEMMA ActionOwes ==
    ASSUME TypeInv, NEW s \in Seats, NEW kind \in Kinds, NEW t \in Nat, NEW out \in BOOLEAN,
           legal_action(s, kind, t), kind = 0 => out \/ bet[s] = current_bet,
           out \/ stack[s] > action_amount(s, kind, t),
           LET full_raise == kind = 2 /\ t - current_bet >= min_raise IN
           /\ bet' = [bet EXCEPT ![s] = @ + action_amount(s, kind, t)]
           /\ acted' = (IF full_raise THEN {} ELSE acted) \cup {s}
           /\ current_bet' = IF kind = 2 THEN t ELSE current_bet
    PROVE  /\ \/ \A k \in Seats \ {s} : owes(k)'
              \/ \A k \in Seats \ {s} : owes(k)' <=> owes(k)
           /\ ~out => ~owes(s)'
<1> DEFINE amount == action_amount(s, kind, t)
<1>1. /\ bet \in [Seats -> Nat] /\ current_bet \in Nat /\ stack[s] \in Nat
      /\ \A k \in Seats : bet[k] <= current_bet
  BY DEF TypeInv, TypeOK, StreetTypes, MoneyTypes, BetsCovered
<1>2. s \in acted' /\ bet'[s] = bet[s] + amount /\ \A k \in Seats \ {s} : bet'[k] = bet[k]
  BY <1>1
<1>3. CASE kind = 2
  <2>1. amount = t - bet[s] /\ current_bet' = t
    BY <1>3 DEF action_amount
  <2>2. bet'[s] = t
    BY <1>1, <1>2, <2>1
  <2>3. CASE t - current_bet >= min_raise
    <3>1. acted' = {s}
      BY <1>3, <2>3
    <3>2. \A k \in Seats \ {s} : owes(k)'
      BY <3>1 DEF owes
    <3> QED
      BY <1>2, <2>1, <2>2, <3>2 DEF owes
  <2>4. CASE ~(t - current_bet >= min_raise)
    <3>1. t > current_bet
      BY <1>3, <2>4, ShortRaise
    <3>2. \A k \in Seats \ {s} : bet'[k] # current_bet'
      BY <1>1, <1>2, <2>1, <3>1
    <3>3. \A k \in Seats \ {s} : owes(k)'
      BY <3>2 DEF owes
    <3> QED
      BY <1>2, <2>1, <2>2, <3>3 DEF owes
  <2> QED
    BY <2>3, <2>4
<1>4. CASE kind # 2
  <2>1. current_bet' = current_bet /\ acted' = acted \cup {s}
    BY <1>4
  <2>2. \A k \in Seats \ {s} : owes(k)' <=> owes(k)
    BY <1>2, <2>1 DEF owes
  <2>3. ~out => bet'[s] = current_bet
    <3>1. CASE kind = 0
      BY <1>1, <1>2, <3>1 DEF action_amount
    <3>2. CASE kind = 1
      <4>1. amount = min_u(current_bet - bet[s], stack[s])
        BY <3>2 DEF action_amount
      <4>2. ~out => stack[s] > amount
        OBVIOUS
      <4> HIDE DEF amount
      <4> QED
        BY <1>1, <1>2, <4>1, <4>2 DEF min_u
    <3> QED
      BY <1>4, <3>1, <3>2 DEF Kinds
  <2> QED
    BY <1>2, <2>1, <2>2, <2>3 DEF owes
<1> QED
  BY <1>3, <1>4

\* Chips go from behind to in front of the actor and nowhere else.
LEMMA EarlierKept ==
    ASSUME TypeInv, NEW s \in Seats, NEW amount \in Nat,
           bet' = [bet EXCEPT ![s] = @ + amount], total' = [total EXCEPT ![s] = @ + amount]
    PROVE  \A k \in Seats : total'[k] - bet'[k] = total[k] - bet[k]
<1>1. bet \in [Seats -> Nat] /\ total \in [Seats -> Nat]
  BY DEF TypeInv, TypeOK, StreetTypes, PotTypes
<1> SUFFICES ASSUME NEW k \in Seats PROVE total'[k] - bet'[k] = total[k] - bet[k]
  OBVIOUS
<1>2. CASE k = s
  <2>1. bet'[k] = bet[k] + amount /\ total'[k] = total[k] + amount
    BY <1>1, <1>2
  <2> QED
    BY <1>1, <2>1
<1>3. CASE k # s
  BY <1>1, <1>3
<1> QED
  BY <1>2, <1>3

LEMMA ApplyActionBetting ==
    ASSUME BettingInv, TypeInv', NEW s \in Seats, NEW kind \in Kinds, NEW t \in Nat,
           NEW out \in BOOLEAN, NEW now \in Times, NEW bk, phase = "playing", s = to_act,
           legal_action(s, kind, t), kind = 0 => out \/ bet[s] = current_bet,
           out \/ stack[s] > action_amount(s, kind, t),
           apply_action(s, kind, t, out, now, bk), UNCHANGED in_deal
    PROVE  BettingOrder'
<1> DEFINE amount == action_amount(s, kind, t)
           full_raise == kind = 2 /\ t - current_bet >= min_raise
           f == IF out /\ kind = 0 THEN folded \cup {s} ELSE folded \ {s}
           a == IF out /\ kind # 0 THEN all_in \cup {s} ELSE all_in \ {s}
           ac == (IF full_raise THEN {} ELSE acted) \cup {s}
           b == [bet EXCEPT ![s] = @ + amount]
           cb == IF kind = 2 THEN t ELSE current_bet
           paid == [stack EXCEPT ![s] = @ - amount]
           before == actors(folded, all_in)
           after == actors(f, a)
           U == {k \in after : owes(k)'}
<1>0. BettingOrder /\ TypeInv /\ dealing
  BY DEF BettingInv, CustodyInv, BooksInv, dealing
<1>1. /\ bet' = b /\ folded' = f /\ all_in' = a /\ acted' = ac /\ current_bet' = cb
      /\ total' = [total EXCEPT ![s] = @ + amount]
  BY DEF apply_action
<1>2. amount \in Nat /\ amount <= stack[s]
  BY <1>0, LegalAmount
<1>3. s \in before /\ before \in SUBSET Seats /\ live(folded) \in SUBSET Seats
  BY <1>0, ActorSets DEF BettingOrder, TurnInOrder, Seats, NONE
<1>4. /\ after \subseteq before /\ (out => s \notin after) /\ before \subseteq after \cup {s}
      /\ live(f) \subseteq live(folded) /\ live(folded) \subseteq live(f) \cup {s}
      /\ actors(folded, all_in)' = after /\ live(folded)' = live(f)
  BY <1>1, <1>3 DEF actors, live
<1>5. /\ \/ \A k \in Seats \ {s} : owes(k)'
         \/ \A k \in Seats \ {s} : owes(k)' <=> owes(k)
      /\ s \in after => ~owes(s)'
  BY <1>0, <1>1, <1>4, ActionOwes
<1>6. U = {} <=> ~round_open(after, ac, b, cb)
  BY <1>1 DEF owes, round_open
<1>7. \A k \in Seats : total'[k] - bet'[k] = total[k] - bet[k]
  BY <1>0, <1>1, <1>2, EarlierKept
<1>8. \A i \in after, k \in live(f) : total'[k] - bet'[k] <= total'[i] - bet'[i]
  <2>1. \A i \in before, k \in live(folded) : total[k] - bet[k] <= total[i] - bet[i]
    BY <1>0 DEF BettingOrder, EarlierMatched, before
  <2>2. after \subseteq before /\ live(f) \subseteq live(folded)
    BY <1>4
  <2>3. before \subseteq Seats /\ live(folded) \subseteq Seats
    BY <1>3
  <2> HIDE DEF before, after, f
  <2> SUFFICES ASSUME NEW i \in after, NEW k \in live(f)
               PROVE  total'[k] - bet'[k] <= total'[i] - bet'[i]
    OBVIOUS
  <2>4. i \in before /\ k \in live(folded) /\ i \in Seats /\ k \in Seats
    BY <2>2, <2>3
  <2>5. total[k] - bet[k] <= total[i] - bet[i]
    BY <2>1, <2>4
  <2> QED
    BY <1>7, <2>4, <2>5
<1>9. count_b(live(f)) # 1 => count_b(live(f)) >= 2
  <2>1. count_b(live(folded)) >= 2
    BY <1>0 DEF BettingOrder, TwoStillIn
  <2>2. live(f) # {}
    <3> SUFFICES ASSUME live(f) = {} PROVE FALSE
      OBVIOUS
    <3>1. live(folded) \in SUBSET {s} /\ {s} \in SUBSET Seats
      BY <1>4
    <3>2. count_b(live(folded)) <= count_b({s}) /\ count_b({s}) = 1
      BY <3>1, CountPart, CountOne
    <3>3. count_b(live(folded)) \in 0..6
      BY <1>3, CountB
    <3> QED
      BY <2>1, <3>2, <3>3
  <2>3. live(f) \in SUBSET Seats
    BY <1>3, <1>4
  <2> HIDE DEF f
  <2>4. count_b(live(f)) \in 0..6 /\ count_b(live(f)) # 0
    BY <2>2, <2>3, CountB
  <2> QED
    BY <2>4
<1> HIDE DEF amount, f, a, ac, b, cb, before, after, U
<1>10. ASSUME stack' = [stack EXCEPT ![s] = @ - amount]
       PROVE  \A i \in after : stack'[i] > 0
  <2>1. stack \in [Seats -> Nat] /\ \A i \in before : stack[i] > 0
    BY <1>0 DEF BettingOrder, ActorsHaveChips, TypeInv, TypeOK, MoneyTypes, before
  <2>2. s \in after => stack[s] - amount > 0
    BY <1>2, <1>4, <2>1 DEF amount
  <2> QED
    BY <1>3, <1>4, <1>10, <2>1, <2>2
<1>11. CASE phase' = "done" /\ to_act' = NONE
  BY <1>11, BettingOver DEF dealing
<1>12. CASE /\ count_b(live(f)) # 1 /\ U # {} /\ UNCHANGED phase
            /\ stack' = [stack EXCEPT ![s] = @ - amount]
            /\ to_act' = first_clockwise(s, after)
  <2>1. U \in SUBSET after /\ after \in SUBSET Seats /\ s \notin U
    BY <1>3, <1>4, <1>5 DEF U
  <2>2. ASSUME NEW u \in U, NEW d \in after \ U, d # s
        PROVE  clockwise(s, u) < clockwise(s, d)
    <3>1. /\ u \in before /\ d \in before /\ u # s /\ owes(u)' /\ ~owes(d)'
          /\ u \in Seats /\ d \in Seats
      BY <1>3, <1>4, <2>1, <2>2 DEF U
    <3>2. owes(u) /\ ~owes(d)
      BY <1>5, <2>2, <3>1
    <3> QED
      BY <1>0, <1>3, <3>1, <3>2 DEF BettingOrder, TurnInOrder, before, NONE, Seats
  <2> DEFINE next == first_clockwise(s, after)
  <2>3. next \in U /\ \A u \in U \ {next}, d \in after \ U : clockwise(next, u) < clockwise(next, d)
    BY <1>12, <2>1, <2>2, TurnPassed
  <2>4. PICK n \in U : /\ to_act' = n
                       /\ \A u \in U \ {n}, d \in after \ U : clockwise(n, u) < clockwise(n, d)
    BY <1>12, <2>3
  <2>5. n \in after /\ n # NONE /\ owes(n)'
    <3>1. \A u \in U : u \in after /\ owes(u)'
      BY DEF U
    <3>2. NONE \notin Seats
      BY DEF NONE, Seats
    <3> QED
      BY <2>1, <2>4, <3>1, <3>2
  <2>6. TurnInOrder'
    <3>1. owes(to_act)'
      BY <2>4, <2>5 DEF owes
    <3>2. ASSUME NEW u \in after, NEW d \in after, owes(u)', ~owes(d)', u # n
          PROVE  clockwise(n, u) < clockwise(n, d)
      BY <2>4, <3>2 DEF U
    <3> QED
      BY <1>4, <2>4, <2>5, <3>1, <3>2 DEF TurnInOrder
  <2>7. TurnPhases' /\ BlindsOpen' /\ TablingClosed'
    BY <1>12, <2>4, <2>5 DEF TurnPhases, BlindsOpen, TablingClosed, Before
  <2>8. TwoStillIn' /\ ActorsHaveChips'
    BY <1>4, <1>9, <1>10, <1>12 DEF TwoStillIn, ActorsHaveChips
  <2>9. EarlierMatched'
    BY <1>4, <1>8 DEF EarlierMatched
  <2> QED
    BY <1>12, <2>6, <2>7, <2>8, <2>9 DEF BettingOrder
<1>13. CASE /\ count_b(live(f)) # 1 /\ U = {}
            /\ stack' = [stack EXCEPT ![s] = @ - amount]
            /\ close_street(now, street, after)
  <2>1. to_act' = NONE /\ phase' \in {"release", "tabling", "showdown"}
        /\ (phase' = "tabling" => count_b(after) <= 1)
    BY <1>13 DEF close_street
  <2>2. TwoStillIn' /\ ActorsHaveChips'
    BY <1>4, <1>9, <1>10, <1>13 DEF TwoStillIn, ActorsHaveChips
  <2>3. Matched'
    <3> SUFFICES ASSUME NEW i \in after, NEW k \in live(f) PROVE total'[k] <= total'[i]
      BY <1>4 DEF Matched
    <3>1. i \in Seats /\ k \in Seats
      BY <1>3, <1>4
    <3>2. bet'[i] = current_bet'
      BY <1>13 DEF U, owes
    <3>3. /\ bet'[k] <= current_bet' /\ bet'[k] \in Nat /\ bet'[i] \in Nat
          /\ total'[k] \in Nat /\ total'[i] \in Nat /\ current_bet' \in Nat
      BY <3>1 DEF TypeInv, TypeOK, StreetTypes, PotTypes, BetsCovered
    <3> QED
      BY <1>8, <3>2, <3>3
  <2> QED
    BY <1>4, <2>1, <2>2, <2>3, BettingClosed
<1> QED
  BY <1>6, <1>11, <1>12, <1>13 DEF apply_action, set_turn, amount, f, a, ac, b, cb, after

LEMMA BetBetting ==
    ASSUME BettingInv, TypeInv', NEW p \in Players, BetCall(p)
    PROVE  BettingOrder'
<1>1. PICK s \in Seats, kind \in Kinds, now \in Times :
          \E t \in IF kind = 2 THEN Amounts ELSE {0} :
              act(p, s, kind, t, now) \/ act_out(p, s, kind, t, now)
  BY DEF BetCall
<1>2. PICK t \in Nat : act(p, s, kind, t, now) \/ act_out(p, s, kind, t, now)
  BY <1>1, InputsAssumption
<1>3. phase = "playing" /\ s = to_act /\ legal_action(s, kind, t) /\ UNCHANGED in_deal
  BY <1>2 DEF act, act_asserts, act_out, act_out_asserts, act_check, rosterVars
<1>4. PICK out \in BOOLEAN :
          /\ kind = 0 => out \/ bet[s] = current_bet
          /\ out \/ stack[s] > action_amount(s, kind, t)
          /\ apply_action(s, kind, t, out, now, bank_left(s, now))
  BY <1>2 DEF act, act_asserts, act_out, act_out_asserts
<1> QED
  BY <1>3, <1>4, ApplyActionBetting

------------------------------------------------------------------------------
(* The whole table. *)

LEMMA BettingInitially == FreshTable => BettingInv
<1> SUFFICES ASSUME FreshTable PROVE BettingInv
  OBVIOUS
<1>1. phase = "idle" /\ to_act = NONE
  BY DEF FreshTable, NeverDealt
<1>2. BettingOrder
  BY <1>1 DEF BettingOrder, dealing, TurnPhases, TwoStillIn, ActorsHaveChips, TurnInOrder,
              BlindsOpen, EarlierMatched, TablingClosed, Before
<1> QED
  BY <1>2, CustodyInitially DEF BettingInv

\* Seats are taken and left, topped up and stood up from outside the deal.
LEMMA SeatBetting ==
    ASSUME BettingInv, NEW p \in Players, SeatCall(p)
    PROVE  BettingOrder'
<1>0. BettingOrder /\ TypeInv /\ stack \in [Seats -> Nat] /\ (dealing => in_deal \subseteq occupied)
  BY DEF BettingInv, CustodyInv, BooksInv, TypeInv, TypeOK, MoneyTypes, SeatsHeldDuringDeal
<1>1. /\ UNCHANGED <<in_deal, folded, all_in, acted, bet, current_bet, total, to_act, phase>>
  BY DEF SeatCall, join, stand_up, buy_in, leave, rosterVars, potVars, streetVars, stageVars
<1>2. dealing => \A s \in in_deal : stack'[s] = stack[s]
  <2>1. ASSUME NEW buy \in Amounts, join(p, buy), dealing PROVE \A s \in in_deal : stack'[s] = stack[s]
    <3> DEFINE o == first_in(Seats \ occupied)
    <3>1. o \notin occupied
      <4>1. Seats \ occupied \in SUBSET Seats
        OBVIOUS
      <4>2. o # NONE
        BY <2>1 DEF join
      <4>3. NONE \notin Seats /\ occupied \subseteq Seats
        BY DEF NONE, Seats, occupied
      <4> QED
        BY <4>1, <4>2, <4>3, FirstIn
    <3>2. stack' = [stack EXCEPT ![o] = buy]
      BY <2>1 DEF join
    <3> HIDE DEF o
    <3> QED
      BY <1>0, <2>1, <3>1, <3>2 DEF occupied
  <2>2. ASSUME NEW s \in Seats, NEW up \in BOOLEAN, stand_up(p, s, up), dealing
        PROVE  \A k \in in_deal : stack'[k] = stack[k]
    BY <2>2 DEF stand_up, moneyVars
  <2>3. ASSUME NEW s \in Seats, NEW a \in Amounts, buy_in(p, s, a), dealing
        PROVE  \A k \in in_deal : stack'[k] = stack[k]
    <3>1. s \notin in_deal /\ \E c : stack' = [stack EXCEPT ![s] = c]
      BY <2>3 DEF buy_in, not_dealing, dealing
    <3> QED
      BY <1>0, <2>3, <3>1 DEF occupied
  <2>4. ASSUME NEW s \in Seats, leave(p, s), dealing
        PROVE  \A k \in in_deal : stack'[k] = stack[k]
    <3>1. s \notin in_deal /\ \E c : stack' = [stack EXCEPT ![s] = c]
      BY <2>4 DEF leave, not_dealing, dealing
    <3> QED
      BY <1>0, <2>4, <3>1 DEF occupied
  <2> QED
    BY <2>1, <2>2, <2>3, <2>4 DEF SeatCall
<1> QED
  BY <1>0, <1>1, <1>2, BettingKept

\* Keys and shuffles leave the betting alone, and so does a proved hand.
LEMMA CardBetting ==
    ASSUME BettingInv, TypeInv', NEW p \in Players, CardCall(p)
    PROVE  BettingOrder'
<1>0. BettingOrder /\ TypeInv
  BY DEF BettingInv, CustodyInv, BooksInv
<1>1. ASSUME NEW s \in Seats, NEW now \in Times, post_key(p, s, now) PROVE BettingOrder'
  <2>1. /\ UNCHANGED <<in_deal, folded, all_in, acted, bet, current_bet, total, to_act, stack>>
        /\ phase = "keys" /\ phase' \in {"keys", "shuffle"}
    BY <1>1 DEF post_key, post_key_asserts, rosterVars, potVars, streetVars, moneyVars
  <2> QED
    BY <1>0, <2>1, BettingKept DEF Before
<1>2. ASSUME NEW s \in Seats, NEW now \in Times, shuffle(p, s, now) PROVE BettingOrder'
  <2>1. /\ UNCHANGED <<in_deal, folded, all_in, acted, bet, current_bet, total, to_act, stack>>
        /\ phase = "shuffle" /\ phase' \in {"shuffle", "holes"}
    BY <1>2 DEF shuffle, shuffle_asserts, rosterVars, potVars, streetVars, moneyVars
  <2> QED
    BY <1>0, <2>1, BettingKept DEF Before
<1>3. ASSUME NEW s \in Seats, NEW now \in Times, NEW ps \in share_batches(s),
             shares(p, s, ps, now)
      PROVE  BettingOrder'
  BY <1>3, SharesBetting
<1>4. ASSUME NEW s \in Seats, NEW now \in Times, release(p, s, now) PROVE BettingOrder'
  BY <1>4, ReleaseBetting
<1>5. ASSUME NEW s \in Seats, NEW now \in Times, show(p, s, now) PROVE BettingOrder'
  BY <1>5, ShowBetting
<1>6. ASSUME NEW s \in Seats, NEW score \in Scores, NEW now \in Times,
             show_hand(p, s, score, now)
      PROVE  BettingOrder'
  <2>1. UNCHANGED <<in_deal, folded, all_in, acted, bet, current_bet, total, to_act, stack, phase>>
    BY <1>6 DEF show_hand, show_hand_asserts, rosterVars, potVars, streetVars, moneyVars, stageVars
  <2> QED
    BY <1>0, <2>1, BettingKept
<1> QED
  BY <1>1, <1>2, <1>3, <1>4, <1>5, <1>6 DEF CardCall

LEMMA BettingPreserved == BettingInv /\ [Next]_vars => BettingInv'
<1> SUFFICES ASSUME BettingInv, [Next]_vars PROVE BettingInv'
  OBVIOUS
<1>0. CustodyInv /\ BettingOrder /\ TypeInv /\ DeadlineWhileDealing
  BY DEF BettingInv, CustodyInv, BooksInv
<1>1. CustodyInv'
  BY <1>0, CustodyPreserved
<1>2. TypeInv'
  BY <1>1 DEF CustodyInv, BooksInv
<1>3. CASE Tick \/ UNCHANGED vars
  <2>1. UNCHANGED <<in_deal, folded, all_in, acted, bet, current_bet, total, to_act, stack, phase>>
    BY <1>3 DEF Tick, vars, rosterVars, potVars, streetVars, moneyVars, stageVars
  <2> QED
    BY <1>0, <1>1, <2>1, BettingKept DEF BettingInv
<1>4. ASSUME NEW now \in Times, start_deal(now) PROVE BettingOrder'
  BY <1>0, <1>2, <1>4, StartDealBetting
<1>5. ASSUME NEW now \in Times, expire_next(now) PROVE BettingOrder'
  <2>1. ~dealing /\ ~dealing' /\ to_act' = to_act
    BY <1>5 DEF expire_next, stageVars, dealing
  <2>2. to_act = NONE
    BY <1>0, <2>1 DEF BettingOrder, TurnPhases, dealing, Before
  <2> QED
    BY <2>1, <2>2, BettingOver
<1>6. ASSUME settle PROVE BettingOrder'
  BY <1>6, BettingOver DEF settle, settle_asserts, dealing
<1>7. ASSUME expire PROVE BettingOrder'
  <2>1. /\ dealing /\ dealing' /\ phase' = "aborted" /\ to_act' = NONE
        /\ UNCHANGED <<in_deal, folded, all_in, total, stack>>
    BY <1>0, <1>7 DEF expire, dealing, DeadlineWhileDealing, rosterVars, potVars, moneyVars
  <2>2. TwoStillIn' /\ ActorsHaveChips'
    BY <1>0, <2>1, PlayersKept
  <2> QED
    BY <2>1, <2>2 DEF BettingOrder, TurnPhases, TurnInOrder, BlindsOpen, EarlierMatched,
                      TablingClosed, Before
<1>8. ASSUME settle_abort PROVE BettingOrder'
  <2>1. ~dealing' /\ phase = "aborted" /\ to_act' = to_act
    BY <1>8 DEF settle_abort, settle_abort_asserts, dealing
  <2>2. to_act = NONE
    BY <1>0, <2>1 DEF BettingOrder, TurnPhases, Before
  <2> QED
    BY <2>1, <2>2, BettingOver
<1>9. ASSUME NEW p \in Players, SeatCall(p) PROVE BettingOrder'
  BY <1>9, SeatBetting
<1>10. ASSUME NEW p \in Players, PrepCall(p) PROVE BettingOrder'
  <2>1. UNCHANGED <<in_deal, folded, all_in, acted, bet, current_bet, total, to_act, stack, phase>>
    BY <1>10 DEF PrepCall, post_next_key, post_next_key_asserts, shuffle_next, shuffle_next_asserts,
                 rosterVars, potVars, streetVars,
                 moneyVars, stageVars
  <2> QED
    BY <1>0, <2>1, BettingKept
<1>11. ASSUME NEW p \in Players, CardCall(p) PROVE BettingOrder'
  BY <1>2, <1>11, CardBetting
<1>12. ASSUME NEW p \in Players, BetCall(p) PROVE BettingOrder'
  BY <1>2, <1>12, BetBetting
<1> QED
  BY <1>1, <1>3, <1>4, <1>5, <1>6, <1>7, <1>8, <1>9, <1>10, <1>11, <1>12
     DEF BettingInv, Next, Call, TableCall

\* Whoever the contract waits for has chips behind and a decision that is really theirs:
\* act.  Nobody all in, folded, or done with the street is ever given a deadline to bet by.
THEOREM DecisionOwed == Spec => []ToActHasDecision
<1>1. BettingInv => ToActHasDecision
  <2> SUFFICES ASSUME BettingInv PROVE ToActHasDecision
    OBVIOUS
  <2>0. BettingOrder /\ TypeInv
    BY DEF BettingInv, CustodyInv, BooksInv
  <2>1. phase = "playing" => to_act # NONE
    BY <2>0 DEF BettingOrder, TurnPhases
  <2>2. ASSUME to_act # NONE
        PROVE  /\ to_act \in actors(folded, all_in) /\ stack[to_act] > 0
               /\ to_act \notin acted \/ bet[to_act] < current_bet
               /\ phase # "playing" => bet[to_act] < BIG_BLIND \/ count_b(actors(folded, all_in)) > 1
    <3>1. /\ to_act \in actors(folded, all_in) /\ owes(to_act)
          /\ phase \in Before \cup {"playing"}
      BY <2>0, <2>2 DEF BettingOrder, TurnInOrder, TurnPhases
    <3>2. stack[to_act] > 0
      BY <2>0, <3>1 DEF BettingOrder, ActorsHaveChips, dealing, Before
    <3>3. to_act \notin acted \/ bet[to_act] < current_bet
      <4>1. to_act \in Seats
        BY <2>0, <3>1, ActorSets
      <4>2. bet[to_act] \in Nat /\ current_bet \in Nat /\ bet[to_act] <= current_bet
        BY <2>0, <4>1 DEF TypeInv, TypeOK, StreetTypes, BetsCovered
      <4> QED
        BY <3>1, <4>2 DEF owes
    <3>4. phase # "playing" => bet[to_act] < BIG_BLIND \/ count_b(actors(folded, all_in)) > 1
      BY <2>0, <2>2, <3>1 DEF BettingOrder, BlindsOpen
    <3> QED
      BY <3>1, <3>2, <3>3, <3>4
  <2> QED
    BY <2>1, <2>2 DEF ToActHasDecision
<1> QED
  BY EmptyTable, <1>1, BettingInitially, BettingPreserved, PTL DEF Spec

\* A street's betting, close_street, ends with nobody who could still bet owing the pot
\* anything, through blinds, short calls and raises all in.
THEOREM StreetsMatched == Spec => []BetsMatched
<1>1. BettingInv => BetsMatched
  BY DEF BettingInv, BettingOrder, Matched, BetsMatched
<1> QED
  BY EmptyTable, <1>1, BettingInitially, BettingPreserved, PTL DEF Spec

\* Settle can pay every pot that is shown down, whatever the side pots, ties and odd chips,
\* but one to which a folded player had put in more than anyone still in.
THEOREM PotsDivide == Spec => []OnlyOverfoldedSticks
<1>1. BettingInv => OnlyOverfoldedSticks
  <2> SUFFICES ASSUME BettingInv, phase = "showdown"
               PROVE  sum_u(pay) = sum_u(total) <=> ~overfolded
    BY DEF OnlyOverfoldedSticks
  <2>1. TypeInv /\ RolesInDeal /\ count_b(live(folded)) >= 2
    BY DEF BettingInv, CustodyInv, BooksInv, BettingOrder, TwoStillIn, dealing
  <2>2. live(folded) # {}
    BY <2>1, CountB
  <2> QED
    BY <2>1, <2>2, PotDivides
<1> QED
  BY EmptyTable, <1>1, BettingInitially, BettingPreserved, PTL DEF Spec

==============================================================================
