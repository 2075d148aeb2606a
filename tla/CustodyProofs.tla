---------------------------- MODULE CustodyProofs -----------------------------
(***************************************************************************)
(* The money of the table contract, for every set of players, any stakes,  *)
(* any inputs and any clock.                                               *)
(*                                                                         *)
(* Its books balance, and nobody in a deal loses their seat before it is   *)
(* settled.  The books say what is owed to occupied seats, so the argument *)
(* needs that chips only ever move between seats that hold them: whoever   *)
(* acts, mixes or is blamed for an abort is in the deal, everyone in the   *)
(* deal is seated, and nobody outside it has anything in the pot.          *)
(*                                                                         *)
(* It keeps the custody promise of TableCustody: every circuit moves money *)
(* as that specification allows, or moves none.  And what a showdown pays  *)
(* is fair: nobody wins more of an opponent's chips than they put in       *)
(* themselves, and the best hand gets back all it put in.  The levels of a *)
(* pot cut everyone's total into slices, so an argument about a pot is a   *)
(* telescoping sum over its levels.                                        *)
(***************************************************************************)
EXTENDS DealProofs

RolesInDeal ==
    /\ to_act \in in_deal \cup {NONE}
    /\ phase = "shuffle" => turn \in in_deal
    /\ phase = "aborted" => offender \in in_deal \cup {NONE}
    /\ \A s \in Seats \ in_deal : total[s] = 0

BooksInv == TypeInv /\ EscrowBacksBooks /\ SeatsHeldDuringDeal /\ RolesInDeal

------------------------------------------------------------------------------
(* Arithmetic. *)

\* A split pays out exactly what there was to share, odd chips included, and
\* only to the seats it is among.
LEMMA SplitConserves ==
    ASSUME TypeInv, NEW amount \in Nat, NEW v \in SUBSET Seats, v # {}
    PROVE  /\ sum_u(split_among(amount, v)) = amount
           /\ \A s \in Seats \ v : split_among(amount, v)[s] = 0
<1> DEFINE n == count_b(v)
           q == amount \div n
           r == amount % n
           first == first_clockwise(dealer, v)
           even == [s \in Seats |-> IF s \in v THEN q ELSE 0]
           odd == [s \in Seats |-> IF s = first THEN r ELSE 0]
<1>1. n \in Nat /\ n > 0
  BY CountB
<1>2. first \in v
  <2>1. dealer \in Int
    BY DEF TypeInv, TypeOK, RosterTypes, Seats, NONE
  <2> QED
    BY <2>1, FirstClockwise
<1>3. \A s \in Seats : split_among(amount, v)[s] = even[s] + odd[s]
  <2>1. q \in Int /\ r \in Int
    BY <1>1
  <2>2. \A s \in Seats : split_among(amount, v)[s]
            = IF s \in v THEN q + (IF s = first THEN r ELSE 0) ELSE 0
    BY DEF split_among
  <2>3. ASSUME NEW s \in Seats PROVE split_among(amount, v)[s] = even[s] + odd[s]
    <3> HIDE DEF q, r, first
    <3>1. even[s] = (IF s \in v THEN q ELSE 0) /\ odd[s] = (IF s = first THEN r ELSE 0)
      OBVIOUS
    <3>2. split_among(amount, v)[s] = IF s \in v THEN q + (IF s = first THEN r ELSE 0) ELSE 0
      BY <2>2
    <3>3. CASE s \in v
      BY <2>1, <3>1, <3>2, <3>3
    <3>4. CASE s \notin v
      BY <1>2, <2>1, <3>1, <3>2, <3>4
    <3> QED
      BY <3>3, <3>4
  <2> QED
    BY <2>3
<1>4. q \in Int /\ r \in Int /\ amount = q * n + r
  <2> HIDE DEF n
  <2>1. ASSUME NEW k \in Nat, k > 0 PROVE amount = (amount \div k) * k + (amount % k)
    BY <2>1, Z3
  <2> QED
    BY <1>1, <2>1
<1> HIDE DEF n, q, r, first
<1>5. sum_u(even) = q * n
  BY <1>4, SumScale DEF n
<1>6. sum_u(odd) = r
  BY <1>2, <1>4, SumOne
<1>7. even \in [Seats -> Int] /\ odd \in [Seats -> Int]
  BY <1>4
<1>8. split_among(amount, v) \in [Seats -> Int]
  BY SplitTypes
<1>9. sum_u(split_among(amount, v)) = sum_u(even) + sum_u(odd)
  BY <1>3, <1>7, <1>8, SumDelta
<1>10. \A s \in Seats \ v : split_among(amount, v)[s] = 0
  BY DEF split_among
<1> QED
  BY <1>1, <1>4, <1>5, <1>6, <1>9, <1>10

LEMMA ClaimsTypes ==
    ASSUME TypeInv
    PROVE  claims \in [Seats -> Int] /\ owed_stacks = sum_u(claims) /\ owed_stacks \in Int
<1>1. claims \in [Seats -> Nat]
  BY StakesAssumption DEF claims, TypeInv, TypeOK, MoneyTypes, BOND
<1>2. owed_stacks = sum_u(claims)
  BY DEF owed_stacks, claims
<1> QED
  BY <1>1, <1>2, SumU

\* Stacks and bonds move by d in all.
LEMMA StacksMove ==
    ASSUME TypeInv, TypeInv', NEW d \in [Seats -> Int],
           \A s \in Seats : claims'[s] = claims[s] + d[s]
    PROVE  owed_stacks' = owed_stacks + sum_u(d)
<1>1. claims \in [Seats -> Int] /\ owed_stacks = sum_u(claims)
  BY ClaimsTypes
<1>2. claims' \in [Seats -> Int] /\ owed_stacks' = sum_u(claims')
  BY StakesAssumption DEF claims, owed_stacks, TypeInv, TypeOK, MoneyTypes, BOND
<1> QED
  BY <1>1, <1>2, SumDelta

------------------------------------------------------------------------------
(* Calls that move no chips. *)

LEMMA QuietBooks ==
    ASSUME BooksInv, TypeInv', UNCHANGED <<seat_owner, stack, escrow, total, in_deal>>,
           dealing' = dealing, RolesInDeal'
    PROVE  BooksInv'
<1>1. EscrowBacksBooks'
  BY DEF BooksInv, EscrowBacksBooks, owed_stacks, claims, owed_bets, occupied
<1>2. SeatsHeldDuringDeal'
  BY DEF BooksInv, SeatsHeldDuringDeal, occupied
<1> QED
  BY <1>1, <1>2 DEF BooksInv

\* A call that leaves the deal's roles alone as well.
LEMMA IdleBooks ==
    ASSUME BooksInv, TypeInv', UNCHANGED <<seat_owner, stack, escrow, total, in_deal>>,
           UNCHANGED <<phase, to_act, turn, offender>>
    PROVE  BooksInv'
<1>1. RolesInDeal'
  BY DEF BooksInv, RolesInDeal
<1>2. dealing' = dealing
  BY DEF dealing
<1> QED
  BY <1>1, <1>2, QuietBooks

LEMMA PostKeyBooks ==
    ASSUME BooksInv, TypeInv', NEW p \in Players, NEW s \in Seats, NEW now \in Times,
           post_key(p, s, now)
    PROVE  BooksInv'
<1>1. UNCHANGED <<seat_owner, stack, escrow, total, in_deal, to_act, offender>>
  BY DEF post_key, post_key_asserts, seatVars, moneyVars, potVars, rosterVars
<1>2. first_in(in_deal) \in in_deal
  BY FirstIn DEF post_key, post_key_asserts, BooksInv, TypeInv, TypeOK, RosterTypes
<1>3. /\ phase = "keys"
      /\ \/ phase' = "shuffle" /\ turn' = first_in(in_deal)
         \/ UNCHANGED <<phase, turn>>
  BY DEF post_key, post_key_asserts
<1>4. RolesInDeal' /\ dealing' = dealing
  BY <1>1, <1>2, <1>3 DEF RolesInDeal, BooksInv, dealing
<1> QED
  BY <1>1, <1>4, QuietBooks

LEMMA ShuffleBooks ==
    ASSUME BooksInv, TypeInv', NEW p \in Players, NEW s \in Seats, NEW now \in Times,
           shuffle(p, s, now)
    PROVE  BooksInv'
<1>1. UNCHANGED <<seat_owner, stack, escrow, total, in_deal, to_act, offender>>
  BY DEF shuffle, shuffle_asserts, seatVars, moneyVars, potVars, rosterVars
<1>2. /\ phase = "shuffle"
      /\ \/ phase' = "holes"
         \/ UNCHANGED phase /\ turn' = next_in(in_deal, s) /\ turn' # NONE
  BY DEF shuffle, shuffle_asserts
<1>3. next_in(in_deal, s) \in in_deal \cup {NONE}
  BY NextIn DEF BooksInv, TypeInv, TypeOK, RosterTypes
<1>4. RolesInDeal' /\ dealing' = dealing
  BY <1>1, <1>2, <1>3 DEF RolesInDeal, BooksInv, dealing
<1> QED
  BY <1>1, <1>4, QuietBooks

LEMMA SharesBooks ==
    ASSUME BooksInv, TypeInv', NEW p \in Players, NEW s \in Seats, NEW ps,
           NEW now \in Times, shares(p, s, ps, now)
    PROVE  BooksInv'
<1>1. UNCHANGED <<seat_owner, stack, escrow, total, in_deal, turn, offender>>
  BY DEF shares, shares_asserts, seatVars, moneyVars, potVars, rosterVars, deckVars
<1>2. phase = "holes" /\ phase' \in {"holes", "playing", "tabling"} /\ to_act' = to_act
  BY DEF shares, shares_asserts, begin_betting, set_turn, stageVars
<1>3. RolesInDeal' /\ dealing' = dealing
  BY <1>1, <1>2 DEF RolesInDeal, BooksInv, dealing
<1> QED
  BY <1>1, <1>3, QuietBooks

\* When a street closes nobody is left to act.
LEMMA CloseStreetRoles ==
    ASSUME NEW now, NEW st, NEW betting, close_street(now, st, betting)
    PROVE  to_act' = NONE /\ phase' \in {"showdown", "tabling", "release"}
  BY DEF close_street

LEMMA ActorsInDeal ==
    ASSUME TypeInv, NEW from \in Int, NEW f, NEW a
    PROVE  first_clockwise(from, actors(f, a)) \in in_deal \cup {NONE}
<1>1. actors(f, a) \in SUBSET Seats /\ actors(f, a) \subseteq in_deal
  BY DEF actors, TypeInv, TypeOK, RosterTypes
<1> QED
  BY <1>1, FirstClockwise

LEMMA ReleaseBooks ==
    ASSUME BooksInv, TypeInv', NEW p \in Players, NEW s \in Seats, NEW now \in Times,
           release(p, s, now)
    PROVE  BooksInv'
<1>1. UNCHANGED <<seat_owner, stack, escrow, total, in_deal, turn, offender>>
  BY DEF release, release_asserts, seatVars, moneyVars, potVars, rosterVars, deckVars
<1>2. to_act' \in in_deal \cup {NONE}
      /\ phase' \in {"release", "playing", "showdown", "tabling"}
  <2>1. CASE resume_betting(now)
    <3>1. dealer \in Int
      BY DEF BooksInv, TypeInv, TypeOK, RosterTypes, Seats, NONE
    <3>2. first_clockwise(dealer, actors(folded, all_in)) \in in_deal \cup {NONE}
      BY <3>1, ActorsInDeal DEF BooksInv
    <3> QED
      BY <2>1, <3>2, CloseStreetRoles DEF resume_betting, set_turn
  <2>2. CASE UNCHANGED stageVars
    BY <2>2 DEF stageVars, release, release_asserts, BooksInv, RolesInDeal
  <2> QED
    BY <2>1, <2>2 DEF release, release_asserts
<1>3. RolesInDeal' /\ dealing' = dealing
  BY <1>1, <1>2 DEF release, release_asserts, RolesInDeal, BooksInv, dealing
<1> QED
  BY <1>1, <1>3, QuietBooks

LEMMA ShowBooks ==
    ASSUME BooksInv, TypeInv', NEW p \in Players, NEW s \in Seats, NEW now \in Times,
           show(p, s, now)
    PROVE  BooksInv'
<1>1. UNCHANGED <<seat_owner, stack, escrow, total, in_deal, turn, offender, to_act>>
  BY DEF show, show_asserts, seatVars, moneyVars, potVars, rosterVars, deckVars
<1>2. \/ UNCHANGED phase
      \/ phase = "tabling" /\ phase' \in {"showdown", "release"}
  BY DEF show, show_asserts, run_out
<1>3. RolesInDeal' /\ dealing' = dealing
  BY <1>1, <1>2 DEF RolesInDeal, BooksInv, dealing
<1> QED
  BY <1>1, <1>3, QuietBooks

LEMMA ExpireBooks ==
    ASSUME BooksInv, TypeInv', DeadlineWhileDealing, expire
    PROVE  BooksInv'
<1>1. UNCHANGED <<seat_owner, stack, escrow, total, in_deal, turn>>
  BY DEF expire, seatVars, moneyVars, potVars, rosterVars, deckVars
<1>2. phase' = "aborted" /\ to_act' = NONE /\ offender' = owing /\ deadline # 0
  BY DEF expire
<1>3. owing \in in_deal \cup {NONE}
  BY OwingInDeal DEF BooksInv, RolesInDeal
<1>4. RolesInDeal'
  BY <1>1, <1>2, <1>3 DEF RolesInDeal, BooksInv
<1>5. dealing' = dealing
  BY <1>2 DEF DeadlineWhileDealing, dealing
<1> QED
  BY <1>1, <1>4, <1>5, QuietBooks

------------------------------------------------------------------------------
(* Coming and going. *)

\* The parts of the invariant a seat's comings and goings leave alone: the deal's
\* roles and bets, and whoever is in the deal.
LEMMA SeatMove ==
    ASSUME BooksInv, TypeInv', NEW s \in Seats, NEW x \in Int,
           dealing => s \notin in_deal,
           UNCHANGED <<total, in_deal, phase, to_act, turn, offender>>,
           escrow' = escrow + x,
           \A i \in Seats \ {s} : seat_owner'[i] = seat_owner[i] /\ stack'[i] = stack[i],
           claims'[s] = claims[s] + x
    PROVE  BooksInv'
<1> DEFINE d == [i \in Seats |-> IF i = s THEN x ELSE 0]
<1>1. d \in [Seats -> Int] /\ sum_u(d) = x
  BY SumOne
<1>2. ASSUME NEW i \in Seats PROVE claims'[i] = claims[i] + d[i]
  <2>1. claims \in [Seats -> Int]
    BY ClaimsTypes DEF BooksInv
  <2>2. CASE i = s
    BY <2>2
  <2>3. CASE i # s
    <3>1. claims'[i] = claims[i]
      BY <2>3 DEF claims, occupied
    <3>2. claims[i] \in Int
      BY <2>1
    <3> QED
      BY <2>3, <3>1, <3>2
  <2> QED
    BY <2>2, <2>3
<1> HIDE DEF d
<1>3. owed_stacks' = owed_stacks + x
  BY <1>1, <1>2, StacksMove DEF BooksInv
<1>4. owed_bets' = owed_bets
  BY DEF owed_bets, dealing
<1>5. owed_stacks \in Int /\ owed_bets \in Int
  <2>1. sum_u(total) \in Nat
    BY SumU DEF BooksInv, TypeInv, TypeOK, PotTypes
  <2> QED
    BY <2>1, ClaimsTypes DEF BooksInv, owed_bets
<1>6. EscrowBacksBooks'
  BY <1>3, <1>4, <1>5 DEF BooksInv, EscrowBacksBooks
<1>7. SeatsHeldDuringDeal'
  BY DEF BooksInv, SeatsHeldDuringDeal, occupied, dealing
<1>8. RolesInDeal'
  BY DEF BooksInv, RolesInDeal
<1> QED
  BY <1>6, <1>7, <1>8 DEF BooksInv

LEMMA JoinBooks ==
    ASSUME BooksInv, TypeInv', NEW p \in Players, NEW buy \in Amounts, join(p, buy)
    PROVE  BooksInv'
<1> DEFINE s == first_in(Seats \ occupied)
<1>1. s \in Seats /\ s \notin occupied
  <2>1. s # NONE
    BY DEF join
  <2> QED
    BY <2>1, FirstIn
<1>2. /\ escrow' = escrow + buy + BOND
      /\ seat_owner' = [seat_owner EXCEPT ![s] = p]
      /\ stack' = [stack EXCEPT ![s] = buy]
      /\ UNCHANGED <<total, in_deal, phase, to_act, turn, offender>>
  BY DEF join, rosterVars, stageVars, potVars, deckVars
<1> HIDE DEF s
<1>3. buy + BOND \in Int /\ escrow' = escrow + (buy + BOND)
  BY <1>2, InputsAssumption, StakesAssumption
     DEF BOND, BooksInv, TypeInv, TypeOK, MoneyTypes
<1>4. /\ seat_owner'[s] = p /\ stack'[s] = buy
      /\ \A i \in Seats \ {s} : seat_owner'[i] = seat_owner[i] /\ stack'[i] = stack[i]
  BY <1>1, <1>2 DEF BooksInv, TypeInv, TypeOK, SeatTypes, MoneyTypes
<1>5. claims'[s] = claims[s] + (buy + BOND)
  <2>1. claims[s] = 0 /\ claims'[s] = buy + BOND
    BY <1>1, <1>4, PlayersAssumption DEF claims, occupied
  <2> QED
    BY <1>3, <2>1
<1>6. dealing => s \notin in_deal
  BY <1>1 DEF BooksInv, SeatsHeldDuringDeal
<1> QED
  BY <1>1, <1>2, <1>3, <1>4, <1>5, <1>6, SeatMove

LEMMA BuyInBooks ==
    ASSUME BooksInv, TypeInv', NEW p \in Players, NEW s \in Seats, NEW a \in Amounts,
           buy_in(p, s, a)
    PROVE  BooksInv'
<1>1. /\ seat_owner[s] = p /\ escrow' = escrow + a
      /\ stack' = [stack EXCEPT ![s] = stack[s] + a]
      /\ UNCHANGED <<seat_owner, total, in_deal, phase, to_act, turn, offender>>
  BY DEF buy_in, owner_check, seatVars, rosterVars, stageVars, potVars, deckVars
<1>2. a \in Int
  BY InputsAssumption
<1>3. /\ stack'[s] = stack[s] + a
      /\ \A i \in Seats \ {s} : stack'[i] = stack[i]
  BY <1>1 DEF BooksInv, TypeInv, TypeOK, MoneyTypes
<1>4. claims'[s] = claims[s] + a
  <2>1. claims[s] = stack[s] + BOND /\ claims'[s] = (stack[s] + a) + BOND
    BY <1>1, <1>3, PlayersAssumption DEF claims, occupied
  <2> QED
    BY <1>2, <2>1, StakesAssumption DEF BOND, BooksInv, TypeInv, TypeOK, MoneyTypes
<1>5. dealing => s \notin in_deal
  BY DEF buy_in, not_dealing, dealing
<1> QED
  BY <1>1, <1>2, <1>3, <1>4, <1>5, SeatMove

LEMMA LeaveBooks ==
    ASSUME BooksInv, TypeInv', NEW p \in Players, NEW s \in Seats, leave(p, s)
    PROVE  BooksInv'
<1> DEFINE x == 0 - (stack[s] + BOND)
<1>1. /\ seat_owner[s] = p /\ escrow' = escrow - (stack[s] + BOND)
      /\ seat_owner' = [seat_owner EXCEPT ![s] = NoPlayer]
      /\ stack' = [stack EXCEPT ![s] = 0]
      /\ UNCHANGED <<total, in_deal, phase, to_act, turn, offender>>
  BY DEF leave, free_seat, owner_check, rosterVars, stageVars, potVars, deckVars
<1>2. stack[s] \in Int /\ BOND \in Int /\ escrow \in Int
  BY StakesAssumption DEF BOND, BooksInv, TypeInv, TypeOK, MoneyTypes
<1>3. x \in Int /\ escrow' = escrow + x
  BY <1>1, <1>2
<1>4. /\ seat_owner'[s] = NoPlayer
      /\ \A i \in Seats \ {s} : seat_owner'[i] = seat_owner[i] /\ stack'[i] = stack[i]
  BY <1>1 DEF BooksInv, TypeInv, TypeOK, SeatTypes, MoneyTypes
<1>5. claims'[s] = claims[s] + x
  <2>1. claims[s] = stack[s] + BOND /\ claims'[s] = 0
    BY <1>1, <1>4, PlayersAssumption DEF claims, occupied
  <2> QED
    BY <1>2, <2>1
<1>6. dealing => s \notin in_deal
  BY DEF leave, not_dealing, dealing
<1> HIDE DEF x
<1> QED
  BY <1>1, <1>3, <1>4, <1>5, <1>6, SeatMove

\* The seat that owes the preparation a step forfeits its bond to the others of
\* the preparation, and its stack goes home with it.
LEMMA ExpireNextBooks ==
    ASSUME BooksInv, TypeInv', NEW now \in Times, expire_next(now)
    PROVE  BooksInv'
<1> DEFINE o == next_offender
           eligible == (next_in_deal \cap occupied) \ {o}
           won == split_among(BOND, eligible)
<1>1. UNCHANGED <<total, in_deal, phase, to_act, turn, offender>>
  BY DEF expire_next, rosterVars, stageVars, potVars, deckVars
<1>2. ~dealing
  BY DEF expire_next, dealing
<1>3. CASE o \notin occupied
  <2>1. UNCHANGED <<seat_owner, stack, escrow>>
    BY <1>3 DEF expire_next, seatVars, moneyVars
  <2> QED
    BY <1>1, <2>1, IdleBooks
<1>4. CASE o \in occupied
  <2>1. /\ eligible # {} /\ escrow' = escrow - stack[o]
        /\ seat_owner' = [seat_owner EXCEPT ![o] = NoPlayer]
        /\ stack' = [s \in Seats |-> IF s = o THEN 0 ELSE stack[s] + won[s]]
    BY <1>4 DEF expire_next, free_seat
  <2>2. o \in Seats /\ seat_owner[o] # NoPlayer
    BY <1>4 DEF occupied
  <2>3. BOND \in Nat /\ escrow \in Int /\ \A s \in Seats : stack[s] \in Nat
    BY StakesAssumption DEF BOND, BooksInv, TypeInv, TypeOK, MoneyTypes
  <2>4. eligible \in SUBSET Seats /\ eligible \subseteq occupied \ {o}
    BY PresentSeats
  <2>5. /\ sum_u(won) = BOND /\ won \in [Seats -> Nat]
        /\ \A s \in Seats \ eligible : won[s] = 0
    BY <2>1, <2>3, <2>4, SplitConserves, SplitTypes DEF BooksInv
  <2> DEFINE gone == [s \in Seats |-> IF s = o THEN 0 - (stack[o] + BOND) ELSE 0]
             d == [s \in Seats |-> won[s] + gone[s]]
  <2> HIDE DEF o, eligible, won
  <2>6. gone \in [Seats -> Int] /\ sum_u(gone) = 0 - (stack[o] + BOND)
    <3>1. 0 - (stack[o] + BOND) \in Int
      BY <2>2, <2>3
    <3> QED
      BY <2>2, <3>1, SumOne
  <2>7. d \in [Seats -> Int] /\ sum_u(d) = sum_u(won) + sum_u(gone)
    <3>1. d \in [Seats -> Int] /\ won \in [Seats -> Int]
      BY <2>5, <2>6
    <3> QED
      BY <2>6, <3>1, SumDelta
  <2>8. ASSUME NEW s \in Seats PROVE claims'[s] = claims[s] + d[s]
    <3>1. CASE s = o
      <4>1. claims[s] = stack[o] + BOND /\ claims'[s] = 0
        BY <2>1, <2>2, <3>1 DEF claims, occupied, BooksInv, TypeInv, TypeOK, SeatTypes
      <4>2. d[s] = 0 - (stack[o] + BOND)
        BY <2>3, <2>4, <2>5, <3>1
      <4> QED
        BY <2>2, <2>3, <4>1, <4>2
    <3>2. CASE s # o /\ s \in occupied
      <4>1. claims[s] = stack[s] + BOND /\ claims'[s] = (stack[s] + won[s]) + BOND
        BY <2>1, <3>2 DEF claims, occupied, BooksInv, TypeInv, TypeOK, SeatTypes
      <4>2. d[s] = won[s]
        BY <2>5, <3>2
      <4> QED
        BY <2>3, <2>5, <4>1, <4>2
    <3>3. CASE s # o /\ s \notin occupied
      <4>1. claims[s] = 0 /\ claims'[s] = 0
        BY <2>1, <3>3 DEF claims, occupied, BooksInv, TypeInv, TypeOK, SeatTypes
      <4>2. d[s] = 0
        BY <2>4, <2>5, <3>3
      <4> QED
        BY <4>1, <4>2
    <3> QED
      BY <3>1, <3>2, <3>3
  <2>9. owed_stacks' = owed_stacks - stack[o]
    <3> HIDE DEF d, gone
    <3>1. owed_stacks' = owed_stacks + sum_u(d)
      BY <2>7, <2>8, StacksMove DEF BooksInv
    <3>2. owed_stacks \in Int
      BY ClaimsTypes DEF BooksInv
    <3> QED
      BY <2>2, <2>3, <2>5, <2>6, <2>7, <3>1, <3>2
  <2>10. owed_bets = 0 /\ owed_bets' = 0
    BY <1>1, <1>2 DEF owed_bets, dealing
  <2>11. EscrowBacksBooks'
    BY <2>1, <2>2, <2>3, <2>9, <2>10, ClaimsTypes DEF BooksInv, EscrowBacksBooks
  <2>12. SeatsHeldDuringDeal' /\ RolesInDeal'
    BY <1>1, <1>2 DEF BooksInv, SeatsHeldDuringDeal, RolesInDeal, dealing
  <2> QED
    BY <2>11, <2>12 DEF BooksInv
<1> QED
  BY <1>3, <1>4

------------------------------------------------------------------------------
(* Chips in and out of the pot. *)

\* Stacks and bonds are down by d in all.
LEMMA StacksPaid ==
    ASSUME TypeInv, TypeInv', NEW d \in [Seats -> Int],
           \A s \in Seats : claims'[s] = claims[s] - d[s]
    PROVE  owed_stacks' = owed_stacks - sum_u(d)
<1>1. claims \in [Seats -> Int] /\ owed_stacks = sum_u(claims)
  BY ClaimsTypes
<1>2. claims' \in [Seats -> Int] /\ owed_stacks' = sum_u(claims')
  BY StakesAssumption DEF claims, owed_stacks, TypeInv, TypeOK, MoneyTypes, BOND
<1>3. \A s \in Seats : claims[s] = claims'[s] + d[s]
  BY <1>1
<1>4. sum_u(claims) = sum_u(claims') + sum_u(d)
  BY <1>1, <1>2, <1>3, SumDelta
<1>5. sum_u(claims') \in Int /\ sum_u(d) \in Int
  BY <1>2 DEF sum_u, Seats
<1> QED
  BY <1>1, <1>2, <1>4, <1>5

\* Only members of v post a blind, and only they may act first.
LEMMA BlindsInDeal ==
    ASSUME NEW v \in SUBSET Seats, NEW d \in v \cup {NONE}
    PROVE  \A s \in Seats \ v : blinds(v, d)[s] = 0
<1>1. small_blind(v, d) \in v \cup {NONE}
  BY NextRound DEF small_blind
<1>2. big_blind(v, d) \in v \cup {NONE}
  BY NextRound DEF big_blind
<1>3. NONE \notin Seats
  BY DEF NONE, Seats
<1>4. ASSUME NEW s \in Seats \ v PROVE blinds(v, d)[s] = 0
  <2>1. s # small_blind(v, d) /\ s # big_blind(v, d)
    BY <1>1, <1>2, <1>3
  <2> QED
    BY <2>1 DEF blinds
<1> QED
  BY <1>4

LEMMA StartDealBooks ==
    ASSUME BooksInv, TypeInv', NEW now \in Times, start_deal(now)
    PROVE  BooksInv'
<1> DEFINE v == IF prepared THEN next_in_deal ELSE players_present
           d == IF dealer = NONE THEN first_in(v) ELSE next_round(v, dealer)
           b == blinds(v, d)
           a == {s \in Seats \cap {small_blind(v, d), big_blind(v, d)} : b[s] = stack[s]}
<1>1. v \in SUBSET Seats /\ v \subseteq occupied
  BY PresentSeats DEF prepared
<1>2. d \in v \cup {NONE}
  BY <1>1, FirstIn, NextRound
<1>3. b \in [Seats -> Nat] /\ \A s \in Seats \ v : b[s] = 0
  BY <1>1, <1>2, BlindsTypes, BlindsInDeal DEF BooksInv
<1>4. first_to_act(v, d, b, a) \in v \cup {NONE}
  BY <1>1, FirstToAct
<1>5. /\ in_deal' = v /\ stack' = [s \in Seats |-> stack[s] - b[s]] /\ total' = b
      /\ to_act' = first_to_act(v, d, b, a)
      /\ escrow' = escrow /\ UNCHANGED seat_owner
  BY DEF start_deal, start_deal_asserts, seatVars
<1>6. ~dealing /\ dealing' /\ phase' \notin {"shuffle", "aborted"}
  BY DEF start_deal, start_deal_asserts, dealing
<1> HIDE DEF b, d, a, v
<1>7. ASSUME NEW s \in Seats PROVE claims'[s] = claims[s] - b[s]
  <2>1. stack[s] \in Nat /\ b[s] \in Nat /\ BOND \in Nat
    BY <1>3, StakesAssumption DEF BOND, BooksInv, TypeInv, TypeOK, MoneyTypes
  <2>2. CASE s \in occupied
    <3>1. claims[s] = stack[s] + BOND /\ claims'[s] = (stack[s] - b[s]) + BOND
      BY <1>5, <2>2 DEF claims, occupied
    <3> QED
      BY <2>1, <3>1
  <2>3. CASE s \notin occupied
    <3>1. claims[s] = 0 /\ claims'[s] = 0 /\ b[s] = 0
      BY <1>1, <1>3, <1>5, <2>3 DEF claims, occupied
    <3> QED
      BY <3>1
  <2> QED
    BY <2>2, <2>3
<1>8. owed_stacks' = owed_stacks - sum_u(b)
  BY <1>3, <1>7, StacksPaid DEF BooksInv
<1>9. EscrowBacksBooks'
  <2>1. owed_bets = 0 /\ owed_bets' = sum_u(b)
    BY <1>5, <1>6 DEF owed_bets
  <2>2. sum_u(b) \in Nat /\ owed_stacks \in Int
    BY <1>3, SumU, ClaimsTypes DEF BooksInv
  <2> QED
    BY <1>5, <1>8, <2>1, <2>2 DEF BooksInv, EscrowBacksBooks
<1>10. SeatsHeldDuringDeal'
  BY <1>1, <1>5 DEF SeatsHeldDuringDeal, occupied
<1>11. RolesInDeal'
  BY <1>3, <1>4, <1>5, <1>6 DEF RolesInDeal
<1> QED
  BY <1>9, <1>10, <1>11 DEF BooksInv

\* A bet moves chips from the actor's stack to the pot, and the last player
\* standing takes all of it.
LEMMA ApplyActionBooks ==
    ASSUME BooksInv, TypeInv', NEW s \in Seats, NEW kind \in Kinds, NEW t \in Nat,
           NEW out \in BOOLEAN, NEW now \in Times, NEW bk \in [Seats -> Nat],
           phase = "playing", s \in in_deal, legal_action(s, kind, t),
           apply_action(s, kind, t, out, now, bk),
           UNCHANGED <<escrow, seat_owner, in_deal>>
    PROVE  BooksInv'
<1> DEFINE amount == action_amount(s, kind, t)
           f == IF out /\ kind = 0 THEN folded \cup {s} ELSE folded \ {s}
           a == IF out /\ kind # 0 THEN all_in \cup {s} ELSE all_in \ {s}
           paid == [stack EXCEPT ![s] = @ - amount]
           tot == [total EXCEPT ![s] = @ + amount]
           last_in == first_in(live(f))
           out_of == [i \in Seats |-> IF i = s THEN amount ELSE 0]
<1>1. amount \in Nat
  BY LegalAmount DEF BooksInv
<1>2. total' = tot
  BY DEF apply_action
<1>3. /\ stack \in [Seats -> Nat] /\ total \in [Seats -> Nat] /\ BOND \in Nat
      /\ escrow \in Int
  BY StakesAssumption DEF BOND, BooksInv, TypeInv, TypeOK, MoneyTypes, PotTypes
<1>4. dealing /\ in_deal \subseteq occupied
  BY DEF dealing, BooksInv, SeatsHeldDuringDeal
<1>5. out_of \in [Seats -> Int] /\ sum_u(out_of) = amount
  BY <1>1, SumOne
<1> HIDE DEF amount
<1>6. /\ \A i \in Seats : tot[i] = total[i] + out_of[i]
      /\ tot \in [Seats -> Nat] /\ sum_u(tot) = sum_u(total) + amount
  <2>1. tot \in [Seats -> Nat] /\ \A i \in Seats : tot[i] = total[i] + out_of[i]
    BY <1>1, <1>3
  <2>2. total \in [Seats -> Int] /\ tot \in [Seats -> Int]
    BY <1>3, <2>1
  <2> HIDE DEF tot, out_of
  <2>3. sum_u(tot) = sum_u(total) + sum_u(out_of)
    BY <1>5, <2>1, <2>2, SumDelta
  <2> QED
    BY <1>5, <2>1, <2>3
<1>7. sum_u(tot) \in Nat /\ sum_u(total) \in Nat /\ owed_stacks \in Int
  BY <1>3, <1>6, SumU, ClaimsTypes DEF BooksInv
<1>8. SeatsHeldDuringDeal'
  BY <1>4 DEF SeatsHeldDuringDeal, occupied
<1>9. \A i \in Seats \ in_deal : total'[i] = 0
  BY <1>2, <1>3 DEF BooksInv, RolesInDeal
<1>10. owed_bets = sum_u(total) /\ escrow = owed_stacks + sum_u(total)
  BY <1>4 DEF owed_bets, BooksInv, EscrowBacksBooks
<1>11. ASSUME phase' \notin {"idle", "done", "shuffle", "aborted"}, stack' = paid,
              to_act' \in in_deal \cup {NONE}
       PROVE  BooksInv'
  <2>1. ASSUME NEW i \in Seats PROVE claims'[i] = claims[i] - out_of[i]
    <3>1. occupied' = occupied
      BY DEF occupied
    <3>2. CASE i = s
      <4>1. claims[i] = stack[s] + BOND /\ claims'[i] = (stack[s] - amount) + BOND
        BY <1>3, <1>4, <1>11, <3>1, <3>2 DEF claims
      <4> QED
        BY <1>1, <1>3, <3>2, <4>1
    <3>3. CASE i # s
      <4>1. claims'[i] = claims[i]
        BY <1>3, <1>11, <3>1, <3>3 DEF claims
      <4>2. claims[i] \in Int
        BY ClaimsTypes DEF BooksInv
      <4> QED
        BY <3>3, <4>1, <4>2
    <3> QED
      BY <3>2, <3>3
  <2>2. owed_stacks' = owed_stacks - amount
    <3> HIDE DEF out_of
    <3> QED
      BY <1>5, <2>1, StacksPaid DEF BooksInv
  <2>3. owed_bets' = sum_u(tot)
    BY <1>2, <1>11 DEF owed_bets, dealing
  <2>4. EscrowBacksBooks'
    <3> HIDE DEF tot
    <3> QED
      BY <1>1, <1>6, <1>7, <1>10, <2>2, <2>3 DEF EscrowBacksBooks
  <2>5. RolesInDeal'
    BY <1>9, <1>11 DEF RolesInDeal
  <2> QED
    BY <1>8, <2>4, <2>5 DEF BooksInv
<1>12. CASE /\ count_b(live(f)) = 1
            /\ stack' = [paid EXCEPT ![last_in] = @ + sum_u(tot)]
            /\ phase' = "done" /\ to_act' = NONE
  <2>1. last_in \in in_deal
    <3>1. live(f) \in SUBSET Seats /\ live(f) \subseteq in_deal
      BY DEF live, BooksInv, TypeInv, TypeOK, RosterTypes
    <3>2. live(f) # {}
      <4> HIDE DEF f
      <4>1. count_b(live(f)) # 0
        BY <1>12
      <4> QED
        BY <3>1, <4>1, CountB
    <3> QED
      BY <3>1, <3>2, FirstIn
  <2> DEFINE pot == [i \in Seats |-> IF i = last_in THEN sum_u(tot) ELSE 0]
             d == [i \in Seats |-> pot[i] - out_of[i]]
  <2>2. last_in \in Seats /\ last_in \in occupied
    BY <1>4, <2>1 DEF BooksInv, TypeInv, TypeOK, RosterTypes
  <2> HIDE DEF last_in, tot, f
  <2>3. pot \in [Seats -> Int] /\ sum_u(pot) = sum_u(tot)
    BY <1>7, <2>2, SumOne
  <2>4. d \in [Seats -> Int] /\ sum_u(pot) = sum_u(d) + sum_u(out_of)
    <3>1. d \in [Seats -> Int] /\ \A i \in Seats : pot[i] = d[i] + out_of[i]
      BY <1>1, <1>7, <2>3
    <3> HIDE DEF d, pot, out_of
    <3> QED
      BY <1>5, <2>3, <3>1, SumDelta
  <2>5. ASSUME NEW i \in Seats PROVE claims'[i] = claims[i] + d[i]
    <3>1. occupied' = occupied
      BY DEF occupied
    <3>2. stack'[i] = stack[i] + d[i]
      <4>1. stack'[i] = paid[i] + pot[i]
        <5>1. paid \in [Seats -> Int]
          BY <1>1, <1>3
        <5>2. CASE i = last_in
          BY <1>12, <5>1, <5>2
        <5>3. CASE i # last_in
          BY <1>12, <5>1, <5>3
        <5> QED
          BY <5>2, <5>3
      <4>2. paid[i] = stack[i] - out_of[i]
        BY <1>1, <1>3
      <4>3. stack[i] \in Int /\ pot[i] \in Int /\ out_of[i] \in Int
        BY <1>3, <1>5, <2>3
      <4> QED
        BY <4>1, <4>2, <4>3
    <3>3. CASE i \in occupied
      <4>1. claims[i] = stack[i] + BOND /\ claims'[i] = stack'[i] + BOND
        BY <3>1, <3>3 DEF claims
      <4> QED
        BY <1>3, <2>4, <3>2, <4>1
    <3>4. CASE i \notin occupied
      <4>1. claims[i] = 0 /\ claims'[i] = 0
        BY <3>1, <3>4 DEF claims
      <4>2. d[i] = 0
        BY <1>4, <2>2, <3>4
      <4> QED
        BY <4>1, <4>2
    <3> QED
      BY <3>3, <3>4
  <2>6. owed_stacks' = owed_stacks + sum_u(d)
    <3> HIDE DEF d
    <3> QED
      BY <2>4, <2>5, StacksMove DEF BooksInv
  <2>7. owed_bets' = 0
    BY <1>12 DEF owed_bets, dealing
  <2>8. EscrowBacksBooks'
    <3> HIDE DEF d, pot, out_of
    <3>1. sum_u(d) \in Int
      BY <2>4 DEF sum_u, Seats
    <3> QED
      BY <1>1, <1>3, <1>5, <1>6, <1>7, <1>10, <2>3, <2>4, <2>6, <2>7, <3>1 DEF EscrowBacksBooks
  <2>9. RolesInDeal'
    BY <1>9, <1>12 DEF RolesInDeal
  <2> QED
    BY <1>8, <2>8, <2>9 DEF BooksInv
<1>13. CASE /\ stack' = paid /\ UNCHANGED phase
            /\ set_turn(first_clockwise(s, actors(f, a)), now, bk)
  <2>1. to_act' \in in_deal \cup {NONE}
    BY <1>13, ActorsInDeal DEF set_turn, BooksInv, Seats
  <2> QED
    BY <1>11, <1>13, <2>1
<1>14. CASE stack' = paid /\ close_street(now, street, actors(f, a))
  BY <1>11, <1>14, CloseStreetRoles
<1> QED
  BY <1>12, <1>13, <1>14 DEF apply_action, amount

LEMMA BetBooks ==
    ASSUME BooksInv, TypeInv', NEW p \in Players, NEW s \in Seats, NEW kind \in Kinds,
           NEW t \in Nat, NEW now \in Times,
           act(p, s, kind, t, now) \/ act_out(p, s, kind, t, now)
    PROVE  BooksInv'
<1>1. bank_left(s, now) \in [Seats -> Nat]
  BY BankLeftTypes DEF BooksInv
<1>2. phase = "playing" /\ s = to_act /\ legal_action(s, kind, t)
  BY DEF act, act_asserts, act_out, act_out_asserts, act_check
<1>3. s \in in_deal
  <2>1. NONE \notin Seats
    BY DEF NONE, Seats
  <2> QED
    BY <1>2, <2>1 DEF BooksInv, RolesInDeal
<1>4. UNCHANGED <<escrow, seat_owner, in_deal>>
  BY DEF act, act_asserts, act_out, act_out_asserts, seatVars, rosterVars
<1>5. PICK out \in BOOLEAN : apply_action(s, kind, t, out, now, bank_left(s, now))
  BY DEF act, act_asserts, act_out, act_out_asserts
<1> QED
  BY <1>1, <1>2, <1>3, <1>4, <1>5, ApplyActionBooks

\* Only players still in are paid from a pot.
LEMMA PayInDeal ==
    ASSUME TypeInv
    PROVE  \A i \in Seats \ in_deal : pay[i] = 0
<1> SUFFICES ASSUME NEW i \in Seats \ in_deal PROVE pay[i] = 0
  OBVIOUS
<1>1. \A j \in Seats : level_pay(j, i) = 0
  BY DEF level_pay, winners, live
<1>2. pay[i] = sum_u([j \in Seats |-> IF j \in level_seats THEN level_pay(j, i) ELSE 0])
  BY DEF pay
<1>3. pay[i] = sum_u([j \in Seats |-> 0])
  BY <1>1, <1>2
<1> QED
  BY <1>3 DEF sum_u, Seats

LEMMA SettleBooks ==
    ASSUME BooksInv, TypeInv', settle
    PROVE  BooksInv'
<1>1. /\ phase = "showdown" /\ sum_u(pay) = sum_u(total) /\ phase' = "done"
      /\ to_act' = NONE /\ stack' = [s \in Seats |-> stack[s] + pay[s]]
      /\ UNCHANGED <<escrow, seat_owner, in_deal, total>>
  BY DEF settle, settle_asserts, seatVars, rosterVars, potVars
<1>2. pay \in [Seats -> Nat] /\ \A i \in Seats \ in_deal : pay[i] = 0
  BY PayTypes, PayInDeal DEF BooksInv
<1>3. dealing /\ ~dealing' /\ in_deal \subseteq occupied
  BY <1>1 DEF dealing, BooksInv, SeatsHeldDuringDeal
<1>4. ASSUME NEW s \in Seats PROVE claims'[s] = claims[s] + pay[s]
  <2>1. stack[s] \in Nat /\ pay[s] \in Nat /\ BOND \in Nat
    BY <1>2, StakesAssumption DEF BOND, BooksInv, TypeInv, TypeOK, MoneyTypes
  <2>2. CASE s \in occupied
    <3>1. claims[s] = stack[s] + BOND /\ claims'[s] = (stack[s] + pay[s]) + BOND
      BY <1>1, <2>2 DEF claims, occupied
    <3> QED
      BY <2>1, <3>1
  <2>3. CASE s \notin occupied
    <3>1. claims[s] = 0 /\ claims'[s] = 0 /\ pay[s] = 0
      BY <1>1, <1>2, <1>3, <2>3 DEF claims, occupied
    <3> QED
      BY <3>1
  <2> QED
    BY <2>2, <2>3
<1>5. owed_stacks' = owed_stacks + sum_u(pay)
  BY <1>2, <1>4, StacksMove DEF BooksInv
<1>6. owed_bets = sum_u(total) /\ owed_bets' = 0
  BY <1>3 DEF owed_bets
<1>7. EscrowBacksBooks'
  <2>1. sum_u(total) \in Nat /\ owed_stacks \in Int
    BY SumU, ClaimsTypes DEF BooksInv, TypeInv, TypeOK, PotTypes
  <2> QED
    BY <1>1, <1>5, <1>6, <2>1 DEF BooksInv, EscrowBacksBooks
<1>8. SeatsHeldDuringDeal' /\ RolesInDeal'
  BY <1>1, <1>3 DEF BooksInv, SeatsHeldDuringDeal, RolesInDeal
<1> QED
  BY <1>7, <1>8 DEF BooksInv

\* An abort gives every bet back but the offender's, which go with their bond to
\* the players still in; their stack goes home with them.
LEMMA SettleAbortBooks ==
    ASSUME BooksInv, TypeInv', settle_abort
    PROVE  BooksInv'
<1> DEFINE o == offender
           others == live(folded) \ {o}
           won == split_among(BOND + total[o], others)
           back == [s \in Seats |-> IF s \in in_deal \ {o} THEN total[s] ELSE 0]
           gone == [s \in Seats |-> IF s = o THEN 0 - (stack[o] + BOND) ELSE 0]
           forfeit == [s \in Seats |-> IF s = o THEN total[o] ELSE 0]
           gain == [s \in Seats |-> back[s] + won[s]]
           d == [s \in Seats |-> gain[s] + gone[s]]
<1>1. /\ phase = "aborted" /\ o # NONE /\ others # {} /\ phase' = "done"
      /\ escrow' = escrow - stack[o]
      /\ seat_owner' = [seat_owner EXCEPT ![o] = NoPlayer]
      /\ stack' = [s \in Seats |-> IF s = o THEN 0 ELSE stack[s] + (back[s] + won[s])]
      /\ UNCHANGED <<in_deal, total, to_act>>
  BY DEF settle_abort, settle_abort_asserts, free_seat, abort_pay, rosterVars, potVars
<1>2. dealing /\ ~dealing' /\ in_deal \subseteq occupied /\ o \in in_deal
  BY <1>1 DEF dealing, BooksInv, SeatsHeldDuringDeal, RolesInDeal
<1>3. in_deal \subseteq Seats /\ o \in Seats /\ seat_owner[o] # NoPlayer
  BY <1>2 DEF BooksInv, TypeInv, TypeOK, RosterTypes, occupied
<1>4. /\ BOND \in Nat /\ escrow \in Int /\ stack \in [Seats -> Nat] /\ total \in [Seats -> Nat]
      /\ \A s \in Seats \ in_deal : total[s] = 0
  BY StakesAssumption
     DEF BOND, BooksInv, RolesInDeal, TypeInv, TypeOK, MoneyTypes, PotTypes
<1>5. others \in SUBSET Seats /\ others \subseteq in_deal \ {o}
  BY <1>3 DEF live
<1>6. /\ won \in [Seats -> Nat] /\ sum_u(won) = BOND + total[o]
      /\ \A s \in Seats \ others : won[s] = 0
  <2>1. BOND + total[o] \in Nat
    BY <1>3, <1>4
  <2> QED
    BY <1>1, <1>5, <2>1, SplitTypes, SplitConserves DEF BooksInv
<1> HIDE DEF o, others, won
<1>7. /\ back \in [Seats -> Nat] /\ forfeit \in [Seats -> Nat]
      /\ \A s \in Seats : total[s] = back[s] + forfeit[s]
  BY <1>3, <1>4
<1>8. sum_u(forfeit) = total[o] /\ gone \in [Seats -> Int]
      /\ sum_u(gone) = 0 - (stack[o] + BOND)
  <2>1. 0 - (stack[o] + BOND) \in Int /\ total[o] \in Int
    BY <1>3, <1>4
  <2> QED
    BY <1>3, <2>1, SumOne
<1>9. sum_u(total) = sum_u(back) + sum_u(forfeit)
  <2>1. total \in [Seats -> Int] /\ back \in [Seats -> Int] /\ forfeit \in [Seats -> Int]
    BY <1>4, <1>7
  <2> HIDE DEF back, forfeit
  <2> QED
    BY <1>7, <2>1, SumDelta
<1>10. gain \in [Seats -> Nat] /\ sum_u(gain) = sum_u(back) + sum_u(won)
  <2> HIDE DEF back
  <2>1. gain \in [Seats -> Nat] /\ \A s \in Seats : gain[s] = back[s] + won[s]
    BY <1>6, <1>7
  <2>2. gain \in [Seats -> Int] /\ back \in [Seats -> Int] /\ won \in [Seats -> Int]
    BY <1>6, <1>7, <2>1
  <2> HIDE DEF gain
  <2> QED
    BY <2>1, <2>2, SumDelta
<1>11. d \in [Seats -> Int] /\ sum_u(d) = sum_u(gain) + sum_u(gone)
  <2> HIDE DEF gain, gone
  <2>1. d \in [Seats -> Int] /\ \A s \in Seats : d[s] = gain[s] + gone[s]
    BY <1>8, <1>10
  <2>2. gain \in [Seats -> Int]
    BY <1>10
  <2> HIDE DEF d
  <2> QED
    BY <1>8, <2>1, <2>2, SumDelta
<1>12. ASSUME NEW s \in Seats PROVE claims'[s] = claims[s] + d[s]
  <2>1. occupied' = occupied \ {o}
    BY <1>1, <1>3 DEF occupied, BooksInv, TypeInv, TypeOK, SeatTypes
  <2>2. CASE s = o
    <3>1. claims[s] = stack[o] + BOND /\ claims'[s] = 0
      BY <1>2, <1>3, <2>1, <2>2 DEF claims
    <3>2. d[s] = 0 - (stack[o] + BOND)
      BY <1>3, <1>4, <1>5, <1>6, <2>2
    <3> QED
      BY <1>3, <1>4, <3>1, <3>2
  <2>3. CASE s # o /\ s \in occupied
    <3>1. claims[s] = stack[s] + BOND /\ claims'[s] = (stack[s] + gain[s]) + BOND
      BY <1>1, <2>1, <2>3 DEF claims
    <3>2. d[s] = gain[s] /\ gain[s] \in Nat
      BY <1>10, <2>3
    <3> QED
      BY <1>4, <3>1, <3>2
  <2>4. CASE s # o /\ s \notin occupied
    <3>1. claims[s] = 0 /\ claims'[s] = 0
      BY <2>1, <2>4 DEF claims
    <3>2. d[s] = 0
      BY <1>2, <1>5, <1>6, <2>4
    <3> QED
      BY <3>1, <3>2
  <2> QED
    BY <2>2, <2>3, <2>4
<1> HIDE DEF back, forfeit, gain, gone, d
<1>13. owed_stacks' = owed_stacks + sum_u(d)
  BY <1>11, <1>12, StacksMove DEF BooksInv
<1>14. EscrowBacksBooks'
  <2>1. owed_bets = sum_u(total) /\ owed_bets' = 0
    BY <1>2 DEF owed_bets
  <2>2. sum_u(back) \in Nat /\ sum_u(total) \in Nat /\ owed_stacks \in Int
        /\ stack[o] \in Nat /\ total[o] \in Nat
    BY <1>3, <1>4, <1>7, SumU, ClaimsTypes DEF BooksInv
  <2>3. sum_u(d) = sum_u(back) + total[o] - stack[o]
    BY <1>4, <1>6, <1>8, <1>10, <1>11, <2>2
  <2>4. sum_u(total) = sum_u(back) + total[o]
    BY <1>8, <1>9
  <2> QED
    BY <1>1, <1>4, <1>13, <2>1, <2>2, <2>3, <2>4 DEF BooksInv, EscrowBacksBooks
<1>15. SeatsHeldDuringDeal' /\ RolesInDeal'
  BY <1>1, <1>2 DEF BooksInv, SeatsHeldDuringDeal, RolesInDeal
<1> QED
  BY <1>14, <1>15 DEF BooksInv

------------------------------------------------------------------------------
(* The whole table. *)

LEMMA BooksInitially == FreshTable => BooksInv
<1> SUFFICES ASSUME FreshTable PROVE BooksInv
  OBVIOUS
<1>1. TypeInv
  BY TypesInitially
<1>2. ~dealing /\ escrow = owed_stacks /\ owed_stacks \in Int
  BY <1>1, ClaimsTypes DEF dealing, FreshTable, NeverDealt
<1>3. EscrowBacksBooks /\ SeatsHeldDuringDeal
  BY <1>2 DEF EscrowBacksBooks, owed_bets, SeatsHeldDuringDeal
<1>4. RolesInDeal
  BY DEF FreshTable, NeverDealt, RolesInDeal, zeros
<1> QED
  BY <1>1, <1>3, <1>4 DEF BooksInv

LEMMA BooksPreserved ==
    BooksInv /\ DeadlineWhileDealing /\ [Next]_vars => BooksInv'
<1> SUFFICES ASSUME BooksInv, DeadlineWhileDealing, [Next]_vars PROVE BooksInv'
  OBVIOUS
<1>0. TypeInv'
  BY TypesPreserved DEF BooksInv
<1>1. CASE Tick \/ UNCHANGED vars
  <2>1. /\ UNCHANGED <<seat_owner, stack, escrow, total, in_deal>>
        /\ UNCHANGED <<phase, to_act, turn, offender>>
    BY <1>1 DEF Tick, vars, seatVars, moneyVars, potVars, rosterVars, stageVars, deckVars
  <2> QED
    BY <1>0, <2>1, IdleBooks
<1>2. CASE TableCall
  BY <1>0, <1>2, StartDealBooks, ExpireNextBooks, SettleBooks, ExpireBooks, SettleAbortBooks
     DEF TableCall
<1>3. ASSUME NEW p \in Players, SeatCall(p) PROVE BooksInv'
  <2>1. ASSUME NEW s \in Seats, NEW up \in BOOLEAN, stand_up(p, s, up) PROVE BooksInv'
    <3>1. /\ UNCHANGED <<seat_owner, stack, escrow, total, in_deal>>
          /\ UNCHANGED <<phase, to_act, turn, offender>>
      BY <2>1 DEF stand_up, moneyVars, potVars, rosterVars, stageVars, deckVars
    <3> QED
      BY <1>0, <3>1, IdleBooks
  <2> QED
    BY <1>0, <1>3, <2>1, JoinBooks, BuyInBooks, LeaveBooks DEF SeatCall
<1>4. ASSUME NEW p \in Players, PrepCall(p) PROVE BooksInv'
  <2>1. /\ UNCHANGED <<seat_owner, stack, escrow, total, in_deal>>
        /\ UNCHANGED <<phase, to_act, turn, offender>>
    BY <1>4 DEF PrepCall, post_next_key, post_next_key_asserts, shuffle_next, shuffle_next_asserts,
                seatVars, moneyVars, potVars,
                rosterVars, stageVars, deckVars
  <2> QED
    BY <1>0, <2>1, IdleBooks
<1>5. ASSUME NEW p \in Players, CardCall(p) PROVE BooksInv'
  <2>1. ASSUME NEW s \in Seats, NEW score \in Scores, NEW now \in Times,
               show_hand(p, s, score, now)
        PROVE  BooksInv'
    <3>1. /\ UNCHANGED <<seat_owner, stack, escrow, total, in_deal>>
          /\ UNCHANGED <<phase, to_act, turn, offender>>
      BY <2>1 DEF show_hand, show_hand_asserts, seatVars, moneyVars, potVars, rosterVars, stageVars,
                  deckVars
    <3> QED
      BY <1>0, <3>1, IdleBooks
  <2> QED
    BY <1>0, <1>5, <2>1, PostKeyBooks, ShuffleBooks, SharesBooks, ReleaseBooks, ShowBooks
       DEF CardCall
<1>6. ASSUME NEW p \in Players, BetCall(p) PROVE BooksInv'
  <2>1. PICK s \in Seats, kind \in Kinds, now \in Times :
            \E t \in IF kind = 2 THEN Amounts ELSE {0} :
                act(p, s, kind, t, now) \/ act_out(p, s, kind, t, now)
    BY <1>6 DEF BetCall
  <2>2. PICK t \in Nat : act(p, s, kind, t, now) \/ act_out(p, s, kind, t, now)
    BY <2>1, InputsAssumption
  <2> QED
    BY <1>0, <2>1, <2>2, BetBooks
<1> QED
  BY <1>1, <1>2, <1>3, <1>4, <1>5, <1>6 DEF Next, Call

\* The tokens the contract holds are what its books owe, at every state of every
\* table: through buy-ins, blinds, bets, side pots, forfeits and departures.
THEOREM BooksBalance == Spec => []EscrowBacksBooks
<1>1. BooksInv => EscrowBacksBooks
  BY DEF BooksInv
<1> QED
  BY EmptyTable, <1>1, BooksInitially, BooksPreserved, DeadlineCorrect, PTL DEF Spec

\* Nobody in a deal in progress loses their seat before it is settled.
THEOREM SeatsHeld == Spec => []SeatsHeldDuringDeal
<1>1. BooksInv => SeatsHeldDuringDeal
  BY DEF BooksInv
<1> QED
  BY EmptyTable, <1>1, BooksInitially, BooksPreserved, DeadlineCorrect, PTL DEF Spec

-------------------------------------------------------------------------------
(* Custody. *)

\* A deal always has chips in its pot: its big blind's, from the start.  A prepared
\* deck is for two players at least, so a deal that takes it over has a big blind.
PotOpen ==
    /\ next_prep # "none" => count_b(next_in_deal) >= 2
    /\ dealing => \E s \in Seats : total[s] > 0

CustodyInv == BooksInv /\ DeadlineWhileDealing /\ PotOpen

------------------------------------------------------------------------------
(* TableCustody's vocabulary in this one. *)

LEMMA CustodyVectors ==
    /\ Custody!Seats = Seats /\ Custody!zeros = zeros
    /\ \A v : Custody!sum_u(v) = sum_u(v)
    /\ \A v : Custody!count_b(v) = count_b(v)
  BY DEF Custody!Seats, Custody!zeros, Custody!sum_u, Custody!count_b, Seats, zeros, sum_u,
         count_b

LEMMA CustodyQuiet ==
    ASSUME UNCHANGED <<seat_owner, stack, escrow, total>>, dealing' = dealing
    PROVE  UNCHANGED Custody!custodyVars
  BY DEF Custody!custodyVars, claims, stakes, occupied

LEMMA CustodyTypes ==
    ASSUME TypeInv
    PROVE  /\ claims \in [Seats -> Nat] /\ stakes \in [Seats -> Nat]
           /\ seat_owner \in [Seats -> Players \cup {NoPlayer}] /\ escrow \in Int
           /\ BOND \in Nat
<1>1. BOND \in Nat /\ stack \in [Seats -> Nat] /\ total \in [Seats -> Nat]
  BY StakesAssumption DEF BOND, TypeInv, TypeOK, MoneyTypes, PotTypes
<1> QED
  BY <1>1 DEF claims, stakes, zeros, TypeInv, TypeOK, SeatTypes, MoneyTypes

LEMMA ClaimsTypesPrimed ==
    ASSUME TypeInv'
    PROVE  claims' \in [Seats -> Nat] /\ owed_stacks' \in Nat
<1>1. BOND \in Nat /\ stack' \in [Seats -> Nat]
  BY StakesAssumption DEF BOND, TypeInv, TypeOK, MoneyTypes
<1>2. claims' \in [Seats -> Nat]
  BY <1>1 DEF claims
<1>3. owed_stacks' = sum_u(claims')
  BY DEF owed_stacks
<1> QED
  BY <1>2, <1>3, SumU

\* Only seat s changes hands or wealth.
LEMMA OneSeatMoves ==
    ASSUME TypeInv, TypeInv', NEW s \in Seats,
           \A i \in Seats \ {s} : seat_owner'[i] = seat_owner[i] /\ stack'[i] = stack[i]
    PROVE  /\ seat_owner' = [seat_owner EXCEPT ![s] = seat_owner'[s]]
           /\ claims' = [claims EXCEPT ![s] = claims'[s]]
<1>1. /\ claims \in [Seats -> Nat] /\ seat_owner \in [Seats -> Players \cup {NoPlayer}]
      /\ claims' \in [Seats -> Nat] /\ seat_owner' \in [Seats -> Players \cup {NoPlayer}]
  BY CustodyTypes, ClaimsTypesPrimed DEF TypeInv, TypeOK, SeatTypes
<1>2. \A i \in Seats \ {s} : claims'[i] = claims[i]
  BY DEF claims, occupied
<1> QED
  BY <1>1, <1>2

\* What is in the pot stays, between deals or during one.
LEMMA StakesKept ==
    ASSUME UNCHANGED <<total, phase>>
    PROVE  stakes' = stakes
  BY DEF stakes, dealing

\* Outside the deal nobody has anything in its pot.
LEMMA NothingAtStake ==
    ASSUME BooksInv, NEW s \in Seats, not_dealing(s)
    PROVE  stakes[s] = 0
<1>1. CASE phase \in {"idle", "done"}
  BY <1>1 DEF stakes, dealing, zeros
<1>2. CASE s \notin in_deal
  BY <1>2 DEF stakes, zeros, BooksInv, RolesInDeal
<1> QED
  BY <1>1, <1>2 DEF not_dealing

------------------------------------------------------------------------------
(* Coming and going. *)

LEMMA JoinCustody ==
    ASSUME BooksInv, TypeInv', NEW p \in Players, NEW buy \in Amounts, join(p, buy)
    PROVE  \E s \in Seats : Custody!SitDown(s)
<1> DEFINE s == first_in(Seats \ occupied)
<1>1. s \in Seats /\ s \notin occupied
  <2>1. s # NONE
    BY DEF join
  <2> QED
    BY <2>1, FirstIn
<1>2. /\ \A k \in Seats : seat_owner[k] # p
      /\ escrow' = escrow + buy + BOND /\ MIN_BUY_IN <= buy
      /\ seat_owner' = [seat_owner EXCEPT ![s] = p]
      /\ stack' = [stack EXCEPT ![s] = buy]
      /\ UNCHANGED <<total, phase>>
  BY DEF join, stageVars, potVars
<1> HIDE DEF s
<1>3. /\ seat_owner'[s] = p /\ stack'[s] = buy
      /\ \A i \in Seats \ {s} : seat_owner'[i] = seat_owner[i] /\ stack'[i] = stack[i]
  BY <1>1, <1>2 DEF BooksInv, TypeInv, TypeOK, SeatTypes, MoneyTypes
<1>4. claims'[s] = buy + BOND /\ seat_owner[s] = NoPlayer
  BY <1>1, <1>3, PlayersAssumption DEF claims, occupied
<1>5. buy \in Nat /\ buy > 0 /\ BOND \in Nat /\ escrow \in Int
  BY <1>2, InputsAssumption, StakesAssumption, CustodyTypes DEF BooksInv
<1>6. escrow' = escrow + claims'[s] /\ claims'[s] > BOND
  BY <1>2, <1>4, <1>5
<1>7. stakes' = stakes
  BY <1>2, StakesKept
<1>8. /\ seat_owner' = [seat_owner EXCEPT ![s] = seat_owner'[s]]
      /\ claims' = [claims EXCEPT ![s] = claims'[s]]
  BY <1>1, <1>3, OneSeatMoves DEF BooksInv
<1>9. \A k \in Custody!Seats : seat_owner[k] # seat_owner'[s]
  BY <1>2, <1>3, CustodyVectors
<1>10. Custody!SitDown(s)
  BY <1>4, <1>6, <1>7, <1>8, <1>9 DEF Custody!SitDown, Custody!changes_hands
<1> QED
  BY <1>1, <1>10

LEMMA BuyInCustody ==
    ASSUME BooksInv, TypeInv', NEW p \in Players, NEW s \in Seats, NEW a \in Amounts,
           buy_in(p, s, a)
    PROVE  Custody!TopUp(s)
<1>1. /\ seat_owner[s] = p /\ not_dealing(s) /\ 0 < a /\ escrow' = escrow + a
      /\ stack' = [stack EXCEPT ![s] = stack[s] + a]
      /\ UNCHANGED <<seat_owner, total, phase>>
  BY DEF buy_in, owner_check, seatVars, stageVars, potVars
<1>2. /\ stack'[s] = stack[s] + a /\ stack[s] \in Nat /\ a \in Nat /\ BOND \in Nat
      /\ escrow \in Int
      /\ \A i \in Seats \ {s} : seat_owner'[i] = seat_owner[i] /\ stack'[i] = stack[i]
  BY <1>1, InputsAssumption, StakesAssumption
     DEF BOND, BooksInv, TypeInv, TypeOK, MoneyTypes
<1>3. claims[s] = stack[s] + BOND /\ claims'[s] = stack[s] + a + BOND
  BY <1>1, <1>2, PlayersAssumption DEF claims, occupied
<1>4. claims'[s] > claims[s] /\ escrow' = escrow + (claims'[s] - claims[s])
  BY <1>1, <1>2, <1>3
<1>5. claims' = [claims EXCEPT ![s] = claims'[s]]
  BY <1>2, OneSeatMoves DEF BooksInv
<1>6. stakes' = stakes /\ stakes[s] = 0
  BY <1>1, StakesKept, NothingAtStake
<1> QED
  BY <1>1, <1>4, <1>5, <1>6 DEF Custody!TopUp

LEMMA LeaveCustody ==
    ASSUME BooksInv, TypeInv', NEW p \in Players, NEW s \in Seats, leave(p, s)
    PROVE  Custody!GoHome(s)
<1>1. /\ seat_owner[s] = p /\ not_dealing(s) /\ escrow' = escrow - (stack[s] + BOND)
      /\ seat_owner' = [seat_owner EXCEPT ![s] = NoPlayer]
      /\ stack' = [stack EXCEPT ![s] = 0]
      /\ UNCHANGED <<total, phase>>
  BY DEF leave, free_seat, owner_check, stageVars, potVars
<1>2. /\ seat_owner'[s] = NoPlayer
      /\ \A i \in Seats \ {s} : seat_owner'[i] = seat_owner[i] /\ stack'[i] = stack[i]
  BY <1>1 DEF BooksInv, TypeInv, TypeOK, SeatTypes, MoneyTypes
<1>3. claims[s] = stack[s] + BOND /\ claims'[s] = 0 /\ seat_owner[s] # NoPlayer
  BY <1>1, <1>2, PlayersAssumption DEF claims, occupied
<1>4. claims' = [claims EXCEPT ![s] = 0]
  BY <1>2, <1>3, OneSeatMoves DEF BooksInv
<1>5. stakes' = stakes /\ stakes[s] = 0
  BY <1>1, StakesKept, NothingAtStake
<1> QED
  BY <1>1, <1>3, <1>4, <1>5 DEF Custody!GoHome

------------------------------------------------------------------------------
(* Forfeits. *)

\* The seat that owes the preparation a step is thrown out, or has already gone.
LEMMA ExpireNextCustody ==
    ASSUME BooksInv, BooksInv', NEW now \in Times, expire_next(now)
    PROVE  \/ UNCHANGED Custody!custodyVars
           \/ \E s \in Seats : Custody!Evict(s)
<1> DEFINE o == next_offender
           eligible == (next_in_deal \cap occupied) \ {o}
           won == split_among(BOND, eligible)
<1>1. UNCHANGED <<total, phase>> /\ phase \in {"idle", "done"}
  BY DEF expire_next, stageVars, potVars
<1>2. stakes = zeros /\ stakes' = zeros /\ dealing' = dealing
  BY <1>1 DEF stakes, dealing
<1>3. CASE o \notin occupied
  <2>1. UNCHANGED <<seat_owner, stack, escrow>>
    BY <1>3 DEF expire_next, seatVars, moneyVars
  <2> QED
    BY <1>1, <1>2, <2>1, CustodyQuiet
<1>4. CASE o \in occupied
  <2>1. /\ escrow' = escrow - stack[o]
        /\ seat_owner' = [seat_owner EXCEPT ![o] = NoPlayer]
        /\ stack' = [s \in Seats |-> IF s = o THEN 0 ELSE stack[s] + won[s]]
    BY <1>4 DEF expire_next, free_seat
  <2>2. o \in Seats /\ seat_owner[o] # NoPlayer
    BY <1>4 DEF occupied
  <2>3. BOND \in Nat /\ stack \in [Seats -> Nat] /\ escrow \in Int
    BY CustodyTypes DEF BooksInv, TypeInv, TypeOK, MoneyTypes
  <2>4. won \in [Seats -> Nat]
    <3>1. eligible \in SUBSET Seats
      BY PresentSeats
    <3> QED
      BY <2>3, <3>1, SplitTypes
  <2> HIDE DEF o, won
  <2>5. occupied' = occupied \ {o}
    BY <2>1, <2>2 DEF occupied, BooksInv, TypeInv, TypeOK, SeatTypes
  <2>6. claims[o] = stack[o] + BOND /\ claims'[o] = 0
    BY <1>4, <2>2, <2>5 DEF claims
  <2>7. ASSUME NEW s \in Seats \ {o} PROVE claims'[s] >= claims[s] + stakes[s]
    <3>1. stakes[s] = 0 /\ stack'[s] = stack[s] + won[s]
      BY <1>2, <2>1 DEF zeros
    <3>2. claims'[s] = claims[s] + (IF s \in occupied THEN won[s] ELSE 0)
      BY <2>3, <2>4, <2>5, <3>1 DEF claims
    <3>3. claims[s] \in Nat /\ won[s] \in Nat
      BY <2>4, CustodyTypes DEF BooksInv
    <3> QED
      BY <3>1, <3>2, <3>3
  <2>8. escrow' = escrow - (claims[o] - BOND)
    BY <2>1, <2>2, <2>3, <2>6
  <2>9. sum_u(claims') = escrow'
    <3>1. owed_bets' = 0
      BY <1>1 DEF owed_bets, dealing
    <3>2. escrow' = owed_stacks' + owed_bets' /\ owed_stacks' = sum_u(claims')
      BY DEF BooksInv, EscrowBacksBooks, owed_stacks
    <3>3. owed_stacks' \in Int
      BY ClaimsTypesPrimed DEF BooksInv
    <3> QED
      BY <3>1, <3>2, <3>3
  <2>10. Custody!Evict(o)
    BY <1>2, <2>1, <2>2, <2>6, <2>7, <2>8, <2>9, CustodyVectors DEF Custody!Evict
  <2> QED
    BY <2>2, <2>10
<1> QED
  BY <1>3, <1>4

LEMMA SettleAbortCustody ==
    ASSUME BooksInv, BooksInv', settle_abort
    PROVE  \E s \in Seats : Custody!Evict(s)
<1> DEFINE o == offender
           won == split_among(BOND + total[o], live(folded) \ {o})
           back == [s \in Seats |-> IF s \in in_deal \ {o} THEN total[s] ELSE 0]
<1>1. /\ phase = "aborted" /\ o # NONE /\ phase' = "done"
      /\ escrow' = escrow - stack[o]
      /\ seat_owner' = [seat_owner EXCEPT ![o] = NoPlayer]
      /\ stack' = [s \in Seats |-> IF s = o THEN 0 ELSE stack[s] + (back[s] + won[s])]
  BY DEF settle_abort, settle_abort_asserts, free_seat, abort_pay
<1>2. dealing /\ ~dealing' /\ in_deal \subseteq occupied /\ o \in in_deal
  BY <1>1 DEF dealing, BooksInv, SeatsHeldDuringDeal, RolesInDeal
<1>3. o \in Seats /\ seat_owner[o] # NoPlayer /\ o \in occupied /\ in_deal \subseteq Seats
  BY <1>2 DEF BooksInv, TypeInv, TypeOK, RosterTypes, occupied
<1>4. /\ BOND \in Nat /\ stack \in [Seats -> Nat] /\ escrow \in Int
      /\ total \in [Seats -> Nat] /\ \A s \in Seats \ in_deal : total[s] = 0
  BY CustodyTypes DEF BooksInv, TypeInv, TypeOK, MoneyTypes, PotTypes, RolesInDeal
<1>5. won \in [Seats -> Nat]
  <2>1. live(folded) \ {o} \in SUBSET Seats /\ BOND + total[o] \in Nat
    BY <1>3, <1>4 DEF live
  <2> QED
    BY <2>1, SplitTypes
<1> HIDE DEF o, won
<1>6. occupied' = occupied \ {o}
  BY <1>1, <1>3 DEF occupied, BooksInv, TypeInv, TypeOK, SeatTypes
<1>7. claims[o] = stack[o] + BOND /\ claims'[o] = 0
  BY <1>3, <1>6 DEF claims
<1>8. stakes = total /\ stakes' = zeros
  BY <1>2 DEF stakes
<1>9. ASSUME NEW s \in Seats \ {o} PROVE claims'[s] >= claims[s] + stakes[s]
  <2>1. total[s] \in Nat /\ won[s] \in Nat /\ stack[s] \in Nat
    BY <1>4, <1>5
  <2>2. CASE s \in occupied
    <3>1. back[s] = total[s]
      BY <1>4, <2>2
    <3>2. claims[s] = stack[s] + BOND /\ claims'[s] = stack[s] + (total[s] + won[s]) + BOND
      BY <1>1, <1>6, <2>2, <3>1 DEF claims
    <3> QED
      BY <1>4, <1>8, <2>1, <3>2
  <2>3. CASE s \notin occupied
    <3>1. claims[s] = 0 /\ claims'[s] = 0 /\ total[s] = 0
      BY <1>2, <1>4, <1>6, <2>3 DEF claims
    <3> QED
      BY <1>8, <3>1
  <2> QED
    BY <2>2, <2>3
<1>10. escrow' = escrow - (claims[o] - BOND)
  BY <1>1, <1>3, <1>4, <1>7
<1>11. sum_u(claims') = escrow'
  <2>1. owed_bets' = 0
    BY <1>2 DEF owed_bets
  <2>2. escrow' = owed_stacks' + owed_bets' /\ owed_stacks' = sum_u(claims')
    BY DEF BooksInv, EscrowBacksBooks, owed_stacks
  <2>3. owed_stacks' \in Int
    BY ClaimsTypesPrimed DEF BooksInv
  <2> QED
    BY <2>1, <2>2, <2>3
<1>12. Custody!Evict(o)
  BY <1>1, <1>3, <1>7, <1>8, <1>9, <1>10, <1>11, CustodyVectors DEF Custody!Evict
<1> QED
  BY <1>3, <1>12

------------------------------------------------------------------------------
(* Chips in and out of the pot. *)

LEMMA CountOne ==
    ASSUME NEW x \in Seats
    PROVE  count_b({x}) = 1
<1>1. {} \in SUBSET Seats /\ x \in Seats \ {} /\ {} \cup {x} = {x}
  OBVIOUS
<1>2. count_b({} \cup {x}) = count_b({}) + 1
  BY <1>1, CountAdd
<1>3. count_b({}) = 0
  BY CountB
<1> QED
  BY <1>1, <1>2, <1>3

LEMMA CountTwo ==
    ASSUME NEW v \in SUBSET Seats, NEW x, NEW y, v \subseteq {x, y}
    PROVE  count_b(v) <= 2
<1>1. CASE v = {}
  BY <1>1, CountB
<1>2. CASE x \in Seats /\ v = {x}
  BY <1>2, CountOne
<1>3. CASE y \in Seats /\ v = {y}
  BY <1>3, CountOne
<1>4. CASE x \in Seats /\ y \in Seats /\ x # y /\ v = {x, y}
  <2>1. {x} \in SUBSET Seats /\ y \in Seats \ {x} /\ {x} \cup {y} = v
    BY <1>4
  <2>2. count_b({x} \cup {y}) = count_b({x}) + 1
    BY <2>1, CountAdd
  <2> QED
    BY <1>4, <2>1, <2>2, CountOne
<1> QED
  BY <1>1, <1>2, <1>3, <1>4

\* A bet: what the pot has more from a player, the player's claim has less.
LEMMA BetShape ==
    ASSUME TypeInv, NEW who \in SUBSET Seats, NEW b \in [Seats -> Nat],
           UNCHANGED <<seat_owner, escrow>>,
           \A s \in Seats : /\ stakes'[s] = stakes[s] + b[s]
                            /\ claims'[s] = claims[s] - b[s]
                            /\ b[s] # 0 => s \in who /\ claims'[s] >= BOND,
           count_b(who) <= IF stakes = zeros THEN 2 ELSE 1
    PROVE  Custody!Bet
<1> DEFINE paying == {s \in Custody!Seats : stakes'[s] # stakes[s]}
<1>1. claims \in [Seats -> Nat] /\ stakes \in [Seats -> Nat]
  BY CustodyTypes
<1>2. paying \in SUBSET Seats /\ paying \subseteq who
      /\ \A s \in paying : b[s] # 0 /\ s \in Seats
  <2>1. ASSUME NEW s \in paying PROVE s \in Seats /\ b[s] # 0 /\ s \in who
    <3>1. s \in Seats /\ stakes'[s] # stakes[s]
      BY CustodyVectors
    <3>2. stakes[s] \in Nat /\ b[s] \in Nat
      BY <1>1, <3>1
    <3> QED
      BY <3>1, <3>2
  <2> QED
    BY <2>1
<1>3. \A s \in Custody!Seats : stakes'[s] + claims'[s] = stakes[s] + claims[s]
  BY <1>1, CustodyVectors
<1>4. \A s \in paying : stakes'[s] > stakes[s] /\ claims'[s] >= BOND
  BY <1>1, <1>2
<1> HIDE DEF paying
<1>5. count_b(paying) <= IF Custody!no_stake THEN 2 ELSE 1
  <2>1. count_b(paying) <= count_b(who) /\ count_b(paying) \in Int /\ count_b(who) \in Int
    BY <1>2, CountPart, CountB
  <2>2. Custody!no_stake <=> stakes = zeros
    BY CustodyVectors DEF Custody!no_stake
  <2> QED
    BY <2>1, <2>2
<1>6. Custody!count_b(paying) <= IF Custody!no_stake THEN 2 ELSE 1
  BY <1>5, CustodyVectors
<1> QED
  BY <1>3, <1>4, <1>6 DEF Custody!Bet, paying

\* A deal ends with the pot paid out in full and nobody charged more.
LEMMA DivideShape ==
    ASSUME BooksInv, BooksInv', PotOpen, dealing, ~dealing',
           UNCHANGED <<seat_owner, escrow>>,
           \A s \in Seats : claims'[s] >= claims[s]
    PROVE  Custody!Divide
<1>1. stakes = total /\ stakes' = zeros
  BY DEF stakes
<1>2. stakes # zeros
  BY <1>1 DEF PotOpen, zeros
<1>3. sum_u(claims') = sum_u(claims) + sum_u(stakes)
  <2>1. escrow = owed_stacks + owed_bets /\ escrow' = owed_stacks' + owed_bets'
    BY DEF BooksInv, EscrowBacksBooks
  <2>2. owed_stacks = sum_u(claims) /\ owed_stacks' = sum_u(claims')
    BY DEF owed_stacks
  <2>3. owed_bets = sum_u(stakes) /\ owed_bets' = 0
    BY <1>1 DEF owed_bets
  <2>4. owed_stacks' \in Int
    BY ClaimsTypesPrimed DEF BooksInv
  <2> QED
    BY <2>1, <2>2, <2>3, <2>4
<1>4. Custody!sum_u(claims') = Custody!sum_u(claims) + Custody!sum_u(stakes)
  BY <1>3, CustodyVectors
<1> QED
  BY <1>1, <1>2, <1>4, CustodyVectors DEF Custody!Divide, Custody!no_stake

\* Only the two blinds are posted.
LEMMA BlindsPaid ==
    ASSUME BooksInv, NEW now \in Times, start_deal(now)
    PROVE  Custody!Bet
<1> DEFINE v == IF prepared THEN next_in_deal ELSE players_present
           d == IF dealer = NONE THEN first_in(v) ELSE next_round(v, dealer)
           b == blinds(v, d)
<1>1. v \in SUBSET Seats /\ v \subseteq occupied
  BY PresentSeats DEF prepared
<1>2. d \in v \cup {NONE}
  BY <1>1, FirstIn, NextRound
<1>3. /\ b \in [Seats -> Nat] /\ \A s \in Seats \ v : b[s] = 0
      /\ \A s \in Seats : b[s] <= stack[s]
  BY <1>1, <1>2, BlindsTypes, BlindsInDeal DEF BooksInv
<1>4. \A s \in Seats : b[s] # 0 => s \in {small_blind(v, d), big_blind(v, d)}
  BY DEF blinds
<1>5. /\ stack' = [s \in Seats |-> stack[s] - b[s]] /\ total' = b
      /\ UNCHANGED <<seat_owner, escrow>>
  BY DEF start_deal, start_deal_asserts, seatVars
<1>6. ~dealing /\ dealing'
  BY DEF start_deal, start_deal_asserts, dealing
<1>7. stakes = zeros /\ stakes' = b
  BY <1>5, <1>6 DEF stakes
<1> HIDE DEF b, d, v
<1>8. BOND \in Nat /\ stack \in [Seats -> Nat]
  BY CustodyTypes DEF BooksInv, TypeInv, TypeOK, MoneyTypes
<1>9. ASSUME NEW s \in Seats
      PROVE  /\ stakes'[s] = stakes[s] + b[s] /\ claims'[s] = claims[s] - b[s]
             /\ b[s] # 0 => claims'[s] >= BOND
  <2>1. stack[s] \in Nat /\ b[s] \in Nat /\ b[s] <= stack[s]
    BY <1>3, <1>8
  <2>2. stakes'[s] = stakes[s] + b[s]
    BY <1>7, <2>1 DEF zeros
  <2>3. CASE s \in occupied
    <3>1. claims[s] = stack[s] + BOND /\ claims'[s] = (stack[s] - b[s]) + BOND
      BY <1>5, <2>3 DEF claims, occupied
    <3> QED
      BY <1>8, <2>1, <2>2, <3>1
  <2>4. CASE s \notin occupied
    <3>1. claims[s] = 0 /\ claims'[s] = 0 /\ b[s] = 0
      BY <1>1, <1>3, <1>5, <2>4 DEF claims, occupied
    <3> QED
      BY <2>2, <3>1
  <2> QED
    BY <2>3, <2>4
<1> DEFINE who == Seats \cap {small_blind(v, d), big_blind(v, d)}
<1>10. \A s \in Seats : /\ stakes'[s] = stakes[s] + b[s] /\ claims'[s] = claims[s] - b[s]
                        /\ b[s] # 0 => s \in who /\ claims'[s] >= BOND
  BY <1>4, <1>9
<1>12. who \in SUBSET Seats /\ count_b(who) <= 2
  <2>1. who \in SUBSET Seats /\ who \subseteq {small_blind(v, d), big_blind(v, d)}
    OBVIOUS
  <2> QED
    BY <2>1, CountTwo
<1> HIDE DEF who
<1>11. TypeInv /\ b \in [Seats -> Nat] /\ UNCHANGED <<seat_owner, escrow>> /\ stakes = zeros
  BY <1>3, <1>5, <1>7 DEF BooksInv
<1> QED
  BY <1>10, <1>11, <1>12, BetShape

LEMMA SettleCustody ==
    ASSUME BooksInv, BooksInv', PotOpen, settle
    PROVE  Custody!Divide
<1>1. /\ phase = "showdown" /\ phase' = "done"
      /\ stack' = [s \in Seats |-> stack[s] + pay[s]] /\ UNCHANGED <<seat_owner, escrow>>
  BY DEF settle, settle_asserts, seatVars
<1>2. ASSUME NEW s \in Seats PROVE claims'[s] >= claims[s]
  <2>1. stack[s] \in Nat /\ pay[s] \in Nat /\ BOND \in Nat
    BY PayTypes, CustodyTypes DEF BooksInv, TypeInv, TypeOK, MoneyTypes
  <2>2. occupied' = occupied /\ stack'[s] = stack[s] + pay[s]
    BY <1>1 DEF occupied
  <2> QED
    BY <2>1, <2>2 DEF claims
<1>3. dealing /\ ~dealing'
  BY <1>1 DEF dealing
<1> QED
  BY <1>1, <1>2, <1>3, DivideShape

\* A bet, or the last player standing takes the pot.
LEMMA ActionCustody ==
    ASSUME BooksInv, BooksInv', PotOpen, NEW s \in Seats, NEW kind \in Kinds, NEW t \in Nat,
           NEW out \in BOOLEAN, NEW now \in Times, NEW bk \in [Seats -> Nat],
           phase = "playing", s \in in_deal, legal_action(s, kind, t),
           apply_action(s, kind, t, out, now, bk),
           UNCHANGED <<escrow, seat_owner, in_deal>>
    PROVE  Custody!Bet \/ Custody!Divide
<1> DEFINE amount == action_amount(s, kind, t)
           f == IF out /\ kind = 0 THEN folded \cup {s} ELSE folded \ {s}
           a == IF out /\ kind # 0 THEN all_in \cup {s} ELSE all_in \ {s}
           paid == [stack EXCEPT ![s] = @ - amount]
           tot == [total EXCEPT ![s] = @ + amount]
           last_in == first_in(live(f))
           b == [i \in Seats |-> IF i = s THEN amount ELSE 0]
<1>1. amount \in Nat /\ amount <= stack[s]
  BY LegalAmount DEF BooksInv
<1>2. kind = 0 => amount = 0
  BY DEF action_amount
<1>3. total' = tot
  BY DEF apply_action
<1>4. /\ stack \in [Seats -> Nat] /\ total \in [Seats -> Nat] /\ BOND \in Nat
  BY CustodyTypes DEF BooksInv, TypeInv, TypeOK, MoneyTypes, PotTypes
<1>5. dealing /\ s \in occupied /\ occupied' = occupied
  BY DEF dealing, BooksInv, SeatsHeldDuringDeal, occupied
<1>6. b \in [Seats -> Nat]
  BY <1>1
<1> HIDE DEF amount
<1>7. ASSUME stack' = paid, phase' \notin {"idle", "done"} PROVE Custody!Bet
  <2>1. stakes = total /\ stakes' = tot
    BY <1>3, <1>5, <1>7 DEF stakes, dealing
  <2>2. ASSUME NEW i \in Seats
        PROVE  /\ stakes'[i] = stakes[i] + b[i] /\ claims'[i] = claims[i] - b[i]
               /\ b[i] # 0 => i \in {s} /\ claims'[i] >= BOND
    <3>1. CASE i = s
      <4>1. stakes'[i] = stakes[i] + amount /\ b[i] = amount
        BY <1>1, <1>4, <2>1, <3>1
      <4>2. claims[i] = stack[s] + BOND /\ claims'[i] = (stack[s] - amount) + BOND
        BY <1>4, <1>5, <1>7, <3>1 DEF claims
      <4> QED
        BY <1>1, <1>4, <3>1, <4>1, <4>2
    <3>2. CASE i # s
      <4>1. stakes'[i] = stakes[i] /\ b[i] = 0 /\ stakes[i] \in Nat
        BY <1>4, <2>1, <3>2
      <4>2. claims'[i] = claims[i] /\ claims[i] \in Nat
        BY <1>4, <1>5, <1>7, <3>2, CustodyTypes DEF claims, BooksInv
      <4> QED
        BY <4>1, <4>2
    <3> QED
      BY <3>1, <3>2
  <2>3. {s} \in SUBSET Seats /\ count_b({s}) <= 1
    BY CountOne
  <2>4. TypeInv /\ UNCHANGED <<seat_owner, escrow>>
    BY DEF BooksInv
  <2> DEFINE who == {s}
  <2> HIDE DEF b, who
  <2>5. who \in SUBSET Seats /\ count_b(who) <= IF stakes = zeros THEN 2 ELSE 1
    <3>1. count_b(who) \in Int
      BY <2>3, CountB DEF who
    <3> QED
      BY <2>3, <3>1 DEF who
  <2>6. \A i \in Seats : /\ stakes'[i] = stakes[i] + b[i] /\ claims'[i] = claims[i] - b[i]
                         /\ b[i] # 0 => i \in who /\ claims'[i] >= BOND
    BY <2>2 DEF who
  <2> QED
    BY <1>6, <2>4, <2>5, <2>6, BetShape
<1>8. CASE /\ count_b(live(f)) = 1
           /\ stack' = [paid EXCEPT ![last_in] = @ + sum_u(tot)]
           /\ phase' = "done"
  <2>1. live(f) \in SUBSET Seats /\ live(f) # {}
    <3>1. live(f) \in SUBSET Seats
      BY DEF live, BooksInv, TypeInv, TypeOK, RosterTypes
    <3>2. count_b(live(f)) # 0
      BY <1>8
    <3> HIDE DEF f
    <3> QED
      BY <3>1, <3>2, CountB
  <2>2. last_in \in live(f) /\ \A i \in live(f) : last_in = i
    <3>1. ASSUME NEW i \in live(f), NEW j \in live(f), i # j PROVE FALSE
      <4>1. {i} \in SUBSET Seats /\ j \in Seats \ {i} /\ {i} \cup {j} \in SUBSET live(f)
        BY <2>1, <3>1
      <4>2. count_b({i} \cup {j}) = count_b({i}) + 1 /\ count_b({i}) \in Int
            /\ count_b({i}) # 0
        BY <4>1, CountAdd, CountB
      <4>3. count_b({i} \cup {j}) <= count_b(live(f)) /\ count_b({i}) \in 0..6
        BY <2>1, <4>1, CountPart, CountB
      <4>4. count_b(live(f)) = 1
        BY <1>8
      <4> HIDE DEF f
      <4>5. \A m, n \in Int : ~(m \in 0..6 /\ m # 0 /\ n = m + 1 /\ n <= 1)
        OBVIOUS
      <4>6. count_b({i} \cup {j}) \in Int /\ count_b({i} \cup {j}) <= 1
        BY <4>2, <4>3, <4>4
      <4> QED
        BY <4>2, <4>3, <4>5, <4>6
    <3>2. last_in \in live(f)
      BY <2>1, FirstIn
    <3> QED
      BY <3>1, <3>2
  <2>3. s # last_in => amount = 0
    <3>1. s \notin live(f) => kind = 0
      BY DEF live
    <3> QED
      BY <1>2, <2>2, <3>1
  <2>4. sum_u(tot) \in Nat /\ amount <= sum_u(tot) /\ tot \in [Seats -> Nat]
    <3>1. tot \in [Seats -> Nat] /\ amount <= tot[s]
      BY <1>1, <1>4
    <3> HIDE DEF tot
    <3>2. sum_u(tot) \in Nat /\ tot[s] <= sum_u(tot)
      BY <3>1, SumU
    <3> QED
      BY <1>1, <3>1, <3>2
  <2> HIDE DEF last_in, tot, f
  <2>5. ASSUME NEW i \in Seats PROVE stack'[i] >= stack[i] /\ stack'[i] \in Int
    <3>1. CASE i = s /\ i = last_in
      <4>1. stack'[i] = (stack[i] - amount) + sum_u(tot)
        BY <1>4, <1>8, <3>1
      <4> QED
        BY <1>1, <1>4, <2>4, <4>1
    <3>2. CASE i = s /\ i # last_in
      <4>1. stack'[i] = stack[i] - amount
        BY <1>4, <1>8, <3>2
      <4> QED
        BY <1>4, <2>3, <3>2, <4>1
    <3>3. CASE i # s
      <4>1. stack'[i] = IF i = last_in THEN stack[i] + sum_u(tot) ELSE stack[i]
        BY <1>4, <1>8, <3>3
      <4> QED
        BY <1>4, <2>4, <4>1
    <3> QED
      BY <3>1, <3>2, <3>3
  <2>6. \A i \in Seats : claims'[i] >= claims[i]
    BY <1>4, <1>5, <2>5 DEF claims
  <2>7. ~dealing'
    BY <1>8 DEF dealing
  <2> QED
    BY <1>5, <2>6, <2>7, DivideShape
<1>9. CASE /\ stack' = paid
           /\ UNCHANGED phase \/ close_street(now, street, actors(f, a))
  <2>1. phase' \notin {"idle", "done"}
    BY <1>9 DEF close_street
  <2> QED
    BY <1>7, <1>9, <2>1
<1> QED
  BY <1>8, <1>9 DEF apply_action, amount

LEMMA BetCustody ==
    ASSUME BooksInv, BooksInv', PotOpen, NEW p \in Players, BetCall(p)
    PROVE  Custody!Bet \/ Custody!Divide
<1>1. PICK s \in Seats, kind \in Kinds, now \in Times :
          \E t \in IF kind = 2 THEN Amounts ELSE {0} :
              act(p, s, kind, t, now) \/ act_out(p, s, kind, t, now)
  BY DEF BetCall
<1>2. PICK t \in Nat : act(p, s, kind, t, now) \/ act_out(p, s, kind, t, now)
  BY <1>1, InputsAssumption
<1>3. bank_left(s, now) \in [Seats -> Nat]
  BY BankLeftTypes DEF BooksInv
<1>4. phase = "playing" /\ s = to_act /\ legal_action(s, kind, t)
  BY <1>2 DEF act, act_asserts, act_out, act_out_asserts, act_check
<1>5. s \in in_deal
  <2>1. NONE \notin Seats
    BY DEF NONE, Seats
  <2> QED
    BY <1>4, <2>1 DEF BooksInv, RolesInDeal
<1>6. UNCHANGED <<escrow, seat_owner, in_deal>>
  BY <1>2 DEF act, act_asserts, act_out, act_out_asserts, seatVars, rosterVars
<1>7. PICK out \in BOOLEAN : apply_action(s, kind, t, out, now, bank_left(s, now))
  BY <1>2 DEF act, act_asserts, act_out, act_out_asserts
<1> QED
  BY <1>3, <1>4, <1>5, <1>6, <1>7, ActionCustody

------------------------------------------------------------------------------
(* A deal has chips in its pot. *)

LEMMA PotKept ==
    ASSUME PotOpen, dealing' => dealing /\ UNCHANGED total,
           UNCHANGED <<next_prep, next_in_deal>>
    PROVE  PotOpen'
  BY DEF PotOpen

LEMMA BeginPrepForTwo ==
    ASSUME NEW now, NEW present, begin_prep(now, present)
    PROVE  next_prep' # "none" => count_b(next_in_deal') >= 2
  BY DEF begin_prep

LEMMA StartDealPot ==
    ASSUME BooksInv, PotOpen, NEW now \in Times, start_deal(now)
    PROVE  PotOpen'
<1> DEFINE v == IF prepared THEN next_in_deal ELSE players_present
           d == IF dealer = NONE THEN first_in(v) ELSE next_round(v, dealer)
           bb == big_blind(v, d)
<1>1. v \in SUBSET Seats /\ v \subseteq players_present
  BY PresentSeats DEF prepared
<1>2. v # {}
  <2>1. count_b(v) >= 2
    BY DEF start_deal, start_deal_asserts, prepared, PotOpen
  <2> QED
    BY <2>1, CountB
<1>3. d \in v
  BY <1>1, <1>2, FirstIn, NextRound
<1>4. bb \in v
  <2>1. small_blind(v, d) \in v
    BY <1>1, <1>2, <1>3, NextRound DEF small_blind
  <2> QED
    BY <1>1, <1>2, <2>1, NextRound DEF big_blind
<1>5. total' = blinds(v, d)
  BY DEF start_deal, start_deal_asserts
<1> HIDE DEF v, d
<1>6. bb \in Seats /\ stack[bb] > 0 /\ stack[bb] \in Nat
  BY <1>1, <1>4 DEF players_present, occupied, BooksInv, TypeInv, TypeOK, MoneyTypes
<1>7. blinds(v, d)[bb] = min_u(BIG_BLIND, stack[bb])
  BY <1>6 DEF blinds
<1>8. min_u(BIG_BLIND, stack[bb]) > 0
  BY <1>6, StakesAssumption DEF min_u
<1>9. next_prep' # "none" => count_b(next_in_deal') >= 2
  BY BeginPrepForTwo DEF start_deal, start_deal_asserts
<1> QED
  BY <1>5, <1>6, <1>7, <1>8, <1>9 DEF PotOpen

LEMMA BetPot ==
    ASSUME BooksInv, PotOpen, NEW p \in Players, BetCall(p)
    PROVE  PotOpen'
<1>1. PICK s \in Seats, kind \in Kinds, now \in Times :
          \E t \in IF kind = 2 THEN Amounts ELSE {0} :
              act(p, s, kind, t, now) \/ act_out(p, s, kind, t, now)
  BY DEF BetCall
<1>2. PICK t \in Nat : act(p, s, kind, t, now) \/ act_out(p, s, kind, t, now)
  BY <1>1, InputsAssumption
<1> DEFINE amount == action_amount(s, kind, t)
<1>3. legal_action(s, kind, t) /\ phase = "playing"
      /\ total' = [total EXCEPT ![s] = @ + amount] /\ UNCHANGED nextVars
  BY <1>2 DEF act, act_asserts, act_out, act_out_asserts, act_check, apply_action
<1>4. amount \in Nat
  BY <1>3, LegalAmount DEF BooksInv
<1> HIDE DEF amount
<1>5. PICK k \in Seats : total[k] > 0
  BY <1>3 DEF PotOpen, dealing
<1>6. total'[k] > 0
  BY <1>3, <1>4, <1>5 DEF BooksInv, TypeInv, TypeOK, PotTypes
<1> QED
  BY <1>3, <1>6 DEF PotOpen, nextVars

------------------------------------------------------------------------------
(* The whole table. *)

LEMMA CustodyInitially == FreshTable => CustodyInv
<1> SUFFICES ASSUME FreshTable PROVE CustodyInv
  OBVIOUS
<1>1. next_prep = "none" /\ ~dealing
  BY DEF FreshTable, NeverDealt, dealing
<1>2. PotOpen
  BY <1>1 DEF PotOpen
<1> QED
  BY <1>2, BooksInitially, DeadlineInitially DEF CustodyInv, DeadlineInv

LEMMA EmptyCustody == Init => Custody!CustodyInit
<1> SUFFICES ASSUME Init PROVE Custody!CustodyInit
  OBVIOUS
<1>1. seat_owner = no_keys /\ escrow = 0 /\ phase = "idle"
  BY DEF Init, NeverDealt
<1>2. occupied = {} /\ ~dealing
  BY <1>1 DEF occupied, no_keys, dealing
<1>3. claims = zeros /\ stakes = zeros
  BY <1>2 DEF claims, stakes, zeros
<1> QED
  BY <1>1, <1>3, CustodyVectors DEF Custody!CustodyInit, no_keys

\* Cards, keys and shares move no chips and end no deal.
LEMMA CardsMoveNoChips ==
    ASSUME NEW p \in Players, CardCall(p)
    PROVE  /\ UNCHANGED <<seat_owner, stack, escrow, total, next_prep, next_in_deal>>
           /\ dealing' = dealing
<1>1. ASSUME NEW s \in Seats, NEW now \in Times, post_key(p, s, now)
      PROVE  /\ UNCHANGED <<seat_owner, stack, escrow, total, next_prep, next_in_deal>>
             /\ dealing' = dealing
  BY <1>1 DEF post_key, post_key_asserts, seatVars, moneyVars, potVars, nextVars, dealing
<1>2. ASSUME NEW s \in Seats, NEW now \in Times, shuffle(p, s, now)
      PROVE  /\ UNCHANGED <<seat_owner, stack, escrow, total, next_prep, next_in_deal>>
             /\ dealing' = dealing
  BY <1>2 DEF shuffle, shuffle_asserts, seatVars, moneyVars, potVars, nextVars, dealing
<1>3. ASSUME NEW s \in Seats, NEW now \in Times, NEW ps \in share_batches(s),
             shares(p, s, ps, now)
      PROVE  /\ UNCHANGED <<seat_owner, stack, escrow, total, next_prep, next_in_deal>>
             /\ dealing' = dealing
  <2>1. phase = "holes" /\ phase' \in {"holes", "playing", "tabling"}
    BY <1>3 DEF shares, shares_asserts, begin_betting, stageVars
  <2> QED
    BY <1>3, <2>1 DEF shares, shares_asserts, seatVars, moneyVars, potVars, nextVars, dealing
<1>4. ASSUME NEW s \in Seats, NEW now \in Times, release(p, s, now)
      PROVE  /\ UNCHANGED <<seat_owner, stack, escrow, total, next_prep, next_in_deal>>
             /\ dealing' = dealing
  <2>1. phase = "release" /\ phase' \notin {"idle", "done"}
    BY <1>4 DEF release, release_asserts, resume_betting, close_street, stageVars
  <2> QED
    BY <1>4, <2>1 DEF release, release_asserts, seatVars, moneyVars, potVars, nextVars, dealing
<1>5. ASSUME NEW s \in Seats, NEW now \in Times, show(p, s, now)
      PROVE  /\ UNCHANGED <<seat_owner, stack, escrow, total, next_prep, next_in_deal>>
             /\ dealing' = dealing
  <2>1. UNCHANGED phase \/ (phase = "tabling" /\ phase' \notin {"idle", "done"})
    BY <1>5 DEF show, show_asserts, run_out
  <2> QED
    BY <1>5, <2>1 DEF show, show_asserts, seatVars, moneyVars, potVars, nextVars, dealing
<1>6. ASSUME NEW s \in Seats, NEW score \in Scores, NEW now \in Times,
             show_hand(p, s, score, now)
      PROVE  /\ UNCHANGED <<seat_owner, stack, escrow, total, next_prep, next_in_deal>>
             /\ dealing' = dealing
  BY <1>6 DEF show_hand, show_hand_asserts, seatVars, moneyVars, potVars, stageVars, nextVars, dealing
<1> QED
  BY <1>1, <1>2, <1>3, <1>4, <1>5, <1>6 DEF CardCall

LEMMA CustodyPreserved == CustodyInv /\ [Next]_vars => CustodyInv'
<1> SUFFICES ASSUME CustodyInv, [Next]_vars PROVE CustodyInv'
  OBVIOUS
<1>0. BooksInv /\ DeadlineWhileDealing /\ PotOpen
  BY DEF CustodyInv
<1>1. BooksInv' /\ DeadlineWhileDealing'
  BY <1>0, BooksPreserved, DeadlinePreserved DEF DeadlineInv, BooksInv
<1>2. PotOpen'
  <2>1. CASE Tick \/ UNCHANGED vars
    BY <1>0, <2>1, PotKept DEF Tick, vars, stageVars, potVars, nextVars, dealing
  <2>2. ASSUME NEW now \in Times, start_deal(now) PROVE PotOpen'
    BY <1>0, <2>2, StartDealPot
  <2>3. ASSUME NEW now \in Times, expire_next(now) PROVE PotOpen'
    <3>1. next_prep' # "none" => count_b(next_in_deal') >= 2
      BY <2>3, BeginPrepForTwo DEF expire_next
    <3>2. ~dealing'
      BY <2>3 DEF expire_next, stageVars, dealing
    <3> QED
      BY <3>1, <3>2 DEF PotOpen
  <2>4. CASE settle \/ expire \/ settle_abort
    <3>1. UNCHANGED <<total, next_prep, next_in_deal>>
      BY <2>4 DEF settle, settle_asserts, expire, settle_abort, settle_abort_asserts, potVars, nextVars
    <3>2. dealing' => dealing
      BY <1>0, <2>4 DEF settle, settle_asserts, expire, settle_abort, settle_abort_asserts, dealing,
                        DeadlineWhileDealing
    <3> QED
      BY <1>0, <3>1, <3>2, PotKept
  <2>5. ASSUME NEW p \in Players, SeatCall(p) PROVE PotOpen'
    <3>1. UNCHANGED <<total, next_prep, next_in_deal, phase>>
      BY <2>5 DEF SeatCall, join, stand_up, buy_in, leave, potVars, nextVars, stageVars
    <3> QED
      BY <1>0, <3>1, PotKept DEF dealing
  <2>6. ASSUME NEW p \in Players, PrepCall(p) PROVE PotOpen'
    <3>1. /\ UNCHANGED <<total, phase, next_in_deal>>
          /\ next_prep # "none"
      BY <2>6 DEF PrepCall, post_next_key, post_next_key_asserts, shuffle_next, shuffle_next_asserts,
                  potVars, stageVars
    <3> QED
      BY <1>0, <3>1 DEF PotOpen, dealing
  <2>7. ASSUME NEW p \in Players, CardCall(p) PROVE PotOpen'
    BY <1>0, <2>7, CardsMoveNoChips, PotKept
  <2>8. ASSUME NEW p \in Players, BetCall(p) PROVE PotOpen'
    BY <1>0, <2>8, BetPot
  <2> QED
    BY <2>1, <2>2, <2>3, <2>4, <2>5, <2>6, <2>7, <2>8 DEF Next, Call, TableCall
<1> QED
  BY <1>1, <1>2 DEF CustodyInv

\* Every step of the contract is one of TableCustody's, or none.
LEMMA CustodyStep ==
    CustodyInv /\ CustodyInv' /\ [Next]_vars => [Custody!CustodyNext]_(Custody!custodyVars)
<1> SUFFICES ASSUME CustodyInv, CustodyInv', [Next]_vars
             PROVE  \/ UNCHANGED Custody!custodyVars
                    \/ \E s \in Seats : \/ Custody!SitDown(s) \/ Custody!TopUp(s)
                                        \/ Custody!GoHome(s) \/ Custody!Evict(s)
                    \/ Custody!Bet \/ Custody!Divide
  BY CustodyVectors DEF Custody!CustodyNext
<1>0. BooksInv /\ BooksInv' /\ TypeInv' /\ PotOpen /\ DeadlineWhileDealing
  BY DEF CustodyInv, BooksInv
<1>1. CASE Tick \/ UNCHANGED vars
  BY <1>1, CustodyQuiet
     DEF Tick, vars, seatVars, moneyVars, stageVars, potVars, dealing
<1>2. ASSUME NEW now \in Times, start_deal(now) PROVE Custody!Bet
  BY <1>0, <1>2, BlindsPaid
<1>3. ASSUME NEW now \in Times, expire_next(now)
      PROVE  \/ UNCHANGED Custody!custodyVars
             \/ \E s \in Seats : Custody!Evict(s)
  BY <1>0, <1>3, ExpireNextCustody
<1>4. CASE settle
  BY <1>0, <1>4, SettleCustody
<1>5. CASE expire
  <2>1. UNCHANGED <<seat_owner, stack, escrow, total>>
    BY <1>5 DEF expire, seatVars, moneyVars, potVars
  <2>2. dealing' = dealing
    BY <1>0, <1>5 DEF expire, dealing, DeadlineWhileDealing
  <2> QED
    BY <2>1, <2>2, CustodyQuiet
<1>6. CASE settle_abort
  BY <1>0, <1>6, SettleAbortCustody
<1>7. ASSUME NEW p \in Players, SeatCall(p)
      PROVE  \/ UNCHANGED Custody!custodyVars
             \/ \E s \in Seats : Custody!SitDown(s) \/ Custody!TopUp(s) \/ Custody!GoHome(s)
  <2>1. ASSUME NEW s \in Seats, NEW up \in BOOLEAN, stand_up(p, s, up)
        PROVE  UNCHANGED Custody!custodyVars
    BY <2>1, CustodyQuiet DEF stand_up, moneyVars, stageVars, potVars, dealing
  <2> QED
    BY <1>0, <1>7, <2>1, JoinCustody, BuyInCustody, LeaveCustody DEF SeatCall
<1>8. ASSUME NEW p \in Players, PrepCall(p) PROVE UNCHANGED Custody!custodyVars
  <2>1. UNCHANGED <<seat_owner, stack, escrow, total, phase>>
    BY <1>8 DEF PrepCall, post_next_key, post_next_key_asserts, shuffle_next, shuffle_next_asserts,
                seatVars, moneyVars, potVars, stageVars
  <2> QED
    BY <2>1, CustodyQuiet DEF dealing
<1>9. ASSUME NEW p \in Players, CardCall(p) PROVE UNCHANGED Custody!custodyVars
  BY <1>9, CardsMoveNoChips, CustodyQuiet
<1>10. ASSUME NEW p \in Players, BetCall(p) PROVE Custody!Bet \/ Custody!Divide
  BY <1>0, <1>10, BetCustody
<1> QED
  BY <1>1, <1>2, <1>3, <1>4, <1>5, <1>6, <1>7, <1>8, <1>9, <1>10 DEF Next, Call, TableCall

\* Whatever circuits are called, in whatever order, money at the table changes hands
\* only as TableCustody says: the contract implements that specification.
THEOREM CustodyKept == Spec => KeepsCustody
  BY EmptyTable, EmptyCustody, CustodyInitially, CustodyPreserved, CustodyStep, PTL
     DEF Spec, KeepsCustody, Custody!CustodySpec

-------------------------------------------------------------------------------
(* What a showdown pays. *)

\* What a function of chips rises by from the level below seat j's to j's own.
rise(g, j) == g[total[j]] - g[level_below(j)]

\* What it rises by through all the levels up to x.
climb(g, x) ==
    sum_u([j \in Seats |-> IF j \in level_seats /\ total[j] <= x THEN rise(g, j) ELSE 0])

\* Every live player's total is a level, which one seat stands for.
LEMMA LevelSeat ==
    ASSUME TypeInv, NEW k \in live(folded)
    PROVE  \E j \in level_seats :
              /\ total[j] = total[k] /\ level_below(j) = level_below(k)
              /\ \A i \in level_seats : total[i] = total[k] => i = j
<1> DEFINE w == {j \in live(folded) : total[j] = total[k]}
<1>1. w \in SUBSET Seats /\ k \in w
  BY DEF live, TypeInv, TypeOK, RosterTypes
<1>2. first_in(w) \in w /\ \A i \in w : first_in(w) <= i
  BY <1>1, FirstIn
<1>3. PICK j \in w : \A i \in w : j <= i
  BY <1>2
<1>4. j \in level_seats
  BY <1>3 DEF level_seats
<1>5. level_below(j) = level_below(k)
  <2>1. total[j] = total[k]
    BY <1>3
  <2>2. ASSUME NEW y \in {j, k}
        PROVE  /\ level_below(y) \in Nat
               /\ \/ level_below(y) = 0
                  \/ \E m \in live(folded) : total[m] = level_below(y) /\ total[m] < total[k]
               /\ \A m \in live(folded) : total[m] < total[k] => total[m] <= level_below(y)
    <3>1. y \in Seats /\ total[y] = total[k]
      BY <1>1, <1>3, <2>1
    <3> QED
      BY <3>1, LevelBelow
  <2>3. level_below(j) <= level_below(k)
    BY <2>2
  <2>4. level_below(k) <= level_below(j)
    BY <2>2
  <2> QED
    BY <2>2, <2>3, <2>4
<1>6. ASSUME NEW i \in level_seats, total[i] = total[k] PROVE i = j
  <2>1. i \in w /\ i <= j
    BY <1>3, <1>6 DEF level_seats
  <2>2. j <= i /\ i \in Int /\ j \in Int
    BY <1>1, <1>3, <2>1 DEF Seats
  <2> QED
    BY <2>1, <2>2
<1> QED
  BY <1>3, <1>4, <1>5, <1>6

\* Climbing to a live player's level is climbing to the one below, and from there.
LEMMA OneLevelUp ==
    ASSUME TypeInv, NEW g \in [Nat -> Int], NEW k \in live(folded), NEW x \in Int,
           x < total[k],
           \A i \in live(folded) : total[i] < total[k] => total[i] <= x
    PROVE  climb(g, total[k]) = climb(g, x) + rise(g, k)
<1> DEFINE f == [j \in Seats |-> IF j \in level_seats /\ total[j] <= x THEN rise(g, j) ELSE 0]
           h == [j \in Seats |-> IF j \in level_seats /\ total[j] <= total[k]
                                 THEN rise(g, j) ELSE 0]
<1>1. total \in [Seats -> Nat] /\ live(folded) \in SUBSET Seats
      /\ level_seats \in SUBSET live(folded)
  BY DEF level_seats, live, TypeInv, TypeOK, PotTypes, RosterTypes
<1>2. \A j \in Seats : rise(g, j) \in Int
  <2> SUFFICES ASSUME NEW j \in Seats PROVE rise(g, j) \in Int
    OBVIOUS
  <2>1. total[j] \in Nat /\ level_below(j) \in Nat
    BY <1>1, LevelBelow
  <2>2. g[total[j]] \in Int /\ g[level_below(j)] \in Int
    BY <2>1
  <2> QED
    BY <2>2 DEF rise
<1>3. PICK a \in level_seats :
          /\ total[a] = total[k] /\ level_below(a) = level_below(k)
          /\ \A i \in level_seats : total[i] = total[k] => i = a
  BY LevelSeat
<1> DEFINE d == [i \in Seats |-> IF i = a THEN rise(g, k) ELSE 0]
<1>4. a \in Seats /\ k \in Seats /\ rise(g, a) = rise(g, k)
  BY <1>1, <1>3 DEF rise
<1>5. f \in [Seats -> Int] /\ h \in [Seats -> Int] /\ d \in [Seats -> Int]
  BY <1>2, <1>4
<1>6. ASSUME NEW j \in Seats PROVE h[j] = f[j] + d[j]
  <2>1. CASE j = a
    <3>1. ~(total[j] <= x) /\ total[j] <= total[k]
      BY <1>1, <1>3, <1>4, <2>1
    <3>2. h[j] = rise(g, k) /\ f[j] = 0 /\ d[j] = rise(g, k)
      BY <1>3, <1>4, <2>1, <3>1
    <3> QED
      BY <1>2, <1>4, <3>2
  <2>2. CASE j # a
    <3>1. j \in level_seats => (total[j] <= x <=> total[j] <= total[k])
      <4> SUFFICES ASSUME j \in level_seats PROVE total[j] <= x <=> total[j] <= total[k]
        OBVIOUS
      <4>1. total[j] # total[k] /\ j \in live(folded)
        BY <1>1, <1>3, <2>2
      <4>2. total[j] \in Nat /\ total[k] \in Nat
        BY <1>1, <1>4
      <4> QED
        BY <4>1, <4>2
    <3>2. h[j] = f[j] /\ d[j] = 0 /\ f[j] \in Int
      BY <1>5, <2>2, <3>1
    <3> QED
      BY <3>2
  <2> QED
    BY <2>1, <2>2
<1>7. climb(g, x) = sum_u(f) /\ climb(g, total[k]) = sum_u(h)
  BY DEF climb
<1>8. sum_u(d) = rise(g, k)
  BY <1>2, <1>4, SumOne
<1> HIDE DEF f, h, d
<1> QED
  BY <1>5, <1>6, <1>7, <1>8, SumDelta

\* Through all the levels up to a live player's, a function rises from its value
\* with no chips to its value with theirs.
LEMMA Telescope ==
    ASSUME TypeInv, NEW g \in [Nat -> Int], NEW k \in live(folded)
    PROVE  climb(g, total[k]) = g[total[k]] - g[0]
<1> DEFINE telescopes(i) == climb(g, total[i]) = g[total[i]] - g[0]
           bad == {i \in live(folded) : ~telescopes(i)}
<1>1. total \in [Seats -> Nat] /\ live(folded) \in SUBSET Seats
  BY DEF live, TypeInv, TypeOK, PotTypes, RosterTypes
<1> SUFFICES ASSUME bad # {} PROVE FALSE
  OBVIOUS
<1>2. PICK m \in bad : \A i \in bad : total[m] <= total[i]
  <2>1. bad \in SUBSET Seats /\ total \in [Seats -> Int]
    BY <1>1
  <2> HIDE DEF bad
  <2> QED
    BY <2>1, LeastExists DEF Least
<1>3. m \in live(folded) /\ m \in Seats /\ total[m] \in Nat /\ ~telescopes(m)
  BY <1>1
<1>4. \A i \in live(folded) : total[i] < total[m] => telescopes(i)
  <2> SUFFICES ASSUME NEW i \in live(folded), total[i] < total[m], ~telescopes(i) PROVE FALSE
    OBVIOUS
  <2>1. total[m] <= total[i] /\ total[i] \in Nat
    BY <1>1, <1>2
  <2> QED
    BY <1>3, <2>1
<1> HIDE DEF bad
<1>5. /\ level_below(m) \in Nat
      /\ \/ level_below(m) = 0
         \/ \E i \in live(folded) : total[i] = level_below(m) /\ total[i] < total[m]
      /\ \A i \in live(folded) : total[i] < total[m] => total[i] <= level_below(m)
  BY <1>3, LevelBelow
<1>6. rise(g, m) = g[total[m]] - g[level_below(m)]
  BY DEF rise
<1>7. CASE \E i \in live(folded) : total[i] < total[m]
  <2>1. PICK i \in live(folded) : total[i] = level_below(m) /\ total[i] < total[m]
    <3>1. PICK y \in live(folded) : total[y] < total[m]
      BY <1>7
    <3>2. total[y] <= level_below(m) /\ total[y] \in Nat
      BY <1>1, <1>5, <3>1
    <3>3. level_below(m) = 0 => total[y] = level_below(m)
      BY <3>2
    <3> QED
      BY <1>5, <3>1, <3>3
  <2>2. climb(g, total[m]) = climb(g, total[i]) + rise(g, m)
    <3>1. total[i] \in Int /\ \A y \in live(folded) : total[y] < total[m] => total[y] <= total[i]
      BY <1>5, <2>1
    <3> QED
      BY <1>3, <2>1, <3>1, OneLevelUp
  <2>3. climb(g, total[i]) = g[total[i]] - g[0]
    BY <1>4, <2>1
  <2>4. g[total[i]] \in Int /\ g[0] \in Int /\ g[total[m]] \in Int
    BY <1>1, <1>3
  <2> QED
    BY <1>3, <1>6, <2>1, <2>2, <2>3, <2>4
<1>8. CASE ~ \E i \in live(folded) : total[i] < total[m]
  <2>1. climb(g, total[m]) = climb(g, -1) + rise(g, m)
    <3>1. -1 \in Int /\ -1 < total[m]
      BY <1>3
    <3> QED
      BY <1>3, <1>8, <3>1, OneLevelUp
  <2>2. climb(g, -1) = 0
    <3> DEFINE f == [j \in Seats |-> IF j \in level_seats /\ total[j] <= -1
                                     THEN rise(g, j) ELSE 0]
    <3>1. \A j \in Seats : f[j] = 0
      BY <1>1
    <3>2. climb(g, -1) = sum_u(f)
      BY DEF climb
    <3> HIDE DEF f
    <3> QED
      BY <3>1, <3>2 DEF sum_u, Seats
  <2>3. level_below(m) = 0
    BY <1>5, <1>8
  <2>4. g[0] \in Int /\ g[total[m]] \in Int
    BY <1>1, <1>3
  <2> QED
    BY <1>3, <1>6, <2>1, <2>2, <2>3, <2>4
<1> QED
  BY <1>7, <1>8

------------------------------------------------------------------------------
(* What a level holds, and what it pays. *)

\* Everyone's chips up to height x.
heaped == [x \in Nat |-> sum_u([i \in Seats |-> IF i \in in_deal THEN min_u(total[i], x) ELSE 0])]

LEMMA Heaped ==
    ASSUME TypeInv
    PROVE  /\ heaped \in [Nat -> Int] /\ heaped[0] >= 0
           /\ \A w \in Seats : heaped[total[w]] <= sum_u([s \in Seats |-> min_u(total[s], total[w])])
<1>1. total \in [Seats -> Nat]
  BY DEF TypeInv, TypeOK, PotTypes
<1>2. ASSUME NEW x \in Nat
      PROVE  /\ heaped[x] \in Nat
             /\ heaped[x] <= sum_u([s \in Seats |-> min_u(total[s], x)])
  <2> DEFINE f == [i \in Seats |-> IF i \in in_deal THEN min_u(total[i], x) ELSE 0]
             h == [s \in Seats |-> min_u(total[s], x)]
  <2>1. \A i \in Seats : min_u(total[i], x) \in Nat
    BY <1>1 DEF min_u
  <2>2. f \in [Seats -> Nat] /\ h \in [Seats -> Nat] /\ \A i \in Seats : f[i] <= h[i]
    BY <2>1
  <2>3. heaped[x] = sum_u(f)
    BY DEF heaped
  <2> HIDE DEF f, h
  <2>4. f \in [Seats -> Int] /\ h \in [Seats -> Int]
    BY <2>2
  <2>5. sum_u(f) \in Nat /\ sum_u(f) <= sum_u(h)
    BY <2>2, <2>4, SumU, SumLeq
  <2> QED
    BY <2>3, <2>5 DEF h
<1>3. heaped = [x \in Nat |-> heaped[x]]
  BY DEF heaped
<1>4. \A x \in Nat : heaped[x] \in Nat
  BY <1>2
<1>5. heaped \in [Nat -> Int] /\ heaped[0] >= 0
  <2> HIDE DEF heaped
  <2>1. heaped \in [Nat -> Nat]
    BY <1>3, <1>4
  <2> QED
    BY <2>1
<1>6. \A w \in Seats : heaped[total[w]] <= sum_u([s \in Seats |-> min_u(total[s], total[w])])
  BY <1>1, <1>2
<1> QED
  BY <1>5, <1>6

\* A level's layer is what the heap rises by.
LEMMA LayerRise ==
    ASSUME TypeInv, NEW j \in Seats
    PROVE  layer(j) = rise(heaped, j)
<1> DEFINE low == level_below(j)
           cut(x) == [i \in Seats |-> IF i \in in_deal THEN min_u(total[i], x) ELSE 0]
           part == [i \in Seats |->
             IF i \in in_deal THEN min_u(total[i], total[j]) - min_u(total[i], low) ELSE 0]
<1>1. total \in [Seats -> Nat] /\ low \in Nat /\ total[j] \in Nat
  BY LevelBelow DEF TypeInv, TypeOK, PotTypes
<1>2. layer(j) = sum_u(part)
  BY DEF layer
<1>3. \A i \in Seats : min_u(total[i], low) \in Int /\ min_u(total[i], total[j]) \in Int
  <2> SUFFICES ASSUME NEW i \in Seats
               PROVE  min_u(total[i], low) \in Int /\ min_u(total[i], total[j]) \in Int
    OBVIOUS
  <2>1. total[i] \in Int /\ low \in Int /\ total[j] \in Int
    BY <1>1
  <2> HIDE DEF low
  <2> QED
    BY <2>1 DEF min_u
<1>4. heaped[low] = sum_u(cut(low)) /\ heaped[total[j]] = sum_u(cut(total[j]))
  BY <1>1 DEF heaped
<1> HIDE DEF low
<1>5. cut(low) \in [Seats -> Int] /\ cut(total[j]) \in [Seats -> Int] /\ part \in [Seats -> Int]
  BY <1>3
<1>6. ASSUME NEW i \in Seats PROVE cut(total[j])[i] = cut(low)[i] + part[i]
  <2>1. min_u(total[i], low) \in Int /\ min_u(total[i], total[j]) \in Int
    BY <1>3
  <2>2. CASE i \in in_deal
    BY <2>1, <2>2
  <2>3. CASE i \notin in_deal
    BY <2>3
  <2> QED
    BY <2>2, <2>3
<1> HIDE DEF cut, part
<1>7. sum_u(cut(total[j])) = sum_u(cut(low)) + sum_u(part)
  BY <1>5, <1>6, SumDelta
<1>8. sum_u(cut(low)) \in Int /\ sum_u(part) \in Int
  BY <1>5, SumLeq
<1> QED
  BY <1>2, <1>4, <1>7, <1>8 DEF rise, low

\* A winner of a level takes at least their own slice of it.
LEMMA WinnersSlice ==
    ASSUME TypeInv, NEW j \in Seats, NEW w \in winners(j)
    PROVE  level_pay(j, w) >= total[j] - level_below(j)
<1> DEFINE low == level_below(j)
           n == count_b(winners(j))
           place == count_b({m \in winners(j) : clockwise(dealer, m) < clockwise(dealer, w)})
           slice == total[j] - low
           part == [i \in Seats |->
             IF i \in in_deal THEN min_u(total[i], total[j]) - min_u(total[i], low) ELSE 0]
           slices == [i \in Seats |-> IF i \in winners(j) THEN slice ELSE 0]
<1>1. total \in [Seats -> Nat] /\ low \in Nat /\ total[j] \in Nat /\ low <= total[j]
  BY LevelBelow DEF TypeInv, TypeOK, PotTypes
<1>2. /\ winners(j) \in SUBSET Seats
      /\ \A i \in winners(j) : i \in in_deal /\ total[i] >= total[j]
  BY DEF winners, live, TypeInv, TypeOK, RosterTypes
<1>3. n \in 1..6
  BY <1>2, CountB
<1>4. layer(j) \in Nat /\ layer(j) = sum_u(part)
  BY LayerTypes DEF layer
<1>5. level_pay(j, w) = layer(j) \div n + (IF place < layer(j) % n THEN 1 ELSE 0)
  BY DEF level_pay
<1>6. ASSUME NEW i \in Seats
      PROVE  part[i] \in Int /\ slices[i] \in Int /\ slices[i] <= part[i]
  <2>1. total[i] \in Nat /\ total[j] \in Nat /\ low \in Nat /\ low <= total[j]
    BY <1>1
  <2>2. i \in winners(j) => i \in in_deal /\ total[i] >= total[j]
    BY <1>2
  <2> HIDE DEF low
  <2>3. min_u(total[i], total[j]) - min_u(total[i], low) \in Nat
    BY <2>1 DEF min_u
  <2>4. i \in winners(j) => min_u(total[i], total[j]) - min_u(total[i], low) = slice
    BY <2>1, <2>2 DEF min_u
  <2>5. slice \in Int
    BY <2>1
  <2> HIDE DEF slice
  <2> QED
    BY <2>2, <2>3, <2>4, <2>5
<1>7. sum_u(slices) = slice * n
  <2>1. slice \in Int
    BY <1>1
  <2> HIDE DEF slice
  <2> QED
    BY <1>2, <2>1, SumScale
<1>8. slice * n <= layer(j)
  <2> HIDE DEF part, slices, slice, n
  <2>1. part = [i \in Seats |-> part[i]] /\ slices = [i \in Seats |-> slices[i]]
    BY DEF part, slices
  <2>2. part \in [Seats -> Int] /\ slices \in [Seats -> Int]
    BY <1>6, <2>1
  <2> QED
    BY <1>4, <1>6, <1>7, <2>2, SumLeq
<1>9. ASSUME NEW L \in Nat, NEW k \in 1..6, NEW d \in Int, d * k <= L
      PROVE  L \div k >= d /\ L \div k \in Int
  <2>1. k = 1 \/ k = 2 \/ k = 3 \/ k = 4 \/ k = 5 \/ k = 6
    OBVIOUS
  <2> QED
    BY <1>9, <2>1, Z3
<1>10. layer(j) \div n >= slice /\ layer(j) \div n \in Int /\ slice \in Int
  <2>1. slice \in Int
    BY <1>1
  <2> HIDE DEF slice, n
  <2> QED
    BY <1>3, <1>4, <1>8, <1>9, <2>1
<1> HIDE DEF n, place, slice
<1>11. level_pay(j, w) >= slice
  BY <1>5, <1>10
<1> QED
  BY <1>11 DEF slice

\* What settle pays a seat, a sum over the levels.
LEMMA PaySum ==
    ASSUME TypeInv, NEW w \in Seats
    PROVE  LET part == [j \in Seats |-> IF j \in level_seats THEN level_pay(j, w) ELSE 0]
           IN  part \in [Seats -> Int] /\ pay[w] = sum_u(part)
<1> DEFINE part == [j \in Seats |-> IF j \in level_seats THEN level_pay(j, w) ELSE 0]
<1>1. \A j \in Seats : level_pay(j, w) \in Nat
  BY LevelPayTypes
<1>2. part \in [Seats -> Int]
  BY <1>1
<1>3. pay[w] = sum_u(part)
  BY DEF pay
<1> QED
  BY <1>2, <1>3

\* Nobody wins more of anyone's chips than they put in themselves.
LEMMA PayCapped ==
    ASSUME TypeInv, NEW w \in Seats
    PROVE  pay[w] <= sum_u([s \in Seats |-> min_u(total[s], total[w])])
<1> DEFINE part == [j \in Seats |-> IF j \in level_seats THEN level_pay(j, w) ELSE 0]
           up == [j \in Seats |-> IF j \in level_seats /\ total[j] <= total[w]
                                  THEN rise(heaped, j) ELSE 0]
           cap == sum_u([s \in Seats |-> min_u(total[s], total[w])])
<1>1. total \in [Seats -> Nat] /\ live(folded) \in SUBSET Seats
  BY DEF live, TypeInv, TypeOK, PotTypes, RosterTypes
<1>2. part \in [Seats -> Int] /\ pay[w] = sum_u(part)
  BY PaySum
<1>3. \A j \in Seats : rise(heaped, j) = layer(j) /\ layer(j) \in Nat
  BY LayerRise, LayerTypes
<1>4. up \in [Seats -> Int]
  BY <1>3
<1>5. \A j \in Seats : w \notin winners(j) => level_pay(j, w) = 0
  BY DEF level_pay
<1>6. heaped[0] \in Int /\ heaped[0] >= 0 /\ heaped[total[w]] \in Int /\ heaped[total[w]] <= cap
  BY <1>1, Heaped
<1>7. cap \in Nat
  <2>1. \A s \in Seats : min_u(total[s], total[w]) \in Nat
    BY <1>1 DEF min_u
  <2>2. [s \in Seats |-> min_u(total[s], total[w])] \in [Seats -> Nat]
    BY <2>1
  <2> QED
    BY <2>2, SumU
<1>8. CASE w \in live(folded)
  <2>1. ASSUME NEW j \in Seats PROVE part[j] <= up[j]
    <3>1. CASE w \in winners(j)
      <4>1. total[j] <= total[w]
        BY <3>1, <1>1 DEF winners
      <4>2. level_pay(j, w) <= rise(heaped, j)
        BY <1>3, LevelPayTypes
      <4> QED
        BY <1>3, <4>1, <4>2
    <3>2. CASE w \notin winners(j)
      <4>1. part[j] = 0
        BY <1>5, <3>2
      <4>2. up[j] >= 0
        BY <1>3
      <4> QED
        BY <4>1, <4>2
    <3> QED
      BY <3>1, <3>2
  <2>2. climb(heaped, total[w]) = sum_u(up)
    BY DEF climb
  <2> HIDE DEF part, up
  <2>3. sum_u(part) <= sum_u(up) /\ sum_u(part) \in Int /\ sum_u(up) \in Int
    BY <1>2, <1>4, <2>1, SumLeq
  <2>4. climb(heaped, total[w]) = heaped[total[w]] - heaped[0]
    BY <1>8, Heaped, Telescope
  <2> HIDE DEF cap
  <2>5. pay[w] <= cap
    BY <1>2, <1>6, <1>7, <2>2, <2>3, <2>4
  <2> QED
    BY <2>5 DEF cap
<1>9. CASE w \notin live(folded)
  <2>1. \A j \in Seats : part[j] = 0
    BY <1>5, <1>9 DEF winners
  <2> HIDE DEF part
  <2>2. sum_u(part) = 0
    BY <2>1 DEF sum_u, Seats
  <2> QED
    BY <1>2, <1>7, <2>2
<1> QED
  BY <1>8, <1>9

\* Whoever holds the best hand has all they put in paid back.
LEMMA BestPaid ==
    ASSUME TypeInv, NEW w \in live(folded), \A k \in live(folded) : scores[k] <= scores[w]
    PROVE  pay[w] >= total[w]
<1> DEFINE part == [j \in Seats |-> IF j \in level_seats THEN level_pay(j, w) ELSE 0]
           own == [x \in Nat |-> x]
           up == [j \in Seats |-> IF j \in level_seats /\ total[j] <= total[w]
                                  THEN rise(own, j) ELSE 0]
<1>1. total \in [Seats -> Nat] /\ live(folded) \in SUBSET Seats /\ w \in Seats
  BY DEF live, TypeInv, TypeOK, PotTypes, RosterTypes
<1>2. part \in [Seats -> Int] /\ pay[w] = sum_u(part)
  BY <1>1, PaySum
<1>3. own \in [Nat -> Int]
  OBVIOUS
<1>4. \A j \in Seats : rise(own, j) = total[j] - level_below(j) /\ rise(own, j) \in Int
  <2> SUFFICES ASSUME NEW j \in Seats
               PROVE  rise(own, j) = total[j] - level_below(j) /\ rise(own, j) \in Int
    OBVIOUS
  <2>1. total[j] \in Nat /\ level_below(j) \in Nat
    BY <1>1, LevelBelow
  <2>2. own[total[j]] = total[j] /\ own[level_below(j)] = level_below(j)
    BY <2>1
  <2> HIDE DEF own
  <2> QED
    BY <2>1, <2>2 DEF rise
<1>5. up \in [Seats -> Int]
  BY <1>4
<1>6. ASSUME NEW j \in Seats PROVE up[j] <= part[j]
  <2>1. level_pay(j, w) \in Nat
    BY <1>1, LevelPayTypes
  <2>2. CASE j \in level_seats /\ total[j] <= total[w]
    <3>1. w \in winners(j)
      <4>1. total[w] >= total[j]
        BY <1>1, <2>2
      <4> QED
        BY <4>1 DEF winners
    <3>2. level_pay(j, w) >= rise(own, j)
      BY <1>4, <3>1, WinnersSlice
    <3>3. up[j] = rise(own, j) /\ part[j] = level_pay(j, w)
      BY <2>2
    <3> QED
      BY <1>4, <2>1, <3>2, <3>3
  <2>3. CASE ~(j \in level_seats /\ total[j] <= total[w])
    BY <2>1, <2>3
  <2> QED
    BY <2>2, <2>3
<1>7. climb(own, total[w]) = sum_u(up)
  BY DEF climb
<1>8. climb(own, total[w]) = total[w]
  <2>1. climb(own, total[w]) = own[total[w]] - own[0]
    BY <1>3, Telescope
  <2>2. own[total[w]] = total[w] /\ own[0] = 0 /\ total[w] \in Nat
    BY <1>1
  <2> HIDE DEF own
  <2> QED
    BY <2>1, <2>2
<1> HIDE DEF part, up, own
<1>9. sum_u(up) <= sum_u(part) /\ sum_u(up) \in Int /\ sum_u(part) \in Int
  BY <1>2, <1>5, <1>6, SumLeq
<1> QED
  BY <1>2, <1>7, <1>8, <1>9

\* Every level has a winner.
LEMMA SomebodyWins ==
    ASSUME TypeInv, NEW j \in live(folded)
    PROVE  winners(j) \in SUBSET Seats /\ winners(j) # {}
<1> DEFINE reached == {i \in live(folded) : total[i] >= total[j]}
           g == [i \in Seats |-> 0 - scores[i]]
<1>1. /\ total \in [Seats -> Nat] /\ scores \in [Seats -> Nat] /\ j \in Seats
      /\ reached \in SUBSET Seats /\ j \in reached
  <2>1. total \in [Seats -> Nat] /\ live(folded) \in SUBSET Seats
    BY DEF live, TypeInv, TypeOK, PotTypes, RosterTypes
  <2>2. scores \in [Seats -> Nat]
    <3>1. scores \in [Seats -> Scores \cup {0}] /\ Scores \cup {0} \subseteq Nat
      BY InputsAssumption DEF TypeInv, TypeOK, ShowTypes
    <3> QED
      BY <3>1
  <2>3. j \in Seats /\ total[j] \in Nat
    BY <2>1
  <2> QED
    BY <2>1, <2>2, <2>3
<1>2. g \in [Seats -> Int] /\ \A i \in Seats : g[i] = 0 - scores[i] /\ scores[i] \in Nat
  BY <1>1
<1> HIDE DEF g
<1>3. PICK s \in reached : \A k \in reached : g[s] <= g[k]
  BY <1>1, <1>2, LeastExists DEF Least
<1>4. \A k \in reached : scores[k] <= scores[s]
  BY <1>1, <1>2, <1>3
<1> QED
  BY <1>1, <1>3, <1>4 DEF winners

\* A level's chips go to its winners, to the last.
LEMMA LevelPaidOut ==
    ASSUME TypeInv, dealer \in Seats \cup {NONE}, NEW j \in live(folded)
    PROVE  sum_u([i \in Seats |-> level_pay(j, i)]) = layer(j)
<1> DEFINE v == winners(j)
<1>1. j \in Seats
  BY DEF live, TypeInv, TypeOK, RosterTypes
<1>2. v \in SUBSET Seats /\ v # {}
  BY SomebodyWins
<1>3. layer(j) \in Nat /\ dealer \in Int
  BY <1>1, LayerTypes DEF Seats, NONE
<1>4. [i \in Seats |-> level_pay(j, i)]
          = [i \in Seats |->
               IF i \in v
               THEN layer(j) \div count_b(v)
                    + (IF count_b({k \in v : clockwise(dealer, k) < clockwise(dealer, i)})
                              < layer(j) % count_b(v) THEN 1 ELSE 0)
               ELSE 0]
  BY DEF level_pay
<1> HIDE DEF v
<1>5. sum_u([i \in Seats |->
               IF i \in v
               THEN layer(j) \div count_b(v)
                    + (IF count_b({k \in v : clockwise(dealer, k) < clockwise(dealer, i)})
                              < layer(j) % count_b(v) THEN 1 ELSE 0)
               ELSE 0]) = layer(j)
  BY <1>2, <1>3, EqualShares
<1> QED
  BY <1>4, <1>5

\* Somebody still in has put in the most of them.
LEMMA LargestTotal ==
    ASSUME TypeInv, live(folded) # {}
    PROVE  \E top \in live(folded) : \A k \in live(folded) : total[k] <= total[top]
<1>1. total \in [Seats -> Nat] /\ live(folded) \in SUBSET Seats
  BY DEF live, TypeInv, TypeOK, PotTypes, RosterTypes
<1> DEFINE g == [i \in Seats |-> 0 - total[i]]
<1>2. g \in [Seats -> Int] /\ \A i \in Seats : g[i] = 0 - total[i] /\ total[i] \in Nat
  BY <1>1
<1> HIDE DEF g
<1>3. PICK s \in live(folded) : \A k \in live(folded) : g[s] <= g[k]
  BY <1>1, <1>2, LeastExists DEF Least
<1>4. \A k \in live(folded) : total[k] <= total[s]
  BY <1>1, <1>2, <1>3
<1> QED
  BY <1>3, <1>4

\* Settle can pay a pot whose deal is shown down unless a folded player had put in more
\* than anyone still in; then it cannot.
LEMMA PotDivides ==
    ASSUME TypeInv, RolesInDeal, live(folded) # {}
    PROVE  sum_u(pay) = sum_u(total) <=> ~overfolded
<1> DEFINE row(j) == [i \in Seats |-> IF j \in level_seats THEN level_pay(j, i) ELSE 0]
           m == [j \in Seats |-> row(j)]
           held == [j \in Seats |-> IF j \in level_seats THEN layer(j) ELSE 0]
<1>1. /\ total \in [Seats -> Nat] /\ live(folded) \in SUBSET Seats
      /\ level_seats \in SUBSET live(folded) /\ dealer \in Seats \cup {NONE}
      /\ in_deal \in SUBSET Seats /\ folded \in SUBSET Seats /\ in_deal \subseteq live(folded) \cup folded
  BY DEF level_seats, live, TypeInv, TypeOK, PotTypes, RosterTypes
<1>2. PICK top \in live(folded) : \A k \in live(folded) : total[k] <= total[top]
  BY LargestTotal
<1>3. sum_u(pay) = sum_u(held)
  <2>1. \A j, i \in Seats : level_pay(j, i) \in Nat
    BY LevelPayTypes
  <2>2. m \in [Seats -> [Seats -> Int]]
    BY <2>1
  <2>3. pay = [i \in Seats |-> sum_u([j \in Seats |-> m[j][i]])]
    BY DEF pay
  <2>4. ASSUME NEW j \in Seats PROVE sum_u(m[j]) = held[j]
    <3>1. CASE j \in level_seats
      <4>1. m[j] = [i \in Seats |-> level_pay(j, i)]
        BY <3>1
      <4>2. held[j] = layer(j)
        BY <3>1
      <4> HIDE DEF m, held
      <4> QED
        BY <1>1, <3>1, <4>1, <4>2, LevelPaidOut
    <3>2. CASE j \notin level_seats
      <4>1. m[j] = [i \in Seats |-> 0] /\ held[j] = 0
        BY <3>2
      <4> HIDE DEF m, held
      <4> QED
        BY <4>1 DEF sum_u, Seats
    <3> QED
      BY <3>1, <3>2
  <2>5. held = [j \in Seats |-> held[j]]
    OBVIOUS
  <2> HIDE DEF m, held
  <2>6. held = [j \in Seats |-> sum_u(m[j])]
    BY <2>4, <2>5
  <2> QED
    BY <2>2, <2>3, <2>6, SumExchange
<1> DEFINE cut == [i \in Seats |-> IF i \in in_deal THEN min_u(total[i], total[top]) ELSE 0]
<1>4. sum_u(held) = sum_u(cut)
  <2>1. held = [j \in Seats |-> IF j \in level_seats /\ total[j] <= total[top]
                                THEN rise(heaped, j) ELSE 0]
    <3>1. \A j \in Seats : layer(j) = rise(heaped, j)
      BY LayerRise
    <3>2. \A j \in level_seats : total[j] <= total[top]
      BY <1>1, <1>2
    <3> QED
      BY <3>1, <3>2
  <2>2. sum_u(held) = climb(heaped, total[top])
    BY <2>1 DEF climb
  <2>3. heaped \in [Nat -> Int]
    BY Heaped
  <2>4. climb(heaped, total[top]) = heaped[total[top]] - heaped[0]
    BY <1>2, <2>3, Telescope
  <2>5. total[top] \in Nat
    BY <1>1, <1>2
  <2>6. heaped[total[top]] = sum_u(cut)
    BY <2>5 DEF heaped
  <2>7. heaped[0] = 0
    <3>1. \A i \in Seats : (IF i \in in_deal THEN min_u(total[i], 0) ELSE 0) = 0
      BY <1>1 DEF min_u
    <3>2. heaped[0] = sum_u([i \in Seats |-> IF i \in in_deal THEN min_u(total[i], 0) ELSE 0])
      BY DEF heaped
    <3>3. heaped[0] = sum_u([i \in Seats |-> 0])
      BY <3>1, <3>2
    <3> QED
      BY <3>3 DEF sum_u, Seats
  <2>8. heaped[total[top]] \in Int
    BY <2>3, <2>5
  <2> HIDE DEF held, cut
  <2> QED
    BY <2>2, <2>4, <2>6, <2>7, <2>8
<1> HIDE DEF m, held
<1>5. ASSUME NEW i \in Seats
      PROVE  /\ cut[i] \in Nat /\ cut[i] <= total[i] /\ total[i] \in Nat
             /\ cut[i] = total[i] <=> total[i] <= total[top]
  <2>1. total[i] \in Nat /\ total[top] \in Nat
    BY <1>1, <1>2
  <2>2. CASE i \in in_deal
    BY <2>1, <2>2 DEF min_u
  <2>3. CASE i \notin in_deal
    BY <2>1, <2>3 DEF RolesInDeal
  <2> QED
    BY <2>2, <2>3
<1>6. cut = [i \in Seats |-> cut[i]]
  OBVIOUS
<1>7. sum_u(cut) = sum_u(total) <=> \A i \in Seats : cut[i] = total[i]
  <2> HIDE DEF cut
  <2>1. \A i \in {0, 1, 2, 3, 4, 5} : cut[i] \in Nat /\ cut[i] <= total[i] /\ total[i] \in Nat
    BY <1>5 DEF Seats
  <2> QED
    BY <2>1 DEF sum_u, Seats
<1>8. overfolded <=> \E i \in Seats : ~(total[i] <= total[top])
  <2>1. ASSUME overfolded PROVE \E i \in Seats : ~(total[i] <= total[top])
    <3>1. PICK k \in folded : \A s \in live(folded) : total[k] > total[s]
      BY <2>1 DEF overfolded
    <3>2. k \in Seats /\ total[k] > total[top] /\ total[k] \in Nat /\ total[top] \in Nat
      BY <1>1, <1>2, <3>1
    <3> QED
      BY <3>2
  <2>2. ASSUME NEW i \in Seats, ~(total[i] <= total[top]) PROVE overfolded
    <3>1. total[i] \in Nat /\ total[top] \in Nat
      BY <1>1, <1>2
    <3>2. i \in folded
      <4>1. i \notin live(folded)
        BY <1>2, <2>2
      <4>2. i \in in_deal
        BY <2>2, <3>1 DEF RolesInDeal
      <4> QED
        BY <1>1, <4>1, <4>2
    <3>3. \A s \in live(folded) : total[s] \in Nat /\ total[s] <= total[top]
      BY <1>1, <1>2
    <3>4. \A s \in live(folded) : total[i] > total[s]
      BY <2>2, <3>1, <3>3
    <3> QED
      BY <3>2, <3>4 DEF overfolded
  <2> QED
    BY <2>1, <2>2
<1> HIDE DEF cut
<1> QED
  BY <1>3, <1>4, <1>5, <1>7, <1>8

------------------------------------------------------------------------------
(* The one step that ends a showdown with a payment. *)

LEMMA OnlySettle ==
    ASSUME Next, phase = "showdown", phase' = "done"
    PROVE  settle
<1>1. CASE Tick
  BY <1>1 DEF Tick, stageVars
<1>2. CASE TableCall
  <2>1. ASSUME NEW now \in Times, start_deal(now) \/ expire_next(now) PROVE FALSE
    BY <2>1 DEF start_deal, start_deal_asserts, expire_next
  <2>2. ~expire /\ ~settle_abort
    BY DEF expire, settle_abort, settle_abort_asserts
  <2> QED
    BY <1>2, <2>1, <2>2 DEF TableCall
<1>3. ASSUME NEW p \in Players, SeatCall(p) \/ PrepCall(p) PROVE FALSE
  <2>1. UNCHANGED phase
    BY <1>3 DEF SeatCall, PrepCall, join, stand_up, buy_in, leave, post_next_key, post_next_key_asserts,
                shuffle_next, shuffle_next_asserts, stageVars
  <2> QED
    BY <2>1
<1>4. ASSUME NEW p \in Players, CardCall(p) PROVE FALSE
  <2>1. ASSUME NEW s \in Seats, NEW now \in Times, post_key(p, s, now) \/ shuffle(p, s, now)
        PROVE FALSE
    BY <2>1 DEF post_key, post_key_asserts, shuffle, shuffle_asserts
  <2>2. ASSUME NEW s \in Seats, NEW now \in Times, NEW ps, shares(p, s, ps, now) PROVE FALSE
    BY <2>2 DEF shares, shares_asserts
  <2>3. ASSUME NEW s \in Seats, NEW now \in Times, release(p, s, now) PROVE FALSE
    BY <2>3 DEF release, release_asserts
  <2>4. ASSUME NEW s \in Seats, NEW now \in Times, show(p, s, now) PROVE FALSE
    BY <2>4 DEF show, show_asserts, run_out, stageVars
  <2>5. ASSUME NEW s \in Seats, NEW score, NEW now \in Times, show_hand(p, s, score, now)
        PROVE FALSE
    BY <2>5 DEF show_hand, show_hand_asserts, stageVars
  <2> QED
    BY <1>4, <2>1, <2>2, <2>3, <2>4, <2>5 DEF CardCall
<1>5. ASSUME NEW p \in Players, BetCall(p) PROVE FALSE
  BY <1>5 DEF BetCall, act, act_asserts, act_out, act_out_asserts, act_check
<1> QED
  BY <1>1, <1>2, <1>3, <1>4, <1>5 DEF Next, Call

\* What ShowdownFair says of a step.
FairStep ==
    phase = "showdown" /\ phase' = "done" => \A w \in in_deal :
        /\ stack'[w] - stack[w] <= sum_u([s \in Seats |-> min_u(total[s], total[w])])
        /\ w \in live(folded) /\ (\A k \in live(folded) : scores[k] <= scores[w])
               => stack'[w] >= stack[w] + total[w]

LEMMA SettleFair == TypeInv /\ [Next]_vars => [FairStep]_vars
<1> SUFFICES ASSUME TypeInv, Next, phase = "showdown", phase' = "done", NEW w \in in_deal
             PROVE  /\ stack'[w] - stack[w] <= sum_u([s \in Seats |-> min_u(total[s], total[w])])
                    /\ w \in live(folded) /\ (\A k \in live(folded) : scores[k] <= scores[w])
                           => stack'[w] >= stack[w] + total[w]
  BY DEF FairStep
<1>1. w \in Seats
  BY DEF TypeInv, TypeOK, RosterTypes
<1>2. stack'[w] = stack[w] + pay[w]
  BY <1>1, OnlySettle DEF settle, settle_asserts
<1>3. stack[w] \in Nat /\ pay[w] \in Nat /\ total[w] \in Nat
  BY <1>1, PayTypes DEF TypeInv, TypeOK, MoneyTypes, PotTypes
<1>4. stack'[w] - stack[w] = pay[w]
  BY <1>2, <1>3
<1>5. pay[w] <= sum_u([s \in Seats |-> min_u(total[s], total[w])])
  BY <1>1, PayCapped
<1>6. w \in live(folded) /\ (\A k \in live(folded) : scores[k] <= scores[w])
          => stack'[w] >= stack[w] + total[w]
  BY <1>2, <1>3, BestPaid
<1> QED
  BY <1>4, <1>5, <1>6

\* When a showdown is settled nobody wins more of anyone's chips than they matched,
\* and the best hand, alone or tied, gets back at least what it put in: through any
\* number of all-ins, folded chips and odd chips.
THEOREM SidePotsFair == Spec => ShowdownFair
<1> QED
  BY EmptyTable, SettleFair, TypesInitially, TypesPreserved, PTL DEF Spec, ShowdownFair, FairStep

===============================================================================
