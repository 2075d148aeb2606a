------------------------------ MODULE CardProofs ------------------------------
(***************************************************************************)
(* The cards of the table contract, for every set of players, any stakes,  *)
(* inputs and clock.  First its two decks, the one being dealt and the one *)
(* being prepared for the next deal: each is locked under the keys of      *)
(* exactly the players it is for and mixed by all of them before a card of *)
(* it is dealt.  Then who can read which card when, that every card a hand *)
(* needs opens in the end, and that a deal which stops names a player who  *)
(* owed a step.                                                            *)
(*                                                                         *)
(* The circuits decide by counting: how many keys, how many hole shares,   *)
(* how many board shares, how many seats are complete, how many hands are  *)
(* proved. So the invariants say what each counter counts, that a deal     *)
(* which takes over a prepared deck takes over the players it was prepared *)
(* for, and in each phase whose share is still to come.                    *)
(***************************************************************************)
EXTENDS BettingProofs

\* The seats that have a key, with the keys, and what a joint key sums.
key_holders(ks) == {s \in Seats : ks[s] # NoPlayer}
key_points(ks) == {<<s, ks[s]>> : s \in key_holders(ks)}

\* The phases in which cards of the deck are dealt.
Dealt == {"holes", "playing", "release", "tabling", "showdown"}

PreparationCounted ==
    /\ next_n_players = count_b(next_in_deal)
    /\ key_holders(next_keys) \subseteq next_in_deal
    /\ next_keys_posted = count_b(key_holders(next_keys))

\* The deck being dealt, phase by phase.
DeckInOrder ==
    /\ n_players = count_b(in_deal)
    /\ joint_key = key_points(keys)
    /\ key_holders(keys) \subseteq in_deal
    /\ phase = "keys" => /\ key_holders(keys) # in_deal /\ deck = {}
                         /\ keys_posted = count_b(key_holders(keys))
    /\ phase = "shuffle" => /\ key_holders(keys) = in_deal
                            /\ turn \in in_deal
                            /\ deck = {s \in in_deal : s < turn}
    /\ phase \in Dealt => key_holders(keys) = in_deal /\ deck = in_deal

PrepInv == TypeInv /\ PreparationInOrder /\ PreparationCounted
DeckInv == PrepInv /\ DeckInOrder

------------------------------------------------------------------------------
(* The next deck. *)

\* A preparation that a call leaves alone stays in order.
LEMMA PrepKept ==
    ASSUME PrepInv, TypeInv', UNCHANGED nextVars
    PROVE  PrepInv'
<1>1. PreparationInOrder'
  BY DEF PrepInv, PreparationInOrder, nextVars
<1>2. PreparationCounted'
  BY DEF PrepInv, PreparationCounted, key_holders, nextVars
<1> QED
  BY <1>1, <1>2 DEF PrepInv

\* A new preparation has no keys, and wants some if it has any players.
LEMMA BeginPrepInOrder ==
    ASSUME TypeInv', NEW now, NEW present \in SUBSET Seats, begin_prep(now, present)
    PROVE  PrepInv'
<1>1. /\ next_in_deal' = present /\ next_n_players' = count_b(present)
      /\ next_deck' = {} /\ next_joint_key' = {} /\ next_keys' = no_keys
      /\ next_keys_posted' = 0
      /\ next_prep' = IF count_b(present) >= 2 THEN "keys" ELSE "none"
  BY DEF begin_prep
<1>2. key_holders(next_keys') = {} /\ {s \in Seats : next_keys'[s] # NoPlayer} = {}
  BY <1>1 DEF key_holders, no_keys
<1>3. count_b({}) = 0
  BY CountB
<1>4. next_prep' = "keys" => present # {}
  BY <1>1, <1>3
<1>5. PreparationInOrder'
  BY <1>1, <1>2, <1>4 DEF PreparationInOrder
<1>6. PreparationCounted'
  BY <1>1, <1>2, <1>3 DEF PreparationCounted
<1> QED
  BY <1>5, <1>6 DEF PrepInv

\* What a posted key does to the set of keys, in either deck.
LEMMA KeyAdded ==
    ASSUME NEW ks \in [Seats -> Players \cup {NoPlayer}], NEW s \in Seats, NEW p \in Players,
           NEW ks2, ks[s] = NoPlayer, ks2[s] = p, \A k \in Seats \ {s} : ks2[k] = ks[k]
    PROVE  /\ key_holders(ks2) = key_holders(ks) \cup {s} /\ s \notin key_holders(ks)
           /\ count_b(key_holders(ks2)) = count_b(key_holders(ks)) + 1
           /\ key_points(ks2) = key_points(ks) \cup {<<s, p>>}
<1>1. key_holders(ks2) = key_holders(ks) \cup {s} /\ s \notin key_holders(ks)
  BY PlayersAssumption DEF key_holders
<1>2. key_holders(ks) \in SUBSET Seats
  BY DEF key_holders
<1>3. count_b(key_holders(ks2)) = count_b(key_holders(ks)) + 1
  BY <1>1, <1>2, CountAdd
<1>4. ks2[s] = p /\ \A k \in key_holders(ks) : ks2[k] = ks[k]
  BY <1>1, <1>2
<1>5. key_points(ks2) = key_points(ks) \cup {<<s, p>>}
  <2> DEFINE had == key_holders(ks)
  <2>1. \A k \in had : <<k, ks2[k]>> = <<k, ks[k]>>
    BY <1>4
  <2>2. <<s, ks2[s]>> = <<s, p>>
    BY <1>4
  <2> HIDE DEF had
  <2>3. {<<k, ks2[k]>> : k \in had} = {<<k, ks[k]>> : k \in had}
    BY <2>1
  <2>4. {<<k, ks2[k]>> : k \in had \cup {s}} = {<<k, ks2[k]>> : k \in had} \cup {<<s, ks2[s]>>}
    OBVIOUS
  <2> QED
    BY <1>1, <2>2, <2>3, <2>4 DEF had, key_points
<1> QED
  BY <1>1, <1>3, <1>5

LEMMA PostNextKeyInOrder ==
    ASSUME PrepInv, TypeInv', NEW p \in Players, NEW s \in Seats, NEW now \in Times,
           post_next_key(p, s, now)
    PROVE  PrepInv'
<1> DEFINE had == key_holders(next_keys)
           has == key_holders(next_keys')
<1>1. /\ next_prep = "keys" /\ s \in next_in_deal /\ next_keys[s] = NoPlayer
      /\ next_keys' = [next_keys EXCEPT ![s] = p]
      /\ next_joint_key' = next_joint_key \cup {<<s, p>>}
      /\ next_keys_posted' = next_keys_posted + 1
      /\ UNCHANGED <<next_in_deal, next_n_players, next_deck>>
      /\ IF next_keys_posted' = next_n_players
         THEN next_prep' = "shuffle" /\ next_turn' = first_in(next_in_deal)
         ELSE next_prep' = next_prep
  BY DEF post_next_key, post_next_key_asserts
<1>2. next_keys \in [Seats -> Players \cup {NoPlayer}] /\ next_in_deal \in SUBSET Seats
  BY DEF PrepInv, TypeInv, TypeOK, NextTypes
<1>3. /\ has = had \cup {s} /\ count_b(has) = count_b(had) + 1
      /\ key_points(next_keys') = key_points(next_keys) \cup {<<s, p>>}
  <2>1. next_keys[s] = NoPlayer /\ next_keys'[s] = p
        /\ \A k \in Seats \ {s} : next_keys'[k] = next_keys[k]
    BY <1>1, <1>2
  <2>2. next_keys \in [Seats -> Players \cup {NoPlayer}]
    BY <1>2
  <2> QED
    BY <2>1, <2>2, KeyAdded
<1>4. /\ next_n_players = count_b(next_in_deal) /\ had \subseteq next_in_deal
      /\ next_keys_posted = count_b(had) /\ next_deck = {}
      /\ next_joint_key = key_points(next_keys)
  BY <1>1 DEF PrepInv, PreparationCounted, PreparationInOrder, key_holders, key_points
<1>5. has \in SUBSET next_in_deal
  BY <1>1, <1>3, <1>4
<1>6. PreparationCounted'
  BY <1>1, <1>3, <1>4, <1>5 DEF PreparationCounted
<1>7. next_keys_posted' = next_n_players <=> has = next_in_deal
  BY <1>1, <1>2, <1>3, <1>4, <1>5, CountPart
<1>8. next_joint_key' = {<<k, next_keys'[k]>> : k \in has}
  BY <1>1, <1>3, <1>4 DEF key_points
<1>9. PreparationInOrder'
  <2> HIDE DEF had, has
  <2>1. has = {k \in Seats : next_keys'[k] # NoPlayer}
    BY DEF has, key_holders
  <2>2. CASE has = next_in_deal
    <3>1. first_in(next_in_deal) \in next_in_deal
          /\ \A k \in next_in_deal : first_in(next_in_deal) <= k
      BY <1>1, <1>2, FirstIn
    <3>2. {k \in next_in_deal : k < first_in(next_in_deal)} = {}
      <4>1. \A k \in next_in_deal : k \in Int
        BY <1>2 DEF Seats
      <4> QED
        BY <3>1, <4>1
    <3>3. next_prep' = "shuffle" /\ next_turn' = first_in(next_in_deal)
      BY <1>1, <1>7, <2>2
    <3> QED
      BY <1>1, <1>4, <1>8, <2>1, <2>2, <3>1, <3>2, <3>3 DEF PreparationInOrder
  <2>3. CASE has # next_in_deal
    BY <1>1, <1>4, <1>7, <1>8, <2>1, <2>3 DEF PreparationInOrder
  <2> QED
    BY <2>2, <2>3
<1> QED
  BY <1>6, <1>9 DEF PrepInv

\* The seats below the next one, or all of them when there is none, are the seats below
\* this one and itself.
LEMMA MixedNext ==
    ASSUME NEW v \in SUBSET Seats, NEW s \in v
    PROVE  LET nxt == next_in(v, s) IN
           IF nxt = NONE THEN {k \in v : k < s} \cup {s} = v
           ELSE nxt \in v /\ {k \in v : k < nxt} = {k \in v : k < s} \cup {s}
<1>1. \A k \in v : k \in Int
  BY DEF Seats
<1>2. CASE next_in(v, s) = NONE
  <2>1. \A k \in v : ~(k > s)
    BY <1>2, NextIn
  <2> QED
    BY <1>1, <1>2, <2>1
<1>3. CASE next_in(v, s) # NONE
  <2>1. next_in(v, s) \in v /\ next_in(v, s) > s
        /\ \A k \in v : k > s => next_in(v, s) <= k
    BY <1>3, NextIn
  <2> DEFINE nxt == next_in(v, s)
  <2>2. nxt \in v /\ nxt > s /\ \A k \in v : k > s => nxt <= k
    BY <2>1
  <2> HIDE DEF nxt
  <2>3. \A k \in v : k < nxt <=> k < s \/ k = s
    BY <1>1, <2>2
  <2>4. {k \in v : k < nxt} = {k \in v : k < s} \cup {s}
    BY <2>3
  <2> QED
    BY <1>3, <2>2, <2>4 DEF nxt
<1> QED
  BY <1>2, <1>3

LEMMA ShuffleNextInOrder ==
    ASSUME PrepInv, TypeInv', NEW p \in Players, NEW s \in Seats, NEW now \in Times,
           shuffle_next(p, s, now)
    PROVE  PrepInv'
<1>1. /\ next_prep = "shuffle" /\ s = next_turn
      /\ next_deck' = next_deck \cup {s} /\ next_turn' = next_in(next_in_deal, s)
      /\ next_prep' = IF next_turn' = NONE THEN "ready" ELSE "shuffle"
      /\ UNCHANGED <<next_in_deal, next_n_players, next_joint_key, next_keys,
                     next_keys_posted>>
  BY DEF shuffle_next, shuffle_next_asserts
<1>2. next_in_deal \in SUBSET Seats
  BY DEF PrepInv, TypeInv, TypeOK, NextTypes
<1>3. s \in next_in_deal /\ next_deck = {k \in next_in_deal : k < s}
  BY <1>1 DEF PrepInv, PreparationInOrder
<1>4. /\ next_turn' = NONE => next_deck' = next_in_deal
      /\ next_turn' # NONE => /\ next_turn' \in next_in_deal
                              /\ next_deck' = {k \in next_in_deal : k < next_turn'}
  BY <1>1, <1>2, <1>3, MixedNext
<1>5. PreparationInOrder'
  BY <1>1, <1>4 DEF PrepInv, PreparationInOrder
<1>6. PreparationCounted'
  BY <1>1 DEF PrepInv, PreparationCounted, key_holders
<1> QED
  BY <1>5, <1>6 DEF PrepInv

LEMMA PrepInitially == FreshTable => PrepInv
<1> SUFFICES ASSUME FreshTable PROVE PrepInv
  OBVIOUS
<1>1. /\ next_prep = "none" /\ next_in_deal = {} /\ next_n_players = 0
      /\ next_deck = {} /\ next_joint_key = {} /\ next_keys = no_keys
      /\ next_keys_posted = 0
  BY DEF FreshTable, NeverDealt
<1>2. key_holders(next_keys) = {} /\ {s \in Seats : next_keys[s] # NoPlayer} = {}
  BY <1>1 DEF key_holders, no_keys
<1>3. count_b({}) = 0
  BY CountB
<1> QED
  BY <1>1, <1>2, <1>3, TypesInitially DEF PrepInv, PreparationInOrder, PreparationCounted

\* Whatever a call is, the preparation is begun anew, moved a step on, or left alone.
LEMMA PrepPreserved == PrepInv /\ [Next]_vars => PrepInv'
<1> SUFFICES ASSUME PrepInv, [Next]_vars PROVE PrepInv'
  OBVIOUS
<1>0. TypeInv'
  BY TypesPreserved DEF PrepInv
<1>1. CASE Tick \/ UNCHANGED vars
  BY <1>0, <1>1, PrepKept DEF Tick, vars
<1>2. CASE TableCall
  <2>1. ASSUME NEW now \in Times, start_deal(now) PROVE PrepInv'
    <3>1. begin_prep(now, players_present)
      BY <2>1 DEF start_deal, start_deal_asserts
    <3> QED
      BY <1>0, <3>1, PresentSeats, BeginPrepInOrder
  <2>2. ASSUME NEW now \in Times, expire_next(now) PROVE PrepInv'
    <3>1. begin_prep(now, players_present') /\ players_present' \in SUBSET Seats
      BY <2>2 DEF expire_next, players_present, occupied
    <3> QED
      BY <1>0, <3>1, BeginPrepInOrder
  <2>3. CASE settle \/ expire \/ settle_abort
    BY <1>0, <2>3, PrepKept DEF settle, settle_asserts, expire, settle_abort, settle_abort_asserts
  <2> QED
    BY <1>2, <2>1, <2>2, <2>3 DEF TableCall
<1>3. ASSUME NEW p \in Players, SeatCall(p) PROVE PrepInv'
  <2>1. UNCHANGED nextVars
    BY <1>3 DEF SeatCall, join, stand_up, buy_in, leave
  <2> QED
    BY <1>0, <2>1, PrepKept
<1>4. ASSUME NEW p \in Players, PrepCall(p) PROVE PrepInv'
  BY <1>0, <1>4, PostNextKeyInOrder, ShuffleNextInOrder DEF PrepCall
<1>5. ASSUME NEW p \in Players, CardCall(p) PROVE PrepInv'
  <2>1. UNCHANGED nextVars
    BY <1>5 DEF CardCall, post_key, post_key_asserts, shuffle, shuffle_asserts, shares,
                shares_asserts, release, release_asserts, show, show_asserts, show_hand,
                show_hand_asserts
  <2> QED
    BY <1>0, <2>1, PrepKept
<1>6. ASSUME NEW p \in Players, BetCall(p) PROVE PrepInv'
  <2>1. PICK s \in Seats, kind \in Kinds, now \in Times :
            \E t \in IF kind = 2 THEN Amounts ELSE {0} :
                act(p, s, kind, t, now) \/ act_out(p, s, kind, t, now)
    BY <1>6 DEF BetCall
  <2>2. UNCHANGED nextVars
    BY <2>1 DEF act, act_asserts, act_out, act_out_asserts
  <2> QED
    BY <1>0, <2>2, PrepKept
<1> QED
  BY <1>1, <1>2, <1>3, <1>4, <1>5, <1>6 DEF Next, Call

\* The next deck is prepared step by step, whatever deals, departures and evictions
\* go on meanwhile: keys are wanted only while one is missing, each seat mixes after
\* those before it, and a deck called ready has been mixed by all it is locked for.
THEOREM PreparationOrdered == Spec => []PreparationInOrder
<1>1. PrepInv => PreparationInOrder
  BY DEF PrepInv
<1> QED
  BY EmptyTable, <1>1, PrepInitially, PrepPreserved, PTL DEF Spec

------------------------------------------------------------------------------
(* The deck being dealt. *)

\* A call that leaves the deck alone keeps it in order, unless it starts dealing.
LEMMA DeckKept ==
    ASSUME DeckInv, PrepInv', UNCHANGED <<in_deal, n_players, deckVars>>,
           phase' = phase \/ phase' \in {"done", "aborted"}
                          \/ (phase \in Dealt /\ phase' \in Dealt)
    PROVE  DeckInv'
<1>1. UNCHANGED <<deck, joint_key, keys, keys_posted, turn>>
  BY DEF deckVars
<1>2. DeckInOrder'
  BY <1>1 DEF DeckInv, DeckInOrder, Dealt, key_holders, key_points
<1> QED
  BY <1>2 DEF DeckInv

\* A deal takes the prepared deck with the players it was prepared for, or starts
\* from a fresh one that wants everybody's key.
LEMMA StartDealDeck ==
    ASSUME DeckInv, PrepInv', NEW now \in Times, start_deal(now)
    PROVE  DeckInv'
<1>1. CASE prepared
  <2>1. /\ in_deal' = next_in_deal /\ n_players' = next_n_players /\ deck' = next_deck
        /\ joint_key' = next_joint_key /\ keys' = next_keys /\ phase' = "holes"
    BY <1>1 DEF start_deal, start_deal_asserts
  <2>2. next_prep = "ready"
    BY <1>1 DEF prepared
  <2>3. /\ key_holders(next_keys) = next_in_deal /\ next_deck = next_in_deal
        /\ next_joint_key = key_points(next_keys)
        /\ next_n_players = count_b(next_in_deal)
    BY <2>2
       DEF DeckInv, PrepInv, PreparationInOrder, PreparationCounted, key_holders, key_points
  <2> QED
    BY <2>1, <2>3 DEF DeckInv, DeckInOrder
<1>2. CASE ~prepared
  <2>1. /\ in_deal' = players_present /\ n_players' = count_b(players_present)
        /\ deck' = {} /\ joint_key' = {} /\ keys' = no_keys /\ keys_posted' = 0
        /\ phase' = "keys" /\ count_b(players_present) >= 2
    BY <1>2 DEF start_deal, start_deal_asserts
  <2>2. key_holders(no_keys) = {} /\ key_points(no_keys) = {}
    BY DEF key_holders, key_points, no_keys
  <2>3. count_b({}) = 0
    BY CountB
  <2>4. players_present # {}
    BY <2>1, <2>3
  <2> QED
    BY <2>1, <2>2, <2>3, <2>4 DEF DeckInv, DeckInOrder, Dealt
<1> QED
  BY <1>1, <1>2

LEMMA PostKeyDeck ==
    ASSUME DeckInv, PrepInv', NEW p \in Players, NEW s \in Seats, NEW now \in Times,
           post_key(p, s, now)
    PROVE  DeckInv'
<1> DEFINE had == key_holders(keys)
           has == key_holders(keys')
<1>1. /\ phase = "keys" /\ s \in in_deal /\ keys[s] = NoPlayer
      /\ keys' = [keys EXCEPT ![s] = p]
      /\ joint_key' = joint_key \cup {<<s, p>>}
      /\ keys_posted' = keys_posted + 1
      /\ UNCHANGED <<in_deal, n_players, deck>>
      /\ IF keys_posted' = n_players THEN phase' = "shuffle" /\ turn' = first_in(in_deal)
         ELSE phase' = phase
  BY DEF post_key, post_key_asserts, rosterVars
<1>2. keys \in [Seats -> Players \cup {NoPlayer}] /\ in_deal \in SUBSET Seats
  BY DEF DeckInv, PrepInv, TypeInv, TypeOK, DeckTypes, RosterTypes
<1>3. /\ has = had \cup {s} /\ count_b(has) = count_b(had) + 1
      /\ key_points(keys') = key_points(keys) \cup {<<s, p>>}
  <2>1. keys[s] = NoPlayer /\ keys'[s] = p /\ \A k \in Seats \ {s} : keys'[k] = keys[k]
    BY <1>1, <1>2
  <2>2. keys \in [Seats -> Players \cup {NoPlayer}]
    BY <1>2
  <2> QED
    BY <2>1, <2>2, KeyAdded
<1>4. /\ n_players = count_b(in_deal) /\ had \subseteq in_deal
      /\ keys_posted = count_b(had) /\ deck = {} /\ joint_key = key_points(keys)
  BY <1>1 DEF DeckInv, DeckInOrder
<1>5. has \in SUBSET in_deal
  BY <1>1, <1>3, <1>4
<1>6. keys_posted' = n_players <=> has = in_deal
  BY <1>1, <1>2, <1>3, <1>4, <1>5, CountPart
<1>7. DeckInOrder'
  <2> HIDE DEF had
  <2>1. CASE has = in_deal
    <3>1. first_in(in_deal) \in in_deal /\ \A k \in in_deal : first_in(in_deal) <= k
      BY <1>1, <1>2, FirstIn
    <3>2. {k \in in_deal : k < first_in(in_deal)} = {}
      <4>1. \A k \in in_deal : k \in Int
        BY <1>2 DEF Seats
      <4> QED
        BY <3>1, <4>1
    <3>3. phase' = "shuffle" /\ turn' = first_in(in_deal)
      BY <1>1, <1>6, <2>1
    <3> QED
      BY <1>1, <1>3, <1>4, <2>1, <3>1, <3>2, <3>3 DEF DeckInOrder, Dealt
  <2>2. CASE has # in_deal
    BY <1>1, <1>3, <1>4, <1>5, <1>6, <2>2 DEF DeckInOrder, Dealt
  <2> QED
    BY <2>1, <2>2
<1> QED
  BY <1>7 DEF DeckInv

LEMMA ShuffleDeck ==
    ASSUME DeckInv, PrepInv', NEW p \in Players, NEW s \in Seats, NEW now \in Times,
           shuffle(p, s, now)
    PROVE  DeckInv'
<1> DEFINE nxt == next_in(in_deal, s)
<1>1. /\ phase = "shuffle" /\ s = turn /\ deck' = deck \cup {s}
      /\ UNCHANGED <<in_deal, n_players, joint_key, keys>>
      /\ IF nxt = NONE THEN phase' = "holes" ELSE turn' = nxt /\ phase' = "shuffle"
  BY DEF shuffle, shuffle_asserts, rosterVars
<1>2. in_deal \in SUBSET Seats
  BY DEF DeckInv, PrepInv, TypeInv, TypeOK, RosterTypes
<1>3. s \in in_deal /\ deck = {k \in in_deal : k < s}
  BY <1>1 DEF DeckInv, DeckInOrder
<1>4. /\ nxt = NONE => deck' = in_deal
      /\ nxt # NONE => nxt \in in_deal /\ deck' = {k \in in_deal : k < nxt}
  BY <1>1, <1>2, <1>3, MixedNext
<1> HIDE DEF nxt
<1>5. DeckInOrder'
  BY <1>1, <1>4 DEF DeckInv, DeckInOrder, Dealt, key_holders, key_points
<1> QED
  BY <1>5 DEF DeckInv

\* Where closing a street leads.
LEMMA CloseStreetDealt ==
    ASSUME NEW now, NEW st, NEW betting, close_street(now, st, betting)
    PROVE  phase' \in Dealt
  BY DEF close_street, Dealt

LEMMA DeckInitially == FreshTable => DeckInv
<1> SUFFICES ASSUME FreshTable PROVE DeckInv
  OBVIOUS
<1>1. phase = "idle" /\ in_deal = {} /\ n_players = 0 /\ joint_key = {} /\ keys = no_keys
  BY DEF FreshTable, NeverDealt
<1>2. key_holders(no_keys) = {} /\ key_points(no_keys) = {}
  BY DEF key_holders, key_points, no_keys
<1>3. count_b({}) = 0
  BY CountB
<1> QED
  BY <1>1, <1>2, <1>3, PrepInitially DEF DeckInv, DeckInOrder, Dealt

LEMMA DeckPreserved == DeckInv /\ [Next]_vars => DeckInv'
<1> SUFFICES ASSUME DeckInv, [Next]_vars PROVE DeckInv'
  OBVIOUS
<1>0. PrepInv'
  BY PrepPreserved DEF DeckInv
<1>1. CASE Tick \/ UNCHANGED vars
  <2>1. UNCHANGED <<in_deal, n_players, deckVars, phase>>
    BY <1>1 DEF Tick, vars, rosterVars, stageVars
  <2> QED
    BY <1>0, <2>1, DeckKept
<1>2. CASE TableCall
  <2>1. ASSUME NEW now \in Times, start_deal(now) PROVE DeckInv'
    BY <1>0, <2>1, StartDealDeck
  <2>2. ASSUME NEW now \in Times, expire_next(now) PROVE DeckInv'
    <3>1. UNCHANGED <<in_deal, n_players, deckVars, phase>>
      BY <2>2 DEF expire_next, rosterVars, stageVars
    <3> QED
      BY <1>0, <3>1, DeckKept
  <2>3. CASE settle \/ expire \/ settle_abort
    <3>1. UNCHANGED <<in_deal, n_players, deckVars>> /\ phase' \in {"done", "aborted"}
      BY <2>3 DEF settle, settle_asserts, expire, settle_abort, settle_abort_asserts, rosterVars
    <3> QED
      BY <1>0, <3>1, DeckKept
  <2> QED
    BY <1>2, <2>1, <2>2, <2>3 DEF TableCall
<1>3. ASSUME NEW p \in Players, SeatCall(p) \/ PrepCall(p) PROVE DeckInv'
  <2>1. UNCHANGED <<in_deal, n_players, deckVars, phase>>
    BY <1>3 DEF SeatCall, PrepCall, join, stand_up, buy_in, leave, post_next_key, post_next_key_asserts,
                shuffle_next, shuffle_next_asserts, rosterVars, stageVars
  <2> QED
    BY <1>0, <2>1, DeckKept
<1>4. ASSUME NEW p \in Players, CardCall(p) PROVE DeckInv'
  <2>1. ASSUME NEW s \in Seats, NEW now \in Times, NEW ps, shares(p, s, ps, now)
        PROVE  DeckInv'
    <3>1. UNCHANGED <<in_deal, n_players, deckVars>> /\ phase = "holes"
      BY <2>1 DEF shares, shares_asserts, rosterVars
    <3>2. phase' \in Dealt
      BY <2>1 DEF shares, shares_asserts, begin_betting, stageVars, Dealt
    <3> QED
      BY <1>0, <3>1, <3>2, DeckKept DEF Dealt
  <2>2. ASSUME NEW s \in Seats, NEW now \in Times, release(p, s, now) PROVE DeckInv'
    <3>1. UNCHANGED <<in_deal, n_players, deckVars>> /\ phase = "release"
      BY <2>2 DEF release, release_asserts, rosterVars
    <3>2. phase' \in Dealt
      BY <2>2, CloseStreetDealt DEF release, release_asserts, resume_betting, stageVars, Dealt
    <3> QED
      BY <1>0, <3>1, <3>2, DeckKept DEF Dealt
  <2>3. ASSUME NEW s \in Seats, NEW now \in Times, show(p, s, now) PROVE DeckInv'
    <3>1. UNCHANGED <<in_deal, n_players, deckVars>>
      BY <2>3 DEF show, show_asserts, rosterVars
    <3>2. phase' = phase \/ (phase \in Dealt /\ phase' \in Dealt)
      BY <2>3 DEF show, show_asserts, run_out, Dealt
    <3> QED
      BY <1>0, <3>1, <3>2, DeckKept
  <2>4. ASSUME NEW s \in Seats, NEW score \in Scores, NEW now \in Times,
               show_hand(p, s, score, now)
        PROVE  DeckInv'
    <3>1. UNCHANGED <<in_deal, n_players, deckVars, phase>>
      BY <2>4 DEF show_hand, show_hand_asserts, rosterVars, stageVars
    <3> QED
      BY <1>0, <3>1, DeckKept
  <2> QED
    BY <1>0, <1>4, <2>1, <2>2, <2>3, <2>4, PostKeyDeck, ShuffleDeck DEF CardCall
<1>5. ASSUME NEW p \in Players, BetCall(p) PROVE DeckInv'
  <2>1. PICK s \in Seats, kind \in Kinds, now \in Times :
            \E t \in IF kind = 2 THEN Amounts ELSE {0} :
                act(p, s, kind, t, now) \/ act_out(p, s, kind, t, now)
    BY <1>5 DEF BetCall
  <2>2. UNCHANGED <<in_deal, n_players, deckVars>> /\ phase = "playing"
    BY <2>1 DEF act, act_asserts, act_out, act_out_asserts, act_check, rosterVars
  <2>3. PICK t, out, bk : apply_action(s, kind, t, out, now, bk)
    BY <2>1 DEF act, act_asserts, act_out, act_out_asserts
  <2>4. phase' = phase \/ phase' \in {"done"} \cup Dealt
    BY <2>3, CloseStreetDealt DEF apply_action
  <2> QED
    BY <1>0, <2>2, <2>4, DeckKept DEF Dealt
<1> QED
  BY <1>1, <1>2, <1>3, <1>4, <1>5 DEF Next, Call

\* No card is dealt from a deck that anybody in the deal has not locked and mixed, nor
\* from one locked under a key of somebody outside it: whether the deck was made for
\* the deal or prepared during the last one.
THEOREM DeckSound == Spec => []DeckLockedAndMixed
<1>1. DeckInv => DeckLockedAndMixed
  <2> SUFFICES ASSUME DeckInv, phase \in Dealt
               PROVE  /\ joint_key = {<<s, keys[s]>> : s \in in_deal} /\ deck = in_deal
                      /\ \A s \in in_deal : keys[s] # NoPlayer
    BY DEF DeckLockedAndMixed, Dealt
  <2> QED
    BY DEF DeckInv, DeckInOrder, key_points, key_holders
<1> QED
  BY EmptyTable, <1>1, DeckInitially, DeckPreserved, PTL DEF Spec

-------------------------------------------------------------------------------
(* Shares. *)

Board == board_positions(0, 3)
\* The hole positions seat s owes shares for, and the shares there are.
others_holes(s) == 0..(2 * n_players - 1) \ own_positions(s)
holes_shared(s) == {pos \in others_holes(s) : <<pos, s>> \in shares_posted}
board_shared(s) == {pos \in Board : <<pos, s>> \in shares_posted}

need == 2 * n_players - 2
complete_seats == {s \in in_deal : hole_shares[s] = need}
scored == {s \in live(folded) : scores[s] # 0}

\* The betting can still go on.
Open == phase \in Before \cup {"playing"} \/ (phase = "release" /\ count_b(actors(folded, all_in)) > 1)

SharesCounted ==
    \A s \in in_deal : /\ hole_shares[s] = Cardinality(holes_shared(s))
                       /\ board_shares[s] = Cardinality(board_shared(s))

OwnHolesKept ==
    Open => \A s \in in_deal : \A pos \in own_positions(s) : <<pos, s>> \notin shares_posted

\* The players who can still bet have shared no card of a later street.
LaterStreetsKept ==
    /\ phase \in Before => street = 0 /\ folded = {}
    /\ phase \in Before => \A pos \in Board, k \in in_deal : <<pos, k>> \notin shares_posted
    /\ phase = "playing" => \A pos \in board_positions(street, 3), k \in actors(folded, all_in) :
                                <<pos, k>> \notin shares_posted
    /\ phase = "release" =>
           /\ \A pos \in board_positions(release_street, 3), k \in actors(folded, all_in) :
                  <<pos, k>> \notin shares_posted
           /\ count_b(actors(folded, all_in)) <= 1 => release_street = 3

HolesIn ==
    /\ phase \in Before => /\ holes_done = count_b(complete_seats)
                           /\ complete_seats # in_deal
    /\ phase \in {"playing", "release", "tabling", "showdown"} => complete_seats = in_deal

BoardIn ==
    /\ \A s \in folded : board_shares[s] >= 5
    /\ phase = "playing" => released(folded, street, board_shares)
    /\ phase = "showdown" => released(folded, 3, board_shares)

\* Whose share is still to come.
StepOwed ==
    /\ phase = "release" => ~released(folded, release_street, board_shares)
    /\ phase = "tabling" => ~ \A k \in live(folded) : has_shown(k, shares_posted)

ScoresCounted ==
    /\ phase \in Before \cup {"playing", "release", "tabling"} => shown = 0 /\ scores = zeros
    /\ phase \in {"showdown", "aborted"} => shown = count_b(scored)

OffenderOwes ==
    phase = "aborted" => offender \in live(folded) \/ shown = count_b(live(folded))

ShareOrder ==
    /\ SharesCounted /\ OwnHolesKept /\ LaterStreetsKept /\ HolesIn /\ BoardIn
    /\ StepOwed /\ ScoresCounted /\ OffenderOwes

ShareInv == BettingInv /\ DeckInv /\ ShareOrder

Roster == RosterTypes /\ n_players = count_b(in_deal)

------------------------------------------------------------------------------
(* The layout of a deck: two hole positions for each player in dealing     *)
(* order, then the board.                                                  *)

\* Dealing order numbers the members of v from 0 up, no number twice.
LEMMA DealingOrder ==
    ASSUME NEW v \in SUBSET Seats, NEW s \in v
    PROVE  /\ order_of(v, s) \in Nat /\ order_of(v, s) < count_b(v)
           /\ \A k \in v : order_of(v, k) = order_of(v, s) => k = s
<1> DEFINE below(k) == {j \in v : j < k}
<1>1. ASSUME NEW i \in v, NEW w \in SUBSET v, below(i) \cup {i} \in SUBSET w
      PROVE  order_of(v, i) \in Nat /\ order_of(v, i) < count_b(w)
  <2>1. below(i) \in SUBSET Seats /\ i \in Seats \ below(i) /\ w \in SUBSET Seats
    <3>1. ~(i < i)
      BY DEF Seats
    <3>2. i \notin below(i) /\ below(i) \in SUBSET v
      BY <3>1
    <3> QED
      BY <3>2
  <2>2. order_of(v, i) = count_b(below(i))
    BY DEF order_of
  <2> HIDE DEF below
  <2>3. count_b(below(i) \cup {i}) = count_b(below(i)) + 1
    BY <2>1, CountAdd
  <2>4. count_b(below(i) \cup {i}) <= count_b(w)
    BY <1>1, <2>1, CountPart
  <2>5. count_b(below(i)) \in Nat /\ count_b(w) \in Nat
    BY <2>1, CountB
  <2> QED
    BY <2>2, <2>3, <2>4, <2>5
<1>2. below(s) \cup {s} \in SUBSET v
  OBVIOUS
<1>3. ASSUME NEW i \in v, NEW k \in v, i < k PROVE order_of(v, i) < order_of(v, k)
  <2>1. below(i) \cup {i} \in SUBSET below(k)
    <3>1. \A j \in v : j \in Int
      BY DEF Seats
    <3> QED
      BY <1>3, <3>1
  <2>2. order_of(v, k) = count_b(below(k)) /\ below(k) \in SUBSET v
    BY DEF order_of
  <2> HIDE DEF below
  <2> QED
    BY <1>1, <2>1, <2>2
<1>4. \A k \in v : order_of(v, k) = order_of(v, s) => k = s
  <2> SUFFICES ASSUME NEW k \in v, order_of(v, k) = order_of(v, s), k # s PROVE FALSE
    OBVIOUS
  <2>1. k < s \/ s < k
    BY DEF Seats
  <2>2. order_of(v, k) \in Int /\ order_of(v, s) \in Int
    BY OrderOf
  <2> QED
    BY <1>3, <2>1, <2>2
<1> QED
  BY <1>1, <1>2, <1>4

\* Hole cards are dealt below the board, each position to one player.
LEMMA HolePositions ==
    ASSUME Roster, NEW s \in in_deal
    PROVE  /\ n_players \in 1..6
           /\ own_positions(s) \subseteq 0..(2 * n_players - 1)
           /\ \A k \in in_deal \ {s} : own_positions(s) \subseteq others_holes(k)
<1>1. in_deal \in SUBSET Seats /\ n_players \in 0..6 /\ n_players = count_b(in_deal)
  BY DEF Roster, RosterTypes
<1>2. ASSUME NEW k \in in_deal
      PROVE  /\ order_of(in_deal, k) \in Nat /\ order_of(in_deal, k) < n_players
             /\ \A i \in in_deal : order_of(in_deal, i) = order_of(in_deal, k) => i = k
  BY <1>1, DealingOrder
<1>3. own_positions(s) \subseteq 0..(2 * n_players - 1) /\ n_players \in 1..6
  BY <1>1, <1>2 DEF own_positions
<1>4. ASSUME NEW k \in in_deal \ {s} PROVE own_positions(s) \cap own_positions(k) = {}
  <2>1. /\ order_of(in_deal, k) \in Nat /\ order_of(in_deal, s) \in Nat
        /\ order_of(in_deal, k) # order_of(in_deal, s)
    BY <1>2
  <2> QED
    BY <2>1 DEF own_positions
<1> QED
  BY <1>3, <1>4 DEF others_holes

\* The board is five positions above the hole cards, each street a part of it.
LEMMA BoardPositionsOf ==
    ASSUME Roster, NEW from \in 0..3
    PROVE  /\ \A to \in 0..3 : board_positions(from, to) \subseteq Board
           /\ Board \cap 0..(2 * n_players - 1) = {}
           /\ \A to \in 0..3 : board_positions(from, to) \cap board_positions(to, 3) = {}
           /\ Board = (2 * n_players)..(2 * n_players + 4)
           /\ board_positions(from, 3) = (2 * n_players + board_len(from))..(2 * n_players + 4)
           /\ board_positions(3, 3) = {}
<1>1. n_players \in 0..6
  BY DEF Roster, RosterTypes
<1>2. board_len(0) = 0 /\ board_len(3) = 5 /\ \A st \in 0..3 : board_len(st) \in 0..5
  BY DEF board_len
<1>3. Board = (2 * n_players)..(2 * n_players + 4)
  BY <1>1, <1>2 DEF Board, board_positions
<1>4. \A to \in 0..3 : board_positions(from, to) \subseteq Board
  BY <1>1, <1>2, <1>3 DEF board_positions
<1>5. \A to \in 0..3 : board_positions(from, to) \cap board_positions(to, 3) = {}
  BY <1>1, <1>2 DEF board_positions
<1> QED
  BY <1>1, <1>2, <1>3, <1>4, <1>5 DEF board_positions

\* Seat s owes shares for all the hole positions but its own two.
LEMMA HolesOwed ==
    ASSUME Roster, NEW s \in in_deal
    PROVE  /\ IsFiniteSet(others_holes(s)) /\ Cardinality(others_holes(s)) = need
           /\ need \in Nat
<1> DEFINE all == 0..(2 * n_players - 1)
           first == 2 * order_of(in_deal, s)
<1>1. n_players \in 1..6 /\ own_positions(s) \subseteq all
  BY HolePositions
<1>2. order_of(in_deal, s) \in Nat
  BY DealingOrder DEF Roster, RosterTypes
<1>3. first \in all /\ first + 1 \in all \ {first} /\ others_holes(s) = (all \ {first}) \ {first + 1}
  BY <1>1, <1>2 DEF own_positions, others_holes
<1>4. IsFiniteSet(all) /\ Cardinality(all) = 2 * n_players
  <2>1. 0 \in Int /\ 2 * n_players - 1 \in Int
    BY <1>1
  <2>2. /\ IsFiniteSet(0..(2 * n_players - 1))
        /\ Cardinality(0..(2 * n_players - 1))
               = IF 0 > 2 * n_players - 1 THEN 0 ELSE (2 * n_players - 1) - 0 + 1
    BY <2>1, FS_Interval, Zenon
  <2> QED
    BY <1>1, <2>2
<1> HIDE DEF all, first
<1>5. IsFiniteSet(all \ {first}) /\ Cardinality(all \ {first}) = 2 * n_players - 1
  BY <1>3, <1>4, FS_RemoveElement
<1>6. /\ IsFiniteSet((all \ {first}) \ {first + 1})
      /\ Cardinality((all \ {first}) \ {first + 1}) = 2 * n_players - 1 - 1
  BY <1>3, <1>5, FS_RemoveElement
<1> QED
  BY <1>1, <1>3, <1>6 DEF need

LEMMA BoardOwed ==
    ASSUME Roster
    PROVE  IsFiniteSet(Board) /\ Cardinality(Board) = 5
<1>1. n_players \in 0..6
  BY DEF Roster, RosterTypes
<1>2. Board = (2 * n_players)..(2 * n_players + 4)
  <2>1. 0 \in 0..3
    OBVIOUS
  <2> QED
    BY <2>1, BoardPositionsOf
<1>3. 2 * n_players \in Int /\ 2 * n_players + 4 \in Int
  BY <1>1
<1>4. /\ IsFiniteSet((2 * n_players)..(2 * n_players + 4))
      /\ Cardinality((2 * n_players)..(2 * n_players + 4))
             = IF 2 * n_players > 2 * n_players + 4 THEN 0
               ELSE (2 * n_players + 4) - 2 * n_players + 1
  BY <1>3, FS_Interval, Zenon
<1> QED
  BY <1>1, <1>2, <1>4


------------------------------------------------------------------------------
(* Shares. *)

\* Shares of seat s for the positions ps, all of D: the new ones add to the count, and
\* nobody else's change.
LEMMA SharesAdded ==
    ASSUME NEW D \in SUBSET Positions, IsFiniteSet(D), NEW ps \in SUBSET D, NEW s \in Seats,
           NEW sp \in SUBSET (Positions \X Seats), NEW sp2 \in SUBSET (Positions \X Seats),
           sp2 = sp \cup (ps \X {s})
    PROVE  /\ Cardinality({pos \in D : <<pos, s>> \in sp2})
                  = Cardinality({pos \in D : <<pos, s>> \in sp})
                    + Cardinality({pos \in ps : <<pos, s>> \notin sp})
           /\ {pos \in D : <<pos, s>> \in sp2} = {pos \in D : <<pos, s>> \in sp} \cup ps
<1> DEFINE old == {pos \in D : <<pos, s>> \in sp}
           new == {pos \in ps : <<pos, s>> \notin sp}
           all == {pos \in D : <<pos, s>> \in sp2}
<1>1. all = old \cup new /\ old \cap new = {} /\ all = old \cup ps
  OBVIOUS
<1>2. IsFiniteSet(old) /\ IsFiniteSet(new)
  <2>1. old \in SUBSET D /\ new \in SUBSET D
    OBVIOUS
  <2> HIDE DEF old, new
  <2> QED
    BY <2>1, FS_Subset
<1> HIDE DEF old, new, all
<1>3. Cardinality(old) \in Nat /\ Cardinality(new) \in Nat
  BY <1>2, FS_CardinalityType
<1>4. Cardinality(old \cup new) = Cardinality(old) + Cardinality(new) - Cardinality(old \cap new)
  BY <1>2, FS_Union
<1>5. Cardinality({}) = 0
  BY FS_EmptySet
<1>6. Cardinality(all) = Cardinality(old) + Cardinality(new)
  <2>1. Cardinality(old \cap new) = 0 /\ Cardinality(all) = Cardinality(old \cup new)
    BY <1>1, <1>5, Zenon
  <2> QED
    BY <1>3, <1>4, <2>1
<1> QED
  BY <1>1, <1>6 DEF old, new, all

\* A seat has at most as many shares posted as it owes, and that many only when it has
\* posted all of them.
LEMMA SharesBounded ==
    ASSUME Roster, NEW s \in in_deal
    PROVE  /\ Cardinality(holes_shared(s)) \in Nat /\ Cardinality(holes_shared(s)) <= need
           /\ Cardinality(holes_shared(s)) = need => holes_shared(s) = others_holes(s)
           /\ Cardinality(board_shared(s)) \in Nat /\ Cardinality(board_shared(s)) <= 5
           /\ Cardinality(board_shared(s)) = 5 => board_shared(s) = Board
<1>1. ASSUME NEW D, IsFiniteSet(D), NEW P \in SUBSET D
      PROVE  /\ Cardinality(P) \in Nat /\ Cardinality(P) <= Cardinality(D)
             /\ Cardinality(P) = Cardinality(D) => P = D
  BY <1>1, FS_Subset, FS_CardinalityType
<1>2. IsFiniteSet(others_holes(s)) /\ Cardinality(others_holes(s)) = need
  BY HolesOwed
<1>3. IsFiniteSet(Board) /\ Cardinality(Board) = 5
  BY BoardOwed
<1>4. holes_shared(s) \in SUBSET others_holes(s) /\ board_shared(s) \in SUBSET Board
  BY DEF holes_shared, board_shared
<1> QED
  BY <1>1, <1>2, <1>3, <1>4

\* The layout of the deck depends on nothing but the players dealt in.
LEMMA LayoutKept ==
    ASSUME UNCHANGED <<in_deal, n_players>>
    PROVE  /\ \A s \in Seats : own_positions(s)' = own_positions(s) /\ others_holes(s)' = others_holes(s)
           /\ \A from, to \in 0..3 : board_positions(from, to)' = board_positions(from, to)
           /\ Board' = Board /\ need' = need
<1>1. \A s \in Seats : own_positions(s)' = own_positions(s)
  BY DEF own_positions
<1>2. \A s \in Seats : others_holes(s)' = others_holes(s)
  BY <1>1 DEF others_holes
<1>3. \A from, to \in 0..3 : board_positions(from, to)' = board_positions(from, to)
  BY DEF board_positions
<1>4. Board' = Board
  BY DEF Board, board_positions
<1> QED
  BY <1>1, <1>2, <1>3, <1>4 DEF need

\* Shares that are no hole share of anybody's leave the hole counts alone, and
\* the other way round.
LEMMA SharesCountedOn ==
    ASSUME Roster, ShareTypes, SharesCounted, UNCHANGED <<in_deal, n_players>>,
           NEW s \in in_deal, NEW ps, shares_posted' = shares_posted \cup (ps \X {s}),
           \/ /\ ps \subseteq others_holes(s)
              /\ hole_shares' = [hole_shares EXCEPT ![s] = @ + newly_shared(ps, s)]
              /\ board_shares' = board_shares
           \/ /\ ps \subseteq Board
              /\ board_shares' = [board_shares EXCEPT ![s] = @ + newly_shared(ps, s)]
              /\ hole_shares' = hole_shares
           \/ /\ ps = Board
              /\ board_shares' = [board_shares EXCEPT ![s] = 5]
              /\ hole_shares' = hole_shares
           \/ /\ ps = own_positions(s)
              /\ UNCHANGED <<hole_shares, board_shares>>
    PROVE  SharesCounted'
<1>1. in_deal \in SUBSET Seats
  BY DEF Roster, RosterTypes
<1>2. ASSUME NEW k \in in_deal
      PROVE  /\ others_holes(k)' = others_holes(k) /\ Board' = Board
             /\ others_holes(k) \cap Board = {}
  <2>1. Board \cap 0..(2 * n_players - 1) = {}
    <3>1. 0 \in 0..3
      OBVIOUS
    <3> QED
      BY <3>1, BoardPositionsOf
  <2> QED
    BY <1>1, <2>1, LayoutKept DEF others_holes
<1>3. ASSUME NEW k \in in_deal \ {s}
      PROVE  hole_shares'[k] = Cardinality(holes_shared(k)') /\ board_shares'[k] = Cardinality(board_shared(k)')
  <2>1. holes_shared(k)' = holes_shared(k)
    <3>1. others_holes(k)' = others_holes(k)
      BY <1>2
    <3>2. \A pos \in others_holes(k) : <<pos, k>> \in shares_posted' <=> <<pos, k>> \in shares_posted
      OBVIOUS
    <3> QED
      BY <3>1, <3>2 DEF holes_shared
  <2>2. board_shared(k)' = board_shared(k)
    <3>1. Board' = Board
      BY <1>2
    <3>2. \A pos \in Board : <<pos, k>> \in shares_posted' <=> <<pos, k>> \in shares_posted
      OBVIOUS
    <3> QED
      BY <3>1, <3>2 DEF board_shared
  <2>3. hole_shares'[k] = hole_shares[k] /\ board_shares'[k] = board_shares[k]
    <3>1. /\ hole_shares \in [Seats -> Nat] /\ board_shares \in [Seats -> Nat]
          /\ k \in Seats /\ k # s
      BY <1>1 DEF ShareTypes
    <3>2. /\ hole_shares' = hole_shares \/ \E x : hole_shares' = [hole_shares EXCEPT ![s] = x]
          /\ board_shares' = board_shares \/ \E x : board_shares' = [board_shares EXCEPT ![s] = x]
      OBVIOUS
    <3> QED
      BY <3>1, <3>2
  <2> QED
    BY <2>1, <2>2, <2>3 DEF SharesCounted
<1> DEFINE H == others_holes(s)
<1>4. /\ holes_shared(s) = {pos \in H : <<pos, s>> \in shares_posted}
      /\ holes_shared(s)' = {pos \in H : <<pos, s>> \in shares_posted'}
      /\ board_shared(s) = {pos \in Board : <<pos, s>> \in shares_posted}
      /\ board_shared(s)' = {pos \in Board : <<pos, s>> \in shares_posted'}
  <2>1. others_holes(s)' = H /\ Board' = Board
    BY <1>2
  <2> QED
    BY <2>1 DEF holes_shared, board_shared
<1>5. /\ IsFiniteSet(H) /\ IsFiniteSet(Board) /\ Cardinality(Board) = 5 /\ H \cap Board = {}
      /\ own_positions(s) \cap H = {} /\ own_positions(s) \cap Board = {}
  <2>1. Board \cap 0..(2 * n_players - 1) = {}
    <3>1. 0 \in 0..3
      OBVIOUS
    <3> QED
      BY <3>1, BoardPositionsOf
  <2>2. own_positions(s) \subseteq 0..(2 * n_players - 1)
    BY HolePositions
  <2>3. own_positions(s) \cap H = {}
    BY DEF others_holes
  <2> QED
    BY <1>2, <2>1, <2>2, <2>3, HolesOwed, BoardOwed
<1>6. /\ hole_shares[s] = Cardinality(holes_shared(s)) /\ hole_shares[s] \in Nat
      /\ board_shares[s] = Cardinality(board_shared(s)) /\ board_shares[s] \in Nat
      /\ hole_shares \in [Seats -> Nat] /\ board_shares \in [Seats -> Nat]
  BY <1>1 DEF SharesCounted, ShareTypes
<1> DEFINE fresh == {pos \in ps : <<pos, s>> \notin shares_posted}
<1>a. ASSUME NEW D \in {H, Board}, ps \subseteq D
      PROVE  /\ Cardinality({pos \in D : <<pos, s>> \in shares_posted'})
                    = Cardinality({pos \in D : <<pos, s>> \in shares_posted}) + Cardinality(fresh)
             /\ {pos \in D : <<pos, s>> \in shares_posted'}
                    = {pos \in D : <<pos, s>> \in shares_posted} \cup ps
  <2>1. H \in SUBSET Positions /\ Board \in SUBSET Positions
    <3>1. n_players \in 0..6 /\ Board = (2 * n_players)..(2 * n_players + 4)
      <4>1. 0 \in 0..3
        OBVIOUS
      <4> QED
        BY <4>1, BoardPositionsOf DEF Roster, RosterTypes
    <3>2. Board \subseteq Positions /\ 0..(2 * n_players - 1) \subseteq Positions
      <4>1. \A n \in 0..6 : (2 * n)..(2 * n + 4) \subseteq 0..16 /\ 0..(2 * n - 1) \subseteq 0..16
        OBVIOUS
      <4> QED
        BY <3>1, <4>1 DEF Positions
    <3>3. H \subseteq 0..(2 * n_players - 1)
      BY DEF others_holes
    <3> QED
      BY <3>2, <3>3
  <2> HIDE DEF H
  <2>2. D \in SUBSET Positions /\ ps \in SUBSET D /\ IsFiniteSet(D) /\ s \in Seats
    BY <1>1, <1>5, <1>a, <2>1 DEF H
  <2>3. shares_posted \in SUBSET (Positions \X Seats)
    BY DEF ShareTypes
  <2>4. shares_posted' \in SUBSET (Positions \X Seats)
    BY <2>2, <2>3
  <2> QED
    BY <2>2, <2>3, <2>4, SharesAdded
<1>b. newly_shared(ps, s) = Cardinality(fresh)
  BY DEF newly_shared
<1> HIDE DEF H, fresh
<1>7. ps \cap H = {} => holes_shared(s)' = holes_shared(s)
  BY <1>4
<1>8. ps \cap Board = {} => board_shared(s)' = board_shared(s)
  BY <1>4
<1>9. ps \subseteq H =>
          Cardinality(holes_shared(s)') = Cardinality(holes_shared(s)) + newly_shared(ps, s)
  BY <1>4, <1>a, <1>b
<1>10. ps \subseteq Board =>
          /\ Cardinality(board_shared(s)') = Cardinality(board_shared(s)) + newly_shared(ps, s)
          /\ board_shared(s)' = board_shared(s) \cup ps
  BY <1>4, <1>a, <1>b
<1>11. hole_shares'[s] = Cardinality(holes_shared(s)') /\ board_shares'[s] = Cardinality(board_shared(s)')
  <2>1. CASE /\ ps \subseteq H
             /\ hole_shares' = [hole_shares EXCEPT ![s] = @ + newly_shared(ps, s)]
             /\ board_shares' = board_shares
    <3>1. ps \cap Board = {}
      BY <1>5, <2>1
    <3> QED
      BY <1>1, <1>6, <1>8, <1>9, <2>1, <3>1
  <2>2. CASE /\ ps \subseteq Board
             /\ board_shares' = [board_shares EXCEPT ![s] = @ + newly_shared(ps, s)]
             /\ hole_shares' = hole_shares
    <3>1. ps \cap H = {}
      BY <1>5, <2>2
    <3> QED
      BY <1>1, <1>6, <1>7, <1>10, <2>2, <3>1
  <2>3. CASE /\ ps = Board
             /\ board_shares' = [board_shares EXCEPT ![s] = 5]
             /\ hole_shares' = hole_shares
    <3>1. ps \cap H = {}
      BY <1>5, <2>3
    <3>2. board_shared(s)' = Board
      BY <1>4, <1>10, <2>3
    <3> QED
      BY <1>1, <1>5, <1>6, <1>7, <2>3, <3>1, <3>2
  <2>4. CASE ps = own_positions(s) /\ UNCHANGED <<hole_shares, board_shares>>
    BY <1>5, <1>6, <1>7, <1>8, <2>4
  <2> QED
    BY <2>1, <2>2, <2>3, <2>4 DEF H
<1> QED
  BY <1>3, <1>11 DEF SharesCounted


------------------------------------------------------------------------------
(* Steps that post no share. *)

\* With the roster and the shares, all that is counted from them stays.
LEMMA CountsKept ==
    ASSUME Roster, UNCHANGED <<in_deal, n_players, shareVars, folded, all_in>>
    PROVE  /\ SharesCounted' = SharesCounted
           /\ complete_seats' = complete_seats /\ live(folded)' = live(folded)
           /\ actors(folded, all_in)' = actors(folded, all_in)
           /\ \A st \in 0..3 : released(folded, st, board_shares)' = released(folded, st, board_shares)
           /\ \A k \in Seats : has_shown(k, shares_posted)' = has_shown(k, shares_posted)
<1>1. UNCHANGED <<shares_posted, hole_shares, holes_done, board_shares>>
  BY DEF shareVars
<1>2. /\ live(folded)' = live(folded) /\ actors(folded, all_in)' = actors(folded, all_in)
      /\ in_deal \subseteq Seats
  BY DEF live, actors, Roster, RosterTypes
<1>3. \A s \in in_deal : holes_shared(s)' = holes_shared(s) /\ board_shared(s)' = board_shared(s)
  <2>1. \A s \in in_deal : others_holes(s)' = others_holes(s) /\ Board' = Board
    BY <1>2, LayoutKept
  <2> QED
    BY <1>1, <2>1 DEF holes_shared, board_shared
<1>4. SharesCounted' = SharesCounted
  BY <1>1, <1>3 DEF SharesCounted
<1>5. complete_seats' = complete_seats
  BY <1>1 DEF complete_seats, need
<1>6. \A st \in 0..3 : released(folded, st, board_shares)' = released(folded, st, board_shares)
  BY <1>1, <1>2 DEF released
<1>7. \A k \in Seats : has_shown(k, shares_posted)' = has_shown(k, shares_posted)
  BY <1>1 DEF has_shown
<1> QED
  BY <1>2, <1>4, <1>5, <1>6, <1>7

LEMMA ShareKept ==
    ASSUME ShareOrder, TypeInv, n_players = count_b(in_deal),
           UNCHANGED <<in_deal, n_players, shareVars, folded, all_in, street, release_street>>,
           phase' = phase \/ phase' \in {"done", "aborted"} \/ (phase \in Before /\ phase' \in Before),
           ScoresCounted' /\ OffenderOwes'
    PROVE  ShareOrder'
<1>0. Roster /\ UNCHANGED <<shares_posted, hole_shares, holes_done, board_shares>>
  BY DEF Roster, TypeInv, TypeOK, shareVars
<1>1. /\ SharesCounted' = SharesCounted /\ complete_seats' = complete_seats
      /\ live(folded)' = live(folded)
      /\ actors(folded, all_in)' = actors(folded, all_in)
      /\ \A st \in 0..3 : released(folded, st, board_shares)' = released(folded, st, board_shares)
      /\ \A k \in Seats : has_shown(k, shares_posted)' = has_shown(k, shares_posted)
  BY <1>0, CountsKept
<1>2. in_deal \subseteq Seats /\ live(folded) \subseteq Seats /\ street \in 0..3 /\ release_street \in 0..3
  BY DEF TypeInv, TypeOK, RosterTypes, StreetTypes, live
<1>3. /\ \A s \in in_deal : own_positions(s)' = own_positions(s)
      /\ board_positions(street, 3)' = board_positions(street, 3)
      /\ board_positions(release_street, 3)' = board_positions(release_street, 3)
      /\ Board' = Board
  <2>1. 3 \in 0..3
    OBVIOUS
  <2>2. /\ \A from \in 0..3 : board_positions(from, 3)' = board_positions(from, 3)
        /\ \A s \in Seats : own_positions(s)' = own_positions(s)
        /\ Board' = Board
    BY <2>1, LayoutKept
  <2>3. /\ board_positions(street, 3)' = board_positions(street, 3)
        /\ board_positions(release_street, 3)' = board_positions(release_street, 3)
    BY DEF board_positions
  <2> QED
    BY <1>2, <2>2, <2>3
<1>4. OwnHolesKept'
  BY <1>0, <1>1, <1>3 DEF ShareOrder, OwnHolesKept, Open, Before
<1>5. LaterStreetsKept'
  BY <1>0, <1>1, <1>3 DEF ShareOrder, LaterStreetsKept, Before
<1>6. HolesIn' /\ BoardIn'
  <2>1. HolesIn'
    BY <1>0, <1>1 DEF ShareOrder, HolesIn, Before
  <2>2. /\ released(folded, street, board_shares)' = released(folded, street, board_shares)
        /\ released(folded, 3, board_shares)' = released(folded, 3, board_shares)
    BY <1>0, <1>1 DEF released
  <2> QED
    BY <1>0, <2>1, <2>2 DEF ShareOrder, BoardIn, Before
<1>7. StepOwed'
  <2>1. released(folded, release_street, board_shares)' = released(folded, release_street, board_shares)
    BY <1>0, <1>1 DEF released
  <2> QED
    BY <1>1, <1>2, <2>1 DEF ShareOrder, StepOwed, Before
<1> QED
  BY <1>0, <1>1, <1>4, <1>5, <1>6, <1>7 DEF ShareOrder

\* No hand is proved and no step missed.
LEMMA ScoresKept ==
    ASSUME ShareOrder, UNCHANGED <<in_deal, folded, scores, shown, offender>>,
           phase' = phase \/ phase' = "done" \/ (phase \in Before /\ phase' \in Before)
    PROVE  ScoresCounted' /\ OffenderOwes'
<1>1. scored' = scored /\ live(folded)' = live(folded)
  BY DEF scored, live
<1> QED
  BY <1>1 DEF ShareOrder, ScoresCounted, OffenderOwes, Before

\* A deal starts with no share posted and none proved.
LEMMA StartDealShares ==
    ASSUME TypeInv', n_players' = count_b(in_deal'), TwoStillIn', NEW now \in Times, start_deal(now)
    PROVE  ShareOrder'
<1>1. /\ shares_posted' = {} /\ hole_shares' = zeros /\ holes_done' = 0 /\ board_shares' = zeros
      /\ folded' = {} /\ street' = 0 /\ scores' = zeros /\ shown' = 0
      /\ phase' \in {"keys", "holes"} /\ phase' \in Before
  BY DEF start_deal, start_deal_asserts, Before
<1>2. Roster' /\ in_deal' \subseteq Seats
  BY DEF Roster, TypeInv, TypeOK, RosterTypes
<1>3. in_deal' # {} /\ n_players' >= 2
  <2>1. count_b(live(folded)') >= 2 /\ live(folded)' = in_deal'
    BY <1>1 DEF TwoStillIn, dealing, live
  <2> QED
    BY <1>2, <2>1, CountB
<1>4. SharesCounted'
  <2>1. Cardinality({}) = 0
    BY FS_EmptySet
  <2>2. \A s \in in_deal' : holes_shared(s)' = {} /\ board_shared(s)' = {}
    BY <1>1 DEF holes_shared, board_shared
  <2>3. \A s \in in_deal' : hole_shares'[s] = 0 /\ board_shares'[s] = 0
    BY <1>1, <1>2 DEF zeros
  <2> QED
    BY <2>1, <2>2, <2>3 DEF SharesCounted
<1>5. OwnHolesKept' /\ LaterStreetsKept'
  BY <1>1 DEF OwnHolesKept, LaterStreetsKept, Before
<1>6. HolesIn'
  <2>1. n_players' \in Int /\ need' > 0
    BY <1>2, <1>3 DEF need, Roster, RosterTypes
  <2>2. complete_seats' = {}
    BY <1>1, <1>2, <2>1 DEF complete_seats, zeros
  <2>3. count_b({}) = 0
    BY CountB
  <2> QED
    BY <1>1, <1>3, <2>2, <2>3 DEF HolesIn, Before
<1>7. BoardIn' /\ StepOwed' /\ ScoresCounted' /\ OffenderOwes'
  BY <1>1 DEF BoardIn, StepOwed, ScoresCounted, OffenderOwes, Before
<1> QED
  BY <1>4, <1>5, <1>6, <1>7 DEF ShareOrder


------------------------------------------------------------------------------
(* Hole shares. *)

\* Whoever knows a deck key is in the deal.
LEMMA KeyInDeal ==
    ASSUME DeckInv, NEW p \in Players, NEW s \in Seats, key_check(s, p)
    PROVE  s \in in_deal
<1>1. keys[s] # NoPlayer
  BY PlayersAssumption DEF key_check
<1> QED
  BY <1>1 DEF DeckInv, DeckInOrder, key_holders

\* A seat completes its hole shares at most once, and holes_done counts the seats that did.
LEMMA HolesCounted ==
    ASSUME Roster, HolesIn, phase \in Before, hole_shares \in [Seats -> Nat], NEW s \in in_deal, NEW count \in Nat,
           UNCHANGED <<in_deal, n_players>>, hole_shares' = [hole_shares EXCEPT ![s] = count],
           hole_shares[s] <= count, count <= need,
           LET complete == hole_shares[s] < need /\ count = need IN
           holes_done' = IF complete THEN holes_done + 1 ELSE holes_done
    PROVE  LET complete == hole_shares[s] < need /\ count = need IN
           /\ holes_done' = count_b(complete_seats')
           /\ (complete /\ holes_done + 1 = n_players) => complete_seats' = in_deal
           /\ complete_seats' = in_deal => complete /\ holes_done + 1 = n_players
<1> DEFINE complete == hole_shares[s] < need /\ count = need
           had == complete_seats
<1>1. in_deal \in SUBSET Seats /\ n_players = count_b(in_deal) /\ need \in Int
  BY DEF Roster, RosterTypes, need
<1>2. holes_done = count_b(had) /\ had # in_deal /\ had \in SUBSET in_deal
  BY DEF HolesIn, complete_seats
<1>3. complete_seats' = {k \in in_deal : hole_shares'[k] = need}
  BY DEF complete_seats, need
<1>4. /\ hole_shares'[s] = count /\ hole_shares[s] \in Nat
      /\ \A k \in in_deal \ {s} : hole_shares'[k] = hole_shares[k]
  BY <1>1
<1>5. CASE complete
  <2>1. complete_seats' = had \cup {s} /\ s \in Seats \ had
    BY <1>1, <1>3, <1>4, <1>5 DEF complete_seats
  <2> HIDE DEF had
  <2>2. count_b(had \cup {s}) = count_b(had) + 1
    BY <1>1, <1>2, <2>1, CountAdd
  <2>3. count_b(had \cup {s}) = count_b(in_deal) => had \cup {s} = in_deal
    BY <1>1, <1>2, <2>1, CountPart
  <2> QED
    BY <1>1, <1>2, <1>5, <2>1, <2>2, <2>3
<1>6. CASE ~complete
  <2>1. (hole_shares'[s] = need) <=> (hole_shares[s] = need)
    BY <1>1, <1>4, <1>6
  <2>2. complete_seats' = had
    BY <1>3, <1>4, <2>1 DEF complete_seats
  <2> QED
    BY <1>2, <1>6, <2>2
<1> QED
  BY <1>5, <1>6

LEMMA HoleShares ==
    ASSUME ShareInv, TypeInv', NEW p \in Players, NEW s \in Seats, NEW ps, NEW now \in Times,
           shares(p, s, ps, now)
    PROVE  ShareOrder'
<1> DEFINE count == hole_shares[s] + newly_shared(ps, s)
           complete == hole_shares[s] < need /\ count = need
<1>0. /\ ShareOrder /\ BettingOrder /\ TypeInv /\ DeckInv /\ Roster /\ ShareTypes
      /\ in_deal \subseteq Seats /\ to_act \in Seats \cup {NONE}
  BY DEF ShareInv, BettingInv, DeckInv, DeckInOrder, PrepInv, Roster, TypeInv, TypeOK,
         RosterTypes, StageTypes
<1>1. /\ phase = "holes" /\ s \in in_deal /\ ps \subseteq others_holes(s)
      /\ hole_shares' = [hole_shares EXCEPT ![s] = count]
      /\ shares_posted' = shares_posted \cup (ps \X {s})
      /\ holes_done' = IF complete THEN holes_done + 1 ELSE holes_done
      /\ IF complete /\ holes_done + 1 = n_players
         THEN begin_betting(now) ELSE UNCHANGED <<stageVars, act_by>>
  <2>1. s \in in_deal
    BY <1>0, KeyInDeal DEF shares, shares_asserts
  <2> QED
    BY <2>1 DEF shares, shares_asserts, need, others_holes
<1>2. UNCHANGED <<in_deal, n_players, folded, all_in, street, release_street, board_shares,
                  scores, shown, offender>>
  BY DEF shares, shares_asserts, rosterVars, potVars, streetVars, showVars
<1>3. SharesCounted'
  BY <1>0, <1>1, <1>2, SharesCountedOn DEF ShareOrder
<1>4. /\ complete_seats' = in_deal <=> complete /\ holes_done + 1 = n_players
      /\ holes_done' = count_b(complete_seats')
  <2>1. /\ hole_shares[s] \in Nat /\ count \in Nat /\ hole_shares[s] <= count
        /\ hole_shares \in [Seats -> Nat] /\ hole_shares'[s] = count
    <3>1. newly_shared(ps, s) \in Nat
      <4>1. n_players \in 0..6
        BY <1>0 DEF Roster, RosterTypes
      <4>2. ps \in SUBSET Positions
        BY <1>1, <4>1 DEF others_holes, Positions
      <4> QED
        BY <4>2, NewlyShared
    <3> QED
      BY <1>0, <1>1, <3>1 DEF ShareTypes
  <2>2. count <= need
    <3>1. holes_shared(s)' \in SUBSET others_holes(s)
      BY <1>0, <1>1, <1>2, LayoutKept DEF holes_shared
    <3>2. IsFiniteSet(others_holes(s)) /\ Cardinality(others_holes(s)) = need
      BY <1>0, <1>1, HolesOwed
    <3>3. Cardinality(holes_shared(s)') <= need
      BY <3>1, <3>2, FS_Subset
    <3> QED
      BY <1>1, <1>2, <1>3, <2>1, <3>3 DEF SharesCounted
  <2> HIDE DEF count
  <2>3. HolesIn /\ phase \in Before
    BY <1>0, <1>1 DEF ShareOrder, Before
  <2> QED
    BY <1>0, <1>1, <1>2, <2>1, <2>2, <2>3, HolesCounted
<1> HIDE DEF count, complete
<1>5. phase' \in {"holes", "playing", "tabling"} /\ (phase' = "holes" <=> complete_seats' # in_deal)
  <2>1. CASE complete /\ holes_done + 1 = n_players
    BY <1>1, <1>4, <2>1 DEF begin_betting
  <2>2. CASE ~(complete /\ holes_done + 1 = n_players)
    BY <1>1, <1>4, <2>2 DEF stageVars
  <2> QED
    BY <2>1, <2>2
<1>6. /\ \A k \in in_deal : \A pos \in own_positions(k) : <<pos, k>> \notin shares_posted'
      /\ \A k \in in_deal, pos \in Board : <<pos, k>> \notin shares_posted'
  <2>1. /\ \A k \in in_deal : \A pos \in own_positions(k) : <<pos, k>> \notin shares_posted
        /\ \A k \in in_deal, pos \in Board : <<pos, k>> \notin shares_posted
    BY <1>0, <1>1 DEF ShareOrder, OwnHolesKept, Open, LaterStreetsKept, Before
  <2>2. others_holes(s) \cap own_positions(s) = {} /\ others_holes(s) \cap Board = {}
    <3>1. 0 \in 0..3
      OBVIOUS
    <3>2. Board \cap 0..(2 * n_players - 1) = {}
      BY <1>0, <3>1, BoardPositionsOf
    <3> QED
      BY <3>2 DEF others_holes
  <2> QED
    BY <1>1, <2>1, <2>2
<1>7. /\ \A k \in in_deal : own_positions(k)' = own_positions(k)
      /\ Board' = Board /\ board_positions(0, 3)' = Board /\ in_deal' = in_deal
      /\ live(folded)' = live(folded) /\ live(folded) = in_deal
      /\ street = 0 /\ folded = {} /\ in_deal # {}
  <2>1. street = 0 /\ folded = {}
    BY <1>0, <1>1 DEF ShareOrder, LaterStreetsKept, Before
  <2> QED
    BY <1>0, <1>1, <1>2, <2>1, LayoutKept DEF live, Board
<1>8. OwnHolesKept'
  BY <1>6, <1>7 DEF OwnHolesKept
<1>9. LaterStreetsKept'
  <2>1. actors(folded, all_in)' \subseteq in_deal
    BY <1>7 DEF actors
  <2>2. street' = 0 /\ folded' = {}
    BY <1>2, <1>7
  <2>3. phase' # "release"
    BY <1>5
  <2> QED
    BY <1>6, <1>7, <2>1, <2>2, <2>3 DEF LaterStreetsKept, Board
<1>10. HolesIn'
  <2>1. phase' \in Before => holes_done' = count_b(complete_seats')
    BY <1>4
  <2> QED
    BY <1>5, <1>7, <2>1 DEF HolesIn, Before
<1>11. BoardIn'
  <2>1. released(folded, 0, board_shares)'
    BY <1>0, <1>2, <1>7 DEF released, board_len, ShareTypes
  <2> QED
    BY <1>2, <1>5, <1>7, <2>1 DEF BoardIn
<1>12. StepOwed'
  <2>1. PICK k \in in_deal : TRUE
    BY <1>7
  <2>2. ~has_shown(k, shares_posted)'
    BY <1>6, <1>7, <2>1 DEF has_shown, own_positions
  <2> QED
    BY <1>5, <1>7, <2>2 DEF StepOwed
<1>13. ScoresCounted' /\ OffenderOwes'
  BY <1>0, <1>1, <1>2, <1>5 DEF ShareOrder, ScoresCounted, OffenderOwes, Before
<1> QED
  BY <1>3, <1>8, <1>9, <1>10, <1>11, <1>12, <1>13 DEF ShareOrder


------------------------------------------------------------------------------
(* Board shares. *)

LEMMA ReleaseShares ==
    ASSUME ShareInv, NEW p \in Players, NEW s \in Seats, NEW now \in Times, release(p, s, now)
    PROVE  ShareOrder'
<1> DEFINE ps == release_positions
           betting == actors(folded, all_in)
           done == released(folded, release_street, board_shares)'
<1>0. /\ ShareOrder /\ BettingOrder /\ TypeInv /\ DeckInv /\ Roster /\ ShareTypes
      /\ in_deal \subseteq Seats /\ street \in 0..3 /\ release_street \in 0..3
  BY DEF ShareInv, BettingInv, DeckInv, DeckInOrder, PrepInv, Roster, TypeInv, TypeOK,
         RosterTypes, StreetTypes
<1>1. /\ phase = "release" /\ s \in in_deal
      /\ board_shares' = [board_shares EXCEPT ![s] = @ + newly_shared(ps, s)]
      /\ shares_posted' = shares_posted \cup (ps \X {s})
      /\ UNCHANGED <<in_deal, n_players, folded, all_in, hole_shares, holes_done, scores, shown>>
  <2>1. s \in in_deal
    BY <1>0, KeyInDeal DEF release, release_asserts
  <2> QED
    BY <2>1 DEF release, release_asserts, rosterVars, potVars, showVars
<1>2. /\ IF released(folded, release_street, board_shares') THEN resume_betting(now)
         ELSE UNCHANGED <<stageVars, street, release_street>>
      /\ folded' = folded
  BY <1>1 DEF release, release_asserts
<1>3. ps = board_positions(street, release_street) /\ ps \subseteq Board
      /\ ps \cap board_positions(release_street, 3) = {} /\ Board \cap 0..(2 * n_players - 1) = {}
  BY <1>0, BoardPositionsOf DEF release_positions
<1>4. SharesCounted'
  BY <1>0, <1>1, <1>3, SharesCountedOn DEF ShareOrder
<1> HIDE DEF ps
<1>5. /\ live(folded)' = live(folded) /\ actors(folded, all_in)' = betting
      /\ live(folded) \subseteq Seats /\ betting \subseteq in_deal
      /\ complete_seats' = complete_seats
      /\ \A k \in Seats : own_positions(k)' = own_positions(k)
  BY <1>0, <1>1, LayoutKept DEF live, actors, complete_seats, need
<1>6. \A k \in Seats : /\ board_shares'[k] >= board_shares[k]
                       /\ board_shares[k] \in Nat /\ board_shares'[k] \in Nat
  <2>1. newly_shared(ps, s) \in Nat
    <3>1. ps \in SUBSET Positions
      BY <1>0, <1>3, BoardPositions
    <3> QED
      BY <3>1, NewlyShared
  <2> QED
    BY <1>0, <1>1, <2>1 DEF ShareTypes
<1>8. /\ phase' \in {"playing", "release", "showdown"}
      /\ phase' = "playing" => /\ count_b(betting) > 1 /\ street' = release_street
                               /\ released(folded, street, board_shares)'
      /\ phase' = "release" => /\ UNCHANGED <<street, release_street>>
                               /\ ~released(folded, release_street, board_shares)'
      /\ phase' = "showdown" => released(folded, 3, board_shares)'
  <2>1. CASE released(folded, release_street, board_shares')
    <3>1. resume_betting(now) /\ street' = release_street
      BY <1>2, <2>1 DEF resume_betting
    <3>2. released(folded, street, board_shares)'
      BY <1>5, <2>1, <3>1 DEF released
    <3>3. CASE count_b(betting) > 1
      BY <3>1, <3>2, <3>3 DEF resume_betting
    <3>4. CASE ~(count_b(betting) > 1)
      <4>1. count_b(betting) <= 1
        <5>1. betting \in SUBSET Seats
          BY <1>0, <1>5
        <5>2. count_b(betting) \in 0..6
          BY <5>1, CountB
        <5> QED
          BY <3>4, <5>2
      <4>2. release_street = 3
        BY <1>0, <1>1, <4>1 DEF ShareOrder, LaterStreetsKept
      <4>3. close_street(now, release_street, betting)
        BY <3>1, <3>4 DEF resume_betting
      <4>4. phase' = "showdown"
        BY <4>2, <4>3 DEF close_street
      <4> QED
        BY <3>1, <3>2, <4>2, <4>4
    <3> QED
      BY <3>3, <3>4
  <2>2. CASE ~released(folded, release_street, board_shares')
    <3>1. phase' = "release" /\ UNCHANGED <<street, release_street>>
      BY <1>1, <1>2, <2>2 DEF stageVars
    <3>2. ~released(folded, release_street, board_shares)'
      BY <1>5, <2>2, <3>1 DEF released
    <3> QED
      BY <3>1, <3>2
  <2> QED
    BY <2>1, <2>2
<1>9. OwnHolesKept'
  <2> SUFFICES ASSUME Open', NEW k \in in_deal, NEW pos \in own_positions(k)
               PROVE  <<pos, k>> \notin shares_posted'
    BY <1>0, <1>1, <1>5 DEF OwnHolesKept
  <2>1. Open
    BY <1>1, <1>5, <1>8 DEF Open, Before
  <2>2. <<pos, k>> \notin shares_posted
    BY <1>0, <2>1 DEF ShareOrder, OwnHolesKept
  <2>3. pos \notin ps
    BY <1>0, <1>3, HolePositions
  <2> QED
    BY <1>1, <2>2, <2>3
<1>10. LaterStreetsKept'
  <2>1. \A pos \in board_positions(release_street, 3), k \in betting : <<pos, k>> \notin shares_posted'
    <3>1. \A pos \in board_positions(release_street, 3), k \in betting : <<pos, k>> \notin shares_posted
      BY <1>0, <1>1 DEF ShareOrder, LaterStreetsKept
    <3> QED
      BY <1>1, <1>3, <3>1
  <2>2. phase' = "playing" => board_positions(street, 3)' = board_positions(release_street, 3)
    BY <1>1, <1>8 DEF board_positions
  <2>3. phase' = "release" => /\ board_positions(release_street, 3)' = board_positions(release_street, 3)
                              /\ (count_b(betting) <= 1 => release_street' = 3)
    BY <1>0, <1>1, <1>8 DEF board_positions, ShareOrder, LaterStreetsKept
  <2> QED
    BY <1>5, <1>8, <2>1, <2>2, <2>3 DEF LaterStreetsKept, Before
<1>11. HolesIn'
  BY <1>0, <1>1, <1>5, <1>8 DEF ShareOrder, HolesIn, Before
<1>12. BoardIn'
  <2>1. \A k \in folded' : board_shares'[k] >= 5
    <3>1. \A k \in folded : k \in Seats /\ board_shares[k] >= 5
      BY <1>0 DEF ShareOrder, BoardIn, TypeInv, TypeOK, PotTypes
    <3>2. \A k \in Seats : board_shares[k] >= 5 => board_shares'[k] >= 5
      BY <1>6
    <3> QED
      BY <1>1, <3>1, <3>2
  <2> QED
    BY <1>8, <2>1 DEF BoardIn
<1>13. StepOwed'
  BY <1>8 DEF StepOwed
<1>14. ScoresCounted' /\ OffenderOwes'
  <2>1. shown = 0 /\ scores = zeros
    BY <1>0, <1>1 DEF ShareOrder, ScoresCounted
  <2>2. scored' = {} /\ count_b({}) = 0
    BY <1>1, <1>5, <2>1, CountB DEF scored, zeros
  <2> QED
    BY <1>1, <1>8, <2>1, <2>2 DEF ScoresCounted, OffenderOwes
<1> QED
  BY <1>4, <1>9, <1>10, <1>11, <1>12, <1>13, <1>14 DEF ShareOrder


------------------------------------------------------------------------------
(* Hands tabled and proved. *)

LEMMA ShowShares ==
    ASSUME ShareInv, NEW p \in Players, NEW s \in Seats, NEW now \in Times, show(p, s, now)
    PROVE  ShareOrder'
<1> DEFINE everyone == \A k \in live(folded) : has_shown(k, shares_posted')
<1>0. /\ ShareOrder /\ BettingOrder /\ TypeInv /\ Roster /\ ShareTypes
      /\ in_deal \subseteq Seats /\ live(folded) \subseteq in_deal
  BY DEF ShareInv, BettingInv, DeckInv, DeckInOrder, PrepInv, Roster, TypeInv, TypeOK,
         RosterTypes, live
<1>1. /\ phase \in {"tabling", "showdown", "done", "aborted"} /\ s \in in_deal
      /\ shares_posted' = shares_posted \cup (own_positions(s) \X {s})
      /\ IF phase = "tabling" /\ everyone
         THEN run_out(now) ELSE UNCHANGED <<phase, street, release_street>>
      /\ UNCHANGED <<in_deal, n_players, folded, all_in, hole_shares, holes_done, board_shares>>
      /\ UNCHANGED <<scores, shown, offender>>
  BY DEF show, show_asserts, rosterVars, potVars, showVars
<1>2. SharesCounted'
  BY <1>0, <1>1, SharesCountedOn DEF ShareOrder
<1>3. /\ live(folded)' = live(folded) /\ actors(folded, all_in)' = actors(folded, all_in)
      /\ complete_seats' = complete_seats /\ scored' = scored
  BY <1>1 DEF live, actors, complete_seats, need, scored
<1>4. /\ phase' = phase \/ (phase = "tabling" /\ phase' \in {"release", "showdown"})
      /\ phase' = "release" => /\ release_street' = 3 /\ count_b(actors(folded, all_in)') <= 1
                               /\ ~released(folded, release_street, board_shares)'
      /\ phase' = "showdown" => released(folded, 3, board_shares)'
      /\ phase' = "tabling" => ~everyone
  <2>1. CASE phase = "tabling" /\ everyone
    <3>1. run_out(now) /\ count_b(actors(folded, all_in)) <= 1
      BY <1>0, <1>1, <2>1 DEF BettingOrder, TablingClosed
    <3>2. released(folded, 3, board_shares)' = released(folded, 3, board_shares)
      BY <1>1, <1>3 DEF released
    <3>3. CASE released(folded, 3, board_shares)
      BY <2>1, <3>1, <3>2, <3>3 DEF run_out
    <3>4. CASE ~released(folded, 3, board_shares)
      <4>1. phase' = "release" /\ release_street' = 3
        BY <3>1, <3>4 DEF run_out
      <4>2. ~released(folded, release_street, board_shares)'
        BY <3>2, <3>4, <4>1 DEF released
      <4> QED
        BY <1>3, <2>1, <3>1, <4>1, <4>2
    <3> QED
      BY <3>3, <3>4
  <2>2. CASE ~(phase = "tabling" /\ everyone)
    <3>1. UNCHANGED <<phase, street, release_street>>
      BY <1>1, <2>2
    <3>2. phase = "showdown" => released(folded, 3, board_shares)
      BY <1>0 DEF ShareOrder, BoardIn
    <3>3. released(folded, 3, board_shares)' = released(folded, 3, board_shares)
      BY <1>1, <1>3 DEF released
    <3> QED
      BY <1>1, <2>2, <3>1, <3>2, <3>3
  <2> QED
    BY <2>1, <2>2
<1>5. OwnHolesKept'
  <2>1. actors(folded, all_in) \in SUBSET Seats
    BY <1>0 DEF actors
  <2>2. count_b(actors(folded, all_in)) \in 0..6
    BY <2>1, CountB
  <2>3. phase' = "release" => ~(count_b(actors(folded, all_in)') > 1)
    BY <1>3, <1>4, <2>2
  <2> QED
    BY <1>1, <1>4, <2>3 DEF OwnHolesKept, Open, Before
<1>6. LaterStreetsKept'
  <2>1. board_positions(3, 3) = {}
    <3>1. 3 \in 0..3
      OBVIOUS
    <3> QED
      BY <1>0, <3>1, BoardPositionsOf
  <2>2. release_street' = 3 => board_positions(release_street, 3)' = {}
    BY <1>1, <2>1 DEF board_positions
  <2> QED
    BY <1>1, <1>4, <2>2 DEF LaterStreetsKept, Before
<1>7. HolesIn' /\ BoardIn'
  <2>1. HolesIn'
    BY <1>0, <1>1, <1>3, <1>4 DEF ShareOrder, HolesIn, Before
  <2>2. \A k \in folded' : board_shares'[k] >= 5
    BY <1>0, <1>1 DEF ShareOrder, BoardIn
  <2> QED
    BY <1>1, <1>4, <2>1, <2>2 DEF BoardIn
<1>8. StepOwed'
  <2>1. everyone <=> (\A k \in live(folded) : has_shown(k, shares_posted))'
    BY <1>1, <1>3 DEF has_shown
  <2> QED
    BY <1>4, <2>1 DEF StepOwed
<1>9. ScoresCounted' /\ OffenderOwes'
  <2>1. phase = "tabling" => shown = 0 /\ scored = {}
    BY <1>0 DEF ShareOrder, ScoresCounted, scored, live, zeros
  <2>2. count_b({}) = 0
    BY CountB
  <2> QED
    BY <1>0, <1>1, <1>3, <1>4, <2>1, <2>2 DEF ShareOrder, ScoresCounted, OffenderOwes, Before
<1> QED
  BY <1>2, <1>5, <1>6, <1>7, <1>8, <1>9 DEF ShareOrder

\* A hand proved counts once.
LEMMA ShowHandShares ==
    ASSUME ShareInv, NEW p \in Players, NEW s \in Seats, NEW score \in Scores, NEW now \in Times,
           show_hand(p, s, score, now)
    PROVE  ShareOrder'
<1>0. /\ ShareOrder /\ TypeInv /\ n_players = count_b(in_deal)
      /\ in_deal \subseteq Seats /\ scores \in [Seats -> Scores \cup {0}]
  BY DEF ShareInv, BettingInv, DeckInv, DeckInOrder, PrepInv, TypeInv, TypeOK,
         RosterTypes, ShowTypes
<1>1. /\ phase = "showdown" /\ phase' = phase /\ s \in live(folded) /\ scores[s] = 0
      /\ scores' = [scores EXCEPT ![s] = score] /\ shown' = shown + 1
      /\ UNCHANGED <<in_deal, n_players, shareVars, folded, all_in, street, release_street>>
  BY DEF show_hand, show_hand_asserts, rosterVars, potVars, streetVars, stageVars
<1>2. shown = count_b(scored) /\ scored \in SUBSET Seats
  BY <1>0, <1>1 DEF ShareOrder, ScoresCounted, scored, live
<1>3. scored' = scored \cup {s} /\ s \in Seats \ scored
  <2>1. score # 0
    BY InputsAssumption
  <2>2. live(folded)' = live(folded) /\ live(folded) \subseteq Seats
    BY <1>0, <1>1 DEF live
  <2>3. scores'[s] = score /\ \A k \in live(folded) \ {s} : scores'[k] = scores[k]
    BY <1>0, <1>1, <2>2
  <2> QED
    BY <1>1, <2>1, <2>2, <2>3 DEF scored
<1>4. count_b(scored') = shown'
  BY <1>1, <1>2, <1>3, CountAdd
<1>5. ScoresCounted' /\ OffenderOwes'
  BY <1>1, <1>4 DEF ScoresCounted, OffenderOwes, Before
<1> QED
  BY <1>0, <1>1, <1>5, ShareKept


------------------------------------------------------------------------------
(* Bets. *)

\* A player who has shared no card of a later street has not shared the next one.
LEMMA NextStreetOwed ==
    ASSUME Roster, NEW st \in 0..2, NEW P \in SUBSET Board, P \cap board_positions(st, 3) = {}
    PROVE  ~(Cardinality(P) >= board_len(st + 1))
<1>1. /\ n_players \in 0..6 /\ Board = (2 * n_players)..(2 * n_players + 4)
      /\ board_positions(st, 3) = (2 * n_players + board_len(st))..(2 * n_players + 4)
  <2>1. st \in 0..3
    OBVIOUS
  <2> QED
    BY <2>1, BoardPositionsOf DEF Roster, RosterTypes
<1>2. board_len(st) \in Nat /\ board_len(st + 1) \in Nat /\ board_len(st) < board_len(st + 1)
  BY DEF board_len
<1> DEFINE D == (2 * n_players)..(2 * n_players + board_len(st) - 1)
<1>3. P \in SUBSET D
  <2> SUFFICES ASSUME NEW pos \in P PROVE pos \in D
    OBVIOUS
  <2>1. pos \in (2 * n_players)..(2 * n_players + 4)
        /\ pos \notin (2 * n_players + board_len(st))..(2 * n_players + 4)
    BY <1>1
  <2> QED
    BY <1>1, <1>2, <2>1
<1>4. IsFiniteSet(D) /\ Cardinality(D) = board_len(st)
  <2>1. 2 * n_players \in Int /\ 2 * n_players + board_len(st) - 1 \in Int
    BY <1>1, <1>2
  <2>2. /\ IsFiniteSet(D)
        /\ Cardinality(D) = IF 2 * n_players > 2 * n_players + board_len(st) - 1 THEN 0
                            ELSE (2 * n_players + board_len(st) - 1) - 2 * n_players + 1
    BY <2>1, FS_Interval, Zenon
  <2> QED
    BY <1>1, <1>2, <2>2
<1> HIDE DEF D
<1>5. Cardinality(P) \in Nat /\ Cardinality(P) <= board_len(st)
  BY <1>3, <1>4, FS_Subset, FS_CardinalityType
<1> QED
  BY <1>2, <1>5

\* An action that leaves the street open, closes it or ends the deal.  Whoever goes out
\* of the betting shares the whole board; whoever stays in it shares nothing.
LEMMA BetShares ==
    ASSUME ShareInv, TwoStillIn', NEW p \in Players, BetCall(p)
    PROVE  ShareOrder'
<1>1. PICK s \in Seats, kind \in Kinds, now \in Times :
          \E t \in IF kind = 2 THEN Amounts ELSE {0} :
              act(p, s, kind, t, now) \/ act_out(p, s, kind, t, now)
  BY DEF BetCall
<1>2. PICK t \in Nat : act(p, s, kind, t, now) \/ act_out(p, s, kind, t, now)
  BY <1>1, InputsAssumption
<1>0. /\ ShareOrder /\ BettingOrder /\ TypeInv /\ Roster /\ ShareTypes
      /\ in_deal \subseteq Seats /\ live(folded) \subseteq in_deal /\ street \in 0..3
      /\ folded \subseteq Seats /\ DeckInv
  BY DEF ShareInv, BettingInv, DeckInv, DeckInOrder, PrepInv, Roster, TypeInv, TypeOK,
         RosterTypes, live, StreetTypes, PotTypes
<1>3. /\ phase = "playing" /\ s = to_act
      /\ UNCHANGED <<in_deal, n_players, street, hole_shares, holes_done, scores, shown>>
  BY <1>2 DEF act, act_asserts, act_out, act_out_asserts, act_check, rosterVars, shareVars, showVars
<1>4. s \in actors(folded, all_in) /\ s \in in_deal /\ s \notin folded /\ s \notin all_in
  BY <1>0, <1>3 DEF BettingOrder, TurnInOrder, actors, NONE, Seats
<1>5. PICK out \in BOOLEAN :
          /\ apply_action(s, kind, t, out, now, bank_left(s, now))
          /\ IF out THEN /\ shares_posted' = shares_posted \cup (Board \X {s})
                         /\ board_shares' = [board_shares EXCEPT ![s] = 5]
                    ELSE UNCHANGED <<shares_posted, board_shares>>
  BY <1>2 DEF act, act_asserts, act_out, act_out_asserts, shareVars, Board
<1> DEFINE betting == actors(folded, all_in)
<1>6. /\ folded' \subseteq folded \cup {s} /\ (~out => folded' = folded)
      /\ actors(folded, all_in)' \subseteq betting /\ (out => s \notin actors(folded, all_in)')
      /\ live(folded)' \subseteq live(folded)
  BY <1>3, <1>4, <1>5 DEF apply_action, actors, live
<1>7. \/ phase' = "done"
      \/ phase' = "playing"
      \/ /\ phase' = "showdown" /\ street = 3
      \/ /\ phase' = "tabling"
      \/ /\ phase' = "release" /\ street # 3 /\ release_street' = street + 1
         /\ count_b(actors(folded, all_in)') > 1
  <2>1. \/ phase' = "done" \/ phase' = phase
        \/ \E betters : close_street(now, street, betters) /\ betters = actors(folded, all_in)'
    <3>1. \A f, a : folded' = f /\ all_in' = a => actors(f, a) = actors(folded, all_in)'
      BY <1>3 DEF actors
    <3> QED
      BY <1>5, <3>1 DEF apply_action, set_turn
  <2> QED
    BY <1>3, <2>1 DEF close_street
<1>8. /\ SharesCounted'
      /\ \A k \in Seats : board_shares'[k] \in Nat /\ board_shares[k] \in Nat
                          /\ board_shares'[k] >= board_shares[k]
      /\ \A k \in Seats \ {s} : board_shares'[k] = board_shares[k]
      /\ out => board_shares'[s] = 5
  <2>1. CASE out
    <3>1. SharesCounted'
      BY <1>0, <1>3, <1>4, <1>5, <2>1, SharesCountedOn DEF ShareOrder
    <3>2. \A k \in in_deal : board_shares[k] \in Nat /\ board_shares[k] <= 5
      BY <1>0, SharesBounded DEF ShareOrder, SharesCounted
    <3> QED
      BY <1>0, <1>4, <1>5, <2>1, <3>1, <3>2 DEF ShareTypes
  <2>2. CASE ~out
    <3>1. \A k \in in_deal : /\ holes_shared(k)' = holes_shared(k)
                             /\ board_shared(k)' = board_shared(k)
      BY <1>0, <1>3, <1>5, <2>2, LayoutKept DEF holes_shared, board_shared
    <3>2. SharesCounted'
      BY <1>0, <1>3, <1>5, <2>2, <3>1 DEF ShareOrder, SharesCounted
    <3> QED
      BY <1>0, <1>5, <2>2, <3>2 DEF ShareTypes
  <2> QED
    BY <2>1, <2>2
<1>9. /\ \A k \in Seats : own_positions(k)' = own_positions(k)
      /\ Board \cap 0..(2 * n_players - 1) = {} /\ complete_seats' = complete_seats
      /\ board_positions(street, 3)' = board_positions(street, 3)
  <2>1. 0 \in 0..3
    OBVIOUS
  <2>2. Board \cap 0..(2 * n_players - 1) = {}
    BY <1>0, <2>1, BoardPositionsOf
  <2> QED
    BY <1>3, <2>2, LayoutKept DEF complete_seats, need, board_positions
<1>10. \A k \in in_deal : \A pos \in own_positions(k) : <<pos, k>> \notin shares_posted'
  <2> SUFFICES ASSUME NEW k \in in_deal, NEW pos \in own_positions(k)
               PROVE  <<pos, k>> \notin shares_posted'
    OBVIOUS
  <2>1. <<pos, k>> \notin shares_posted
    BY <1>0, <1>3 DEF ShareOrder, OwnHolesKept, Open
  <2>2. pos \notin Board
    BY <1>0, <1>9, HolePositions
  <2> QED
    BY <1>5, <2>1, <2>2
<1>11. \A pos \in board_positions(street, 3), k \in actors(folded, all_in)' :
            <<pos, k>> \notin shares_posted'
  <2>1. \A pos \in board_positions(street, 3), k \in betting : <<pos, k>> \notin shares_posted
    BY <1>0, <1>3 DEF ShareOrder, LaterStreetsKept
  <2> HIDE DEF betting
  <2> SUFFICES ASSUME NEW pos \in board_positions(street, 3), NEW k \in actors(folded, all_in)'
               PROVE  <<pos, k>> \notin shares_posted'
    OBVIOUS
  <2>2. <<pos, k>> \notin shares_posted
    BY <1>6, <2>1
  <2> QED
    BY <1>5, <1>6, <2>2
<1>12. OwnHolesKept'
  BY <1>0, <1>3, <1>9, <1>10 DEF OwnHolesKept
<1>13. LaterStreetsKept'
  <2>1. phase' = "playing" => board_positions(street, 3)' = board_positions(street, 3)
    BY <1>9
  <2>2. ASSUME phase' = "release"
        PROVE  /\ board_positions(release_street, 3)' \subseteq board_positions(street, 3)
               /\ ~(count_b(actors(folded, all_in)') <= 1)
    <3>1. release_street' = street + 1 /\ street # 3 /\ count_b(actors(folded, all_in)') > 1
      BY <1>7, <2>2
    <3>2. street \in 0..3 /\ street + 1 \in 0..3
      BY <1>0, <3>1
    <3>3. board_positions(street + 1, 3) \subseteq board_positions(street, 3)
      <4>1. board_len(street) \in Nat /\ board_len(street + 1) \in Nat
            /\ board_len(street) <= board_len(street + 1)
        BY <3>2 DEF board_len
      <4>2. n_players \in 0..6
        BY <1>0 DEF Roster, RosterTypes
      <4>3. /\ board_positions(street, 3)
                   = (2 * n_players + board_len(street))..(2 * n_players + 4)
            /\ board_positions(street + 1, 3)
                   = (2 * n_players + board_len(street + 1))..(2 * n_players + 4)
        BY <1>0, <3>2, BoardPositionsOf
      <4> QED
        BY <4>1, <4>2, <4>3
    <3>4. board_positions(release_street, 3)' = board_positions(street + 1, 3)
      BY <1>3, <3>1 DEF board_positions
    <3>5. count_b(actors(folded, all_in)') \in 0..6
      <4>1. actors(folded, all_in)' \in SUBSET Seats
        BY <1>0, <1>6 DEF actors
      <4> QED
        BY <4>1, CountB
    <3> QED
      BY <3>1, <3>3, <3>4, <3>5
  <2> QED
    BY <1>7, <1>11, <2>1, <2>2 DEF LaterStreetsKept, Before
<1>14. HolesIn'
  BY <1>0, <1>3, <1>7, <1>9 DEF ShareOrder, HolesIn, Before
<1>15. BoardIn'
  <2>1. \A k \in folded' : board_shares'[k] >= 5
    <3> SUFFICES ASSUME NEW k \in folded' PROVE board_shares'[k] >= 5
      OBVIOUS
    <3>1. CASE k \in folded
      <4>1. k \in Seats /\ board_shares[k] >= 5
        BY <1>0, <3>1 DEF ShareOrder, BoardIn
      <4> QED
        BY <1>8, <4>1
    <3>2. CASE k \notin folded
      BY <1>6, <1>8, <3>2
    <3> QED
      BY <3>1, <3>2
  <2>2. ASSUME NEW k \in live(folded)' PROVE board_shares'[k] >= board_len(street)
    <3>1. k \in live(folded) /\ k \in Seats
      BY <1>0, <1>6
    <3>2. board_shares[k] >= board_len(street)
      BY <1>0, <1>3, <3>1 DEF ShareOrder, BoardIn, released
    <3>3. board_len(street) \in Int
      BY <1>0, BoardLen
    <3> QED
      BY <1>8, <3>1, <3>2, <3>3
  <2>3. released(folded, street, board_shares)'
    BY <1>3, <2>2 DEF released
  <2>4. phase' = "showdown" => released(folded, 3, board_shares)'
    BY <1>3, <1>7, <2>2 DEF released
  <2> QED
    BY <2>1, <2>3, <2>4 DEF BoardIn
<1>16. StepOwed'
  <2>1. ASSUME phase' = "release" PROVE ~released(folded, release_street, board_shares)'
    <3>1. release_street' = street + 1 /\ street \in 0..2 /\ count_b(actors(folded, all_in)') > 1
      BY <1>0, <1>7, <2>1
    <3>2. PICK k : k \in actors(folded, all_in)'
      <4>1. count_b({}) = 0
        BY CountB
      <4> QED
        BY <3>1, <4>1
    <3>3. k \in in_deal /\ k \in live(folded)'
      BY <1>3, <3>2 DEF actors, live
    <3>4. board_shared(k)' \in SUBSET Board /\ board_shared(k)' \cap board_positions(street, 3) = {}
      <4>1. board_shared(k)' = {pos \in Board : <<pos, k>> \in shares_posted'}
        BY <1>3, LayoutKept DEF board_shared
      <4> QED
        BY <1>11, <3>2, <4>1
    <3>5. ~(Cardinality(board_shared(k)') >= board_len(street + 1))
      BY <1>0, <3>1, <3>4, NextStreetOwed
    <3>6. ~(board_shares'[k] >= board_len(street + 1))
      BY <1>3, <1>8, <3>3, <3>5 DEF SharesCounted
    <3> QED
      BY <3>1, <3>3, <3>6 DEF released
  <2>2. ASSUME phase' = "tabling" PROVE ~(\A k \in live(folded) : has_shown(k, shares_posted))'
    <3>1. PICK k : k \in live(folded)'
      <4>1. count_b({}) = 0 /\ count_b(live(folded)') >= 2
        BY <2>2, CountB DEF TwoStillIn, dealing
      <4> QED
        BY <4>1
    <3>2. k \in in_deal
      BY <1>3, <3>1 DEF live
    <3>3. ~has_shown(k, shares_posted)'
      BY <1>3, <1>10, <3>2 DEF has_shown, own_positions
    <3> QED
      BY <3>1, <3>3
  <2> QED
    BY <2>1, <2>2 DEF StepOwed
<1>17. ScoresCounted' /\ OffenderOwes'
  <2>1. shown = 0 /\ scores = zeros
    BY <1>0, <1>3 DEF ShareOrder, ScoresCounted
  <2>2. scored' = {} /\ count_b({}) = 0
    <3>1. live(folded)' \subseteq Seats
      BY <1>0, <1>6
    <3> QED
      BY <1>3, <2>1, <3>1, CountB DEF scored, zeros
  <2> QED
    BY <1>3, <1>7, <2>1, <2>2 DEF ScoresCounted, OffenderOwes
<1> QED
  BY <1>8, <1>12, <1>13, <1>14, <1>15, <1>16, <1>17 DEF ShareOrder


------------------------------------------------------------------------------
(* Missed steps. *)

\* While a deal waits for a step, a player still in owes it, unless it is a showdown with
\* every hand proved.
LEMMA SomeoneOwes ==
    ASSUME ShareInv, phase \notin {"idle", "done", "aborted"}
    PROVE  owing \in live(folded) \/ shown = count_b(live(folded))
<1>0. /\ ShareOrder /\ BettingOrder /\ TypeInv /\ DeckInOrder /\ phase \in Phase
      /\ in_deal \subseteq Seats /\ live(folded) \subseteq Seats
  BY DEF ShareInv, BettingInv, DeckInv, DeckInOrder, PrepInv, TypeInv, TypeOK,
         RosterTypes, live, StageTypes
<1>1. ASSUME NEW v \in SUBSET live(folded), v # {} PROVE first_in(v) \in live(folded)
  BY <1>0, <1>1, FirstIn
<1>2. phase \in Before => live(folded) = in_deal
  BY <1>0 DEF ShareOrder, LaterStreetsKept, live
<1>3. CASE phase = "keys"
  <2>1. {s \in in_deal : keys[s] = NoPlayer} # {}
    BY <1>0, <1>3 DEF DeckInOrder, key_holders
  <2> QED
    BY <1>1, <1>2, <1>3, <2>1 DEF owing, first_without_key, Before
<1>4. CASE phase = "shuffle"
  BY <1>0, <1>2, <1>4 DEF owing, DeckInOrder, Before
<1>5. CASE phase = "holes"
  <2>1. PICK s \in in_deal : hole_shares[s] # need
    BY <1>0, <1>5 DEF ShareOrder, HolesIn, complete_seats, Before
  <2>2. hole_shares[s] < need
    <3>1. Roster
      BY <1>0 DEF Roster, DeckInOrder, TypeInv, TypeOK
    <3>2. hole_shares[s] \in Nat /\ hole_shares[s] <= need /\ need \in Nat
      BY <1>0, <3>1, SharesBounded, HolesOwed DEF ShareOrder, SharesCounted
    <3> QED
      BY <2>1, <3>2
  <2>3. {k \in in_deal : hole_shares[k] < 2 * n_players - 2} # {}
    BY <2>2 DEF need
  <2> QED
    BY <1>1, <1>2, <1>5, <2>3 DEF owing, first_without_holes, Before
<1>6. CASE phase = "playing"
  BY <1>0, <1>6 DEF owing, BettingOrder, TurnPhases, TurnInOrder, actors, live
<1>7. CASE phase = "release"
  <2>1. {s \in live(folded) : board_shares[s] < board_len(release_street)} # {}
    <3>1. PICK s \in live(folded) : ~(board_shares[s] >= board_len(release_street))
      BY <1>0, <1>7 DEF ShareOrder, StepOwed, released
    <3>2. board_shares[s] \in Int /\ board_len(release_street) \in Int
      BY <1>0, BoardLen DEF TypeInv, TypeOK, ShareTypes
    <3> QED
      BY <3>1, <3>2
  <2> QED
    BY <1>1, <1>7, <2>1 DEF owing, first_without_release
<1>8. CASE phase = "tabling"
  <2>1. {s \in live(folded) : ~has_shown(s, shares_posted)} # {}
    BY <1>0, <1>8 DEF ShareOrder, StepOwed
  <2> QED
    BY <1>1, <1>8, <2>1 DEF owing, first_without_show
<1>9. CASE phase = "showdown"
  <2>1. owing = first_without_score
    BY <1>9 DEF owing
  <2>2. CASE {s \in live(folded) : scores[s] = 0} # {}
    BY <1>1, <2>1, <2>2 DEF first_without_score
  <2>3. CASE {s \in live(folded) : scores[s] = 0} = {}
    <3>1. scored = live(folded)
      BY <2>3 DEF scored
    <3> QED
      BY <1>0, <1>9, <3>1 DEF ShareOrder, ScoresCounted
  <2> QED
    BY <2>2, <2>3
<1> QED
  BY <1>0, <1>3, <1>4, <1>5, <1>6, <1>7, <1>8, <1>9 DEF Phase

LEMMA ExpireShares ==
    ASSUME ShareInv, expire
    PROVE  ShareOrder'
<1>0. /\ ShareOrder /\ TypeInv /\ DeadlineWhileDealing /\ n_players = count_b(in_deal)
      /\ phase \in Phase
  BY DEF ShareInv, BettingInv, CustodyInv, DeckInv, DeckInOrder, PrepInv, TypeInv, TypeOK,
         StageTypes
<1>1. /\ phase \notin {"idle", "done", "aborted"} /\ phase' = "aborted" /\ offender' = owing
      /\ UNCHANGED <<in_deal, n_players, shareVars, folded, all_in, street, release_street>>
      /\ UNCHANGED <<scores, shown>>
  BY <1>0 DEF expire, DeadlineWhileDealing, rosterVars, potVars, streetVars, showVars
<1>2. live(folded)' = live(folded) /\ scored' = scored
  BY <1>1 DEF live, scored
<1>3. OffenderOwes'
  BY <1>1, <1>2, SomeoneOwes DEF OffenderOwes
<1>4. ScoresCounted'
  <2>1. phase # "showdown" => shown = 0 /\ scored = {}
    BY <1>0, <1>1 DEF ShareOrder, ScoresCounted, scored, live, zeros, Phase, Before, TypeInv,
                      TypeOK, RosterTypes
  <2>2. count_b({}) = 0
    BY CountB
  <2> QED
    BY <1>0, <1>1, <1>2, <2>1, <2>2 DEF ShareOrder, ScoresCounted, Before
<1> QED
  BY <1>0, <1>1, <1>3, <1>4, ShareKept

------------------------------------------------------------------------------
(* The whole table. *)

LEMMA ShareInitially == FreshTable => ShareInv
<1> SUFFICES ASSUME FreshTable PROVE ShareInv
  OBVIOUS
<1>1. /\ phase = "idle" /\ in_deal = {} /\ folded = {} /\ shown = 0 /\ scores = zeros
  BY DEF FreshTable, NeverDealt
<1>2. ShareOrder
  BY <1>1 DEF ShareOrder, SharesCounted, OwnHolesKept, Open, LaterStreetsKept, HolesIn, BoardIn,
              StepOwed, ScoresCounted, OffenderOwes, Before
<1> QED
  BY <1>2, BettingInitially, DeckInitially DEF ShareInv

LEMMA SharePreserved == ShareInv /\ [Next]_vars => ShareInv'
<1> SUFFICES ASSUME ShareInv, [Next]_vars PROVE ShareInv'
  OBVIOUS
<1>0. /\ BettingInv' /\ DeckInv' /\ TypeInv' /\ TwoStillIn' /\ n_players' = count_b(in_deal')
      /\ ShareOrder /\ TypeInv /\ n_players = count_b(in_deal)
  <2>1. BettingInv' /\ DeckInv'
    BY BettingPreserved, DeckPreserved DEF ShareInv
  <2> QED
    BY <2>1 DEF ShareInv, BettingInv, BettingOrder, DeckInv, DeckInOrder, PrepInv
<1>1. ASSUME UNCHANGED <<in_deal, n_players, shareVars, folded, all_in, street, release_street>>,
             UNCHANGED <<scores, shown, offender>>,
             phase' = phase \/ phase' = "done" \/ (phase \in Before /\ phase' \in Before)
      PROVE  ShareOrder'
  BY <1>0, <1>1, ShareKept, ScoresKept
<1>2. ASSUME Tick \/ UNCHANGED vars PROVE ShareOrder'
  BY <1>1, <1>2 DEF Tick, vars, rosterVars, potVars, streetVars, stageVars, showVars
<1>3. ASSUME NEW now \in Times, start_deal(now) PROVE ShareOrder'
  BY <1>0, <1>3, StartDealShares
<1>4. ASSUME NEW now \in Times, expire_next(now) PROVE ShareOrder'
  BY <1>1, <1>4 DEF expire_next, rosterVars, potVars, streetVars, stageVars, showVars
<1>5. ASSUME settle \/ settle_abort PROVE ShareOrder'
  BY <1>1, <1>5 DEF settle, settle_asserts, settle_abort, settle_abort_asserts, rosterVars, potVars,
                    streetVars, showVars
<1>6. ASSUME expire PROVE ShareOrder'
  BY <1>6, ExpireShares
<1>7. ASSUME NEW p \in Players, SeatCall(p) PROVE ShareOrder'
  BY <1>1, <1>7 DEF SeatCall, join, stand_up, buy_in, leave, rosterVars, potVars, streetVars,
                    stageVars, showVars
<1>8. ASSUME NEW p \in Players, PrepCall(p) PROVE ShareOrder'
  BY <1>1, <1>8 DEF PrepCall, post_next_key, post_next_key_asserts, shuffle_next,
                    shuffle_next_asserts, rosterVars, potVars, streetVars,
                    stageVars, showVars
<1>9. ASSUME NEW p \in Players, CardCall(p) PROVE ShareOrder'
  <2>1. ASSUME NEW s \in Seats, NEW now \in Times, post_key(p, s, now) \/ shuffle(p, s, now)
        PROVE  ShareOrder'
    BY <1>1, <2>1 DEF post_key, post_key_asserts, shuffle, shuffle_asserts, rosterVars, potVars,
                      streetVars, showVars, Before
  <2>2. ASSUME NEW s \in Seats, NEW now \in Times, NEW ps \in share_batches(s),
               shares(p, s, ps, now)
        PROVE  ShareOrder'
    BY <1>0, <2>2, HoleShares
  <2> QED
    BY <1>9, <2>1, <2>2, ReleaseShares, ShowShares, ShowHandShares DEF CardCall
<1>10. ASSUME NEW p \in Players, BetCall(p) PROVE ShareOrder'
  BY <1>0, <1>10, BetShares
<1> QED
  BY <1>0, <1>2, <1>3, <1>4, <1>5, <1>6, <1>7, <1>8, <1>9, <1>10
     DEF ShareInv, Next, Call, TableCall


LEMMA HolesHidden == ShareInv => HoleCardsPrivate
<1> SUFFICES ASSUME ShareInv, to_act # NONE, NEW s \in in_deal
             PROVE  LET first == 2 * order_of(in_deal, s) IN
                    <<first, s>> \notin shares_posted /\ <<first + 1, s>> \notin shares_posted
  BY DEF HoleCardsPrivate
<1>1. Open
  BY DEF ShareInv, BettingInv, BettingOrder, TurnPhases, Open
<1> QED
  BY <1>1 DEF ShareInv, ShareOrder, OwnHolesKept, own_positions

\* While anyone still has a decision nobody can read another player's hole cards: no call,
\* in whatever order, puts a player's share of their own cards on the ledger.
THEOREM HolesPrivate == Spec => []HoleCardsPrivate
  BY EmptyTable, HolesHidden, ShareInitially, SharePreserved, PTL DEF Spec

\* While a street is being bet no later board card is open, nor readable to a player
\* another could still bet against: act_out alone posts shares ahead of their street, and
\* those of everyone who can still bet are missing.
THEOREM BoardPrivate == Spec => []BoardUnread
<1>1. ShareInv => BoardUnread
  <2> SUFFICES ASSUME ShareInv, phase = "playing", NEW pos \in board_positions(street, 3)
               PROVE  /\ ~ readable(pos)
                      /\ \A s \in actors(folded, all_in) :
                            readable_by(pos, s) => actors(folded, all_in) = {s}
    BY DEF BoardUnread
  <2>1. \A k \in actors(folded, all_in) : k \in in_deal /\ <<pos, k>> \notin shares_posted
    BY DEF ShareInv, ShareOrder, LaterStreetsKept, actors
  <2>2. actors(folded, all_in) # {}
    BY DEF ShareInv, BettingInv, BettingOrder, TurnPhases, TurnInOrder
  <2>3. ~readable(pos)
    BY <2>1, <2>2 DEF readable
  <2>4. ASSUME NEW s \in actors(folded, all_in), readable_by(pos, s)
        PROVE  actors(folded, all_in) = {s}
    BY <2>1, <2>4 DEF readable_by
  <2> QED
    BY <2>3, <2>4
<1> QED
  BY EmptyTable, <1>1, ShareInitially, SharePreserved, PTL DEF Spec

\* The counters a circuit decides by are the numbers of shares on the ledger, whatever was
\* posted twice, ahead of its street, or on the way out of the betting.
THEOREM CountsTrue == Spec => []CountsMatchShares
<1>1. ShareInv => CountsMatchShares
  <2> SUFFICES ASSUME ShareInv, NEW s \in in_deal
               PROVE  /\ hole_shares[s] = Cardinality({pos \in Hole :
                             /\ pos < 2 * n_players /\ pos \notin own_positions(s)
                             /\ <<pos, s>> \in shares_posted})
                      /\ board_shares[s] = Cardinality({pos \in board_positions(0, 3) :
                             <<pos, s>> \in shares_posted})
    BY DEF CountsMatchShares
  <2>1. n_players \in 0..6
    BY DEF ShareInv, DeckInv, PrepInv, TypeInv, TypeOK, RosterTypes
  <2>2. \A pos : pos \in others_holes(s) <=> pos \in Hole /\ pos < 2 * n_players /\ pos \notin own_positions(s)
    BY <2>1 DEF others_holes, Hole
  <2>3. holes_shared(s) = {pos \in Hole : /\ pos < 2 * n_players /\ pos \notin own_positions(s)
                                          /\ <<pos, s>> \in shares_posted}
    BY <2>2 DEF holes_shared
  <2> QED
    BY <2>3 DEF ShareInv, ShareOrder, SharesCounted, board_shared, Board
<1> QED
  BY EmptyTable, <1>1, ShareInitially, SharePreserved, PTL DEF Spec

LEMMA ShowdownReady == ShareInv => ShowdownOpens
<1> SUFFICES ASSUME ShareInv, phase = "showdown", NEW s \in live(folded)
             PROVE  /\ \A pos \in own_positions(s) : opens(pos, s, TRUE)
                    /\ \A pos \in board_positions(0, 3) : opens(pos, s, FALSE)
  BY DEF ShowdownOpens
<1>0. /\ ShareOrder /\ Roster /\ s \in in_deal /\ in_deal \subseteq Seats
      /\ joint_key = {<<k, keys[k]>> : k \in in_deal}
  <2>1. key_holders(keys) = in_deal /\ joint_key = key_points(keys)
    BY DEF ShareInv, DeckInv, DeckInOrder, Dealt
  <2>2. joint_key = {<<k, keys[k]>> : k \in in_deal}
    BY <2>1 DEF key_points
  <2> QED
    BY <2>2 DEF ShareInv, DeckInv, DeckInOrder, PrepInv, Roster, TypeInv, TypeOK, RosterTypes,
                live
<1>1. ASSUME NEW k \in in_deal PROVE \A pos \in others_holes(k) : <<pos, k>> \in shares_posted
  <2>1. hole_shares[k] = need
    BY <1>0 DEF ShareOrder, HolesIn, complete_seats
  <2>2. holes_shared(k) = others_holes(k)
    BY <1>0, <2>1, SharesBounded DEF ShareOrder, SharesCounted
  <2> QED
    BY <2>2 DEF holes_shared
<1>2. ASSUME NEW k \in in_deal PROVE \A pos \in Board : <<pos, k>> \in shares_posted
  <2>1. board_shares[k] >= 5
    BY <1>0 DEF ShareOrder, BoardIn, released, live, board_len
  <2>2. board_shared(k) = Board
    BY <1>0, <2>1, SharesBounded DEF ShareOrder, SharesCounted
  <2> QED
    BY <2>2 DEF board_shared
<1>3. \A k \in in_deal \ {s} : own_positions(s) \subseteq others_holes(k)
  BY <1>0, HolePositions
<1>4. \A pos \in own_positions(s) : opens(pos, s, TRUE)
  BY <1>0, <1>1, <1>3 DEF opens
<1>5. \A pos \in board_positions(0, 3) : opens(pos, s, FALSE)
  BY <1>0, <1>2 DEF opens, Board
<1> QED
  BY <1>4, <1>5

\* When hands are compared every card they need opens, so that nobody who is owed a share
\* of the pot can be kept from proving their hand.
THEOREM ShowdownComplete == Spec => []ShowdownOpens
  BY EmptyTable, ShowdownReady, ShareInitially, SharePreserved, PTL DEF Spec

\* A deal that runs out of time names a player who is still in and owed the step, holds a
\* seat to be evicted from and has somebody to forfeit to; expire finds nobody only when
\* every hand was proved in time.
THEOREM OwerNamed == Spec => []AbortNamesOwer
<1>1. ShareInv => AbortNamesOwer
  <2> SUFFICES ASSUME ShareInv, phase = "aborted", shown # count_b(live(folded))
               PROVE  offender \in live(folded) \cap occupied /\ live(folded) # {offender}
    BY DEF AbortNamesOwer
  <2>1. offender \in live(folded)
    BY DEF ShareInv, ShareOrder, OffenderOwes
  <2>2. /\ in_deal \subseteq occupied /\ live(folded) \subseteq in_deal
        /\ count_b(live(folded)) >= 2 /\ in_deal \subseteq Seats
    BY DEF ShareInv, BettingInv, BettingOrder, TwoStillIn, CustodyInv, BooksInv,
           SeatsHeldDuringDeal, dealing, live, TypeInv, TypeOK, RosterTypes
  <2>3. live(folded) # {offender}
    <3>1. offender \in Seats
      BY <2>1, <2>2
    <3>2. count_b({offender}) = 1
      BY <3>1, CountOne
    <3> QED
      BY <2>2, <3>2
  <2> QED
    BY <2>1, <2>2, <2>3
<1> QED
  BY EmptyTable, <1>1, ShareInitially, SharePreserved, PTL DEF Spec
------------------------------------------------------------------------------
(* How a deal ends that was not aborted: every hole card it dealt, and the *)
(* board of a showdown, is open to whoever they are for.                   *)

BetsInPot == \A s \in Seats : bet[s] <= total[s]
NobodysChips == \A s \in Seats \ occupied : stack[s] = 0
LastStreet == phase = "showdown" => street = 3
FinishedOpen ==
    phase = "done" /\ offender = NONE =>
        /\ key_holders(keys) = in_deal /\ complete_seats = in_deal
        /\ count_b(live(folded)) > 1 => street = 3 /\ released(folded, 3, board_shares)

EndInv == ShareInv /\ BetsInPot /\ NobodysChips /\ LastStreet /\ FinishedOpen

\* What is out on the street is part of what is in the pot.
LEMMA BetsStay == TypeInv /\ BetsInPot /\ [Next]_vars => BetsInPot'
<1> SUFFICES ASSUME TypeInv, BetsInPot, [Next]_vars PROVE BetsInPot'
  OBVIOUS
<1>0. bet \in [Seats -> Nat] /\ total \in [Seats -> Nat] /\ total' \in [Seats -> Nat]
  BY TypesPreserved DEF TypeInv, TypeOK, StreetTypes, PotTypes
<1>1. CASE UNCHANGED <<bet, total>>
  BY <1>1 DEF BetsInPot
<1>2. ASSUME NEW now, start_deal(now) PROVE BetsInPot'
  <2>1. bet' = total'
    BY <1>2 DEF start_deal
  <2> QED
    BY <1>0, <2>1 DEF BetsInPot
<1>3. CASE bet' = zeros
  BY <1>0, <1>3 DEF BetsInPot, zeros
<1>4. ASSUME NEW p, NEW s, NEW now, release(p, s, now) PROVE BetsInPot'
  <2>1. (bet' = zeros \/ bet' = bet) /\ total' = total
    BY <1>4 DEF release, resume_betting, potVars
  <2> QED
    BY <1>1, <1>3, <2>1
<1>5. ASSUME NEW p \in Players, BetCall(p) PROVE BetsInPot'
  <2>1. PICK s \in Seats, kind \in Kinds, now \in Times :
            \E t \in IF kind = 2 THEN Amounts ELSE {0} :
                act(p, s, kind, t, now) \/ act_out(p, s, kind, t, now)
    BY <1>5 DEF BetCall
  <2>2. PICK t \in Nat : act(p, s, kind, t, now) \/ act_out(p, s, kind, t, now)
    BY <2>1, InputsAssumption
  <2>3. PICK out : apply_action(s, kind, t, out, now, bank_left(s, now))
    BY <2>2 DEF act, act_out
  <2>4. legal_action(s, kind, t)
    BY <2>2 DEF act, act_asserts, act_out, act_out_asserts
  <2> DEFINE amount == action_amount(s, kind, t)
  <2>5. amount \in Nat
    BY <2>4, LegalAmount
  <2>6. bet' = [bet EXCEPT ![s] = @ + amount] /\ total' = [total EXCEPT ![s] = @ + amount]
    BY <2>3 DEF apply_action
  <2> HIDE DEF amount
  <2> QED
    BY <1>0, <2>5, <2>6 DEF BetsInPot
<1>6. CASE Tick \/ UNCHANGED vars
  BY <1>1, <1>6 DEF Tick, vars, streetVars, potVars
<1>7. CASE TableCall
  BY <1>1, <1>2, <1>7 DEF TableCall, expire_next, settle, settle_asserts, expire, settle_abort,
                          settle_abort_asserts, streetVars, potVars
<1>8. ASSUME NEW p \in Players, SeatCall(p) \/ PrepCall(p) PROVE BetsInPot'
  BY <1>1, <1>8 DEF SeatCall, join, stand_up, buy_in, leave, PrepCall, post_next_key,
                    post_next_key_asserts, shuffle_next, shuffle_next_asserts, streetVars, potVars
<1>9. ASSUME NEW p \in Players, CardCall(p) PROVE BetsInPot'
  BY <1>1, <1>4, <1>9 DEF CardCall, post_key, post_key_asserts, shuffle, shuffle_asserts, shares,
                          shares_asserts, show, show_asserts, show_hand, show_hand_asserts,
                          streetVars, potVars
<1> QED
  BY <1>5, <1>6, <1>7, <1>8, <1>9 DEF Next, Call

\* An empty seat has no chips, whoever plays beside it.
LEMMA EmptySeatsStay == BooksInv /\ NobodysChips /\ [Next]_vars => NobodysChips'
<1> SUFFICES ASSUME BooksInv, NobodysChips, [Next]_vars PROVE NobodysChips'
  OBVIOUS
<1>0. /\ TypeInv /\ TypeInv' /\ stack \in [Seats -> Nat] /\ DOMAIN seat_owner = Seats
      /\ stack' \in [Seats -> Nat] /\ (dealing => in_deal \subseteq occupied)
      /\ in_deal \subseteq Seats /\ live(folded) \subseteq in_deal
  BY TypesPreserved DEF BooksInv, SeatsHeldDuringDeal, TypeInv, TypeOK, SeatTypes, MoneyTypes,
     RosterTypes, live
<1>1. CASE UNCHANGED <<seat_owner, stack>>
  BY <1>1 DEF NobodysChips, occupied
<1>2. ASSUME NEW now \in Times, start_deal(now) PROVE NobodysChips'
  <2>1. \A s \in Seats : stack'[s] <= stack[s]
    <3>1. PICK v, d : v \in SUBSET Seats /\ stack' = [s \in Seats |-> stack[s] - blinds(v, d)[s]]
      <4>1. /\ next_in_deal \in SUBSET Seats /\ players_present \in SUBSET Seats
        BY <1>0, PresentSeats DEF TypeInv, TypeOK, NextTypes
      <4> QED
        BY <1>2, <4>1 DEF start_deal
    <3>2. blinds(v, d) \in [Seats -> Nat]
      BY <1>0, <3>1, BlindsTypes
    <3> QED
      BY <1>0, <3>1, <3>2
  <2>2. occupied' = occupied
    BY <1>2 DEF start_deal, seatVars, occupied
  <2>3. \A s \in Seats : stack'[s] \in Nat /\ stack[s] \in Nat
    BY <1>0
  <2> QED
    BY <2>1, <2>2, <2>3 DEF NobodysChips
<1>3. ASSUME NEW now \in Times, expire_next(now) PROVE NobodysChips'
  <2> DEFINE o == next_offender
             eligible == (next_in_deal \cap occupied) \ {o}
             won == split_among(BOND, eligible)
  <2>1. CASE o \notin occupied
    BY <1>1, <1>3, <2>1 DEF expire_next, seatVars, moneyVars
  <2>2. CASE o \in occupied
    <3>1. /\ eligible # {} /\ seat_owner' = [seat_owner EXCEPT ![o] = NoPlayer]
          /\ stack' = [s \in Seats |-> IF s = o THEN 0 ELSE stack[s] + won[s]]
      BY <1>3, <2>2 DEF expire_next, free_seat
    <3>2. eligible \in SUBSET Seats /\ eligible \subseteq occupied \ {o} /\ BOND \in Nat
      BY StakesAssumption DEF occupied, BOND
    <3>3. \A s \in Seats \ eligible : won[s] = 0
      BY <1>0, <3>1, <3>2, SplitConserves
    <3> HIDE DEF o, eligible, won
    <3>4. occupied' = occupied \ {o}
      BY <1>0, <3>1 DEF occupied
    <3>5. ASSUME NEW s \in Seats \ occupied' PROVE stack'[s] = 0
      <4>1. CASE s = o
        BY <3>1, <4>1
      <4>2. CASE s # o
        <5>1. won[s] = 0 /\ stack[s] = 0
          BY <3>2, <3>3, <3>4, <4>2 DEF NobodysChips
        <5> QED
          BY <3>1, <4>2, <5>1
      <4> QED
        BY <4>1, <4>2
    <3> QED
      BY <3>5 DEF NobodysChips
  <2> QED
    BY <2>1, <2>2
<1>4. CASE settle
  <2>1. /\ stack' = [s \in Seats |-> stack[s] + pay[s]] /\ occupied' = occupied
        /\ in_deal \subseteq occupied
    BY <1>0, <1>4 DEF settle, settle_asserts, seatVars, occupied, dealing
  <2>2. \A s \in Seats \ in_deal : pay[s] = 0
    BY <1>0, PayInDeal
  <2> QED
    BY <2>1, <2>2 DEF NobodysChips
<1>5. CASE settle_abort
  <2> DEFINE o == offender
             others == live(folded) \ {o}
             won == split_among(BOND + total[o], others)
  <2>1. /\ others # {} /\ seat_owner' = [seat_owner EXCEPT ![o] = NoPlayer]
        /\ stack' = [s \in Seats |-> IF s = o THEN 0
                                     ELSE stack[s] + ((IF s \in in_deal \ {o} THEN total[s] ELSE 0) + won[s])]
        /\ in_deal \subseteq occupied /\ o \in in_deal
    BY <1>0, <1>5 DEF settle_abort, settle_abort_asserts, free_seat, abort_pay, dealing, BooksInv,
                      RolesInDeal
  <2>2. others \in SUBSET Seats /\ others \subseteq in_deal /\ BOND + total[o] \in Nat
    BY <1>0, <2>1, StakesAssumption DEF BOND, TypeInv, TypeOK, PotTypes
  <2>3. \A s \in Seats \ others : won[s] = 0
    BY <1>0, <2>1, <2>2, SplitConserves
  <2> HIDE DEF o, others, won
  <2>4. occupied' = occupied \ {o}
    BY <1>0, <2>1 DEF occupied
  <2>5. ASSUME NEW s \in Seats \ occupied' PROVE stack'[s] = 0
    <3>1. CASE s = o
      BY <2>1, <3>1
    <3>2. CASE s # o
      <4>1. s \notin in_deal /\ won[s] = 0 /\ stack[s] = 0
        BY <2>1, <2>2, <2>3, <2>4, <3>2 DEF NobodysChips
      <4> QED
        BY <2>1, <3>2, <4>1
    <3> QED
      BY <3>1, <3>2
  <2> QED
    BY <2>5 DEF NobodysChips
<1>6. ASSUME NEW p \in Players, SeatCall(p) PROVE NobodysChips'
  <2>1. ASSUME NEW s \in Seats, \E a \in Amounts : buy_in(p, s, a) PROVE NobodysChips'
    <3>1. s \in occupied /\ UNCHANGED seat_owner /\ \A k \in Seats \ {s} : stack'[k] = stack[k]
      BY <1>0, <2>1, PlayersAssumption DEF buy_in, owner_check, occupied, seatVars
    <3> QED
      BY <3>1 DEF NobodysChips, occupied
  <2>2. ASSUME NEW s \in Seats, leave(p, s) PROVE NobodysChips'
    <3>1. stack'[s] = 0 /\ \A k \in Seats \ {s} : stack'[k] = stack[k] /\ seat_owner'[k] = seat_owner[k]
      BY <1>0, <2>2 DEF leave, free_seat
    <3> QED
      BY <3>1 DEF NobodysChips, occupied
  <2>3. ASSUME NEW buy, join(p, buy) PROVE NobodysChips'
    <3>1. PICK s \in Seats : /\ seat_owner' = [seat_owner EXCEPT ![s] = p]
                             /\ stack' = [stack EXCEPT ![s] = buy]
      <4>1. Seats \ occupied \in SUBSET Seats
        OBVIOUS
      <4>2. first_in(Seats \ occupied) \in Seats
        BY <2>3, <4>1, FirstIn DEF join, first_in
      <4> QED
        BY <2>3, <4>2 DEF join
    <3>2. /\ seat_owner'[s] # NoPlayer
          /\ \A k \in Seats \ {s} : stack'[k] = stack[k] /\ seat_owner'[k] = seat_owner[k]
      BY <1>0, <3>1, PlayersAssumption
    <3> QED
      BY <3>2 DEF NobodysChips, occupied
  <2>4. ASSUME NEW s, NEW up, stand_up(p, s, up) PROVE NobodysChips'
    BY <1>1, <2>4 DEF stand_up, moneyVars
  <2> QED
    BY <1>6, <2>1, <2>2, <2>3, <2>4 DEF SeatCall
<1>7. ASSUME NEW p \in Players, PrepCall(p) \/ CardCall(p) PROVE NobodysChips'
  BY <1>1, <1>7 DEF PrepCall, post_next_key, post_next_key_asserts, shuffle_next, shuffle_next_asserts,
     CardCall, post_key, post_key_asserts, shuffle, shuffle_asserts, shares, shares_asserts, release,
     release_asserts, show, show_asserts, show_hand, show_hand_asserts, seatVars, moneyVars
<1>8. ASSUME NEW p \in Players, BetCall(p) PROVE NobodysChips'
  <2>1. PICK s \in Seats, kind \in Kinds, now \in Times : \E t \in IF kind = 2 THEN Amounts ELSE {0} :
            act(p, s, kind, t, now) \/ act_out(p, s, kind, t, now)
    BY <1>8 DEF BetCall
  <2>2. PICK t : act(p, s, kind, t, now) \/ act_out(p, s, kind, t, now)
    BY <2>1
  <2>3. PICK out : apply_action(s, kind, t, out, now, bank_left(s, now))
    BY <2>2 DEF act, act_out
  <2>4. /\ s \in occupied /\ phase = "playing" /\ UNCHANGED <<seat_owner, in_deal>>
    BY <2>2, PlayersAssumption DEF act, act_asserts, act_out, act_out_asserts, act_check, owner_check,
                                   occupied, seatVars, rosterVars
  <2>5. PICK w : /\ w \in occupied \/ w = NONE
                 /\ \A k \in Seats \ {s, w} : stack'[k] = stack[k]
    <3> DEFINE f == IF out /\ kind = 0 THEN folded \cup {s} ELSE folded \ {s}
               paid == [stack EXCEPT ![s] = @ - action_amount(s, kind, t)]
    <3>1. \/ stack' = paid
          \/ stack' = [paid EXCEPT ![first_in(live(f))]
                           = @ + sum_u([total EXCEPT ![s] = @ + action_amount(s, kind, t)])]
      BY <2>3 DEF apply_action
    <3>2. live(f) \in SUBSET Seats /\ live(f) \subseteq occupied
      BY <1>0, <2>4 DEF live, dealing
    <3>3. first_in(live(f)) \in occupied \cup {NONE}
      BY <3>2, FirstIn DEF first_in
    <3> HIDE DEF f
    <3>4. \A k \in Seats \ {s} : paid[k] = stack[k] /\ DOMAIN paid = Seats
      BY <1>0
    <3>5. CASE stack' = paid
      BY <3>3, <3>4, <3>5
    <3>6. CASE stack' # paid
      <4>1. \A k \in Seats \ {s, first_in(live(f))} : stack'[k] = paid[k]
        BY <1>0, <3>1, <3>6
      <4> QED
        BY <3>3, <3>4, <4>1
    <3> QED
      BY <3>5, <3>6
  <2>6. occupied' = occupied /\ NONE \notin Seats
    BY <2>4 DEF occupied, NONE, Seats
  <2> QED
    BY <2>4, <2>5, <2>6 DEF NobodysChips
<1>9. CASE Tick \/ UNCHANGED vars
  BY <1>1, <1>9 DEF Tick, vars, seatVars, moneyVars
<1>10. CASE expire
  BY <1>1, <1>10 DEF expire, seatVars, moneyVars
<1> QED
  BY <1>2, <1>3, <1>4, <1>5, <1>6, <1>7, <1>8, <1>9, <1>10 DEF Next, Call, TableCall

\* A deal comes to a showdown on the river.
LEMMA ShowdownLast == TypeInv /\ LastStreet /\ [Next]_vars => LastStreet'
<1> SUFFICES ASSUME TypeInv, LastStreet, [Next]_vars, phase' = "showdown" PROVE street' = 3
  BY DEF LastStreet
<1>1. CASE phase' = phase /\ street' = street
  BY <1>1 DEF LastStreet
<1>2. ASSUME NEW now, start_deal(now) PROVE FALSE
  BY <1>2 DEF start_deal
<1>3. ASSUME NEW p, CardCall(p) PROVE street' = 3
  <2>1. ASSUME NEW s, NEW now, post_key(p, s, now) \/ shuffle(p, s, now) \/ \E ps : shares(p, s, ps, now)
        PROVE  FALSE
    BY <2>1 DEF post_key, post_key_asserts, shuffle, shuffle_asserts, shares, shares_asserts, begin_betting,
                stageVars
  <2>2. ASSUME NEW s, NEW now, release(p, s, now) PROVE street' = 3
    BY <2>2 DEF release, release_asserts, resume_betting, close_street, stageVars
  <2>3. ASSUME NEW s, NEW now, show(p, s, now) PROVE street' = 3
    BY <1>1, <2>3 DEF show, run_out
  <2>4. ASSUME NEW s, NEW score, NEW now, show_hand(p, s, score, now) PROVE street' = 3
    BY <1>1, <2>4 DEF show_hand, stageVars, streetVars
  <2> QED
    BY <1>3, <2>1, <2>2, <2>3, <2>4 DEF CardCall
<1>4. ASSUME NEW p, BetCall(p) PROVE street' = 3
  <2>1. PICK s, kind, now, t : act(p, s, kind, t, now) \/ act_out(p, s, kind, t, now)
    BY <1>4 DEF BetCall
  <2>2. /\ phase = "playing" /\ street' = street
        /\ \E out : apply_action(s, kind, t, out, now, bank_left(s, now))
    BY <2>1 DEF act, act_asserts, act_out, act_out_asserts, act_check
  <2> QED
    BY <2>2 DEF apply_action, close_street
<1>5. CASE Tick \/ UNCHANGED vars
  BY <1>1, <1>5 DEF Tick, vars, stageVars, streetVars
<1>6. ASSUME NEW now, expire_next(now) PROVE street' = 3
  BY <1>1, <1>6 DEF expire_next, stageVars, streetVars
<1>7. CASE settle \/ expire \/ settle_abort
  BY <1>7 DEF settle, expire, settle_abort
<1>8. ASSUME NEW p, SeatCall(p) \/ PrepCall(p) PROVE street' = 3
  BY <1>1, <1>8 DEF SeatCall, join, stand_up, buy_in, leave, PrepCall, post_next_key, shuffle_next,
                    stageVars, streetVars
<1> QED
  BY <1>2, <1>3, <1>4, <1>5, <1>6, <1>7, <1>8 DEF Next, Call, TableCall

\* A deal ends when all but one folded, or its pot is settled; then the cards stay.
LEMMA FinishOpen ==
    ASSUME ShareInv, ShareInv', LastStreet, FinishedOpen, [Next]_vars
    PROVE  FinishedOpen'
<1> SUFFICES ASSUME phase' = "done", offender' = NONE
             PROVE  /\ key_holders(keys') = in_deal' /\ (complete_seats = in_deal)'
                    /\ (count_b(live(folded)) > 1 => street = 3 /\ released(folded, 3, board_shares))'
  BY DEF FinishedOpen
<1>0. /\ ShareOrder /\ TypeInv /\ DeckInOrder
      /\ \A f, bs : released(f, 3, bs) <=> \A s \in live(f) : bs[s] >= 5
  BY DEF ShareInv, DeckInv, PrepInv, released, board_len
<1>1. CASE /\ UNCHANGED <<phase, offender, keys, in_deal, n_players, hole_shares, board_shares>>
           /\ UNCHANGED <<folded, street>>
  <2>1. phase = "done" /\ offender = NONE
    BY <1>1
  <2>2. complete_seats' = complete_seats /\ live(folded)' = live(folded)
    BY <1>1 DEF complete_seats, need, live
  <2> QED
    BY <1>1, <2>1, <2>2 DEF FinishedOpen, released
<1>2. CASE settle
  <2>1. /\ phase = "showdown"
        /\ UNCHANGED <<keys, in_deal, n_players, hole_shares, board_shares, folded, street>>
    BY <1>2 DEF settle, settle_asserts, rosterVars, deckVars, shareVars, potVars, streetVars
  <2>2. complete_seats' = complete_seats /\ live(folded)' = live(folded)
    BY <2>1 DEF complete_seats, need, live
  <2>3. /\ key_holders(keys) = in_deal /\ complete_seats = in_deal /\ street = 3
        /\ released(folded, 3, board_shares)
    BY <1>0, <2>1 DEF DeckInOrder, Dealt, ShareOrder, HolesIn, BoardIn, LastStreet
  <2> QED
    BY <2>1, <2>2, <2>3 DEF released
<1>3. ASSUME NEW p, BetCall(p)
      PROVE  /\ key_holders(keys') = in_deal' /\ (complete_seats = in_deal)'
             /\ count_b(live(folded))' = 1
  <2>1. PICK s, kind, now, t : act(p, s, kind, t, now) \/ act_out(p, s, kind, t, now)
    BY <1>3 DEF BetCall
  <2>2. /\ phase = "playing" /\ UNCHANGED <<keys, in_deal, n_players, hole_shares>>
        /\ \E out : apply_action(s, kind, t, out, now, bank_left(s, now))
    BY <2>1 DEF act, act_asserts, act_out, act_out_asserts, act_check, rosterVars, deckVars, shareVars
  <2>3. complete_seats' = complete_seats /\ \A f : folded' = f => live(f) = live(folded)'
    BY <2>2 DEF complete_seats, need, live
  <2>4. key_holders(keys) = in_deal /\ complete_seats = in_deal
    BY <1>0, <2>2 DEF DeckInOrder, Dealt, ShareOrder, HolesIn
  <2>5. \E f : folded' = f /\ count_b(live(f)) = 1
    BY <2>2 DEF apply_action, close_street
  <2> QED
    BY <2>2, <2>3, <2>4, <2>5
<1>4. CASE settle_abort
  BY <1>4 DEF settle_abort, settle_abort_asserts
<1>5. CASE expire
  BY <1>5 DEF expire
<1>6. ASSUME NEW now, start_deal(now) PROVE FALSE
  BY <1>6 DEF start_deal
<1>7. CASE Tick \/ UNCHANGED vars \/ \E now : expire_next(now)
  <2>1. /\ UNCHANGED <<phase, offender, keys, in_deal, n_players, hole_shares, board_shares>>
        /\ UNCHANGED <<folded, street>>
    BY <1>7 DEF Tick, expire_next, vars, stageVars, streetVars, deckVars, rosterVars, shareVars, potVars
  <2> QED
    BY <1>1, <2>1
<1>8. ASSUME NEW p, SeatCall(p) \/ PrepCall(p)
      PROVE  /\ UNCHANGED <<phase, offender, keys, in_deal, n_players, hole_shares, board_shares>>
             /\ UNCHANGED <<folded, street>>
  BY <1>8 DEF SeatCall, join, stand_up, buy_in, leave, PrepCall, post_next_key, shuffle_next,
              stageVars, streetVars, deckVars, rosterVars, shareVars, potVars
<1>9. ASSUME NEW p, CardCall(p)
      PROVE  /\ UNCHANGED <<phase, offender, keys, in_deal, n_players, hole_shares, board_shares>>
             /\ UNCHANGED <<folded, street>>
  <2>1. ASSUME NEW s, NEW now, post_key(p, s, now) \/ shuffle(p, s, now) \/ \E ps : shares(p, s, ps, now)
        PROVE  FALSE
    BY <2>1 DEF post_key, post_key_asserts, shuffle, shuffle_asserts, shares, shares_asserts, begin_betting,
                stageVars
  <2>2. ASSUME NEW s, NEW now, release(p, s, now) PROVE FALSE
    BY <2>2 DEF release, release_asserts, resume_betting, close_street, stageVars
  <2>3. ASSUME NEW s, NEW now, show(p, s, now)
        PROVE  /\ UNCHANGED <<phase, offender, keys, in_deal, n_players, hole_shares, board_shares>>
               /\ UNCHANGED <<folded, street>>
    BY <2>3 DEF show, run_out, deckVars, rosterVars, potVars
  <2>4. ASSUME NEW s, NEW score, NEW now, show_hand(p, s, score, now) PROVE FALSE
    BY <2>4 DEF show_hand, show_hand_asserts, stageVars
  <2> QED
    BY <1>9, <2>1, <2>2, <2>3, <2>4 DEF CardCall
<1>10. ASSUME count_b(live(folded))' = 1 PROVE ~(count_b(live(folded))' > 1)
  BY <1>10
<1> QED
  BY <1>1, <1>2, <1>3, <1>4, <1>5, <1>6, <1>7, <1>8, <1>9, <1>10 DEF Next, Call, TableCall

LEMMA EndInitially == Init => EndInv
<1> SUFFICES ASSUME Init PROVE EndInv
  OBVIOUS
<1>1. phase = "idle" /\ bet = zeros /\ total = zeros /\ stack = zeros
  BY DEF Init, NeverDealt
<1>2. BetsInPot /\ NobodysChips /\ LastStreet /\ FinishedOpen
  BY <1>1 DEF BetsInPot, NobodysChips, LastStreet, FinishedOpen, zeros
<1> QED
  BY <1>2, EmptyTable, ShareInitially DEF EndInv

LEMMA EndPreserved == EndInv /\ [Next]_vars => EndInv'
<1> SUFFICES ASSUME EndInv, [Next]_vars PROVE EndInv'
  OBVIOUS
<1>1. ShareInv' /\ TypeInv /\ BooksInv
  BY SharePreserved DEF EndInv, ShareInv, BettingInv, CustodyInv, BooksInv
<1> QED
  BY <1>1, BetsStay, EmptySeatsStay, ShowdownLast, FinishOpen DEF EndInv
===============================================================================
