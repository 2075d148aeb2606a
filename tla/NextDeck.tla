------------------------------ MODULE NextDeck ------------------------------
(***************************************************************************)
(* Preparing the next deck while a deal is played: begin_prep,             *)
(* post_next_key, shuffle_next and expire_next of                          *)
(* src/contracts/deal.compact.                                             *)
(*                                                                         *)
(* What a circuit asserts is <circuit>_asserts.  The rest of its action is *)
(* assignments, so a call can be made exactly when its asserts hold.       *)
(***************************************************************************)
EXTENDS Seating

\* Mutant: the keys of the preparation that was dropped stay.
begin_prep_keeping_keys(now, present) ==
    /\ next_in_deal' = present /\ next_n_players' = count_b(present)
    /\ next_deck' = {} /\ next_joint_key' = {}
    /\ next_keys_posted' = 0 /\ next_turn' = NONE
    /\ next_prep' = IF count_b(present) >= 2 THEN "keys" ELSE "none"
    /\ next_deadline' = due(now, PREP_KEYS_SECONDS)
    /\ UNCHANGED next_keys

\* Starts preparing the deck for the deal after the current one.
begin_prep(now, present) ==
    /\ next_in_deal' = present
    /\ next_n_players' = count_b(present)
    /\ next_deck' = {}
    /\ next_joint_key' = {}
    /\ next_keys' = no_keys
    /\ next_keys_posted' = 0
    /\ next_turn' = NONE
    /\ next_prep' = IF count_b(present) >= 2 THEN "keys" ELSE "none"
    /\ next_deadline' = due(now, PREP_KEYS_SECONDS)

post_next_key_asserts(p, s, now) ==
    /\ next_prep = "keys"
    /\ owner_check(s, p)
    /\ s \in next_in_deal
    /\ next_keys[s] = NoPlayer
    /\ check_now(now)

\* The contract's next_has_key[s] is next_keys[s] # NoPlayer: both are set here
\* and cleared in begin_prep, nowhere else.
post_next_key(p, s, now) ==
    /\ post_next_key_asserts(p, s, now)
    /\ next_keys' = [next_keys EXCEPT ![s] = p]
    /\ next_joint_key' = next_joint_key \cup {<<s, p>>}
    /\ next_keys_posted' = next_keys_posted + 1
    /\ IF next_keys_posted' = next_n_players
       THEN /\ next_prep' = "shuffle"
            /\ next_turn' = first_in(next_in_deal)
            /\ next_deadline' = due(now, PREP_SHUFFLE_SECONDS)
       ELSE UNCHANGED <<next_prep, next_turn, next_deadline>>
    /\ UNCHANGED <<time, seatVars, moneyVars, rosterVars, stageVars, streetVars, potVars,
                   deckVars, shareVars, showVars, release_street, bank, act_by, offender,
                   next_in_deal, next_n_players, next_deck>>

shuffle_next_asserts(p, s, now) ==
    /\ next_prep = "shuffle"
    /\ owner_check(s, p)
    /\ s = next_turn
    /\ check_clock(now, SHUFFLE_SLACK)

shuffle_next(p, s, now) ==
    LET nxt == next_in(next_in_deal, s) IN
    /\ shuffle_next_asserts(p, s, now)
    /\ next_deck' = next_deck \cup {s}
    /\ next_turn' = nxt
    /\ IF nxt = NONE
       THEN /\ next_prep' = "ready"
            /\ next_deadline' = 0
       ELSE /\ next_deadline' = due_by(now, SHUFFLE_SLACK, PREP_SHUFFLE_SECONDS)
            /\ UNCHANGED next_prep
    /\ UNCHANGED <<time, seatVars, moneyVars, rosterVars, stageVars, streetVars, potVars,
                   deckVars, shareVars, showVars, release_street, bank, act_by, offender,
                   next_in_deal, next_n_players, next_joint_key, next_keys, next_keys_posted>>

\* `amount` split equally among the seats of v, the odd chips to the first of
\* them clockwise from the dealer.  The contract checks a witnessed share and
\* odd (amount = share * n + odd, odd < n), which pins both.
split_among(amount, v) ==
    LET n == count_b(v)
        first == first_clockwise(dealer, v)
    IN [s \in Seats |-> IF s \in v
                        THEN amount \div n + (IF s = first THEN amount % n ELSE 0)
                        ELSE 0]

\* The seat that owes the preparation its next step.
next_offender ==
    IF next_prep = "keys" THEN first_in({s \in next_in_deal : next_keys[s] = NoPlayer})
    ELSE next_turn

\* Between deals, anyone evicts the seat that owes a preparation step past its
\* deadline: bond to the others of the preparation, stack sent home.  The
\* preparation starts over for whoever is left with chips.
expire_next(now) ==
    LET o == next_offender
        eligible == (next_in_deal \cap occupied) \ {o}
    IN
    /\ next_prep \in {"keys", "shuffle"}
    /\ next_deadline <= time
    /\ phase \in {"idle", "done"}
    /\ check_now(now)
    /\ o # NONE
    /\ IF o \in occupied
       THEN /\ eligible # {}
            /\ free_seat(o)
            /\ escrow' = escrow - stack[o]
            /\ stack' = LET won == split_among(BOND, eligible)
                        IN [s \in Seats |-> IF s = o THEN 0 ELSE stack[s] + won[s]]
       ELSE UNCHANGED <<seatVars, moneyVars>>
    /\ begin_prep(now, players_present')
    /\ UNCHANGED <<time, rosterVars, stageVars, streetVars, potVars, deckVars, shareVars,
                   showVars, release_street, bank, act_by, offender>>

==============================================================================
