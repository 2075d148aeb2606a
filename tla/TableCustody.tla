---------------------------- MODULE TableCustody ----------------------------
(***************************************************************************)
(* What a table promises its players about their money, whatever the game: *)
(* who may gain and who may lose at which moment.  A seat's claim is what  *)
(* its player would take home, the bond included; its stake is what it has *)
(* in the pot of the deal being played.  src/contracts/deal.compact is     *)
(* shown to implement this (DealProperties' KeepsCustody).                 *)
(***************************************************************************)
EXTENDS SeatVectors

CONSTANTS Nobody, Bond

VARIABLES
    holder,         \* who holds each seat
    claim, stake,   \* per seat
    held            \* the tokens at the table

custodyVars == <<holder, claim, stake, held>>

no_stake == stake = zeros

CustodyInit ==
    /\ holder = [s \in Seats |-> Nobody]
    /\ claim = zeros /\ stake = zeros /\ held = 0

\* Seat s changes hands, and no other.
changes_hands(s) == holder' = [holder EXCEPT ![s] = holder'[s]]

\* A new player, in nobody's seat, with a bond and chips; only their money comes in.
SitDown(s) ==
    /\ holder[s] = Nobody /\ changes_hands(s)
    /\ \A k \in Seats : holder[k] # holder'[s]
    /\ claim'[s] > Bond /\ claim' = [claim EXCEPT ![s] = claim'[s]]
    /\ held' = held + claim'[s]
    /\ UNCHANGED stake

\* Chips are bought by a player with nothing in a pot.
TopUp(s) ==
    /\ stake[s] = 0
    /\ claim'[s] > claim[s] /\ claim' = [claim EXCEPT ![s] = claim'[s]]
    /\ held' = held + (claim'[s] - claim[s])
    /\ UNCHANGED <<holder, stake>>

\* A player with nothing in a pot takes the whole claim home.
GoHome(s) ==
    /\ holder[s] # Nobody /\ stake[s] = 0
    /\ holder' = [holder EXCEPT ![s] = Nobody]
    /\ claim' = [claim EXCEPT ![s] = 0]
    /\ held' = held - claim[s]
    /\ UNCHANGED stake

\* Blinds, two seats' at most and on an empty pot, or one player's bet: from a claim,
\* never out of its bond.
Bet ==
    LET paying == {s \in Seats : stake'[s] # stake[s]} IN
    /\ \A s \in Seats : stake'[s] + claim'[s] = stake[s] + claim[s]
    /\ \A s \in paying : stake'[s] > stake[s] /\ claim'[s] >= Bond
    /\ count_b(paying) <= IF no_stake THEN 2 ELSE 1
    /\ UNCHANGED <<holder, held>>

\* A deal ends: nobody loses more than their stake, and the pot is all paid out.
Divide ==
    /\ ~no_stake /\ stake' = zeros
    /\ \A s \in Seats : claim'[s] >= claim[s]
    /\ sum_u(claim') = sum_u(claim) + sum_u(stake)
    /\ UNCHANGED <<holder, held>>

\* One player holds the table up: everyone else has their stake back, the player goes
\* home without the bond and the stake, which the others share.
Evict(o) ==
    /\ holder[o] # Nobody
    /\ holder' = [holder EXCEPT ![o] = Nobody]
    /\ held' = held - (claim[o] - Bond)
    /\ claim'[o] = 0 /\ stake' = zeros
    /\ \A s \in Seats \ {o} : claim'[s] >= claim[s] + stake[s]
    /\ sum_u(claim') = held'

CustodyNext ==
    \/ \E s \in Seats : SitDown(s) \/ TopUp(s) \/ GoHome(s) \/ Evict(s)
    \/ Bet \/ Divide

CustodySpec == CustodyInit /\ [][CustodyNext]_custodyVars
==============================================================================
