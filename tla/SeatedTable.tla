---------------------------- MODULE SeatedTable ----------------------------
(***************************************************************************)
(* Initial states and calls the model-checking modules share: a table where*)
(* some players have sat down and no deal has been started.                *)
(***************************************************************************)
EXTENDS ClientRules

CONSTANTS ann, bob

\* What joins by the players of `sitting`, in that order, lead to.
SeatedInit(sitting, buys) ==
    LET taken == 0..(Cardinality(DOMAIN sitting) - 1) IN
    /\ time \in Times
    /\ seat_owner = [s \in Seats |-> IF s \in taken THEN sitting[s + 1] ELSE NoPlayer]
    /\ stack = [s \in Seats |-> IF s \in taken THEN buys[s + 1] ELSE 0]
    /\ escrow = sum_u(stack) + Cardinality(taken) * BOND
    /\ NeverDealt

\* The deal alone: nobody comes, goes or prepares the next deck.
DealCall == TableCall \/ \E p \in Players : CardCall(p) \/ BetCall(p)
==============================================================================
