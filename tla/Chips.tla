------------------------------- MODULE Chips -------------------------------
(***************************************************************************)
(* A pile of chips as the scene shows an amount: ChipPile of               *)
(* src/src/scene/chips.ts.  The pile has room for so many chips; where     *)
(* they stand is left out.                                                 *)
(***************************************************************************)
EXTENDS Integers

CONSTANTS
    RED_CHIP,       \* what a red chip is worth; a white one is worth 1
    GREEN_CHIP,     \* and a green one
    GREENS_ABOVE,   \* the part of a pile green chips are for begins here
    CAPACITY        \* chips a pile has room for

ASSUME ChipsAssumption ==
    /\ {RED_CHIP, GREEN_CHIP, CAPACITY} \subseteq Nat \ {0}
    /\ GREENS_ABOVE \in Nat

\* The chips of each colour there is room for, the greens first.
pile(amount) ==
    LET wanted == IF amount > 0 THEN amount ELSE 0
        greens == IF wanted > GREENS_ABOVE THEN (wanted - GREENS_ABOVE) \div GREEN_CHIP ELSE 0
        left == wanted - greens * GREEN_CHIP
        reds == left \div RED_CHIP
        room(n, taken) == IF taken + n <= CAPACITY THEN n ELSE CAPACITY - taken
        green == room(greens, 0)
        red == room(reds, green)
    IN [green |-> green, red |-> red,
        white |-> room(left - reds * RED_CHIP, green + red)]

\* What somebody who counts a pile finds.
worth(p) == p.green * GREEN_CHIP + p.red * RED_CHIP + p.white
==============================================================================
