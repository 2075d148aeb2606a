---------------------------- MODULE SeatVectors ----------------------------
(***************************************************************************)
(* The pure circuits of src/contracts/deal.compact: selection, counting    *)
(* and order over the six seats of a table.  The contract's                *)
(* Vector<6, Boolean> is a set of seats here, its Vector<6, Uint<64>> a     *)
(* function of the seats; a fold over the vector is a choice or a count    *)
(* over the set.                                                           *)
(***************************************************************************)
EXTENDS Integers

Seats == 0..5

\* "No seat", in every field that holds a seat.
NONE == 255

zeros == [s \in Seats |-> 0]

sum_u(v) == v[0] + v[1] + v[2] + v[3] + v[4] + v[5]

count_b(v) == sum_u([s \in Seats |-> IF s \in v THEN 1 ELSE 0])

first_in(v) == IF v = {} THEN NONE ELSE CHOOSE s \in v : \A k \in v : s <= k

next_in(v, after) == first_in({s \in v : s > after})

next_round(v, start) ==
    LET nxt == next_in(v, start) IN IF nxt = NONE THEN first_in(v) ELSE nxt

\* Places clockwise from the left neighbour of `from` to s: 0 for that
\* neighbour, 5 for `from` itself.
clockwise(from, s) == IF s > from THEN s - from - 1 ELSE s + 5 - from

\* The member of v met first going clockwise from `from`, itself the last.
first_clockwise(from, v) ==
    IF v = {} THEN NONE
    ELSE CHOOSE s \in v : \A k \in v : clockwise(from, s) <= clockwise(from, k)

\* Dealing order: how many members of v sit below s.
order_of(v, s) == count_b({k \in v : k < s})

\* Board positions in play up to and including a street.
board_len(st) == CASE st = 0 -> 0 [] st = 1 -> 3 [] st = 2 -> 4 [] OTHER -> 5

min_u(a, b) == IF a < b THEN a ELSE b

==============================================================================
