-------------------------- MODULE SeatVectorsProofs --------------------------
(***************************************************************************)
(* What the selections, counts and sums of SeatVectors return, for every   *)
(* set and every vector of seats.                                          *)
(***************************************************************************)
EXTENDS SeatVectors, TLAPS

Least(g, v) == \E s \in v : \A k \in v : g[s] <= g[k]

\* Adding a seat to a set that has a least member, under any valuation g,
\* leaves it with one.
LEMMA LeastAdd ==
    ASSUME NEW g \in [Seats -> Int], NEW v \in SUBSET Seats, NEW x \in Seats,
           v = {} \/ Least(g, v)
    PROVE  Least(g, v \cup {x})
<1>1. CASE v = {}
  BY <1>1 DEF Least
<1>2. CASE Least(g, v)
  <2>1. PICK s \in v : \A k \in v : g[s] <= g[k]
    BY <1>2 DEF Least
  <2>2. CASE g[s] <= g[x]
    BY <2>1, <2>2 DEF Least
  <2>3. CASE g[x] < g[s]
    <3>1. \A k \in v \cup {x} : g[x] <= g[k]
      BY <2>1, <2>3
    <3> QED
      BY <3>1 DEF Least
  <2> QED
    BY <2>2, <2>3
<1> QED
  BY <1>1, <1>2

\* Every nonempty set of seats has a least member under every valuation.
LEMMA LeastExists ==
    ASSUME NEW g \in [Seats -> Int], NEW v \in SUBSET Seats, v # {}
    PROVE  Least(g, v)
<1> DEFINE below(n) == {s \in v : s < n}
           P(n) == below(n) = {} \/ Least(g, below(n))
<1>a. \A s \in v : s \in Int /\ 0 <= s /\ s < 6
  BY DEF Seats
<1>0. P(0)
  BY <1>a
<1>1. ASSUME NEW n \in Seats, P(n) PROVE P(n + 1)
  <2>1. CASE n \in v
    <3>1. below(n + 1) = below(n) \cup {n}
      BY <1>a, <2>1
    <3>2. below(n) \in SUBSET Seats
      OBVIOUS
    <3> QED
      BY <1>1, <3>1, <3>2, LeastAdd
  <2>2. CASE n \notin v
    <3>1. below(n + 1) = below(n)
      <4>1. n \in Int
        BY DEF Seats
      <4>2. \A s \in v : s # n /\ (s < n + 1 <=> s < n)
        BY <1>a, <2>2, <4>1
      <4> QED
        BY <4>2
    <3> QED
      BY <1>1, <3>1
  <2> QED
    BY <2>1, <2>2
<1> HIDE DEF P
<1>2. P(1) /\ P(2) /\ P(3) /\ P(4) /\ P(5) /\ P(6)
  <2>1. P(1) BY <1>0, <1>1 DEF Seats
  <2>2. P(2) BY <2>1, <1>1 DEF Seats
  <2>3. P(3) BY <2>2, <1>1 DEF Seats
  <2>4. P(4) BY <2>3, <1>1 DEF Seats
  <2>5. P(5) BY <2>4, <1>1 DEF Seats
  <2>6. P(6) BY <2>5, <1>1 DEF Seats
  <2> QED BY <2>1, <2>2, <2>3, <2>4, <2>5, <2>6
<1>3. below(6) = v
  BY <1>a
<1> QED
  BY <1>2, <1>3 DEF P

\* first_in returns the lowest seat of the set, NONE for the empty one.
LEMMA FirstIn ==
    ASSUME NEW v \in SUBSET Seats
    PROVE  /\ v = {} => first_in(v) = NONE
           /\ v # {} => first_in(v) \in v /\ \A k \in v : first_in(v) <= k
<1>1. CASE v = {}
  BY <1>1 DEF first_in
<1>2. CASE v # {}
  <2> DEFINE g == [s \in Seats |-> s]
  <2>1. g \in [Seats -> Int]
    BY DEF Seats
  <2>2. Least(g, v)
    BY <1>2, <2>1, LeastExists
  <2>3. \E s \in v : \A k \in v : s <= k
    BY <2>2 DEF Least
  <2> QED
    BY <1>2, <2>3 DEF first_in
<1> QED
  BY <1>1, <1>2

\* next_in returns the lowest member past `after`, or NONE when there is none.
LEMMA NextIn ==
    ASSUME NEW v \in SUBSET Seats, NEW after
    PROVE  /\ next_in(v, after) = NONE \/ (next_in(v, after) \in v /\ next_in(v, after) > after)
           /\ next_in(v, after) = NONE => \A s \in v : ~(s > after)
           /\ next_in(v, after) # NONE => \A s \in v : s > after => next_in(v, after) <= s
<1> DEFINE w == {s \in v : s > after}
<1>1. w \in SUBSET Seats /\ next_in(v, after) = first_in(w)
  BY DEF next_in
<1>2. NONE \notin Seats
  BY DEF NONE, Seats
<1> QED
  BY <1>1, <1>2, FirstIn

\* next_round returns a member whenever there is one.
LEMMA NextRound ==
    ASSUME NEW v \in SUBSET Seats, NEW start
    PROVE  /\ next_round(v, start) \in v \cup {NONE}
           /\ v # {} => next_round(v, start) \in v
  BY NextIn, FirstIn DEF next_round

\* first_clockwise returns a member whenever there is one, from any button, and no
\* member is met before it.
LEMMA FirstClockwise ==
    ASSUME NEW v \in SUBSET Seats, NEW from \in Int
    PROVE  /\ v = {} => first_clockwise(from, v) = NONE
           /\ v # {} => /\ first_clockwise(from, v) \in v
                        /\ \A k \in v : clockwise(from, first_clockwise(from, v))
                                            <= clockwise(from, k)
<1>1. CASE v = {}
  BY <1>1 DEF first_clockwise
<1>2. CASE v # {}
  <2> DEFINE g == [s \in Seats |-> clockwise(from, s)]
  <2>1. g \in [Seats -> Int]
    BY DEF Seats, clockwise
  <2>2. Least(g, v)
    BY <1>2, <2>1, LeastExists
  <2>3. \E s \in v : \A k \in v : clockwise(from, s) <= clockwise(from, k)
    BY <2>2 DEF Least
  <2> QED
    BY <1>2, <2>3 DEF first_clockwise
<1> QED
  BY <1>1, <1>2

\* Places clockwise: s itself comes last, everyone else has a place of their own, and
\* from a seat n that is passed on the way the places are those past n.
LEMMA Clockwise ==
    ASSUME NEW s \in Seats, NEW n \in Seats, NEW x \in Seats
    PROVE  /\ clockwise(s, s) = 5 /\ clockwise(s, x) \in 0..5
           /\ x # s => clockwise(s, x) < 5
           /\ clockwise(s, x) = clockwise(s, n) => x = n
           /\ clockwise(s, n) < clockwise(s, x)
                  => clockwise(n, x) = clockwise(s, x) - clockwise(s, n) - 1
  BY DEF clockwise, Seats

------------------------------------------------------------------------------

\* A count is at most six, and 0 exactly for the empty set.
LEMMA CountB ==
    ASSUME NEW v \in SUBSET Seats
    PROVE  count_b(v) \in 0..6 /\ (count_b(v) = 0 <=> v = {})
<1>1. count_b(v) \in 0..6
  BY DEF count_b, sum_u, Seats
<1>2. v = {} => count_b(v) = 0
  BY DEF count_b, sum_u, Seats
<1>3. count_b(v) = 0 => v = {}
  BY DEF count_b, sum_u, Seats
<1> QED
  BY <1>1, <1>2, <1>3

\* The order of a seat among others is at most five.
LEMMA OrderOf ==
    ASSUME NEW v \in SUBSET Seats, NEW s \in Seats
    PROVE  order_of(v, s) \in 0..5
  BY DEF order_of, count_b, sum_u, Seats

\* A street has at most five board cards, and none before the flop.
LEMMA BoardLen ==
    ASSUME NEW st \in 0..3
    PROVE  board_len(st) \in 0..5
  BY DEF board_len

\* Sums of naturals are natural, and no term exceeds the sum.
LEMMA SumU ==
    ASSUME NEW v \in [Seats -> Nat]
    PROVE  sum_u(v) \in Nat /\ \A s \in Seats : v[s] <= sum_u(v)
  BY DEF sum_u, Seats

\* The smaller of two numbers.
LEMMA MinU ==
    ASSUME NEW a \in Int, NEW b \in Int
    PROVE  min_u(a, b) \in {a, b} /\ min_u(a, b) <= a /\ min_u(a, b) <= b
  BY DEF min_u

\* A sum is no smaller than another whose every term is.
LEMMA SumLeq ==
    ASSUME NEW f \in [Seats -> Int], NEW g \in [Seats -> Int], \A s \in Seats : f[s] <= g[s]
    PROVE  sum_u(f) \in Int /\ sum_u(g) \in Int /\ sum_u(f) <= sum_u(g)
<1>1. \A s \in {0, 1, 2, 3, 4, 5} : f[s] <= g[s] /\ f[s] \in Int /\ g[s] \in Int
  BY DEF Seats
<1> QED
  BY <1>1 DEF sum_u

\* Sums of two vectors, one the other moved by d, differ by the sum of d.
LEMMA SumDelta ==
    ASSUME NEW f \in [Seats -> Int], NEW g \in [Seats -> Int], NEW d \in [Seats -> Int],
           \A s \in Seats : g[s] = f[s] + d[s]
    PROVE  sum_u(g) = sum_u(f) + sum_u(d)
<1>1. \A s \in {0, 1, 2, 3, 4, 5} : /\ g[s] = f[s] + d[s]
                                    /\ f[s] \in Int /\ g[s] \in Int /\ d[s] \in Int
  BY DEF Seats
<1> QED
  BY <1>1 DEF sum_u

\* A vector with one seat's entry sums to that entry.
LEMMA SumOne ==
    ASSUME NEW s \in Seats, NEW x \in Int
    PROVE  sum_u([i \in Seats |-> IF i = s THEN x ELSE 0]) = x
<1>1. \A j \in {0, 1, 2, 3, 4, 5} :
          [i \in Seats |-> IF i = s THEN x ELSE 0][j] = IF j = s THEN x ELSE 0
  BY DEF Seats
<1>2. s \in {0, 1, 2, 3, 4, 5}
  BY DEF Seats
<1> QED
  BY <1>1, <1>2 DEF sum_u

\* A vector with q at the seats of v sums to q times their number.
LEMMA SumScale ==
    ASSUME NEW v \in SUBSET Seats, NEW q \in Int
    PROVE  sum_u([i \in Seats |-> IF i \in v THEN q ELSE 0]) = q * count_b(v)
<1> DEFINE c(s) == IF s \in v THEN 1 ELSE 0
           e(s) == IF s \in v THEN q ELSE 0
<1>1. \A s \in Seats : c(s) \in Int /\ e(s) = q * c(s)
  BY Z3
<1>2. count_b(v) = c(0) + c(1) + c(2) + c(3) + c(4) + c(5)
  BY DEF count_b, sum_u, Seats
<1>3. sum_u([i \in Seats |-> IF i \in v THEN q ELSE 0])
          = e(0) + e(1) + e(2) + e(3) + e(4) + e(5)
  BY DEF sum_u, Seats
<1>4. 0 \in Seats /\ 1 \in Seats /\ 2 \in Seats /\ 3 \in Seats /\ 4 \in Seats /\ 5 \in Seats
  BY DEF Seats
<1> HIDE DEF c, e
<1>5. ASSUME NEW a0 \in Int, NEW a1 \in Int, NEW a2 \in Int, NEW a3 \in Int,
             NEW a4 \in Int, NEW a5 \in Int
      PROVE  q * (a0 + a1 + a2 + a3 + a4 + a5)
                 = q * a0 + q * a1 + q * a2 + q * a3 + q * a4 + q * a5
  BY <1>5
<1>6. q * (c(0) + c(1) + c(2) + c(3) + c(4) + c(5))
          = q * c(0) + q * c(1) + q * c(2) + q * c(3) + q * c(4) + q * c(5)
  BY <1>1, <1>4, <1>5
<1> QED
  BY <1>1, <1>2, <1>3, <1>4, <1>6

\* One more seat counts one more.
LEMMA CountAdd ==
    ASSUME NEW v \in SUBSET Seats, NEW x \in Seats \ v
    PROVE  count_b(v \cup {x}) = count_b(v) + 1
<1> DEFINE f == [s \in Seats |-> IF s \in v THEN 1 ELSE 0]
           g == [s \in Seats |-> IF s \in v \cup {x} THEN 1 ELSE 0]
           d == [s \in Seats |-> IF s = x THEN 1 ELSE 0]
<1>1. f \in [Seats -> Int] /\ g \in [Seats -> Int] /\ d \in [Seats -> Int]
  OBVIOUS
<1>2. \A s \in Seats : g[s] = f[s] + d[s]
  OBVIOUS
<1>3. sum_u(d) = 1
  <2>1. x \in Seats /\ 1 \in Int
    OBVIOUS
  <2> QED
    BY <2>1, SumOne, Zenon
<1>4. count_b(v) = sum_u(f) /\ count_b(v \cup {x}) = sum_u(g)
  BY DEF count_b
<1> HIDE DEF f, g, d
<1> QED
  BY <1>1, <1>2, <1>3, <1>4, SumDelta

\* Fewer seats count no more, and a proper part of them counts less.
LEMMA CountPart ==
    ASSUME NEW w \in SUBSET Seats, NEW v \in SUBSET w
    PROVE  /\ count_b(v) <= count_b(w)
           /\ count_b(v) = count_b(w) => v = w
<1>1. ASSUME NEW u \in SUBSET w PROVE count_b(u) <= count_b(w)
  <2> DEFINE c(y, s) == IF s \in y THEN 1 ELSE 0
  <2>1. \A s \in Seats : c(u, s) \in Int /\ c(w, s) \in Int /\ c(u, s) <= c(w, s)
    OBVIOUS
  <2>2. \A y \in SUBSET Seats :
            count_b(y) = c(y, 0) + c(y, 1) + c(y, 2) + c(y, 3) + c(y, 4) + c(y, 5)
    BY DEF count_b, sum_u, Seats
  <2>3. {0, 1, 2, 3, 4, 5} \subseteq Seats
    BY DEF Seats
  <2> HIDE DEF c
  <2> QED
    BY <2>1, <2>2, <2>3
<1>2. ASSUME NEW x \in w \ v PROVE count_b(v) < count_b(w)
  <2>1. count_b(v \cup {x}) = count_b(v) + 1
    BY CountAdd
  <2>2. count_b(v \cup {x}) <= count_b(w)
    BY <1>1
  <2>3. count_b(v) \in Int /\ count_b(w) \in Int
    BY CountB
  <2> QED
    BY <2>1, <2>2, <2>3
<1>3. count_b(v) \in Int /\ count_b(w) \in Int
  BY CountB
<1> QED
  BY <1>1, <1>2, <1>3

\* Dealing clockwise, every place from the first to the last is somebody's.
LEMMA EveryPlaceTaken ==
    ASSUME NEW v \in SUBSET Seats, NEW d \in Int, NEW m \in Nat, m < count_b(v)
    PROVE  \E s \in v : count_b({k \in v : clockwise(d, k) < clockwise(d, s)}) = m
<1> DEFINE cw(s) == clockwise(d, s)
           before(s) == {k \in v : cw(k) < cw(s)}
           place(s) == count_b(before(s))
<1>1. \A s \in Seats : cw(s) \in Int /\ \A k \in Seats : cw(s) = cw(k) => s = k
  BY DEF clockwise, Seats
<1> HIDE DEF cw
<1>2. \A s : before(s) \in SUBSET Seats /\ before(s) \subseteq v
  OBVIOUS
<1>3. \A s : place(s) \in 0..6
  BY <1>2, CountB
<1>4. PICK first \in v : \A k \in v : cw(first) <= cw(k)
  <2> DEFINE g == [s \in Seats |-> cw(s)]
  <2>1. v # {} /\ g \in [Seats -> Int]
    BY <1>1, CountB
  <2>2. \E s \in v : \A k \in v : g[s] <= g[k]
    BY <2>1, LeastExists DEF Least
  <2> QED
    BY <2>2
<1>5. place(first) = 0
  <2>1. before(first) = {}
    BY <1>1, <1>4
  <2> QED
    BY <2>1, CountB
<1> DEFINE early == {s \in v : place(s) <= m}
<1>6. PICK s \in early : \A k \in early : cw(k) <= cw(s)
  <2> DEFINE g == [k \in Seats |-> -cw(k)]
  <2>1. early # {} /\ early \in SUBSET Seats /\ g \in [Seats -> Int]
    <3> HIDE DEF place
    <3>1. first \in early
      BY <1>4, <1>5
    <3> QED
      BY <1>1, <3>1
  <2> HIDE DEF early, place, before
  <2>2. \E k \in early : \A j \in early : g[k] <= g[j]
    BY <2>1, LeastExists DEF Least
  <2>3. \A k \in early : g[k] = -cw(k) /\ cw(k) \in Int
    BY <1>1, <2>1
  <2>4. PICK k \in early : \A j \in early : g[k] <= g[j]
    BY <2>2
  <2>5. \A j \in early : cw(j) <= cw(k)
    <3> HIDE DEF g
    <3> QED
      BY <2>3, <2>4
  <2> QED
    BY <2>4, <2>5
<1>7. place(s) = m
  <2> SUFFICES ASSUME place(s) # m PROVE FALSE
    OBVIOUS
  <2> DEFINE upto == before(s) \cup {s}  after == v \ upto
  <2>1. s \in v /\ s \in Seats \ before(s) /\ place(s) < m
    BY <1>1, <1>3, <1>6
  <2>2. count_b(upto) = place(s) + 1
    BY <1>2, <2>1, CountAdd
  <2>3. after # {}
    <3>1. upto \in SUBSET v
      BY <2>1
    <3>2. upto # v
      BY <1>3, <2>1, <2>2, CountB
    <3> QED
      BY <3>1, <3>2
  <2>4. PICK x \in after : \A k \in after : cw(x) <= cw(k)
    <3> DEFINE g == [k \in Seats |-> cw(k)]
    <3>1. after \in SUBSET Seats /\ g \in [Seats -> Int]
      BY <1>1
    <3> HIDE DEF after
    <3>2. \E k \in after : \A j \in after : g[k] <= g[j]
      BY <2>3, <3>1, LeastExists DEF Least
    <3>3. \A k \in after : g[k] = cw(k)
      BY <3>1
    <3> QED
      BY <3>2, <3>3
  <2>5. x \in v /\ x # s /\ cw(s) < cw(x)
    BY <1>1, <2>1, <2>4
  <2>6. before(x) = upto
    <3>1. ASSUME NEW k \in before(x) PROVE k \in upto
      BY <1>1, <2>4, <3>1
    <3>2. ASSUME NEW k \in upto PROVE k \in before(x)
      BY <1>1, <2>1, <2>5, <3>2
    <3> QED
      BY <3>1, <3>2
  <2>7. place(x) <= m
    BY <1>3, <2>1, <2>2, <2>6
  <2>8. cw(x) <= cw(s)
    BY <1>6, <2>5, <2>7
  <2> QED
    BY <1>1, <2>1, <2>5, <2>8
<1> QED
  BY <1>6, <1>7 DEF cw

\* As many seats have an early place as there are early places.
LEMMA EarlyPlaces ==
    ASSUME NEW v \in SUBSET Seats, NEW d \in Int, NEW r \in Nat, r < count_b(v)
    PROVE  count_b({s \in v : count_b({k \in v : clockwise(d, k) < clockwise(d, s)}) < r}) = r
<1> DEFINE cw(s) == clockwise(d, s)
           before(s) == {k \in v : cw(k) < cw(s)}
           place(s) == count_b(before(s))
<1>1. \A s \in Seats : cw(s) \in Int
  BY DEF clockwise, Seats
<1>2. PICK x \in v : place(x) = r
  BY EveryPlaceTaken
<1> HIDE DEF cw
<1>3. ASSUME NEW s \in v PROVE place(s) < r <=> s \in before(x)
  <2>1. before(s) \in SUBSET Seats /\ before(x) \in SUBSET Seats
    OBVIOUS
  <2>2. place(s) \in Int /\ place(x) \in Int
    BY <2>1, CountB
  <2>3. CASE s \in before(x)
    <3>1. before(s) \in SUBSET before(x) /\ before(s) # before(x)
      BY <1>1, <1>2, <2>3
    <3>2. place(s) <= place(x) /\ place(s) # place(x)
      BY <2>1, <3>1, CountPart
    <3> HIDE DEF place, before
    <3> QED
      BY <1>2, <2>2, <2>3, <3>2
  <2>4. CASE s \notin before(x)
    <3>1. before(x) \in SUBSET before(s)
      BY <1>1, <1>2, <2>4
    <3>2. place(x) <= place(s)
      BY <2>1, <3>1, CountPart
    <3> HIDE DEF place, before
    <3> QED
      BY <1>2, <2>2, <2>4, <3>2
  <2> QED
    BY <2>3, <2>4
<1>4. {s \in v : place(s) < r} = before(x)
  BY <1>3
<1> QED
  BY <1>2, <1>4 DEF cw

\* An amount divided equally, one of the odd chips to each of the first clockwise, is
\* divided to the last chip.
LEMMA EqualShares ==
    ASSUME NEW v \in SUBSET Seats, v # {}, NEW d \in Int, NEW amount \in Nat
    PROVE  LET n == count_b(v)
               place(i) == count_b({k \in v : clockwise(d, k) < clockwise(d, i)})
           IN  sum_u([i \in Seats |-> IF i \in v
                                      THEN amount \div n + (IF place(i) < amount % n THEN 1 ELSE 0)
                                      ELSE 0]) = amount
<1> DEFINE n == count_b(v)
           place(i) == count_b({k \in v : clockwise(d, k) < clockwise(d, i)})
           q == amount \div n
           r == amount % n
           first == {i \in v : place(i) < r}
           whole == [i \in Seats |-> IF i \in v THEN q ELSE 0]
           odd == [i \in Seats |-> IF i \in first THEN 1 ELSE 0]
           share == [i \in Seats |-> IF i \in v THEN q + (IF place(i) < r THEN 1 ELSE 0) ELSE 0]
<1>1. n \in 1..6
  BY CountB
<1>2. q \in Nat /\ r \in Nat /\ r < n /\ q * n + r = amount
  <2> HIDE DEF n
  <2> QED
    BY <1>1
<1>3. first \in SUBSET Seats /\ count_b(first) = r
  BY <1>2, EarlyPlaces
<1> HIDE DEF n, place, q, r
<1>4. sum_u(odd) = r
  <2> HIDE DEF first
  <2> QED
    BY <1>3 DEF count_b
<1>5. sum_u(whole) = q * n
  <2>1. q \in Int
    BY <1>2
  <2> HIDE DEF q
  <2> QED
    BY <2>1, SumScale DEF n
<1>6. whole \in [Seats -> Int] /\ odd \in [Seats -> Int] /\ share \in [Seats -> Int]
      /\ \A i \in Seats : share[i] = whole[i] + odd[i]
  <2>1. \A i \in Seats : whole[i] \in Int /\ odd[i] \in Int /\ share[i] = whole[i] + odd[i]
    BY <1>2
  <2>2. whole = [i \in Seats |-> whole[i]] /\ odd = [i \in Seats |-> odd[i]]
    OBVIOUS
  <2>3. share = [i \in Seats |-> share[i]]
    OBVIOUS
  <2> HIDE DEF whole, odd, share, first
  <2> QED
    BY <2>1, <2>2, <2>3
<1> HIDE DEF whole, odd, first
<1>7. sum_u(share) = amount
  <2> HIDE DEF share
  <2>1. sum_u(share) = sum_u(whole) + sum_u(odd)
    BY <1>6, SumDelta
  <2> QED
    BY <1>2, <1>4, <1>5, <2>1
<1> QED
  BY <1>7 DEF n, place, q, r

\* A table of amounts comes to the same by rows and by columns.
LEMMA SumExchange ==
    ASSUME NEW m \in [Seats -> [Seats -> Int]]
    PROVE  sum_u([i \in Seats |-> sum_u([j \in Seats |-> m[j][i]])])
               = sum_u([j \in Seats |-> sum_u(m[j])])
<1> DEFINE rows == [i \in Seats |-> sum_u([j \in Seats |-> m[j][i]])]
           columns == [j \in Seats |-> sum_u(m[j])]
           low == [i \in Seats |-> m[0][i] + m[1][i] + m[2][i]]
           high == [i \in Seats |-> m[3][i] + m[4][i] + m[5][i]]
<1>1. \A i \in Seats : /\ m[0][i] \in Int /\ m[1][i] \in Int /\ m[2][i] \in Int
                       /\ m[3][i] \in Int /\ m[4][i] \in Int /\ m[5][i] \in Int
  BY DEF Seats
<1>2. ASSUME NEW i \in Seats PROVE rows[i] = low[i] + high[i]
  <2>1. rows[i] = m[0][i] + m[1][i] + m[2][i] + m[3][i] + m[4][i] + m[5][i]
    BY DEF sum_u, Seats
  <2>2. low[i] = m[0][i] + m[1][i] + m[2][i] /\ high[i] = m[3][i] + m[4][i] + m[5][i]
    OBVIOUS
  <2> HIDE DEF rows, low, high
  <2> QED
    BY <1>1, <2>1, <2>2
<1>3. low \in [Seats -> Int] /\ high \in [Seats -> Int]
  BY <1>1
<1>4. rows \in [Seats -> Int]
  <2>1. ASSUME NEW i \in Seats PROVE rows[i] \in Int
    <3>1. low[i] \in Int /\ high[i] \in Int /\ rows[i] = low[i] + high[i]
      BY <1>2, <1>3
    <3> HIDE DEF rows, low, high
    <3> QED
      BY <3>1
  <2>2. rows = [i \in Seats |-> rows[i]]
    OBVIOUS
  <2> HIDE DEF rows
  <2> QED
    BY <2>1, <2>2
<1>5. sum_u(rows) = sum_u(low) + sum_u(high)
  <2> HIDE DEF rows, low, high
  <2> QED
    BY <1>2, <1>3, <1>4, SumDelta
<1>6. /\ sum_u(low) = sum_u(m[0]) + sum_u(m[1]) + sum_u(m[2])
      /\ sum_u(high) = sum_u(m[3]) + sum_u(m[4]) + sum_u(m[5])
  <2>1. /\ \A i \in {0, 1, 2, 3, 4, 5} : /\ m[0][i] \in Int /\ m[1][i] \in Int /\ m[2][i] \in Int
                                         /\ low[i] = m[0][i] + m[1][i] + m[2][i]
        /\ \A i \in {0, 1, 2, 3, 4, 5} : /\ m[3][i] \in Int /\ m[4][i] \in Int /\ m[5][i] \in Int
                                         /\ high[i] = m[3][i] + m[4][i] + m[5][i]
    BY <1>1 DEF Seats
  <2> HIDE DEF low, high
  <2>2. sum_u(low) = sum_u(m[0]) + sum_u(m[1]) + sum_u(m[2])
    BY <2>1 DEF sum_u
  <2>3. sum_u(high) = sum_u(m[3]) + sum_u(m[4]) + sum_u(m[5])
    BY <2>1 DEF sum_u
  <2> QED
    BY <2>2, <2>3
<1>7. sum_u(columns) = sum_u(m[0]) + sum_u(m[1]) + sum_u(m[2]) + sum_u(m[3]) + sum_u(m[4]) + sum_u(m[5])
  <2>1. \A j \in {0, 1, 2, 3, 4, 5} : columns[j] = sum_u(m[j])
    BY DEF Seats
  <2> HIDE DEF columns
  <2> QED
    BY <2>1 DEF sum_u
<1>8. \A j \in {0, 1, 2, 3, 4, 5} : sum_u(m[j]) \in Int
  <2>1. \A j \in {0, 1, 2, 3, 4, 5} : m[j] \in [Seats -> Int]
    BY DEF Seats
  <2> QED
    BY <2>1, SumLeq
<1>9. sum_u(rows) = sum_u(columns)
  <2> HIDE DEF rows, columns, low, high
  <2> QED
    BY <1>5, <1>6, <1>7, <1>8
<1> QED
  BY <1>9 DEF rows, columns

==============================================================================
