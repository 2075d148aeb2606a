---------------------------- MODULE TableOpening ----------------------------
(***************************************************************************)
(* Opening a Live table and taking a seat at one: deployTable and joinTable*)
(* of src/src/live/live.ts with deployInParts and isOurs of ledger.ts.     *)
(* Each is a call of the page that waits for the wallet, then for the      *)
(* chain; calls run side by side, and others join meanwhile.               *)
(***************************************************************************)
EXTENDS SeatVectors, SequencesExt

CONSTANTS
    Identities,     \* who this browser may be at a table
    Strangers,      \* who else may join
    Nobody,
    Circuits,       \* the contract's circuits, in the order it declares them
    Sizes,          \* what a verifier key may take of a block's writes
    Budget,         \* what a transaction may
    MaxCalls,       \* bound: calls of the page
    Networks        \* the networks a wallet may be on, in the order the page asks for them

ASSUME CallsAssumption == MaxCalls \in Nat /\ Budget \in Nat /\ Sizes \subseteq Nat

VARIABLES
    live_table,     \* the table at the address in play, as the chain has it
    calls,          \* the page's calls, in the order they were made
    submitted,      \* transactions in no block yet
    address         \* the page's address box names the table

openingVars == <<live_table, calls, submitted, address>>

nobody_seated == [s \in Seats |-> Nobody]
NoTable == [network |-> "none", circuits |-> {}, ours |-> TRUE, counter |-> 0, locked |-> FALSE,
            owner |-> nobody_seated]

\* A table somebody opened: ours, not ours, or one whose circuits can still be changed.
SomeTable(network, ours, locked) ==
    [NoTable EXCEPT !.network = network, !.circuits = ToSet(Circuits), !.ours = ours,
                    !.counter = 1, !.locked = locked]

------------------------------------------------------------------------------
(* deployInParts. *)

\* A transaction with these verifier keys stays within the budget.
fits(size, names) == FoldLeft(LAMBDA n, c : n + size[c], 0, names) <= Budget

\* The keys the deploy has no room for, in batches that fit.
batches(size, later) ==
    FoldLeft(LAMBDA bs, c :
                 IF Last(bs) # <<>> /\ ~fits(size, Append(Last(bs), c)) THEN Append(bs, <<c>>)
                 ELSE [bs EXCEPT ![Len(bs)] = Append(@, c)],
             << <<>> >>, later)

\* Mutant: off by one, no update is the last.
locks_off_by_one(parts, i) == i = Len(parts) + 1

\* The last update also locks the circuits.
locks(parts, i) == i = Len(parts)

\* The parts of a deploy: the keys of each, and whether it locks the table.
deployInParts(size) ==
    LET first == CHOOSE n \in 0..Len(Circuits) :
                    /\ fits(size, SubSeq(Circuits, 1, n))
                    /\ n < Len(Circuits) => ~fits(size, SubSeq(Circuits, 1, n + 1))
        later == SubSeq(Circuits, first + 1, Len(Circuits))
        parts == <<SubSeq(Circuits, 1, first)>> \o batches(size, later)
    IN [i \in DOMAIN parts |-> [keys |-> ToSet(parts[i]), lock |-> locks(parts, i)]]

\* Every circuit is the one we built, and nobody can change them.
isOurs(t) == t.locked /\ t.ours /\ t.circuits = ToSet(Circuits)

------------------------------------------------------------------------------
(* The page's calls.  `at` says what each waits for. *)

seatOf_table(t, who) == first_in({s \in Seats : t.owner[s] = who})

Submitting(c) == [c EXCEPT !.at = "submitting"]
Done(c, s) == [c EXCEPT !.at = "done", !.seat = s]
Failed(c) == [c EXCEPT !.at = "failed"]
set_call(i, c) == calls' = [calls EXCEPT ![i] = c]

\* What the chain shows to the wallet of call c.
snapshot_for(c) == IF live_table.network = c.network THEN live_table ELSE NoTable

\* Bound: one table is opened, and only while no other is known.
Deploy(who, network) ==
    /\ Len(calls) < MaxCalls /\ ~address
    /\ \A i \in DOMAIN calls : calls[i].what # "deploy"
    /\ \E size \in [ToSet(Circuits) -> Sizes] :
          calls' = Append(calls, [what |-> "deploy", who |-> who, network |-> network,
                                  parts |-> deployInParts(size), part |-> 1,
                                  at |-> "submitting", seat |-> NONE])
    /\ UNCHANGED <<live_table, submitted, address>>

JoinTable(who, network) ==
    /\ Len(calls) < MaxCalls /\ address
    /\ calls' = Append(calls, [what |-> "join", who |-> who, network |-> network, parts |-> <<>>,
                               part |-> 0, at |-> "reading", seat |-> NONE])
    /\ UNCHANGED <<live_table, submitted, address>>

\* joinOn reads the table: a seat held is taken back, otherwise the join is run on it.
Read(i) ==
    LET c == calls[i]
        t == snapshot_for(c)
        held == seatOf_table(t, c.who)
        free == first_in({s \in Seats : t.owner[s] = Nobody})
    IN
    /\ c.at = "reading"
    /\ set_call(i, IF t = NoTable \/ ~isOurs(t) THEN Failed(c)
                   ELSE IF held # NONE THEN Done(c, held)
                   ELSE IF free = NONE THEN Failed(c)
                   ELSE Submitting([c EXCEPT !.seat = free]))
    /\ UNCHANGED <<live_table, submitted, address>>

\* The wallet submits; the call then waits for the chain to show it.
WalletSubmits(i) ==
    LET c == calls[i] IN
    /\ c.at = "submitting"
    /\ submitted' = submitted \cup
          {[what |-> c.what, who |-> c.who, network |-> c.network, seat |-> c.seat, part |-> c.part,
            in |-> IF c.what = "deploy" THEN c.parts[c.part] ELSE [keys |-> {}, lock |-> FALSE]]}
    /\ set_call(i, [c EXCEPT !.at = "settling"])
    /\ UNCHANGED <<live_table, address>>

\* The player or the wallet refuses.
WalletRefuses(i) ==
    /\ calls[i].at = "submitting"
    /\ set_call(i, Failed(calls[i]))
    /\ UNCHANGED <<live_table, submitted, address>>

\* What the call waits for, in the chain's state.
shows(c, t) ==
    IF c.what = "join" THEN t # NoTable /\ seatOf_table(t, c.who) = c.seat
    ELSE t # NoTable /\ (c.part > 1 => t.counter > c.part - 2)

\* A poll shows it: the next part of a deploy, its address, or the seat.
Settled(i) ==
    LET c == calls[i]
        last == c.part = Len(c.parts)
    IN
    /\ c.at = "settling" /\ shows(c, snapshot_for(c))
    /\ set_call(i, CASE c.what = "join" -> Done(c, c.seat)
                     [] c.what = "deploy" /\ last -> Done(c, NONE)
                     [] OTHER -> Submitting([c EXCEPT !.part = @ + 1]))
    /\ address' = (address \/ (c.what = "deploy" /\ last))
    /\ UNCHANGED <<live_table, submitted>>

\* Three minutes without.
GivesUp(i) ==
    /\ calls[i].at = "settling" /\ ~shows(calls[i], snapshot_for(calls[i]))
    /\ set_call(i, Failed(calls[i]))
    /\ UNCHANGED <<live_table, submitted, address>>

------------------------------------------------------------------------------
(* The chain. *)

\* A deploy; an update at the authority's counter, while there is an authority; a join,
\* computed for the seat it still gets.
applies(tx, t) ==
    CASE tx.what = "join" ->
            /\ t.network = tx.network
            /\ seatOf_table(t, tx.who) = NONE
            /\ first_in({s \in Seats : t.owner[s] = Nobody}) = tx.seat
      [] tx.part = 1 -> t = NoTable
      [] OTHER -> t.network = tx.network /\ ~t.locked /\ t.counter = tx.part - 2

applied(tx, t) ==
    CASE tx.what = "join" -> [t EXCEPT !.owner[tx.seat] = tx.who]
      [] tx.part = 1 -> [t EXCEPT !.network = tx.network, !.circuits = tx.in.keys]
      [] OTHER -> [t EXCEPT !.circuits = @ \cup tx.in.keys, !.counter = @ + 1,
                            !.locked = tx.in.lock]

\* Into a block, late or not; or it fails there.
IntoBlock(tx) ==
    /\ tx \in submitted
    /\ submitted' = submitted \ {tx}
    /\ live_table' = IF applies(tx, live_table) THEN applied(tx, live_table) ELSE live_table
    /\ UNCHANGED <<calls, address>>

NeverLands(tx) ==
    /\ tx \in submitted
    /\ submitted' = submitted \ {tx}
    /\ UNCHANGED <<live_table, calls, address>>

\* Somebody else takes the first free seat of an open table.
StrangerJoins(p) ==
    LET free == first_in({s \in Seats : live_table.owner[s] = Nobody}) IN
    /\ live_table.locked /\ seatOf_table(live_table, p) = NONE
    /\ live_table' = [live_table EXCEPT !.owner[free] = p]
    /\ UNCHANGED <<calls, submitted, address>>

OpeningInit ==
    /\ \/ live_table = NoTable /\ address = FALSE
       \/ /\ address = TRUE
          /\ \E ours, locked \in BOOLEAN : live_table = SomeTable(Networks[1], ours, locked)
    /\ calls = <<>> /\ submitted = {}

\* What the network and the wallet do of their own.
OpeningStep ==
    \/ \E i \in DOMAIN calls : \/ Read(i) \/ WalletSubmits(i) \/ WalletRefuses(i)
                               \/ Settled(i) \/ GivesUp(i)
    \/ \E tx \in submitted : IntoBlock(tx) \/ NeverLands(tx)
    \/ \E p \in Strangers : StrangerJoins(p)

------------------------------------------------------------------------------
(* Properties. *)

\* An address the page hands out is a table's that plays: each circuit was deployed,
\* in one part or another, and nobody can change them any more.
AddressIsPlayable ==
    address /\ (\E i \in DOMAIN calls : calls[i].what = "deploy" /\ calls[i].at = "done")
        => isOurs(live_table)
==============================================================================
