------------------------------- MODULE MCLive -------------------------------
(***************************************************************************)
(* Two browsers at a live table: one deal, and the opening of the next,    *)
(* which is dealt from the deck prepared during the first when that was    *)
(* ready in time.                                                          *)
(***************************************************************************)
EXTENDS LiveReferee

CONSTANTS ann, bob

MCInit ==
    /\ time \in Times
    /\ seat_owner = [s \in Seats |-> CASE s = 0 -> ann [] s = 1 -> bob [] OTHER -> NoPlayer]
    /\ \E chips \in MIN_BUY_IN..MAX_BUY_IN :
           /\ stack = [s \in Seats |-> IF s \in {0, 1} THEN chips ELSE 0]
           /\ escrow = 2 * (chips + BOND)
    /\ NeverDealt
    /\ LiveInit

\* Bound: the second deal is followed until its hole cards are dealt.
Opening == deal_no < 2 \/ phase \in {"keys", "shuffle", "holes"}

\* Bound: a player calls once the next deck is prepared.  At the small table that puts both
\* all in; at the big one each has a chip left, the flop is seen, and then somebody folds.
\* Bob shows his cards at the small table only, before the next deck is prepared and with
\* nothing gone wrong, nor does anything go wrong while he shows them.
small == escrow = 2 * (MIN_BUY_IN + BOND)
is_call(tx) == tx.step = "bet" /\ tx.bet.kind = 1
is_check(tx) == tx.step = "bet" /\ tx.bet.circuit = "act" /\ tx.bet.kind = 0

\* Bound: nothing else happens while the indexer tells of a block.
Goes(c) == Opening /\ IF news = {} THEN Runs(c) ELSE c = (CHOOSE d \in news : TRUE) /\ Push(c)
Bets(c) ==
    /\ Opening /\ news = {} /\ Decides(c)
    /\ is_call(browser'[c].bet_job) => next_prep = "ready"
    /\ is_check(browser'[c].bet_job) => street = 0
    /\ browser'[c].bet_job.step = "show" =>
           c = bob /\ small /\ next_prep # "ready" /\ faults = 0 /\ in_flight[ann] = {}
showing ==
    \/ phase = "done" /\ \A pos \in own_positions(1) : <<pos, 1>> \in shares_posted
    \/ \E tx \in {browser[bob].bet_job} \cup in_flight[bob] : tx.step = "show"
\* Bound: at the big table all that goes wrong is that a change is not noticed.
Trouble(c) == Opening /\ news = {} /\ ~showing /\ small /\ Breaks(c)

LiveNext == \E c \in Players : Goes(c) \/ Bets(c) \/ Trouble(c)

\* Browsers and the network go on, and players make up their minds.
LiveFairness == \A c \in Players : WF_liveVars(Goes(c)) /\ WF_liveVars(Bets(c))

LiveSpec == MCInit /\ [][LiveNext]_liveVars /\ LiveFairness
=============================================================================
