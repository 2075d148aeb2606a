---------------------------- MODULE LiveReferee ----------------------------
(***************************************************************************)
(* The players' browsers at a live table: LiveReferee of                   *)
(* src/src/live/referee.ts with the deck keys of Seat, the chain access of *)
(* chain.ts and the indexer's pushes, composed with the contract.  A       *)
(* browser holds a copy of the ledger that polls and pushes refresh, sends *)
(* the step its seat owes by that copy, and shows the player a rail.  What *)
(* it sends is proved against the copy and lands later, if at all.         *)
(*                                                                         *)
(* An await that lasts (proving and submitting) ends an action: pushes,    *)
(* clicks and the other browsers come in between.  A push reaches an open  *)
(* socket with the block it tells of; what proving delays, and a socket    *)
(* that is closed, make a browser's copy old.                              *)
(***************************************************************************)
EXTENDS ClientRules

CONSTANTS
    Faults,         \* what may go wrong: see where each is named below
    MaxFaults,      \* bound: how often
    Decisions       \* bound: what players decide

ASSUME FaultsAssumption ==
    /\ Faults \subseteq {"refuse", "lose", "reload", "drop", "bets", "late", "unseen"}
    /\ MaxFaults \in Nat /\ Decisions \subseteq {"fold", "check", "call", "show"}

VARIABLES
    browser,                \* what each player's page knows
    store,                  \* the deck keys' keeping place, which a reload survives
    socket,                 \* the indexer's subscription: "open" or "closed"
    in_flight,              \* transactions submitted, in no block yet
    news,                   \* the browsers the indexer is telling of the latest block
    posted, next_posted,    \* chain: the deck key behind each seat's posted point
    faults

liveVars == <<vars, browser, store, socket, in_flight, news, posted, next_posted, faults>>
chainVars == <<vars, posted, next_posted>>

NoLedger == [phase |-> "unread"]
NoKey == 0
NoTx == [step |-> "none"]
NoBet == [circuit |-> "none"]
NotSent == <<>>
NoStore == [dealNo |-> -2, x |-> NoKey, nextX |-> NoKey]

\* What the rail is shown while a step of ours is on its way: nothing to do.
Waiting == [legal |-> NoLegal, canShow |-> FALSE]

\* A page just opened: `pending` is "new" while a step is thought to be on its way,
\* "old" once `retry` is over; `job` and `bet_job` are being proved and submitted.  `seen` is
\* the ledger last noticed as a change; `l` the one last read.
Opened(x, nextX) ==
    [l |-> NoLedger, seen |-> NoLedger, lastDeal |-> -1, x |-> x, nextX |-> nextX, pushed |-> NoLedger,
     pending |-> "none", lastSent |-> NotSent, job |-> NoTx, bet_job |-> NoTx,
     rail |-> Waiting]

\* The seat index rules.ts's seatOf gave the browser when it joined.
seat_of(c) == first_in({s \in Seats : seat_owner[s] = c})

\* What the rail is shown of the ledger last read.
snapshot(c, l, pending) ==
    IF pending # "none" THEN Waiting
    ELSE [legal |-> legal(l, seat_of(c)), canShow |-> canShow(l, seat_of(c))]

\* What a step is for: the circuit in this deal, phase and turn.
situation(snap, step) ==
    <<step, snap.deal_no, snap.phase, snap.turn, snap.to_act, snap.shuffles_done>>

\* The seats a circuit's fold over `those` looks at: as far as the first that is not done.
looked_at(those, done) == {k \in those : \A j \in those : j < k => j \in done}

\* What the circuit of a step reads of the ledger and a step of another's, or this one
\* come before, may change: on chain the transcript has to read the same again.
reads(l, step, s) ==
    LET others == live_in(l) \ {s}
        all_holes == 2 * count_b(l.in_deal) - 2
        released_to == {k \in others : l.board_shares[k] >= board_len(l.release_street)}
        tabled == {k \in others : shownCards(l, k)}
    IN
    CASE step = "post_key" -> <<l.phase, l.keys>>
      [] step = "shuffle" -> <<l.phase, l.turn, l.shuffles_done>>
      [] step = "shares" -> <<l.phase, l.hole_shares[s],
                              count_b({k \in l.in_deal : l.hole_shares[k] = all_holes})>>
      [] step = "release" -> <<l.phase, l.release_street, l.board_shares[s],
                               {<<k, l.board_shares[k]>> : k \in looked_at(others, released_to)}>>
      [] step = "show" -> <<l.phase, IF l.phase = "tabling"
                                     THEN {<<k, k \in tabled>> : k \in looked_at(others, tabled)}
                                     ELSE {}>>
      [] step = "show_hand" -> <<l.phase, l.scores[s]>>
      [] step = "start_deal" -> <<l.phase, l.stack, l.next_prep, l.next_in_deal, l.next_keys>>
      [] step = "post_next_key" -> <<l.next_prep, l.next_in_deal, l.next_keys>>
      [] step = "shuffle_next" -> <<l.next_prep, l.next_turn, l.next_keys>>
      [] step = "bet" -> <<l.phase, l.to_act, l.deadline, l.stack, l.bet, l.current_bet, l.acted>>
      [] OTHER -> <<l.phase>>

\* The circuit run on what browser b has read with the keys it holds, and its transcript
\* wrapped whole: it takes effect in one piece or not at all.
callTx(c, b, step, bet_as, situated) ==
    [step |-> step, bet |-> bet_as, key |-> b.x, nextKey |-> b.nextX, for |-> situated,
     reads |-> reads(b.l, step, seat_of(c))]

\* What is sent, and what for.
transaction(c, b, step, bet_as) == callTx(c, b, step, bet_as, situation(b.l, step))

Fault(kind) == kind \in Faults /\ faults < MaxFaults /\ faults' = faults + 1

\* Two keys nobody ever drew: none a browser, its store, the chain or a
\* transaction of c's holds.
unused_keys(c) ==
    LET used == {browser[c].x, browser[c].nextX, store[c].x, store[c].nextX,
                 posted[seat_of(c)], next_posted[seat_of(c)]}
                \cup UNION {{tx.key, tx.nextKey} : tx \in in_flight[c]}
        unused == 1..(Cardinality(used) + 2) \ used
        one == CHOOSE k \in unused : \A j \in unused : k <= j
    IN <<one, CHOOSE k \in unused \ {one} : \A j \in unused \ {one} : k <= j>>

------------------------------------------------------------------------------
(* Taking in the chain's state: read, then step. *)

\* Seat.rotate: the prepared key becomes this deal's, or a fresh one; the next is drawn.
rotate(c, next_key, was_prepared) ==
    LET new == unused_keys(c) IN
    IF was_prepared THEN [x |-> next_key, nextX |-> new[1]] ELSE [x |-> new[1], nextX |-> new[2]]

\* Mutant: on the first look after a reload the store is not asked.
keys_after_forgetting(c, b, snap) ==
    IF snap.deal_no = b.lastDeal \/ snap.phase = "idle"
    THEN [x |-> b.x, nextX |-> b.nextX]
    ELSE rotate(c, b.nextX, snap.phase \notin {"keys", "shuffle"})

\* The deck keys after reading `snap`.  When a deal started since the last look
\* they rotate: the prepared key becomes this deal's if it opened at the hole
\* cards.  On the first look after a reload they come back from the store: this
\* deal's as they were, or the next deck's carried into a deal begun meanwhile.
keys_after(c, b, snap) ==
    LET kept == IF b.lastDeal = -1 THEN store[c] ELSE NoStore
        next_key == IF kept.dealNo + 1 = snap.deal_no THEN kept.nextX ELSE b.nextX
        restored == kept.dealNo = snap.deal_no
    IN IF snap.deal_no # b.lastDeal /\ restored THEN [x |-> kept.x, nextX |-> kept.nextX]
       ELSE IF snap.deal_no = b.lastDeal \/ snap.phase = "idle" THEN [x |-> b.x, nextX |-> b.nextX]
       ELSE rotate(c, next_key, snap.phase \notin {"keys", "shuffle"})

read(c, b, snap) ==
    LET k == keys_after(c, b, snap) IN
    IF b.l = snap THEN b
    ELSE [b EXCEPT !.l = snap, !.seen = snap, !.lastDeal = snap.deal_no, !.x = k.x, !.nextX = k.nextX,
                   !.pending = "none", !.rail = snapshot(c, snap, "none")]

\* A change the page may not notice: states are told apart by their length and 128 of
\* their bytes.  A new deal shows: it empties the maps of shares.
may_miss(b, snap) ==
    b.l # snap /\ b.l # NoLedger /\ b.l.deal_no = snap.deal_no

\* Mutant: the keys are saved before they rotate.
saved_before_rotating(b, seen, c) ==
    IF b.lastDeal = seen.lastDeal THEN store[c]
    ELSE [dealNo |-> seen.lastDeal, x |-> b.x, nextX |-> b.nextX]

\* What read saves: the keys of a deal it had not seen before.
saved(b, seen, c) ==
    IF b.lastDeal = seen.lastDeal THEN store[c]
    ELSE [dealNo |-> seen.lastDeal, x |-> seen.x, nextX |-> seen.nextX]

\* Between deals: the lowest seat with chips starts the next one, after a pause.
starts(c, snap, paused) ==
    LET rich == {s \in occupied_in(snap) : snap.stack[s] > 0} IN
    /\ snap.phase = "idle" \/ (snap.phase = "done" /\ paused)
    /\ first_in(rich) = seat_of(c) /\ count_b(rich) >= 2

\* The step a browser would send: the first its seat owes, otherwise a deal to start.
to_send(c, snap, paused) ==
    LET steps == owed(snap, seat_of(c)) IN
    IF steps # <<>> THEN {steps[1]} ELSE IF starts(c, snap, paused) THEN {"start_deal"} ELSE {}

\* Mutant: a step is not sent again even when it was lost.
not_sent_before(b, s) == b.lastSent = NotSent \/ b.lastSent[1] # s

\* The same step for the same situation is not sent again within `retry`.
not_sent(b, s) == b.lastSent # situation(b.l, s)

\* None while one is on its way.
step_of(c, b, paused) ==
    LET sendable == {s \in to_send(c, b.l, paused) : not_sent(b, s)} IN
    IF b.pending = "new" THEN b
    ELSE IF sendable = {} THEN [b EXCEPT !.pending = "none"]
    ELSE [b EXCEPT !.pending = "new", !.rail = snapshot(c, b.l, "new"),
                   !.job = transaction(c, b, CHOOSE s \in sendable : TRUE, NoBet)]

Page(c, b) ==
    /\ browser' = [browser EXCEPT ![c] = b]
    /\ UNCHANGED <<chainVars, store, socket>>

\* Page c, having been b, has seen the ledger; it takes its step.
Goes_on(c, b, seen, paused) ==
    /\ browser' = [browser EXCEPT ![c] = step_of(c, seen, paused)]
    /\ store' = [store EXCEPT ![c] = saved(b, seen, c)]
    /\ UNCHANGED <<chainVars, socket>>

\* One turn of a tick's loop.  The pause after a deal is over by a later tick than the
\* one that saw it end.  "unseen": the ledger is read, but as no change.
TakeIn(c, b, news_or_poll) ==
    \E snap \in {news_or_poll} : \E b0 \in {[b EXCEPT !.pushed = NoLedger]} :
        \/ \E seen \in {read(c, b0, snap)} : Goes_on(c, b0, seen, b.l = snap)
           /\ UNCHANGED faults
        \/ may_miss(b0, snap) /\ Fault("unseen") /\ Goes_on(c, b0, [b0 EXCEPT !.l = snap], TRUE)

\* The chain pushes a change: taken up at once, or once the step being sent is.
Push(c) ==
    LET b == browser[c] IN
    /\ c \in news
    /\ news' = news \ {c}
    /\ IF b.job # NoTx THEN Page(c, [b EXCEPT !.pushed = ledger_now]) /\ UNCHANGED faults
       ELSE TakeIn(c, b, ledger_now)
    /\ UNCHANGED in_flight

\* A timer's tick: what was pushed while busy, or a poll.
Tick_client(c) ==
    LET b == browser[c] IN
    /\ b.job = NoTx
    /\ TakeIn(c, b, IF b.pushed = NoLedger THEN ledger_now ELSE b.pushed)
    /\ UNCHANGED <<in_flight, news>>

------------------------------------------------------------------------------
(* Sending. *)

\* Accepted by the wallet: on its way, and not repeated for this situation.  The tick
\* goes on with what was pushed meanwhile.
Submit(c) ==
    LET b == browser[c]
        sent == [b EXCEPT !.lastSent = b.job.for, !.job = NoTx]
    IN
    /\ b.job # NoTx
    /\ in_flight' = [in_flight EXCEPT ![c] = @ \cup {b.job}]
    /\ IF b.pushed = NoLedger THEN Page(c, sent) /\ UNCHANGED faults
       ELSE TakeIn(c, sent, b.pushed)
    /\ UNCHANGED news

\* "refuse": the prover or the wallet throws; the tick reports it and shows the
\* table again.
Refuse(c) ==
    LET b == browser[c] IN
    /\ b.job # NoTx /\ Fault("refuse")
    /\ Page(c, [b EXCEPT !.job = NoTx, !.pending = "none", !.rail = snapshot(c, b.l, "none")])
    /\ UNCHANGED <<in_flight, news>>

\* The player decides: a click on the rail, sent beside whatever a tick is doing.  The
\* circuit is run on the ledger as last read, and may refuse what the rail was shown of
\* an earlier one: the click's handler gets the error, nothing shows the table again.
Act(c, type) ==
    LET b == browser[c]  clicked == [b EXCEPT !.pending = "new", !.rail = Waiting] IN
    /\ b.bet_job = NoTx /\ b.rail.legal # NoLegal
    /\ b.l.phase = "playing" /\ b.l.to_act = seat_of(c)
    /\ <<type, 0>> \in rail_actions(b.rail.legal)
    /\ Page(c, IF <<type, 0>> \in rail_actions(legal(b.l, seat_of(c)))
               THEN [clicked EXCEPT !.bet_job =
                         transaction(c, b, "bet", actionStep(b.l, seat_of(c), type, 0))]
               ELSE [clicked EXCEPT !.pending = "none"])
    /\ UNCHANGED <<in_flight, news, faults>>

\* The deal over, the player opens their cards: sent as a bet is.
Show(c) ==
    LET b == browser[c] IN
    /\ b.bet_job = NoTx /\ b.rail.canShow /\ canShow(b.l, seat_of(c))
    /\ Page(c, [b EXCEPT !.pending = "new", !.rail = Waiting, !.bet_job = transaction(c, b, "show", NoBet)])
    /\ UNCHANGED <<in_flight, news, faults>>

BetSubmit(c) ==
    LET b == browser[c] IN
    /\ b.bet_job # NoTx
    /\ in_flight' = [in_flight EXCEPT ![c] = @ \cup {b.bet_job}]
    /\ Page(c, [b EXCEPT !.lastSent = b.bet_job.for, !.bet_job = NoTx])
    /\ UNCHANGED <<news, faults>>

\* "bets": a bet is refused.  The click's handler gets the error; nothing shows the
\* table again.
BetRefuse(c) ==
    LET b == browser[c] IN
    /\ b.bet_job # NoTx /\ Fault("bets")
    /\ Page(c, [b EXCEPT !.bet_job = NoTx, !.pending = "none"])
    /\ UNCHANGED <<in_flight, news>>

\* Ninety seconds in which nothing happens: whatever was under way has arrived or is
\* lost.  It matters where a step is thought to be on its way, or is held back.
quiet == \A c \in Players : /\ in_flight[c] = {} /\ socket[c] = "open"
                            /\ browser[c].job = NoTx /\ browser[c].bet_job = NoTx
                            /\ browser[c].l = ledger_now

RetryDue(c) ==
    LET b == browser[c] IN
    /\ quiet
    /\ b.pending = "new" \/ \E s \in to_send(c, b.l, TRUE) : b.lastSent = situation(b.l, s)
    /\ Page(c, [b EXCEPT !.pending = IF @ = "new" THEN "old" ELSE @, !.lastSent = NotSent])
    /\ UNCHANGED <<in_flight, news, faults>>

------------------------------------------------------------------------------
(* The chain and the network. *)

\* The contract's checks against the deck key posted at seat s.
proves_key(tx, s) ==
    \/ tx.step \in {"post_key", "shuffle", "settle", "settle_abort", "start_deal",
                    "post_next_key", "shuffle_next"}
    \/ tx.step = "bet" /\ tx.bet.circuit = "act"
    \/ posted[s] = tx.key

\* A transaction's circuit runs on the chain, and everyone listening is told.
\* "late": it may do so in a deal after the one it was made for.
Land(c, tx) ==
    LET s == seat_of(c) IN
    /\ tx \in in_flight[c]
    /\ tx.for[2] = deal_no \/ "late" \in Faults
    /\ proves_key(tx, s) /\ tx.reads = reads(ledger_now, tx.step, s)
    /\ \/ tx.step = "bet" /\ call_bet(c, s, tx.bet, time)
       \/ call_step(c, s, tx.step, time)
    /\ posted' = CASE tx.step = "post_key" -> [posted EXCEPT ![s] = tx.key]
                   [] tx.step = "start_deal" -> IF phase' = "holes" THEN next_posted
                                                ELSE [k \in Seats |-> NoKey]
                   [] OTHER -> posted
    /\ next_posted' = CASE tx.step = "post_next_key" -> [next_posted EXCEPT ![s] = tx.nextKey]
                        [] tx.step = "start_deal" -> [k \in Seats |-> NoKey]
                        [] OTHER -> next_posted
    /\ in_flight' = [in_flight EXCEPT ![c] = @ \ {tx}]
    /\ news' = {d \in Players : socket[d] = "open"}
    /\ UNCHANGED <<browser, store, socket, faults>>

\* A step the chain is past: its deal is over, or its circuit would read something else.
past(tx, now, s) == tx.for[2] # now.deal_no \/ tx.reads # reads(now, tx.step, s)

Fail(c, tx) ==
    /\ tx \in in_flight[c]
    /\ \E now \in {ledger_now} : past(tx, now, seat_of(c))
    /\ in_flight' = [in_flight EXCEPT ![c] = @ \ {tx}]
    /\ UNCHANGED <<chainVars, browser, store, socket, news, faults>>

\* "lose": a step's transaction fails or never makes it into a block ("bets" for a bet's).
Lose(c, tx) ==
    /\ tx \in in_flight[c]
    /\ Fault(IF tx.step = "bet" THEN "bets" ELSE "lose")
    /\ in_flight' = [in_flight EXCEPT ![c] = @ \ {tx}]
    /\ UNCHANGED <<chainVars, browser, store, socket, news>>

\* "drop": the socket closes.
Drop(c) ==
    /\ socket[c] = "open" /\ Fault("drop")
    /\ socket' = [socket EXCEPT ![c] = "closed"]
    /\ UNCHANGED <<chainVars, browser, store, in_flight, news>>

\* Its backoff over, it opens again, and tells of the latest block.
Reopen(c) ==
    /\ socket[c] = "closed"
    /\ socket' = [socket EXCEPT ![c] = "open"]
    /\ news' = {c}
    /\ UNCHANGED <<chainVars, browser, store, in_flight, faults>>

\* "reload": the page is left and opened again.  Only the store, and what is in flight,
\* survive it.
Reload(c) ==
    LET new == unused_keys(c) IN
    /\ browser[c].l # NoLedger /\ Fault("reload")
    /\ browser' = [browser EXCEPT ![c] = Opened(new[1], new[2])]
    /\ socket' = [socket EXCEPT ![c] = "open"]
    /\ UNCHANGED <<chainVars, store, in_flight, news>>

------------------------------------------------------------------------------

\* Every player is seated and opens the page; none of them has read the table yet.
LiveInit ==
    /\ browser = [c \in Players |-> Opened(1, 2)]
    /\ store = [c \in Players |-> NoStore]
    /\ socket = [c \in Players |-> "open"]
    /\ in_flight = [c \in Players |-> {}]
    /\ news = {}
    /\ posted = [s \in Seats |-> NoKey] /\ next_posted = posted
    /\ faults = 0

\* What a browser and the network do of their own.
Runs(c) ==
    \/ Tick_client(c) \/ Push(c) \/ Submit(c) \/ BetSubmit(c) \/ RetryDue(c) \/ Reopen(c)
    \/ \E tx \in in_flight[c] : Land(c, tx) \/ Fail(c, tx)

Decides(c) ==
    \/ \E type \in Decisions \ {"show"} : Act(c, type)
    \/ "show" \in Decisions /\ Show(c)

Breaks(c) ==
    \/ Refuse(c) \/ BetRefuse(c) \/ Drop(c) \/ Reload(c)
    \/ \E tx \in in_flight[c] : Lose(c, tx)

------------------------------------------------------------------------------
(* Properties. *)

\* A browser that knows of the deal in progress holds the deck key behind the point
\* its seat posted, and the one behind the point posted for the next deck, through
\* reloads, lost steps and missed pushes: without them it could post no share.
KeysKept ==
    \A c \in Players :
        LET s == seat_of(c) b == browser[c] IN
        b.lastDeal = deal_no =>
            /\ posted[s] \in {NoKey, b.x}
            /\ next_posted[s] \in {NoKey, b.nextX}

\* Were the page closed now, the store and the deal in progress would give every
\* posted key back.
ReloadLosesNothing ==
    \A c \in Players :
        LET s == seat_of(c)
            kept == store[c]
            carried == kept.dealNo + 1 = deal_no /\ phase \notin {"keys", "shuffle"}
        IN /\ posted[s] # NoKey => \/ kept.dealNo = deal_no /\ kept.x = posted[s]
                                   \/ carried /\ kept.nextX = posted[s]
           /\ next_posted[s] # NoKey => kept.dealNo = deal_no /\ kept.nextX = next_posted[s]

\* The player to act has not been shown it: their page noticed no change.
TurnMissed ==
    phase = "playing" /\ \E c \in Players : seat_of(c) = to_act /\ browser[c].seen # browser[c].l

\* Deals end and new ones are dealt for as long as the players decide, when two players'
\* steps conflict too: no step is forgotten, held back for good, or left to a browser
\* that does not know it owes it.  A change of turn that goes unnoticed is what stops one.
DealsPlayOut ==
    \A n \in 1..MaxDeals : <>(deal_no = n /\ phase \notin {"keys", "shuffle"}) \/ <>[]TurnMissed

\* "The prepared key becomes this deal's": the key a seat posts for the next deck is the
\* one its browser goes on to hold for it.
PreparedKeyHeld ==
    \A c \in Players :
        browser[c].lastDeal = deal_no => next_posted[seat_of(c)] \in {NoKey, browser[c].nextX}
==============================================================================
