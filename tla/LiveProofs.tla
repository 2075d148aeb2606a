------------------------------ MODULE LiveProofs ------------------------------
(***************************************************************************)
(* What the browsers of LiveReferee keep, at a table where everybody is    *)
(* seated, for any number of them and of deals.                            *)
(***************************************************************************)
EXTENDS LiveReferee, ClientProofs

-------------------------------------------------------------------------------
(* Deck keys through reloads.  The browsers of LiveReferee at a table where *)
(* everybody is seated, whatever goes wrong except that a transaction lands *)
(* in a later deal than its own.                                           *)

SeatedInit ==
    /\ FreshTable
    /\ \A c \in Players : \E s \in Seats : seat_owner[s] = c
    /\ LiveInit

BrowsersNext == \E c \in Players : Runs(c) \/ Decides(c) \/ Breaks(c)

BrowsersSpec == SeatedInit /\ [][BrowsersNext]_liveVars

\* Nobody loses their seat, deals are counted, and a table that is dealt at stays so.
TableKept ==
    /\ \A c \in Players : seat_of(c) \in Seats /\ seat_owner[seat_of(c)] = c
    /\ phase \in Phase \ {"aborted"} /\ deal_no \in Nat
    /\ phase = "idle" => deal_no = 0
    /\ DOMAIN posted = Seats /\ DOMAIN next_posted = Seats

PageFields == {"l", "seen", "lastDeal", "x", "nextX", "pushed", "pending", "lastSent", "job", "bet_job", "rail"}

\* The keys kept are those of the last deal seen.
StoreFits(kept) ==
    /\ kept.dealNo \in Int /\ kept.dealNo <= deal_no
    /\ kept.dealNo = -2 \/ kept.dealNo >= 0

\* A transaction is proved with the keys kept for its deal.
ProvedWith(tx, kept) ==
    /\ tx.for[2] \in Int /\ tx.for[2] <= kept.dealNo
    /\ tx.for[2] = kept.dealNo => tx.key = kept.x /\ tx.nextKey = kept.nextX

\* A page that has read the table holds what the store keeps.
PageFits(b, kept) ==
    /\ DOMAIN b = PageFields
    /\ \/ /\ b.lastDeal = -1 /\ b.l = NoLedger /\ b.pushed = NoLedger
          /\ b.job = NoTx /\ b.bet_job = NoTx
       \/ /\ b.lastDeal \in Nat /\ b.lastDeal = kept.dealNo
          /\ b.l.phase # "unread" /\ b.l.deal_no = b.lastDeal
          /\ b.x = kept.x /\ b.nextX = kept.nextX
    /\ b.job = NoTx \/ ProvedWith(b.job, kept)
    /\ b.bet_job = NoTx \/ ProvedWith(b.bet_job, kept)

\* The store gives the keys posted at seat s back.
GivesBack(kept, s) ==
    /\ posted[s] # NoKey =>
           \/ kept.dealNo = deal_no /\ kept.x = posted[s]
           \/ kept.dealNo + 1 = deal_no /\ phase \notin {"keys", "shuffle"} /\ kept.nextX = posted[s]
    /\ next_posted[s] # NoKey => kept.dealNo = deal_no /\ kept.nextX = next_posted[s]

\* A ledger that may be read now: no older than the last read, and not from before a
\* prepared deck's key came into play.
MayRead(l, b, kept, s) ==
    /\ l.phase # "unread" /\ l.deal_no \in Nat
    /\ b.lastDeal <= l.deal_no /\ l.deal_no <= deal_no
    /\ l.phase = "idle" => l.deal_no = 0
    /\ l.deal_no = deal_no /\ posted[s] # NoKey /\ kept.dealNo # deal_no => l.phase \notin {"keys", "shuffle"}

BrowserFits(c) ==
    /\ StoreFits(store[c]) /\ PageFits(browser[c], store[c]) /\ GivesBack(store[c], seat_of(c))
    /\ \A tx \in in_flight[c] : ProvedWith(tx, store[c])
    /\ browser[c].pushed = NoLedger \/ MayRead(browser[c].pushed, browser[c], store[c], seat_of(c))

KeysInv ==
    /\ TableKept
    /\ DOMAIN browser = Players /\ DOMAIN store = Players /\ DOMAIN in_flight = Players
    /\ \A c \in Players : BrowserFits(c)

-------------------------------------------------------------------------------
(* What the chain does. *)

\* A posted key is given back after the circuit of a transaction runs, whoever sent it.
LEMMA LandKeys ==
    ASSUME "late" \notin Faults, KeysInv, NEW c \in Players, NEW tx \in in_flight[c], Land(c, tx)
    PROVE  KeysInv'
<1> DEFINE s == seat_of(c)
<1>1. /\ TableKept /\ BrowserFits(c) /\ ProvedWith(tx, store[c]) /\ tx.for[2] = deal_no
      /\ UNCHANGED <<browser, store>>
  BY DEF KeysInv, BrowserFits, Land
<1>2. /\ seat_owner' = seat_owner
      /\ \/ /\ tx.step = "start_deal" /\ deal_no' = deal_no + 1 /\ phase' \in {"keys", "holes"}
         \/ /\ tx.step # "start_deal" /\ deal_no' = deal_no /\ phase' \in Phase \ {"aborted"}
            /\ phase' \in {"keys", "shuffle"} => phase \in {"keys", "shuffle"}
            /\ phase' = "idle" => phase = "idle"
  <2>1. phase \in Phase \ {"aborted"}
    BY <1>1 DEF TableKept
  <2>2. call_step(c, s, tx.step, time) \/ (tx.step = "bet" /\ call_bet(c, s, tx.bet, time))
    BY DEF Land
  <2> HIDE DEF s
  <2> QED
    BY <2>1, <2>2, ChainMoves
<1>3. /\ tx.step = "start_deal" =>
             /\ posted' = IF phase' = "holes" THEN next_posted ELSE [k \in Seats |-> NoKey]
             /\ next_posted' = [k \in Seats |-> NoKey]
      /\ tx.step # "start_deal" =>
             /\ posted' = posted \/ posted' = [posted EXCEPT ![s] = tx.key]
             /\ next_posted' = next_posted \/ next_posted' = [next_posted EXCEPT ![s] = tx.nextKey]
  BY DEF Land
<1>4. ASSUME NEW d \in Players PROVE seat_of(d)' = seat_of(d) /\ seat_of(d) \in Seats
  BY <1>1, <1>2 DEF seat_of, TableKept
<1>5. \A d \in Players \ {c} : seat_of(d) # s
  BY <1>1 DEF TableKept
<1>6. store[c].dealNo = deal_no /\ tx.key = store[c].x /\ tx.nextKey = store[c].nextX
  BY <1>1 DEF ProvedWith, BrowserFits, StoreFits, TableKept
<1>7. TableKept'
  <2>1. \A d \in Players : seat_of(d)' \in Seats /\ seat_owner'[seat_of(d)'] = d
    BY <1>1, <1>2, <1>4 DEF TableKept
  <2>2. DOMAIN posted' = Seats /\ DOMAIN next_posted' = Seats
    BY <1>1, <1>2, <1>3 DEF TableKept
  <2>3. /\ phase' \in Phase \ {"aborted"} /\ deal_no' \in Nat /\ (phase' = "idle" => deal_no' = 0)
    BY <1>1, <1>2 DEF TableKept, Phase
  <2> QED
    BY <2>1, <2>2, <2>3 DEF TableKept
<1>8. ASSUME NEW d \in Players PROVE BrowserFits(d)'
  <2> DEFINE k == store[d]  sd == seat_of(d)
  <2>1. /\ BrowserFits(d) /\ browser'[d] = browser[d] /\ store'[d] = k
        /\ seat_of(d)' = sd /\ sd \in Seats
    BY <1>1, <1>4 DEF KeysInv
  <2>2. in_flight'[d] \subseteq in_flight[d]
    BY DEF Land, KeysInv
  <2>3. /\ StoreFits(k) /\ GivesBack(k, sd) /\ deal_no \in Nat
        /\ DOMAIN posted = Seats /\ DOMAIN next_posted = Seats
        /\ d = c => k.dealNo = deal_no /\ tx.key = k.x /\ tx.nextKey = k.nextX
        /\ d # c => sd # s
    BY <1>1, <1>5, <1>6, <2>1 DEF BrowserFits, TableKept
  <2>4. StoreFits(k)'
    BY <1>2, <2>1, <2>3 DEF StoreFits
  <2>5. CASE tx.step = "start_deal"
    <3>1. next_posted'[sd] = NoKey /\ (posted'[sd] # NoKey => phase' = "holes" /\ posted'[sd] = next_posted[sd])
      BY <1>3, <2>1, <2>5
    <3>2. posted'[sd] # NoKey => k.dealNo = deal_no /\ k.nextX = posted'[sd]
      BY <2>3, <3>1 DEF GivesBack
    <3>3. deal_no' = deal_no + 1
      BY <1>2, <2>5
    <3>4. GivesBack(k, sd)'
      BY <2>1, <3>1, <3>2, <3>3 DEF GivesBack
    <3>5. browser[d].pushed = NoLedger \/ MayRead(browser[d].pushed, browser[d], k, sd)'
      <4>1. SUFFICES ASSUME browser[d].pushed # NoLedger
                     PROVE  MayRead(browser[d].pushed, browser[d], k, sd)'
        OBVIOUS
      <4>2. MayRead(browser[d].pushed, browser[d], k, sd)
        BY <2>1, <4>1 DEF BrowserFits
      <4> QED
        BY <2>1, <2>3, <3>3, <4>2 DEF MayRead
    <3> QED
      BY <2>1, <2>2, <2>4, <3>4, <3>5 DEF BrowserFits
  <2>6. CASE tx.step # "start_deal"
    <3>1. /\ posted'[sd] = posted[sd] \/ (k.dealNo = deal_no /\ posted'[sd] = k.x)
          /\ next_posted'[sd] = next_posted[sd] \/ (k.dealNo = deal_no /\ next_posted'[sd] = k.nextX)
      BY <1>3, <2>1, <2>3, <2>6
    <3>2. deal_no' = deal_no /\ (phase' \in {"keys", "shuffle"} => phase \in {"keys", "shuffle"})
      BY <1>2, <2>6
    <3>3. GivesBack(k, sd)'
      BY <2>1, <2>3, <3>1, <3>2 DEF GivesBack
    <3>4. browser[d].pushed = NoLedger \/ MayRead(browser[d].pushed, browser[d], k, sd)'
      BY <2>1, <3>1, <3>2 DEF BrowserFits, MayRead
    <3> QED
      BY <2>1, <2>2, <2>4, <3>3, <3>4 DEF BrowserFits
  <2> QED
    BY <2>5, <2>6
<1> QED
  BY <1>7, <1>8 DEF KeysInv, Land

------------------------------------------------------------------------------
(* What a browser does. *)

\* Reading a ledger it may read, a page takes its keys from the store, keeps its own, or
\* draws some for a deal the store has none for; and saves them.
LEMMA ReadKeys ==
    ASSUME TableKept, NEW c \in Players, StoreFits(store[c]), GivesBack(store[c], seat_of(c)),
           NEW b, PageFits(b, store[c]), b.pushed = NoLedger,
           NEW snap, MayRead(snap, b, store[c], seat_of(c)),
           b.lastDeal = -1 => snap.deal_no = deal_no /\ snap.phase = phase,
           NEW seen, seen = read(c, b, snap), NEW kept, kept = saved(b, seen, c)
    PROVE  /\ StoreFits(kept) /\ PageFits(seen, kept) /\ GivesBack(kept, seat_of(c))
           /\ seen.l = snap /\ seen.pushed = NoLedger
           /\ \A tx : ProvedWith(tx, store[c]) => ProvedWith(tx, kept)
<1> DEFINE k == store[c]  s == seat_of(c)  key == keys_after(c, b, snap)
<1>1. /\ snap.phase # "unread" /\ snap.deal_no \in Nat /\ snap.deal_no <= deal_no /\ deal_no \in Nat
      /\ b.lastDeal <= snap.deal_no /\ (snap.phase = "idle" => snap.deal_no = 0)
      /\ k.dealNo \in Int /\ k.dealNo <= deal_no /\ (k.dealNo = -2 \/ k.dealNo >= 0)
  BY DEF MayRead, StoreFits, TableKept
<1>2. CASE b.l = snap
  <2>1. seen = b /\ kept = k /\ b.l # NoLedger
    BY <1>1, <1>2 DEF read, saved, NoLedger
  <2> QED
    BY <1>2, <2>1
<1>3. CASE b.l # snap
  <2>1. seen = [b EXCEPT !.l = snap, !.seen = snap, !.lastDeal = snap.deal_no, !.x = key.x, !.nextX = key.nextX,
                         !.pending = "none", !.rail = snapshot(c, snap, "none")]
    BY <1>3 DEF read
  <2> HIDE DEF key
  <2>2. /\ DOMAIN seen = PageFields /\ seen.l = snap /\ seen.lastDeal = snap.deal_no
        /\ seen.x = key.x /\ seen.nextX = key.nextX
        /\ seen.pushed = b.pushed /\ seen.job = b.job /\ seen.bet_job = b.bet_job
    BY <2>1 DEF PageFits, PageFields
  <2>3. CASE b.lastDeal = snap.deal_no
    <3>1. kept = k /\ b.lastDeal \in Nat /\ b.x = k.x /\ b.nextX = k.nextX /\ b.lastDeal = k.dealNo
      BY <1>1, <2>2, <2>3 DEF saved, PageFits
    <3>2. key.x = b.x /\ key.nextX = b.nextX
      BY <2>3 DEF key, keys_after
    <3> QED
      BY <1>1, <2>2, <2>3, <3>1, <3>2 DEF PageFits
  <2>4. CASE b.lastDeal # snap.deal_no
    <3>1. kept = [dealNo |-> snap.deal_no, x |-> key.x, nextX |-> key.nextX]
      BY <2>2, <2>4 DEF saved
    <3>2. StoreFits(kept)
      BY <1>1, <3>1 DEF StoreFits
    <3>3. \/ b.lastDeal = -1 /\ snap.deal_no = deal_no /\ snap.phase = phase
          \/ b.lastDeal \in Nat /\ b.lastDeal = k.dealNo /\ b.nextX = k.nextX /\ k.dealNo < snap.deal_no
      BY <1>1, <2>4 DEF PageFits
    <3>4. CASE k.dealNo = snap.deal_no
      <4>1. b.lastDeal = -1 /\ snap.deal_no = deal_no
        BY <1>1, <3>3, <3>4
      <4>2. key = [x |-> k.x, nextX |-> k.nextX]
        BY <3>4, <4>1, <2>4 DEF key, keys_after
      <4>3. kept.dealNo = k.dealNo /\ kept.x = k.x /\ kept.nextX = k.nextX
        BY <3>1, <3>4, <4>2
      <4>4. GivesBack(kept, s) /\ \A tx : ProvedWith(tx, k) => ProvedWith(tx, kept)
        BY <4>3 DEF GivesBack, ProvedWith
      <4>5. PageFits(seen, kept)
        BY <1>1, <2>2, <3>1, <4>1, <4>4 DEF PageFits
      <4> QED
        BY <2>2, <3>2, <4>4, <4>5
    <3>5. CASE k.dealNo # snap.deal_no
      <4>1. k.dealNo < snap.deal_no
        BY <1>1, <3>3, <3>5
      <4>2. \A tx : ProvedWith(tx, k) => ProvedWith(tx, kept)
        BY <1>1, <3>1, <4>1 DEF ProvedWith
      <4>3. PageFits(seen, kept)
        <5>1. kept.dealNo = snap.deal_no /\ kept.x = key.x /\ kept.nextX = key.nextX
          BY <3>1
        <5> QED
          BY <1>1, <2>2, <4>2, <5>1 DEF PageFits
      <4>4. next_posted[s] = NoKey
        BY <1>1, <4>1 DEF GivesBack
      <4>5. ASSUME posted[s] # NoKey PROVE snap.deal_no = deal_no /\ key.x = posted[s]
        <5>1. k.dealNo + 1 = deal_no /\ phase \notin {"keys", "shuffle"} /\ k.nextX = posted[s]
          BY <1>1, <4>1, <4>5 DEF GivesBack
        <5>2. snap.deal_no = deal_no /\ k.dealNo # deal_no /\ k.dealNo + 1 = snap.deal_no
          BY <1>1, <4>1, <5>1
        <5>3. snap.phase \notin {"keys", "shuffle"}
          BY <4>5, <5>2 DEF MayRead
        <5>4. snap.phase # "idle"
          BY <1>1, <4>1, <5>2
        <5>5. key.x = k.nextX
          <6> DEFINE from_store == IF b.lastDeal = -1 THEN k ELSE NoStore
                     next_key == IF from_store.dealNo + 1 = snap.deal_no THEN from_store.nextX ELSE b.nextX
          <6>1. next_key = k.nextX /\ from_store.dealNo # snap.deal_no
            BY <1>1, <3>3, <4>1, <5>2 DEF NoStore
          <6>2. key = IF snap.deal_no # b.lastDeal /\ from_store.dealNo = snap.deal_no
                      THEN [x |-> from_store.x, nextX |-> from_store.nextX]
                      ELSE IF snap.deal_no = b.lastDeal \/ snap.phase = "idle"
                           THEN [x |-> b.x, nextX |-> b.nextX]
                           ELSE rotate(c, next_key, snap.phase \notin {"keys", "shuffle"})
            BY DEF key, keys_after
          <6> HIDE DEF from_store, next_key
          <6>3. key = rotate(c, next_key, TRUE)
            BY <2>4, <5>3, <5>4, <6>1, <6>2
          <6>4. rotate(c, next_key, TRUE).x = next_key
            BY DEF rotate
          <6> QED
            BY <6>1, <6>3, <6>4
        <5> QED
          BY <5>1, <5>2, <5>5
      <4>6. GivesBack(kept, s)
        BY <3>1, <4>4, <4>5 DEF GivesBack
      <4> QED
        BY <2>2, <3>2, <4>2, <4>3, <4>6
    <3> QED
      BY <3>4, <3>5
  <2> QED
    BY <2>3, <2>4
<1> QED
  BY <1>2, <1>3

\* Reading a change it does not notice, a page keeps its keys: a new deal it would notice.
LEMMA MissKeys ==
    ASSUME NEW b, NEW kept, PageFits(b, kept), NEW snap, may_miss(b, snap), snap.phase # "unread",
           NEW seen, seen = [b EXCEPT !.l = snap], NEW c
    PROVE  PageFits(seen, kept) /\ seen.l = snap /\ seen.pushed = b.pushed /\ saved(b, seen, c) = store[c]
<1>1. /\ b.lastDeal \in Nat /\ b.lastDeal = kept.dealNo /\ b.l.deal_no = b.lastDeal
      /\ b.x = kept.x /\ b.nextX = kept.nextX /\ snap.deal_no = b.lastDeal
  BY DEF PageFits, may_miss
<1>2. /\ DOMAIN seen = PageFields /\ seen.l = snap /\ seen.lastDeal = b.lastDeal
      /\ seen.x = b.x /\ seen.nextX = b.nextX /\ seen.pushed = b.pushed
      /\ seen.job = b.job /\ seen.bet_job = b.bet_job
  BY DEF PageFits, PageFields
<1>3. PageFits(seen, kept)
  BY <1>1, <1>2 DEF PageFits
<1> QED
  BY <1>2, <1>3 DEF saved

\* A transaction made from what a page has read is proved with the keys it holds.
LEMMA Transacts ==
    ASSUME NEW c, NEW b, NEW kept, PageFits(b, kept), b.lastDeal \in Nat, NEW step, NEW bet_as
    PROVE  transaction(c, b, step, bet_as) # NoTx /\ ProvedWith(transaction(c, b, step, bet_as), kept)
<1>1. b.l.deal_no = kept.dealNo /\ kept.dealNo \in Nat /\ b.x = kept.x /\ b.nextX = kept.nextX
  BY DEF PageFits
<1> DEFINE tx == transaction(c, b, step, bet_as)
<1>2. tx.key = b.x /\ tx.nextKey = b.nextX /\ tx.for = situation(b.l, step)
  BY DEF transaction, callTx
<1>3. situation(b.l, step)[2] = b.l.deal_no
  BY DEF situation
<1>4. tx # NoTx
  <2>1. "key" \in DOMAIN tx /\ "key" \notin DOMAIN NoTx
    BY DEF transaction, callTx, NoTx
  <2> QED
    BY <2>1
<1> HIDE DEF tx
<1>5. ProvedWith(tx, kept)
  BY <1>1, <1>2, <1>3 DEF ProvedWith
<1> QED
  BY <1>4, <1>5 DEF tx

\* A step is made from what was just read.
LEMMA StepKeys ==
    ASSUME NEW c \in Players, NEW b, NEW kept, PageFits(b, kept), b.lastDeal \in Nat, NEW paused
    PROVE  PageFits(step_of(c, b, paused), kept) /\ step_of(c, b, paused).pushed = b.pushed
<1>1. \/ step_of(c, b, paused) = b
      \/ step_of(c, b, paused) = [b EXCEPT !.pending = "none"]
      \/ \E step : step_of(c, b, paused) =
                       [b EXCEPT !.pending = "new", !.rail = snapshot(c, b.l, "new"),
                                 !.job = transaction(c, b, step, NoBet)]
  BY DEF step_of
<1>2. DOMAIN b = PageFields
  BY DEF PageFits
<1>3. CASE step_of(c, b, paused) = b
  BY <1>3
<1>4. CASE step_of(c, b, paused) = [b EXCEPT !.pending = "none"]
  BY <1>2, <1>4 DEF PageFits, PageFields
<1>5. ASSUME NEW step, step_of(c, b, paused) =
                       [b EXCEPT !.pending = "new", !.rail = snapshot(c, b.l, "new"),
                                 !.job = transaction(c, b, step, NoBet)]
      PROVE  PageFits(step_of(c, b, paused), kept) /\ step_of(c, b, paused).pushed = b.pushed
  <2>1. ProvedWith(transaction(c, b, step, NoBet), kept)
    BY Transacts
  <2> QED
    BY <1>2, <1>5, <2>1 DEF PageFits, PageFields
<1> QED
  BY <1>1, <1>3, <1>4, <1>5

\* What one browser does disturbs neither the chain nor another browser.
LEMMA BrowserActs ==
    ASSUME KeysInv, NEW c \in Players, UNCHANGED chainVars,
           DOMAIN browser' = Players, DOMAIN store' = Players, DOMAIN in_flight' = Players,
           \A d \in Players \ {c} : /\ browser'[d] = browser[d] /\ store'[d] = store[d]
                                    /\ in_flight'[d] \subseteq in_flight[d],
           NEW b, b = browser'[c], NEW kept, kept = store'[c],
           StoreFits(kept), PageFits(b, kept), GivesBack(kept, seat_of(c)),
           \A tx \in in_flight'[c] : ProvedWith(tx, kept),
           b.pushed = NoLedger \/ MayRead(b.pushed, b, kept, seat_of(c))
    PROVE  KeysInv'
<1>1. UNCHANGED <<deal_no, phase, seat_owner, posted, next_posted>>
  BY DEF chainVars, vars, seatVars, rosterVars, stageVars
<1>2. TableKept'
  BY <1>1 DEF KeysInv, TableKept, seat_of
<1>3. ASSUME NEW d \in Players PROVE seat_of(d)' = seat_of(d)
  BY <1>1 DEF seat_of
<1>4. BrowserFits(c)'
  <2> DEFINE s == seat_of(c)
  <2>1. seat_of(c)' = s
    BY <1>3
  <2>2. StoreFits(kept)' /\ GivesBack(kept, s)' /\ (MayRead(b.pushed, b, kept, s) => MayRead(b.pushed, b, kept, s)')
    BY <1>1, <2>1 DEF StoreFits, GivesBack, MayRead
  <2> HIDE DEF s
  <2> QED
    BY <2>1, <2>2 DEF BrowserFits, s
<1>5. ASSUME NEW d \in Players \ {c} PROVE BrowserFits(d)'
  <2> DEFINE k == store[d]  sd == seat_of(d)  p == browser[d]
  <2>1. /\ BrowserFits(d) /\ browser'[d] = p /\ store'[d] = k /\ seat_of(d)' = sd
        /\ in_flight'[d] \subseteq in_flight[d]
    BY <1>3 DEF KeysInv
  <2>2. /\ StoreFits(k) => StoreFits(k)'
        /\ GivesBack(k, sd) => GivesBack(k, sd)'
        /\ MayRead(p.pushed, p, k, sd) => MayRead(p.pushed, p, k, sd)'
    BY <1>1, <2>1 DEF StoreFits, GivesBack, MayRead
  <2> QED
    BY <2>1, <2>2 DEF BrowserFits
<1> QED
  BY <1>2, <1>4, <1>5 DEF KeysInv

\* A page that changes without reading.
LEMMA PageActs ==
    ASSUME KeysInv, NEW c \in Players, NEW b, Page(c, b), PageFits(b, store[c]),
           b.lastDeal = browser[c].lastDeal,
           \/ b.pushed = browser[c].pushed
           \/ MayRead(b.pushed, b, store[c], seat_of(c)),
           DOMAIN in_flight' = Players,
           \A d \in Players \ {c} : in_flight'[d] = in_flight[d],
           \A tx \in in_flight'[c] : tx \in in_flight[c] \/ ProvedWith(tx, store[c])
    PROVE  KeysInv'
<1>1. /\ browser' = [browser EXCEPT ![c] = b] /\ store' = store /\ UNCHANGED chainVars
      /\ DOMAIN browser = Players /\ DOMAIN store = Players /\ BrowserFits(c)
  BY DEF Page, KeysInv
<1>2. browser'[c] = b /\ \A d \in Players \ {c} : browser'[d] = browser[d]
  BY <1>1
<1>3. DOMAIN browser' = Players /\ DOMAIN store' = Players
  BY <1>1
<1>4. b.pushed = NoLedger \/ MayRead(b.pushed, b, store[c], seat_of(c))
  BY <1>1 DEF BrowserFits, MayRead
<1>5. /\ StoreFits(store[c]) /\ GivesBack(store[c], seat_of(c))
      /\ \A tx \in in_flight'[c] : ProvedWith(tx, store[c])
  BY <1>1 DEF BrowserFits
<1> QED
  BY <1>1, <1>2, <1>3, <1>4, <1>5, BrowserActs

\* A page may always read the ledger as it is.
LEMMA NowReadable ==
    ASSUME TableKept, NEW kept, StoreFits(kept), NEW s, GivesBack(kept, s), NEW b, PageFits(b, kept)
    PROVE  MayRead(ledger_now, b, kept, s)
<1>1. ledger_now.deal_no = deal_no /\ ledger_now.phase = phase
  BY DEF ledger_now
<1>2. b.lastDeal <= deal_no
  BY DEF PageFits, StoreFits, TableKept
<1>3. posted[s] # NoKey /\ kept.dealNo # deal_no => phase \notin {"keys", "shuffle"}
  BY DEF GivesBack
<1> QED
  BY <1>1, <1>2, <1>3 DEF MayRead, TableKept, Phase

\* A page that reads the ledger: the chain's, or one that was pushed.
LEMMA TakeInKeys ==
    ASSUME KeysInv, NEW c \in Players, NEW b, PageFits(b, store[c]),
           b.lastDeal = browser[c].lastDeal,
           NEW snap, snap = ledger_now \/ (snap # NoLedger /\ snap = browser[c].pushed),
           TakeIn(c, b, snap), DOMAIN in_flight' = Players,
           \A d \in Players \ {c} : in_flight'[d] = in_flight[d],
           \A tx \in in_flight'[c] : tx \in in_flight[c] \/ ProvedWith(tx, store[c])
    PROVE  KeysInv'
<1> DEFINE s == seat_of(c)  k == store[c]  b0 == [b EXCEPT !.pushed = NoLedger]
<1>1. TableKept /\ BrowserFits(c) /\ StoreFits(k) /\ GivesBack(k, s)
  BY DEF KeysInv, BrowserFits
<1>2. PICK seen, paused :
          /\ Goes_on(c, b0, seen, paused)
          /\ \/ seen = read(c, b0, snap)
             \/ may_miss(b0, snap) /\ seen = [b0 EXCEPT !.l = snap]
  BY DEF TakeIn
<1> DEFINE acting == step_of(c, seen, paused)  kept == saved(b0, seen, c)
<1>3. /\ browser' = [browser EXCEPT ![c] = acting] /\ store' = [store EXCEPT ![c] = kept]
      /\ UNCHANGED chainVars
  BY <1>2 DEF Goes_on
<1> HIDE DEF s, k, acting, kept
<1>4. /\ DOMAIN b0 = PageFields /\ b0.pushed = NoLedger /\ b0.lastDeal = b.lastDeal
      /\ b0.l = b.l /\ b0.x = b.x /\ b0.nextX = b.nextX /\ b0.job = b.job /\ b0.bet_job = b.bet_job
  BY DEF PageFits, PageFields
<1> HIDE DEF b0
<1>5. PageFits(b0, k)
  BY <1>4 DEF PageFits, k
<1>6. MayRead(snap, b0, k, s) /\ (b0.lastDeal = -1 => snap.deal_no = deal_no /\ snap.phase = phase)
  <2>1. CASE snap = ledger_now
    <3>1. snap.deal_no = deal_no /\ snap.phase = phase
      BY <2>1 DEF ledger_now
    <3> QED
      BY <1>1, <1>5, <2>1, <3>1, NowReadable
  <2>2. CASE snap # NoLedger /\ snap = browser[c].pushed
    <3>1. MayRead(snap, browser[c], k, s) /\ PageFits(browser[c], k)
      BY <1>1, <2>2 DEF BrowserFits, k, s
    <3>2. browser[c].lastDeal # -1
      BY <2>2, <3>1 DEF PageFits
    <3> QED
      BY <1>4, <3>1, <3>2 DEF MayRead
  <2> QED
    BY <2>1, <2>2
<1>7. /\ StoreFits(kept) /\ PageFits(seen, kept) /\ GivesBack(kept, s)
      /\ seen.l = snap /\ seen.pushed = NoLedger
      /\ \A tx : ProvedWith(tx, k) => ProvedWith(tx, kept)
  <2>1. CASE seen = read(c, b0, snap)
    BY <1>1, <1>4, <1>5, <1>6, <2>1, ReadKeys DEF kept, k, s
  <2>2. CASE may_miss(b0, snap) /\ seen = [b0 EXCEPT !.l = snap]
    <3>1. snap.phase # "unread"
      BY <1>6 DEF MayRead
    <3>2. PageFits(seen, k) /\ seen.l = snap /\ seen.pushed = NoLedger /\ kept = k
      BY <1>4, <1>5, <2>2, <3>1, MissKeys DEF kept, k
    <3> QED
      BY <1>1, <3>2
  <2> QED
    BY <1>2, <2>1, <2>2
<1>8. seen.lastDeal \in Nat
  BY <1>6, <1>7 DEF PageFits, MayRead, NoLedger
<1>9. PageFits(acting, kept) /\ acting.pushed = NoLedger
  BY <1>7, <1>8, StepKeys DEF acting
<1>10. /\ browser'[c] = acting /\ store'[c] = kept
       /\ DOMAIN browser' = Players /\ DOMAIN store' = Players
       /\ \A d \in Players \ {c} : browser'[d] = browser[d] /\ store'[d] = store[d]
  BY <1>3 DEF KeysInv
<1>11. \A tx \in in_flight'[c] : ProvedWith(tx, kept)
  BY <1>1, <1>7 DEF BrowserFits, k
<1> QED
  BY <1>3, <1>7, <1>9, <1>10, <1>11, BrowserActs DEF s

\* The store and the chain as they were, and no more in flight.
LEMMA NothingRead ==
    ASSUME KeysInv, NEW c \in Players, UNCHANGED <<chainVars, browser, store>>,
           \/ in_flight' = in_flight
           \/ \E tx \in in_flight[c] : in_flight' = [in_flight EXCEPT ![c] = @ \ {tx}]
    PROVE  KeysInv'
<1>1. /\ DOMAIN browser' = Players /\ DOMAIN store' = Players /\ DOMAIN in_flight' = Players
      /\ \A d \in Players : in_flight'[d] \subseteq in_flight[d]
      /\ browser' = browser /\ store' = store /\ UNCHANGED chainVars
  BY DEF KeysInv
<1>2. BrowserFits(c)
  BY DEF KeysInv
<1> QED
  BY <1>1, <1>2, BrowserActs DEF BrowserFits

\* What a tick and the indexer's pushes do.
LEMMA TickKeys ==
    ASSUME KeysInv, NEW c \in Players, Tick_client(c) \/ Push(c)
    PROVE  KeysInv'
<1> DEFINE b == browser[c]
<1>1. /\ BrowserFits(c) /\ PageFits(b, store[c]) /\ DOMAIN in_flight = Players /\ in_flight' = in_flight
  BY DEF KeysInv, BrowserFits, Tick_client, Push
<1> HIDE DEF b
<1>2. CASE Tick_client(c)
  <2>1. TakeIn(c, b, IF b.pushed = NoLedger THEN ledger_now ELSE b.pushed)
    BY <1>2 DEF Tick_client, b
  <2> QED
    BY <1>1, <2>1, TakeInKeys DEF b
<1>3. CASE Push(c)
  <2>1. IF b.job # NoTx THEN Page(c, [b EXCEPT !.pushed = ledger_now]) ELSE TakeIn(c, b, ledger_now)
    BY <1>3 DEF Push, b
  <2>2. CASE b.job = NoTx
    BY <1>1, <2>1, <2>2, TakeInKeys DEF b
  <2>3. CASE b.job # NoTx
    <3> DEFINE told == [b EXCEPT !.pushed = ledger_now]
    <3>1. PageFits(told, store[c]) /\ told.lastDeal = b.lastDeal /\ told.pushed = ledger_now
      BY <1>1, <2>3 DEF PageFits, PageFields
    <3>2. Page(c, told)
      BY <2>1, <2>3
    <3> HIDE DEF told
    <3>3. MayRead(ledger_now, told, store[c], seat_of(c))
      BY <1>1, <3>1, NowReadable DEF KeysInv, BrowserFits
    <3> QED
      BY <1>1, <3>1, <3>2, <3>3, PageActs DEF b
  <2> QED
    BY <2>2, <2>3
<1> QED
  BY <1>2, <1>3

\* A step and a bet are sent as they were proved.
LEMMA SubmitKeys ==
    ASSUME KeysInv, NEW c \in Players, Submit(c) \/ BetSubmit(c)
    PROVE  KeysInv'
<1> DEFINE b == browser[c]
<1>1. BrowserFits(c) /\ PageFits(b, store[c]) /\ DOMAIN in_flight = Players
  BY DEF KeysInv, BrowserFits
<1> HIDE DEF b
<1>2. CASE Submit(c)
  <2> DEFINE sent == [b EXCEPT !.lastSent = b.job.for, !.job = NoTx]
  <2>1. /\ b.job # NoTx /\ in_flight' = [in_flight EXCEPT ![c] = @ \cup {b.job}]
        /\ IF b.pushed = NoLedger THEN Page(c, sent) ELSE TakeIn(c, sent, b.pushed)
    BY <1>2 DEF Submit, b
  <2>2. PageFits(sent, store[c]) /\ sent.lastDeal = b.lastDeal /\ sent.pushed = b.pushed
    BY <1>1 DEF PageFits, PageFields
  <2> HIDE DEF sent
  <2>3. /\ DOMAIN in_flight' = Players /\ \A d \in Players \ {c} : in_flight'[d] = in_flight[d]
        /\ \A tx \in in_flight'[c] : tx \in in_flight[c] \/ tx = b.job
    BY <1>1, <2>1
  <2>4. ProvedWith(b.job, store[c])
    BY <1>1, <2>1 DEF PageFits
  <2>5. CASE b.pushed = NoLedger
    BY <2>1, <2>2, <2>3, <2>4, <2>5, PageActs DEF b
  <2>6. CASE b.pushed # NoLedger
    BY <2>1, <2>2, <2>3, <2>4, <2>6, TakeInKeys DEF b
  <2> QED
    BY <2>5, <2>6
<1>3. CASE BetSubmit(c)
  <2> DEFINE sent == [b EXCEPT !.lastSent = b.bet_job.for, !.bet_job = NoTx]
  <2>1. /\ b.bet_job # NoTx /\ in_flight' = [in_flight EXCEPT ![c] = @ \cup {b.bet_job}]
        /\ Page(c, sent)
    BY <1>3 DEF BetSubmit, b
  <2>2. PageFits(sent, store[c]) /\ sent.lastDeal = b.lastDeal /\ sent.pushed = b.pushed
    BY <1>1 DEF PageFits, PageFields
  <2> HIDE DEF sent
  <2>3. /\ DOMAIN in_flight' = Players /\ \A d \in Players \ {c} : in_flight'[d] = in_flight[d]
        /\ \A tx \in in_flight'[c] : tx \in in_flight[c] \/ tx = b.bet_job
    BY <1>1, <2>1
  <2>4. ProvedWith(b.bet_job, store[c])
    BY <1>1, <2>1 DEF PageFits
  <2> QED
    BY <2>1, <2>2, <2>3, <2>4, PageActs DEF b
<1> QED
  BY <1>2, <1>3

\* A click makes a transaction of the ledger last read, or is refused.
LEMMA ClickKeys ==
    ASSUME KeysInv, NEW c \in Players, Decides(c)
    PROVE  KeysInv'
<1> DEFINE b == browser[c]
<1>1. /\ PageFits(b, store[c]) /\ DOMAIN in_flight = Players /\ in_flight' = in_flight
  BY DEF KeysInv, BrowserFits, Decides, Act, Show
<1> DEFINE waiting == [b EXCEPT !.pending = "new", !.rail = Waiting]
<1>2. PICK clicked :
          /\ b.l.phase # "unread" /\ Page(c, clicked)
          /\ \/ clicked = [waiting EXCEPT !.pending = "none"]
             \/ \E step, bet_as : clicked = [waiting EXCEPT !.bet_job = transaction(c, b, step, bet_as)]
  <2>1. ASSUME NEW type, Act(c, type)
        PROVE  /\ b.l.phase # "unread"
               /\ \/ Page(c, [waiting EXCEPT !.pending = "none"])
                  \/ Page(c, [waiting EXCEPT !.bet_job =
                                 transaction(c, b, "bet", actionStep(b.l, seat_of(c), type, 0))])
    BY <2>1 DEF Act
  <2>2. ASSUME Show(c)
        PROVE  b.l.phase # "unread" /\ Page(c, [waiting EXCEPT !.bet_job = transaction(c, b, "show", NoBet)])
    <3>1. Page(c, [b EXCEPT !.pending = "new", !.rail = Waiting,
                            !.bet_job = transaction(c, b, "show", NoBet)])
      BY <2>2 DEF Show
    <3> QED
      BY <2>2, <3>1 DEF Show, canShow
  <2> QED
    BY <2>1, <2>2 DEF Decides
<1>3. b.lastDeal \in Nat
  <2>1. b.l.phase # "unread"
    BY <1>2
  <2> HIDE DEF b, waiting
  <2>2. b.l # NoLedger
    BY <2>1 DEF NoLedger
  <2> QED
    BY <1>1, <2>2 DEF PageFits
<1> HIDE DEF b
<1>4. /\ DOMAIN waiting = PageFields /\ waiting.l = b.l /\ waiting.lastDeal = b.lastDeal /\ waiting.x = b.x
      /\ waiting.nextX = b.nextX /\ waiting.pushed = b.pushed /\ waiting.job = b.job /\ waiting.bet_job = b.bet_job
  BY <1>1 DEF PageFits, PageFields
<1> HIDE DEF waiting
<1>5. PageFits(clicked, store[c]) /\ clicked.lastDeal = b.lastDeal /\ clicked.pushed = b.pushed
  <2>1. CASE clicked = [waiting EXCEPT !.pending = "none"]
    BY <1>1, <1>4, <2>1 DEF PageFits, PageFields
  <2>2. ASSUME NEW step, NEW bet_as, clicked = [waiting EXCEPT !.bet_job = transaction(c, b, step, bet_as)]
        PROVE  PageFits(clicked, store[c]) /\ clicked.lastDeal = b.lastDeal /\ clicked.pushed = b.pushed
    <3>1. ProvedWith(transaction(c, b, step, bet_as), store[c])
      BY <1>1, <1>3, Transacts
    <3> QED
      BY <1>1, <1>3, <1>4, <2>2, <3>1 DEF PageFits, PageFields
  <2> QED
    BY <1>2, <2>1, <2>2
<1> QED
  BY <1>1, <1>2, <1>5, PageActs DEF b

\* What goes wrong, and what time brings back.
LEMMA TroubleKeys ==
    ASSUME KeysInv, NEW c \in Players, Breaks(c) \/ RetryDue(c) \/ Reopen(c)
    PROVE  KeysInv'
<1> DEFINE b == browser[c]
<1>1. /\ BrowserFits(c) /\ PageFits(b, store[c]) /\ DOMAIN in_flight = Players
      /\ DOMAIN browser = Players /\ DOMAIN store = Players
  BY DEF KeysInv, BrowserFits
<1>2. CASE Refuse(c)
  <2> DEFINE refused == [b EXCEPT !.job = NoTx, !.pending = "none", !.rail = snapshot(c, b.l, "none")]
  <2>1. Page(c, refused) /\ in_flight' = in_flight
    BY <1>2 DEF Refuse
  <2> HIDE DEF b
  <2>2. PageFits(refused, store[c]) /\ refused.lastDeal = b.lastDeal /\ refused.pushed = b.pushed
    BY <1>1 DEF PageFits, PageFields
  <2> HIDE DEF refused
  <2> QED
    BY <1>1, <2>1, <2>2, PageActs DEF b
<1>3. CASE BetRefuse(c)
  <2> DEFINE refused == [b EXCEPT !.bet_job = NoTx, !.pending = "none"]
  <2>1. Page(c, refused) /\ in_flight' = in_flight
    BY <1>3 DEF BetRefuse
  <2> HIDE DEF b
  <2>2. PageFits(refused, store[c]) /\ refused.lastDeal = b.lastDeal /\ refused.pushed = b.pushed
    BY <1>1 DEF PageFits, PageFields
  <2> HIDE DEF refused
  <2> QED
    BY <1>1, <2>1, <2>2, PageActs DEF b
<1>4. CASE RetryDue(c)
  <2> DEFINE again == [b EXCEPT !.pending = IF @ = "new" THEN "old" ELSE @, !.lastSent = NotSent]
  <2>1. Page(c, again) /\ in_flight' = in_flight
    BY <1>4 DEF RetryDue
  <2> HIDE DEF b
  <2>2. PageFits(again, store[c]) /\ again.lastDeal = b.lastDeal /\ again.pushed = b.pushed
    BY <1>1 DEF PageFits, PageFields
  <2> HIDE DEF again
  <2> QED
    BY <1>1, <2>1, <2>2, PageActs DEF b
<1>5. CASE Drop(c) \/ Reopen(c)
  BY <1>5, NothingRead DEF Drop, Reopen
<1>6. CASE \E tx \in in_flight[c] : Lose(c, tx)
  BY <1>6, NothingRead DEF Lose
<1>7. CASE Reload(c)
  <2>1. PICK x, nextX : browser' = [browser EXCEPT ![c] = Opened(x, nextX)]
    BY <1>7 DEF Reload
  <2>2. store' = store /\ in_flight' = in_flight /\ UNCHANGED chainVars
    BY <1>7 DEF Reload
  <2> DEFINE page == Opened(x, nextX)
  <2>3. PageFits(page, store[c]) /\ page.pushed = NoLedger
    BY DEF Opened, PageFits, PageFields
  <2> HIDE DEF page
  <2>4. browser'[c] = page /\ DOMAIN browser' = Players /\ \A d \in Players \ {c} : browser'[d] = browser[d]
    BY <1>1, <2>1 DEF page
  <2> QED
    BY <1>1, <2>2, <2>3, <2>4, BrowserActs DEF BrowserFits
<1> QED
  BY <1>2, <1>3, <1>4, <1>5, <1>6, <1>7 DEF Breaks

\* Nobody has a key posted, nor one kept, before the table is read.
LEMMA KeysInitially == SeatedInit => KeysInv
<1> SUFFICES ASSUME SeatedInit PROVE KeysInv
  OBVIOUS
<1>1. /\ phase = "idle" /\ deal_no = 0
      /\ \A s \in Seats : posted[s] = NoKey /\ next_posted[s] = NoKey
      /\ DOMAIN posted = Seats /\ DOMAIN next_posted = Seats
  BY DEF SeatedInit, FreshTable, NeverDealt, LiveInit
<1>2. ASSUME NEW c \in Players PROVE seat_of(c) \in Seats /\ seat_owner[seat_of(c)] = c
  <2> DEFINE own == {s \in Seats : seat_owner[s] = c}
  <2>1. own # {} /\ own \subseteq Seats
    BY DEF SeatedInit
  <2>2. first_in(own) \in own
    <3> HIDE DEF own
    <3> QED
      BY <2>1, FirstOf
  <2> QED
    BY <2>2 DEF seat_of
<1>3. TableKept
  BY <1>1, <1>2 DEF TableKept, Phase
<1>4. /\ browser = [c \in Players |-> Opened(1, 2)] /\ store = [c \in Players |-> NoStore]
      /\ in_flight = [c \in Players |-> {}]
  BY DEF SeatedInit, LiveInit
<1>5. PageFits(Opened(1, 2), NoStore) /\ Opened(1, 2).pushed = NoLedger
  BY DEF Opened, PageFits, PageFields
<1>6. StoreFits(NoStore)
  BY <1>1 DEF StoreFits, NoStore
<1>7. ASSUME NEW c \in Players PROVE BrowserFits(c)
  <2>1. GivesBack(NoStore, seat_of(c))
    BY <1>1, <1>2 DEF GivesBack
  <2>2. browser[c] = Opened(1, 2) /\ store[c] = NoStore /\ in_flight[c] = {}
    BY <1>4
  <2> QED
    BY <1>5, <1>6, <2>1, <2>2 DEF BrowserFits
<1> QED
  BY <1>3, <1>4, <1>7 DEF KeysInv

LEMMA KeysPreserved ==
    ASSUME "late" \notin Faults
    PROVE  KeysInv /\ [BrowsersNext]_liveVars => KeysInv'
<1> SUFFICES ASSUME KeysInv, [BrowsersNext]_liveVars PROVE KeysInv'
  OBVIOUS
<1>1. CASE UNCHANGED liveVars
  <2>1. UNCHANGED <<deal_no, phase, seat_owner, posted, next_posted, browser, store, in_flight>>
    BY <1>1 DEF liveVars, vars, seatVars, rosterVars, stageVars
  <2> QED
    BY <2>1 DEF KeysInv, TableKept, seat_of, BrowserFits, StoreFits, GivesBack, MayRead
<1>2. ASSUME NEW c \in Players, Runs(c) \/ Decides(c) \/ Breaks(c) PROVE KeysInv'
  <2>1. CASE Tick_client(c) \/ Push(c)
    BY <2>1, TickKeys
  <2>2. CASE Submit(c) \/ BetSubmit(c)
    BY <2>2, SubmitKeys
  <2>3. CASE RetryDue(c) \/ Reopen(c) \/ Breaks(c)
    BY <2>3, TroubleKeys
  <2>4. ASSUME NEW tx \in in_flight[c], Land(c, tx) PROVE KeysInv'
    BY <2>4, LandKeys
  <2>5. ASSUME NEW tx \in in_flight[c], Fail(c, tx) PROVE KeysInv'
    BY <2>5, NothingRead DEF Fail
  <2>6. CASE Decides(c)
    BY <2>6, ClickKeys
  <2> QED
    BY <1>2, <2>1, <2>2, <2>3, <2>4, <2>5, <2>6 DEF Runs
<1> QED
  BY <1>1, <1>2 DEF BrowsersNext

\* A page that knows of the deal in progress holds the key its seat posted and the one it
\* posted for the next deck, however often players reload, pushes are missed and steps are
\* refused or lost: Seat.rotate and the keys keyStore saves never part (live/referee.ts).
\* A transaction lands in its own deal or not at all.
THEOREM KeysStay == ASSUME "late" \notin Faults PROVE BrowsersSpec => []KeysKept
<1>1. KeysInv => KeysKept
  <2> SUFFICES ASSUME KeysInv, NEW c \in Players, browser[c].lastDeal = deal_no
               PROVE  /\ posted[seat_of(c)] \in {NoKey, browser[c].x}
                      /\ next_posted[seat_of(c)] \in {NoKey, browser[c].nextX}
    BY DEF KeysKept
  <2>1. /\ PageFits(browser[c], store[c]) /\ GivesBack(store[c], seat_of(c)) /\ deal_no \in Nat
    BY DEF KeysInv, BrowserFits, TableKept
  <2>2. store[c].dealNo = deal_no /\ browser[c].x = store[c].x /\ browser[c].nextX = store[c].nextX
    BY <2>1 DEF PageFits
  <2> QED
    BY <2>1, <2>2 DEF GivesBack
<1> QED
  BY <1>1, KeysInitially, KeysPreserved, PTL DEF BrowsersSpec

\* Close the page at any moment, while it proves a step, while one is in flight, or when a
\* prepared deck has just come into play unseen: what keyStore holds and the deal in
\* progress give every posted key back (keyStore and Seat.rotate of live/referee.ts).
THEOREM StoreSuffices == ASSUME "late" \notin Faults PROVE BrowsersSpec => []ReloadLosesNothing
<1>1. KeysInv => ReloadLosesNothing
  BY DEF KeysInv, BrowserFits, GivesBack, ReloadLosesNothing
<1> QED
  BY <1>1, KeysInitially, KeysPreserved, PTL DEF BrowsersSpec

------------------------------------------------------------------------------
(* The table the browsers play at, whatever goes wrong, late transactions too. *)

\* A click names a fold, a check or a call, and the amount they state is 0.
SentBet(tx) == tx.bet = NoBet \/ (tx.bet.kind \in {0, 1} /\ tx.bet.to = 0)

\* What a page has under way.
Sends(b) ==
    /\ DOMAIN b = PageFields
    /\ b.job = NoTx \/ SentBet(b.job)
    /\ b.bet_job = NoTx \/ SentBet(b.bet_job)

\* The contract's invariant, with what its calls need to know of who sends them.
PlayInv ==
    /\ ShareInv
    /\ phase # "aborted" /\ \A c \in Players : seat_of(c) \in Seats
    /\ DOMAIN browser = Players /\ DOMAIN in_flight = Players
    /\ \A c \in Players : Sends(browser[c]) /\ \A tx \in in_flight[c] : SentBet(tx)

\* Whatever lands is a call of the contract.
LEMMA LandCalls ==
    ASSUME PlayInv, NEW c \in Players, NEW tx \in in_flight[c], Land(c, tx)
    PROVE  Next /\ phase' # "aborted" /\ seat_owner' = seat_owner
<1> DEFINE s == seat_of(c)
<1>1. DeckInv /\ s \in Seats /\ SentBet(tx) /\ time \in Times /\ phase \in Phase \ {"aborted"}
  BY DEF PlayInv, ShareInv, DeckInv, PrepInv, TypeInv, TypeOK, ClockTypes, StageTypes
<1>2. call_step(c, s, tx.step, time) \/ (tx.step = "bet" /\ call_bet(c, s, tx.bet, time))
  BY DEF Land
<1> HIDE DEF s
<1>3. phase' # "aborted" /\ seat_owner' = seat_owner
  <2>1. phase' \in Phase \ {"aborted"} \/ phase' \in {"keys", "holes"}
    BY <1>1, <1>2, ChainMoves
  <2> QED
    BY <1>1, <1>2, <2>1, ChainMoves
<1>4. CASE call_step(c, s, tx.step, time)
  BY <1>1, <1>3, <1>4, StepsAreCalls
<1>5. CASE call_bet(c, s, tx.bet, time)
  <2>1. tx.bet.kind \in {0, 1} /\ tx.bet.to = 0
    BY <1>1, <1>5 DEF SentBet, call_bet, NoBet
  <2>2. tx.bet.kind \in Kinds /\ tx.bet.to \in IF tx.bet.kind = 2 THEN Amounts ELSE {0}
    BY <2>1 DEF Kinds
  <2> QED
    BY <1>1, <1>3, <1>5, <2>2, BetsAreCalls
<1> QED
  BY <1>2, <1>4, <1>5, <1>3

\* A page that reads sends no bet of its own.
LEMMA ReadSends ==
    ASSUME NEW c \in Players, NEW b, Sends(b), NEW snap, TakeIn(c, b, snap), DOMAIN browser = Players
    PROVE  /\ UNCHANGED chainVars /\ DOMAIN browser' = Players /\ Sends(browser'[c])
           /\ \A d \in Players \ {c} : browser'[d] = browser[d]
<1> DEFINE b0 == [b EXCEPT !.pushed = NoLedger]
<1>1. PICK seen, paused :
          /\ Goes_on(c, b0, seen, paused)
          /\ seen = read(c, b0, snap) \/ seen = [b0 EXCEPT !.l = snap]
  BY DEF TakeIn
<1> DEFINE next == step_of(c, seen, paused)
<1>2. Sends(b0) /\ UNCHANGED chainVars /\ browser' = [browser EXCEPT ![c] = next]
  <2>1. Sends(b0)
    BY DEF Sends, PageFields
  <2> QED
    BY <1>1, <2>1 DEF Goes_on
<1> HIDE DEF b0
<1>3. Sends(seen)
  <2>1. \/ seen = b0 \/ seen = [b0 EXCEPT !.l = snap]
        \/ \E k : seen = [b0 EXCEPT !.l = snap, !.seen = snap, !.lastDeal = snap.deal_no,
                                    !.x = k.x, !.nextX = k.nextX, !.pending = "none", !.rail = snapshot(c, snap, "none")]
    BY <1>1 DEF read
  <2> QED
    BY <1>2, <2>1 DEF Sends, PageFields
<1>4. Sends(next)
  <2>1. \/ next = seen
        \/ next = [seen EXCEPT !.pending = "none"]
        \/ \E step : next = [seen EXCEPT !.pending = "new", !.rail = snapshot(c, seen.l, "new"),
                                         !.job = transaction(c, seen, step, NoBet)]
    BY DEF step_of
  <2>2. \A step : SentBet(transaction(c, seen, step, NoBet))
    BY DEF SentBet, transaction, callTx
  <2>3. ASSUME NEW tx, SentBet(tx), next = [seen EXCEPT !.pending = "new",
                                                !.rail = snapshot(c, seen.l, "new"), !.job = tx]
        PROVE  Sends(next)
    <3>1. DOMAIN next = PageFields /\ next.job = tx /\ next.bet_job = seen.bet_job
      BY <1>3, <2>3 DEF Sends, PageFields
    <3> QED
      BY <1>3, <2>3, <3>1 DEF Sends
  <2>4. ASSUME next = [seen EXCEPT !.pending = "none"] PROVE Sends(next)
    BY <1>3, <2>4 DEF Sends, PageFields
  <2> QED
    BY <1>3, <2>1, <2>2, <2>3, <2>4
<1> HIDE DEF next
<1> QED
  BY <1>2, <1>4

\* So does one that does not read.
LEMMA PageSends ==
    ASSUME NEW c \in Players, NEW b, Sends(b), Page(c, b), DOMAIN browser = Players
    PROVE  /\ UNCHANGED chainVars /\ DOMAIN browser' = Players /\ Sends(browser'[c])
           /\ \A d \in Players \ {c} : browser'[d] = browser[d]
  BY DEF Page

LEMMA ChainKept ==
    ASSUME ShareInv, UNCHANGED chainVars
    PROVE  ShareInv' /\ UNCHANGED <<vars, phase, seat_owner>>
  BY SharePreserved DEF chainVars, vars, seatVars, stageVars

\* What a browser, its player and the network do leaves the contract alone, but for a
\* transaction that lands.
LEMMA BrowserSends ==
    ASSUME PlayInv, NEW c \in Players,
           \/ Tick_client(c) \/ Push(c) \/ Submit(c) \/ BetSubmit(c) \/ RetryDue(c) \/ Reopen(c)
           \/ Decides(c) \/ Breaks(c) \/ \E tx \in in_flight[c] : Fail(c, tx)
    PROVE  UNCHANGED vars /\ PlayInv'
<1> DEFINE b == browser[c]
           ok == /\ UNCHANGED chainVars /\ DOMAIN browser' = Players /\ Sends(browser'[c])
                 /\ \A d \in Players \ {c} : browser'[d] = browser[d]
           fewer == /\ DOMAIN in_flight' = Players
                    /\ \A d \in Players : in_flight'[d] \subseteq in_flight[d]
           more == /\ DOMAIN in_flight' = Players
                   /\ \A d \in Players \ {c} : in_flight'[d] = in_flight[d]
                   /\ \A tx \in in_flight'[c] : tx \in in_flight[c] \/ SentBet(tx)
<1>0. /\ Sends(b) /\ DOMAIN browser = Players /\ DOMAIN in_flight = Players
      /\ \A d \in Players : Sends(browser[d]) /\ \A tx \in in_flight[d] : SentBet(tx)
      /\ (in_flight' = in_flight => fewer)
  BY DEF PlayInv
<1>1. ASSUME ok, fewer \/ more PROVE UNCHANGED vars /\ PlayInv'
  <2>1. ShareInv' /\ UNCHANGED <<vars, phase, seat_owner>>
    BY <1>1, ChainKept DEF PlayInv
  <2>2. \A d \in Players : seat_of(d)' = seat_of(d)
    BY <2>1 DEF seat_of
  <2>3. \A d \in Players : Sends(browser'[d]) /\ \A tx \in in_flight'[d] : SentBet(tx)
    BY <1>0, <1>1
  <2> QED
    BY <1>1, <2>1, <2>2, <2>3 DEF PlayInv, Sends
<1> HIDE DEF b
<1>2. CASE Tick_client(c)
  <2>1. in_flight' = in_flight /\ \E snap : TakeIn(c, b, snap)
    BY <1>2 DEF Tick_client, b
  <2> QED
    BY <1>0, <1>1, <2>1, ReadSends
<1>3. CASE Push(c)
  <2>1. in_flight' = in_flight /\ (TakeIn(c, b, ledger_now) \/ Page(c, [b EXCEPT !.pushed = ledger_now]))
    BY <1>3 DEF Push, b
  <2>2. Sends([b EXCEPT !.pushed = ledger_now])
    BY <1>0 DEF Sends, PageFields
  <2> QED
    BY <1>0, <1>1, <2>1, <2>2, ReadSends, PageSends
<1>4. CASE Submit(c)
  <2> DEFINE sent == [b EXCEPT !.lastSent = b.job.for, !.job = NoTx]
  <2>1. /\ b.job # NoTx /\ in_flight' = [in_flight EXCEPT ![c] = @ \cup {b.job}]
        /\ Page(c, sent) \/ TakeIn(c, sent, b.pushed)
    BY <1>4 DEF Submit, b
  <2>2. Sends(sent) /\ SentBet(b.job)
    BY <1>0, <2>1 DEF Sends, PageFields
  <2>3. more
    BY <1>0, <2>1, <2>2
  <2> HIDE DEF sent
  <2>4. ok
    BY <1>0, <2>1, <2>2, ReadSends, PageSends
  <2> QED
    BY <1>1, <2>3, <2>4
<1>5. CASE BetSubmit(c)
  <2> DEFINE sent == [b EXCEPT !.lastSent = b.bet_job.for, !.bet_job = NoTx]
  <2>1. /\ b.bet_job # NoTx /\ in_flight' = [in_flight EXCEPT ![c] = @ \cup {b.bet_job}]
        /\ Page(c, sent)
    BY <1>5 DEF BetSubmit, b
  <2>2. Sends(sent) /\ SentBet(b.bet_job)
    BY <1>0, <2>1 DEF Sends, PageFields
  <2>3. more
    BY <1>0, <2>1, <2>2
  <2> HIDE DEF sent
  <2>4. ok
    BY <1>0, <2>1, <2>2, PageSends
  <2> QED
    BY <1>1, <2>3, <2>4
<1>6. CASE RetryDue(c) \/ Refuse(c) \/ BetRefuse(c)
  <2>1. PICK q : Page(c, q) /\ in_flight' = in_flight
                 /\ \/ q = [b EXCEPT !.pending = IF @ = "new" THEN "old" ELSE @, !.lastSent = NotSent]
                    \/ q = [b EXCEPT !.job = NoTx, !.pending = "none", !.rail = snapshot(c, b.l, "none")]
                    \/ q = [b EXCEPT !.bet_job = NoTx, !.pending = "none"]
    BY <1>6 DEF RetryDue, Refuse, BetRefuse, b
  <2>2. Sends(q)
    BY <1>0, <2>1 DEF Sends, PageFields
  <2> QED
    BY <1>0, <1>1, <2>1, <2>2, PageSends
<1>7. CASE Reopen(c) \/ Drop(c)
  <2>1. browser' = browser /\ in_flight' = in_flight /\ UNCHANGED chainVars
    BY <1>7 DEF Reopen, Drop
  <2> QED
    BY <1>0, <1>1, <2>1
<1>8. CASE Reload(c)
  <2>1. PICK x, nextX : browser' = [browser EXCEPT ![c] = Opened(x, nextX)]
    BY <1>8 DEF Reload
  <2>2. Sends(Opened(x, nextX))
    BY DEF Sends, Opened, PageFields
  <2>3. in_flight' = in_flight /\ UNCHANGED chainVars
    BY <1>8 DEF Reload
  <2> QED
    BY <1>0, <1>1, <2>1, <2>2, <2>3
<1>9. CASE \E tx \in in_flight[c] : Lose(c, tx) \/ Fail(c, tx)
  <2>1. PICK tx \in in_flight[c] : in_flight' = [in_flight EXCEPT ![c] = @ \ {tx}]
                                   /\ browser' = browser /\ UNCHANGED chainVars
    BY <1>9 DEF Lose, Fail
  <2>2. fewer
    BY <1>0, <2>1
  <2> QED
    BY <1>0, <1>1, <2>1, <2>2
<1>10. CASE Decides(c)
  <2>1. ASSUME NEW type \in Decisions \ {"show"}, Act(c, type) PROVE UNCHANGED vars /\ PlayInv'
    <3> DEFINE tx == transaction(c, b, "bet", actionStep(b.l, seat_of(c), type, 0))
               waiting == [b EXCEPT !.pending = "new", !.rail = Waiting]
               q == [waiting EXCEPT !.bet_job = tx]  refused == [waiting EXCEPT !.pending = "none"]
    <3>1. (Page(c, q) \/ Page(c, refused)) /\ in_flight' = in_flight
      BY <2>1 DEF Act, b
    <3>2. SentBet(tx)
      <4>1. type \in {"fold", "check", "call"}
        BY <2>1, FaultsAssumption
      <4>2. tx.bet = actionStep(b.l, seat_of(c), type, 0)
        BY DEF transaction, callTx
      <4>3. tx.bet.kind \in {0, 1} /\ tx.bet.to = 0
        BY <4>1, <4>2 DEF actionStep
      <4> QED
        BY <4>3 DEF SentBet
    <3> HIDE DEF tx
    <3>3. Sends(q) /\ Sends(refused)
      BY <1>0, <3>2 DEF Sends, PageFields
    <3> HIDE DEF q, refused
    <3> QED
      BY <1>0, <1>1, <3>1, <3>3, PageSends
  <2>2. ASSUME Show(c) PROVE UNCHANGED vars /\ PlayInv'
    <3> DEFINE tx == transaction(c, b, "show", NoBet)
               q == [b EXCEPT !.pending = "new", !.rail = Waiting, !.bet_job = tx]
    <3>1. Page(c, q) /\ in_flight' = in_flight
      BY <2>2 DEF Show, b
    <3>2. SentBet(tx)
      BY DEF SentBet, transaction, callTx
    <3> HIDE DEF tx
    <3>3. Sends(q)
      BY <1>0, <3>2 DEF Sends, PageFields
    <3> HIDE DEF q
    <3> QED
      BY <1>0, <1>1, <3>1, <3>3, PageSends
  <2> QED
    BY <1>10, <2>1, <2>2 DEF Decides
<1> QED
  BY <1>2, <1>3, <1>4, <1>5, <1>6, <1>7, <1>8, <1>9, <1>10 DEF Breaks

LEMMA PlayInitially == SeatedInit => PlayInv
<1> SUFFICES ASSUME SeatedInit PROVE PlayInv
  OBVIOUS
<1>1. ShareInv /\ phase # "aborted"
  BY ShareInitially DEF SeatedInit, FreshTable, NeverDealt
<1>2. ASSUME NEW c \in Players PROVE seat_of(c) \in Seats
  BY KeysInitially DEF KeysInv, TableKept
<1>3. /\ DOMAIN browser = Players /\ DOMAIN in_flight = Players
      /\ \A c \in Players : browser[c] = Opened(1, 2) /\ in_flight[c] = {}
  BY DEF SeatedInit, LiveInit
<1>4. Sends(Opened(1, 2))
  BY DEF Sends, Opened, PageFields
<1> QED
  BY <1>1, <1>2, <1>3, <1>4 DEF PlayInv

LEMMA PlayPreserved == PlayInv /\ [BrowsersNext]_liveVars => [Next]_vars /\ PlayInv'
<1> SUFFICES ASSUME PlayInv, [BrowsersNext]_liveVars PROVE [Next]_vars /\ PlayInv'
  OBVIOUS
<1>1. CASE UNCHANGED liveVars
  <2>1. UNCHANGED <<chainVars, browser, in_flight>>
    BY <1>1 DEF liveVars, chainVars
  <2>2. ShareInv' /\ UNCHANGED <<vars, phase, seat_owner>>
    BY <2>1, ChainKept DEF PlayInv
  <2> QED
    BY <2>1, <2>2 DEF PlayInv, seat_of, Sends, SentBet
<1>2. ASSUME NEW c \in Players, NEW tx \in in_flight[c], Land(c, tx) PROVE [Next]_vars /\ PlayInv'
  <2>1. Next /\ phase' # "aborted" /\ seat_owner' = seat_owner
    BY <1>2, LandCalls
  <2>2. ShareInv'
    BY <2>1, SharePreserved DEF PlayInv
  <2>3. /\ browser' = browser /\ DOMAIN in_flight' = Players
        /\ \A d \in Players : in_flight'[d] \subseteq in_flight[d]
    BY <1>2 DEF Land, PlayInv
  <2>4. \A d \in Players : seat_of(d)' = seat_of(d)
    BY <2>1 DEF seat_of
  <2>5. \A d \in Players : Sends(browser[d])' /\ \A u \in in_flight'[d] : SentBet(u)
    BY <2>3 DEF PlayInv, Sends
  <2> QED
    BY <2>1, <2>2, <2>3, <2>4, <2>5 DEF PlayInv
<1>3. ASSUME NEW c \in Players, Runs(c) \/ Decides(c) \/ Breaks(c) PROVE [Next]_vars /\ PlayInv'
  <2>1. \/ \E tx \in in_flight[c] : Land(c, tx)
        \/ Tick_client(c) \/ Push(c) \/ Submit(c) \/ BetSubmit(c) \/ RetryDue(c) \/ Reopen(c)
        \/ Decides(c) \/ Breaks(c) \/ \E tx \in in_flight[c] : Fail(c, tx)
    BY <1>3 DEF Runs
  <2> QED
    BY <1>2, <2>1, BrowserSends
<1> QED
  BY <1>1, <1>3 DEF BrowsersNext

\* Every step of browsers that send, resend, lose and reload is a circuit of
\* deal.compact called by the seat's own player with arguments it takes, or none: what
\* rules.ts makes of a stale copy is refused or lands as a call the contract knows.
\* Transactions landing in a later deal are included.
THEOREM BrowsersPlay == BrowsersSpec => [][Next]_vars
<1> QED
  BY PlayInitially, PlayPreserved, PTL DEF BrowsersSpec

\* So a table of browsers keeps what the contract promises, though players are already
\* seated when it starts: its escrow backs its books, hole cards stay private while anyone
\* may bet, and whatever the deal waits for, somebody's rules.ts owes it.
THEOREM LiveTableSound == BrowsersSpec => [](EscrowBacksBooks /\ HoleCardsPrivate /\ WaitedFor)
<1>1. PlayInv => EscrowBacksBooks /\ HoleCardsPrivate /\ WaitedFor
  BY HolesHidden, OwerKnows DEF PlayInv, ShareInv, BettingInv, CustodyInv, BooksInv
<1> QED
  BY <1>1, PlayInitially, PlayPreserved, PTL DEF BrowsersSpec

===============================================================================
