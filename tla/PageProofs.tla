------------------------------ MODULE PageProofs ------------------------------
(***************************************************************************)
(* What the page keeps, from the menu to the table, whatever the player    *)
(* clicks, in whatever order characters load, calls go on and sockets      *)
(* close.                                                                  *)
(***************************************************************************)
EXTENDS Room, ClientProofs, SequenceTheorems

RoomNext == AtMenu \/ RoomStep \/ RefereeStep \/ Clicks \/ Socket

RoomSpec == RoomInit /\ [][RoomNext]_pageVars

------------------------------------------------------------------------------
(* The subscription. *)

Sockets == {"none", "connecting", "greeted", "subscribed", "silent", "closing"}

\* A page that does not watch has never opened a socket.
WatchInv ==
    /\ \/ watch = NotWatching
       \/ /\ DOMAIN watch = {"on", "socket", "retry", "backoff", "stopped"}
          /\ watch.on = TRUE /\ watch.socket \in Sockets
          /\ watch.retry \in BOOLEAN /\ watch.stopped \in BOOLEAN
    /\ NeverDeaf

\* Everything else leaves the subscription alone.
LEMMA WatchAlone ==
    ASSUME [RoomNext]_pageVars
    PROVE  watch' = watch \/ watch' = Watching \/ WatchStep \/ Stop
BY DEF RoomNext, pageVars, AtMenu, RoomStep, enterRoom, entranceFrame, sitDown, Animate,
       AvatarLoads, AvatarFails, RefereeStep, Clicks, Socket

\* While the page watches a table there is a socket or a timer to open one, never both, and
\* once it has been stopped none is opened again: onclose and stop of watchContract
\* (live/indexer.ts), through acknowledgements, refusals, completions and closings.
THEOREM SubscriptionLives == RoomSpec => []NeverDeaf
<1>1. RoomInit => WatchInv
  BY DEF RoomInit, WatchInv, NotWatching, NeverDeaf
<1>2. WatchInv /\ [RoomNext]_pageVars => WatchInv'
  <2> SUFFICES ASSUME WatchInv, [RoomNext]_pageVars PROVE WatchInv'
    OBVIOUS
  <2>1. CASE watch' = watch
    BY <2>1 DEF WatchInv, NeverDeaf
  <2>2. CASE watch' = Watching
    BY <2>2 DEF Watching, NotWatching, WatchInv, NeverDeaf, Sockets
  <2>3. CASE WatchStep \/ Stop
    <3>1. CASE watch = NotWatching
      BY <2>3, <3>1 DEF WatchStep, Opens, Acknowledged, SubscriptionRefused, Completed, Closed,
                        OpensAgain, Stop, from, NotWatching
    <3>2. CASE watch # NotWatching
      <4>1. /\ DOMAIN watch = {"on", "socket", "retry", "backoff", "stopped"}
            /\ watch.on = TRUE /\ watch.socket \in Sockets
            /\ watch.retry \in BOOLEAN /\ watch.stopped \in BOOLEAN
            /\ ~watch.stopped => (watch.socket = "none") = watch.retry
            /\ watch.stopped => watch.socket \in {"none", "closing"} /\ ~watch.retry
        BY <3>2 DEF WatchInv, NeverDeaf
      <4>2. CASE Opens \/ Acknowledged \/ SubscriptionRefused \/ Completed
        BY <4>1, <4>2 DEF Opens, Acknowledged, SubscriptionRefused, Completed, from, WatchInv,
                          NeverDeaf, Sockets
      <4>3. CASE Closed
        BY <4>1, <4>3 DEF Closed, onclose, from, WatchInv, NeverDeaf, Sockets
      <4>4. CASE OpensAgain
        BY <4>1, <4>4 DEF OpensAgain, WatchInv, NeverDeaf, Sockets
      <4>5. CASE Stop
        BY <4>1, <4>5 DEF Stop, WatchInv, NeverDeaf, Sockets
      <4> QED
        BY <2>3, <4>2, <4>3, <4>4, <4>5 DEF WatchStep
    <3> QED
      BY <3>1, <3>2
  <2> QED
    BY <2>1, <2>2, <2>3, WatchAlone
<1>3. WatchInv => NeverDeaf
  BY DEF WatchInv
<1> QED
  BY <1>1, <1>2, <1>3, PTL DEF RoomSpec

------------------------------------------------------------------------------
(* The creator. *)

\* The last choice is what is shown, has failed, or is awaited.
ChoiceMet ==
    creator.open => \/ creator.failed \/ creator.shown = creator.model
                    \/ \E load \in creator.loads : load.id = creator.loading

CreatorInv ==
    /\ DOMAIN creator = {"open", "subject", "model", "loading", "loads", "shown", "failed"}
    /\ creator.open \in BOOLEAN /\ creator.failed \in BOOLEAN
    /\ creator.loading \in Nat
    /\ \A load \in creator.loads : /\ load.id \in 1..creator.loading
                                   /\ load.id = creator.loading => load.model = creator.model
    /\ ChoiceMet

\* A choice is awaited from the moment it is made.
LEMMA ChoiceAwaited ==
    ASSUME NEW c, DOMAIN c = {"open", "subject", "model", "loading", "loads", "shown", "failed"},
           c.open = TRUE, c.loading \in Nat, \A load \in c.loads : load.id \in 1..c.loading,
           NEW model, creator' = setModel(c, model)
    PROVE  CreatorInv'
<1> DEFINE id == c.loading + 1
<1>1. /\ creator' = [c EXCEPT !.model = model, !.loading = id, !.failed = FALSE,
                              !.loads = c.loads \cup {[id |-> id, model |-> model]}]
  BY DEF setModel
<1>2. /\ DOMAIN creator' = {"open", "subject", "model", "loading", "loads", "shown", "failed"}
      /\ creator'.open = TRUE /\ creator'.failed = FALSE /\ creator'.model = model
      /\ creator'.loading = id /\ creator'.loads = c.loads \cup {[id |-> id, model |-> model]}
  BY <1>1
<1>3. \E load \in creator'.loads : load.id = creator'.loading
  <2>1. [id |-> id, model |-> model] \in creator'.loads
    BY <1>2
  <2>2. [id |-> id, model |-> model].id = creator'.loading
    BY <1>2
  <2> QED
    BY <2>1, <2>2
<1>4. id \in Nat /\ \A load \in c.loads : load.id \in 1..id /\ load.id # id
  OBVIOUS
<1>5. \A load \in creator'.loads : /\ load.id \in 1..creator'.loading
                                   /\ load.id = creator'.loading => load.model = creator'.model
  BY <1>2, <1>4
<1> QED
  BY <1>2, <1>3, <1>4, <1>5 DEF CreatorInv, ChoiceMet

LEMMA CreatorAlone ==
    ASSUME [RoomNext]_pageVars
    PROVE  \/ creator' = creator \/ creator' = Unopened \/ CreatorStep
           \/ \E who, look : showCreator(who, look)
<1>1. CASE AtMenu
  BY <1>1 DEF AtMenu, MenuStep, Plates, AddPlate, SubmitLook, CancelLook, close, ClickPlate, TakeDown,
              Go, Connect, Press, Calls, SwitchNetwork, menuVars
<1>2. CASE ~AtMenu
  BY <1>2 DEF RoomNext, pageVars, menuVars, RoomStep, enterRoom, entranceFrame, sitDown, Animate,
       AvatarLoads, AvatarFails, RefereeStep, Clicks, Socket
<1> QED
  BY <1>1, <1>2

\* However many characters are chosen in a visit and in whatever order they load or fail to,
\* the one on the stage once none is awaited is the last one chosen, or that one failed:
\* the loading number setModel draws in ui/creator.ts.
THEOREM LastChoiceShown == RoomSpec => []CreatorShowsChoice
<1>1. RoomInit => CreatorInv
  BY DEF RoomInit, MenuInit, Unopened, CreatorInv, ChoiceMet
<1>2. CreatorInv /\ [RoomNext]_pageVars => CreatorInv'
  <2> SUFFICES ASSUME CreatorInv, [RoomNext]_pageVars PROVE CreatorInv'
    OBVIOUS
  <2>1. CASE creator' = creator
    BY <2>1 DEF CreatorInv, ChoiceMet
  <2>2. CASE creator' = Unopened
    BY <2>2 DEF Unopened, CreatorInv, ChoiceMet
  <2>3. ASSUME NEW who, NEW look, showCreator(who, look) PROVE CreatorInv'
    <3> DEFINE c == [Unopened EXCEPT !.open = TRUE, !.subject = who]
    <3>1. creator' = setModel(c, look)
      BY <2>3 DEF showCreator
    <3>2. /\ DOMAIN c = {"open", "subject", "model", "loading", "loads", "shown", "failed"}
          /\ c.open = TRUE /\ c.loading \in Nat /\ \A load \in c.loads : load.id \in 1..c.loading
      BY DEF Unopened
    <3> HIDE DEF c
    <3> QED
      BY <3>1, <3>2, ChoiceAwaited
  <2>4. ASSUME NEW model \in MODELS, Choose(model) PROVE CreatorInv'
    BY <2>4, ChoiceAwaited DEF Choose, CreatorInv
  <2>5. ASSUME NEW load \in creator.loads, ModelLoads(load) PROVE CreatorInv'
    BY <2>5 DEF ModelLoads, latest, CreatorInv, ChoiceMet
  <2>6. ASSUME NEW load \in creator.loads, ModelFails(load) PROVE CreatorInv'
    BY <2>6 DEF ModelFails, CreatorInv, ChoiceMet
  <2> QED
    BY <2>1, <2>2, <2>3, <2>4, <2>5, <2>6, CreatorAlone DEF CreatorStep
<1>3. CreatorInv => CreatorShowsChoice
  BY DEF CreatorInv, ChoiceMet, CreatorShowsChoice
<1> QED
  BY <1>1, <1>2, <1>3, PTL DEF RoomSpec

------------------------------------------------------------------------------
(* Into the room for money. *)

CallFields == {"what", "who", "network", "parts", "part", "at", "seat"}
TableFields == {"network", "circuits", "ours", "counter", "locked", "owner"}

Playable(t) == t.locked /\ t.ours

\* A join that went on past reading found a free seat at a table that plays.
CallFits(c, t) ==
    /\ DOMAIN c = CallFields /\ c.who # Nobody /\ (c.what = "join" => c.part = 0)
    /\ c.what = "join" /\ c.at \in {"submitting", "settling"} => c.seat \in Seats /\ Playable(t)

IsCalls(cs) == \E n \in Nat : cs = [i \in 1..n |-> cs[i]]

OpeningInv ==
    /\ IsCalls(calls)
    /\ \A i \in DOMAIN calls : CallFits(calls[i], live_table)
    /\ \A tx \in submitted : tx.what = "join" => tx.seat \in Seats /\ tx.part = 0
    /\ DOMAIN live_table = TableFields /\ DOMAIN live_table.owner = Seats

\* The seat of the entry is held, by the one who entered, at a table that plays.
EntryInv ==
    /\ OpeningInv
    /\ entry.mode = "live" => /\ entry.who # Nobody /\ entry.seat \in Seats
                              /\ live_table.owner[entry.seat] = entry.who /\ Playable(live_table)

\* What never goes back on the chain: a table that plays, and a seat taken at it.
TableStays ==
    /\ Playable(live_table) => Playable(live_table')
    /\ \A s \in Seats : live_table.owner[s] # Nobody => live_table'.owner[s] = live_table.owner[s]

\* A seat found for somebody is theirs.
LEMMA SeatFound ==
    ASSUME NEW t, NEW who, seatOf_table(t, who) # NONE
    PROVE  seatOf_table(t, who) \in Seats /\ t.owner[seatOf_table(t, who)] = who
<1> DEFINE own == {s \in Seats : t.owner[s] = who}
<1>1. own \in SUBSET Seats /\ seatOf_table(t, who) = first_in(own)
  BY DEF seatOf_table
<1>2. \A s \in own : s \in Seats /\ t.owner[s] = who
  OBVIOUS
<1> HIDE DEF own
<1> QED
  BY <1>1, <1>2, FirstIn

\* The first free seat is free.
LEMMA FreeFound ==
    ASSUME NEW t, NEW free, free = first_in({s \in Seats : t.owner[s] = Nobody}), free # NONE
    PROVE  free \in Seats /\ t.owner[free] = Nobody
<1> DEFINE own == {s \in Seats : t.owner[s] = Nobody}
<1>1. own \in SUBSET Seats /\ free = first_in(own)
  OBVIOUS
<1>2. \A s \in own : s \in Seats /\ t.owner[s] = Nobody
  OBVIOUS
<1> HIDE DEF own
<1> QED
  BY <1>1, <1>2, FirstIn

\* A call that changes, with the chain as it is.
LEMMA CallChanges ==
    ASSUME OpeningInv, NEW i \in DOMAIN calls, NEW c, set_call(i, c), CallFits(c, live_table),
           UNCHANGED live_table, \A tx \in submitted' : tx \in submitted \/ (tx.what = "join" => tx.seat \in Seats /\ tx.part = 0)
    PROVE  /\ OpeningInv'
           /\ DOMAIN calls' = DOMAIN calls /\ calls'[i] = c
           /\ \A j \in DOMAIN calls : j # i => calls'[j] = calls[j]
<1>1. PICK n \in Nat : calls = [j \in 1..n |-> calls[j]]
  BY DEF OpeningInv, IsCalls
<1>2. calls' = [calls EXCEPT ![i] = c]
  BY DEF set_call
<1>3. calls' = [j \in 1..n |-> calls'[j]] /\ DOMAIN calls = 1..n
  BY <1>1, <1>2
<1>4. /\ DOMAIN calls' = DOMAIN calls /\ calls'[i] = c
      /\ \A j \in DOMAIN calls : j # i => calls'[j] = calls[j]
  BY <1>2, <1>3
<1>5. \A j \in DOMAIN calls' : CallFits(calls'[j], live_table')
  BY <1>4 DEF OpeningInv
<1> QED
  BY <1>1, <1>3, <1>4, <1>5 DEF OpeningInv, IsCalls

\* A call that starts.
LEMMA CallStarts ==
    ASSUME OpeningInv, NEW c, calls' = Append(calls, c), CallFits(c, live_table), UNCHANGED <<live_table, submitted>>
    PROVE  OpeningInv'
<1>1. PICK n \in Nat : calls = [j \in 1..n |-> calls[j]]
  BY DEF OpeningInv, IsCalls
<1> DEFINE S == {calls[j] : j \in 1..n} \cup {c}
<1>2. calls \in Seq(S) /\ Len(calls) = n /\ c \in S
  BY <1>1
<1> HIDE DEF S
<1>3. /\ calls' \in Seq(S) /\ Len(calls') = n + 1
      /\ \A j \in 1..n : calls'[j] = calls[j]
      /\ calls'[n + 1] = c
  BY <1>2, AppendProperties
<1>4. DOMAIN calls' = 1..(n + 1) /\ calls' = [j \in 1..(n + 1) |-> calls'[j]]
  <2>1. calls' \in [1..(n + 1) -> S]
    BY <1>3, LenProperties
  <2> QED
    BY <2>1
<1>5. \A j \in 1..(n + 1) : CallFits(calls'[j], live_table')
  <2> SUFFICES ASSUME NEW j \in 1..(n + 1) PROVE CallFits(calls'[j], live_table')
    OBVIOUS
  <2>1. CallFits(calls'[j], live_table)
    <3>1. CASE j = n + 1
      BY <1>3, <3>1
    <3>2. CASE j # n + 1
      BY <1>1, <1>3, <3>2 DEF OpeningInv
    <3> QED
      BY <3>1, <3>2
  <2> QED
    BY <2>1
<1>6. IsCalls(calls')
  <2>1. n + 1 \in Nat
    OBVIOUS
  <2> QED
    BY <1>4, <2>1 DEF IsCalls
<1> QED
  BY <1>4, <1>5, <1>6 DEF OpeningInv

\* A call that ends with a seat found it held by its own identity.
Took(c, t) ==
    c.who # Nobody /\ c.seat \in Seats /\ t.owner[c.seat] = c.who /\ Playable(t)

\* A call changes by its wallet's doing or the chain's showing.
LEMMA CallGoesOn ==
    ASSUME OpeningInv, NEW i \in DOMAIN calls,
           Read(i) \/ WalletSubmits(i) \/ WalletRefuses(i) \/ Settled(i) \/ GivesUp(i)
    PROVE  /\ OpeningInv' /\ live_table' = live_table /\ DOMAIN calls' = DOMAIN calls
           /\ \A j \in DOMAIN calls : calls'[j] # calls[j] /\ calls'[j].what = "join" /\ calls'[j].at = "done"
                  => Took(calls'[j], live_table)
<1> DEFINE c == calls[i]  t == snapshot_for(c)
<1>1. CallFits(c, live_table)
  BY DEF OpeningInv
<1>2. t # NoTable => t = live_table
  BY DEF snapshot_for
<1>3. ASSUME NEW d, set_call(i, d), CallFits(d, live_table), live_table' = live_table,
             \A tx \in submitted' : tx \in submitted \/ (tx.what = "join" => tx.seat \in Seats /\ tx.part = 0),
             d.what = "join" /\ d.at = "done" => d = c \/ Took(d, live_table)
      PROVE  /\ OpeningInv' /\ live_table' = live_table /\ DOMAIN calls' = DOMAIN calls
             /\ \A j \in DOMAIN calls : calls'[j] # calls[j] /\ calls'[j].what = "join" /\ calls'[j].at = "done"
                    => Took(calls'[j], live_table)
  <2>1. /\ OpeningInv' /\ DOMAIN calls' = DOMAIN calls /\ calls'[i] = d
        /\ \A j \in DOMAIN calls : j # i => calls'[j] = calls[j]
    BY <1>3, CallChanges
  <2> QED
    BY <1>3, <2>1
<1>4. DOMAIN c = CallFields /\ c.who # Nobody /\ (c.what = "join" => c.part = 0)
  BY <1>1 DEF CallFits
<1> HIDE DEF c, t
<1>5. /\ CallFits(Failed(c), live_table) /\ Failed(c).at = "failed"
      /\ \A s : CallFits(Done(c, s), live_table) /\ Done(c, s).who = c.who /\ Done(c, s).seat = s
  BY <1>4 DEF CallFits, CallFields, Failed, Done
<1>6. CASE Read(i)
  <2> DEFINE held == seatOf_table(t, c.who)
             free == first_in({s \in Seats : t.owner[s] = Nobody})
  <2>1. /\ live_table' = live_table /\ submitted' = submitted
        /\ \/ set_call(i, Failed(c))
           \/ t # NoTable /\ isOurs(t) /\ held # NONE /\ set_call(i, Done(c, held))
           \/ t # NoTable /\ isOurs(t) /\ free # NONE /\ set_call(i, Submitting([c EXCEPT !.seat = free]))
    BY <1>6 DEF Read, c, t
  <2>2. CASE set_call(i, Failed(c))
    BY <1>3, <1>5, <2>1, <2>2
  <2>3. CASE t # NoTable /\ isOurs(t) /\ held # NONE /\ set_call(i, Done(c, held))
    <3>1. held \in Seats /\ live_table.owner[held] = c.who /\ Playable(live_table)
      BY <1>2, <2>3, SeatFound DEF isOurs, Playable
    <3> HIDE DEF held
    <3>2. Took(Done(c, held), live_table)
      BY <1>4, <1>5, <3>1 DEF Took
    <3> QED
      BY <1>3, <1>5, <2>1, <2>3, <3>2
  <2>4. CASE t # NoTable /\ isOurs(t) /\ free # NONE /\ set_call(i, Submitting([c EXCEPT !.seat = free]))
    <3> DEFINE d == Submitting([c EXCEPT !.seat = free])
    <3>1. free \in Seats
      BY <2>4, FreeFound
    <3>2. Playable(live_table)
      BY <1>2, <2>4 DEF isOurs, Playable
    <3> HIDE DEF free
    <3>3. CallFits(d, live_table) /\ d.at = "submitting"
      BY <1>4, <3>1, <3>2 DEF CallFits, CallFields, Submitting
    <3>4. set_call(i, d)
      BY <2>4
    <3> HIDE DEF d
    <3> QED
      BY <1>3, <2>1, <3>3, <3>4
  <2> QED
    BY <2>1, <2>2, <2>3, <2>4
<1>7. CASE WalletSubmits(i)
  <2> DEFINE d == [c EXCEPT !.at = "settling"]
  <2>1. PICK in : /\ c.at = "submitting" /\ live_table' = live_table /\ set_call(i, d)
                  /\ submitted' = submitted \cup
                        {[what |-> c.what, who |-> c.who, network |-> c.network, seat |-> c.seat,
                          part |-> c.part, in |-> in]}
    BY <1>7 DEF WalletSubmits, c
  <2>2. CallFits(d, live_table) /\ d.at = "settling"
    BY <1>1, <1>4, <2>1 DEF CallFits, CallFields, c
  <2>3. \A tx \in submitted' : tx \in submitted \/ (tx.what = "join" => tx.seat \in Seats /\ tx.part = 0)
    BY <1>1, <2>1 DEF CallFits, c
  <2>4. set_call(i, d)
    BY <2>1
  <2> HIDE DEF d
  <2> QED
    BY <1>3, <2>1, <2>2, <2>3, <2>4
<1>8. CASE WalletRefuses(i) \/ GivesUp(i)
  <2>1. set_call(i, Failed(c)) /\ UNCHANGED <<live_table, submitted>>
    BY <1>8 DEF WalletRefuses, GivesUp, c
  <2> QED
    BY <1>3, <1>5, <2>1
<1>9. CASE Settled(i)
  <2>1. c.at = "settling" /\ shows(c, t) /\ UNCHANGED <<live_table, submitted>>
    BY <1>9 DEF Settled, c, t
  <2>2. CASE c.what = "join"
    <3>1. set_call(i, Done(c, c.seat))
      BY <1>9, <2>2 DEF Settled, c
    <3>2. c.seat \in Seats /\ Playable(live_table)
      BY <1>1, <2>1, <2>2 DEF CallFits, c
    <3>3. t = live_table /\ seatOf_table(t, c.who) = c.seat
      BY <1>2, <2>1, <2>2 DEF shows
    <3>4. live_table.owner[c.seat] = c.who
      BY <3>2, <3>3, SeatFound DEF NONE, Seats
    <3>5. Took(Done(c, c.seat), live_table)
      BY <1>4, <1>5, <3>2, <3>4 DEF Took
    <3> QED
      BY <1>3, <1>5, <2>1, <3>1, <3>5
  <2>3. CASE c.what # "join"
    <3> DEFINE next == Submitting([c EXCEPT !.part = @ + 1])
    <3>1. set_call(i, Done(c, NONE)) \/ set_call(i, next)
      BY <1>9, <2>3 DEF Settled, c
    <3>2. CallFits(next, live_table) /\ next.what = c.what /\ Done(c, NONE).what = c.what
      BY <1>4, <2>3 DEF CallFits, CallFields, Submitting, Done
    <3> HIDE DEF next
    <3> QED
      BY <1>3, <1>5, <2>1, <2>3, <3>1, <3>2
  <2> QED
    BY <2>2, <2>3
<1> QED
  BY <1>6, <1>7, <1>8, <1>9

\* What lands in a block, ours or a stranger's, takes nobody's seat and opens no circuit
\* that was locked.
LEMMA ChainGoesOn ==
    ASSUME OpeningInv,
           \/ \E tx \in submitted : IntoBlock(tx) \/ NeverLands(tx)
           \/ \E p \in Strangers : StrangerJoins(p)
    PROVE  OpeningInv' /\ TableStays /\ calls' = calls
<1> DEFINE t == live_table
<1>1. calls' = calls /\ submitted' \subseteq submitted
  BY DEF IntoBlock, NeverLands, StrangerJoins
<1>2. ASSUME DOMAIN live_table' = TableFields, DOMAIN live_table'.owner = Seats, TableStays
      PROVE  OpeningInv' /\ TableStays /\ calls' = calls
  <2>1. \A i \in DOMAIN calls : CallFits(calls[i], live_table')
    BY <1>2 DEF OpeningInv, CallFits, TableStays
  <2> QED
    BY <1>1, <1>2, <2>1 DEF OpeningInv
<1>3. DOMAIN t = TableFields /\ DOMAIN t.owner = Seats
  BY DEF OpeningInv
<1>4. CASE live_table' = live_table
  BY <1>2, <1>3, <1>4 DEF TableStays
<1>5. ASSUME NEW s, NEW p, live_table' = [t EXCEPT !.owner[s] = p],
             s \notin Seats \/ t.owner[s] = Nobody
      PROVE  OpeningInv' /\ TableStays /\ calls' = calls
  <2>1. /\ DOMAIN live_table' = TableFields /\ live_table'.owner = [t.owner EXCEPT ![s] = p]
        /\ live_table'.locked = t.locked /\ live_table'.ours = t.ours
    BY <1>3, <1>5 DEF TableFields
  <2>2. DOMAIN live_table'.owner = Seats
        /\ \A k \in Seats : t.owner[k] # Nobody => live_table'.owner[k] = t.owner[k]
    BY <1>3, <1>5, <2>1
  <2> QED
    BY <1>2, <2>1, <2>2 DEF TableStays, Playable
<1>6. ASSUME NEW tx \in submitted, live_table' = applied(tx, live_table), applies(tx, live_table)
      PROVE  OpeningInv' /\ TableStays /\ calls' = calls
  <2>1. CASE tx.what = "join"
    <3> DEFINE free == first_in({s \in Seats : t.owner[s] = Nobody})
    <3>1. free = tx.seat /\ tx.seat \in Seats /\ live_table' = [t EXCEPT !.owner[tx.seat] = tx.who]
      <4>1. tx.seat \in Seats /\ tx.part = 0
        BY <2>1 DEF OpeningInv
      <4>2. free = tx.seat
        BY <1>6, <2>1, <4>1 DEF applies
      <4>3. live_table' = [t EXCEPT !.owner[tx.seat] = tx.who]
        BY <1>6, <2>1, <4>1 DEF applied
      <4> QED
        BY <4>1, <4>2, <4>3
    <3>2. t.owner[tx.seat] = Nobody
      BY <3>1, FreeFound DEF NONE, Seats
    <3> HIDE DEF t, free
    <3> QED
      BY <1>5, <3>1, <3>2
  <2>2. CASE tx.what # "join" /\ tx.part = 1
    <3>1. live_table' = [t EXCEPT !.network = tx.network, !.circuits = tx.in.keys]
      BY <1>6, <2>2 DEF applied
    <3>2. /\ DOMAIN live_table' = TableFields /\ live_table'.owner = t.owner
          /\ live_table'.locked = t.locked /\ live_table'.ours = t.ours
      BY <1>3, <3>1 DEF TableFields
    <3> QED
      BY <1>2, <1>3, <3>2 DEF TableStays, Playable
  <2>3. CASE tx.what # "join" /\ tx.part # 1
    <3>1. ~t.locked
      BY <1>6, <2>3 DEF applies
    <3>2. live_table' = [t EXCEPT !.circuits = @ \cup tx.in.keys, !.counter = @ + 1, !.locked = tx.in.lock]
      BY <1>6, <2>3 DEF applied
    <3>3. DOMAIN live_table' = TableFields /\ live_table'.owner = t.owner
      BY <1>3, <3>2 DEF TableFields
    <3> QED
      BY <1>2, <1>3, <3>1, <3>3 DEF TableStays, Playable
  <2> QED
    BY <2>1, <2>2, <2>3
<1>7. ASSUME NEW p \in Strangers, StrangerJoins(p)
      PROVE  OpeningInv' /\ TableStays /\ calls' = calls
  <2> DEFINE free == first_in({s \in Seats : t.owner[s] = Nobody})
  <2>1. live_table' = [t EXCEPT !.owner[free] = p]
    BY <1>7 DEF StrangerJoins
  <2>2. free \notin Seats \/ t.owner[free] = Nobody
    BY FreeFound DEF NONE, Seats
  <2> HIDE DEF t, free
  <2> QED
    BY <1>5, <2>1, <2>2
<1> QED
  BY <1>4, <1>6, <1>7 DEF IntoBlock, NeverLands

\* What else the page does starts a call or leaves the opening of tables alone.
LEMMA OpeningAlone ==
    ASSUME [RoomNext]_pageVars, ~Calls
    PROVE  /\ \/ UNCHANGED openingVars
              \/ \E network : /\ Deploy(activeProfile, network) \/ JoinTable(activeProfile, network)
                              /\ activeProfile # Nobody
           /\ entry' = entry \/ entry'.mode = "practice"
<1>1. CASE AtMenu
  <2>1. CASE Plates
    BY <2>1 DEF Plates, SubmitLook, CancelLook, ClickPlate, TakeDown, activate, createProfile,
                updateProfile, removeProfile, edit
  <2>2. CASE Go
    BY <2>2 DEF Go, leave_menu
  <2>3. CASE Connect \/ \E n \in ToSet(Networks) : SwitchNetwork(n)
    BY <2>3 DEF Connect, SwitchNetwork
  <2>4. CASE Press
    BY <2>4 DEF Press, menuVars
  <2> QED
    BY <1>1, <2>1, <2>2, <2>3, <2>4 DEF AtMenu, MenuStep
<1>2. CASE ~AtMenu
  BY <1>2 DEF RoomNext, pageVars, menuVars, RoomStep, enterRoom, entranceFrame, sitDown, Animate,
       AvatarLoads, AvatarFails, RefereeStep, Clicks, Socket
<1> QED
  BY <1>1, <1>2

\* The entry is held from the start, whatever the page, the chain and strangers do.
LEMMA EntryHolds ==
    /\ RoomInit => EntryInv
    /\ EntryInv /\ [RoomNext]_pageVars => EntryInv'
<1>1. RoomInit => EntryInv
  <2> SUFFICES ASSUME RoomInit PROVE EntryInv
    OBVIOUS
  <2>1. calls = [i \in 1..0 |-> calls[i]] /\ DOMAIN calls = {} /\ submitted = {} /\ entry.mode = "menu"
    BY DEF RoomInit, MenuInit, OpeningInit, NoEntry
  <2>2. DOMAIN NoTable = TableFields /\ DOMAIN NoTable.owner = Seats
    BY DEF NoTable, TableFields, nobody_seated
  <2>3. \A network, ours, locked : /\ DOMAIN SomeTable(network, ours, locked) = TableFields
                                   /\ SomeTable(network, ours, locked).owner = NoTable.owner
    BY <2>2 DEF SomeTable, TableFields
  <2>4. live_table = NoTable \/ \E network, ours, locked : live_table = SomeTable(network, ours, locked)
    BY DEF RoomInit, MenuInit, OpeningInit
  <2>5. DOMAIN live_table = TableFields /\ DOMAIN live_table.owner = Seats
    BY <2>2, <2>3, <2>4
  <2> QED
    BY <2>1, <2>5 DEF EntryInv, OpeningInv, IsCalls
<1>2. EntryInv /\ [RoomNext]_pageVars => EntryInv'
  <2> SUFFICES ASSUME EntryInv, [RoomNext]_pageVars PROVE EntryInv'
    OBVIOUS
  <2> DEFINE Held(e, t) == e.mode = "live" => /\ e.who # Nobody /\ e.seat \in Seats
                                              /\ t.owner[e.seat] = e.who /\ Playable(t)
  <2>1. OpeningInv /\ Held(entry, live_table)
    BY DEF EntryInv
  <2>2. CASE Calls
    <3>1. CASE \E i \in DOMAIN calls : \/ Read(i) \/ WalletSubmits(i) \/ WalletRefuses(i)
                                         \/ Settled(i) \/ GivesUp(i)
      <4>1. /\ OpeningInv' /\ live_table' = live_table /\ DOMAIN calls' = DOMAIN calls
            /\ \A j \in DOMAIN calls : calls'[j] # calls[j] /\ calls'[j].what = "join" /\ calls'[j].at = "done"
                  => Took(calls'[j], live_table)
        BY <2>1, <3>1, CallGoesOn
      <4>2. \/ entry' = entry
            \/ \E i \in DOMAIN calls : /\ calls'[i] # calls[i] /\ calls'[i].what = "join" /\ calls'[i].at = "done"
                                        /\ entry' = entry_of(calls'[i])
        BY <2>2 DEF Calls, leave_menu
      <4>3. CASE entry' = entry
        BY <2>1, <4>1, <4>3 DEF EntryInv
      <4>4. ASSUME NEW i \in DOMAIN calls, calls'[i] # calls[i], calls'[i].what = "join", calls'[i].at = "done",
                   entry' = entry_of(calls'[i])
            PROVE  EntryInv'
        <5>1. Took(calls'[i], live_table)
          BY <4>1, <4>4
        <5>2. entry'.who = calls'[i].who /\ entry'.seat = calls'[i].seat
          BY <4>4 DEF entry_of
        <5> QED
          BY <4>1, <5>1, <5>2 DEF EntryInv, Took
      <4> QED
        BY <4>2, <4>3, <4>4
    <3>2. CASE \/ \E tx \in submitted : IntoBlock(tx) \/ NeverLands(tx)
               \/ \E p \in Strangers : StrangerJoins(p)
      <4>1. OpeningInv' /\ TableStays /\ calls' = calls
        BY <2>1, <3>2, ChainGoesOn
      <4>2. entry' = entry
        BY <2>2, <4>1 DEF Calls
      <4> QED
        BY <2>1, <4>1, <4>2 DEF EntryInv, TableStays
    <3> QED
      BY <2>2, <3>1, <3>2 DEF Calls, OpeningStep
  <2>3. CASE ~Calls
    <3>1. /\ \/ UNCHANGED openingVars
             \/ \E network : /\ Deploy(activeProfile, network) \/ JoinTable(activeProfile, network)
                             /\ activeProfile # Nobody
          /\ entry' = entry \/ entry'.mode = "practice"
      BY <2>3, OpeningAlone
    <3>2. CASE UNCHANGED openingVars
      BY <2>1, <3>1, <3>2 DEF openingVars, OpeningInv, EntryInv
    <3>3. ASSUME NEW network, Deploy(activeProfile, network) \/ JoinTable(activeProfile, network),
                 activeProfile # Nobody
          PROVE  OpeningInv' /\ live_table' = live_table
      <4>1. PICK c : /\ calls' = Append(calls, c) /\ UNCHANGED <<live_table, submitted>>
                     /\ DOMAIN c = CallFields /\ c.who = activeProfile
                     /\ c.what = "join" => c.at = "reading" /\ c.part = 0
        <5>1. CASE Deploy(activeProfile, network)
          <6>1. PICK size : /\ UNCHANGED <<live_table, submitted>>
                            /\ calls' = Append(calls, [what |-> "deploy", who |-> activeProfile,
                                         network |-> network, parts |-> deployInParts(size), part |-> 1,
                                         at |-> "submitting", seat |-> NONE])
            BY <5>1 DEF Deploy
          <6> QED
            BY <6>1 DEF CallFields
        <5>2. CASE JoinTable(activeProfile, network)
          BY <5>2 DEF JoinTable, CallFields
        <5> QED
          BY <3>3, <5>1, <5>2
      <4>2. CallFits(c, live_table)
        BY <3>3, <4>1 DEF CallFits
      <4> QED
        BY <2>1, <4>1, <4>2, CallStarts
    <3>4. CASE ~UNCHANGED openingVars
      <4>1. OpeningInv' /\ live_table' = live_table
        BY <3>1, <3>3, <3>4
      <4> QED
        BY <2>1, <3>1, <4>1 DEF EntryInv
    <3> QED
      BY <3>2, <3>4
  <2> QED
    BY <2>2, <2>3
<1> QED
  BY <1>1, <1>2

\* Whoever enters the room to play for money holds the seat they enter with, for good and at
\* a table whose circuits are ours and locked, though calls of the page run side by side,
\* profiles change meanwhile and strangers join in the same block: joinOn and isOurs of
\* live/live.ts and ledger.ts, and the first entry of ui/menu.ts.
THEOREM SeatedForMoney == RoomSpec => []EntrySeated
<1>1. EntryInv => EntrySeated
  BY DEF EntryInv, EntrySeated, Playable
<1> QED
  BY <1>1, EntryHolds, PTL DEF RoomSpec

------------------------------------------------------------------------------
(* Cards in hand. *)

\* Cards are thrown to players with hands.
LEMMA Thrown ==
    ASSUME NEW v, NEW t, t.dealer \in Int, v.hands \in SUBSET Seats
    PROVE  deal(v, t) \in Seq(v.hands \X Int)
<1> DEFINE to == t.inHand \cap v.hands
           n == count_b(to)
           place(s) == count_b({k \in to : clockwise(t.dealer, k) < clockwise(t.dealer, s)})
           seat(i) == CHOOSE s \in to : place(s) = i
<1>1. deal(v, t) = [i \in 1..2 * n |-> <<seat((i - 1) % n), (i - 1) \div n>>]
  BY DEF deal
<1>2. to \in SUBSET Seats /\ n \in Nat
  BY CountB
<1>3. ASSUME NEW m \in Nat, m < n PROVE seat(m) \in v.hands
  <2>1. \E s \in to : place(s) = m
    <3> HIDE DEF to
    <3> QED
      BY <1>2, <1>3, EveryPlaceTaken
  <2> QED
    BY <2>1
<1> HIDE DEF n, seat
<1>4. ASSUME NEW i \in 1..2 * n PROVE (i - 1) % n \in Nat /\ (i - 1) % n < n /\ (i - 1) \div n \in Int
  <2>1. n > 0 /\ i - 1 \in Nat
    BY <1>2
  <2> QED
    BY <1>2, <2>1
<1>5. \A i \in 1..2 * n : <<seat((i - 1) % n), (i - 1) \div n>> \in v.hands \X Int
  BY <1>3, <1>4
<1>6. 2 * n \in Nat /\ deal(v, t) \in [1..2 * n -> v.hands \X Int]
  <2>1. 2 * n \in Nat
    BY <1>2
  <2> DEFINE thrown(i) == <<seat((i - 1) % n), (i - 1) \div n>>
  <2>2. deal(v, t) = [i \in 1..2 * n |-> thrown(i)] /\ \A i \in 1..2 * n : thrown(i) \in v.hands \X Int
    BY <1>1, <1>5
  <2> HIDE DEF thrown
  <2> QED
    BY <2>1, <2>2
<1> QED
  BY <1>6

ViewFields == {"street", "board", "mine", "faceUp", "winners", "hands", "holding", "flights", "felt"}

\* Cards in the air are on their way to hands.
ViewFits(v) ==
    /\ DOMAIN v = ViewFields /\ v.hands \in SUBSET Seats
    /\ v.flights \in Seq(v.hands \X Int)

\* What the scene is told leaves the hands alone.
LEMMA Updated ==
    ASSUME NEW v, ViewFits(v), NEW t, t.dealer \in Int
    PROVE  ViewFits(update_view(v, t)) /\ update_view(v, t).hands = v.hands
<1> DEFINE w == update_view(v, t)
<1>1. /\ DOMAIN w = ViewFields /\ w.hands = v.hands
      /\ w.flights = IF t.street = "preflop" /\ v.street # "preflop" THEN deal(v, t) ELSE v.flights
  BY DEF update_view, ViewFits, ViewFields
<1>2. deal(v, t) \in Seq(v.hands \X Int)
  BY Thrown DEF ViewFits
<1> HIDE DEF w
<1>3. ViewFits(w)
  BY <1>1, <1>2 DEF ViewFits
<1> QED
  BY <1>1, <1>3 DEF w

\* So does a publication, of the ledger before a step or after it.
LEMMA Published ==
    ASSUME ViewFits(view), NEW l, l.dealer \in Int, NEW won, publish(l, won)
    PROVE  ViewFits(view') /\ view'.hands = view.hands
<1>1. PICK mine : view' = update_view(view, [tableFrom(l, you, won) EXCEPT !.mine = mine])
  BY DEF publish
<1>2. [tableFrom(l, you, won) EXCEPT !.mine = mine].dealer = l.dealer
  BY DEF tableFrom
<1> DEFINE t == [tableFrom(l, you, won) EXCEPT !.mine = mine]
<1>3. view' = update_view(view, t) /\ t.dealer \in Int
  BY <1>1, <1>2
<1> HIDE DEF t
<1> QED
  BY <1>3, Updated

\* What the Practice referee and the clicks tell the scene.
LEMMA RefereeTells ==
    ASSUME RefereeStep \/ Clicks
    PROVE  \/ view' = view
           \/ \E won : publish(ledger_now, won)
           \/ publish(ledger_now', {}) \/ publish(ledger_now', game.won)
<1>1. CASE Join \/ BuyBack \/ StartDeal
  BY <1>1 DEF Join, BuyBack, StartDeal
<1>2. CASE Drive
  <2>1. \E s, step, rest : Run(s, step, rest)
    BY <1>2 DEF Drive
  <2> QED
    BY <2>1 DEF Run
<1>3. CASE Decide \/ AutoFold \/ BotActs \/ NextDeal
  BY <1>3 DEF Decide, AutoFold, BotActs, NextDeal
<1>4. CASE Clicks
  BY <1>4 DEF Clicks, Act, Show, StepAmount
<1> QED
  BY <1>1, <1>2, <1>3, <1>4 DEF RefereeStep

\* The button is somebody's seat or nobody's.
ButtonNamed == dealer \in Int /\ next_in_deal \in SUBSET Seats

\* Only a deal's start moves the button.
LEMMA ButtonMoves ==
    ASSUME RefereeStep \/ Clicks
    PROVE  UNCHANGED <<dealer, next_in_deal>> \/ \E now : start_deal(now)
<1> DEFINE still == UNCHANGED <<dealer, next_in_deal>>
           ok == still \/ \E now : start_deal(now)
<1>1. (\E p, buy : join(p, buy)) \/ (\E p, s, a : buy_in(p, s, a)) => still
  BY DEF join, buy_in, rosterVars, nextVars
<1>2. \A p, s, now : post_key(p, s, now) \/ shuffle(p, s, now) => still
  BY DEF post_key, post_key_asserts, shuffle, shuffle_asserts, rosterVars, nextVars
<1>3. \A p, s, ps, now : shares(p, s, ps, now) => still
  BY DEF shares, shares_asserts, rosterVars, nextVars
<1>4. \A p, s, now : release(p, s, now) \/ show(p, s, now) => still
  BY DEF release, release_asserts, show, show_asserts, rosterVars, nextVars
<1>5. \A p, s, score, now : show_hand(p, s, score, now) => still
  BY DEF show_hand, show_hand_asserts, rosterVars, nextVars
<1>6. settle \/ settle_abort => still
  BY DEF settle, settle_asserts, settle_abort, settle_abort_asserts, rosterVars, nextVars
<1>7. \A p, s, now : post_next_key(p, s, now) \/ shuffle_next(p, s, now) => still
  BY DEF post_next_key, post_next_key_asserts, shuffle_next, shuffle_next_asserts, rosterVars
<1>8. \A p, s, b, now : call_bet(p, s, b, now) => still
  <2>1. \A p, s, kind, t, now : act(p, s, kind, t, now) => still
    BY DEF act, act_asserts, rosterVars, nextVars
  <2>2. \A p, s, kind, t, now : act_out(p, s, kind, t, now) => still
    BY DEF act_out, act_out_asserts, rosterVars, nextVars
  <2> HIDE DEF still
  <2> QED
    BY <2>1, <2>2 DEF call_bet
<1> HIDE DEF still
<1>9. \A p, s, step, now : call_step(p, s, step, now) => ok
  BY <1>2, <1>3, <1>4, <1>5, <1>6, <1>7 DEF call_step
<1>10. \A s, type, to : perform(s, type, to) => still
  BY <1>8 DEF perform, still, vars, rosterVars, nextVars
<1> HIDE DEF ok, still
<1>11. CASE Join \/ BuyBack
  <2>1. CASE Join
    <3>1. join(Names[count_b(occupied) + 1], MAX_BUY_IN)
      BY <2>1 DEF Join
    <3> QED
      BY <1>1, <3>1 DEF ok, still
  <2>2. CASE BuyBack
    <3>1. \E s : buy_in(seat_owner[s], s, MAX_BUY_IN - stack[s])
      BY <2>2 DEF BuyBack
    <3> QED
      BY <1>1, <3>1 DEF ok, still
  <2> QED
    BY <1>11, <2>1, <2>2
<1>12. CASE StartDeal
  BY <1>12 DEF StartDeal, ok, still, vars, rosterVars, nextVars
<1>13. CASE Drive
  <2>1. PICK s, step, rest : Run(s, step, rest)
    BY <1>13 DEF Drive
  <2> QED
    BY <1>9, <2>1 DEF Run, ok, still, vars, rosterVars, nextVars
<1>14. CASE AutoFold \/ BotActs \/ \E pressed : Act(pressed)
  <2>1. \E s, type, to : perform(s, type, to)
    <3>1. AutoFold => perform(you, IF legal(ledger_now, you).check THEN "check" ELSE "fold", 0)
      BY DEF AutoFold
    <3>2. BotActs => \E b : perform(to_act, b[1], b[2])
      BY DEF BotActs
    <3>3. \A pressed : Act(pressed) => \E b : perform(you, b[1], b[2])
      BY DEF Act
    <3> QED
      BY <1>14, <3>1, <3>2, <3>3
  <2> QED
    BY <1>10, <2>1 DEF ok, still
<1>15. CASE Decide \/ NextDeal \/ StepAmount
  BY <1>15 DEF Decide, NextDeal, StepAmount, ok, still, vars, rosterVars, nextVars
<1>16. CASE Show
  BY <1>4, <1>16 DEF Show, ok, still, vars, rosterVars, nextVars
<1> QED
  BY <1>11, <1>12, <1>13, <1>14, <1>15, <1>16 DEF RefereeStep, Clicks, ok, still

LEMMA ButtonKept ==
    ASSUME ButtonNamed, RefereeStep \/ Clicks
    PROVE  ButtonNamed'
<1>1. ASSUME NEW now, start_deal(now) PROVE ButtonNamed'
  <2> DEFINE v == IF prepared THEN next_in_deal ELSE players_present
  <2>1. players_present \in SUBSET Seats
    BY DEF players_present, occupied
  <2>2. v \in SUBSET Seats
    BY <2>1 DEF ButtonNamed
  <2>3. dealer' = IF dealer = NONE THEN first_in(v) ELSE next_round(v, dealer)
    BY <1>1 DEF start_deal, start_deal_asserts
  <2>4. next_in_deal' = players_present
    BY <1>1 DEF start_deal, start_deal_asserts, begin_prep
  <2> HIDE DEF v
  <2>5. dealer' \in v \cup {NONE}
    BY <2>2, <2>3, FirstIn, NextRound
  <2> QED
    BY <2>1, <2>2, <2>4, <2>5 DEF ButtonNamed, NONE, Seats
<1> QED
  BY <1>1, ButtonMoves DEF ButtonNamed

\* Whoever came into the room has a chair, you among them, and you are there before the
\* entrance walks you to yours.
ChairsKnown ==
    /\ DOMAIN avatars \in SUBSET Seats /\ avatars = [i \in DOMAIN avatars |-> avatars[i]]
    /\ entrance = "outside" => DOMAIN avatars = {}
    /\ entrance # "outside" => entry.mode # "menu" /\ YOU \in DOMAIN avatars
    /\ entrance \notin {"outside", "loading"} => avatars[YOU] = "there"

there == {i \in DOMAIN avatars : avatars[i] = "there"}

HandsInv ==
    /\ ButtonNamed /\ ViewFits(view) /\ ChairsKnown
    /\ table_up => entrance = "seated" /\ view.hands = there

\* The seat you walk to is one of the table's.
LEMMA YouHaveASeat == ASSUME EntryInv, entry.mode # "menu" PROVE YOU \in Seats
BY DEF EntryInv, YOU, Seats

\* The entry is decided once.
LEMMA EntryStays ==
    ASSUME [RoomNext]_pageVars, entry.mode # "menu"
    PROVE  entry' = entry
<1>1. entry # NoEntry
  BY DEF NoEntry
<1>2. CASE AtMenu
  BY <1>1, <1>2 DEF AtMenu, MenuStep, Go, Connect, Press, menuVars, SwitchNetwork, Calls, leave_menu
<1>3. CASE ~AtMenu
  BY <1>3 DEF RoomNext, pageVars, menuVars, RoomStep, enterRoom, entranceFrame, sitDown, Animate,
       AvatarLoads, AvatarFails, RefereeStep, Clicks, Socket
<1> QED
  BY <1>2, <1>3

LEMMA HandsInitially == RoomInit => HandsInv
<1> SUFFICES ASSUME RoomInit PROVE HandsInv
  OBVIOUS
<1>1. avatars = <<>> /\ entrance = "outside" /\ table_up = FALSE /\ view = EmptyView
  BY DEF RoomInit
<1>2. avatars = [i \in 1..0 |-> avatars[i]] /\ DOMAIN avatars = {}
  BY <1>1
<1>3. ButtonNamed
  BY DEF RoomInit, Init, NeverDealt, ButtonNamed, NONE, Seats
<1>4. ViewFits(view)
  BY <1>1 DEF ViewFits, ViewFields, EmptyView
<1> QED
  BY <1>1, <1>2, <1>3, <1>4 DEF HandsInv, ChairsKnown

LEMMA HandsPreserved == EntryInv /\ HandsInv /\ [RoomNext]_pageVars => HandsInv'
<1> SUFFICES ASSUME EntryInv, HandsInv, [RoomNext]_pageVars PROVE HandsInv'
  OBVIOUS
<1>1. ButtonNamed /\ ViewFits(view) /\ ChairsKnown
  BY DEF HandsInv
<1>2. entry.mode # "menu" => entry' = entry /\ YOU' = YOU
  BY EntryStays DEF YOU
<1>3. UNCHANGED <<avatars, entrance>> => ChairsKnown'
  BY <1>1, <1>2 DEF ChairsKnown
<1>4. CASE UNCHANGED <<vars, view, roomVars>>
  <2>1. UNCHANGED <<dealer, next_in_deal, view, avatars, entrance, table_up>>
    BY <1>4 DEF vars, rosterVars, nextVars, roomVars
  <2> QED
    BY <1>1, <1>3, <2>1 DEF HandsInv, ButtonNamed, there
<1>5. CASE RefereeStep \/ Clicks
  <2>1. ButtonNamed'
    BY <1>1, <1>5, ButtonKept
  <2>2. ViewFits(view') /\ view'.hands = view.hands
    <3>1. ledger_now.dealer = dealer /\ ledger_now'.dealer = dealer'
      BY DEF ledger_now
    <3>2. dealer \in Int /\ dealer' \in Int
      BY <1>1, <2>1 DEF ButtonNamed
    <3> QED
      BY <1>1, <1>5, <3>1, <3>2, RefereeTells, Published
  <2>3. UNCHANGED <<avatars, entrance, table_up>>
    BY <1>5 DEF RefereeStep, Clicks, roomVars
  <2> QED
    BY <1>3, <2>1, <2>2, <2>3 DEF HandsInv, there
<1>6. CASE enterRoom
  <2>1. chairs \in SUBSET Seats /\ YOU \in Seats
    <3>1. chairs \in SUBSET Seats
      <4>1. Len(Names) \in 2..6
        BY NamesAssumption
      <4>2. \A n \in 2..6 : 0..(n - 1) \in SUBSET Seats
        BY DEF Seats
      <4>3. chairs = 0..(Len(Names) - 1)
        BY DEF chairs, at_table
      <4> QED
        BY <4>1, <4>2, <4>3
    <3> QED
      BY <1>6, <3>1, YouHaveASeat DEF enterRoom
  <2>2. /\ entry.mode # "menu" /\ entrance = "outside" /\ entrance' = "loading"
        /\ avatars' = [i \in chairs \cup {YOU} |-> "loading"]
        /\ UNCHANGED <<vars, view, table_up, entry>>
    BY <1>6 DEF enterRoom, menuVars, practiceVars
  <2>3. ~table_up /\ ButtonNamed'
    BY <1>1, <2>2 DEF HandsInv, ButtonNamed, vars, rosterVars, nextVars
  <2> QED
    BY <1>1, <1>2, <2>1, <2>2, <2>3 DEF HandsInv, ChairsKnown
<1>7. ASSUME NEW i \in DOMAIN avatars, AvatarLoads(i) PROVE HandsInv'
  <2>1. /\ avatars[i] = "loading" /\ avatars' = [avatars EXCEPT ![i] = "there"]
        /\ IF i = YOU THEN entrance' = "walk" /\ view' = view
           ELSE view' = attachCards(view, i) /\ entrance' = entrance
        /\ UNCHANGED <<vars, entry, table_up>>
    BY <1>7 DEF AvatarLoads, menuVars
  <2>2. ButtonNamed' /\ YOU' = YOU
    BY <1>1, <2>1 DEF ButtonNamed, vars, rosterVars, nextVars, YOU
  <2>3. ChairsKnown'
    BY <1>1, <2>1, <2>2 DEF ChairsKnown
  <2>4. i \in Seats /\ there' = there \cup {i}
    BY <1>1, <2>1 DEF ChairsKnown, there
  <2>5. i = YOU => ~table_up
    BY <1>1, <2>1 DEF HandsInv, ChairsKnown
  <2>6. CASE view' = view /\ ~table_up
    BY <1>1, <2>1, <2>2, <2>3, <2>6 DEF HandsInv
  <2>7. CASE view' = attachHoleCards(view, i) /\ table_up /\ entrance' = entrance
    <3>1. /\ DOMAIN view' = ViewFields /\ view'.hands = view.hands \cup {i}
          /\ view'.flights = view.flights
      BY <1>1, <2>7 DEF attachHoleCards, ViewFits, ViewFields
    <3>2. ViewFits(view')
      <4>1. view.flights \in Seq((view.hands \cup {i}) \X Int)
        BY <1>1 DEF ViewFits
      <4> QED
        BY <1>1, <2>4, <3>1, <4>1 DEF ViewFits
    <3> QED
      BY <2>1, <2>2, <2>3, <2>4, <2>7, <3>1, <3>2 DEF HandsInv
  <2> QED
    BY <2>1, <2>5, <2>6, <2>7 DEF attachCards
<1>8. ASSUME NEW i \in DOMAIN avatars, AvatarFails(i) PROVE HandsInv'
  <2>1. /\ avatars[i] = "loading" /\ avatars' = [avatars EXCEPT ![i] = "failed"]
        /\ UNCHANGED <<vars, view, entry, entrance, table_up>>
    BY <1>8 DEF AvatarFails, menuVars, practiceVars
  <2>2. ButtonNamed' /\ YOU' = YOU
    BY <1>1, <2>1 DEF ButtonNamed, vars, rosterVars, nextVars, YOU
  <2>3. ChairsKnown' /\ there' = there
    BY <1>1, <2>1, <2>2 DEF ChairsKnown, there
  <2> QED
    BY <1>1, <2>1, <2>2, <2>3 DEF HandsInv
<1>9. CASE entranceFrame
  <2>1. /\ entrance \in {"walk", "pull", "step", "sit", "eyes"} /\ entrance' \notin {"outside", "loading"}
        /\ UNCHANGED <<vars, view, entry, avatars, table_up>>
    BY <1>9 DEF entranceFrame, stages, menuVars, practiceVars
  <2>2. ButtonNamed' /\ YOU' = YOU
    BY <1>1, <2>1 DEF ButtonNamed, vars, rosterVars, nextVars, YOU
  <2>3. ChairsKnown'
    BY <1>1, <2>1, <2>2 DEF ChairsKnown
  <2> QED
    BY <1>1, <2>1, <2>2, <2>3 DEF HandsInv
<1>10. CASE sitDown
  <2> DEFINE v == [EmptyView EXCEPT !.hands = there]
  <2>1. /\ view' = update_view(v, emptyTable(YOU)) /\ entrance = "seated"
        /\ UNCHANGED <<vars, entry, avatars, entrance>>
    BY <1>10 DEF sitDown, menuVars, there
  <2>2. ViewFits(v) /\ v.hands = there
    <3>1. there \in SUBSET Seats
      BY <1>1 DEF there, ChairsKnown
    <3> QED
      BY <3>1 DEF EmptyView, ViewFits, ViewFields
  <2>3. emptyTable(YOU).dealer \in Int
    BY DEF emptyTable, NONE, Seats
  <2> HIDE DEF v
  <2>4. ViewFits(view') /\ view'.hands = there
    BY <2>1, <2>2, <2>3, Updated
  <2>5. ButtonNamed'
    BY <1>1, <2>1 DEF ButtonNamed, vars, rosterVars, nextVars
  <2> QED
    BY <1>3, <2>1, <2>4, <2>5 DEF HandsInv, there
<1>11. CASE Animate
  <2>1. PICK landed \in 1..Len(view.flights) : view' = animate(view, landed)
    BY <1>11 DEF Animate
  <2>2. UNCHANGED <<vars, avatars, entrance, table_up>>
    BY <1>11 DEF Animate, roomVars
  <2>3. /\ DOMAIN view' = ViewFields /\ view'.hands = view.hands
        /\ view'.flights = SubSeq(view.flights, landed + 1, Len(view.flights))
    BY <1>1, <2>1 DEF animate, ViewFits, ViewFields
  <2>4. view'.flights \in Seq(view.hands \X Int)
    <3>1. view.flights \in Seq(view.hands \X Int)
      BY <1>1 DEF ViewFits
    <3> HIDE DEF Seats
    <3>2. \A j \in landed + 1..Len(view.flights) : view.flights[j] \in view.hands \X Int
      BY <3>1
    <3> QED
      BY <2>3, <3>1, <3>2, SubSeqProperties
  <2>5. ButtonNamed'
    BY <1>1, <2>2 DEF ButtonNamed, vars, rosterVars, nextVars
  <2> QED
    BY <1>1, <1>3, <2>2, <2>3, <2>4, <2>5 DEF HandsInv, ViewFits, there
<1> QED
  <2>1. CASE AtMenu \/ Socket \/ UNCHANGED pageVars
    BY <1>4, <2>1 DEF AtMenu, Socket, pageVars, practiceVars
  <2> QED
    BY <1>5, <1>6, <1>7, <1>8, <1>9, <1>10, <1>11, <2>1 DEF RoomNext, RoomStep

\* Everyone in the room holds their own cards once there is a table, however late they
\* came and wherever the entrance, the deal and the frames are; cards fly to nobody else:
\* attachCards and sitDown of room.ts, deal of scene/table-view.ts.
THEOREM CardsInHand == RoomSpec => []EveryoneHoldsCards
<1>1. HandsInv => EveryoneHoldsCards
  <2> SUFFICES ASSUME HandsInv, table_up PROVE EveryoneHoldsCards
    BY DEF EveryoneHoldsCards
  <2>1. view.hands = there /\ view.flights \in Seq(view.hands \X Int)
    BY DEF HandsInv, ViewFits
  <2> QED
    BY <2>1 DEF EveryoneHoldsCards, there
<1> QED
  BY <1>1, EntryHolds, HandsInitially, HandsPreserved, PTL DEF RoomSpec

------------------------------------------------------------------------------
(* The Practice table: the contract it plays by, and where its chips go. *)

GameFields == {"at", "timer", "seat", "todo", "x", "nextX", "before", "won"}

\* The steps a referee runs of its own.
OwedStep ==
    {"post_key", "shuffle", "shares", "release", "show", "show_hand", "settle", "settle_abort",
     "post_next_key", "shuffle_next"}

\* What the controls hold is a number of chips, within a range or not.
ControlFits(c) ==
    /\ DOMAIN c = {"legal", "canShow", "raiseTo"} /\ c.raiseTo \in Int
    /\ DOMAIN c.legal = {"check", "call", "raise"}
    /\ c.legal.raise = <<>> \/ c.legal.raise \in Int \X Int

\* Players sit down in turn, and stay.
SeatsTaken ==
    IF game.at \in {"off", "joining"} THEN \E n \in 0..(Len(Names) - 1) : occupied = 0..(n - 1)
    ELSE occupied = at_table

PracticeOrder ==
    /\ phase # "aborted"
    /\ ControlFits(bar) /\ ControlFits(rail)
    /\ DOMAIN game = GameFields
    /\ game.seat \in Seats /\ game.todo \in Seq(OwedStep)
    /\ game.todo # <<>> => game.at \in {"driving", "thrown"} /\ game.seat \in at_table
    /\ game.timer # "none" => game.at = "waiting"
    /\ ~table_up => game.at = "off"
    /\ SeatsTaken

PracticeInv == ShareInv /\ PracticeOrder

paid_out(s) == payout(ledger_now, game.before, s)

\* Chips only go from a stack into the pot until the deal is over, and then all of the
\* pot has gone to players still in.
PotFollowed ==
    /\ offender = NONE
    /\ game.before \in [Seats -> Int]
    /\ phase # "done" => \A s \in Seats : stack[s] + total[s] = game.before[s]
    /\ phase = "done" =>
          /\ \A s \in Seats : paid_out(s) >= 0 /\ (s \notin live(folded) => paid_out(s) = 0)
          /\ sum_u([s \in Seats |-> paid_out(s)]) = sum_u(total)

WinnersShown ==
    /\ phase = "done" /\ game.won = outcome(ledger_now, game.before)
    /\ view.winners = game.won

PotInv ==
    /\ game.at \in {"driving", "waiting"} => PotFollowed
    /\ game.timer = "next" => WinnersShown

\* What a client owes is a list of those steps.
LEMMA StepsListed ==
    ASSUME NEW l, NEW s
    PROVE  deal_step(l, s) \in Seq(OwedStep) /\ prep_step(l, s) \in Seq(OwedStep)
<1> DEFINE some(q) == q = <<>> \/ \E x \in OwedStep : q = <<x>>
<1>1. some(deal_step(l, s))
  BY Zenon DEF deal_step, OwedStep
<1>2. some(prep_step(l, s))
  BY Zenon DEF prep_step, OwedStep
<1>3. ASSUME NEW q, some(q) PROVE q \in Seq(OwedStep)
  <2>1. <<>> \in Seq(OwedStep) /\ \A x \in OwedStep : <<x>> \in Seq(OwedStep)
    OBVIOUS
  <2> QED
    BY <1>3, <2>1
<1> HIDE DEF some
<1> QED
  BY <1>1, <1>2, <1>3

LEMMA OwedAreSteps ==
    ASSUME NEW l, NEW s
    PROVE  owed(l, s) \in Seq(OwedStep)
BY StepsListed, ConcatProperties DEF owed

LEMMA StepOwedIsOwed ==
    ASSUME NEW l, NEW s, deal_step(l, s) # <<>>
    PROVE  owed(l, s) # <<>>
<1>1. deal_step(l, s) \in Seq(OwedStep) /\ prep_step(l, s) \in Seq(OwedStep)
  BY StepsListed
<1>2. Len(deal_step(l, s)) # 0
  BY <1>1, EmptySeq
<1>3. Len(owed(l, s)) # 0
  BY <1>1, <1>2, ConcatProperties, LenProperties DEF owed
<1> QED
  BY <1>3

\* Seats taken in turn count themselves.
LEMMA CountFirst ==
    ASSUME NEW n \in 0..5
    PROVE  count_b(0..(n - 1)) = n /\ first_in(Seats \ 0..(n - 1)) = n
<1>1. count_b(0..(n - 1)) = n
  BY DEF count_b, sum_u, Seats
<1>2. first_in(Seats \ 0..(n - 1)) = n
  <2> DEFINE v == Seats \ 0..(n - 1)
  <2>1. v \in SUBSET Seats /\ n \in v /\ \A k \in v : n <= k /\ k \in Int
    BY DEF Seats
  <2> HIDE DEF v
  <2>2. first_in(v) \in v /\ first_in(v) <= n
    BY <2>1, FirstIn
  <2>3. first_in(v) \in Int /\ n <= first_in(v)
    BY <2>1, <2>2
  <2>4. first_in(v) = n
    BY <2>2, <2>3
  <2> QED
    BY <2>4 DEF v
<1> QED
  BY <1>1, <1>2

\* The numbers a client reads its legal actions from.
ReadsChips(l) ==
    /\ l.stack \in [Seats -> Nat] /\ l.bet \in [Seats -> Nat]
    /\ l.current_bet \in Nat /\ l.min_raise \in Nat /\ l.big_blind \in Nat

LEMMA LedgerReads == ASSUME TypeInv PROVE ReadsChips(ledger_now)
BY StakesAssumption DEF TypeInv, TypeOK, MoneyTypes, StreetTypes, ReadsChips, ledger_now

LEMMA LedgerReadsNext == ASSUME TypeInv' PROVE ReadsChips(ledger_now')
BY StakesAssumption DEF TypeInv, TypeOK, MoneyTypes, StreetTypes, ReadsChips, ledger_now

\* The range of a raise is one of chips.
LEMMA LegalFits ==
    ASSUME NEW l, ReadsChips(l), NEW s \in Seats
    PROVE  /\ DOMAIN legal(l, s) = {"check", "call", "raise"}
           /\ legal(l, s).raise = <<>> \/ legal(l, s).raise \in Int \X Int
<1> DEFINE max == l.bet[s] + l.stack[s]
           by == IF l.current_bet = 0 THEN l.big_blind ELSE l.current_bet + l.min_raise
<1>1. max \in Int /\ by \in Int
  BY DEF ReadsChips
<1>2. min_u(max, by) \in Int
  BY <1>1, MinU
<1>3. /\ DOMAIN legal(l, s) = {"check", "call", "raise"}
      /\ legal(l, s).raise = <<>> \/ legal(l, s).raise = <<min_u(max, by), max>>
  BY DEF legal, NoLegal
<1> HIDE DEF max, by
<1>4. <<min_u(max, by), max>> \in Int \X Int
  BY <1>1, <1>2
<1> QED
  BY <1>3, <1>4

\* A publication leaves the controls with numbers of chips.
LEMMA ControlUpdated ==
    ASSUME NEW c, ControlFits(c), NEW g, DOMAIN g = {"check", "call", "raise"},
           g.raise = <<>> \/ g.raise \in Int \X Int, NEW can
    PROVE  ControlFits(update(c, g, can))
<1> DEFINE u == update(c, g, can)
<1>1. /\ DOMAIN u = {"legal", "canShow", "raiseTo"} /\ u.legal = g
      /\ u.raiseTo \in {c.raiseTo, 0} \/ (g.raise # <<>> /\ u.raiseTo = g.raise[1])
  BY DEF update
<1>2. u.raiseTo \in Int
  BY <1>1 DEF ControlFits
<1> HIDE DEF u
<1> QED
  BY <1>1, <1>2 DEF ControlFits, u

LEMMA PublishedControls ==
    ASSUME ControlFits(bar), ControlFits(rail), NEW l, ReadsChips(l), NEW won, publish(l, won)
    PROVE  ControlFits(bar') /\ ControlFits(rail')
<1>1. \E can : bar' = update(bar, legal(l, you), can) /\ rail' = update(rail, legal(l, you), can)
  BY DEF publish, tableFrom, rail_update
<1>2. you \in Seats
  BY DEF you, Seats
<1> QED
  BY <1>1, <1>2, LegalFits, ControlUpdated

\* So do the arrows.
LEMMA Arrows ==
    ASSUME NEW c, ControlFits(c), NEW dir \in {1, -1}
    PROVE  /\ ControlFits(bar_step(c, dir, BIG_BLIND))
           /\ ControlFits(rail_step(c, dir, BIG_BLIND))
<1>1. CASE c.legal.raise = <<>>
  BY <1>1 DEF bar_step, rail_step
<1>2. CASE c.legal.raise # <<>>
  <2> DEFINE r == c.legal.raise
  <2>1. r[1] \in Int /\ r[2] \in Int /\ c.raiseTo \in Int /\ BIG_BLIND \in Int /\ dir * BIG_BLIND \in Int
    BY <1>2, StakesAssumption DEF ControlFits
  <2>2. \A a, b \in Int : min_u(a, b) \in Int /\ max_u(a, b) \in Int
    BY DEF min_u, max_u
  <2>3. c.raiseTo + dir * BIG_BLIND \in Int
    BY <2>1
  <2> HIDE DEF r
  <2>4. stepped(c.raiseTo, r, dir, BIG_BLIND) \in Int
    BY <2>1, <2>2, <2>3 DEF stepped
  <2>5. max_u(r[1], min_u(r[2], c.raiseTo + dir * BIG_BLIND)) \in Int
    BY <2>1, <2>2, <2>3
  <2>6. \E a, b \in Int : /\ bar_step(c, dir, BIG_BLIND) = [c EXCEPT !.raiseTo = a]
                          /\ rail_step(c, dir, BIG_BLIND) = [c EXCEPT !.raiseTo = b]
    BY <1>2, <2>1, <2>4, <2>5 DEF bar_step, rail_step, r
  <2> QED
    BY <2>6 DEF ControlFits
<1> QED
  BY <1>1, <1>2

\* What the buttons send names a whole number of chips.
LEMMA PressedFits ==
    ASSUME NEW c, ControlFits(c), NEW b \in buttons(c)
    PROVE  b[2] \in Int
BY DEF buttons, ControlFits

\* What a bot sends does too.
LEMMA BotFits ==
    ASSUME NEW l, ReadsChips(l), NEW s, s \in Seats \/ legal(l, s) = NoLegal,
           NEW b \in botAction(legal(l, s))
    PROVE  b[2] \in Int
<1>1. legal(l, s).raise = <<>> \/ legal(l, s).raise \in Int \X Int
  BY LegalFits DEF NoLegal
<1> DEFINE g == legal(l, s)
<1> HIDE DEF g
<1>2. g.raise = <<>> \/ g.raise \in Int \X Int
  BY <1>1 DEF g
<1>3. b \in botAction(g)
  BY DEF g
<1>4. CASE g.raise = <<>>
  BY <1>3, <1>4 DEF botAction
<1>5. CASE g.raise \in Int \X Int /\ g.raise # <<>>
  <2>1. g.raise[2] \in Int
    BY <1>5
  <2>2. b[2] \in {0, g.raise[2]} \/ b[2] \in g.raise[1]..(g.raise[1] + (g.raise[2] - g.raise[1] + 1) \div 4)
    BY <1>3, <1>5 DEF botAction
  <2> QED
    BY <2>1, <2>2
<1> QED
  BY <1>2, <1>4, <1>5

BetFits(b) == b.kind \in Kinds /\ b.to \in IF b.kind = 2 THEN Nat ELSE {0}

\* A decision is a bet of the seat to act, or refused; then the referee drives on.
LEMMA Performs ==
    ASSUME ShareInv, NEW s, NEW type, NEW to \in Int, perform(s, type, to)
    PROVE  /\ \/ UNCHANGED vars
              \/ /\ phase = "playing" /\ s = to_act /\ s \in in_deal /\ seat_owner[s] \in Players
                 /\ \E b : BetFits(b) /\ call_bet(seat_owner[s], s, b, time)
           /\ \/ game.at = "driving" /\ game' = game
              \/ /\ game.at # "driving"
                 /\ game' = [game EXCEPT !.at = "driving", !.timer = "none", !.seat = 5]
              \/ game' = [game EXCEPT !.at = "thrown", !.timer = "none"]
<1> DEFINE b == actionStep(ledger_now, s, type, to)
<1>1. /\ UNCHANGED vars \/ call_bet(seat_owner[s], s, b, time)
      /\ \/ game.at = "driving" /\ game' = game
         \/ /\ game.at # "driving"
            /\ game' = [game EXCEPT !.at = "driving", !.timer = "none", !.seat = 5]
         \/ game' = [game EXCEPT !.at = "thrown", !.timer = "none"]
  BY DEF perform
<1>2. b.kind \in Kinds /\ b.to = IF b.kind = 2 THEN to ELSE 0
  BY DEF actionStep, Kinds
<1> HIDE DEF b
<1>3. ASSUME call_bet(seat_owner[s], s, b, time)
      PROVE  /\ phase = "playing" /\ s = to_act /\ s \in in_deal /\ seat_owner[s] \in Players
             /\ BetFits(b)
  <2>1. phase = "playing" /\ s = to_act /\ legal_action(s, b.kind, b.to)
    BY <1>3 DEF call_bet, act, act_asserts, act_out, act_out_asserts, act_check
  <2>2. s \in in_deal /\ in_deal \subseteq occupied /\ TypeInv
    BY <2>1 DEF ShareInv, BettingInv, BettingOrder, TurnInOrder, TurnPhases, actors, CustodyInv,
                BooksInv, SeatsHeldDuringDeal, dealing
  <2>3. s \in Seats /\ seat_owner[s] \in Players
    BY <2>2 DEF occupied, TypeInv, TypeOK, SeatTypes
  <2>4. b.kind = 2 => to \in Nat
    <3>1. /\ bet[s] \in Nat /\ stack[s] \in Nat /\ current_bet \in Nat /\ min_raise \in Nat
          /\ BIG_BLIND \in Nat
      BY <2>2, <2>3, StakesAssumption DEF TypeInv, TypeOK, MoneyTypes, StreetTypes
    <3>2. ASSUME b.kind = 2 PROVE to \in Nat
      <4> DEFINE least == min_u(IF current_bet = 0 THEN BIG_BLIND ELSE current_bet + min_raise,
                                bet[s] + stack[s])
      <4>1. to >= least
        BY <1>2, <2>1, <3>2 DEF legal_action
      <4>2. least \in Nat
        BY <3>1 DEF min_u
      <4> HIDE DEF least
      <4> QED
        BY <4>1, <4>2
    <3> QED
      BY <3>2
  <2> QED
    BY <1>2, <2>1, <2>2, <2>3, <2>4 DEF BetFits
<1> QED
  BY <1>1, <1>3

\* What a referee calls while the table is full is a call of the contract.
LEMMA DealGoesOn ==
    ASSUME PracticeInv, Nat \subseteq Amounts, NEW p \in Players, NEW s \in Seats, NEW step, NEW b,
           \/ step \in OwedStep \cup {"start_deal"} /\ call_step(p, s, step, time)
           \/ step = "bet" /\ BetFits(b) /\ call_bet(p, s, b, time)
    PROVE  Next /\ ShareInv' /\ phase' # "aborted" /\ occupied' = occupied
<1>1. DeckInv /\ phase \in Phase \ {"aborted"} /\ time \in Times
  BY DEF PracticeInv, PracticeOrder, ShareInv, DeckInv, PrepInv, TypeInv, TypeOK, StageTypes, ClockTypes
<1>2. Next
  <2>1. BetFits(b) => b.kind \in Kinds /\ b.to \in IF b.kind = 2 THEN Amounts ELSE {0}
    BY DEF BetFits
  <2> QED
    BY <1>1, <2>1, StepsAreCalls, BetsAreCalls
<1>3. ShareInv'
  BY <1>2, SharePreserved DEF PracticeInv
<1>4. seat_owner' = seat_owner /\ phase' # "aborted"
  BY <1>1, ChainMoves DEF Phase
<1> QED
  BY <1>2, <1>3, <1>4 DEF occupied

\* Seats change only while players join.
LEMMA SeatsStay ==
    ASSUME PracticeOrder, occupied' = occupied, game.at \notin {"off", "joining"},
           game'.at \notin {"off", "joining"}
    PROVE  SeatsTaken'
BY DEF PracticeOrder, SeatsTaken

\* A seat at the table is a player's.
LEMMA AtTable ==
    ASSUME PracticeInv, game.at \notin {"off", "joining"}, NEW s \in at_table
    PROVE  s \in Seats /\ seat_owner[s] \in Players
<1>1. s \in occupied
  BY DEF PracticeInv, PracticeOrder, SeatsTaken
<1> QED
  BY <1>1 DEF occupied, PracticeInv, ShareInv, DeckInv, PrepInv, TypeInv, TypeOK, SeatTypes

LEMMA TableSeats == at_table \in SUBSET Seats /\ you \in at_table
<1>1. Len(Names) \in 2..6
  BY NamesAssumption
<1>2. \A n \in 2..6 : 0..(n - 1) \in SUBSET Seats /\ 0 \in 0..(n - 1)
  BY DEF Seats
<1> QED
  BY <1>1, <1>2 DEF at_table, you

\* Players join in turn.
LEMMA JoinKeeps ==
    ASSUME PracticeInv, Nat \subseteq Amounts, Join, UNCHANGED table_up
    PROVE  Next /\ PracticeInv'
<1>1. PICK m \in 0..(Len(Names) - 1) : occupied = 0..(m - 1)
  BY DEF Join, PracticeInv, PracticeOrder, SeatsTaken
<1>2. Len(Names) \in 2..6 /\ Names \in Seq(Players) /\ m \in 0..5
  <2>1. Len(Names) \in 2..6 /\ Names \in Seq(Players)
    BY NamesAssumption
  <2>2. \A n \in 2..6 : 0..(n - 1) \subseteq 0..5
    OBVIOUS
  <2> QED
    BY <2>1, <2>2
<1>3. count_b(occupied) = m /\ first_in(Seats \ occupied) = m
  BY <1>1, <1>2, CountFirst
<1>4. Names[m + 1] \in Players /\ MAX_BUY_IN \in Amounts
  BY <1>2, StakesAssumption
<1>5. join(Names[m + 1], MAX_BUY_IN)
  BY <1>3 DEF Join
<1>6. Next
  BY <1>4, <1>5 DEF Next, Call, SeatCall
<1>7. ShareInv'
  BY <1>6, SharePreserved DEF PracticeInv
<1>8. TypeInv /\ TypeInv'
  BY <1>7 DEF PracticeInv, ShareInv, DeckInv, PrepInv
<1>9. phase' # "aborted"
  BY <1>5 DEF join, stageVars, PracticeInv, PracticeOrder
<1>10. occupied' = 0..m
  <2>1. seat_owner \in [Seats -> Players \cup {NoPlayer}] /\ seat_owner' = [seat_owner EXCEPT ![m] = Names[m + 1]]
    BY <1>3, <1>5, <1>8 DEF join, TypeInv, TypeOK, SeatTypes
  <2>2. m \in Seats /\ Names[m + 1] # NoPlayer
    BY <1>2, <1>4, PlayersAssumption DEF Seats
  <2>3. occupied' = occupied \cup {m}
    BY <2>1, <2>2 DEF occupied
  <2> QED
    BY <1>1, <1>2, <2>3
<1>11. /\ game.at = "joining" /\ DOMAIN game = GameFields
       /\ game' = [game EXCEPT !.at = IF m + 1 = Len(Names) THEN "buying" ELSE @]
  BY <1>3 DEF Join, PracticeInv, PracticeOrder
<1>12. SeatsTaken'
  <2>1. CASE m + 1 = Len(Names)
    <3>1. game'.at = "buying" /\ at_table = 0..m
      BY <1>2, <1>11, <2>1 DEF at_table, GameFields
    <3> QED
      BY <1>10, <3>1 DEF SeatsTaken
  <2>2. CASE m + 1 # Len(Names)
    <3>1. game'.at = "joining" /\ m + 1 \in 0..(Len(Names) - 1) /\ 0..m = 0..((m + 1) - 1)
      BY <1>2, <1>11, <2>2 DEF GameFields
    <3> QED
      BY <1>10, <3>1 DEF SeatsTaken
  <2> QED
    BY <2>1, <2>2
<1>13. ControlFits(bar') /\ ControlFits(rail')
  <2>1. ReadsChips(ledger_now')
    BY <1>8, LedgerReadsNext
  <2>2. ControlFits(bar) /\ ControlFits(rail)
    BY DEF PracticeInv, PracticeOrder
  <2> QED
    BY <2>1, <2>2, PublishedControls DEF Join
<1>14. /\ DOMAIN game' = GameFields /\ game'.seat = game.seat /\ game'.todo = game.todo
       /\ game'.timer = game.timer /\ game.todo = <<>> /\ game.timer = "none"
  BY <1>11 DEF PracticeInv, PracticeOrder, GameFields
<1>15. PracticeOrder'
  BY <1>9, <1>11, <1>12, <1>13, <1>14 DEF PracticeInv, PracticeOrder
<1> QED
  BY <1>6, <1>7, <1>15 DEF PracticeInv

\* A player buys back in.
LEMMA BuyBackKeeps ==
    ASSUME PracticeInv, Nat \subseteq Amounts, BuyBack, UNCHANGED table_up
    PROVE  Next /\ PracticeInv'
<1>1. /\ game.at = "buying" /\ UNCHANGED <<game, bar, rail>>
      /\ buy_in(seat_owner[first_in(under_minimum)], first_in(under_minimum), MAX_BUY_IN - stack[first_in(under_minimum)])
      /\ under_minimum # {}
  BY DEF BuyBack
<1>2. PICK s \in at_table : s \in Seats /\ buy_in(seat_owner[s], s, MAX_BUY_IN - stack[s])
  <2>1. under_minimum \in SUBSET Seats /\ under_minimum \subseteq at_table
    BY TableSeats DEF under_minimum
  <2> QED
    BY <1>1, <2>1, FirstIn
<1>3. seat_owner[s] \in Players /\ TypeInv
  BY <1>1, AtTable DEF PracticeInv, ShareInv, DeckInv, PrepInv
<1>4. MAX_BUY_IN - stack[s] \in Amounts
  <2>1. MAX_BUY_IN - stack[s] \in Int /\ 0 < MAX_BUY_IN - stack[s]
    BY <1>2, <1>3, StakesAssumption DEF buy_in, TypeInv, TypeOK, MoneyTypes
  <2> QED
    BY <2>1
<1>5. Next
  BY <1>2, <1>3, <1>4 DEF Next, Call, SeatCall
<1>6. ShareInv'
  BY <1>5, SharePreserved DEF PracticeInv
<1>7. phase' = phase /\ occupied' = occupied
  BY <1>2 DEF buy_in, stageVars, seatVars, occupied
<1>8. PracticeOrder'
  BY <1>1, <1>7 DEF PracticeInv, PracticeOrder, SeatsTaken
<1> QED
  BY <1>5, <1>6, <1>8 DEF PracticeInv

\* A deal starts, or there is nobody to play it.
LEMMA StartDealKeeps ==
    ASSUME PracticeInv, Nat \subseteq Amounts, StartDeal, UNCHANGED table_up
    PROVE  [Next]_vars /\ PracticeInv'
<1>1. game.at = "buying" /\ game.todo = <<>> /\ game.timer = "none" /\ DOMAIN game = GameFields
  BY DEF StartDeal, PracticeInv, PracticeOrder
<1>2. CASE start_deal(time) /\ UNCHANGED <<bar, rail>>
           /\ \E before, x, nextX : game' = [game EXCEPT !.at = "driving", !.seat = 5, !.before = before,
                                                         !.won = {}, !.x = x, !.nextX = nextX]
  <2>1. seat_owner[you] \in Players /\ you \in Seats
    BY <1>1, AtTable, TableSeats
  <2>2. call_step(seat_owner[you], you, "start_deal", time)
    BY <1>2 DEF call_step
  <2>3. Next /\ ShareInv' /\ phase' # "aborted" /\ occupied' = occupied
    BY <2>1, <2>2, DealGoesOn
  <2>4. /\ DOMAIN game' = GameFields /\ game'.at = "driving" /\ game'.seat = 5
        /\ game'.todo = game.todo /\ game'.timer = game.timer
    BY <1>1, <1>2 DEF GameFields
  <2>5. SeatsTaken'
    BY <1>1, <2>3, <2>4, SeatsStay DEF PracticeInv
  <2>6. ControlFits(bar') /\ ControlFits(rail')
    BY <1>2 DEF PracticeInv, PracticeOrder
  <2>7. PracticeOrder'
    BY <1>1, <2>3, <2>4, <2>5, <2>6 DEF PracticeInv, PracticeOrder, Seats
  <2> QED
    BY <2>3, <2>7 DEF PracticeInv
<1>3. CASE /\ game' = [game EXCEPT !.at = "over"] /\ publish(ledger_now, {})
           /\ UNCHANGED vars
  <2>1. ShareInv' /\ TypeInv
    BY <1>3, SharePreserved DEF PracticeInv, ShareInv, DeckInv, PrepInv
  <2>2. phase' = phase /\ occupied' = occupied
    BY <1>3 DEF vars, stageVars, seatVars, occupied
  <2>3. /\ DOMAIN game' = GameFields /\ game'.at = "over" /\ game'.seat = game.seat
        /\ game'.todo = game.todo /\ game'.timer = game.timer
    BY <1>1, <1>3 DEF GameFields
  <2>4. ControlFits(bar') /\ ControlFits(rail')
    BY <1>3, <2>1, LedgerReads, PublishedControls DEF PracticeInv, PracticeOrder
  <2>5. SeatsTaken'
    BY <1>1, <2>2, <2>3, SeatsStay DEF PracticeInv
  <2>6. PracticeOrder'
    BY <1>1, <2>2, <2>3, <2>4, <2>5 DEF PracticeInv, PracticeOrder
  <2> QED
    BY <1>3, <2>1, <2>6 DEF PracticeInv
<1> QED
  <2>1. \/ start_deal(time) /\ UNCHANGED <<bar, rail>>
           /\ \E before, x, nextX : game' = [game EXCEPT !.at = "driving", !.seat = 5, !.before = before,
                                                         !.won = {}, !.x = x, !.nextX = nextX]
        \/ /\ game' = [game EXCEPT !.at = "over"] /\ publish(ledger_now, {})
           /\ UNCHANGED vars
    <3>1. CASE start_deal_asserts(time)
      <4>1. PICK was_prepared \in BOOLEAN :
                game' = [game EXCEPT !.at = "driving", !.seat = 5, !.before = stacks_before, !.won = {},
                                     !.x = [s \in Seats |-> rotate(s, was_prepared).x],
                                     !.nextX = [s \in Seats |-> rotate(s, was_prepared).nextX]]
        BY <3>1 DEF StartDeal
      <4>2. start_deal(time) /\ UNCHANGED <<bar, rail>>
        BY <3>1 DEF StartDeal
      <4> QED
        BY <4>1, <4>2
    <3>2. CASE ~start_deal_asserts(time)
      BY <3>2 DEF StartDeal
    <3> QED
      BY <3>1, <3>2
  <2> QED
    BY <1>2, <1>3, <2>1

\* The step that runs is owed by somebody at the table.
LEMMA DriveRuns ==
    ASSUME PracticeInv, Drive
    PROVE  \E s \in at_table, step \in OwedStep, rest \in Seq(OwedStep) : Run(s, step, rest)
<1>1. game.seat \in Seats /\ game.todo \in Seq(OwedStep) /\ (game.todo # <<>> => game.seat \in at_table)
  BY DEF PracticeInv, PracticeOrder
<1>2. CASE game.todo # <<>>
  <2>1. Head(game.todo) \in OwedStep /\ Tail(game.todo) \in Seq(OwedStep)
    BY <1>1, <1>2, HeadTailProperties
  <2>2. Run(game.seat, Head(game.todo), Tail(game.todo))
    BY <1>2 DEF Drive
  <2> QED
    BY <1>1, <1>2, <2>1, <2>2
<1>3. CASE game.todo = <<>>
  <2>1. owing_seats # {} /\ owing_seats \in SUBSET Seats /\ game.seat \in Int
    <3>1. owing_seats # {}
      BY <1>3 DEF Drive
    <3>2. owing_seats \in SUBSET Seats
      BY TableSeats DEF owing_seats
    <3>3. game.seat \in Int
      BY <1>1 DEF Seats
    <3> QED
      BY <3>1, <3>2, <3>3
  <2>2. PICK s \in owing_seats : Run(s, Head(owed(ledger_now, s)), Tail(owed(ledger_now, s)))
    <3>1. first_clockwise(game.seat, owing_seats) \in owing_seats
      BY <2>1, FirstClockwise
    <3> QED
      BY <1>3, <3>1 DEF Drive
  <2>3. s \in at_table /\ owed(ledger_now, s) # <<>> /\ owed(ledger_now, s) \in Seq(OwedStep)
    BY OwedAreSteps DEF owing_seats
  <2>4. Head(owed(ledger_now, s)) \in OwedStep /\ Tail(owed(ledger_now, s)) \in Seq(OwedStep)
    BY <2>3, HeadTailProperties
  <2> QED
    BY <2>2, <2>3, <2>4
<1> QED
  BY <1>2, <1>3

\* What a run does to the game: it has called the step, or it has thrown.
LEMMA RunDoes ==
    ASSUME NEW s \in at_table, NEW step \in OwedStep, NEW rest \in Seq(OwedStep), Run(s, step, rest)
    PROVE  /\ publish(ledger_now, game.won)
           /\ \/ /\ call_step(seat_owner[s], s, step, time)
                 /\ \E x : game' = [game EXCEPT !.seat = s, !.todo = rest, !.x = x]
              \/ UNCHANGED vars /\ game' = [game EXCEPT !.at = "thrown"]
<1> DEFINE drawn == IF step = "post_key" THEN fresh(s, {}) ELSE game.x[s]
<1>1. \/ /\ call_step(seat_owner[s], s, step, time)
         /\ game' = [game EXCEPT !.seat = s, !.todo = rest, !.x[s] = drawn]
      \/ UNCHANGED vars /\ game' = [game EXCEPT !.at = "thrown"]
  BY Zenon DEF Run
<1>2. [game EXCEPT !.seat = s, !.todo = rest, !.x[s] = drawn]
          = [game EXCEPT !.seat = s, !.todo = rest, !.x = [@ EXCEPT ![s] = drawn]]
  OBVIOUS
<1> QED
  BY <1>1, <1>2 DEF Run

LEMMA DriveKeeps ==
    ASSUME PracticeInv, Nat \subseteq Amounts, Drive, UNCHANGED table_up
    PROVE  [Next]_vars /\ PracticeInv'
<1>1. game.at = "driving" /\ game.timer = "none" /\ DOMAIN game = GameFields
  BY DEF Drive, PracticeInv, PracticeOrder
<1>2. PICK s \in at_table, step \in OwedStep, rest \in Seq(OwedStep) : Run(s, step, rest)
  BY DriveRuns
<1>3. ControlFits(bar') /\ ControlFits(rail')
  <2>1. publish(ledger_now, game.won) /\ ReadsChips(ledger_now)
    BY <1>2, RunDoes, LedgerReads DEF PracticeInv, ShareInv, DeckInv, PrepInv
  <2> QED
    BY <2>1, PublishedControls DEF PracticeInv, PracticeOrder
<1>4. CASE /\ call_step(seat_owner[s], s, step, time)
           /\ \E x : game' = [game EXCEPT !.seat = s, !.todo = rest, !.x = x]
  <2>1. seat_owner[s] \in Players /\ s \in Seats
    BY <1>1, AtTable
  <2>2. Next /\ ShareInv' /\ phase' # "aborted" /\ occupied' = occupied
    BY <1>4, <2>1, DealGoesOn
  <2>3. /\ DOMAIN game' = GameFields /\ game'.at = "driving" /\ game'.seat = s
        /\ game'.todo = rest /\ game'.timer = "none"
    BY <1>1, <1>4 DEF GameFields
  <2>4. SeatsTaken'
    BY <1>1, <2>2, <2>3, SeatsStay DEF PracticeInv
  <2>5. PracticeOrder'
    BY <1>1, <1>3, <2>1, <2>2, <2>3, <2>4 DEF PracticeInv, PracticeOrder
  <2> QED
    BY <2>2, <2>5 DEF PracticeInv
<1>5. CASE UNCHANGED vars /\ game' = [game EXCEPT !.at = "thrown"]
  <2>1. ShareInv'
    BY <1>5, SharePreserved DEF PracticeInv
  <2>2. phase' = phase /\ occupied' = occupied
    BY <1>5 DEF vars, stageVars, seatVars, occupied
  <2>3. /\ DOMAIN game' = GameFields /\ game'.at = "thrown" /\ game'.seat = game.seat
        /\ game'.todo = game.todo /\ game'.timer = "none"
    BY <1>1, <1>5 DEF GameFields
  <2>4. SeatsTaken'
    BY <1>1, <2>2, <2>3, SeatsStay DEF PracticeInv
  <2>5. PracticeOrder'
    BY <1>1, <1>3, <2>2, <2>3, <2>4 DEF PracticeInv, PracticeOrder
  <2> QED
    BY <1>5, <2>1, <2>5 DEF PracticeInv
<1> QED
  BY <1>2, <1>4, <1>5, RunDoes

\* Nothing is owed: a timer is set.
LEMMA DecideKeeps ==
    ASSUME PracticeInv, Decide, UNCHANGED table_up
    PROVE  UNCHANGED vars /\ PracticeInv'
<1>1. PICK won : game' = [game EXCEPT !.at = "waiting", !.timer = timer_for, !.won = won]
                 /\ publish(ledger_now, won)
  BY DEF Decide
<1>2. UNCHANGED vars /\ game.at = "driving" /\ game.todo = <<>> /\ DOMAIN game = GameFields
  BY DEF Decide, PracticeInv, PracticeOrder
<1>3. ShareInv' /\ TypeInv
  BY <1>2, SharePreserved DEF PracticeInv, ShareInv, DeckInv, PrepInv
<1>4. phase' = phase /\ occupied' = occupied
  BY <1>2 DEF vars, stageVars, seatVars, occupied
<1>5. /\ DOMAIN game' = GameFields /\ game'.at = "waiting" /\ game'.seat = game.seat
      /\ game'.todo = <<>>
  BY <1>1, <1>2 DEF GameFields
<1>6. ControlFits(bar') /\ ControlFits(rail')
  BY <1>1, <1>3, LedgerReads, PublishedControls DEF PracticeInv, PracticeOrder
<1>7. SeatsTaken'
  BY <1>2, <1>4, <1>5, SeatsStay DEF PracticeInv
<1>8. PracticeOrder'
  BY <1>2, <1>4, <1>5, <1>6, <1>7 DEF PracticeInv, PracticeOrder
<1> QED
  BY <1>2, <1>3, <1>8 DEF PracticeInv

\* Somebody decides.
LEMMA PerformKeeps ==
    ASSUME PracticeInv, Nat \subseteq Amounts, NEW s, NEW type, NEW to \in Int, perform(s, type, to),
           game.at \in {"driving", "waiting"}, UNCHANGED <<bar, rail, table_up>>
    PROVE  [Next]_vars /\ PracticeInv'
<1>1. \/ UNCHANGED vars
      \/ s \in in_deal /\ seat_owner[s] \in Players /\ \E b : BetFits(b) /\ call_bet(seat_owner[s], s, b, time)
  BY Performs DEF PracticeInv
<1>2. [Next]_vars /\ ShareInv' /\ phase' # "aborted" /\ occupied' = occupied
  <2>1. CASE UNCHANGED vars
    <3>1. phase' = phase /\ occupied' = occupied
      BY <2>1 DEF vars, stageVars, seatVars, occupied
    <3> QED
      BY <2>1, <3>1, SharePreserved DEF PracticeInv, PracticeOrder
  <2>2. ASSUME s \in in_deal, seat_owner[s] \in Players,
               NEW b, BetFits(b), call_bet(seat_owner[s], s, b, time)
        PROVE  Next /\ ShareInv' /\ phase' # "aborted" /\ occupied' = occupied
    <3>1. s \in Seats
      BY <2>2 DEF PracticeInv, ShareInv, DeckInv, PrepInv, TypeInv, TypeOK, RosterTypes
    <3> QED
      BY <2>2, <3>1, DealGoesOn
  <2> QED
    BY <1>1, <2>1, <2>2
<1>3. DOMAIN game = GameFields
  BY DEF PracticeInv, PracticeOrder
<1>4. \/ game' = game
      \/ game.at # "driving" /\ game' = [game EXCEPT !.at = "driving", !.timer = "none", !.seat = 5]
      \/ game' = [game EXCEPT !.at = "thrown", !.timer = "none"]
  BY Performs DEF PracticeInv
<1>5. /\ DOMAIN game' = GameFields /\ game'.todo = game.todo
      /\ \/ game' = game
         \/ game.at = "waiting" /\ game'.at = "driving" /\ game'.timer = "none" /\ game'.seat = 5
         \/ game'.at = "thrown" /\ game'.timer = "none" /\ game'.seat = game.seat
  BY <1>3, <1>4 DEF GameFields
<1>6. game'.at \in {"driving", "waiting", "thrown"}
  BY <1>5
<1>7. SeatsTaken'
  BY <1>2, <1>6, SeatsStay DEF PracticeInv
<1>8. game'.seat \in Seats /\ (game'.todo # <<>> => game'.at \in {"driving", "thrown"} /\ game'.seat \in at_table)
  BY <1>5 DEF PracticeInv, PracticeOrder, Seats
<1>9. PracticeOrder'
  BY <1>2, <1>5, <1>6, <1>7, <1>8 DEF PracticeInv, PracticeOrder
<1> QED
  BY <1>2, <1>9 DEF PracticeInv

\* The player, a timer and a bot decide on whole numbers of chips.
LEMMA DecisionPerforms ==
    ASSUME PracticeInv, AutoFold \/ BotActs \/ Act(buttons(bar)) \/ Act(rail_buttons(rail))
    PROVE  /\ UNCHANGED <<bar, rail>> /\ game.at \in {"driving", "waiting"}
           /\ \E s, type : \E to \in Int : perform(s, type, to)
<1>1. UNCHANGED <<bar, rail>> /\ game.at \in {"driving", "waiting"}
  BY DEF AutoFold, BotActs, Act, PracticeInv, PracticeOrder
<1>2. CASE AutoFold
  <2>1. perform(you, IF legal(ledger_now, you).check THEN "check" ELSE "fold", 0)
    BY <1>2 DEF AutoFold
  <2> QED
    BY <1>1, <2>1
<1>3. CASE BotActs
  <2>1. PICK b \in botAction(legal(ledger_now, to_act)) : perform(to_act, b[1], b[2])
    BY <1>3 DEF BotActs
  <2>2. ReadsChips(ledger_now) /\ to_act \in Seats \cup {NONE}
    BY LedgerReads DEF PracticeInv, ShareInv, DeckInv, PrepInv, TypeInv, TypeOK, StageTypes
  <2>3. to_act = NONE => legal(ledger_now, to_act) = NoLegal
    BY DEF legal, ledger_now, PracticeInv, ShareInv, BettingInv, BettingOrder, TurnPhases
  <2>4. b[2] \in Int
    BY <2>1, <2>2, <2>3, BotFits
  <2> QED
    BY <1>1, <2>1, <2>4
<1>4. CASE Act(buttons(bar))
  BY <1>1, <1>4, PressedFits DEF Act, PracticeInv, PracticeOrder
<1>5. CASE Act(rail_buttons(rail))
  BY <1>1, <1>5, PressedFits DEF Act, rail_buttons, PracticeInv, PracticeOrder
<1> QED
  BY <1>2, <1>3, <1>4, <1>5

LEMMA DecisionKeeps ==
    ASSUME PracticeInv, Nat \subseteq Amounts, UNCHANGED table_up,
           AutoFold \/ BotActs \/ Act(buttons(bar)) \/ Act(rail_buttons(rail))
    PROVE  [Next]_vars /\ PracticeInv'
BY DecisionPerforms, PerformKeeps

\* The next deal comes, you show your cards, or step the amount.
LEMMA QuietKeeps ==
    ASSUME PracticeInv, NextDeal \/ StepAmount, UNCHANGED table_up
    PROVE  UNCHANGED vars /\ PracticeInv'
<1>1. UNCHANGED vars
  BY DEF NextDeal, StepAmount
<1>2. ShareInv'
  BY <1>1, SharePreserved DEF PracticeInv
<1>3. phase' = phase /\ occupied' = occupied
  BY <1>1 DEF vars, stageVars, seatVars, occupied
<1>4. CASE NextDeal
  <2>1. game' = [game EXCEPT !.at = "buying", !.timer = "none"] /\ game.timer = "next" /\ UNCHANGED <<bar, rail>>
    BY <1>4 DEF NextDeal
  <2>2. game.at = "waiting" /\ game.todo = <<>> /\ DOMAIN game = GameFields
    BY <2>1 DEF PracticeInv, PracticeOrder
  <2>3. /\ DOMAIN game' = GameFields /\ game'.at = "buying" /\ game'.timer = "none"
        /\ game'.seat = game.seat /\ game'.todo = <<>>
    BY <2>1, <2>2 DEF GameFields
  <2>4. SeatsTaken'
    BY <1>3, <2>2, <2>3, SeatsStay DEF PracticeInv
  <2>5. PracticeOrder'
    BY <1>3, <2>1, <2>2, <2>3, <2>4 DEF PracticeInv, PracticeOrder
  <2> QED
    BY <1>1, <1>2, <2>5 DEF PracticeInv
<1>5. CASE StepAmount
  <2>1. PICK dir \in {1, -1} : bar' = bar_step(bar, dir, BIG_BLIND) /\ rail' = rail_step(rail, dir, BIG_BLIND)
    BY <1>5 DEF StepAmount
  <2>2. ControlFits(bar') /\ ControlFits(rail') /\ UNCHANGED game
    BY <1>5, <2>1, Arrows DEF StepAmount, PracticeInv, PracticeOrder
  <2>3. PracticeOrder'
    BY <1>3, <2>2 DEF PracticeInv, PracticeOrder, SeatsTaken
  <2> QED
    BY <1>1, <1>2, <2>3 DEF PracticeInv
<1> QED
  BY <1>4, <1>5

LEMMA ShowKeeps ==
    ASSUME PracticeInv, Nat \subseteq Amounts, Show, UNCHANGED table_up
    PROVE  [Next]_vars /\ PracticeInv'
<1>1. game.at \in {"driving", "waiting"} /\ UNCHANGED game
  BY DEF Show
<1>2. CASE show(seat_owner[you], you, time) /\ publish(ledger_now', game.won)
  <2>1. seat_owner[you] \in Players /\ you \in Seats
    BY <1>1, AtTable, TableSeats
  <2>2. call_step(seat_owner[you], you, "show", time) /\ "show" \in OwedStep
    BY <1>2 DEF call_step, OwedStep
  <2>3. Next /\ ShareInv' /\ phase' # "aborted" /\ occupied' = occupied
    BY <2>1, <2>2, DealGoesOn
  <2>4. ControlFits(bar') /\ ControlFits(rail')
    <3>1. ReadsChips(ledger_now')
      BY <2>3, LedgerReadsNext DEF ShareInv, DeckInv, PrepInv
    <3> QED
      BY <1>2, <3>1, PublishedControls DEF PracticeInv, PracticeOrder
  <2>5. PracticeOrder'
    BY <1>1, <2>3, <2>4 DEF PracticeInv, PracticeOrder, SeatsTaken
  <2> QED
    BY <2>3, <2>5 DEF PracticeInv
<1>3. CASE UNCHANGED <<vars, bar, rail>>
  <2>1. ShareInv'
    BY <1>3, SharePreserved DEF PracticeInv
  <2>2. phase' = phase /\ occupied' = occupied
    BY <1>3 DEF vars, stageVars, seatVars, occupied
  <2>3. PracticeOrder'
    BY <1>1, <1>3, <2>2 DEF PracticeInv, PracticeOrder, SeatsTaken
  <2> QED
    BY <1>3, <2>1, <2>3 DEF PracticeInv
<1> QED
  BY <1>2, <1>3 DEF Show

\* Sitting down finds a table nobody has joined.
LEMMA SitDownKeeps ==
    ASSUME PracticeInv, sitDown
    PROVE  UNCHANGED vars /\ PracticeInv'
<1>1. /\ UNCHANGED vars /\ table_up' = TRUE /\ game.at = "off"
      /\ game' = game \/ game' = Started
      /\ bar' = update(Unlit, NoLegal, FALSE) /\ rail' = update(Unlit, NoLegal, FALSE)
  BY DEF sitDown, emptyTable, rail_update, PracticeInv, PracticeOrder
<1>2. ShareInv'
  BY <1>1, SharePreserved DEF PracticeInv
<1>3. phase' = phase /\ occupied' = occupied
  BY <1>1 DEF vars, stageVars, seatVars, occupied
<1>4. ControlFits(bar') /\ ControlFits(rail')
  <2>1. ControlFits(Unlit) /\ NoLegal.raise = <<>> /\ DOMAIN NoLegal = {"check", "call", "raise"}
    BY DEF ControlFits, Unlit, NoLegal
  <2> QED
    BY <1>1, <2>1, ControlUpdated
<1>5. CASE game' = game
  BY <1>1, <1>3, <1>4, <1>2, <1>5 DEF PracticeInv, PracticeOrder, SeatsTaken
<1>6. CASE game' = Started
  <2>1. /\ DOMAIN game' = GameFields /\ game'.at = "joining" /\ game'.seat = 5
        /\ game'.todo = <<>> /\ game'.timer = "none"
    BY <1>6 DEF Started, GameFields
  <2>2. SeatsTaken'
    BY <1>1, <1>3, <2>1 DEF PracticeInv, PracticeOrder, SeatsTaken
  <2>3. game'.seat \in Seats /\ game'.todo \in Seq(OwedStep)
    BY <2>1 DEF Seats
  <2>4. PracticeOrder'
    BY <1>1, <1>3, <1>4, <2>1, <2>2, <2>3 DEF PracticeInv, PracticeOrder
  <2> QED
    BY <1>1, <1>2, <2>4 DEF PracticeInv
<1> QED
  BY <1>1, <1>5, <1>6

LEMMA PracticeInitially == RoomInit => PracticeInv
<1> SUFFICES ASSUME RoomInit PROVE PracticeInv
  OBVIOUS
<1>1. ShareInv
  BY EmptyTable, ShareInitially DEF RoomInit
<1>2. phase = "idle" /\ occupied = 0..(0 - 1)
  BY DEF RoomInit, Init, NeverDealt, occupied, no_keys
<1>3. /\ DOMAIN game = GameFields /\ game.at = "off" /\ game.seat = 5
      /\ game.todo = <<>> /\ game.timer = "none"
  BY DEF RoomInit, Started, GameFields
<1>4. ControlFits(bar) /\ ControlFits(rail)
  BY DEF RoomInit, ControlFits, Unlit, NoLegal
<1>5. SeatsTaken
  <2>1. 0 \in 0..(Len(Names) - 1)
    <3>1. Len(Names) \in 2..6
      BY NamesAssumption
    <3>2. \A n \in 2..6 : 0 \in 0..(n - 1)
      OBVIOUS
    <3> QED
      BY <3>1, <3>2
  <2> QED
    BY <1>2, <1>3, <2>1 DEF SeatsTaken
<1>6. game.seat \in Seats /\ game.todo \in Seq(OwedStep)
  BY <1>3 DEF Seats
<1> QED
  BY <1>1, <1>2, <1>3, <1>4, <1>5, <1>6 DEF PracticeInv, PracticeOrder

LEMMA PracticePreserved ==
    ASSUME Nat \subseteq Amounts, PracticeInv, [RoomNext]_pageVars
    PROVE  [Next]_vars /\ PracticeInv'
<1>1. CASE UNCHANGED <<vars, game, bar, rail, table_up>>
  <2>1. ShareInv'
    BY <1>1, SharePreserved DEF PracticeInv
  <2>2. phase' = phase /\ occupied' = occupied
    BY <1>1 DEF vars, stageVars, seatVars, occupied
  <2> QED
    BY <1>1, <2>1, <2>2 DEF PracticeInv, PracticeOrder, SeatsTaken
<1>2. CASE RefereeStep \/ Clicks
  <2>1. UNCHANGED table_up
    BY <1>2 DEF RefereeStep, Clicks, roomVars
  <2>2. CASE Join \/ BuyBack \/ StartDeal
    BY <2>1, <2>2, JoinKeeps, BuyBackKeeps, StartDealKeeps
  <2>3. CASE Drive \/ Decide \/ NextDeal \/ StepAmount \/ Show
    BY <2>1, <2>3, DriveKeeps, DecideKeeps, QuietKeeps, ShowKeeps
  <2>4. CASE AutoFold \/ BotActs \/ Act(buttons(bar)) \/ Act(rail_buttons(rail))
    BY <2>1, <2>4, DecisionKeeps
  <2> QED
    BY <1>2, <2>2, <2>3, <2>4 DEF RefereeStep, Clicks
<1>3. CASE sitDown
  BY <1>3, SitDownKeeps
<1>4. CASE enterRoom \/ entranceFrame \/ Animate \/ \E i \in DOMAIN avatars : AvatarLoads(i) \/ AvatarFails(i)
  BY <1>1, <1>4 DEF enterRoom, entranceFrame, Animate, AvatarLoads, AvatarFails, practiceVars, roomVars
<1>5. CASE AtMenu \/ Socket \/ UNCHANGED pageVars
  BY <1>1, <1>5 DEF AtMenu, Socket, pageVars, practiceVars, roomVars
<1> QED
  BY <1>2, <1>3, <1>4, <1>5 DEF RoomNext, RoomStep

\* The Practice table is the contract's: every step the referee runs, every bet the clicks,
\* the timers and the bots make, and every buy-in is a circuit of deal.compact, called by
\* the seat's own player with arguments it takes, from a table nobody has joined.  So what
\* holds of the contract holds of the table: each theorem about Spec.
\* (Amounts are only the numbers of chips a run tries.)
THEOREM PracticePlays == ASSUME Nat \subseteq Amounts PROVE RoomSpec => Spec
<1>1. RoomInit => Init
  BY DEF RoomInit
<1>2. PracticeInv /\ [RoomNext]_pageVars => [Next]_vars /\ PracticeInv'
  BY PracticePreserved
<1> QED
  BY <1>1, <1>2, PracticeInitially, PTL DEF RoomSpec, Spec

\* Nobody who folded is paid.
LEMMA PayLive ==
    ASSUME TypeInv
    PROVE  \A i \in Seats \ live(folded) : pay[i] = 0
<1> SUFFICES ASSUME NEW i \in Seats \ live(folded) PROVE pay[i] = 0
  OBVIOUS
<1>1. \A j \in Seats : level_pay(j, i) = 0
  BY DEF level_pay, winners
<1>2. pay[i] = sum_u([j \in Seats |-> IF j \in level_seats THEN level_pay(j, i) ELSE 0])
  BY DEF pay
<1>3. pay[i] = sum_u([j \in Seats |-> 0])
  BY <1>1, <1>2
<1> QED
  BY <1>3 DEF sum_u, Seats

\* What a seat has more of, its stack and its part of the pot together.
gain(k) == (stack'[k] + total'[k]) - (stack[k] + total[k])

\* A call moves chips from a stack into the pot, or it ends the deal, paying the whole pot
\* to players still in; once the deal is over it moves none.
ChipsMove ==
    /\ offender' = offender
    /\ \/ /\ phase' # "done" /\ phase # "done" /\ \A k \in Seats : gain(k) = 0
       \/ /\ phase' = phase /\ UNCHANGED <<stack, total, folded, in_deal>>
       \/ /\ phase' = "done" /\ phase # "done" /\ \A k \in Seats : gain(k) >= 0
          /\ \A k \in Seats \ (in_deal' \ folded') : gain(k) = 0
          /\ sum_u([k \in Seats |-> gain(k)]) = sum_u(total')

LEMMA ChipsStay ==
    ASSUME TypeInv, TypeInv', UNCHANGED <<stack, total, folded, in_deal, offender>>,
           phase' = phase \/ (phase' # "done" /\ phase # "done")
    PROVE  ChipsMove
<1>1. \A k \in Seats : gain(k) = 0
  BY DEF gain, TypeInv, TypeOK, MoneyTypes, PotTypes
<1> QED
  BY <1>1 DEF ChipsMove

LEMMA SettleMovesChips ==
    ASSUME TypeInv, TypeInv', settle
    PROVE  ChipsMove
<1>1. /\ stack \in [Seats -> Nat] /\ total \in [Seats -> Nat] /\ pay \in [Seats -> Nat]
  BY PayTypes DEF TypeInv, TypeOK, MoneyTypes, PotTypes
<1>2. /\ stack' = [s \in Seats |-> stack[s] + pay[s]] /\ sum_u(pay) = sum_u(total)
      /\ phase' = "done" /\ phase # "done" /\ UNCHANGED <<total, folded, in_deal, offender>>
  BY DEF settle, settle_asserts, potVars, rosterVars
<1>3. \A k \in Seats : gain(k) = pay[k]
  BY <1>1, <1>2 DEF gain
<1>4. [k \in Seats |-> gain(k)] = pay
  BY <1>1, <1>3
<1>5. \A k \in Seats \ (in_deal' \ folded') : pay[k] = 0
  BY <1>2, PayLive DEF live
<1> QED
  BY <1>1, <1>2, <1>3, <1>4, <1>5 DEF ChipsMove

LEMMA BetMovesChips ==
    ASSUME TypeInv, TypeInv', NEW s \in Seats, NEW kind \in Kinds, NEW to \in Nat, NEW out, NEW now, NEW bk,
           phase = "playing", apply_action(s, kind, to, out, now, bk), UNCHANGED <<in_deal, offender>>
    PROVE  ChipsMove
<1> DEFINE amount == action_amount(s, kind, to)
           paid == [stack EXCEPT ![s] = @ - amount]
<1>1. /\ stack \in [Seats -> Nat] /\ total \in [Seats -> Nat] /\ bet \in [Seats -> Nat] /\ current_bet \in Nat
      /\ stack' \in [Seats -> Nat] /\ total' \in [Seats -> Nat] /\ in_deal \in SUBSET Seats
  BY DEF TypeInv, TypeOK, MoneyTypes, PotTypes, StreetTypes, RosterTypes
<1>2. amount \in Int
  BY <1>1 DEF action_amount, min_u
<1>3. total' = [total EXCEPT ![s] = @ + amount]
  BY DEF apply_action
<1>4. \/ /\ stack' = paid /\ phase' # "done"
      \/ /\ count_b(live(folded')) = 1 /\ phase' = "done"
         /\ stack' = [paid EXCEPT ![first_in(live(folded'))] = @ + sum_u(total')]
  BY DEF apply_action, close_street
<1> HIDE DEF amount
<1>5. CASE stack' = paid /\ phase' # "done"
  <2>1. \A k \in Seats : gain(k) = 0
    BY <1>1, <1>2, <1>3, <1>5 DEF gain
  <2> QED
    BY <1>5, <2>1 DEF ChipsMove
<1>6. CASE /\ count_b(live(folded')) = 1 /\ phase' = "done"
           /\ stack' = [paid EXCEPT ![first_in(live(folded'))] = @ + sum_u(total')]
  <2> DEFINE last == first_in(live(folded'))
             pot == sum_u(total')
  <2>1. last \in Seats /\ last \in in_deal' \ folded'
    <3>1. live(folded') \in SUBSET Seats /\ live(folded') = in_deal' \ folded'
      BY <1>1 DEF live
    <3>2. live(folded') # {}
      BY <1>6, <3>1, CountB
    <3> QED
      BY <3>1, <3>2, FirstIn
  <2>2. pot \in Nat
    BY <1>1, SumU
  <2> HIDE DEF last, pot
  <2>3. stack' = [paid EXCEPT ![last] = @ + pot]
    BY <1>6 DEF last, pot
  <2>4. \A k \in Seats : gain(k) = IF k = last THEN pot ELSE 0
    BY <1>1, <1>2, <1>3, <2>1, <2>2, <2>3 DEF gain
  <2>5. [k \in Seats |-> gain(k)] = [k \in Seats |-> IF k = last THEN pot ELSE 0]
    BY <2>4
  <2>6. sum_u([k \in Seats |-> gain(k)]) = pot
    BY <2>1, <2>2, <2>5, SumOne
  <2> QED
    BY <1>6, <2>1, <2>2, <2>4, <2>6 DEF ChipsMove, pot
<1> QED
  BY <1>4, <1>5, <1>6

LEMMA CallsMoveChips ==
    ASSUME TypeInv, TypeInv', phase # "aborted", NEW p, NEW s \in Seats, NEW step \in OwedStep \cup {"bet"}, NEW b,
           \/ step # "bet" /\ call_step(p, s, step, time)
           \/ step = "bet" /\ BetFits(b) /\ call_bet(p, s, b, time)
    PROVE  ChipsMove
<1> DEFINE still == /\ UNCHANGED <<stack, total, folded, in_deal, offender>>
                    /\ phase' = phase \/ (phase' # "done" /\ phase # "done")
<1>1. post_key(p, s, time) \/ shuffle(p, s, time) => still
  BY DEF post_key, post_key_asserts, shuffle, shuffle_asserts, moneyVars, potVars, rosterVars
<1>2. \A ps : shares(p, s, ps, time) => still
  BY DEF shares, shares_asserts, begin_betting, moneyVars, potVars, rosterVars, stageVars
<1>3. release(p, s, time) => still
  BY DEF release, release_asserts, resume_betting, close_street, moneyVars, potVars, rosterVars,
         stageVars
<1>4. show(p, s, time) => still
  BY DEF show, show_asserts, run_out, moneyVars, potVars, rosterVars
<1>5. \A score : show_hand(p, s, score, time) => still
  BY DEF show_hand, show_hand_asserts, moneyVars, potVars, rosterVars, stageVars
<1>6. post_next_key(p, s, time) \/ shuffle_next(p, s, time) => still
  BY DEF post_next_key, post_next_key_asserts, shuffle_next, shuffle_next_asserts, moneyVars,
         potVars, rosterVars, stageVars
<1> HIDE DEF still
<1>7. ASSUME still PROVE ChipsMove
  <2>1. /\ UNCHANGED <<stack, total, folded, in_deal, offender>>
        /\ phase' = phase \/ (phase' # "done" /\ phase # "done")
    BY <1>7 DEF still
  <2> QED
    BY <2>1, ChipsStay
<1>8. ~settle_abort
  BY DEF settle_abort, settle_abort_asserts
<1>9. CASE step # "bet" /\ call_step(p, s, step, time)
  <2>1. step # "start_deal"
    BY <1>9 DEF OwedStep
  <2> QED
    BY <1>1, <1>2, <1>3, <1>4, <1>5, <1>6, <1>7, <1>8, <1>9, <2>1, SettleMovesChips DEF call_step
<1>10. CASE BetFits(b) /\ call_bet(p, s, b, time)
  <2>1. b.kind \in Kinds /\ b.to \in Nat
    BY <1>10 DEF BetFits
  <2>2. PICK out, bk : apply_action(s, b.kind, b.to, out, time, bk) /\ phase = "playing" /\ UNCHANGED <<in_deal, offender>>
    BY <1>10 DEF call_bet, act, act_asserts, act_out, act_out_asserts, act_check, rosterVars
  <2> QED
    BY <2>1, <2>2, BetMovesChips
<1> QED
  BY <1>9, <1>10

\* The pot is followed through every call.
LEMMA PotGoesOn ==
    ASSUME TypeInv, TypeInv', PotFollowed, ChipsMove, game'.before = game.before
    PROVE  PotFollowed'
<1>1. /\ stack \in [Seats -> Nat] /\ total \in [Seats -> Nat]
      /\ stack' \in [Seats -> Nat] /\ total' \in [Seats -> Nat] /\ game.before \in [Seats -> Int]
  BY DEF TypeInv, TypeOK, MoneyTypes, PotTypes, PotFollowed
<1>2. /\ \A k : paid_out(k) = stack[k] - game.before[k] + total[k]
      /\ \A k : paid_out(k)' = stack'[k] - game.before[k] + total'[k]
  BY DEF paid_out, payout, ledger_now
<1>3. offender' = NONE /\ game'.before \in [Seats -> Int]
  BY <1>1 DEF PotFollowed, ChipsMove
<1>4. CASE phase' # "done" /\ phase # "done" /\ \A k \in Seats : gain(k) = 0
  <2>1. ASSUME NEW k \in Seats PROVE stack'[k] + total'[k] = game'.before[k]
    <3>1. stack[k] + total[k] = game.before[k]
      BY <1>4 DEF PotFollowed
    <3>2. (stack'[k] + total'[k]) - (stack[k] + total[k]) = 0
      BY <1>4 DEF gain
    <3>3. /\ stack[k] \in Int /\ total[k] \in Int /\ stack'[k] \in Int /\ total'[k] \in Int
          /\ game'.before[k] = game.before[k]
      BY <1>1
    <3> QED
      BY <3>1, <3>2, <3>3
  <2> QED
    BY <1>3, <1>4, <2>1 DEF PotFollowed
<1>5. CASE phase' = phase /\ UNCHANGED <<stack, total, folded, in_deal>>
  <2>1. \A k : paid_out(k)' = paid_out(k)
    BY <1>2, <1>5
  <2>2. [k \in Seats |-> paid_out(k)'] = [k \in Seats |-> paid_out(k)]
    BY <2>1
  <2>3. live(folded)' = live(folded)
    BY <1>5 DEF live
  <2>4. phase # "done" => \A k \in Seats : stack'[k] + total'[k] = game'.before[k]
    BY <1>5 DEF PotFollowed
  <2>5. phase = "done" => sum_u([k \in Seats |-> paid_out(k)'])  = sum_u(total')
    BY <1>5, <2>2 DEF PotFollowed
  <2>6. phase = "done" => \A k \in Seats : paid_out(k)' >= 0 /\ (k \notin live(folded)' => paid_out(k)' = 0)
    BY <2>1, <2>3 DEF PotFollowed
  <2> QED
    BY <1>3, <1>5, <2>4, <2>5, <2>6 DEF PotFollowed
<1>6. CASE /\ phase' = "done" /\ phase # "done" /\ \A k \in Seats : gain(k) >= 0
           /\ \A k \in Seats \ (in_deal' \ folded') : gain(k) = 0
           /\ sum_u([k \in Seats |-> gain(k)]) = sum_u(total')
  <2>1. \A k \in Seats : paid_out(k)' = gain(k)
    BY <1>1, <1>2, <1>6 DEF gain, PotFollowed
  <2>2. [k \in Seats |-> paid_out(k)'] = [k \in Seats |-> gain(k)]
    BY <2>1
  <2>3. live(folded)' = in_deal' \ folded'
    BY DEF live
  <2>4. sum_u([k \in Seats |-> paid_out(k)'])  = sum_u(total')
    BY <1>6, <2>2
  <2>5. \A k \in Seats : paid_out(k)' >= 0 /\ (k \notin live(folded)' => paid_out(k)' = 0)
    BY <1>6, <2>1, <2>3
  <2> QED
    BY <1>3, <1>6, <2>4, <2>5 DEF PotFollowed
<1> QED
  BY <1>4, <1>5, <1>6 DEF ChipsMove

\* It starts with the blinds.
LEMMA PotStarts ==
    ASSUME TypeInv, TypeInv', start_deal(time), game'.before = stacks_before
    PROVE  PotFollowed'
<1>1. stack \in [Seats -> Nat] /\ total' \in [Seats -> Nat] /\ game'.before = stack
  BY DEF TypeInv, TypeOK, MoneyTypes, PotTypes, stacks_before
<1>2. offender' = NONE /\ phase' # "done" /\ stack' = [s \in Seats |-> stack[s] - total'[s]]
  BY DEF start_deal, start_deal_asserts
<1>3. \A s \in Seats : stack'[s] + total'[s] = game'.before[s]
  BY <1>1, <1>2
<1> QED
  BY <1>1, <1>2, <1>3 DEF PotFollowed

\* What is shown of the winners is what is published of them.
LEMMA WinnersPublished ==
    ASSUME ViewFits(view), NEW l, NEW won, publish(l, won)
    PROVE  view'.winners = won
<1>1. PICK mine : view' = update_view(view, [tableFrom(l, you, won) EXCEPT !.mine = mine])
  BY DEF publish
<1>2. [tableFrom(l, you, won) EXCEPT !.mine = mine].winners = won
  BY DEF tableFrom
<1> QED
  BY <1>1, <1>2 DEF update_view, ViewFits, ViewFields

\* The winners do not change once the deal is over.
LEMMA OutcomeStays ==
    ASSUME UNCHANGED <<stack, total, offender>>, game'.before = game.before
    PROVE  outcome(ledger_now', game'.before) = outcome(ledger_now, game.before)
BY DEF outcome, payout, ledger_now

LEMMA PotWaits ==
    ASSUME PotInv, UNCHANGED vars, game' = game, view'.winners = view.winners
    PROVE  PotInv'
<1>1. UNCHANGED <<stack, total, offender, phase, in_deal, folded>>
  BY DEF vars, moneyVars, potVars, stageVars, rosterVars
<1>2. outcome(ledger_now', game'.before) = outcome(ledger_now, game.before)
  BY <1>1, OutcomeStays
<1>3. WinnersShown => WinnersShown'
  BY <1>1, <1>2 DEF WinnersShown
<1>4. PotFollowed => PotFollowed'
  BY <1>1 DEF PotFollowed, paid_out, payout, ledger_now, live
<1> QED
  BY <1>3, <1>4 DEF PotInv

\* While it drives, no winners are shown for good.
LEMMA PotDriven ==
    ASSUME PotFollowed, TypeInv, TypeInv', ChipsMove \/ UNCHANGED vars, game'.before = game.before,
           game'.timer = "none"
    PROVE  PotInv'
<1>1. PotFollowed'
  <2>1. CASE ChipsMove
    BY <2>1, PotGoesOn
  <2>2. CASE UNCHANGED vars
    <3>1. UNCHANGED <<stack, total, offender, phase, in_deal, folded>>
      BY <2>2 DEF vars, moneyVars, potVars, stageVars, rosterVars
    <3> QED
      BY <3>1 DEF PotFollowed, paid_out, payout, ledger_now, live
  <2> QED
    BY <2>1, <2>2
<1> QED
  BY <1>1 DEF PotInv

LEMMA PotPreserved ==
    ASSUME Nat \subseteq Amounts, PracticeInv, HandsInv, PotInv, [RoomNext]_pageVars
    PROVE  PotInv'
<1>1. PracticeInv' /\ TypeInv /\ TypeInv'
  BY PracticePreserved DEF PracticeInv, ShareInv, DeckInv, PrepInv
<1>2. DOMAIN game = GameFields /\ ViewFits(view) /\ phase # "aborted"
  BY DEF PracticeInv, PracticeOrder, HandsInv
<1>3. game.timer # "none" => game.at = "waiting"
  BY DEF PracticeInv, PracticeOrder
<1>4. ASSUME game'.at \notin {"driving", "waiting"}, game'.timer = "none" PROVE PotInv'
  BY <1>4 DEF PotInv
<1>5. CASE Join
  <2>1. game' = [game EXCEPT !.at = game'.at] /\ game.at = "joining" /\ game'.at \in {"joining", "buying"}
    BY <1>2, <1>5 DEF Join, GameFields
  <2>2. game'.timer = "none"
    BY <1>2, <1>3, <2>1 DEF GameFields
  <2> QED
    BY <1>4, <2>1, <2>2
<1>6. CASE BuyBack
  <2>1. game' = game /\ game.at = "buying"
    BY <1>6 DEF BuyBack
  <2> QED
    BY <1>3, <1>4, <2>1
<1>7. CASE StartDeal
  <2>1. game.at = "buying" /\ game.timer = "none"
    BY <1>3, <1>7 DEF StartDeal
  <2>2. CASE start_deal_asserts(time)
    <3>1. PICK was_prepared \in BOOLEAN :
              game' = [game EXCEPT !.at = "driving", !.seat = 5, !.before = stacks_before, !.won = {},
                                   !.x = [s \in Seats |-> rotate(s, was_prepared).x],
                                   !.nextX = [s \in Seats |-> rotate(s, was_prepared).nextX]]
      BY <1>7, <2>2 DEF StartDeal
    <3>2. start_deal(time)
      BY <1>7, <2>2 DEF StartDeal
    <3>3. game'.before = stacks_before /\ game'.timer = "none"
      BY <1>2, <2>1, <3>1 DEF GameFields
    <3> QED
      BY <1>1, <3>2, <3>3, PotStarts DEF PotInv
  <2>3. CASE ~start_deal_asserts(time)
    <3>1. game' = [game EXCEPT !.at = "over"]
      BY <1>7, <2>3 DEF StartDeal
    <3> QED
      BY <1>2, <1>4, <2>1, <3>1 DEF GameFields
  <2> QED
    BY <2>2, <2>3
<1>8. CASE Drive
  <2>1. game.at = "driving" /\ game.timer = "none" /\ PotFollowed
    BY <1>3, <1>8 DEF Drive, PotInv
  <2>2. PICK s \in at_table, step \in OwedStep, rest \in Seq(OwedStep) : Run(s, step, rest)
    BY <1>8, DriveRuns
  <2>3. CASE /\ call_step(seat_owner[s], s, step, time)
             /\ \E x : game' = [game EXCEPT !.seat = s, !.todo = rest, !.x = x]
    <3>1. s \in Seats /\ step # "bet"
      BY TableSeats DEF OwedStep
    <3>2. ChipsMove
      BY <1>1, <1>2, <2>3, <3>1, CallsMoveChips
    <3>3. game'.before = game.before /\ game'.timer = "none"
      BY <1>2, <2>1, <2>3 DEF GameFields
    <3> QED
      BY <1>1, <2>1, <3>2, <3>3, PotDriven
  <2>4. CASE UNCHANGED vars /\ game' = [game EXCEPT !.at = "thrown"]
    BY <1>2, <1>4, <2>1, <2>4 DEF GameFields
  <2> QED
    BY <2>2, <2>3, <2>4, RunDoes
<1>9. CASE Decide
  <2>1. PICK won : /\ won = IF phase = "done" THEN outcome(ledger_now, game.before) ELSE game.won
                   /\ game' = [game EXCEPT !.at = "waiting", !.timer = timer_for, !.won = won]
                   /\ publish(ledger_now, won)
    BY <1>9 DEF Decide
  <2>2. game.at = "driving" /\ UNCHANGED vars /\ PotFollowed
    BY <1>9 DEF Decide, PotInv
  <2>3. /\ game'.before = game.before /\ game'.timer = timer_for /\ game'.won = won
    BY <1>2, <2>1 DEF GameFields
  <2>4. UNCHANGED <<stack, total, offender, phase, in_deal, folded>>
    BY <2>2 DEF vars, moneyVars, potVars, stageVars, rosterVars
  <2>5. PotFollowed'
    BY <2>2, <2>3, <2>4 DEF PotFollowed, paid_out, payout, ledger_now, live
  <2>6. view'.winners = won
    BY <1>2, <2>1, WinnersPublished
  <2>7. timer_for = "next" => phase = "done"
    BY DEF timer_for
  <2>8. outcome(ledger_now', game'.before) = outcome(ledger_now, game.before)
    BY <2>3, <2>4, OutcomeStays
  <2>9. game'.timer = "next" => WinnersShown'
    BY <2>1, <2>3, <2>4, <2>6, <2>7, <2>8 DEF WinnersShown
  <2> QED
    BY <2>5, <2>9 DEF PotInv
<1>10. ASSUME NEW s, NEW type, NEW to \in Int, perform(s, type, to), game.at \in {"driving", "waiting"}
       PROVE  PotInv'
  <2>1. PotFollowed
    BY <1>10 DEF PotInv
  <2>2. /\ \/ UNCHANGED vars
           \/ /\ s \in in_deal
              /\ \E b : BetFits(b) /\ call_bet(seat_owner[s], s, b, time)
        /\ \/ game.at = "driving" /\ game' = game
           \/ game' = [game EXCEPT !.at = "driving", !.timer = "none", !.seat = 5]
           \/ game' = [game EXCEPT !.at = "thrown", !.timer = "none"]
    BY <1>10, Performs DEF PracticeInv
  <2>3. UNCHANGED vars \/ ChipsMove
    <3>1. ASSUME s \in in_deal, NEW b, BetFits(b), call_bet(seat_owner[s], s, b, time) PROVE ChipsMove
      <4>1. s \in Seats
        BY <1>1, <3>1 DEF TypeInv, TypeOK, RosterTypes
      <4> QED
        BY <1>1, <1>2, <3>1, <4>1, CallsMoveChips
    <3> QED
      BY <2>2, <3>1
  <2>4. game'.before = game.before /\ game'.timer = "none"
    BY <1>2, <1>3, <2>2 DEF GameFields
  <2> QED
    BY <1>1, <2>1, <2>3, <2>4, PotDriven
<1>11. CASE AutoFold \/ BotActs \/ Act(buttons(bar)) \/ Act(rail_buttons(rail))
  BY <1>10, <1>11, DecisionPerforms
<1>12. CASE NextDeal
  <2>1. game' = [game EXCEPT !.at = "buying", !.timer = "none"]
    BY <1>12 DEF NextDeal
  <2> QED
    BY <1>2, <1>4, <2>1 DEF GameFields
<1>13. CASE Show
  <2>1. game' = game /\ game.at \in {"driving", "waiting"} /\ PotFollowed
    BY <1>13 DEF Show, PotInv
  <2>2. CASE show(seat_owner[you], you, time) /\ publish(ledger_now', game.won)
    <3>1. call_step(seat_owner[you], you, "show", time) /\ "show" \in OwedStep /\ you \in Seats
      BY <2>2, TableSeats DEF call_step, OwedStep
    <3>2. ChipsMove
      BY <1>1, <1>2, <3>1, CallsMoveChips
    <3>3. PotFollowed'
      BY <1>1, <2>1, <3>2, PotGoesOn
    <3>4. view'.winners = game.won
      BY <1>2, <2>2, WinnersPublished
    <3>5. ASSUME WinnersShown PROVE WinnersShown'
      <4>1. phase = "done" /\ phase' = "done" /\ UNCHANGED <<stack, total, offender>>
        BY <3>2, <3>5 DEF WinnersShown, ChipsMove
      <4>2. outcome(ledger_now', game'.before) = outcome(ledger_now, game.before)
        BY <2>1, <4>1, OutcomeStays
      <4> QED
        BY <2>1, <3>4, <3>5, <4>1, <4>2 DEF WinnersShown
    <3> QED
      BY <2>1, <3>3, <3>5 DEF PotInv
  <2>3. CASE UNCHANGED <<vars, bar, rail, view>>
    BY <2>1, <2>3, PotWaits
  <2> QED
    BY <1>13, <2>2, <2>3 DEF Show
<1>14. CASE UNCHANGED <<vars, game>> /\ view'.winners = view.winners
  BY <1>14, PotWaits
<1>15. CASE StepAmount \/ AtMenu \/ Socket \/ enterRoom \/ entranceFrame \/ UNCHANGED pageVars
  BY <1>14, <1>15 DEF StepAmount, AtMenu, Socket, enterRoom, entranceFrame, pageVars, practiceVars
<1>16. CASE Animate
  <2>1. view'.winners = view.winners
    BY <1>2, <1>16 DEF Animate, animate, ViewFits, ViewFields
  <2> QED
    BY <1>14, <1>16, <2>1 DEF Animate
<1>17. ASSUME NEW i \in DOMAIN avatars, AvatarLoads(i) \/ AvatarFails(i) PROVE PotInv'
  <2>1. view' = view \/ view' = attachHoleCards(view, i)
    BY <1>17 DEF AvatarLoads, AvatarFails, attachCards, practiceVars
  <2>2. view'.winners = view.winners
    BY <1>2, <2>1 DEF attachHoleCards, ViewFits, ViewFields
  <2> QED
    BY <1>14, <1>17, <2>2 DEF AvatarLoads, AvatarFails, practiceVars
<1>18. CASE sitDown
  <2>1. game.at = "off" /\ (game' = game \/ game' = Started)
    BY <1>18 DEF sitDown, PracticeInv, PracticeOrder
  <2>2. game'.at \in {"off", "joining"} /\ game'.timer = "none"
    BY <1>3, <2>1 DEF Started
  <2> QED
    BY <1>4, <2>2
<1> QED
  BY <1>5, <1>6, <1>7, <1>8, <1>9, <1>11, <1>12, <1>13, <1>15, <1>16, <1>17, <1>18
     DEF RoomNext, RoomStep, RefereeStep, Clicks

\* When a deal at the Practice table is over the winners the scene names are players still
\* in, and what they are said to have won is the whole pot: it counts a seat's winnings from
\* the stacks before the blinds to the stacks after the pot, through every bet and however
\* the deal ended, bots' moves, clicks and cards shown later come as they may.  stacksBefore,
\* payout and outcome of referee/contract.ts and referee/rules.ts.
THEOREM WinnersNamed == ASSUME Nat \subseteq Amounts PROVE RoomSpec => []WinnersTakeThePot
<1>1. RoomInit => PracticeInv /\ EntryInv /\ HandsInv
  BY PracticeInitially, EntryHolds, HandsInitially
<1>2. RoomInit => PotInv
  BY DEF RoomInit, PotInv, Started
<1>3. PracticeInv /\ EntryInv /\ HandsInv /\ PotInv /\ [RoomNext]_pageVars
          => (PracticeInv /\ EntryInv /\ HandsInv /\ PotInv)'
  BY PracticePreserved, EntryHolds, HandsPreserved, PotPreserved
<1>4. PotInv /\ PracticeInv => WinnersTakeThePot
  <2> SUFFICES ASSUME PotInv, PracticeInv, game.timer = "next" PROVE WinnersTakeThePot
    BY DEF WinnersTakeThePot
  <2> DEFINE w == view.winners
  <2>1. PotFollowed /\ WinnersShown
    BY DEF PotInv, PracticeInv, PracticeOrder
  <2>2. /\ \A s \in Seats : paid_out(s) >= 0 /\ (s \notin live(folded) => paid_out(s) = 0)
        /\ sum_u([s \in Seats |-> paid_out(s)]) = sum_u(total)
    BY <2>1 DEF PotFollowed, WinnersShown
  <2>3. \A s \in Seats : paid_out(s) \in Int
    <3>1. stack \in [Seats -> Nat] /\ total \in [Seats -> Nat] /\ game.before \in [Seats -> Int]
      BY <2>1 DEF PotFollowed, PracticeInv, ShareInv, DeckInv, PrepInv, TypeInv, TypeOK, MoneyTypes, PotTypes
    <3> QED
      BY <3>1 DEF paid_out, payout, ledger_now
  <2>4. w = {s \in Seats : paid_out(s) > 0}
    <3>1. ledger_now.offender = NONE
      BY <2>1 DEF PotFollowed, ledger_now
    <3> QED
      BY <2>1, <3>1 DEF WinnersShown, outcome, paid_out
  <2>5. w \subseteq live(folded)
    BY <2>2, <2>3, <2>4
  <2>6. [s \in Seats |-> IF s \in w THEN paid_out(s) ELSE 0] = [s \in Seats |-> paid_out(s)]
    <3> HIDE DEF w
    <3>1. ASSUME NEW s \in Seats PROVE (IF s \in w THEN paid_out(s) ELSE 0) = paid_out(s)
      <4>1. paid_out(s) \in Int /\ paid_out(s) >= 0 /\ (s \in w <=> paid_out(s) > 0)
        BY <2>2, <2>3, <2>4
      <4> HIDE DEF paid_out
      <4> QED
        BY <4>1
    <3> QED
      BY <3>1
  <2>7. sum_u([s \in Seats |-> IF s \in w THEN payout(ledger_now, game.before, s) ELSE 0]) = sum_u(total)
    BY <2>2, <2>6 DEF paid_out
  <2> QED
    BY <2>5, <2>7 DEF WinnersTakeThePot
<1> QED
  BY <1>1, <1>2, <1>3, <1>4, PTL DEF RoomSpec

------------------------------------------------------------------------------
(* The Practice table's timers. *)

TimerInv ==
    /\ game.at \in {"driving", "waiting"} => phase # "idle"
    /\ TimerSet

\* While a deal is being played no call takes it back to none.
LEMMA DealStays ==
    ASSUME ShareInv, phase \notin {"aborted", "idle"}, NEW p, NEW s, NEW step, NEW b,
           \/ step \in OwedStep /\ call_step(p, s, step, time)
           \/ step = "bet" /\ call_bet(p, s, b, time)
    PROVE  phase' # "idle"
<1>1. phase \in Phase \ {"aborted"} /\ step # "start_deal"
  BY DEF OwedStep, ShareInv, DeckInv, PrepInv, TypeInv, TypeOK, StageTypes
<1> QED
  BY <1>1, ChainMoves

LEMMA TimerPreserved ==
    ASSUME Nat \subseteq Amounts, PracticeInv, TimerInv, [RoomNext]_pageVars
    PROVE  TimerInv'
<1>1. PracticeInv' /\ ShareInv
  BY PracticePreserved DEF PracticeInv
<1>2. DOMAIN game = GameFields /\ phase # "aborted" /\ (game.timer # "none" => game.at = "waiting")
  BY DEF PracticeInv, PracticeOrder
<1>3. ASSUME game'.at \notin {"driving", "waiting"} PROVE TimerInv'
  BY <1>3 DEF TimerInv, TimerSet
<1>4. CASE Join \/ BuyBack \/ NextDeal
  <2>1. game'.at \in {"joining", "buying"}
    BY <1>2, <1>4 DEF Join, BuyBack, NextDeal, GameFields
  <2> QED
    BY <1>3, <2>1
<1>5. CASE StartDeal
  <2>1. CASE start_deal_asserts(time)
    <3>1. PICK was_prepared \in BOOLEAN :
              game' = [game EXCEPT !.at = "driving", !.seat = 5, !.before = stacks_before, !.won = {},
                                   !.x = [s \in Seats |-> rotate(s, was_prepared).x],
                                   !.nextX = [s \in Seats |-> rotate(s, was_prepared).nextX]]
      BY <1>5, <2>1 DEF StartDeal
    <3>2. phase' # "idle"
      <4>1. start_deal(time)
        BY <1>5, <2>1 DEF StartDeal
      <4>2. phase' \in {"keys", "holes"}
        BY <4>1 DEF start_deal, start_deal_asserts
      <4> QED
        BY <4>2
    <3>3. game'.at = "driving"
      BY <1>2, <3>1 DEF GameFields
    <3> QED
      BY <3>2, <3>3 DEF TimerInv, TimerSet
  <2>2. CASE ~start_deal_asserts(time)
    BY <1>2, <1>3, <1>5, <2>2 DEF StartDeal, GameFields
  <2> QED
    BY <2>1, <2>2
<1>6. CASE Drive
  <2>1. game.at = "driving" /\ phase # "idle"
    BY <1>6 DEF Drive, TimerInv
  <2>2. PICK s \in at_table, step \in OwedStep, rest \in Seq(OwedStep) : Run(s, step, rest)
    BY <1>6, DriveRuns
  <2>3. CASE /\ call_step(seat_owner[s], s, step, time)
             /\ \E x : game' = [game EXCEPT !.seat = s, !.todo = rest, !.x = x]
    <3>1. phase' # "idle"
      BY <1>1, <1>2, <2>1, <2>3, DealStays
    <3>2. game'.at = "driving"
      BY <1>2, <2>1, <2>3 DEF GameFields
    <3> QED
      BY <3>1, <3>2 DEF TimerInv, TimerSet
  <2>4. CASE UNCHANGED vars /\ game' = [game EXCEPT !.at = "thrown"]
    BY <1>2, <1>3, <2>4 DEF GameFields
  <2> QED
    BY <2>2, <2>3, <2>4, RunDoes
<1>7. CASE Decide
  <2>1. PICK won : game' = [game EXCEPT !.at = "waiting", !.timer = timer_for, !.won = won]
    BY <1>7 DEF Decide
  <2>2. UNCHANGED <<phase, to_act>> /\ owing_seats = {} /\ game.at = "driving"
    BY <1>7 DEF Decide, vars, stageVars
  <2>3. phase # "idle" /\ occupied = at_table
    BY <2>2 DEF TimerInv, PracticeInv, PracticeOrder, SeatsTaken
  <2>4. phase \in {"playing", "done"}
    <3>1. SUFFICES ASSUME phase \notin {"playing", "done"} PROVE FALSE
      OBVIOUS
    <3>2. PICK s \in occupied : deal_step(ledger_now, s) # <<>>
      BY <1>1, <2>3, <3>1, DealWaitedFor DEF dealing
    <3>3. owed(ledger_now, s) # <<>>
      BY <3>2, StepOwedIsOwed
    <3> QED
      BY <2>2, <2>3, <3>3 DEF owing_seats
  <2>5. /\ game'.at = "waiting"
        /\ game'.timer = IF phase = "playing" THEN IF to_act = you THEN "you" ELSE "bot" ELSE "next"
    BY <1>2, <2>1, <2>4 DEF GameFields, timer_for
  <2> QED
    BY <2>2, <2>3, <2>4, <2>5 DEF TimerInv, TimerSet
<1>8. CASE AutoFold \/ BotActs \/ Act(buttons(bar)) \/ Act(rail_buttons(rail))
  <2>1. PICK s, type : \E to \in Int : perform(s, type, to)
    BY <1>8, DecisionPerforms
  <2>2. game.at \in {"driving", "waiting"} /\ phase # "idle"
    BY <1>8, DecisionPerforms DEF TimerInv
  <2>3. /\ \/ UNCHANGED vars
           \/ \E b : BetFits(b) /\ call_bet(seat_owner[s], s, b, time)
        /\ \/ game.at = "driving" /\ game' = game
           \/ game' = [game EXCEPT !.at = "driving", !.timer = "none", !.seat = 5]
           \/ game' = [game EXCEPT !.at = "thrown", !.timer = "none"]
    BY <1>1, <2>1, Performs
  <2>4. phase' # "idle"
    <3>1. CASE UNCHANGED vars
      BY <2>2, <3>1 DEF vars, stageVars
    <3> QED
      BY <1>1, <1>2, <2>2, <2>3, <3>1, DealStays
  <2>5. game'.at \in {"driving", "thrown"}
    BY <1>2, <2>3 DEF GameFields
  <2> QED
    BY <2>4, <2>5 DEF TimerInv, TimerSet
<1>9. CASE UNCHANGED <<vars, game>>
  BY <1>9 DEF vars, stageVars, TimerInv, TimerSet
<1>10. CASE Show
  <2>1. CASE show(seat_owner[you], you, time) /\ game' = game
    <3>1. phase' \in {phase, "showdown", "release"} /\ to_act' = to_act
      BY <2>1 DEF show, show_asserts, run_out
    <3>2. phase \in {"showdown", "done", "aborted"} /\ phase' = phase
      BY <1>10, <2>1 DEF Show, canShow, ledger_now, show, show_asserts
    <3> QED
      BY <2>1, <3>1, <3>2 DEF TimerInv, TimerSet
  <2> QED
    BY <1>9, <1>10, <2>1 DEF Show
<1>11. CASE StepAmount \/ AtMenu \/ Socket \/ enterRoom \/ entranceFrame \/ Animate \/ UNCHANGED pageVars
  BY <1>9, <1>11 DEF StepAmount, AtMenu, Socket, enterRoom, entranceFrame, Animate, pageVars, practiceVars
<1>12. ASSUME NEW i \in DOMAIN avatars, AvatarLoads(i) \/ AvatarFails(i) PROVE TimerInv'
  BY <1>9, <1>12 DEF AvatarLoads, AvatarFails, practiceVars
<1>13. CASE sitDown
  <2>1. game.at = "off" /\ (game' = game \/ game' = Started)
    BY <1>13 DEF sitDown, PracticeInv, PracticeOrder
  <2> QED
    BY <1>3, <2>1 DEF Started
<1> QED
  BY <1>4, <1>5, <1>6, <1>7, <1>8, <1>10, <1>11, <1>12, <1>13
     DEF RoomNext, RoomStep, RefereeStep, Clicks

------------------------------------------------------------------------------
(* No call of the Practice referee is refused. *)

\* A deal before its betting, when nobody prepares the next.
Opening == {"idle", "keys", "shuffle", "holes"}

Preparing == {"post_next_key", "shuffle_next"}

\* A key on the table is the one held for its seat, posted by the seat's player.
KeysFollowed ==
    /\ DOMAIN posted = Seats /\ DOMAIN next_posted = Seats
    /\ DOMAIN game.x = Seats /\ DOMAIN game.nextX = Seats
    /\ \A s \in Seats :
          /\ keys[s] \in {NoPlayer, seat_owner[s]} /\ next_keys[s] \in {NoPlayer, seat_owner[s]}
          /\ keys[s] # NoPlayer => posted[s] = game.x[s]
          /\ next_keys[s] # NoPlayer => next_posted[s] = game.nextX[s]
          /\ game.at = "off" => keys[s] = NoPlayer /\ next_keys[s] = NoPlayer

InRange(c) == c.legal.raise # <<>> => c.raiseTo \in c.legal.raise[1]..c.legal.raise[2]

\* What controls show while it is your turn is what you may do, or nothing yet; what they
\* show of an earlier turn is gone before a bot is waited for.
ButtonsTrue(c) ==
    /\ game.timer = "bot" => c.legal = NoLegal
    /\ c.legal # NoLegal /\ phase = "playing" /\ to_act = you =>
          c.legal = legal(ledger_now, you) /\ InRange(c)

\* What is left of a seat's list is its step of the next deck.
StepLeft == game.at = "driving" /\ game.todo # <<>> => game.todo = prep_step(ledger_now, game.seat)

BetweenDeals == game.at \in {"off", "joining", "buying", "over"} => phase \in {"idle", "done"}

OnlyStuck == game.at = "thrown" => phase = "showdown" /\ overfolded

SchedOrder ==
    /\ KeysFollowed /\ ButtonsTrue(bar) /\ ButtonsTrue(rail)
    /\ StepLeft /\ BetweenDeals /\ OnlyStuck

SchedInv == RailInv /\ PracticeInv /\ TimerInv /\ SchedOrder

\* What a call leaves alone: keys but the one it posts, the next deck but for steps of it,
\* and the betting at those.
LEMMA KeysMove ==
    ASSUME phase \in Phase \ {"aborted"}, NEW p, NEW s, NEW step, NEW b,
           \/ step \in OwedStep /\ call_step(p, s, step, time)
           \/ step = "bet" /\ call_bet(p, s, b, time)
    PROVE  /\ keys' = IF step = "post_key" THEN [keys EXCEPT ![s] = p] ELSE keys
           /\ next_keys' = IF step = "post_next_key" THEN [next_keys EXCEPT ![s] = p] ELSE next_keys
           /\ step \notin Preparing => UNCHANGED <<next_prep, next_in_deal, next_turn>>
           /\ step \in Preparing =>
                 UNCHANGED <<phase, to_act, bet, stack, current_bet, min_raise, in_deal, folded, all_in, acted>>
           /\ phase \notin Opening => phase' \notin Opening
<1> DEFINE quiet == UNCHANGED <<next_prep, next_in_deal, next_turn, next_keys>>
           later == phase \notin Opening => phase' \notin Opening
<1>1. post_key(p, s, time) => quiet /\ later /\ keys' = [keys EXCEPT ![s] = p]
  BY DEF post_key, post_key_asserts, nextVars, Opening
<1>2. shuffle(p, s, time) => quiet /\ later /\ keys' = keys
  BY DEF shuffle, shuffle_asserts, nextVars, Opening
<1>3. shares(p, s, other_positions(ledger_now, s), time) => quiet /\ later /\ keys' = keys
  BY DEF shares, shares_asserts, nextVars, deckVars, Opening
<1>4. release(p, s, time) => quiet /\ later /\ keys' = keys
  BY DEF release, release_asserts, resume_betting, close_street, nextVars, deckVars, stageVars, Opening
<1>5. show(p, s, time) => quiet /\ later /\ keys' = keys
  BY DEF show, show_asserts, run_out, nextVars, deckVars, Opening
<1>6. \A score \in Scores : show_hand(p, s, score, time) => quiet /\ later /\ keys' = keys
  BY DEF show_hand, show_hand_asserts, nextVars, deckVars, stageVars, Opening
<1>7. settle => quiet /\ later /\ keys' = keys
  BY DEF settle, settle_asserts, nextVars, deckVars, Opening
<1>8. ~settle_abort
  BY DEF settle_abort, settle_abort_asserts
<1>9. ASSUME post_next_key(p, s, time) \/ shuffle_next(p, s, time)
      PROVE  /\ keys' = keys /\ later
             /\ UNCHANGED <<phase, to_act, bet, stack, current_bet, min_raise, in_deal, folded, all_in, acted>>
  BY <1>9 DEF post_next_key, shuffle_next, deckVars, moneyVars, stageVars, streetVars, potVars, rosterVars
<1>10. post_next_key(p, s, time) => next_keys' = [next_keys EXCEPT ![s] = p]
  BY DEF post_next_key
<1>11. shuffle_next(p, s, time) => next_keys' = next_keys
  BY DEF shuffle_next
<1>12. ASSUME call_bet(p, s, b, time) PROVE quiet /\ later /\ keys' = keys
  <2>1. UNCHANGED <<nextVars, deckVars>>
    BY <1>12 DEF call_bet, act, act_out
  <2>2. phase = "playing" /\ phase' \in {"playing", "done", "release", "tabling", "showdown"}
    <3>1. PICK kind, t, out, bk : apply_action(s, kind, t, out, time, bk) /\ phase = "playing"
      BY <1>12 DEF call_bet, act, act_asserts, act_out, act_out_asserts, act_check
    <3> QED
      BY <3>1 DEF apply_action, close_street
  <2> QED
    BY <2>1, <2>2 DEF nextVars, deckVars, Opening
<1> HIDE DEF quiet, later
<1>13. CASE step \in OwedStep /\ call_step(p, s, step, time)
  <2>1. CASE step = "post_key"
    <3>1. quiet /\ later /\ keys' = [keys EXCEPT ![s] = p]
      BY <1>1, <1>13, <2>1 DEF call_step
    <3> QED
      BY <2>1, <3>1 DEF quiet, later, Preparing
  <2>2. CASE step \in Preparing
    <3>1. /\ keys' = keys /\ later
          /\ UNCHANGED <<phase, to_act, bet, stack, current_bet, min_raise, in_deal, folded, all_in, acted>>
      BY <1>9, <1>13, <2>2 DEF call_step, Preparing
    <3>2. next_keys' = IF step = "post_next_key" THEN [next_keys EXCEPT ![s] = p] ELSE next_keys
      BY <1>10, <1>11, <1>13, <2>2 DEF call_step, Preparing
    <3> QED
      BY <2>2, <3>1, <3>2 DEF later, Preparing
  <2>3. CASE step \notin Preparing \cup {"post_key"}
    <3>1. quiet /\ later /\ keys' = keys
      <4>1. step \in {"shuffle", "shares", "release", "show", "show_hand", "settle", "settle_abort"}
        BY <1>13, <2>3 DEF OwedStep, Preparing
      <4> QED
        BY <1>2, <1>3, <1>4, <1>5, <1>6, <1>7, <1>8, <1>13, <4>1 DEF call_step
    <3>2. step # "post_key" /\ step # "post_next_key"
      BY <2>3 DEF Preparing
    <3> QED
      BY <2>3, <3>1, <3>2 DEF quiet, later, Preparing
  <2> QED
    BY <2>1, <2>2, <2>3
<1>14. CASE step = "bet" /\ call_bet(p, s, b, time)
  BY <1>12, <1>14 DEF quiet, later, Preparing
<1> QED
  BY <1>13, <1>14

\* Whoever has bet is not asked again before somebody else.
LEMMA TurnMoves ==
    ASSUME ShareInv, ShareInv', NEW p, NEW s, NEW b, BetFits(b), call_bet(p, s, b, time)
    PROVE  to_act' # s
<1>1. /\ bet \in [Seats -> Nat] /\ stack \in [Seats -> Nat] /\ current_bet \in Nat
      /\ s = to_act /\ s \in Seats /\ bet[s] \in Nat /\ stack[s] \in Nat
  <2>1. TypeInv
    BY DEF ShareInv, DeckInv, PrepInv
  <2>2. s = to_act /\ phase = "playing"
    BY DEF call_bet, act, act_asserts, act_out, act_out_asserts, act_check
  <2>3. to_act \in Seats
    BY <2>2 DEF ShareInv, BettingInv, BettingOrder, TurnPhases, TurnInOrder, actors, live, DeckInv, PrepInv,
                TypeInv, TypeOK, RosterTypes
  <2> QED
    BY <2>1, <2>2, <2>3 DEF TypeInv, TypeOK, MoneyTypes, StreetTypes
<1>2. to_act' # NONE => to_act' \in actors(folded, all_in)' /\ (to_act' \notin acted' \/ bet'[to_act'] # current_bet')
  <2>1. TurnInOrder'
    BY DEF ShareInv, BettingInv, BettingOrder
  <2> QED
    BY <2>1 DEF TurnInOrder, owes
<1>3. s # NONE
  BY <1>1 DEF Seats, NONE
<1>4. CASE act(p, s, b.kind, b.to, time)
  <2>1. /\ apply_action(s, b.kind, b.to, FALSE, time, bank_left(s, time))
        /\ b.kind = 0 => bet[s] = current_bet
        /\ stack[s] > action_amount(s, b.kind, b.to)
        /\ b.kind = 1 => current_bet - bet[s] > 0
    BY <1>4 DEF act, act_asserts, legal_action
  <2>2. /\ s \in acted' /\ bet' = [bet EXCEPT ![s] = @ + action_amount(s, b.kind, b.to)]
        /\ current_bet' = IF b.kind = 2 THEN b.to ELSE current_bet
    BY <2>1 DEF apply_action
  <2>3. bet[s] + action_amount(s, b.kind, b.to) = IF b.kind = 2 THEN b.to ELSE current_bet
    BY <1>1, <2>1 DEF action_amount, min_u, BetFits, Kinds
  <2>4. bet'[s] = current_bet'
    BY <1>1, <2>2, <2>3
  <2> QED
    BY <1>2, <1>3, <2>2, <2>4
<1>5. CASE act_out(p, s, b.kind, b.to, time)
  <2>1. apply_action(s, b.kind, b.to, TRUE, time, bank_left(s, time))
    BY <1>5 DEF act_out
  <2>2. s \in folded' \/ s \in all_in'
    BY <2>1 DEF apply_action
  <2> QED
    BY <1>2, <1>3, <2>2 DEF actors, live
<1> QED
  BY <1>4, <1>5 DEF call_bet

\* What controls are shown: nothing but at your turn, and then what you may do, an amount
\* within it.
Shown(c) ==
    /\ phase # "playing" \/ to_act # you => c.legal = NoLegal
    /\ c.legal # NoLegal => c.legal = legal(ledger_now, you) /\ InRange(c)

LEMMA ControlShows ==
    ASSUME TypeInv, NEW c, ButtonsTrue(c), NEW can
    PROVE  Shown(update(c, legal(ledger_now, you), can))
<1> DEFINE g == legal(ledger_now, you)
           u == update(c, g, can)
<1>1. u.legal = g
  BY DEF update
<1>2. phase # "playing" \/ to_act # you => g = NoLegal
  BY DEF legal, ledger_now
<1>3. ASSUME g # NoLegal PROVE InRange(u)
  <2>1. phase = "playing" /\ to_act = you /\ you \in Seats
    BY <1>2, <1>3 DEF you, Seats
  <2>2. g.raise = <<>> \/ (g.raise[1] \in Int /\ g.raise[2] \in Int /\ g.raise[1] <= g.raise[2])
    <3> DEFINE all == bet[to_act] + stack[to_act]
               floor == IF current_bet = 0 THEN BIG_BLIND ELSE current_bet + min_raise
    <3>1. all \in Int /\ floor \in Int
      BY <2>1, StakesAssumption DEF TypeInv, TypeOK, MoneyTypes, StreetTypes
    <3>2. g.raise = <<>> \/ g.raise = <<min_u(all, floor), all>>
      BY <2>1, RailReads
    <3> HIDE DEF all, floor, g
    <3>3. min_u(all, floor) \in Int /\ min_u(all, floor) <= all
      BY <3>1 DEF min_u
    <3> QED
      BY <3>1, <3>2, <3>3
  <2>3. CASE c.legal = NoLegal
    <3>1. g.raise # <<>> => u.raiseTo = g.raise[1]
      BY <1>3, <2>3 DEF update
    <3> HIDE DEF g, u
    <3> QED
      BY <1>1, <2>2, <3>1 DEF InRange
  <2>4. CASE c.legal # NoLegal
    <3>1. u.raiseTo = c.raiseTo
      BY <2>4 DEF update
    <3>2. c.legal = g /\ InRange(c)
      BY <2>1, <2>4 DEF ButtonsTrue
    <3> HIDE DEF g, u
    <3> QED
      BY <1>1, <3>1, <3>2 DEF InRange
  <2> QED
    BY <2>3, <2>4
<1> HIDE DEF g, u
<1> QED
  BY <1>1, <1>2, <1>3 DEF Shown, g, u

LEMMA PublishShows ==
    ASSUME TypeInv, ButtonsTrue(bar), ButtonsTrue(rail), NEW won, publish(ledger_now, won)
    PROVE  Shown(bar') /\ Shown(rail')
<1>1. \E can : /\ bar' = update(bar, legal(ledger_now, you), can)
               /\ rail' = update(rail, legal(ledger_now, you), can)
  BY DEF publish, tableFrom, rail_update
<1> QED
  BY <1>1, ControlShows

\* With no betting they are dark.
LEMMA PublishDark ==
    ASSUME NEW l, l.phase # "playing", NEW won, publish(l, won)
    PROVE  bar'.legal = NoLegal /\ rail'.legal = NoLegal
<1>1. \E can : /\ bar' = update(bar, legal(l, you), can) /\ rail' = update(rail, legal(l, you), can)
  BY DEF publish, tableFrom, rail_update
<1>2. legal(l, you) = NoLegal
  BY DEF legal
<1> QED
  BY <1>1, <1>2 DEF update

\* A bet that is offered is taken, the key it takes being the one posted.
LEMMA BetOffered ==
    ASSUME SchedInv, phase = "playing", NEW a \in rail_actions(legal(ledger_now, to_act)),
           a[1] \in {"fold", "check", "call", "raise"}
    PROVE  LET b == actionStep(ledger_now, to_act, a[1], a[2]) IN
           /\ takes_bet(seat_owner[to_act], to_act, b, time)
           /\ b.circuit = "act" \/ posted[to_act] = game.x[to_act]
<1> DEFINE s == to_act
           g == legal(ledger_now, to_act)
           all == bet[to_act] + stack[to_act]
           b == actionStep(ledger_now, to_act, a[1], a[2])
<1>1. TypeInv /\ RailInv
  BY DEF SchedInv, RailInv, ShareInv, DeckInv, PrepInv
<1>2. s \in in_deal /\ in_deal \subseteq occupied /\ s \in Seats
  BY <1>1 DEF RailInv, ShareInv, BettingInv, BettingOrder, TurnInOrder, TurnPhases, actors, CustodyInv,
              BooksInv, SeatsHeldDuringDeal, dealing, occupied
<1>3. ~locked_out(s)
  BY <1>2 DEF SchedInv, SchedOrder, KeysFollowed, locked_out
<1>4. a \in ({"fold", "check", "call"} \X {0}) \cup ({"raise"} \X (0..all + 1))
  <2> DEFINE floor == IF current_bet = 0 THEN BIG_BLIND ELSE current_bet + min_raise
  <2>1. all \in Nat /\ floor \in Nat
    BY <1>1, <1>2, StakesAssumption DEF TypeInv, TypeOK, MoneyTypes, StreetTypes
  <2>2. g.raise = <<>> \/ g.raise = <<min_u(all, floor), all>>
    BY RailReads
  <2> HIDE DEF all, floor, g
  <2>3. min_u(all, floor) \in Nat
    BY <2>1 DEF min_u
  <2>4. \/ a \in {"fold", "check", "call"} \X {0}
        \/ g.raise # <<>> /\ \E t \in g.raise[1]..g.raise[2] : a = <<"raise", t>>
    BY DEF rail_actions, g
  <2>5. ASSUME g.raise # <<>>, NEW t \in g.raise[1]..g.raise[2], a = <<"raise", t>>
        PROVE  a \in {"raise"} \X (0..all + 1)
    <3>1. t \in min_u(all, floor)..all
      BY <2>2, <2>5
    <3>2. t \in 0..all + 1
      BY <2>1, <2>3, <3>1
    <3> QED
      BY <2>5, <3>2
  <2> QED
    BY <2>4, <2>5
<1>5. takes_bet(seat_owner[s], s, b, time)
  <2>1. RailAgrees
    BY <1>1, RailTrue
  <2>2. tableFrom(ledger_now, to_act, {}).legal = g
    BY DEF tableFrom
  <2> HIDE DEF g, b, all
  <2> QED
    BY <1>2, <1>3, <1>4, <2>1, <2>2 DEF RailAgrees, g, b, all
<1>6. b.circuit = "act" \/ posted[s] = game.x[s]
  <2>1. b.circuit = "act_out" => keys[s] = seat_owner[s]
    BY <1>5 DEF takes_bet, act_out_asserts, key_check
  <2>2. b.circuit \in {"act", "act_out"}
    BY <1>5 DEF takes_bet
  <2>3. seat_owner[s] # NoPlayer
    BY <1>2 DEF occupied
  <2> QED
    BY <1>2, <2>1, <2>2, <2>3 DEF SchedInv, SchedOrder, KeysFollowed
<1> QED
  BY <1>5, <1>6

\* What is decided at a turn is one of the bets offered.
LEMMA PressedOffered ==
    ASSUME NEW c, ButtonsTrue(c), phase = "playing", to_act = you, NEW b \in buttons(c), TypeInv
    PROVE  b \in rail_actions(legal(ledger_now, you)) /\ b[1] \in {"fold", "check", "call", "raise"}
<1>1. c.legal # NoLegal /\ c.legal = legal(ledger_now, you) /\ InRange(c)
  BY DEF buttons, ButtonsTrue
<1> DEFINE g == legal(ledger_now, you)
<1> HIDE DEF g
<1>2. \/ b = <<"fold", 0>> \/ b = <<IF g.check THEN "check" ELSE "call", 0>>
      \/ g.raise # <<>> /\ b = <<"raise", c.raiseTo>> /\ c.raiseTo \in g.raise[1]..g.raise[2]
  BY <1>1 DEF buttons, InRange, g
<1>3. b \in rail_actions(g)
  BY <1>2 DEF rail_actions
<1> QED
  BY <1>2, <1>3 DEF g

LEMMA BotOffered ==
    ASSUME RailInv, phase = "playing", NEW b \in botAction(legal(ledger_now, to_act))
    PROVE  b \in rail_actions(legal(ledger_now, to_act)) /\ b[1] \in {"fold", "check", "call", "raise"}
<1> DEFINE g == legal(ledger_now, to_act)
           all == bet[to_act] + stack[to_act]
           floor == IF current_bet = 0 THEN BIG_BLIND ELSE current_bet + min_raise
           least == min_u(all, floor)
<1>1. all \in Int /\ floor \in Int
  <2>1. TypeInv
    BY DEF RailInv, ShareInv, DeckInv, PrepInv
  <2>2. to_act \in Seats
    BY <2>1 DEF RailInv, ShareInv, BettingInv, BettingOrder, TurnPhases, TurnInOrder, actors, TypeInv,
                TypeOK, RosterTypes
  <2> QED
    BY <2>1, <2>2, StakesAssumption DEF TypeInv, TypeOK, MoneyTypes, StreetTypes
<1>2. g.raise = <<>> \/ g.raise = <<least, all>>
  BY RailReads
<1> HIDE DEF g, all, floor
<1>3. least \in Int /\ least <= all
  BY <1>1 DEF min_u
<1> HIDE DEF least
<1>4. least + ((all - least + 1) \div 4) <= all
  BY <1>1, <1>3
<1>5. \/ b = <<IF g.check THEN "check" ELSE "call", 0>> \/ b = <<"fold", 0>>
      \/ g.raise # <<>> /\ \E t \in g.raise[1]..g.raise[2] : b = <<"raise", t>>
  <2>1. CASE g.raise = <<>>
    BY <2>1 DEF botAction, g
  <2>2. CASE g.raise # <<>>
    <3>1. g.raise[1] = least /\ g.raise[2] = all
      BY <1>2, <2>2
    <3>2. \/ b = <<IF g.check THEN "check" ELSE "call", 0>> \/ b = <<"fold", 0>> \/ b = <<"raise", all>>
          \/ \E t \in least..(least + ((all - least + 1) \div 4)) : b = <<"raise", t>>
      <4>1. b \in botAction(g)
        BY DEF g
      <4> QED
        BY <2>2, <3>1, <4>1 DEF botAction
    <3>3. all \in least..all /\ \A t \in least..(least + ((all - least + 1) \div 4)) : t \in least..all
      BY <1>1, <1>3, <1>4
    <3> QED
      BY <2>2, <3>1, <3>2, <3>3
  <2> QED
    BY <2>1, <2>2
<1>6. b \in rail_actions(g)
  BY <1>5 DEF rail_actions
<1> QED
  BY <1>5, <1>6 DEF g

\* Whoever decides, and whatever, the contract takes the bet.
LEMMA DecisionTaken ==
    ASSUME SchedInv, AutoFold \/ BotActs \/ Act(buttons(bar)) \/ Act(rail_buttons(rail))
    PROVE  /\ phase = "playing" /\ game.at \in {"driving", "waiting"}
           /\ UNCHANGED <<posted, next_posted, bar, rail, view>>
           /\ \E b : BetFits(b) /\ call_bet(seat_owner[to_act], to_act, b, time)
           /\ game' = IF game.at = "driving" THEN game
                      ELSE [game EXCEPT !.at = "driving", !.timer = "none", !.seat = 5]
           /\ game.timer # "none" => game.at = "waiting"
           /\ to_act = you \/ game.timer = "bot"
<1>1. /\ PracticeInv /\ TypeInv /\ TimerSet /\ RailInv /\ ShareInv /\ ButtonsTrue(bar) /\ ButtonsTrue(rail)
      /\ game.timer # "none" => game.at = "waiting"
  BY DEF SchedInv, SchedOrder, PracticeInv, PracticeOrder, ShareInv, DeckInv, PrepInv, TimerInv
<1> DEFINE g == legal(ledger_now, to_act)
           offered(a) == a \in rail_actions(g) /\ a[1] \in {"fold", "check", "call", "raise"}
<1>2. game.at \in {"driving", "waiting"} /\ UNCHANGED <<posted, next_posted, bar, rail, view>>
  BY <1>1 DEF AutoFold, BotActs, Act
<1>8. to_act = you \/ game.timer = "bot"
  BY <1>1 DEF AutoFold, BotActs, Act, TimerSet
<1>3. phase = "playing" /\ \E a : a[2] \in Int /\ offered(a) /\ perform(to_act, a[1], a[2])
  <2>1. CASE AutoFold
    <3>1. phase = "playing" /\ to_act = you
      BY <1>1, <2>1 DEF AutoFold, TimerSet
    <3>2. PICK a \in {<<IF g.check THEN "check" ELSE "fold", 0>>} : perform(to_act, a[1], a[2])
      BY <2>1, <3>1 DEF AutoFold
    <3>3. offered(a) /\ a[2] \in Int
      <4> HIDE DEF g
      <4>1. a = <<IF g.check THEN "check" ELSE "fold", 0>>
        BY <3>2
      <4>2. a = <<"fold", 0>> \/ (a = <<"check", 0>> /\ g.check)
        BY <4>1
      <4> QED
        BY <4>2 DEF rail_actions
    <3> QED
      BY <3>1, <3>2, <3>3
  <2>2. CASE BotActs
    <3>1. phase = "playing"
      BY <1>1, <2>2 DEF BotActs, TimerSet
    <3>2. PICK a \in botAction(g) : perform(to_act, a[1], a[2])
      BY <2>2 DEF BotActs
    <3>3. offered(a)
      BY <1>1, <3>1, <3>2, BotOffered
    <3>4. a[2] \in Int
      <4>1. ReadsChips(ledger_now) /\ to_act \in Seats \cup {NONE}
        BY <1>1, LedgerReads DEF TypeInv, TypeOK, StageTypes
      <4>2. to_act \in Seats
        BY <1>1, <3>1, <4>1 DEF ShareInv, BettingInv, BettingOrder, TurnPhases
      <4> QED
        BY <3>2, <4>1, <4>2, BotFits
    <3> QED
      BY <3>1, <3>2, <3>3, <3>4
  <2>3. ASSUME NEW c, ButtonsTrue(c), ControlFits(c), Act(buttons(c))
        PROVE  phase = "playing" /\ \E a : a[2] \in Int /\ offered(a) /\ perform(to_act, a[1], a[2])
    <3>1. phase = "playing" /\ to_act = you
      BY <2>3 DEF Act
    <3>2. PICK a \in buttons(c) : perform(you, a[1], a[2])
      BY <2>3 DEF Act
    <3>3. offered(a) /\ a[2] \in Int
      BY <1>1, <2>3, <3>1, <3>2, PressedOffered, PressedFits
    <3> QED
      BY <3>1, <3>2, <3>3
  <2> QED
    BY <1>1, <2>1, <2>2, <2>3 DEF rail_buttons, PracticeInv, PracticeOrder
<1>4. PICK a : a[2] \in Int /\ offered(a) /\ perform(to_act, a[1], a[2])
  BY <1>3
<1> DEFINE b == actionStep(ledger_now, to_act, a[1], a[2])
<1>5. takes_bet(seat_owner[to_act], to_act, b, time) /\ (b.circuit = "act" \/ posted[to_act] = game.x[to_act])
  BY <1>3, <1>4, BetOffered
<1>6. /\ call_bet(seat_owner[to_act], to_act, b, time)
      /\ game' = IF game.at = "driving" THEN game
                 ELSE [game EXCEPT !.at = "driving", !.timer = "none", !.seat = 5]
  BY <1>4, <1>5 DEF perform
<1>7. BetFits(b)
  <2>1. b.kind \in Kinds /\ b.to = IF b.kind = 2 THEN a[2] ELSE 0
    BY DEF actionStep, Kinds
  <2>2. b.kind = 2 => b.to \in Nat
    <3>1. to_act \in Seats /\ legal_action(to_act, b.kind, b.to)
      <4>1. legal_action(to_act, b.kind, b.to) /\ to_act # NONE
        BY <1>1, <1>3, <1>6 DEF call_bet, act, act_asserts, act_out, act_out_asserts, act_check, ShareInv,
                                BettingInv, BettingOrder, TurnPhases
      <4> QED
        BY <1>1, <4>1 DEF TypeInv, TypeOK, StageTypes
    <3>2. /\ bet[to_act] \in Nat /\ stack[to_act] \in Nat /\ current_bet \in Nat /\ min_raise \in Nat
          /\ BIG_BLIND \in Nat
      BY <1>1, <3>1, StakesAssumption DEF TypeInv, TypeOK, MoneyTypes, StreetTypes
    <3> DEFINE least == min_u(IF current_bet = 0 THEN BIG_BLIND ELSE current_bet + min_raise,
                              bet[to_act] + stack[to_act])
    <3>3. b.kind = 2 => b.to >= least
      BY <3>1 DEF legal_action
    <3>4. least \in Nat
      BY <3>2 DEF min_u
    <3> HIDE DEF least, b
    <3>5. a[2] \in Int /\ (b.kind = 2 => b.to = a[2])
      BY <1>4, <2>1
    <3> QED
      BY <3>3, <3>4, <3>5
  <2> HIDE DEF b
  <2> QED
    BY <2>1, <2>2 DEF BetFits
<1> HIDE DEF b
<1> QED
  BY <1>1, <1>2, <1>3, <1>6, <1>7, <1>8

\* Every list a client owes is a step of the deal, one of the next deck, or both.
LEMMA OwedInTwo ==
    ASSUME NEW l, NEW s, owed(l, s) # <<>>
    PROVE  \E step \in OwedStep :
              /\ Head(owed(l, s)) = step
              /\ \/ deal_step(l, s) = <<step>> /\ Tail(owed(l, s)) = prep_step(l, s)
                 \/ prep_step(l, s) = <<step>> /\ Tail(owed(l, s)) = <<>>
<1> DEFINE d == deal_step(l, s)  q == prep_step(l, s)
           some(r) == r = <<>> \/ \E x \in OwedStep : r = <<x>>
<1>1. some(d)
  BY Zenon DEF deal_step, OwedStep
<1>2. some(q)
  BY Zenon DEF prep_step, OwedStep
<1>3. owed(l, s) = d \o q
  BY DEF owed
<1> HIDE DEF d, q
<1>4. CASE d = <<>>
  <2>1. d \o q = q
    BY <1>2, <1>4
  <2>2. PICK x \in OwedStep : q = <<x>>
    BY <1>2, <1>3, <2>1
  <2>3. Head(q) = x /\ Tail(q) = <<>>
    BY <2>2
  <2> QED
    BY <1>3, <2>1, <2>2, <2>3 DEF q
<1>5. ASSUME NEW x \in OwedStep, d = <<x>> PROVE Head(d \o q) = x /\ Tail(d \o q) = q
  <2>1. CASE q = <<>>
    BY <1>5, <2>1
  <2>2. ASSUME NEW y \in OwedStep, q = <<y>> PROVE Head(d \o q) = x /\ Tail(d \o q) = q
    <3>1. d \o q = <<x, y>>
      <4>1. /\ d \in Seq(OwedStep) /\ q \in Seq(OwedStep) /\ <<x, y>> \in Seq(OwedStep)
            /\ Len(d) = 1 /\ Len(q) = 1 /\ Len(<<x, y>>) = 2 /\ d[1] = x /\ q[1] = y
        <5>1. d \in Seq(OwedStep) /\ Len(d) = 1 /\ d[1] = x
          BY <1>5
        <5>2. q \in Seq(OwedStep) /\ Len(q) = 1 /\ q[1] = y
          BY <2>2
        <5>3. <<x, y>> \in Seq(OwedStep) /\ Len(<<x, y>>) = 2
          BY <1>5, <2>2
        <5> QED
          BY <5>1, <5>2, <5>3
      <4>2. d \o q \in Seq(OwedStep) /\ Len(d \o q) = 2 /\ (d \o q)[1] = x /\ (d \o q)[2] = y
        <5>1. /\ d \o q \in Seq(OwedStep) /\ Len(d \o q) = Len(d) + Len(q)
              /\ \A i \in 1..Len(d) + Len(q) :
                     (d \o q)[i] = IF i <= Len(d) THEN d[i] ELSE q[i - Len(d)]
          BY <4>1, ConcatProperties, Zenon
        <5> QED
          BY <4>1, <5>1
      <4>3. \A i \in 1..2 : (d \o q)[i] = <<x, y>>[i]
        BY <4>2
      <4> QED
        BY <4>1, <4>2, <4>3, SeqEqual
    <3>2. Head(<<x, y>>) = x /\ Tail(<<x, y>>) = <<y>>
      OBVIOUS
    <3> QED
      BY <2>2, <3>1, <3>2
  <2> QED
    BY <1>2, <2>1, <2>2
<1> QED
  BY <1>1, <1>3, <1>4, <1>5 DEF d, q

\* The step the referee runs is the seat's of the deal, and its step of the next deck is
\* left, or it is that one.
LEMMA DriveOwes ==
    ASSUME SchedInv, Drive
    PROVE  \E s \in at_table, step \in OwedStep : \E rest :
              /\ Run(s, step, rest)
              /\ \/ deal_step(ledger_now, s) = <<step>> /\ rest = prep_step(ledger_now, s)
                 \/ prep_step(ledger_now, s) = <<step>> /\ rest = <<>>
<1>1. game.seat \in Seats /\ (game.todo # <<>> => game.seat \in at_table) /\ game.at = "driving"
  BY DEF Drive, SchedInv, PracticeInv, PracticeOrder
<1>2. CASE game.todo # <<>>
  <2>1. game.todo = prep_step(ledger_now, game.seat)
    BY <1>1, <1>2 DEF SchedInv, SchedOrder, StepLeft
  <2>2. PICK x \in OwedStep : game.todo = <<x>>
    BY <1>2, <2>1, Zenon DEF prep_step, OwedStep
  <2>3. Head(game.todo) = x /\ Tail(game.todo) = <<>>
    BY <2>2
  <2>4. Run(game.seat, x, <<>>)
    BY <1>2, <2>3 DEF Drive
  <2> QED
    BY <1>1, <1>2, <2>1, <2>2, <2>4
<1>3. CASE game.todo = <<>>
  <2>1. owing_seats # {} /\ owing_seats \in SUBSET Seats /\ game.seat \in Int
    <3>1. owing_seats # {}
      BY <1>3 DEF Drive
    <3>2. owing_seats \in SUBSET Seats
      BY TableSeats DEF owing_seats
    <3>3. game.seat \in Int
      BY <1>1 DEF Seats
    <3> QED
      BY <3>1, <3>2, <3>3
  <2>2. PICK s \in owing_seats : Run(s, Head(owed(ledger_now, s)), Tail(owed(ledger_now, s)))
    <3>1. first_clockwise(game.seat, owing_seats) \in owing_seats
      BY <2>1, FirstClockwise
    <3> QED
      BY <1>3, <3>1 DEF Drive
  <2>3. s \in at_table /\ owed(ledger_now, s) # <<>>
    BY DEF owing_seats
  <2> QED
    BY <2>2, <2>3, OwedInTwo
<1> QED
  BY <1>2, <1>3

\* A step that runs is taken, but for a pot that cannot be paid.
LEMMA StepTaken ==
    ASSUME SchedInv, game.at = "driving", NEW s \in at_table, NEW step \in OwedStep,
           deal_step(ledger_now, s) = <<step>> \/ prep_step(ledger_now, s) = <<step>>,
           ~(phase = "showdown" /\ overfolded)
    PROVE  proves_key(s, step) /\ takes_step(seat_owner[s], s, step, time)
<1>1. ShareInv /\ phase # "aborted" /\ occupied = at_table
  BY DEF SchedInv, PracticeInv, PracticeOrder, SeatsTaken
<1>2. s \in Seats /\ s \in occupied /\ seat_owner[s] # NoPlayer
  BY <1>1 DEF occupied
<1>3. ~locked_out(s) /\ (keys[s] # NoPlayer => posted[s] = game.x[s])
  BY <1>2 DEF SchedInv, SchedOrder, KeysFollowed, locked_out
<1>4. takes_step(seat_owner[s], s, step, time)
  <2>1. CASE prep_step(ledger_now, s) = <<step>>
    BY <1>1, <1>2, <2>1, PrepStepTaken
  <2>2. CASE deal_step(ledger_now, s) = <<step>>
    <3>1. /\ step = "settle" => phase = "showdown"
          /\ step # "settle_abort"
      BY <1>1, <2>2 DEF deal_step, ledger_now
    <3>2. ~unpayable(step)
      BY <3>1 DEF unpayable
    <3> QED
      BY <1>1, <1>2, <1>3, <2>2, <3>2, DealStepTaken
  <2> QED
    BY <2>1, <2>2
<1>5. proves_key(s, step)
  <2>1. ASSUME step \in {"shares", "release", "show", "show_hand"} PROVE keys[s] = seat_owner[s]
    BY <1>4, <2>1 DEF takes_step, shares_asserts, release_asserts, show_asserts, show_hand_asserts, key_check
  <2>2. step \in {"shares", "release", "show", "show_hand"} => posted[s] = game.x[s]
    BY <1>2, <1>3, <2>1
  <2> QED
    BY <2>2 DEF proves_key, OwedStep
<1> QED
  BY <1>4, <1>5

\* What a run leaves behind.
LEMMA RunPosts ==
    ASSUME NEW s, NEW step, NEW rest, Run(s, step, rest)
    PROVE  /\ publish(ledger_now, game.won)
           /\ \/ /\ call_step(seat_owner[s], s, step, time)
                 /\ \E drawn :
                       /\ game' = [game EXCEPT !.seat = s, !.todo = rest, !.x = [@ EXCEPT ![s] = drawn]]
                       /\ IF step = "post_key" THEN posted' = [posted EXCEPT ![s] = drawn]
                          ELSE posted' = posted /\ drawn = game.x[s]
                 /\ next_posted' = IF step = "post_next_key"
                                   THEN [next_posted EXCEPT ![s] = game.nextX[s]] ELSE next_posted
              \/ /\ ~(proves_key(s, step) /\ takes_step(seat_owner[s], s, step, time))
                 /\ game' = [game EXCEPT !.at = "thrown"] /\ UNCHANGED <<vars, posted, next_posted>>
<1> DEFINE drawn == IF step = "post_key" THEN fresh(s, {}) ELSE game.x[s]
<1>1. publish(ledger_now, game.won)
  BY DEF Run
<1>2. CASE proves_key(s, step) /\ takes_step(seat_owner[s], s, step, time)
  <2>1. /\ call_step(seat_owner[s], s, step, time)
        /\ posted' = IF step = "post_key" THEN [posted EXCEPT ![s] = drawn] ELSE posted
        /\ next_posted' = IF step = "post_next_key" THEN [next_posted EXCEPT ![s] = game.nextX[s]]
                          ELSE next_posted
        /\ game' = [game EXCEPT !.seat = s, !.todo = rest, !.x[s] = drawn]
    BY <1>2, Zenon DEF Run
  <2>2. [game EXCEPT !.seat = s, !.todo = rest, !.x[s] = drawn]
            = [game EXCEPT !.seat = s, !.todo = rest, !.x = [@ EXCEPT ![s] = drawn]]
    OBVIOUS
  <2>3. step # "post_key" => drawn = game.x[s]
    OBVIOUS
  <2> HIDE DEF drawn
  <2>4. IF step = "post_key" THEN posted' = [posted EXCEPT ![s] = drawn]
        ELSE posted' = posted /\ drawn = game.x[s]
    BY <2>1, <2>3
  <2> QED
    BY <1>1, <2>1, <2>2, <2>4
<1>3. CASE ~(proves_key(s, step) /\ takes_step(seat_owner[s], s, step, time))
  BY <1>1, <1>3, Zenon DEF Run
<1> QED
  BY <1>2, <1>3

\* Keys are followed where none is posted, where the referee posts one, when the prepared
\* ones become the deal's, and when somebody joins.
LEMMA KeysKept ==
    ASSUME KeysFollowed, UNCHANGED <<keys, next_keys, seat_owner, posted, next_posted>>,
           game'.x = game.x, game'.nextX = game.nextX, game'.at = "off" => game.at = "off"
    PROVE  KeysFollowed'
BY DEF KeysFollowed

LEMMA KeysPosted ==
    ASSUME KeysFollowed, PracticeOrder, phase \in Phase, game.at # "off", NEW s \in Seats, NEW step \in OwedStep,
           NEW rest, NEW drawn,
           call_step(seat_owner[s], s, step, time),
           game' = [game EXCEPT !.seat = s, !.todo = rest, !.x = [@ EXCEPT ![s] = drawn]],
           IF step = "post_key" THEN posted' = [posted EXCEPT ![s] = drawn]
           ELSE posted' = posted /\ drawn = game.x[s],
           next_posted' = IF step = "post_next_key" THEN [next_posted EXCEPT ![s] = game.nextX[s]]
                          ELSE next_posted
    PROVE  KeysFollowed'
<1>1. phase \in Phase \ {"aborted"} /\ DOMAIN game = GameFields
  BY DEF PracticeOrder
<1>2. /\ game'.at = game.at /\ game'.nextX = game.nextX
      /\ game'.x = [game.x EXCEPT ![s] = drawn]
  BY <1>1 DEF GameFields
<1>3. /\ keys' = IF step = "post_key" THEN [keys EXCEPT ![s] = seat_owner[s]] ELSE keys
      /\ next_keys' = IF step = "post_next_key" THEN [next_keys EXCEPT ![s] = seat_owner[s]] ELSE next_keys
      /\ seat_owner' = seat_owner
  BY <1>1, KeysMove, ChainMoves
<1>4. ASSUME NEW k \in Seats
      PROVE  /\ keys'[k] \in {NoPlayer, seat_owner'[k]}
             /\ keys'[k] # NoPlayer => posted'[k] = game'.x[k]
  <2>1. keys[k] \in {NoPlayer, seat_owner[k]} /\ (keys[k] # NoPlayer => posted[k] = game.x[k])
    BY DEF KeysFollowed
  <2>2. DOMAIN posted = Seats /\ DOMAIN game.x = Seats
    BY DEF KeysFollowed
  <2>3. CASE step = "post_key" /\ k = s
    <3>1. posted'[k] = drawn /\ game'.x[k] = drawn
      BY <1>2, <2>2, <2>3
    <3>2. keys'[k] \in {keys[k], seat_owner[k]}
      BY <1>3, <2>3
    <3> QED
      BY <1>3, <2>1, <3>1, <3>2
  <2>4. CASE ~(step = "post_key" /\ k = s)
    <3>1. keys'[k] = keys[k]
      BY <1>3, <2>4
    <3>2. game'.x[k] = game.x[k]
      BY <1>2, <2>2, <2>4
    <3>3. posted'[k] = posted[k]
      BY <2>2, <2>4
    <3> QED
      BY <1>3, <2>1, <3>1, <3>2, <3>3
  <2> QED
    BY <2>3, <2>4
<1>5. ASSUME NEW k \in Seats
      PROVE  /\ next_keys'[k] \in {NoPlayer, seat_owner'[k]}
             /\ next_keys'[k] # NoPlayer => next_posted'[k] = game'.nextX[k]
  <2>1. next_keys[k] \in {NoPlayer, seat_owner[k]} /\ (next_keys[k] # NoPlayer => next_posted[k] = game.nextX[k])
    BY DEF KeysFollowed
  <2>2. DOMAIN next_posted = Seats
    BY DEF KeysFollowed
  <2>3. next_posted'[k] = game.nextX[k] \/ (next_posted'[k] = next_posted[k] /\ next_keys'[k] = next_keys[k])
    <3>1. CASE step = "post_next_key" /\ k = s
      BY <2>2, <3>1
    <3>2. CASE ~(step = "post_next_key" /\ k = s)
      <4>1. next_keys'[k] = next_keys[k]
        BY <1>3, <3>2
      <4>2. next_posted'[k] = next_posted[k]
        BY <2>2, <3>2
      <4> QED
        BY <4>1, <4>2
    <3> QED
      BY <3>1, <3>2
  <2>4. next_keys'[k] \in {next_keys[k], seat_owner[k]}
    BY <1>3
  <2> QED
    BY <1>2, <1>3, <2>1, <2>3, <2>4
<1>6. DOMAIN posted' = Seats /\ DOMAIN next_posted' = Seats /\ DOMAIN game'.x = Seats /\ DOMAIN game'.nextX = Seats
  BY <1>2 DEF KeysFollowed
<1>7. game'.at # "off"
  BY <1>2
<1> QED
  BY <1>4, <1>5, <1>6, <1>7 DEF KeysFollowed

LEMMA KeysTaken ==
    ASSUME KeysFollowed, DOMAIN game = GameFields, game.at = "buying", StartDeal, start_deal_asserts(time)
    PROVE  KeysFollowed'
<1>1. start_deal(time)
  BY DEF StartDeal
<1>2. PICK was \in BOOLEAN :
          /\ was = (phase' = "holes")
          /\ posted' = IF was THEN next_posted ELSE [s \in Seats |-> NoKey]
          /\ game' = [game EXCEPT !.at = "driving", !.seat = 5, !.before = stacks_before, !.won = {},
                                  !.x = [s \in Seats |-> rotate(s, was).x],
                                  !.nextX = [s \in Seats |-> rotate(s, was).nextX]]
  BY DEF StartDeal
<1>3. next_posted' = [s \in Seats |-> NoKey]
  BY DEF StartDeal
<1>4. /\ keys' = IF prepared THEN next_keys ELSE no_keys
      /\ phase' = IF prepared THEN "holes" ELSE "keys"
      /\ next_keys' = no_keys /\ seat_owner' = seat_owner
  BY <1>1 DEF start_deal, seatVars, begin_prep
<1>5. /\ game'.at = "driving" /\ game'.x = [s \in Seats |-> rotate(s, was).x]
      /\ game'.nextX = [s \in Seats |-> rotate(s, was).nextX]
  BY <1>2 DEF GameFields
<1>6. ASSUME NEW k \in Seats
      PROVE  /\ keys'[k] \in {NoPlayer, seat_owner'[k]}
             /\ keys'[k] # NoPlayer => posted'[k] = game'.x[k]
  <2>1. next_keys[k] \in {NoPlayer, seat_owner[k]} /\ (next_keys[k] # NoPlayer => next_posted[k] = game.nextX[k])
    BY DEF KeysFollowed
  <2>2. CASE prepared
    <3>1. posted' = next_posted /\ keys' = next_keys /\ was = TRUE
      BY <1>2, <1>4, <2>2
    <3>2. game'.x[k] = game.nextX[k]
      BY <1>5, <3>1 DEF rotate
    <3> QED
      BY <1>4, <2>1, <3>1, <3>2
  <2>3. CASE ~prepared
    BY <1>4, <2>3 DEF no_keys
  <2> QED
    BY <2>2, <2>3
<1>7. \A k \in Seats : next_keys'[k] = NoPlayer
  BY <1>4 DEF no_keys
<1>8. DOMAIN posted' = Seats /\ DOMAIN next_posted' = Seats /\ DOMAIN game'.x = Seats /\ DOMAIN game'.nextX = Seats
  BY <1>2, <1>3, <1>5 DEF KeysFollowed
<1> QED
  BY <1>5, <1>6, <1>7, <1>8 DEF KeysFollowed

LEMMA KeysJoined ==
    ASSUME KeysFollowed, NEW p, NEW buy, join(p, buy), TypeInv, UNCHANGED <<posted, next_posted>>,
           game'.x = game.x, game'.nextX = game.nextX, game'.at # "off"
    PROVE  KeysFollowed'
<1> DEFINE s == first_in(Seats \ occupied)
<1>1. s # NONE /\ seat_owner' = [seat_owner EXCEPT ![s] = p] /\ keys' = keys /\ next_keys' = next_keys
  BY DEF join, deckVars, nextVars
<1>2. s \in Seats \ occupied
  <2>1. Seats \ occupied \in SUBSET Seats /\ (Seats \ occupied = {} => s = NONE)
    BY DEF first_in
  <2> QED
    BY <1>1, <2>1, FirstIn
<1>3. seat_owner[s] = NoPlayer
  BY <1>2 DEF occupied
<1> HIDE DEF s
<1>4. \A k \in Seats : seat_owner'[k] = seat_owner[k] \/ (k = s /\ seat_owner[k] = NoPlayer)
  BY <1>1, <1>2, <1>3 DEF TypeInv, TypeOK, SeatTypes
<1> QED
  BY <1>1, <1>4 DEF KeysFollowed

\* Outside a deal nothing is under way.
LEMMA QuietOrder ==
    ASSUME KeysFollowed', game'.at \in {"off", "joining", "buying", "over"}, game'.timer = "none",
           phase' \in {"idle", "done"}
    PROVE  SchedOrder'
<1>1. ButtonsTrue(bar)' /\ ButtonsTrue(rail)'
  BY DEF ButtonsTrue
<1> QED
  BY <1>1 DEF SchedOrder, StepLeft, BetweenDeals, OnlyStuck

\* What is shown, and what is left of a list, do not go out of date while nothing is called.
LEMMA LegalStays ==
    ASSUME UNCHANGED <<phase, to_act, bet, stack, current_bet, min_raise, in_deal, folded, all_in, acted>>
    PROVE  legal(ledger_now', you) = legal(ledger_now, you)
BY DEF legal, ledger_now, live_in

LEMMA PrepStays ==
    ASSUME phase \notin Opening, phase' \notin Opening,
           UNCHANGED <<next_prep, next_in_deal, next_turn, next_keys>>, NEW s
    PROVE  prep_step(ledger_now', s) = prep_step(ledger_now, s)
BY DEF prep_step, owes_next_key, ledger_now, Opening

LEMMA ShownStays ==
    ASSUME NEW c, Shown(c),
           UNCHANGED <<phase, to_act, bet, stack, current_bet, min_raise, in_deal, folded, all_in, acted>>
    PROVE  c.legal # NoLegal /\ phase' = "playing" /\ to_act' = you =>
              c.legal = legal(ledger_now', you) /\ InRange(c)
BY LegalStays DEF Shown

LEMMA BettingUnchanged ==
    ASSUME UNCHANGED vars
    PROVE  /\ UNCHANGED <<phase, to_act, bet, stack, current_bet, min_raise, in_deal, folded, all_in, acted>>
           /\ UNCHANGED <<total, keys, next_keys, seat_owner, next_prep, next_in_deal, next_turn>>
BY DEF vars, stageVars, streetVars, moneyVars, rosterVars, potVars, deckVars, nextVars, seatVars

LEMMA SchedWaits ==
    ASSUME SchedOrder, PracticeOrder, UNCHANGED <<vars, game, bar, rail, posted, next_posted>>
    PROVE  SchedOrder'
<1>1. /\ UNCHANGED <<phase, to_act, bet, stack, current_bet, min_raise, in_deal, folded, all_in, acted>>
      /\ UNCHANGED <<total, keys, next_keys, seat_owner, next_prep, next_in_deal, next_turn>>
  BY BettingUnchanged
<1>2. legal(ledger_now', you) = legal(ledger_now, you)
  BY <1>1, LegalStays
<1>3. ButtonsTrue(bar)' /\ ButtonsTrue(rail)'
  BY <1>1, <1>2 DEF SchedOrder, ButtonsTrue, InRange
<1>4. KeysFollowed'
  BY <1>1, KeysKept DEF SchedOrder
<1>5. \A k : prep_step(ledger_now', k) = prep_step(ledger_now, k)
  BY <1>1 DEF prep_step, owes_next_key, ledger_now
<1>6. StepLeft'
  BY <1>5 DEF SchedOrder, StepLeft
<1>7. BetweenDeals' /\ OnlyStuck'
  <2>1. overfolded' = overfolded
    BY <1>1 DEF overfolded, live
  <2> QED
    BY <1>1, <2>1 DEF SchedOrder, BetweenDeals, OnlyStuck
<1> QED
  BY <1>3, <1>4, <1>6, <1>7 DEF SchedOrder

LEMMA BetweenSched ==
    ASSUME SchedInv, Join \/ BuyBack \/ NextDeal \/ sitDown
    PROVE  SchedOrder'
<1>1. /\ DOMAIN game = GameFields /\ KeysFollowed /\ BetweenDeals /\ TimerSet /\ TypeInv
      /\ game.timer # "none" => game.at = "waiting"
  BY DEF SchedInv, SchedOrder, PracticeInv, PracticeOrder, TimerInv, ShareInv, DeckInv, PrepInv
<1>2. CASE Join
  <2>1. PICK at \in {"joining", "buying"} : game' = [game EXCEPT !.at = at]
    <3>1. CASE count_b(occupied) + 1 = Len(Names)
      BY <1>2, <3>1 DEF Join
    <3>2. CASE count_b(occupied) + 1 # Len(Names)
      <4>1. game' = [game EXCEPT !.at = game.at] /\ game.at = "joining"
        BY <1>2, <3>2 DEF Join
      <4> QED
        BY <4>1
    <3> QED
      BY <3>1, <3>2
  <2>2. /\ game.at = "joining" /\ join(Names[count_b(occupied) + 1], MAX_BUY_IN)
        /\ UNCHANGED <<posted, next_posted>>
    BY <1>2 DEF Join
  <2>3. /\ game'.at \in {"joining", "buying"} /\ game'.timer = "none" /\ game'.x = game.x
        /\ game'.nextX = game.nextX
    BY <1>1, <2>1, <2>2 DEF GameFields
  <2>4. KeysFollowed'
    BY <1>1, <2>2, <2>3, KeysJoined
  <2>5. phase' = phase /\ phase \in {"idle", "done"}
    BY <1>1, <2>2 DEF join, stageVars, BetweenDeals
  <2> QED
    BY <2>3, <2>4, <2>5, QuietOrder
<1>3. CASE BuyBack
  <2>1. game.at = "buying" /\ game' = game /\ UNCHANGED <<posted, next_posted>>
    BY <1>3 DEF BuyBack
  <2>2. \E p, s, a : buy_in(p, s, a)
    BY <1>3 DEF BuyBack
  <2>3. UNCHANGED <<phase, keys, next_keys, seat_owner>>
    BY <2>2 DEF buy_in, stageVars, deckVars, nextVars, seatVars
  <2>4. KeysFollowed'
    BY <1>1, <2>1, <2>3, KeysKept
  <2> QED
    BY <1>1, <2>1, <2>3, <2>4, QuietOrder DEF BetweenDeals
<1>4. CASE NextDeal
  <2>1. /\ game' = [game EXCEPT !.at = "buying", !.timer = "none"] /\ game.timer = "next"
        /\ UNCHANGED <<posted, next_posted, vars>>
    BY <1>4 DEF NextDeal
  <2>2. phase = "done"
    BY <1>1, <2>1 DEF TimerSet
  <2>3. UNCHANGED <<phase, keys, next_keys, seat_owner>>
    BY <2>1, BettingUnchanged
  <2>4. game'.at = "buying" /\ game'.timer = "none" /\ game'.x = game.x /\ game'.nextX = game.nextX
    BY <1>1, <2>1 DEF GameFields
  <2>5. KeysFollowed'
    BY <1>1, <2>1, <2>3, <2>4, KeysKept
  <2> QED
    BY <2>2, <2>3, <2>4, <2>5, QuietOrder
<1>5. CASE sitDown
  <2>1. game.at = "off" /\ (game' = game \/ game' = Started) /\ UNCHANGED <<vars, posted, next_posted>>
    BY <1>5 DEF sitDown, SchedInv, PracticeInv, PracticeOrder
  <2>2. UNCHANGED <<phase, keys, next_keys, seat_owner>>
    BY <2>1, BettingUnchanged
  <2>3. game'.at \in {"off", "joining"} /\ game'.timer = "none"
    BY <1>1, <2>1 DEF Started
  <2>4. DOMAIN game'.x = Seats /\ DOMAIN game'.nextX = Seats
    BY <1>1, <2>1 DEF Started, KeysFollowed
  <2>5. KeysFollowed'
    BY <1>1, <2>1, <2>2, <2>4 DEF KeysFollowed
  <2> QED
    BY <1>1, <2>1, <2>2, <2>3, <2>5, QuietOrder DEF BetweenDeals
<1> QED
  BY <1>2, <1>3, <1>4, <1>5

LEMMA StartSched ==
    ASSUME SchedInv, StartDeal
    PROVE  SchedOrder'
<1>1. /\ DOMAIN game = GameFields /\ KeysFollowed /\ BetweenDeals /\ game.at = "buying"
      /\ game.timer = "none" /\ game.todo = <<>>
  BY DEF StartDeal, SchedInv, SchedOrder, PracticeInv, PracticeOrder
<1>2. CASE start_deal_asserts(time)
  <2>1. KeysFollowed'
    BY <1>1, <1>2, KeysTaken
  <2>2. phase' \in {"keys", "holes"}
    <3>1. start_deal(time)
      BY <1>2 DEF StartDeal
    <3> QED
      BY <3>1 DEF start_deal
  <2>3. game'.at = "driving" /\ game'.timer = "none" /\ game'.todo = <<>>
    <3>1. PICK was_prepared \in BOOLEAN :
              game' = [game EXCEPT !.at = "driving", !.seat = 5, !.before = stacks_before, !.won = {},
                                   !.x = [s \in Seats |-> rotate(s, was_prepared).x],
                                   !.nextX = [s \in Seats |-> rotate(s, was_prepared).nextX]]
      BY <1>2 DEF StartDeal
    <3> QED
      BY <1>1, <3>1 DEF GameFields
  <2> QED
    BY <2>1, <2>2, <2>3 DEF SchedOrder, ButtonsTrue, StepLeft, BetweenDeals, OnlyStuck
<1>3. CASE ~start_deal_asserts(time)
  <2>1. game' = [game EXCEPT !.at = "over"] /\ UNCHANGED <<vars, posted, next_posted>>
    BY <1>3 DEF StartDeal
  <2>2. game'.at = "over" /\ game'.timer = "none" /\ game'.x = game.x /\ game'.nextX = game.nextX
    BY <1>1, <2>1 DEF GameFields
  <2>3. UNCHANGED <<phase, keys, next_keys, seat_owner>>
    BY <2>1, BettingUnchanged
  <2>4. KeysFollowed'
    BY <1>1, <2>1, <2>2, <2>3, KeysKept
  <2> QED
    BY <1>1, <2>2, <2>3, <2>4, QuietOrder DEF BetweenDeals
<1> QED
  BY <1>2, <1>3

LEMMA DriveSched ==
    ASSUME SchedInv, Drive
    PROVE  SchedOrder'
<1>1. /\ DOMAIN game = GameFields /\ KeysFollowed /\ ButtonsTrue(bar) /\ ButtonsTrue(rail) /\ PracticeOrder
      /\ game.at = "driving" /\ game.timer = "none" /\ TypeInv /\ phase \in Phase \ {"aborted"}
  BY DEF Drive, SchedInv, SchedOrder, PracticeInv, PracticeOrder, ShareInv, DeckInv, PrepInv, TypeInv, TypeOK,
         StageTypes
<1>9. PICK s \in at_table, step \in OwedStep : \E rest :
          /\ Run(s, step, rest)
          /\ \/ deal_step(ledger_now, s) = <<step>> /\ rest = prep_step(ledger_now, s)
             \/ prep_step(ledger_now, s) = <<step>> /\ rest = <<>>
  BY DriveOwes
<1>2. PICK rest :
          /\ Run(s, step, rest)
          /\ \/ deal_step(ledger_now, s) = <<step>> /\ rest = prep_step(ledger_now, s)
             \/ prep_step(ledger_now, s) = <<step>> /\ rest = <<>>
  BY <1>9
<1>3. s \in Seats
  BY TableSeats
<1>4. Shown(bar') /\ Shown(rail')
  BY <1>1, <1>2, RunPosts, PublishShows
<1>5. ASSUME NEW drawn,
             call_step(seat_owner[s], s, step, time),
             game' = [game EXCEPT !.seat = s, !.todo = rest, !.x = [@ EXCEPT ![s] = drawn]],
             IF step = "post_key" THEN posted' = [posted EXCEPT ![s] = drawn]
             ELSE posted' = posted /\ drawn = game.x[s],
             next_posted' = IF step = "post_next_key" THEN [next_posted EXCEPT ![s] = game.nextX[s]]
                            ELSE next_posted
      PROVE  SchedOrder'
  <2>1. game'.at = "driving" /\ game'.timer = "none" /\ game'.todo = rest /\ game'.seat = s
    BY <1>1, <1>5 DEF GameFields
  <2>2. KeysFollowed'
    BY <1>1, <1>3, <1>5, KeysPosted
  <2>3. /\ step \notin Preparing => UNCHANGED <<next_prep, next_in_deal, next_turn>>
        /\ next_keys' = IF step = "post_next_key" THEN [next_keys EXCEPT ![s] = seat_owner[s]] ELSE next_keys
        /\ step \in Preparing =>
              UNCHANGED <<phase, to_act, bet, stack, current_bet, min_raise, in_deal, folded, all_in, acted>>
        /\ phase \notin Opening => phase' \notin Opening
    BY <1>1, <1>5, KeysMove
  <2>4. deal_step(ledger_now, s) = <<step>> => phase # "playing" /\ step \notin Preparing
    BY DEF deal_step, ledger_now, Preparing
  <2>5. prep_step(ledger_now, s) = <<step>> => step \in Preparing
    BY DEF prep_step, Preparing
  <2>6. ASSUME NEW c, Shown(c)
        PROVE  c.legal # NoLegal /\ phase' = "playing" /\ to_act' = you =>
                  c.legal = legal(ledger_now', you) /\ InRange(c)
    <3>1. CASE c.legal = NoLegal
      BY <3>1
    <3>2. CASE c.legal # NoLegal
      <4>1. phase = "playing"
        BY <2>6, <3>2 DEF Shown
      <4>2. step \in Preparing
        BY <1>2, <2>4, <2>5, <4>1
      <4> QED
        BY <2>3, <2>6, <4>2, ShownStays
    <3> QED
      BY <3>1, <3>2
  <2>7. ButtonsTrue(bar)' /\ ButtonsTrue(rail)'
    <3>1. /\ bar'.legal # NoLegal /\ phase' = "playing" /\ to_act' = you =>
                bar'.legal = legal(ledger_now', you) /\ InRange(bar')
          /\ rail'.legal # NoLegal /\ phase' = "playing" /\ to_act' = you =>
                rail'.legal = legal(ledger_now', you) /\ InRange(rail')
      BY <1>4, <2>6
    <3> QED
      BY <2>1, <3>1 DEF ButtonsTrue, InRange
  <2>8. rest # <<>> => rest = prep_step(ledger_now', s)
    <3>1. SUFFICES ASSUME rest # <<>> PROVE rest = prep_step(ledger_now', s)
      OBVIOUS
    <3>2. deal_step(ledger_now, s) = <<step>> /\ rest = prep_step(ledger_now, s)
      BY <1>2, <3>1
    <3>3. phase \notin Opening
      BY <3>1, <3>2 DEF prep_step, ledger_now, Opening
    <3>4. UNCHANGED <<next_prep, next_in_deal, next_turn, next_keys>>
      BY <2>3, <2>4, <3>2 DEF Preparing
    <3> QED
      BY <2>3, <3>2, <3>3, <3>4, PrepStays
  <2>9. StepLeft' /\ BetweenDeals' /\ OnlyStuck'
    BY <2>1, <2>8 DEF StepLeft, BetweenDeals, OnlyStuck
  <2> QED
    BY <2>2, <2>7, <2>9 DEF SchedOrder
<1>6. ASSUME ~(proves_key(s, step) /\ takes_step(seat_owner[s], s, step, time)),
             game' = [game EXCEPT !.at = "thrown"], UNCHANGED <<vars, posted, next_posted>>
      PROVE  SchedOrder'
  <2>1. phase = "showdown" /\ overfolded
    BY <1>1, <1>2, <1>6, StepTaken
  <2>2. /\ UNCHANGED <<phase, to_act, bet, stack, current_bet, min_raise, in_deal, folded, all_in, acted>>
        /\ UNCHANGED <<total, keys, next_keys, seat_owner, next_prep, next_in_deal, next_turn>>
    BY <1>6, BettingUnchanged
  <2>3. game'.at = "thrown" /\ game'.timer = "none" /\ game'.x = game.x /\ game'.nextX = game.nextX
    BY <1>1, <1>6 DEF GameFields
  <2>4. KeysFollowed'
    BY <1>1, <1>6, <2>2, <2>3, KeysKept
  <2>5. overfolded' = overfolded
    BY <2>2 DEF overfolded, live
  <2> QED
    BY <2>1, <2>2, <2>3, <2>4, <2>5 DEF SchedOrder, ButtonsTrue, StepLeft, BetweenDeals, OnlyStuck
<1>7. \/ /\ call_step(seat_owner[s], s, step, time)
         /\ \E drawn :
               /\ game' = [game EXCEPT !.seat = s, !.todo = rest, !.x = [@ EXCEPT ![s] = drawn]]
               /\ IF step = "post_key" THEN posted' = [posted EXCEPT ![s] = drawn]
                  ELSE posted' = posted /\ drawn = game.x[s]
         /\ next_posted' = IF step = "post_next_key" THEN [next_posted EXCEPT ![s] = game.nextX[s]]
                           ELSE next_posted
      \/ /\ ~(proves_key(s, step) /\ takes_step(seat_owner[s], s, step, time))
         /\ game' = [game EXCEPT !.at = "thrown"] /\ UNCHANGED <<vars, posted, next_posted>>
  BY <1>2, RunPosts
<1> QED
  BY <1>5, <1>6, <1>7, Zenon

LEMMA DecideSched ==
    ASSUME SchedInv, Decide
    PROVE  SchedOrder'
<1>1. /\ DOMAIN game = GameFields /\ KeysFollowed /\ ButtonsTrue(bar) /\ ButtonsTrue(rail) /\ TypeInv
      /\ UNCHANGED <<vars, posted, next_posted>>
  BY DEF Decide, SchedInv, SchedOrder, PracticeInv, PracticeOrder, ShareInv, DeckInv, PrepInv
<1>2. PICK won : game' = [game EXCEPT !.at = "waiting", !.timer = timer_for, !.won = won]
                 /\ publish(ledger_now, won)
  BY DEF Decide
<1>3. Shown(bar') /\ Shown(rail')
  BY <1>1, <1>2, PublishShows
<1>4. /\ UNCHANGED <<phase, to_act, bet, stack, current_bet, min_raise, in_deal, folded, all_in, acted>>
      /\ UNCHANGED <<total, keys, next_keys, seat_owner, next_prep, next_in_deal, next_turn>>
  BY <1>1, BettingUnchanged
<1>5. game'.at = "waiting" /\ game'.timer = timer_for /\ game'.x = game.x /\ game'.nextX = game.nextX
  BY <1>1, <1>2 DEF GameFields
<1>6. KeysFollowed'
  BY <1>1, <1>4, <1>5, KeysKept
<1>7. timer_for = "bot" => to_act # you
  BY DEF timer_for
<1>8. ASSUME NEW c, Shown(c)
      PROVE  /\ timer_for = "bot" => c.legal = NoLegal
             /\ c.legal # NoLegal /\ phase' = "playing" /\ to_act' = you =>
                   c.legal = legal(ledger_now', you) /\ InRange(c)
  BY <1>4, <1>7, <1>8, ShownStays DEF Shown
<1>9. ButtonsTrue(bar)' /\ ButtonsTrue(rail)'
  BY <1>3, <1>5, <1>8 DEF ButtonsTrue, InRange
<1> QED
  BY <1>5, <1>6, <1>9 DEF SchedOrder, StepLeft, BetweenDeals, OnlyStuck

LEMMA DecisionSched ==
    ASSUME SchedInv, ShareInv', AutoFold \/ BotActs \/ Act(buttons(bar)) \/ Act(rail_buttons(rail))
    PROVE  SchedOrder'
<1>1. /\ DOMAIN game = GameFields /\ KeysFollowed /\ ButtonsTrue(bar) /\ ButtonsTrue(rail) /\ StepLeft
      /\ ShareInv /\ (game.todo # <<>> => game.at \in {"driving", "thrown"})
  BY DEF SchedInv, SchedOrder, PracticeInv, PracticeOrder
<1>2. /\ phase = "playing" /\ game.at \in {"driving", "waiting"}
      /\ UNCHANGED <<posted, next_posted, bar, rail, view>>
      /\ \E b : BetFits(b) /\ call_bet(seat_owner[to_act], to_act, b, time)
      /\ game' = IF game.at = "driving" THEN game
                 ELSE [game EXCEPT !.at = "driving", !.timer = "none", !.seat = 5]
      /\ game.timer # "none" => game.at = "waiting"
      /\ to_act = you \/ game.timer = "bot"
  BY DecisionTaken
<1>3. PICK b : BetFits(b) /\ call_bet(seat_owner[to_act], to_act, b, time)
  BY <1>2
<1>4. to_act' # to_act
  BY <1>1, <1>3, TurnMoves
<1>5. /\ keys' = keys /\ next_keys' = next_keys /\ UNCHANGED <<next_prep, next_in_deal, next_turn>>
      /\ seat_owner' = seat_owner /\ phase \notin Opening /\ phase' \notin Opening
  <2>1. phase \in Phase \ {"aborted"} /\ phase \notin Opening
    BY <1>2 DEF Phase, Opening
  <2>2. "bet" \notin Preparing /\ "bet" # "post_key" /\ "bet" # "post_next_key"
    BY DEF Preparing
  <2>3. seat_owner' = seat_owner
    BY <1>3, <2>1, ChainMoves
  <2> QED
    BY <1>3, <2>1, <2>2, <2>3, KeysMove
<1>6. /\ game'.at = "driving" /\ game'.timer = "none" /\ game'.x = game.x /\ game'.nextX = game.nextX
      /\ game'.todo = game.todo
      /\ game.at = "driving" => game' = game
  BY <1>1, <1>2 DEF GameFields
<1>7. KeysFollowed'
  BY <1>1, <1>2, <1>5, <1>6, KeysKept
<1>8. ButtonsTrue(bar)' /\ ButtonsTrue(rail)'
  BY <1>1, <1>2, <1>4, <1>6 DEF ButtonsTrue
<1>9. StepLeft'
  <2>1. game.todo # <<>> => game.at = "driving" /\ game.todo = prep_step(ledger_now, game.seat)
    BY <1>1, <1>2 DEF StepLeft
  <2>2. prep_step(ledger_now', game.seat) = prep_step(ledger_now, game.seat)
    BY <1>5, PrepStays
  <2> QED
    BY <1>6, <2>1, <2>2 DEF StepLeft
<1> QED
  BY <1>6, <1>7, <1>8, <1>9 DEF SchedOrder, BetweenDeals, OnlyStuck

LEMMA ShowSched ==
    ASSUME SchedInv, Show
    PROVE  SchedOrder'
<1>1. /\ KeysFollowed /\ StepLeft /\ SchedOrder /\ PracticeOrder /\ game' = game
      /\ UNCHANGED <<posted, next_posted>> /\ game.at \in {"driving", "waiting"}
      /\ phase \in {"showdown", "done"}
  BY DEF Show, canShow, ledger_now, SchedInv, SchedOrder, PracticeInv, PracticeOrder
<1>2. CASE show(seat_owner[you], you, time) /\ publish(ledger_now', game.won)
  <2>1. phase' = phase
    BY <1>1, <1>2 DEF show, show_asserts, run_out
  <2>2. call_step(seat_owner[you], you, "show", time) /\ "show" \in OwedStep /\ "show" \notin Preparing
    BY <1>2 DEF call_step, OwedStep, Preparing
  <2>3. /\ keys' = keys /\ next_keys' = next_keys /\ UNCHANGED <<next_prep, next_in_deal, next_turn>>
        /\ seat_owner' = seat_owner
    <3>1. phase \in Phase \ {"aborted"}
      BY <1>1 DEF Phase
    <3>2. seat_owner' = seat_owner
      BY <2>2, <3>1, ChainMoves
    <3>3. /\ keys' = IF "show" = "post_key" THEN [keys EXCEPT ![you] = seat_owner[you]] ELSE keys
          /\ next_keys' = IF "show" = "post_next_key" THEN [next_keys EXCEPT ![you] = seat_owner[you]] ELSE next_keys
          /\ UNCHANGED <<next_prep, next_in_deal, next_turn>>
      BY <2>2, <3>1, KeysMove
    <3> QED
      BY <3>2, <3>3
  <2>4. bar'.legal = NoLegal /\ rail'.legal = NoLegal
    <3>1. ledger_now'.phase # "playing"
      BY <1>1, <2>1 DEF ledger_now
    <3> QED
      BY <1>2, <3>1, PublishDark
  <2>5. KeysFollowed'
    BY <1>1, <2>3, KeysKept
  <2>6. StepLeft'
    <3>1. prep_step(ledger_now', game.seat) = prep_step(ledger_now, game.seat)
      BY <1>1, <2>1, <2>3, PrepStays DEF Opening
    <3> QED
      BY <1>1, <3>1 DEF StepLeft
  <2> QED
    BY <1>1, <2>4, <2>5, <2>6 DEF SchedOrder, ButtonsTrue, BetweenDeals, OnlyStuck
<1>3. CASE UNCHANGED <<vars, bar, rail>>
  BY <1>1, <1>3, SchedWaits
<1> QED
  BY <1>2, <1>3 DEF Show

\* The arrows stay within the range.
LEMMA ArrowsInRange ==
    ASSUME NEW c, ControlFits(c), InRange(c), NEW dir \in {1, -1}
    PROVE  /\ bar_step(c, dir, BIG_BLIND).legal = c.legal /\ rail_step(c, dir, BIG_BLIND).legal = c.legal
           /\ InRange(bar_step(c, dir, BIG_BLIND)) /\ InRange(rail_step(c, dir, BIG_BLIND))
<1>1. CASE c.legal.raise = <<>>
  BY <1>1 DEF bar_step, rail_step
<1>2. CASE c.legal.raise # <<>>
  <2> DEFINE r == c.legal.raise
             low == r[1]  high == r[2]  to == c.raiseTo + dir * BIG_BLIND
  <2>1. low \in Int /\ high \in Int /\ to \in Int /\ low <= high
    <3>1. r[1] \in Int /\ r[2] \in Int /\ c.raiseTo \in Int /\ dir * BIG_BLIND \in Int
      BY <1>2, StakesAssumption DEF ControlFits
    <3>2. c.raiseTo \in r[1]..r[2]
      BY <1>2 DEF InRange
    <3> HIDE DEF r
    <3> QED
      BY <3>1, <3>2
  <2> HIDE DEF low, high, to
  <2>2. min_u(high, max_u(low, to)) \in low..high /\ max_u(low, min_u(high, to)) \in low..high /\ high \in low..high
    BY <2>1 DEF min_u, max_u
  <2>3. stepped(c.raiseTo, r, dir, BIG_BLIND) \in low..high
    BY <2>2 DEF stepped, low, high, to
  <2>4. PICK a, b \in low..high : /\ bar_step(c, dir, BIG_BLIND) = [c EXCEPT !.raiseTo = a]
                                  /\ rail_step(c, dir, BIG_BLIND) = [c EXCEPT !.raiseTo = b]
    BY <1>2, <2>2, <2>3 DEF bar_step, rail_step, low, high, to
  <2> QED
    BY <2>4 DEF ControlFits, InRange, low, high
<1> QED
  BY <1>1, <1>2

LEMMA ArrowsSched ==
    ASSUME SchedInv, StepAmount
    PROVE  SchedOrder'
<1>1. /\ SchedOrder /\ PracticeOrder /\ KeysFollowed /\ ButtonsTrue(bar) /\ ButtonsTrue(rail)
      /\ ControlFits(bar) /\ ControlFits(rail)
      /\ UNCHANGED <<vars, game, posted, next_posted>>
  BY DEF StepAmount, SchedInv, SchedOrder, PracticeInv, PracticeOrder
<1>2. PICK dir \in {1, -1} : bar' = bar_step(bar, dir, BIG_BLIND) /\ rail' = rail_step(rail, dir, BIG_BLIND)
  BY DEF StepAmount
<1>3. bar'.legal = bar.legal /\ rail'.legal = rail.legal
  BY <1>2 DEF bar_step, rail_step, PracticeOrder, ControlFits
<1>4. (InRange(bar) => InRange(bar')) /\ (InRange(rail) => InRange(rail'))
  BY <1>1, <1>2, ArrowsInRange
<1>5. /\ UNCHANGED <<phase, to_act, bet, stack, current_bet, min_raise, in_deal, folded, all_in, acted>>
      /\ UNCHANGED <<total, keys, next_keys, seat_owner, next_prep, next_in_deal, next_turn>>
  BY <1>1, BettingUnchanged
<1>6. legal(ledger_now', you) = legal(ledger_now, you)
  BY <1>5, LegalStays
<1>7. ButtonsTrue(bar)' /\ ButtonsTrue(rail)'
  BY <1>1, <1>3, <1>4, <1>5, <1>6 DEF ButtonsTrue, InRange
<1>8. KeysFollowed'
  BY <1>1, <1>5, KeysKept
<1>9. \A k : prep_step(ledger_now', k) = prep_step(ledger_now, k)
  BY <1>5 DEF prep_step, owes_next_key, ledger_now
<1>10. StepLeft' /\ BetweenDeals' /\ OnlyStuck'
  <2>1. overfolded' = overfolded
    BY <1>5 DEF overfolded, live
  <2> QED
    BY <1>1, <1>5, <1>9, <2>1 DEF SchedOrder, StepLeft, BetweenDeals, OnlyStuck
<1> QED
  BY <1>7, <1>8, <1>10 DEF SchedOrder

LEMMA SchedPreserved ==
    ASSUME Nat \subseteq Amounts, SchedInv, [RoomNext]_pageVars
    PROVE  SchedInv'
<1>1. PracticeInv' /\ TimerInv' /\ RailInv'
  <2>1. [Next]_vars /\ PracticeInv'
    BY PracticePreserved DEF SchedInv
  <2> QED
    BY <2>1, TimerPreserved, RailPreserved DEF SchedInv
<1>2. SchedOrder /\ PracticeOrder
  BY DEF SchedInv, PracticeInv
<1>3. CASE Join \/ BuyBack \/ NextDeal \/ sitDown
  BY <1>1, <1>3, BetweenSched DEF SchedInv
<1>4. CASE StartDeal \/ Drive \/ Decide
  BY <1>1, <1>4, StartSched, DriveSched, DecideSched DEF SchedInv
<1>5. CASE AutoFold \/ BotActs \/ Act(buttons(bar)) \/ Act(rail_buttons(rail))
  BY <1>1, <1>5, DecisionSched DEF SchedInv, PracticeInv
<1>6. CASE Show \/ StepAmount
  BY <1>1, <1>6, ShowSched, ArrowsSched DEF SchedInv
<1>7. CASE UNCHANGED <<vars, game, bar, rail, posted, next_posted>>
  BY <1>1, <1>2, <1>7, SchedWaits DEF SchedInv
<1>8. CASE AtMenu \/ Socket \/ enterRoom \/ entranceFrame \/ Animate \/ UNCHANGED pageVars
           \/ \E i \in DOMAIN avatars : AvatarLoads(i) \/ AvatarFails(i)
  <2>1. UNCHANGED <<vars, game, bar, rail, posted, next_posted>>
    BY <1>8 DEF AtMenu, Socket, enterRoom, entranceFrame, Animate, AvatarLoads, AvatarFails, pageVars,
                practiceVars
  <2> QED
    BY <1>7, <2>1
<1> QED
  BY <1>3, <1>4, <1>5, <1>6, <1>8 DEF RoomNext, RoomStep, RefereeStep, Clicks

LEMMA SchedInitially == RoomInit => SchedInv
<1> SUFFICES ASSUME RoomInit PROVE SchedInv
  OBVIOUS
<1>1. PracticeInv /\ RailInv
  BY PracticeInitially, EmptyTable, RailInitially DEF RoomInit
<1>2. TimerInv
  BY DEF RoomInit, TimerInv, TimerSet, Started
<1>3. game.at = "off" /\ game.timer = "none" /\ phase = "idle"
  BY DEF RoomInit, Started, Init, NeverDealt
<1>4. KeysFollowed
  BY DEF RoomInit, Started, Init, NeverDealt, no_keys, KeysFollowed
<1>5. SchedOrder
  BY <1>3, <1>4 DEF SchedOrder, ButtonsTrue, StepLeft, BetweenDeals, OnlyStuck
<1> QED
  BY <1>1, <1>2, <1>5 DEF SchedInv

\* A Practice table is never left with nothing to move it on.  Once the referee has nothing
\* left to run, the timer for whoever the table waits for is set, or the pause before the
\* next deal: it finds no deal with a step nobody owes, and no street nobody bets on.  And
\* the contract refuses no step the referee runs, and no bet the player clicks in a browser
\* or a headset, a bot makes or a timer makes for them, except to settle a pot a folded
\* player has more in than anybody left.  So whatever a button shows is taken when it is
\* pressed, however long ago it was drawn, and every proof is made with the key on the
\* table: drive, perform and rotate of referee/contract.ts, update of ui/actions.ts and of
\* scene/rail.ts.
THEOREM NothingRefused == ASSUME Nat \subseteq Amounts PROVE RoomSpec => []AlwaysScheduled
<1>1. RoomInit => SchedInv
  BY SchedInitially
<1>2. SchedInv /\ [RoomNext]_pageVars => SchedInv'
  BY SchedPreserved
<1>3. SchedInv => AlwaysScheduled
  BY DEF SchedInv, SchedOrder, OnlyStuck, TimerInv, AlwaysScheduled
<1> QED
  BY <1>1, <1>2, <1>3, PTL DEF RoomSpec

------------------------------------------------------------------------------
(* What the scene is told of a deal. *)

\* The chips a pile of `amount` takes, of the colours the scene would use.
chips_needed(amount) ==
    LET greens == IF amount > GREENS_ABOVE THEN (amount - GREENS_ABOVE) \div GREEN_CHIP ELSE 0
        left == amount - greens * GREEN_CHIP
        reds == left \div RED_CHIP
    IN greens + reds + (left - reds * RED_CHIP)

\* While somebody bets there is room on the felt: the pot's pile, each bet's and each stack's.
FeltFits ==
    phase = "playing" =>
        /\ chips_needed(sum_u(total) - sum_u(bet)) <= CAPACITY
        /\ \A s \in Seats : chips_needed(bet[s]) <= CAPACITY /\ chips_needed(stack[s]) <= CAPACITY

\* Whoever sits at the Practice table is dealt in.
AllDealtIn ==
    /\ leaving = {}
    /\ next_prep # "none" => next_in_deal = at_table
    /\ phase # "idle" => in_deal = at_table

\* The scene shows the ledger l, and your cards if you still hold their key.
Told(l) ==
    LET t == tableFrom(l, you, {}) IN
    /\ view.felt = chips(t) /\ view.board = t.board
    /\ view.mine = (t.mine /\ game.x[you] = posted[you] /\ you \in t.inHand)

ViewTold == game.timer # "none" => Told(ledger_now)

SceneInv == SchedInv /\ EntryInv /\ HandsInv /\ PotInv /\ EndInv /\ AllDealtIn /\ ViewTold

\* A pile that has room for its chips is worth its amount.
LEMMA PileWorth ==
    ASSUME NEW amount \in Nat, chips_needed(amount) <= CAPACITY
    PROVE  worth(pile(amount)) = amount
<1> DEFINE greens == IF amount > GREENS_ABOVE THEN (amount - GREENS_ABOVE) \div GREEN_CHIP ELSE 0
           left == amount - greens * GREEN_CHIP
           reds == left \div RED_CHIP
           whites == left - reds * RED_CHIP
<1>1. /\ RED_CHIP \in Nat \ {0} /\ GREEN_CHIP \in Nat \ {0} /\ CAPACITY \in Nat \ {0}
      /\ GREENS_ABOVE \in Nat
  BY ChipsAssumption
<1>2. ASSUME NEW a \in Nat, NEW b \in Nat \ {0}
      PROVE  a \div b \in Nat /\ (a \div b) * b \in Nat /\ (a \div b) * b <= a
  <2>1. a \div b \in Int /\ a \div b >= 0
    BY <1>2
  <2>2. (a \div b) * b <= a
    BY <1>2
  <2>3. (a \div b) * b \in Int /\ (a \div b) * b >= 0
    BY <2>1
  <2> QED
    BY <2>1, <2>2, <2>3
<1>3. greens \in Nat /\ greens * GREEN_CHIP \in Nat /\ greens * GREEN_CHIP <= amount
  <2>1. CASE amount > GREENS_ABOVE
    <3>1. amount - GREENS_ABOVE \in Nat
      BY <1>1, <2>1
    <3>2. /\ greens \in Nat /\ greens * GREEN_CHIP \in Nat
          /\ greens * GREEN_CHIP <= amount - GREENS_ABOVE
      BY <1>1, <1>2, <2>1, <3>1
    <3> HIDE DEF greens
    <3> QED
      BY <1>1, <3>2
  <2>2. CASE ~(amount > GREENS_ABOVE)
    <3>1. greens = 0
      BY <2>2
    <3> QED
      BY <1>1, <3>1
  <2> QED
    BY <2>1, <2>2
<1> HIDE DEF greens
<1>4. left \in Nat /\ greens * GREEN_CHIP + left = amount
  BY <1>3
<1> HIDE DEF left
<1>5. reds \in Nat /\ reds * RED_CHIP \in Nat /\ reds * RED_CHIP <= left
  BY <1>1, <1>2, <1>4
<1> HIDE DEF reds
<1>6. whites \in Nat /\ reds * RED_CHIP + whites = left
  BY <1>4, <1>5
<1> HIDE DEF whites
<1>7. greens + reds + whites <= CAPACITY
  BY DEF chips_needed, greens, left, reds, whites
<1>8. (IF amount > 0 THEN amount ELSE 0) = amount
  OBVIOUS
<1> DEFINE room(n, taken) == IF taken + n <= CAPACITY THEN n ELSE CAPACITY - taken
<1>9. room(greens, 0) = greens /\ room(reds, greens) = reds /\ room(whites, greens + reds) = whites
  BY <1>1, <1>3, <1>5, <1>6, <1>7
<1> HIDE DEF room
<1>10. pile(amount) = [green |-> room(greens, 0), red |-> room(reds, room(greens, 0)),
                       white |-> room(whites, room(greens, 0) + room(reds, room(greens, 0)))]
  BY <1>8, Zenon DEF pile, room, greens, left, reds, whites
<1>11. pile(amount) = [green |-> greens, red |-> reds, white |-> whites]
  BY <1>9, <1>10
<1>12. worth(pile(amount)) = greens * GREEN_CHIP + reds * RED_CHIP + whites
  BY <1>11 DEF worth
<1> QED
  BY <1>3, <1>4, <1>5, <1>6, <1>12

\* What is shown of a ledger.
LEMMA SceneShown ==
    ASSUME ViewFits(view), NEW l, NEW won, publish(l, won)
    PROVE  LET t == tableFrom(l, you, {}) IN
           /\ view'.felt = chips(t) /\ view'.board = t.board
           /\ view'.mine = (t.mine /\ game.x[you] = posted[you] /\ you \in t.inHand)
<1> DEFINE t == tableFrom(l, you, {})
           u == tableFrom(l, you, won)
           mine == u.mine /\ game.x[you] = posted[you]
           w == [u EXCEPT !.mine = mine]
<1>1. view' = update_view(view, w)
  BY DEF publish
<1>2. /\ w.pot = t.pot /\ w.bets = t.bets /\ w.stacks = t.stacks /\ w.board = t.board
      /\ w.mine = mine /\ u.mine = t.mine /\ w.you = you /\ w.inHand = t.inHand
  BY DEF tableFrom
<1> HIDE DEF w, t, u
<1>3. view'.felt = chips(w) /\ view'.board = w.board /\ view'.mine = (w.mine /\ w.you \in w.inHand)
  BY <1>1 DEF update_view, ViewFits, ViewFields
<1>4. chips(w) = chips(t)
  BY <1>2 DEF chips
<1> QED
  BY <1>2, <1>3, <1>4 DEF t

\* Nobody comes or goes while a deal is played, in this deal or the next.
LEMMA RosterMoves ==
    ASSUME phase # "aborted", NEW p, NEW s, NEW step, NEW b,
           \/ step \in OwedStep /\ call_step(p, s, step, time)
           \/ step = "bet" /\ call_bet(p, s, b, time)
    PROVE  /\ UNCHANGED <<leaving, in_deal, next_in_deal>>
           /\ next_prep' # "none" => next_prep # "none"
<1> DEFINE still == UNCHANGED <<leaving, in_deal, next_in_deal>>
           prep == next_prep' # "none" => next_prep # "none"
<1>1. post_key(p, s, time) \/ shuffle(p, s, time) => still /\ prep
  BY DEF post_key, post_key_asserts, shuffle, shuffle_asserts, nextVars, seatVars, rosterVars
<1>2. shares(p, s, other_positions(ledger_now, s), time) => still /\ prep
  BY DEF shares, shares_asserts, nextVars, seatVars, rosterVars
<1>3. release(p, s, time) \/ show(p, s, time) => still /\ prep
  BY DEF release, release_asserts, show, show_asserts, nextVars, seatVars, rosterVars
<1>4. \A score \in Scores : show_hand(p, s, score, time) => still /\ prep
  BY DEF show_hand, show_hand_asserts, nextVars, seatVars, rosterVars
<1>5. settle => still /\ prep
  BY DEF settle, settle_asserts, nextVars, seatVars, rosterVars
<1>6. ~settle_abort
  BY DEF settle_abort, settle_abort_asserts
<1>7. post_next_key(p, s, time) \/ shuffle_next(p, s, time) => still /\ prep
  BY DEF post_next_key, post_next_key_asserts, shuffle_next, shuffle_next_asserts, seatVars, rosterVars
<1>8. call_bet(p, s, b, time) => still /\ prep
  BY DEF call_bet, act, act_out, nextVars, seatVars, rosterVars
<1> HIDE DEF still, prep
<1>9. step \in OwedStep /\ call_step(p, s, step, time) => still /\ prep
  BY <1>1, <1>2, <1>3, <1>4, <1>5, <1>6, <1>7 DEF call_step, OwedStep
<1> QED
  BY <1>8, <1>9 DEF still, prep

LEMMA DealtInGoesOn ==
    ASSUME AllDealtIn, ShareInv, phase \notin {"aborted", "idle"}, NEW p, NEW s, NEW step, NEW b,
           \/ step \in OwedStep /\ call_step(p, s, step, time)
           \/ step = "bet" /\ call_bet(p, s, b, time)
    PROVE  AllDealtIn'
BY RosterMoves DEF AllDealtIn

LEMMA DealtInStarts ==
    ASSUME AllDealtIn, PracticeInv, StartDeal, start_deal_asserts(time)
    PROVE  AllDealtIn'
<1>1. stack \in [Seats -> Nat] /\ MIN_BUY_IN \in Nat /\ MIN_BUY_IN > 0
  BY StakesAssumption DEF PracticeInv, ShareInv, DeckInv, PrepInv, TypeInv, TypeOK, MoneyTypes
<1>2. game.at = "buying" /\ under_minimum = {} /\ start_deal(time)
  BY DEF StartDeal
<1>3. occupied = at_table /\ at_table \in SUBSET Seats /\ leaving = {}
  BY <1>2, TableSeats DEF PracticeInv, PracticeOrder, SeatsTaken, AllDealtIn
<1>4. \A s \in at_table : stack[s] > 0
  BY <1>1, <1>2, <1>3 DEF under_minimum
<1>5. players_present = at_table
  BY <1>3, <1>4 DEF players_present
<1>6. in_deal' = IF prepared THEN next_in_deal ELSE players_present
  BY <1>2 DEF start_deal
<1>7. prepared => next_in_deal = at_table
  BY DEF prepared, AllDealtIn
<1>8. begin_prep(time, players_present) /\ leaving' = leaving
  BY <1>2 DEF start_deal, seatVars
<1> QED
  BY <1>3, <1>5, <1>6, <1>7, <1>8 DEF begin_prep, AllDealtIn

LEMMA DealtInPreserved ==
    ASSUME PracticeInv, TimerInv, AllDealtIn, [RoomNext]_pageVars
    PROVE  AllDealtIn'
<1>1. ShareInv /\ DOMAIN game = GameFields /\ phase # "aborted"
  BY DEF PracticeInv, PracticeOrder
<1>2. ASSUME UNCHANGED vars PROVE AllDealtIn'
  BY <1>2 DEF AllDealtIn, vars, seatVars, rosterVars, nextVars, stageVars
<1>3. CASE Join
  <2>1. join(Names[count_b(occupied) + 1], MAX_BUY_IN)
    BY <1>3 DEF Join
  <2>2. leaving' = {} /\ UNCHANGED <<next_prep, next_in_deal, phase, in_deal>>
    BY <2>1 DEF join, AllDealtIn, rosterVars, nextVars, stageVars
  <2> QED
    BY <2>2 DEF AllDealtIn
<1>4. CASE BuyBack
  <2>1. \E s : buy_in(seat_owner[s], s, MAX_BUY_IN - stack[s])
    BY <1>4 DEF BuyBack
  <2>2. UNCHANGED <<leaving, next_prep, next_in_deal, phase, in_deal>>
    BY <2>1 DEF buy_in, seatVars, rosterVars, nextVars, stageVars
  <2> QED
    BY <2>2 DEF AllDealtIn
<1>5. CASE StartDeal
  <2>1. CASE start_deal_asserts(time)
    BY <1>5, <2>1, DealtInStarts
  <2>2. CASE ~start_deal_asserts(time)
    BY <1>2, <1>5, <2>2 DEF StartDeal
  <2> QED
    BY <2>1, <2>2
<1>6. CASE Drive
  <2>1. phase # "idle"
    BY <1>6 DEF Drive, TimerInv
  <2>2. PICK s \in at_table, step \in OwedStep, rest \in Seq(OwedStep) : Run(s, step, rest)
    BY <1>6, DriveRuns
  <2>3. call_step(seat_owner[s], s, step, time) \/ UNCHANGED vars
    BY <2>2, RunDoes
  <2> QED
    BY <1>1, <1>2, <2>1, <2>3, DealtInGoesOn
<1>7. CASE AutoFold \/ BotActs \/ Act(buttons(bar)) \/ Act(rail_buttons(rail))
  <2>1. PICK s, type : \E to \in Int : perform(s, type, to)
    BY <1>7, DecisionPerforms
  <2>2. game.at \in {"driving", "waiting"} /\ phase # "idle"
    BY <1>7, DecisionPerforms DEF TimerInv
  <2>3. UNCHANGED vars \/ \E b : call_bet(seat_owner[s], s, b, time)
    BY <1>1, <2>1, Performs
  <2> QED
    BY <1>1, <1>2, <2>2, <2>3, DealtInGoesOn
<1>8. CASE Show
  <2>1. show(seat_owner[you], you, time) \/ UNCHANGED vars
    BY <1>8 DEF Show
  <2>2. phase # "idle"
    BY <1>8 DEF Show, TimerInv
  <2>3. CASE show(seat_owner[you], you, time)
    <3>1. call_step(seat_owner[you], you, "show", time) /\ "show" \in OwedStep
      BY <2>3 DEF call_step, OwedStep
    <3> QED
      BY <1>1, <2>2, <3>1, DealtInGoesOn
  <2> QED
    BY <1>2, <2>1, <2>3
<1>9. CASE Decide \/ NextDeal \/ StepAmount
  BY <1>2, <1>9 DEF Decide, NextDeal, StepAmount
<1>10. CASE AtMenu \/ Socket \/ enterRoom \/ entranceFrame \/ Animate \/ sitDown \/ UNCHANGED pageVars
  BY <1>2, <1>10 DEF AtMenu, Socket, enterRoom, entranceFrame, Animate, sitDown, pageVars, practiceVars
<1>11. ASSUME NEW i \in DOMAIN avatars, AvatarLoads(i) \/ AvatarFails(i) PROVE AllDealtIn'
  BY <1>2, <1>11 DEF AvatarLoads, AvatarFails, practiceVars
<1> QED
  BY <1>3, <1>4, <1>5, <1>6, <1>7, <1>8, <1>9, <1>10, <1>11
     DEF RoomNext, RoomStep, RefereeStep, Clicks

\* A ledger that is published is told.
LEMMA PublishTells ==
    ASSUME ViewFits(view), NEW won, publish(ledger_now', won), game'.x = game.x, posted' = posted
    PROVE  Told(ledger_now)'
<1> DEFINE t == tableFrom(ledger_now', you, {})
<1>1. /\ view'.felt = chips(t) /\ view'.board = t.board
      /\ view'.mine = (t.mine /\ game.x[you] = posted[you] /\ you \in t.inHand)
  BY SceneShown
<1>2. t = tableFrom(ledger_now', you, {})
  OBVIOUS
<1> HIDE DEF t
<1> QED
  BY <1>1, <1>2, Zenon DEF Told

\* And stays told while nothing happens.
LEMMA StillTold ==
    ASSUME ViewTold, UNCHANGED <<vars, game, posted>>,
           view'.felt = view.felt, view'.board = view.board, view'.mine = view.mine
    PROVE  ViewTold'
<1>1. ledger_now' = ledger_now
  BY DEF ledger_now, vars, seatVars, moneyVars, rosterVars, stageVars, streetVars, potVars, deckVars,
         shareVars, showVars, nextVars
<1> HIDE DEF ledger_now
<1> QED
  BY <1>1 DEF ViewTold, Told

LEMMA ViewPreserved ==
    ASSUME PracticeInv, HandsInv, ViewTold, [RoomNext]_pageVars
    PROVE  ViewTold'
<1>1. /\ ShareInv /\ DOMAIN game = GameFields /\ ViewFits(view)
      /\ (game.timer # "none" => game.at = "waiting")
  BY DEF PracticeInv, PracticeOrder, HandsInv
<1>2. ASSUME game'.timer = "none" PROVE ViewTold'
  BY <1>2 DEF ViewTold
<1>3. CASE UNCHANGED <<vars, game, posted, view>>
  BY <1>3, StillTold
<1>4. CASE Join \/ BuyBack
  <2>1. game.timer = "none" /\ game'.timer = game.timer
    BY <1>1, <1>4 DEF Join, BuyBack, GameFields
  <2> QED
    BY <1>2, <2>1
<1>5. CASE StartDeal
  <2>1. game'.timer = game.timer
    <3>1. CASE start_deal_asserts(time)
      <4>1. PICK was_prepared \in BOOLEAN :
                game' = [game EXCEPT !.at = "driving", !.seat = 5, !.before = stacks_before, !.won = {},
                                     !.x = [s \in Seats |-> rotate(s, was_prepared).x],
                                     !.nextX = [s \in Seats |-> rotate(s, was_prepared).nextX]]
        BY <1>5, <3>1 DEF StartDeal
      <4> QED
        BY <1>1, <4>1 DEF GameFields
    <3> QED
      BY <1>1, <1>5, <3>1 DEF StartDeal, GameFields
  <2>2. game.timer = "none"
    BY <1>1, <1>5 DEF StartDeal
  <2> QED
    BY <1>2, <2>1, <2>2
<1>6. CASE Drive
  <2>1. game.timer = "none"
    BY <1>1, <1>6 DEF Drive
  <2>2. PICK s \in at_table, step \in OwedStep, rest \in Seq(OwedStep) : Run(s, step, rest)
    BY <1>6, DriveRuns
  <2>3. \/ \E x : game' = [game EXCEPT !.seat = s, !.todo = rest, !.x = x]
        \/ game' = [game EXCEPT !.at = "thrown"]
    BY <2>2, RunDoes
  <2> QED
    BY <1>1, <1>2, <2>1, <2>3 DEF GameFields
<1>7. CASE Decide
  <2>1. PICK won : /\ game' = [game EXCEPT !.at = "waiting", !.timer = timer_for, !.won = won]
                   /\ publish(ledger_now, won)
    BY <1>7 DEF Decide
  <2>2. UNCHANGED <<vars, posted>> /\ game'.x = game.x
    BY <1>1, <1>7, <2>1 DEF Decide, GameFields
  <2>3. ledger_now' = ledger_now
    BY <2>2 DEF ledger_now, vars, seatVars, moneyVars, rosterVars, stageVars, streetVars, potVars,
                deckVars, shareVars, showVars, nextVars
  <2>4. publish(ledger_now', won)
    <3> HIDE DEF ledger_now
    <3> QED
      BY <2>1, <2>3
  <2>5. Told(ledger_now)'
    BY <1>1, <2>2, <2>4, PublishTells
  <2> QED
    BY <2>5 DEF ViewTold
<1>8. CASE AutoFold \/ BotActs \/ Act(buttons(bar)) \/ Act(rail_buttons(rail))
  <2>1. PICK s, type : \E to \in Int : perform(s, type, to)
    BY <1>8, DecisionPerforms
  <2>2. \/ game.at = "driving" /\ game' = game
        \/ game' = [game EXCEPT !.at = "driving", !.timer = "none", !.seat = 5]
        \/ game' = [game EXCEPT !.at = "thrown", !.timer = "none"]
    BY <1>1, <2>1, Performs
  <2>3. game'.timer = "none"
    BY <1>1, <2>2 DEF GameFields
  <2> QED
    BY <1>2, <2>3
<1>9. CASE NextDeal
  <2>1. game'.timer = "none"
    BY <1>1, <1>9 DEF NextDeal, GameFields
  <2> QED
    BY <1>2, <2>1
<1>10. CASE Show
  <2>1. CASE show(seat_owner[you], you, time) /\ publish(ledger_now', game.won)
    <3>1. game' = game /\ posted' = posted
      BY <1>10 DEF Show
    <3>2. Told(ledger_now)'
      BY <1>1, <2>1, <3>1, PublishTells
    <3> QED
      BY <3>2 DEF ViewTold
  <2> QED
    BY <1>3, <1>10, <2>1 DEF Show
<1>11. CASE StepAmount \/ AtMenu \/ Socket \/ enterRoom \/ entranceFrame \/ UNCHANGED pageVars
  BY <1>3, <1>11 DEF StepAmount, AtMenu, Socket, enterRoom, entranceFrame, pageVars, practiceVars
<1>12. CASE Animate
  <2>1. view'.felt = view.felt /\ view'.board = view.board /\ view'.mine = view.mine
    BY <1>1, <1>12 DEF Animate, animate, ViewFits, ViewFields
  <2> QED
    BY <1>12, <2>1, StillTold DEF Animate
<1>13. ASSUME NEW i \in DOMAIN avatars, AvatarLoads(i) \/ AvatarFails(i) PROVE ViewTold'
  <2>1. UNCHANGED <<vars, game, posted>> /\ (view' = view \/ view' = attachHoleCards(view, i))
    BY <1>13 DEF AvatarLoads, AvatarFails, attachCards, practiceVars
  <2>2. view'.felt = view.felt /\ view'.board = view.board /\ view'.mine = view.mine
    BY <1>1, <2>1 DEF attachHoleCards, ViewFits, ViewFields
  <2> QED
    BY <2>1, <2>2, StillTold
<1>14. CASE sitDown
  <2>1. game.at = "off" /\ (game' = game \/ game' = Started)
    BY <1>14 DEF sitDown, PracticeInv, PracticeOrder
  <2>2. game'.timer = "none"
    BY <1>1, <2>1 DEF Started
  <2> QED
    BY <1>2, <2>2
<1> QED
  BY <1>4, <1>5, <1>6, <1>7, <1>8, <1>9, <1>10, <1>11, <1>12, <1>13, <1>14
     DEF RoomNext, RoomStep, RefereeStep, Clicks

\* A sum of sums.
LEMMA SumAdd ==
    ASSUME NEW f \in [Seats -> Int], NEW g \in [Seats -> Int]
    PROVE  sum_u([s \in Seats |-> f[s] + g[s]]) = sum_u(f) + sum_u(g)
<1> DEFINE h == [s \in Seats |-> f[s] + g[s]]
<1>1. h \in [Seats -> Int] /\ \A s \in Seats : h[s] = f[s] + g[s]
  OBVIOUS
<1> HIDE DEF h
<1>2. sum_u(h) = sum_u(f) + sum_u(g)
  BY <1>1, SumDelta
<1> QED
  BY <1>2 DEF h

\* The stacks, the bonds and the pot are all the escrow while somebody bets.
LEMMA ChipsBrought ==
    ASSUME ShareInv, NobodysChips, phase = "playing"
    PROVE  escrow = sum_u(stack) + BOND * count_b(occupied) + sum_u(total)
<1>1. TypeInv /\ EscrowBacksBooks
  BY DEF ShareInv, BettingInv, CustodyInv, BooksInv
<1>2. stack \in [Seats -> Int] /\ BOND \in Int /\ occupied \in SUBSET Seats
  BY <1>1, StakesAssumption DEF TypeInv, TypeOK, MoneyTypes, BOND, occupied
<1> DEFINE bonds == [s \in Seats |-> IF s \in occupied THEN BOND ELSE 0]
<1>3. sum_u(bonds) = BOND * count_b(occupied)
  BY <1>2, SumScale
<1>4. bonds \in [Seats -> Int]
  BY <1>2
<1>5. claims \in [Seats -> Int] /\ \A s \in Seats : claims[s] = stack[s] + bonds[s]
  BY <1>2 DEF claims, NobodysChips
<1> HIDE DEF bonds
<1>6. sum_u(claims) = sum_u(stack) + sum_u(bonds)
  BY <1>2, <1>4, <1>5, SumDelta
<1>7. escrow = sum_u(claims) + sum_u(total)
  BY <1>1 DEF EscrowBacksBooks, owed_stacks, owed_bets, dealing
<1> QED
  BY <1>3, <1>6, <1>7

\* While somebody bets the felt shows all of it but the bonds.
LEMMA ChipsSeen ==
    ASSUME ShareInv, BetsInPot, NobodysChips, FeltFits, phase = "playing", Told(ledger_now)
    PROVE  chips_counted(view.felt) = escrow - BOND * count_b(occupied)
<1>1. bet \in [Seats -> Nat] /\ stack \in [Seats -> Nat] /\ total \in [Seats -> Nat]
  BY DEF ShareInv, BettingInv, CustodyInv, BooksInv, TypeInv, TypeOK, MoneyTypes, StreetTypes, PotTypes
<1> DEFINE t == tableFrom(ledger_now, you, {})
           f == chips(t)
<1>2. t.pot = sum_u(total) /\ t.bets = bet /\ t.stacks = stack /\ view.felt = f
  <2>1. /\ ledger_now.total = total /\ ledger_now.bet = bet /\ ledger_now.stack = stack
        /\ ledger_now.phase = "playing"
    BY DEF ledger_now
  <2>2. view.felt = f
    BY Zenon DEF Told
  <2> HIDE DEF ledger_now, f
  <2>3. /\ t.pot = sum_u(ledger_now.total) /\ t.stacks = ledger_now.stack
        /\ t.bets = IF ledger_now.phase = "idle" THEN zeros ELSE ledger_now.bet
    BY DEF tableFrom
  <2> QED
    BY <2>1, <2>2, <2>3
<1> HIDE DEF t
<1>3. /\ f.middle = pile(sum_u(total) - sum_u(bet))
      /\ f.bets = [s \in Seats |-> pile(bet[s])] /\ f.stacks = [s \in Seats |-> pile(stack[s])]
  BY <1>2 DEF chips
<1> HIDE DEF f
<1>4. sum_u(total) - sum_u(bet) \in Nat /\ sum_u(total) \in Nat /\ sum_u(bet) \in Nat /\ sum_u(stack) \in Nat
  <2>1. sum_u(bet) <= sum_u(total)
    BY <1>1, SumLeq DEF BetsInPot
  <2>2. sum_u(total) \in Nat /\ sum_u(bet) \in Nat /\ sum_u(stack) \in Nat
    BY <1>1, SumU
  <2> QED
    BY <2>1, <2>2
<1>5. worth(f.middle) = sum_u(total) - sum_u(bet)
  BY <1>3, <1>4, PileWorth DEF FeltFits
<1>6. \A s \in Seats : worth(f.bets[s]) = bet[s] /\ worth(f.stacks[s]) = stack[s]
  <2> SUFFICES ASSUME NEW s \in Seats PROVE worth(f.bets[s]) = bet[s] /\ worth(f.stacks[s]) = stack[s]
    OBVIOUS
  <2>1. bet[s] \in Nat /\ stack[s] \in Nat
    BY <1>1
  <2>2. chips_needed(bet[s]) <= CAPACITY /\ chips_needed(stack[s]) <= CAPACITY
    BY DEF FeltFits
  <2>3. worth(pile(bet[s])) = bet[s] /\ worth(pile(stack[s])) = stack[s]
    BY <2>1, <2>2, PileWorth
  <2> QED
    BY <1>3, <2>3
<1>7. [s \in Seats |-> worth(f.bets[s]) + worth(f.stacks[s])] = [s \in Seats |-> bet[s] + stack[s]]
  BY <1>6
<1>8. sum_u([s \in Seats |-> bet[s] + stack[s]]) = sum_u(bet) + sum_u(stack)
  <2>1. bet \in [Seats -> Int] /\ stack \in [Seats -> Int]
    BY <1>1
  <2> QED
    BY <2>1, SumAdd
<1>9. chips_counted(f) = (sum_u(total) - sum_u(bet)) + (sum_u(bet) + sum_u(stack))
  BY <1>5, <1>7, <1>8 DEF chips_counted
<1>10. escrow = sum_u(stack) + BOND * count_b(occupied) + sum_u(total)
  BY ChipsBrought
<1>11. BOND * count_b(occupied) \in Int
  <2>1. BOND \in Int /\ count_b(occupied) \in Int
    BY StakesAssumption, CountB DEF BOND, occupied
  <2> QED
    BY <2>1
<1> QED
  BY <1>2, <1>4, <1>9, <1>10, <1>11

\* When a deal is over the scene shows how it ended.
LEMMA EndSeen ==
    ASSUME ShareInv, FinishedOpen, AllDealtIn, KeysFollowed, phase = "done", offender = NONE,
           Told(ledger_now)
    PROVE  /\ view.mine = (you \notin folded \/ shownCards(ledger_now, you))
           /\ count_b(live(folded)) > 1 => view.board = 5
<1> DEFINE l == ledger_now
           t == tableFrom(l, you, {})
<1>1. /\ l.phase = "done" /\ l.in_deal = in_deal /\ l.folded = folded /\ l.street = street
      /\ l.n_players = n_players /\ l.shares_posted = shares_posted
      /\ hole_positions(l, you) = own_positions(you)
  BY DEF ledger_now, hole_positions, own_positions
<1>2. Roster /\ in_deal \in SUBSET Seats /\ ShareOrder
  BY DEF ShareInv, DeckInv, PrepInv, TypeInv, TypeOK, RosterTypes, DeckInOrder, Roster
<1>3. you \in in_deal
  BY TableSeats DEF AllDealtIn
<1>4. key_holders(keys) = in_deal /\ complete_seats = in_deal
  BY DEF FinishedOpen
<1>5. posted[you] = game.x[you]
  BY <1>2, <1>3, <1>4 DEF key_holders, KeysFollowed
<1>6. \A k \in in_deal : holes_shared(k) = others_holes(k)
  <2> SUFFICES ASSUME NEW k \in in_deal PROVE holes_shared(k) = others_holes(k)
    OBVIOUS
  <2>1. hole_shares[k] = need
    BY <1>4 DEF complete_seats
  <2> QED
    BY <1>2, <2>1, SharesBounded DEF ShareOrder, SharesCounted
<1>7. holeCards(l, you)
  <2>1. \A k \in in_deal \ {you} : own_positions(you) \subseteq others_holes(k)
    BY <1>2, <1>3, HolePositions
  <2>2. \A pos \in own_positions(you), k \in in_deal \ {you} : <<pos, k>> \in shares_posted
    BY <1>6, <2>1 DEF holes_shared
  <2> HIDE DEF l
  <2> QED
    BY <1>1, <2>2 DEF holeCards, openCard
<1> HIDE DEF l
<1>8. t.mine = TRUE
  <2>1. t.mine = (opened(l) /\ you \in l.in_deal /\ holeCards(l, you))
    BY DEF tableFrom
  <2> QED
    BY <1>1, <1>3, <1>7, <2>1 DEF opened
<1>9. you \in t.inHand <=> you \notin folded \/ shownCards(l, you)
  <2>1. t.inHand = live_in(l) \cup {i \in in_deal : shownCards(l, i)}
    BY <1>1, Zenon DEF tableFrom, opened
  <2> QED
    BY <1>1, <1>3, <2>1 DEF live_in
<1>10. view.mine = (t.mine /\ game.x[you] = posted[you] /\ you \in t.inHand) /\ view.board = t.board
  BY DEF Told, l
<1>11. ASSUME count_b(live(folded)) > 1 PROVE t.board = 5
  <2>1. street = 3 /\ released(folded, 3, board_shares)
    BY <1>11 DEF FinishedOpen
  <2>2. ASSUME NEW k \in in_deal PROVE board_shared(k) = Board
    <3>1. board_shares[k] >= 5
      BY <1>2, <2>1 DEF ShareOrder, BoardIn, released, live, board_len
    <3> QED
      BY <1>2, <3>1, SharesBounded DEF ShareOrder, SharesCounted
  <2>3. \A pos \in Board, k \in in_deal : <<pos, k>> \in shares_posted
    BY <2>2 DEF board_shared
  <2>4. board_len(street) = 5 /\ Board = 2 * n_players..2 * n_players + board_len(street) - 1
    <3>1. n_players \in Int /\ board_len(0) = 0 /\ board_len(3) = 5
      BY <1>2 DEF board_len, Roster, RosterTypes
    <3>2. Board = 2 * n_players + board_len(0)..2 * n_players + board_len(3) - 1
      BY DEF Board, board_positions
    <3> QED
      BY <2>1, <3>1, <3>2
  <2> DEFINE out == 2 * l.n_players..2 * l.n_players + board_len(l.street) - 1
  <2>5. out = Board
    BY <1>1, <2>4
  <2>6. t.board = IF opened(l) /\ \A pos \in out : openCard(l, pos, {}) THEN board_len(l.street) ELSE 0
    BY DEF tableFrom
  <2> HIDE DEF out
  <2>7. \A pos \in out : openCard(l, pos, {})
    BY <1>1, <2>3, <2>5 DEF openCard
  <2> QED
    BY <1>1, <2>4, <2>6, <2>7 DEF opened
<1> HIDE DEF t
<1>12. view.mine = (you \notin folded \/ shownCards(l, you))
  BY <1>5, <1>8, <1>9, <1>10
<1> QED
  BY <1>10, <1>11, <1>12 DEF l

\* While you or a bot are waited for the chips on the felt are all the players brought, as
\* long as every pile has room for its chips; and when a deal is over the scene shows your
\* cards, unless you folded and kept them to yourself, and the whole board of a showdown:
\* what tableFrom reads off the ledger was published after the last call that changed it,
\* and every share it takes is there.  publish of referee/contract.ts, tableFrom of
\* referee/rules.ts, update of scene/table-view.ts and ChipPile of scene/chips.ts.
THEOREM SceneTold ==
    ASSUME Nat \subseteq Amounts
    PROVE  RoomSpec => [](FeltFits => SceneToldTheDeal)
<1>1. RoomInit => SceneInv
  <2> SUFFICES ASSUME RoomInit PROVE SceneInv
    OBVIOUS
  <2>1. SchedInv /\ EntryInv /\ HandsInv /\ EndInv
    BY SchedInitially, EntryHolds, HandsInitially, EndInitially DEF RoomInit
  <2>2. PotInv /\ ViewTold
    BY DEF RoomInit, PotInv, ViewTold, Started
  <2>3. AllDealtIn
    BY DEF RoomInit, Init, NeverDealt, AllDealtIn
  <2> QED
    BY <2>1, <2>2, <2>3 DEF SceneInv
<1>2. SceneInv /\ [RoomNext]_pageVars => SceneInv'
  <2> SUFFICES ASSUME SceneInv, [RoomNext]_pageVars PROVE SceneInv'
    OBVIOUS
  <2>1. PracticeInv /\ TimerInv /\ [Next]_vars
    BY PracticePreserved DEF SceneInv, SchedInv
  <2>2. SchedInv' /\ EntryInv' /\ HandsInv' /\ EndInv'
    BY <2>1, SchedPreserved, EntryHolds, HandsPreserved, EndPreserved DEF SceneInv
  <2>3. PotInv' /\ AllDealtIn' /\ ViewTold'
    BY <2>1, PotPreserved, DealtInPreserved, ViewPreserved DEF SceneInv
  <2> QED
    BY <2>2, <2>3 DEF SceneInv
<1>3. SceneInv => (FeltFits => SceneToldTheDeal)
  <2> SUFFICES ASSUME SceneInv, FeltFits PROVE SceneToldTheDeal
    OBVIOUS
  <2>1. /\ ShareInv /\ BetsInPot /\ NobodysChips /\ FinishedOpen /\ AllDealtIn /\ KeysFollowed
        /\ PracticeOrder /\ TimerSet /\ ViewTold /\ (game.at = "waiting" => PotFollowed)
    BY DEF SceneInv, SchedInv, SchedOrder, TimerInv, PracticeInv, EndInv, PotInv
  <2>2. ASSUME game.timer \in {"you", "bot"}
        PROVE  chips_counted(view.felt) = escrow - BOND * count_b(occupied)
    <3>1. phase = "playing" /\ Told(ledger_now)
      BY <2>1, <2>2 DEF PracticeOrder, TimerSet, ViewTold
    <3> QED
      BY <2>1, <3>1, ChipsSeen
  <2>3. ASSUME game.timer = "next"
        PROVE  /\ view.mine = (you \notin folded \/ shownCards(ledger_now, you))
               /\ count_b(live(folded)) > 1 => view.board = 5
    <3>1. phase = "done" /\ Told(ledger_now) /\ offender = NONE
      BY <2>1, <2>3 DEF PracticeOrder, TimerSet, ViewTold, PotFollowed
    <3> QED
      BY <2>1, <3>1, EndSeen
  <2> QED
    BY <2>2, <2>3 DEF SceneToldTheDeal
<1> QED
  BY <1>1, <1>2, <1>3, PTL DEF RoomSpec

===============================================================================
