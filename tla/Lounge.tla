------------------------------- MODULE Lounge -------------------------------
(***************************************************************************)
(* The house band (src/scene/lounge.ts): every page plays it for itself,   *)
(* bar by bar, from the hour on the wall clock, "so two players in the     *)
(* room hear the same bar of the same set".  Nothing is sent between them. *)
(*                                                                         *)
(* Time is counted in units of which an hour has Hour and a bar of hour h  *)
(* BarUnits[h]: the page counts seconds in floating point, where a bar is  *)
(* 240 / tempo of them and an hour is 15 tempo bars.  What the sums of     *)
(* bar lengths are off by is Hair, which is small beside a bar.  The notes *)
(* of a bar, some of them drawn at random, are left out.                   *)
(***************************************************************************)
EXTENDS Integers, Sequences, FiniteSets

CONSTANTS
    Listeners,  \* the pages in the room
    Hour,       \* units of time in an hour
    BarUnits,   \* units in a bar, by the hour of the day
    Hair,       \* units by which a bar's time may be off
    Ahead,      \* units a bar is scheduled before it sounds
    TimerLate,  \* units the page's timer may be late
    Opening,    \* when the model's evening starts, in units
    Closing     \* and ends

ASSUME LoungeAssumption ==
    /\ Hour \in Nat \ {0}
    /\ BarUnits \in [0..23 -> Nat \ {0}]
    /\ \A h \in 0..23 : Hour % BarUnits[h] = 0 /\ 2 * Hair < BarUnits[h]
    /\ {Hair, Ahead, TimerLate, Opening, Closing} \subseteq Nat
    /\ TimerLate < Ahead

VARIABLES
    wall,   \* the clock on the wall
    band    \* each page's scheduler

loungeVars == <<wall, band>>

------------------------------------------------------------------------------
(* The day's sets. *)

\* How many bars each tune goes round in.
TUNES == <<4, 4, 12, 4, 8, 8>>

\* The set of an hour: its key, the tunes of its A and B sections, who is on the
\* stand.
setFor(hour) ==
    LET h == hour % 24
        night == h < 6
        evening == h >= 18
    IN [hour |-> h,
        key |-> (h * 7) % 12,
        a |-> <<0, 1, 3, 4, 5, 2>>[(h % 6) + 1],
        b |-> <<5, 3, 0, 1, 2, 4>>[(h \div 4) + 1],
        ride |-> ~night \/ h >= 4,
        piano |-> ~(night /\ h % 2 = 1),
        vibes |-> ~(evening /\ h % 3 = 2)]

\* Bar n of a chorus: AABA, eight bars a section, over the set's two tunes.
section(set, n) ==
    LET tune == IF (n \div 8) % 4 = 2 THEN set.b ELSE set.a
    IN [tune |-> tune, at |-> n % TUNES[tune + 1]]

chordAt(set, n) == [chord |-> section(set, n), next |-> section(set, n + 1)]

\* A bar as it is handed to the voices, to sound from time t0.
bar(set, t0, n) == [at |-> t0, n |-> n, set |-> set, chords |-> chordAt(set, n)]

------------------------------------------------------------------------------
(* The scheduler. *)

hourOf(t) == (t \div Hour) % 24
intoHour(t) == t % Hour
barLength(set) == BarUnits[set.hour]
rounded(a, b) == (2 * a + b) \div (2 * b)

\* Mutant: the first bar a whole bar from now.
first_bar_from_now(now) == now + barLength(setFor(hourOf(now)))

\* The bar boundary ahead.
first_bar(now) ==
    LET length == barLength(setFor(hourOf(now)))
    IN now - (intoHour(now) % length) + length

\* The boundary after the one a bar was scheduled for, where the sum of their
\* lengths puts it: off by a hair, or by none when the hour begins.
next_bar(t, off) ==
    LET set == setFor(hourOf(t))
        length == barLength(set)
        after == rounded(t + length, length) * length + off
    IN IF hourOf(after) # set.hour THEN after - intoHour(after) ELSE after

\* The bars scheduled from time t on, until one lies further ahead than is played.
scheduled(now, from, off) ==
    LET play[t \in from..(now + Ahead + Hour)] ==
            IF t > now + Ahead THEN [next |-> t, bars |-> {}]
            ELSE LET set == setFor(hourOf(t))
                     rest == play[next_bar(t, off)]
                 IN [next |-> rest.next,
                     bars |-> {bar(set, t, rounded(intoHour(t), barLength(set)))}
                                  \cup rest.bars]
    IN play[from]

\* A page that has not come into the room, and one whose band has just been started.
Outside == [plays |-> FALSE, next |-> {}, since |-> 0, ran |-> 0, muted |-> FALSE, bars |-> {}]

startLounge(p) ==
    /\ ~band[p].plays
    /\ band' = [band EXCEPT ![p] = [Outside EXCEPT !.plays = TRUE, !.ran = wall]]
    /\ UNCHANGED wall

\* The timer: every bar that is due a place in the next seconds.
Interval(p) ==
    \E off \in -Hair..Hair :
        LET from == IF band[p].next = {} THEN first_bar(wall)
                    ELSE CHOOSE t \in band[p].next : TRUE
            done == scheduled(wall, from, off)
        IN /\ band[p].plays
           /\ band[p].ran # wall \/ band[p].next = {}
           /\ band' = [band EXCEPT ![p].next = {done.next},
                                   ![p].since = IF band[p].next = {} THEN from ELSE @,
                                   ![p].ran = wall,
                                   ![p].bars = @ \cup done.bars]
           /\ UNCHANGED wall

\* Muting closes the way to the speakers; the band plays on.
setMuted(b, muted) == [b EXCEPT !.muted = muted]

\* The note in the corner of the page, or the M key.
Mute(p) ==
    /\ band[p].plays
    /\ band' = [band EXCEPT ![p] = setMuted(@, ~@.muted)]
    /\ UNCHANGED wall

\* A unit passes, if no page's timer is later than it may be.  Bars that have
\* sounded are forgotten.
WallClock ==
    /\ wall < Closing
    /\ \A p \in Listeners : band[p].plays => wall - band[p].ran < TimerLate
    /\ wall' = wall + 1
    /\ band' = [p \in Listeners |->
                   [band[p] EXCEPT !.bars = {b \in @ : b.at >= wall' - 2 * Hair}]]

LoungeInit == wall = Opening /\ band = [p \in Listeners |-> Outside]

LoungeStep ==
    \/ \E p \in Listeners : startLounge(p) \/ Interval(p) \/ Mute(p)
    \/ WallClock

------------------------------------------------------------------------------

playing == {p \in Listeners : band[p].plays /\ band[p].next # {}}
upcoming(p) == CHOOSE t \in band[p].next : TRUE

\* "Two players in the room hear the same bar of the same set" (lounge.ts, its first
\* comment): of two pages whose bands are playing, whenever each came in and however
\* late its timer ran, each has the other's bars, of the same set and the same place
\* in its chorus, a hair apart at most; and neither lets the clock run past a bar it
\* has not scheduled.  A bar numbered past the last of its hour is not one of the
\* set's: the page whose sums fall a hair short of the hour plays one more.
BandTogether ==
    \A p, q \in playing :
        /\ upcoming(p) >= wall
        /\ \A b \in band[p].bars :
               /\ b.n * barLength(b.set) < Hour
               /\ b.at >= wall /\ b.at + Hair >= band[q].since
               /\ b.at + 2 * Hair < upcoming(q)
               => \E c \in band[q].bars :
                      /\ c.set = b.set /\ c.n = b.n /\ c.chords = b.chords
                      /\ c.at \in (b.at - 2 * Hair)..(b.at + 2 * Hair)
=============================================================================
