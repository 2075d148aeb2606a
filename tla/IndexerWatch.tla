---------------------------- MODULE IndexerWatch ----------------------------
(***************************************************************************)
(* The page's subscription to a table: watchContract of                    *)
(* src/src/live/indexer.ts over a WebSocket that closes, or says it is     *)
(* done, whenever it likes.                                                *)
(***************************************************************************)
EXTENDS Integers

CONSTANT MaxBackoff     \* bound: the doublings of the pause, 30 seconds in the code

VARIABLE watch

\* `socket` is "none", "connecting", "greeted" (connection_init sent), "subscribed", "silent"
\* once the server refused the subscription, or "closing".  `retry`: a timer to open again.
NotWatching == [on |-> FALSE, socket |-> "none", retry |-> FALSE, backoff |-> 0, stopped |-> FALSE]
Watching == [NotWatching EXCEPT !.on = TRUE, !.socket = "connecting"]

from(sockets) == watch.socket \in sockets

\* The socket opens: it is greeted.
Opens == from({"connecting"}) /\ watch' = [watch EXCEPT !.socket = "greeted"]

\* connection_ack: the pause starts small again, and the table is subscribed to.
Acknowledged ==
    /\ from({"greeted"})
    /\ watch' = [watch EXCEPT !.socket = "subscribed", !.backoff = 0]

\* error: reported, nothing more.
SubscriptionRefused == from({"subscribed"}) /\ watch' = [watch EXCEPT !.socket = "silent"]

\* complete: the server is done, and the page closes.
Completed == from({"subscribed"}) /\ watch' = [watch EXCEPT !.socket = "closing"]

min_pause(n) == IF n < MaxBackoff THEN n ELSE MaxBackoff

\* Mutant: only a socket that failed to connect is opened again.
onclose_connecting(w) ==
    IF w.stopped \/ w.socket # "connecting" THEN [w EXCEPT !.socket = "none"]
    ELSE [w EXCEPT !.socket = "none", !.retry = TRUE, !.backoff = min_pause(@ + 1)]

\* Closed, from whichever end: opened again after a pause that doubles.
onclose(w) ==
    IF w.stopped THEN [w EXCEPT !.socket = "none"]
    ELSE [w EXCEPT !.socket = "none", !.retry = TRUE, !.backoff = min_pause(@ + 1)]

Closed == ~from({"none"}) /\ watch' = onclose(watch)

OpensAgain ==
    /\ watch.retry
    /\ watch' = [watch EXCEPT !.retry = FALSE, !.socket = "connecting"]

\* Nobody calls the way to stop but LiveReferee.stop.
Stop ==
    /\ watch.on /\ ~watch.stopped
    /\ watch' = [watch EXCEPT !.stopped = TRUE, !.retry = FALSE,
                              !.socket = IF @ = "none" THEN @ ELSE "closing"]

WatchStep == Opens \/ Acknowledged \/ SubscriptionRefused \/ Completed \/ Closed \/ OpensAgain

\* A closed socket is never the end of it: while the page watches there is a socket, or a
\* timer to open one, never both; once stopped, none is opened again.  A socket whose
\* subscription the indexer ended stays, and the polls go on without it.
NeverDeaf ==
    watch.on => /\ ~watch.stopped => (watch.socket = "none") = watch.retry
                /\ watch.stopped => watch.socket \in {"none", "closing"} /\ ~watch.retry
==============================================================================
