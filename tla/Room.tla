-------------------------------- MODULE Room --------------------------------
(***************************************************************************)
(* The page, from the menu to the table: src/src/room.ts after menu.ts.    *)
(* The room's characters load while you walk in and sit down; once you are *)
(* in your chair the referee starts: the Practice one, or the Live one,    *)
(* whose subscription is all of it followed here (LiveReferee has the      *)
(* rest).  Frames come when the browser draws, so any time may pass between*)
(* two of them.                                                            *)
(***************************************************************************)
EXTENDS Menu, PracticeReferee, IndexerWatch

VARIABLES
    avatars,        \* each chair's character: "loading", "there" or "failed"
    entrance,       \* how far you are in: "outside", "loading", "walk", "pull", "step", "sit", "eyes", "seated"
    table_up        \* sitDown has run: the table is in the scene and the referee started

roomVars == <<avatars, entrance, table_up>>
pageVars == <<openingVars, menuVars, practiceVars, watch, roomVars>>

\* The chairs people come to: a bot's, or another player's.
chairs == at_table

YOU == IF entry.mode = "live" THEN entry.seat ELSE 0

\* The scene is made, and the characters are sent for.
enterRoom ==
    /\ entry.mode # "menu" /\ entrance = "outside"
    /\ entrance' = "loading"
    /\ avatars' = [i \in chairs \cup {YOU} |-> "loading"]
    /\ UNCHANGED <<openingVars, menuVars, practiceVars, watch, table_up>>

\* Mutant: whoever comes after you sat down gets no cards.
attachCards_early(v, i) == IF table_up THEN v ELSE attachHoleCards(v, i)

\* A character hands its cards over once there is a table to take them from.
attachCards(v, i) == IF table_up THEN attachHoleCards(v, i) ELSE v

AvatarLoads(i) ==
    /\ avatars[i] = "loading"
    /\ avatars' = [avatars EXCEPT ![i] = "there"]
    /\ IF i = YOU THEN entrance' = "walk" /\ UNCHANGED view
       ELSE view' = attachCards(view, i) /\ UNCHANGED entrance
    /\ UNCHANGED <<openingVars, menuVars, vars, game, posted, next_posted, bar, rail, watch, table_up>>

\* Reported, and the chair stays empty.
AvatarFails(i) ==
    /\ avatars[i] = "loading"
    /\ avatars' = [avatars EXCEPT ![i] = "failed"]
    /\ UNCHANGED <<openingVars, menuVars, practiceVars, watch, entrance, table_up>>

stages == <<"walk", "pull", "step", "sit", "eyes", "seated">>

\* A frame of the entrance: this stage goes on, or time is in a later one.
entranceFrame ==
    /\ \E i, j \in DOMAIN stages : i < j /\ entrance = stages[i] /\ entrance' = stages[j]
    /\ UNCHANGED <<openingVars, menuVars, practiceVars, watch, avatars, table_up>>

\* sitDown: whoever is there is handed their cards, the controls and the scene are
\* subscribed to an empty table, and the referee starts.
sitDown ==
    /\ entrance = "seated" /\ ~table_up
    /\ table_up' = TRUE
    /\ LET t == emptyTable(YOU) IN
       /\ view' = update_view([EmptyView EXCEPT !.hands = {i \in DOMAIN avatars : avatars[i] = "there"}], t)
       /\ bar' = update(Unlit, t.legal, t.canShow) /\ rail' = rail_update(Unlit, t.legal, t.canShow)
    /\ IF entry.mode = "live" THEN watch' = Watching /\ UNCHANGED game
       ELSE game' = Started /\ UNCHANGED watch
    /\ UNCHANGED <<openingVars, menuVars, vars, posted, next_posted, avatars, entrance>>

\* The render loop: cards in the air come to rest in the order they were thrown.
Animate ==
    /\ table_up
    /\ \E landed \in 1..Len(view.flights) : view' = animate(view, landed)
    /\ UNCHANGED <<openingVars, menuVars, vars, game, posted, next_posted, bar, rail, watch, roomVars>>

\* What the Practice referee does of its own.
RefereeStep ==
    /\ Join \/ BuyBack \/ StartDeal \/ Drive \/ Decide \/ AutoFold \/ BotActs \/ NextDeal
    /\ UNCHANGED <<openingVars, menuVars, watch, roomVars>>

Clicks ==
    /\ Act(buttons(bar)) \/ Act(rail_buttons(rail)) \/ Show \/ StepAmount
    /\ UNCHANGED <<openingVars, menuVars, watch, roomVars>>

AtMenu == MenuStep /\ UNCHANGED <<practiceVars, watch, roomVars>>

Socket ==
    /\ WatchStep \/ Stop
    /\ UNCHANGED <<openingVars, menuVars, practiceVars, roomVars>>

RoomStep ==
    \/ enterRoom \/ entranceFrame \/ sitDown \/ Animate
    \/ \E i \in DOMAIN avatars : AvatarLoads(i) \/ AvatarFails(i)

RoomInit ==
    /\ MenuInit
    /\ Init
    /\ game = [Started EXCEPT !.at = "off"]
    /\ posted = [s \in Seats |-> NoKey] /\ next_posted = posted
    /\ bar = Unlit /\ rail = Unlit /\ view = EmptyView
    /\ watch = NotWatching
    /\ avatars = <<>> /\ entrance = "outside" /\ table_up = FALSE

------------------------------------------------------------------------------
(* Properties. *)

\* Every character in the room, however late it came, holds its own cards once there is
\* a table; the dealer throws to nobody else.
EveryoneHoldsCards ==
    table_up => /\ view.hands = {i \in DOMAIN avatars : avatars[i] = "there"}
                /\ \A i \in DOMAIN view.flights : view.flights[i][1] \in view.hands
==============================================================================
