------------------------------- MODULE MCPage -------------------------------
(***************************************************************************)
(* One page: the menu, a table opened and joined or a Practice game of two *)
(* deals against one bot.                                                  *)
(***************************************************************************)
EXTENDS Room

CONSTANTS ann, bob

\* Identities that must be in some order.
TwoNames == <<ann, bob>>
FourCircuits == <<"join", "start_deal", "act", "settle">>
TwoNetworks == <<"preview", "undeployed">>

\* Bound: the room is followed for one plate, with the first of the characters: in
\* Practice, for a page that opened no table; at a Live table, for one call.
Followed ==
    /\ edits = 1 /\ submitted = {} /\ ~creator.open
    /\ \A who \in Identities : profiles.look[who] \in {NoModel, DEFAULT_LOOK}
    /\ IF entry.mode = "live" THEN Len(calls) = 1 ELSE calls = <<>> /\ wallet = "none" /\ ~address

\* Bound: while the creator is open, the wallet is not connected and no call goes on.
Undisturbed == creator.open' => wallet' = "none" /\ calls' = <<>>

\* Bound: the menu's doings end when the room is entered, and characters have come, or
\* failed to, and a deal's first cards are in hand, before anyone bets on it.
Menus == entrance = "outside" /\ AtMenu /\ Undisturbed
Rooms == (entrance = "outside" => Followed) /\ RoomStep
Settling == phase = "playing" /\ (view.flights # <<>> \/ "loading" \in {avatars[i] : i \in DOMAIN avatars})
Plays == ~Settling /\ (RefereeStep \/ Clicks)

MCInit == RoomInit
MCNext == Menus \/ Rooms \/ Plays \/ Socket

MCSpec == MCInit /\ [][MCNext]_pageVars /\ WF_pageVars(Rooms) /\ WF_pageVars(~Settling /\ RefereeStep)

\* Bound: a game of MaxDeals deals.
played_out == deal_no = MaxDeals /\ game.timer = "next"
never_seated == YOU \in DOMAIN avatars /\ avatars[YOU] = "failed"

\* A Practice game goes on by itself, deal after deal, even if you never touch it; unless
\* your own character did not load, when you never sit down.
PracticeGoesOn ==
    entry.mode = "practice" /\ entrance # "outside" ~> played_out \/ never_seated
=============================================================================
