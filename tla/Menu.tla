-------------------------------- MODULE Menu --------------------------------
(***************************************************************************)
(* The main menu: src/src/ui/menu.ts with the profiles of ui/profiles.ts.  *)
(* Who you are, the wallet, and the buttons, none of which waits for what  *)
(* another started; the first that leaves for the room decides the entry.  *)
(***************************************************************************)
EXTENDS TableOpening, Wallet, Creator

CONSTANT MaxEdits       \* bound: changes to the profiles

VARIABLES
    profiles,       \* kept in this browser: the active identity and the plates' list
    wallet,         \* the network the page's wallet is connected on, or "none"
    entry,          \* what the menu resolved to: who enters the room, and how
    edits           \* changes made to the profiles so far

menuVars == <<profiles, wallet, entry, edits, creator>>

NoEntry == [mode |-> "menu", who |-> Nobody, seat |-> NONE]

listed == ToSet(profiles.list)
edit(p) == edits < MaxEdits /\ edits' = edits + 1 /\ profiles' = p
                /\ UNCHANGED <<openingVars, wallet, entry>>

\* The creator made a profile: a fresh identity, in use at once.
createProfile(who, look) ==
    /\ who \notin listed /\ \A i \in DOMAIN calls : calls[i].who # who
    /\ edit([active |-> who, list |-> Append(profiles.list, who),
             look |-> [profiles.look EXCEPT ![who] = look]])

\* A new look for a plate that is still there; the identity stays.
updateProfile(who, look) ==
    edit(IF who \in listed THEN [profiles EXCEPT !.look[who] = look] ELSE profiles)

activate(who) == edit([profiles EXCEPT !.active = who])

\* A plate is taken down, and its identity with it; the first that is left comes into use.
removeProfile(who) ==
    LET left == SelectSeq(profiles.list, LAMBDA p : p # who) IN
    /\ who \in listed
    /\ edit([list |-> left, look |-> [profiles.look EXCEPT ![who] = NoModel],
             active |-> IF profiles.active # who THEN profiles.active
                        ELSE IF left = <<>> THEN Nobody ELSE left[1]])

activeProfile == IF profiles.active \in listed THEN profiles.active ELSE Nobody

------------------------------------------------------------------------------
(* The plates.  The creator covers the menu while it is open. *)

\* The plate with a cross, or the one with a plus.
AddPlate == edits < MaxEdits /\ showCreator(Nobody, DEFAULT_LOOK)

\* A plate: put in use, or, if it is, back to the creator.
ClickPlate(who) ==
    /\ ~creator.open /\ who \in listed
    /\ IF who # profiles.active THEN activate(who) /\ UNCHANGED creator
       ELSE /\ edits < MaxEdits /\ showCreator(who, profiles.look[who])
            /\ UNCHANGED <<openingVars, profiles, wallet, entry, edits>>

TakeDown(who) == ~creator.open /\ removeProfile(who) /\ UNCHANGED creator

\* The creator's button, or "Never mind".
SubmitLook ==
    /\ close
    /\ IF creator.subject = Nobody
       THEN \E who \in Identities : createProfile(who, creator.model)
       ELSE updateProfile(creator.subject, creator.model)

CancelLook == close /\ UNCHANGED <<openingVars, profiles, wallet, entry, edits>>

Plates ==
    \/ (AddPlate \/ CreatorStep) /\ UNCHANGED <<openingVars, profiles, wallet, entry, edits>>
    \/ SubmitLook \/ CancelLook
    \/ \E who \in Identities : ClickPlate(who) \/ TakeDown(who)

------------------------------------------------------------------------------
(* Into the room. *)

\* The first to leave the menu decides; what comes later is not looked at.
leave_menu(e) == entry' = IF entry = NoEntry THEN e ELSE entry

\* The button under your plate.
Go ==
    /\ entry = NoEntry /\ ~creator.open /\ activeProfile # Nobody
    /\ leave_menu([mode |-> "practice", who |-> activeProfile, seat |-> 0])
    /\ UNCHANGED <<openingVars, profiles, wallet, edits, creator>>

\* The page asks for each network in order, until the wallet agrees to one and all of it is
\* on it.  It may agree to none.
Connect ==
    /\ entry = NoEntry /\ wallet = "none"
    /\ \E i \in DOMAIN Networks : \E reply \in Replies(ToSet(Networks)) :
          connect(Networks[i], reply) /\ wallet' = Networks[i]
    /\ UNCHANGED <<openingVars, profiles, entry, edits, creator>>

\* Another network is asked for; the wallet may refuse, and stays.
SwitchNetwork(network) ==
    /\ entry = NoEntry /\ ~creator.open /\ wallet \notin {"none", network}
    /\ \E reply \in Replies(ToSet(Networks)) : connect(network, reply)
    /\ wallet' = network
    /\ UNCHANGED <<openingVars, profiles, entry, edits, creator>>

\* The live buttons need a wallet and a name.
Press ==
    /\ entry = NoEntry /\ ~creator.open /\ wallet # "none" /\ activeProfile # Nobody
    /\ Deploy(activeProfile, wallet) \/ JoinTable(activeProfile, wallet)
    /\ UNCHANGED menuVars

\* Mutant: the profile in use by then enters.
entry_of_active(c) == [mode |-> "live", who |-> activeProfile, seat |-> c.seat]

\* A seat taken: into the room with the identity and the seat of that call.
entry_of(c) == [mode |-> "live", who |-> c.who, seat |-> c.seat]

\* Calls go on, whatever else the player does.  One that ends with a seat leaves.
Calls ==
    /\ OpeningStep
    /\ LET took == {i \in DOMAIN calls : calls'[i] # calls[i] /\ calls'[i].what = "join"
                                         /\ calls'[i].at = "done"}
       IN IF took = {} THEN UNCHANGED entry
          ELSE \E i \in took : leave_menu(entry_of(calls'[i]))
    /\ UNCHANGED <<profiles, wallet, edits, creator>>

MenuInit ==
    /\ OpeningInit
    /\ profiles = [active |-> Nobody, list |-> <<>>, look |-> [who \in Identities |-> NoModel]]
    /\ wallet = "none" /\ entry = NoEntry /\ edits = 0 /\ creator = Unopened

MenuStep ==
    \/ entry = NoEntry /\ Plates
    \/ Go \/ Connect \/ Press \/ Calls
    \/ \E n \in ToSet(Networks) : SwitchNetwork(n)

------------------------------------------------------------------------------
(* Properties. *)

\* Whoever enters the room to play for money sits, under the identity they enter with,
\* in the seat the chain holds for it, whoever joined in the same block; and at a table
\* whose circuits are ours for good.
EntrySeated ==
    entry.mode = "live" => /\ live_table.owner[entry.seat] = entry.who
                           /\ live_table.locked /\ live_table.ours
==============================================================================
