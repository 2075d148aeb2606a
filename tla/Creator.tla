------------------------------ MODULE Creator ------------------------------
(***************************************************************************)
(* The character creator of src/src/ui/creator.ts, over the menu: a        *)
(* character loads each time one is chosen, and loads end in any order.    *)
(* Of a look only the character is kept.                                   *)
(***************************************************************************)
EXTENDS Integers

CONSTANTS
    MODELS,     \* the characters there are
    MaxLoads    \* bound: characters chosen in one visit

ASSUME CreatorAssumption == MODELS # {} /\ MODELS \subseteq Nat \ {0} /\ MaxLoads \in Nat \ {0}

VARIABLE creator

NoModel == 0
DEFAULT_LOOK == CHOOSE m \in MODELS : \A k \in MODELS : m <= k

\* `subject` is whose look it is, `model` the one chosen, `loads` those under way, numbered up
\* to `loading`; `shown` the character on the stage, `failed` if the last chosen did not load.
Unopened == [open |-> FALSE, subject |-> "nobody", model |-> NoModel, loading |-> 0,
           loads |-> {}, shown |-> NoModel, failed |-> FALSE]

setModel(c, model) ==
    LET id == c.loading + 1 IN
    [c EXCEPT !.model = model, !.loading = id, !.failed = FALSE,
              !.loads = @ \cup {[id |-> id, model |-> model]}]

showCreator(subject, look) ==
    /\ ~creator.open
    /\ creator' = setModel([Unopened EXCEPT !.open = TRUE, !.subject = subject], look)

\* A radio button of the builds.
Choose(model) ==
    /\ creator.open /\ model # creator.model /\ creator.loading < MaxLoads
    /\ creator' = setModel(creator, model)

\* Mutant: whichever loads last is shown.
latest_any(c, load) == TRUE

\* "A later choice won" otherwise.
latest(c, load) == load.id = c.loading

ModelLoads(load) ==
    /\ load \in creator.loads
    /\ creator' = [creator EXCEPT !.loads = @ \ {load},
                                  !.shown = IF latest(creator, load) THEN load.model ELSE @]

\* Nobody is told.
ModelFails(load) ==
    /\ load \in creator.loads
    /\ creator' = [creator EXCEPT !.loads = @ \ {load},
                                  !.failed = @ \/ load.id = creator.loading]

close == creator.open /\ creator' = Unopened

CreatorStep ==
    \/ \E model \in MODELS : Choose(model)
    \/ \E load \in creator.loads : ModelLoads(load) \/ ModelFails(load)

------------------------------------------------------------------------------

\* Whatever order characters load in, the one turning on the stage once none is awaited
\* is the one chosen last, the look that would be saved; unless that one did not load.
CreatorShowsChoice ==
    creator.open /\ creator.loads = {} => creator.failed \/ creator.shown = creator.model
==============================================================================
