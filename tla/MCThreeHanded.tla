--------------------------- MODULE MCThreeHanded ---------------------------
(***************************************************************************)
(* One deal among three players, or heads up, whatever stacks they sat     *)
(* down with, with every player answering in time.                         *)
(***************************************************************************)
EXTENDS SeatedTable

CONSTANT cho

ThreeInit ==
    \E sitting \in {<<ann, bob>>, <<ann, bob, cho>>} :
        \E buys \in [DOMAIN sitting -> MIN_BUY_IN..MAX_BUY_IN] : SeatedInit(sitting, buys)

ThreeHandedSpec == ThreeInit /\ [][DealCall]_vars /\ PlayersRespond
==============================================================================
