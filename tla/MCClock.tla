------------------------------ MODULE MCClock ------------------------------
(***************************************************************************)
(* One heads-up deal against a clock fine enough to tell a stated time from*)
(* the block's, the slack, the act clock and the time bank apart.          *)
(***************************************************************************)
EXTENDS SeatedTable

ClockInit == SeatedInit(<<ann, bob>>, <<MAX_BUY_IN, MAX_BUY_IN>>)

ClockSpec == ClockInit /\ [][Tick \/ DealCall]_vars
==============================================================================
