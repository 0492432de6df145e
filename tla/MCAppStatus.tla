---------------------------- MODULE MCAppStatus -----------------------------
(* Two core threads, one virtual core thread and the state changer, started *)
(* once the set-up of the architecture is done.  The protocol does not      *)
(* depend on the architecture, so the threads run for one of them, Launched *)
(* (Nobody: for none).                                                      *)
EXTENDS AppStatus, Wiring

CONSTANT Launched

Launch == state = "running" /\ proc = Primary /\ arch = Launched

MCInit == AppInit /\ WiringInit
MCNext == (WiringNext /\ UNCHANGED appVars) \/ (Launch /\ AppNext /\ UNCHANGED wiringVars)
MCSpec == MCInit /\ [][MCNext]_<<appVars, wiringVars>> /\ AppFairness
=============================================================================
