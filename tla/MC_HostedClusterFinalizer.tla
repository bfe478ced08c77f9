--------------------- MODULE MC_HostedClusterFinalizer ---------------------
(* Instance of the teardown for TLC: the timeout fires after the clock   *)
(* passes 2, one fault (a failed store call or a restart) and one watch  *)
(* event may happen.                                                     *)
EXTENDS HostedClusterFinalizer

MCDeletionTimeout == 2
MCMaxTime == 3
MCMaxFaults == 1
MCMaxEvents == 1
=============================================================================
