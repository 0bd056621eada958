-------------------------- MODULE MCDaemonService --------------------------
(* Instances of DaemonService for TLC. *)
EXTENDS DaemonService, TLC

CONSTANTS p, q

\* The pack p needs every thread, the job q one of them; memory is for one.
MCThreadsOf == p :> 2 @@ q :> 1
MCMemoryOf == p :> 1 @@ q :> 1
=============================================================================
