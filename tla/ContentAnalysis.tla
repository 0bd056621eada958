--------------------------- MODULE ContentAnalysis ---------------------------
(***************************************************************************)
(* The analysis crate: a behaviour is one call of one of its three parts.  *)
(* They share no state; chunk ids and the drafts of micro files meet in    *)
(* assign_chunk_ids, and the checked results, orders and the sort are the  *)
(* same ones (Outcomes).                                                   *)
(***************************************************************************)
EXTENDS MicroFilePack, Fingerprints

vars == <<chunkVars, microVars, jobVars>>

Init ==
    \/ \E k \in ChunkCalls : ChunkInitWith(k) /\ MicroInitWith(NoCall) /\ FpInitWith(NoCall)
    \/ \E k \in MicroCalls : ChunkInitWith(NoCall) /\ MicroInitWith(k) /\ FpInitWith(NoCall)
    \/ \E k \in FingerprintCalls :
          ChunkInitWith(NoCall) /\ MicroInitWith(NoCall) /\ FpInitWith(k)

Next ==
    \/ ChunkNext /\ UNCHANGED <<microVars, jobVars>>
    \/ MicroNext /\ UNCHANGED <<chunkVars, jobVars>>
    \/ FpNext /\ UNCHANGED <<chunkVars, microVars>>

Spec == Init /\ [][Next]_vars
=============================================================================
