----------------------------- MODULE JobLedger -----------------------------
(***************************************************************************)
(* What the durable job store promises its clients, without any mechanism. *)
(* Each (session, idempotency key) is a line of a ledger.  A line is       *)
(* written once, by accepting a submission under a job number nobody has   *)
(* used; it is settled at most once; it is never erased.  Several lines    *)
(* may be settled together (a restart or a shutdown does that).            *)
(***************************************************************************)
EXTENDS Naturals

CONSTANTS
    LineKeys,    \* the pairs <<session, idempotency key>>
    LineParams,  \* what a submission asked for
    LineJobs     \* job numbers

VARIABLE ledger

Outcomes == {"pending", "completed", "failed", "cancelled"}
Blank == [job |-> 0]
Line == [job : LineJobs, params : LineParams, outcome : Outcomes]

LedgerInit == ledger = [ik \in LineKeys |-> Blank]

\* A fresh job number for a blank line.
Accept(ik, j, p) ==
    /\ ledger[ik] = Blank
    /\ \A other \in LineKeys : ledger[other].job # j
    /\ ledger' = [ledger EXCEPT ![ik] = [job |-> j, params |-> p, outcome |-> "pending"]]

\* The lines of `settled` get an outcome; every other line keeps its text.
Settle(settled) ==
    /\ \A ik \in settled : ledger[ik] # Blank /\ ledger[ik].outcome = "pending"
    /\ \E outcome \in [settled -> Outcomes \ {"pending"}] :
        ledger' = [ik \in LineKeys |->
                    IF ik \in settled THEN [ledger[ik] EXCEPT !.outcome = outcome[ik]]
                                      ELSE ledger[ik]]

LedgerNext ==
    \/ \E ik \in LineKeys, j \in LineJobs, p \in LineParams : Accept(ik, j, p)
    \/ \E settled \in SUBSET LineKeys : Settle(settled)

LedgerSpec == LedgerInit /\ [][LedgerNext]_ledger
=============================================================================
