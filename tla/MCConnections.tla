---------------------------- MODULE MCConnections ----------------------------
(***************************************************************************)
(* The workloads: three connections compete for two permits; two of them   *)
(* and one of another user while accepts fail and the endpoint stops; one  *)
(* client sends frames of every size to a service that degrades; one asks  *)
(* again and again while the clock moves both ways; one follower of a job  *)
(* polls its events over one connection, or over two in turn.              *)
(***************************************************************************)
EXTENDS Connections

CONSTANTS c1, c2, c3, c4

MCConns == {c1, c2, c3, c4}
MCForeign == {c4}

Quiet == [conns |-> {}, requests |-> 0, sizes |-> {1}, kind |-> "other",
          answers |-> {"result"}, errors |-> 0,
          sequential |-> FALSE, stops |-> FALSE, degrades |-> FALSE, clocks |-> FALSE]

MCWorkloads ==
    {[Quiet EXCEPT !.conns = {c1, c2, c3}, !.requests = 1],
     [Quiet EXCEPT !.conns = {c1, c2, c4}, !.requests = 1, !.errors = 1, !.stops = TRUE],
     [Quiet EXCEPT !.conns = {c1}, !.requests = 2, !.sizes = {0, 1, 2}, !.degrades = TRUE,
                   !.answers = {"result", "error", "oversized"}, !.stops = TRUE],
     [Quiet EXCEPT !.conns = {c1}, !.requests = 4, !.clocks = TRUE],
     [Quiet EXCEPT !.conns = {c1}, !.requests = 3, !.kind = "subscribe"],
     [Quiet EXCEPT !.conns = {c1, c2}, !.requests = 1, !.kind = "subscribe",
                   !.sequential = TRUE]}
=============================================================================
