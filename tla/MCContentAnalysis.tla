-------------------------- MODULE MCContentAnalysis --------------------------
(***************************************************************************)
(* Calls over short objects of bytes 0 and 1 with limits that are just     *)
(* enough, one too small, or out of reach.                                 *)
(***************************************************************************)
EXTENDS ContentAnalysis

Bytes == {0, 1}

-----------------------------------------------------------------------------
(* Chunking: every object of up to five bytes                              *)

Cfg(count, size) ==
    [min |-> 1, avg |-> 2, max |-> 3, fixed |-> 2, micro |-> 2, target |-> 3,
     chunks |-> count, bytes |-> size, meta |-> 999, path |-> 3]

Cfgs == {Cfg(9, 9), Cfg(2, 9), Cfg(9, 4), [Cfg(9, 9) EXCEPT !.avg = 3]}
Ends == {<<>>, <<0>>, <<3>>, <<5>>, <<1, 5>>, <<4, 5>>, <<2, 3, 4>>, <<2, 2>>, <<3, 1>>, <<6>>}

Call(kind, data, ends, base, cfg, others) ==
    [kind |-> kind, data |-> data, ends |-> ends,
     origin |-> [entry |-> 1, object |-> 1, base |-> base], cfg |-> cfg, others |-> others]
Other(entry, offset) ==
    [entry |-> entry, object |-> 1, offset |-> offset, len |-> 0, method |-> "MicroFile"]

MCChunkCalls ==
    {Call(k, d, <<>>, b, c, <<Other(0, 0), Other(1, 4)>>) :
        k \in {"fastcdc", "fixed", "fastcdc_reader"}, d \in BoundedSeq(Bytes, 5), b \in {0, 6},
        c \in Cfgs}
    \cup {Call(k, d, e, 0, c, <<>>) :
        k \in {"structural", "structural_reader"}, d \in BoundedSeq(Bytes, 5), e \in Ends,
        c \in Cfgs}

-----------------------------------------------------------------------------
(* Micro files: up to three of seven inputs in any order, five that fit    *)
(* together, and one plan damaged twice                                    *)

File(id, path, size, mtime, mode, family, isolated) ==
    [id |-> id, path |-> path, size |-> size, mtime |-> mtime, mode |-> mode,
     hash |-> <<"hash", id>>, family |-> family, prefix |-> <<Head(path)>>, ext |-> <<>>,
     similarity |-> 0, isolated |-> isolated]

Files ==
    {File(1, <<1, 2>>, 1, 2, 2, 0, FALSE), File(2, <<1, 2, 1>>, 2, -1, 1, 0, FALSE),
     File(3, <<1>>, 0, 0, 2, 1, FALSE), File(4, <<2>>, 3, 0, 1, 0, FALSE),
     File(5, <<2, 2>>, 1, 0, 1, 0, TRUE), File(1, <<2, 1>>, 1, 0, 1, 0, FALSE),
     File(6, <<1, 2>>, 2, 1, 3, 0, FALSE)}

Five == {s \in [1 .. 5 -> Files] : \A i, j \in 1 .. 5 :
            i # j => s[i].id # s[j].id /\ s[i].path # s[j].path}

MicroCall(inputs, cfg, damages) == [inputs |-> inputs, cfg |-> cfg, damages |-> damages]

MCMicroCalls ==
    {MicroCall(s, c, 0) : s \in BoundedSeq(Files, 3),
        c \in {Cfg(9, 9), Cfg(2, 9), Cfg(9, 2), [Cfg(9, 9) EXCEPT !.meta = 160],
               [Cfg(9, 9) EXCEPT !.path = 2]}}
    \cup {MicroCall(s, Cfg(9, 9), 0) : s \in Five}
    \cup {MicroCall(<<File(1, <<1, 2>>, 1, 2, 2, 0, FALSE), File(2, <<1, 2, 1>>, 1, -1, 1, 0, FALSE),
                      File(0, <<1>>, 2, 0, 2, 1, FALSE)>>, Cfg(9, 9), 2)}

-----------------------------------------------------------------------------
(* Fingerprints                                                            *)

FpCfg(sub, super, window, policy) ==
    [policy |-> policy, sub |-> sub, super |-> super, window |-> window, chunk |-> 8,
     chunks |-> 3, total |-> 12, meta |-> 3, work |-> 400, par |-> 2]

FpCfgs == {FpCfg(2, 1, 2, "Standard"), FpCfg(2, 2, 3, "Paranoid"), FpCfg(4, 2, 1, "Standard")}
TooLarge == [FpCfg(2, 1, 2, "Standard") EXCEPT !.chunk = 9]
Input(id, data) == [id |-> id, len |-> Len(data), data |-> data]
Job(kind, inputs, again, c) == [kind |-> kind, inputs |-> inputs, again |-> again, cfg |-> c]
BatchData == {<<>>, <<0, 0, 1>>, <<0, 1, 0>>, <<0, 1, 0, 1>>}

MCFingerprintCalls ==
    {Job("compute", <<Input(1, d)>>, <<>>, c) : d \in BoundedSeq(Bytes, 9), c \in FpCfgs}
    \cup {Job("reader", <<[Input(1, d) EXCEPT !.len = @ + e]>>, <<>>, c) :
        d \in BoundedSeq(Bytes, 6) \ {<<>>}, e \in {-1, 0, 1}, c \in FpCfgs}
    \cup {Job("escalate", <<Input(1, d)>>, a, [FpCfg(2, 1, 2, "Standard") EXCEPT !.total = t]) :
        d \in BoundedSeq(Bytes, 3) \ {<<>>}, a \in BoundedSeq(Bytes, 3) \ {<<>>}, t \in {2, 12}}
    \cup {Job("batch", <<Input(i, d), Input(j, e), Input(2, f)>>, <<>>,
              [FpCfg(2, 1, 2, p) EXCEPT !.work = w]) :
        i \in {1, 3}, j \in {1, 3}, d \in BatchData, e \in BatchData, f \in BatchData,
        p \in {"Standard", "Paranoid"}, w \in {30, 400}}
    \cup {Job("batch", <<>>, <<>>, c) : c \in {FpCfg(2, 1, 2, "Standard"), TooLarge}}
    \cup {Job("compute", <<Input(1, <<1>>)>>, <<>>, TooLarge)}
=============================================================================
