------------------------------- MODULE Outcomes -------------------------------
(***************************************************************************)
(* Rust's Result and the orders and the sort that the analysis crate uses. *)
(* A call's checks are listed in the order in which the code makes them;   *)
(* the first that fails names the error.                                   *)
(***************************************************************************)
EXTENDS Integers, Sequences, FiniteSetsExt

Ok(v) == [ok |-> TRUE, val |-> v]
Err(e) == [ok |-> FALSE, val |-> e]

\* The operator `?`.
AndThen(r, Op(_)) == IF r.ok THEN Op(r.val) ELSE r

Checked(checks, v) ==
    LET failed == {i \in DOMAIN checks : ~checks[i][1]}
    IN  IF failed = {} THEN Ok(v) ELSE Err(checks[Min(failed)][2])

\* What a module that is not called has for a call.
NoCall == [kind |-> "none"]
StartOf(k) == IF k = NoCall THEN "idle" ELSE "called"

-----------------------------------------------------------------------------
(* Byte strings and tuples are compared position by position; a proper     *)
(* prefix comes first.                                                     *)

LexLess(a, b) ==
    \/ Len(a) < Len(b) /\ SubSeq(b, 1, Len(a)) = a
    \/ \E i \in DOMAIN a \cap DOMAIN b :
          a[i] < b[i] /\ \A j \in 1 .. i - 1 : a[j] = b[j]

\* The same for tuples whose components are byte strings.
KeyLess(a, b) ==
    \E i \in DOMAIN a : LexLess(a[i], b[i]) /\ \A j \in 1 .. i - 1 : a[j] = b[j]

-----------------------------------------------------------------------------
(* try_sort_by_checkpoint: a bottom-up merge sort with a scratch copy.  It *)
(* moves positions; less[a][b] says that the item at a precedes the one at *)
(* b.  Of two items neither of which is greater the left one is taken.     *)

\* Merges the runs start + 1 .. middle and middle + 1 .. end of s; `left` counts what
\* was taken from the first.
Merge(s, start, middle, end, less) ==
    LET merged[k \in 0 .. end - start] ==
            IF k = 0
            THEN [left |-> 0, out |-> <<>>]
            ELSE LET before == merged[k - 1]
                     l == start + before.left + 1
                     r == middle + (k - 1 - before.left) + 1
                 IN  IF l <= middle /\ (r <= end => ~less[s[r]][s[l]])
                     THEN [left |-> before.left + 1, out |-> Append(before.out, s[l])]
                     ELSE [left |-> before.left, out |-> Append(before.out, s[r])]
    IN  merged[end - start].out

\* One pass over pairs of runs of the given width; a pair begins where the output ends.
MergePass(s, width, less) ==
    LET pass[pairs \in 0 .. Len(s)] ==
            IF pairs = 0
            THEN <<>>
            ELSE LET before == pass[pairs - 1]
                     start == Len(before)
                     middle == Min({start + width, Len(s)})
                     end == Min({middle + width, Len(s)})
                 IN  before \o Merge(s, start, middle, end, less)
    IN  pass[Len(s)]

\* Passes with runs of twice the width each time, until one run is everything.
SortedOrder(less) ==
    LET n == Len(less)
        after[pass \in 0 .. n] ==
            IF pass = 0
            THEN [width |-> 1, order |-> [i \in 1 .. n |-> i]]
            ELSE LET runs == after[pass - 1]
                 IN  IF runs.width >= n THEN runs
                     ELSE [width |-> 2 * runs.width,
                           order |-> MergePass(runs.order, runs.width, less)]
    IN  after[n].order

SortBy(s, Less(_, _)) ==
    LET order == SortedOrder([a \in DOMAIN s |-> [b \in DOMAIN s |-> Less(s[a], s[b])]])
    IN  [i \in DOMAIN s |-> s[order[i]]]
=============================================================================
