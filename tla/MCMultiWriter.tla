---------------------------- MODULE MCMultiWriter ----------------------------
(***************************************************************************)
(* Instances of MultiWriterIdGenerator for TLC: two writers, a with one or *)
(* two transactions at a time, and a process that only reads.              *)
(***************************************************************************)
EXTENDS MultiWriterIdGenerator, TLC

CONSTANTS a, b, r, t1, t2, t3

MCInstances == {a, b, r}
MCWriters == {a, b}
MCHome == t1 :> a @@ t2 :> b
MCHome3 == t1 :> a @@ t2 :> b @@ t3 :> a
\* The two transactions of a are interchangeable.
SameHome == Permutations({t1, t3})
=============================================================================
