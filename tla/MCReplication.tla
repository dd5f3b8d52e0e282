---------------------------- MODULE MCReplication ----------------------------
(***************************************************************************)
(* Replication for TLC.                                                    *)
(***************************************************************************)
EXTENDS Replication

CONSTANTS a, b

\* With a single writer that keeps its connection (MaxWriterBreaks = 0), the
\* steps of Next that can happen: there is nobody to Carry a token from, and no
\* connection of the writer is lost or made again.
AloneConnectedNext ==
    \/ \E w \in Writers, n \in 0 .. MaxRows : Write(w, n)
    \/ \E w \in Writers : Streamer(w) \/ OnReplicate(w)
    \/ ReaderDown
    \/ ReaderUp
    \/ Deliver
    \/ Handler
    \/ Failures

AloneSpec == Init /\ [][AloneConnectedNext]_vars
=============================================================================
