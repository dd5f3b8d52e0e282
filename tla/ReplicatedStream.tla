-------------------------- MODULE ReplicatedStream --------------------------
(***************************************************************************)
(* What replication promises to the readers of a stream                    *)
(* (docs/development/synapse_architecture/streams.md): each writer appends *)
(* facts to its stream, and a reader that moves its position for a writer  *)
(* from p to q handles, in that step, the facts that writer added above p  *)
(* and up to q; none is skipped and none is handled twice.                 *)
(***************************************************************************)
EXTENDS Integers

CONSTANT Writers

VARIABLES
    rows,       \* facts of the stream: <<writer, id, k>>
    current,    \* how far each writer has completed its facts
    position,   \* the reader's position for each writer
    applied     \* the facts the reader has handled

vars == <<rows, current, position, applied>>

Init ==
    /\ rows = {}
    /\ current = [w \in Writers |-> 1]
    /\ position = [w \in Writers |-> 1]
    /\ applied = {}

\* A writer completes facts above its current position.
Append(w) ==
    /\ current[w] < current'[w]
    /\ current' = [current EXCEPT ![w] = current'[w]]
    /\ rows \subseteq rows'
    /\ \A r \in rows' \ rows : r[1] = w /\ current[w] < r[2] /\ r[2] <= current'[w]
    /\ UNCHANGED <<position, applied>>

\* The reader moves on.
Follow(w) ==
    /\ position[w] < position'[w]
    /\ position'[w] <= current[w]
    /\ position' = [position EXCEPT ![w] = position'[w]]
    /\ applied' = applied \union
           {r \in rows : r[1] = w /\ position[w] < r[2] /\ r[2] <= position'[w]}
    /\ UNCHANGED <<rows, current>>

Next == \E w \in Writers : Append(w) \/ Follow(w)

Spec == Init /\ [][Next]_vars
=============================================================================
