---------------------------- MODULE StreamTokens ----------------------------
(***************************************************************************)
(* What an AbstractStreamIdGenerator promises                              *)
(* (synapse/storage/util/id_generators.py): ids are handed out in          *)
(* increasing order to write transactions, and the current token of every  *)
(* process is a position "such that all transactions with equal or smaller *)
(* stream IDs have completed".                                             *)
(***************************************************************************)
EXTENDS Integers

CONSTANT Instances      \* processes that have a generator for the stream

VARIABLES
    last,       \* the last id handed out
    pending,    \* ids whose write transaction has not completed
    written,    \* ids of the rows in the stream's table
    token       \* get_current_token of each process

vars == <<last, pending, written, token>>

Init ==
    /\ last = 1
    /\ pending = {}
    /\ written = {}
    /\ token = [i \in Instances |-> 1]

\* get_next, get_next_mult, get_next_txn: new ids are above all earlier ones.
Allocate ==
    /\ last' > last
    /\ pending' = pending \union (last + 1 .. last')
    /\ UNCHANGED <<written, token>>

\* A transaction commits, having used some of its ids, or is rolled back.
Complete ==
    /\ pending' \subseteq pending
    /\ written \subseteq written'
    /\ written' \ written \subseteq pending \ pending'
    /\ UNCHANGED <<last, token>>

\* A position that covers no transaction in progress.
Safe(v, inProgress) == 1 <= v /\ v <= last /\ \A id \in inProgress : v < id

\* The token of a process moves forward.
Observe(i) ==
    /\ token' = [token EXCEPT ![i] = token'[i]]
    /\ token[i] <= token'[i]
    /\ Safe(token'[i], pending)
    /\ UNCHANGED <<last, pending, written>>

\* A process restarts: its transactions are rolled back, and its token is one
\* it can tell from the database.
Reload(i) ==
    /\ pending' \subseteq pending
    /\ token' = [token EXCEPT ![i] = token'[i]]
    /\ Safe(token'[i], pending')
    /\ UNCHANGED <<last, written>>

Next ==
    \/ Allocate
    \/ Complete
    \/ \E i \in Instances : Observe(i) \/ Reload(i)

Spec == Init /\ [][Next]_vars
=============================================================================
