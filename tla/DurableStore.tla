---------------------------- MODULE DurableStore ----------------------------
(***************************************************************************)
(* What the SQL tier promises of a scope's data, whatever happens between: *)
(* the database moves from one committed state to a later one, and what is *)
(* stored moves, in the same order, through some of those states.          *)
(***************************************************************************)
VARIABLES
    committed,  \* the changes the database holds
    durable,    \* the changes the stored bytes hold
    history     \* the states the database has had

vars == <<committed, durable, history>>

Init ==
    /\ committed = {}
    /\ durable = {}
    /\ history = {{}}

\* A statement outside a transaction, or a transaction, takes effect whole.
Advance ==
    /\ committed \subseteq committed'
    /\ history' = history \union {committed'}
    /\ UNCHANGED durable

\* A later state than the stored one is stored whole.
Save ==
    /\ durable' \in history
    /\ durable \subseteq durable'
    /\ UNCHANGED <<committed, history>>

Next == Advance \/ Save

Spec == Init /\ [][Next]_vars
=============================================================================
