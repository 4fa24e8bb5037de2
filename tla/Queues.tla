------------------------------- MODULE Queues -------------------------------
(* Operators on message queues (sequences), shared by the modules. *)
EXTENDS Naturals, Sequences, FiniteSets, Functions

\* How many messages of the set K are in the queue q
Num(q, K) == Cardinality({i \in DOMAIN q : q[i] \in K})

\* The elements of a finite set in some order: the set is iterated.
Orders(S) == Bijection(1..Cardinality(S), S)

=============================================================================
