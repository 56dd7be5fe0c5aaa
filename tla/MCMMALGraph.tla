----------------------------- MODULE MCMMALGraph -----------------------------
(* Instances of MMALGraph for TLC. *)
EXTENDS MMALGraph

TwoConnections == {0, 1}
\* Only the first connection's output port ever tells of another format.
FirstChanges   == [c \in TwoConnections |-> IF c = 0 THEN {2} ELSE {}]
Both           == {App, Worker}

\* A behaviour is followed up to the state in which the worker and the application are both in
\* an operation on one connection: the headers they then allocate and free twice are no
\* longer the model's.
UpToClash == clashed = {}
=============================================================================
