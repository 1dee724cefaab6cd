----------------------------- MODULE MCShellState -----------------------------
EXTENDS ShellState

CONSTANTS ada, bob, app, widget, viewers, editors

MCInside == [m \in Mounts |-> IF m = app THEN {widget} ELSE {}]

Symmetry == Permutations(Users)
=============================================================================
