------------------------- MODULE MCSessionLifecycle -------------------------
(* Two or three connections of one user, for TLC.                          *)
EXTENDS SessionLifecycle, TLC

\* Connections and session objects are interchangeable.  Only for the runs
\* that check no liveness property.
Symmetry == Permutations(Conns) \cup Permutations(Sessions)

=============================================================================
