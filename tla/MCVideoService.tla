--------------------------- MODULE MCVideoService ---------------------------
(* Small instances of VideoService for TLC; their constants are model values. *)
EXTENDS VideoService, TLC

\* The viewers of a monitor that are of the same kind are interchangeable.
MCSymmetry == {p \in Permutations(Conns) : \A c \in AckRequired : p[c] \in AckRequired}
=============================================================================
