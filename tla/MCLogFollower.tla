--------------------------- MODULE MCLogFollower ---------------------------
(* LogFollower with a small buffer and few lines. *)
EXTENDS LogFollower
=============================================================================
