------------------------- MODULE MCSignallingServer -------------------------
(* Instances of SignallingServer for TLC: a blob is identified by the        *)
(* connection whose client made it.                                          *)
EXTENDS SignallingServer, TLC

MCPayloads == [from : Conns]

\* Connections are interchangeable, and so are names.
Symmetry == Permutations(Conns) \union Permutations(Names)
=============================================================================
