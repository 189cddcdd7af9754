------------------------- MODULE MCSignallingSystem -------------------------
(* Instances of SignallingSystem for TLC.                                    *)
EXTENDS SignallingSystem, TLC

CONSTANTS c1, c2, c3, alice, bob, carol

\* A blob is identified by its maker and, for an answer, the maker of the offer.
MCPayloads == [from : Conns, re : Conns \union {NoConn}]

\* One caller and two users who compete for the name that is called.
OneCallLogins == {<<c1, alice>>, <<c2, bob>>, <<c3, bob>>}
OneCall == {<<c1, bob>>}

\* Two callers of one user.
OwnNames == {<<c1, alice>>, <<c2, bob>>, <<c3, carol>>}
TwoCalls == {<<c1, bob>>, <<c3, bob>>}

\* Everybody may try every name.
AnyLogin == Conns \X Names
AnyDial == Conns \X (Names \union {NoName})

Symmetry == Permutations(Conns) \union Permutations(Names)
=============================================================================
