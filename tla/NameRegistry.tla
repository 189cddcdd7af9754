---------------------------- MODULE NameRegistry ----------------------------
(***************************************************************************)
(* What the signalling server promises about user names: an abstract       *)
(* directory in which a name has at most one owner.  A connection may take *)
(* a free name; a name becomes free again only when its owner departs; it  *)
(* never passes from one owner to another in one step.                     *)
(***************************************************************************)
CONSTANTS Conns, Names, NoConn

VARIABLES owner,    \* the owner of each name, or NoConn
          departed  \* the connections that are gone for good

regvars == <<owner, departed>>

OwnedBy(c) == {n \in Names : owner[n] = c}

Init == /\ owner = [n \in Names |-> NoConn]
        /\ departed = {}

\* A connection that is still there takes a name nobody owns.
Acquire(c, n) == /\ c \notin departed
                 /\ owner[n] = NoConn
                 /\ owner' = [owner EXCEPT ![n] = c]
                 /\ UNCHANGED departed

\* A connection leaves and gives up some of the names it owns (all of them
\* in a directory that keeps no ghosts; the promise does not insist on it).
Depart(c) == /\ c \notin departed
             /\ departed' = departed \union {c}
             /\ \E freed \in SUBSET OwnedBy(c) :
                   owner' = [n \in Names |->
                               IF n \in freed THEN NoConn ELSE owner[n]]

Next == \E c \in Conns : Depart(c) \/ \E n \in Names : Acquire(c, n)

Spec == Init /\ [][Next]_regvars
=============================================================================
