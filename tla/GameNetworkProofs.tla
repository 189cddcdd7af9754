------------------------- MODULE GameNetworkProofs --------------------------
(***************************************************************************)
(* The safety properties of GameNetwork, for every set of peers and        *)
(* messages and every bound.  They follow from the inductive invariant     *)
(* IInv, which says which objects exist and which the map knows (Heap,     *)
(* Kept), where the threads may be (Startup, Points), that the object a    *)
(* thread is preparing is untouched by the others while the signaling      *)
(* thread runs (Turns), and what holds of each object by itself (Local).   *)
(***************************************************************************)
EXTENDS GameNetwork, TLAPS

Kinds == {"none", "offer", "answer"}
Outcomes == {"none", "sent", "failed", "refused"}

Startup ==
  /\ main.at = "login" => wsConnected
  /\ main.at = "init" => wsConnected /\ loggedIn
  /\ main.at \in {"boot", "login", "init"} => threads = "none" \/ fault # "none"
  /\ threads = "running" => wsConnected /\ loggedIn
  /\ sig.at = "sending" => threads = "running" /\ sig.obj \in Objects

\* Objects are made in the order of their numbers, and the map files each under
\* its name.
Heap ==
  /\ \A o \in Objects : obj[o].life = "unborn" <=> created < o
  /\ \A k \in Keys : connections[k] # NoObj =>
        connections[k] <= created /\ obj[connections[k]].name = k

\* A thread in the middle of a method works on an object that was made.
Points ==
  /\ main.at = "inserted" => connections[main.name] # NoObj
  /\ main.at \in {"offering", "closing"} => main.obj \in Objects /\ main.obj <= created
  /\ ws.at = "inserted" => connections[ws.name] # NoObj
  /\ ws.at \in {"describing", "answering"} => ws.obj \in Objects /\ ws.obj <= created

\* A thread that still has to store the pointer: the destructor it waited for has
\* stopped the threads, and the object it made is filed nowhere else.
Replacing(t) ==
  t.at = "replacing" => /\ t.obj \in Objects /\ t.obj <= created
                        /\ obj[t.obj].name = t.name /\ threads = "stopped"
Replaced == Replacing(main) /\ Replacing(ws)

\* An object whose description was not asked for yet.
Untold(r) == /\ r.pending = "none" /\ r.local = "none" /\ r.outcome = "none"
             /\ r.cands = 0 /\ r.dc = "none"

\* An object nothing was asked of yet.
Blank(r) == /\ r.pending = "none" /\ r.setOps = 0 /\ r.local = "none"
            /\ r.remote = "none" /\ r.outcome = "none" /\ r.cands = 0 /\ r.dc = "none"

\* The object that Connect, or NewConnectionmessage, is preparing.
MainObj == IF main.at = "inserted" THEN connections[main.name] ELSE main.obj
WsObj   == IF ws.at = "inserted" THEN connections[ws.name] ELSE ws.obj
Calling   == main.at \in {"inserted", "offering"}
Answering == ws.at \in {"inserted", "describing", "answering"}

Sending(o) == sig.at = "sending" /\ sig.obj = o

\* How far CreateAnswer is with its object.
Waiting(r) == IF ws.at = "answering" THEN Untold(r) ELSE Blank(r)

Turns ==
  threads # "stopped" =>
    /\ Calling => Blank(obj[MainObj]) /\ obj[MainObj].life = "alive"
    /\ main.at = "offering" => obj[main.obj].pc
    /\ Answering => Waiting(obj[WsObj])
    /\ ws.at = "answering" => ~ Sending(ws.obj)
    /\ Calling /\ Answering => MainObj # WsObj

Local(o) ==
  /\ Observing(o) => obj[o].life = "alive" /\ obj[o].pc
  /\ obj[o].pc => obj[o].life = "alive"
  /\ obj[o].cands > 0 => obj[o].outcome \in {"sent", "refused"}
  /\ obj[o].outcome \in {"sent", "refused"} => loggedIn
  /\ obj[o].remote = "offer" =>
       obj[o].dc # "connecting" /\ obj[o].pending # "offer" /\ obj[o].local # "offer"
  /\ obj[o].pending # "none" =>
       obj[o].outcome = "none" /\ obj[o].cands = 0 /\ obj[o].local = "none"
  /\ Sending(o) => /\ obj[o].outcome = "none" /\ obj[o].cands = 0
                   /\ obj[o].setOps > 0 /\ obj[o].pending = "none"
  /\ obj[o].local # "none" => obj[o].outcome \in {"sent", "refused"} \/ Sending(o)

\* As long as no name is dialled twice, every object made stays in the map.
Kept == NoRedial => \A o \in Objects : obj[o].life # "unborn" =>
                      obj[o].life = "alive" /\ connections[obj[o].name] = o

IInv == /\ TypeOK /\ Startup /\ Heap /\ Points /\ Replaced /\ Turns
        /\ (\A o \in Objects : Local(o)) /\ Kept /\ QuietWithoutRedial

-----------------------------------------------------------------------------
\* The bounds are natural numbers.
LEMMA Bounds == MaxObjects \in Nat /\ MaxCand \in Nat
BY NetworkAssumption

\* The name in a message, or its absence, is a key of the map.
LEMMA Named == ASSUME NEW m \in Incoming PROVE Json(m, "name") \in Keys
BY NetworkAssumption

\* Objects have their type before they are made ...
LEMMA UnbornType == Unborn \in Object
BY Bounds DEF Unborn, Object, Keys

\* ... when WebrtcNetwork(name) makes them ...
LEMMA NewType == ASSUME NEW n \in Keys PROVE WebrtcNetwork(n) \in Object
BY UnbornType, Zenon DEF WebrtcNetwork, Object

\* ... after the destructor ...
LEMMA DestroyedType == ASSUME NEW r \in Object PROVE Destroyed(r) \in Object
BY Zenon DEF Destroyed, Object

\* The destructor drops the operations and leaves what was sent and set.
LEMMA DestroyedFields ==
  ASSUME NEW r \in Object
  PROVE  LET d == Destroyed(r)
         IN  /\ d.life = "dead" /\ d.name = r.name /\ d.pc = FALSE /\ d.dc = "none"
             /\ d.pending = "none" /\ d.setOps = 0 /\ d.cands = r.cands
             /\ d.local = r.local /\ d.outcome = r.outcome /\ d.remote = r.remote
BY DEF Destroyed, Object

\* ... and after PeerConnection::Close.
LEMMA ClosedType ==
  ASSUME NEW r \in Object, NEW e \in {"failed", "sent"} PROVE Closed(r, e) \in Object
<1> DEFINE u == IF r.pending = "none" THEN r.outcome ELSE e
           d == IF r.dc = "none" THEN "none" ELSE "closed"
           q == [r EXCEPT !.pc = FALSE, !.pending = "none", !.setOps = 0,
                          !.local = "none", !.remote = "none", !.dangling = FALSE]
<1>1. q \in Object
  BY Zenon DEF Object
<1>2. Closed(r, e) = [[q EXCEPT !.outcome = u] EXCEPT !.dc = d]
  BY Zenon DEF Closed
<1>3. u \in {"none", "sent", "failed", "refused"}
  BY DEF Object
<1>4. d \in {"none", "connecting", "open", "closed"}
  BY DEF Object
<1> HIDE DEF q, u, d
<1> DEFINE p == [q EXCEPT !.outcome = u]
<1>5. p \in Object
  BY <1>1, <1>3, ZenonT(40) DEF Object
<1> HIDE DEF p
<1>6. [p EXCEPT !.dc = d] \in Object
  BY <1>4, <1>5, ZenonT(40) DEF Object
<1> QED BY <1>2, <1>6, Zenon DEF p

\* What Local and Turns use of the objects' type.
LEMMA Fields ==
  ASSUME NEW r \in Object
  PROVE  /\ r.pending \in Kinds /\ r.local \in Kinds /\ r.remote \in Kinds
         /\ r.outcome \in Outcomes /\ r.setOps \in Nat /\ r.cands \in Nat
         /\ r.pc \in BOOLEAN /\ r.name \in Keys
BY Bounds DEF Object, Kinds, Outcomes

\* A thread that returns, or hangs, is at a point of its own.
LEMMA Idling ==
  ASSUME NEW points, "idle" \in points, "blocked" \in points
  PROVE  Idle \in Thread(points) /\ Blocked \in Thread(points)
BY DEF Idle, Blocked, Thread, NoObj, Keys

\* The thread that has made an object stays a thread.
LEMMA InsertedType ==
  ASSUME NEW points, {"idle", "blocked", "inserted", "replacing"} \subseteq points,
         NEW t \in Thread(points), NEW k \in Keys, created + 1 \in Objects
  PROVE  Inserted(k, t) \in Thread(points)
<1>1. "inserted" \in points /\ "replacing" \in points
  OBVIOUS
<1>2. [t EXCEPT !.at = "inserted", !.name = k] \in Thread(points)
  BY <1>1, Zenon DEF Thread
<1>3. \A o \in Objects : [t EXCEPT !.at = "replacing", !.name = k, !.obj = o] \in Thread(points)
  BY <1>1, Zenon DEF Thread
<1>4. Blocked \in Thread(points)
  BY Idling
<1> QED BY <1>2, <1>3, <1>4, Zenon DEF Inserted

\* One of the operations counted in setOps is over.
LEMMA FewerOps == ASSUME NEW n \in Nat, n > 0 PROVE n - 1 \in Nat
OBVIOUS

\* Making a second object for a name is never undone.
LEMMA RedialStays ==
  ASSUME \A o \in Objects : obj[o].life # "unborn" =>
           obj'[o].life # "unborn" /\ obj'[o].name = obj[o].name,
         NoRedial'
  PROVE  NoRedial
BY DEF NoRedial

\* A thread waits with its pointer while the others make objects, or destroy them.
LEMMA ReplacingStays ==
  ASSUME NEW t, Replacing(t), created \in Nat, created' \in Nat, created <= created',
         threads' \in {threads, "stopped"},
         \A o \in Objects : o <= created => obj'[o].name = obj[o].name
  PROVE  t.at = "replacing" => /\ t.obj \in Objects /\ t.obj <= created'
                               /\ obj'[t.obj].name = t.name /\ threads' = "stopped"
BY DEF Replacing, Objects

\* So does the invariant's part about it, for the threads that do not begin to wait.
LEMMA ReplacedStays ==
  ASSUME Replaced, created \in Nat, created' \in Nat, created <= created',
         threads' \in {threads, "stopped"},
         \A o \in Objects : o <= created => obj'[o].name = obj[o].name,
         main' = main \/ main'.at # "replacing", ws' = ws \/ ws'.at # "replacing"
  PROVE  Replaced'
<1>1. Replacing(main)'
  BY ReplacingStays, Zenon DEF Replaced, Replacing
<1>2. Replacing(ws)'
  BY ReplacingStays, Zenon DEF Replaced, Replacing
<1> QED BY <1>1, <1>2, Zenon DEF Replaced

\* The usual case: created and the threads are left alone.
LEMMA ReplacedKept ==
  ASSUME IInv, UNCHANGED <<created, threads>>,
         \A o \in Objects : obj'[o].name = obj[o].name,
         main' = main \/ main'.at # "replacing", ws' = ws \/ ws'.at # "replacing"
  PROVE  Replaced'
<1>1. created \in Nat /\ created <= created /\ Replaced
  BY DEF IInv, TypeOK
<1> QED BY <1>1, ReplacedStays, Zenon

-----------------------------------------------------------------------------
(* Steps that leave the objects alone.                                     *)

\* What the objects alone determine is kept when they are.
LEMMA SameHeap ==
  ASSUME IInv, UNCHANGED <<heap, sig>>, loggedIn => loggedIn'
  PROVE  Heap' /\ (\A o \in Objects : Local(o)') /\ Kept' /\ (NoRedial' => NoRedial)
<1>1. UNCHANGED <<connections, obj, created, sig>>
  BY DEF heap
<1>2. Heap'
  BY <1>1 DEF IInv, Heap
<1>3. \A o \in Objects : Local(o)'
  BY <1>1 DEF IInv, Local, Observing, Sending
<1>4. Kept' /\ (NoRedial' => NoRedial)
  BY <1>1 DEF IInv, Kept, NoRedial
<1> QED BY <1>2, <1>3, <1>4

\* A crash; a freed object is used only after a name got a second one.
LEMMA CrashStep ==
  ASSUME IInv, Running, NEW why, Crash(why),
         why \in {"null_factory", "null_pc", "null_connection", "json_type",
                  "freed_description"} \/ (why = "use_after_free" /\ ~ NoRedial)
  PROVE  IInv'
<1>1. Heap' /\ (\A o \in Objects : Local(o)') /\ Kept' /\ (NoRedial' => NoRedial)
  BY SameHeap DEF Crash, flags
<1>2. UNCHANGED <<factory, wsConnected, loggedIn, threads, connections, obj, created,
                  main, ws, sig>> /\ fault' = why
  BY DEF Crash, flags, heap
<1>3. TypeOK'
  BY <1>2 DEF IInv, TypeOK
<1>4. Startup' /\ Points'
  BY <1>2, ZenonT(40) DEF IInv, Startup, Points, Running
<1>5. Turns'
  BY <1>2 DEF IInv, Turns, Calling, Answering, MainObj, WsObj, Blank,
                         Untold, Waiting, Sending
<1>6. QuietWithoutRedial'
  BY <1>1, <1>2 DEF IInv, QuietWithoutRedial
<1>7. Replaced'
  BY <1>2, ReplacedKept, Zenon
<1> QED BY <1>1, <1>3, <1>4, <1>5, <1>6, <1>7 DEF IInv

\* A handler that returns without changing anything.
LEMMA StutterStep == ASSUME IInv, UNCHANGED vars PROVE IInv'
<1>1. Heap' /\ (\A o \in Objects : Local(o)') /\ Kept' /\ (NoRedial' => NoRedial)
  BY SameHeap DEF vars, flags
<1>2. UNCHANGED <<fault, factory, wsConnected, loggedIn, threads, connections, obj,
                  created, main, ws, sig>>
  BY DEF vars, flags, heap
<1>3. TypeOK'
  BY <1>2 DEF IInv, TypeOK
<1>4. Startup' /\ Points'
  BY <1>2, ZenonT(40) DEF IInv, Startup, Points
<1>5. Turns'
  BY <1>2 DEF IInv, Turns, Calling, Answering, MainObj, WsObj, Blank,
                         Untold, Waiting, Sending
<1>6. QuietWithoutRedial'
  BY <1>1, <1>2 DEF IInv, QuietWithoutRedial
<1>7. Replaced'
  BY <1>2, ReplacedKept, Zenon
<1> QED BY <1>1, <1>3, <1>4, <1>5, <1>6, <1>7 DEF IInv

\* A thread that waits for the stopped signaling thread.
LEMMA HangStep ==
  ASSUME IInv, Stopped, HangMain \/ HangWs
  PROVE  IInv'
<1>1. Heap' /\ (\A o \in Objects : Local(o)') /\ Kept' /\ (NoRedial' => NoRedial)
  BY SameHeap DEF HangMain, HangWs, flags
<1>2. /\ UNCHANGED <<fault, factory, wsConnected, loggedIn, threads, connections, obj,
                     created, sig>>
      /\ \/ main' = Blocked /\ ws' = ws
         \/ main' = main /\ ws' = Blocked
  BY DEF HangMain, HangWs, flags, heap
<1>3. TypeOK'
  BY <1>2, Idling DEF IInv, TypeOK
<1>4. Blocked.at = "blocked"
  BY DEF Blocked, Idle
<1>5. Startup' /\ Points'
  BY <1>2, <1>4 DEF IInv, Startup, Points
<1>6. Turns'
  BY <1>2 DEF Turns, Stopped
<1>7. QuietWithoutRedial'
  BY <1>1, <1>2 DEF IInv, QuietWithoutRedial, Stopped
<1>8. Replaced'
  BY <1>2, <1>4, ReplacedKept
<1> QED BY <1>1, <1>3, <1>5, <1>6, <1>7, <1>8 DEF IInv

\* NetworkInit: connect, log in, start the threads.
LEMMA BootStep ==
  ASSUME IInv, NetworkInit_Connect \/ NetworkInit_Login \/ InitializePeerConnection
  PROVE  IInv'
<1>0. Idle.at = "idle"
  BY DEF Idle
<1>1. /\ Running /\ main.at \in {"boot", "login", "init"} /\ threads = "none"
      /\ UNCHANGED <<fault, connections, obj, created, ws, sig>>
      /\ main.at = "login" => wsConnected
      /\ main.at = "init" => wsConnected /\ loggedIn
  BY DEF NetworkInit_Connect, NetworkInit_Login, InitializePeerConnection, heap, IInv,
         Startup, Running
<1>2. /\ loggedIn => loggedIn'
      /\ loggedIn' \in BOOLEAN /\ wsConnected' \in BOOLEAN /\ factory' \in BOOLEAN
  BY Zenon DEF NetworkInit_Connect, NetworkInit_Login, InitializePeerConnection, IInv,
         Startup, TypeOK
<1>3. \/ main' = [main EXCEPT !.at = "login"] /\ wsConnected' /\ threads' = "none"
      \/ main' = [main EXCEPT !.at = "init"] /\ wsConnected' /\ loggedIn' /\ threads' = "none"
      \/ main' = Idle /\ threads' = "none"
      \/ main' = Idle /\ threads' = "running" /\ wsConnected' /\ loggedIn'
  BY <1>1 DEF NetworkInit_Connect, NetworkInit_Login, InitializePeerConnection
<1>4. Heap' /\ (\A o \in Objects : Local(o)') /\ Kept' /\ (NoRedial' => NoRedial)
  BY <1>1, <1>2, SameHeap DEF heap
<1>5. main' \in Thread({"boot", "login", "init", "idle", "replacing", "inserted",
                        "offering", "closing", "blocked"})
  BY ZenonT(40), <1>3, Idling DEF IInv, TypeOK, Thread
<1>6. TypeOK'
  BY <1>1, <1>2, <1>3, <1>5 DEF IInv, TypeOK
<1>7. main'.at \in {"login", "init", "idle"}
  BY <1>0, <1>3 DEF IInv, TypeOK, Thread
<1>8. Startup'
  BY <1>0, <1>1, <1>3, <1>7 DEF IInv, Startup, TypeOK, Thread
<1>9. Points'
  BY <1>1, <1>7 DEF IInv, Points
<1>10. Turns'
  BY <1>1, <1>7, Zenon DEF IInv, Turns, Calling, Answering, MainObj, WsObj, Blank,
                         Untold, Waiting, Sending
<1>11. QuietWithoutRedial'
  BY <1>1, <1>3, <1>4, <1>7 DEF IInv, QuietWithoutRedial
<1>12. Replaced'
  BY <1>1, <1>7 DEF IInv, Replaced, Replacing
<1> QED BY <1>4, <1>6, <1>8, <1>9, <1>10, <1>11, <1>12 DEF IInv

\* The WebSocket thread is done with an object, or lost the factory.
LEMMA WsGivesUp ==
  ASSUME IInv, factory' \in BOOLEAN, ws' = Idle,
         UNCHANGED <<fault, wsConnected, loggedIn, threads, heap, main, sig>>
  PROVE  IInv'
<1>0. Idle.at = "idle"
  BY DEF Idle
<1>1. Heap' /\ (\A o \in Objects : Local(o)') /\ Kept' /\ (NoRedial' => NoRedial)
  BY SameHeap
<1>2. UNCHANGED <<connections, obj, created>>
  BY DEF heap
<1>3. TypeOK'
  BY <1>2, Idling DEF IInv, TypeOK
<1>4. Startup' /\ Points'
  BY <1>0, <1>2, Zenon DEF IInv, Startup, Points
<1>5. Turns'
  BY <1>0, <1>2, Zenon DEF IInv, Turns, Calling, Answering, MainObj, WsObj, Blank,
                         Untold, Waiting, Sending
<1>6. QuietWithoutRedial'
  BY <1>0, <1>1 DEF IInv, QuietWithoutRedial
<1>7. Replaced'
  BY <1>0, <1>2, ReplacedKept
<1> QED BY <1>1, <1>3, <1>4, <1>5, <1>6, <1>7 DEF IInv

\* No operation holds a reference to an object that nothing was asked of.
LEMMA NotTaken ==
  ASSUME IInv, NEW o \in Objects, Blank(obj[o])
  PROVE  ~ Observing(o)
<1>1. Local(o) /\ obj[o].setOps = 0 /\ obj[o].pending = "none"
  BY DEF IInv, Blank
<1> QED BY <1>1 DEF Local, Observing, Sending

\* An object that was made is alive unless a name was dialled twice.
LEMMA Born ==
  ASSUME IInv, NEW o \in Objects, o <= created
  PROVE  /\ obj[o] \in Object /\ obj[o].life # "unborn" /\ Local(o)
         /\ Dead(o) \/ ~ Mapped(o) => ~ NoRedial
         /\ ~ Dead(o) => obj[o].life = "alive"
<1>1. obj[o] \in Object /\ Local(o)
  BY DEF IInv, TypeOK
<1>2. obj[o].life # "unborn" /\ obj[o].life \in {"unborn", "alive", "dead"}
  BY <1>1 DEF IInv, Heap, TypeOK, Objects, Object
<1>3. Dead(o) \/ ~ Mapped(o) => ~ NoRedial
  BY <1>1, <1>2, Fields DEF IInv, Kept, Mapped, Dead
<1> QED BY <1>1, <1>2, <1>3 DEF Dead

\* An entry of the map is an object that was made.
LEMMA Entry ==
  ASSUME IInv, NEW k \in Keys, connections[k] # NoObj
  PROVE  connections[k] \in Objects /\ connections[k] <= created
BY DEF IInv, TypeOK, Heap

\* A step that leaves alone what Local is about.
LEMMA LocalKept ==
  ASSUME NEW o \in Objects, Local(o), UNCHANGED <<loggedIn, sig>>,
         obj'[o].life = obj[o].life, obj'[o].pending = obj[o].pending,
         obj'[o].setOps = obj[o].setOps, obj'[o].local = obj[o].local,
         obj'[o].remote = obj[o].remote, obj'[o].outcome = obj[o].outcome,
         obj'[o].cands = obj[o].cands,
         obj'[o].dc \in {obj[o].dc, "none"},
         obj'[o].pc = obj[o].pc \/ (obj'[o].pc /\ obj[o].life = "alive")
  PROVE  Local(o)'
BY DEF Local, Observing, Sending

\* A PeerConnection is made for an object.
LEMMA LocalMade ==
  \A o \in Objects : \A r :
    /\ Local(o) /\ obj[o].life = "alive" /\ obj'[o] = r /\ UNCHANGED <<loggedIn, sig>>
    /\ r.life = "alive" /\ r.pc /\ r.name = obj[o].name /\ r.pending = obj[o].pending
    /\ r.setOps = obj[o].setOps /\ r.local = obj[o].local
    /\ r.remote = obj[o].remote /\ r.outcome = obj[o].outcome
    /\ r.cands = obj[o].cands /\ r.dc = obj[o].dc
    => Local(o)'
BY LocalKept

\* An object in use that the signaling thread has left.
LEMMA LocalIdle ==
  ASSUME NEW o \in Objects, NEW r, obj'[o] = r, r.life = "alive", r.pc, sig'.at = "idle",
         r.cands > 0 \/ r.local # "none" => r.outcome \in {"sent", "refused"},
         r.outcome \in {"sent", "refused"} => loggedIn',
         r.remote = "offer" =>
           r.dc # "connecting" /\ r.pending # "offer" /\ r.local # "offer",
         r.pending # "none" => r.outcome = "none" /\ r.cands = 0 /\ r.local = "none"
  PROVE  Local(o)'
BY Zenon DEF Local, Sending

\* An object whose destructor has run, on what was r.
LEMMA LocalDead ==
  ASSUME NEW o \in Objects, NEW r, ~ Sending(o)', ~ obj'[o].pc, obj'[o].dc = "none",
         obj'[o].pending = "none", obj'[o].setOps = 0, obj'[o].cands = r.cands,
         obj'[o].local = r.local, obj'[o].outcome = r.outcome, obj'[o].remote = r.remote,
         r.cands > 0 \/ r.local # "none" => r.outcome \in {"sent", "refused"},
         r.outcome \in {"sent", "refused"} => loggedIn',
         r.remote = "offer" => r.local # "offer"
  PROVE  Local(o)'
<1>1. ~ Observing(o)'
  BY DEF Observing, Sending
<1> QED BY <1>1 DEF Local

-----------------------------------------------------------------------------
(***************************************************************************)
(* Steps that change one object and keep its name: what they need to keep  *)
(* the invariant, for each of the three threads; and the steps that make   *)
(* an object.                                                              *)
(***************************************************************************)

\* What such a step leaves of the heap and of the other objects.
LEMMA ObjectStep ==
  ASSUME IInv, NEW o \in Objects, NEW r \in Object, o <= created,
         obj' = [obj EXCEPT ![o] = r], r.life = obj[o].life, r.name = obj[o].name,
         \A p \in Objects \ {o} : Sending(p)' <=> Sending(p),
         UNCHANGED <<fault, flags, threads, connections, created>>
  PROVE  /\ obj'[o] = r /\ \A p \in Objects \ {o} : obj'[p] = obj[p]
         /\ obj' \in [Objects -> Object]
         /\ Heap' /\ Kept' /\ (NoRedial' => NoRedial)
         /\ \A p \in Objects \ {o} : Local(p)'
<1>1. obj \in [Objects -> Object]
  BY DEF IInv, TypeOK
<1>2. obj'[o] = r /\ \A p \in Objects \ {o} : obj'[p] = obj[p]
  BY <1>1
<1>3. obj' \in [Objects -> Object]
  BY <1>1
<1>4. \A p \in Objects : obj'[p].life = obj[p].life /\ obj'[p].name = obj[p].name
  BY <1>2
<1>5. connections \in [Keys -> Objects \union {NoObj}]
  BY DEF IInv, TypeOK
<1>6. Heap'
  BY <1>4, <1>5 DEF IInv, Heap
<1>7. NoRedial' => NoRedial
  BY <1>4, RedialStays
<1>8. Kept'
  BY <1>4, <1>7 DEF IInv, Kept
<1>9. \A p \in Objects \ {o} : Local(p)'
  <2> SUFFICES ASSUME NEW p \in Objects \ {o} PROVE Local(p)'
    OBVIOUS
  <2>1. obj'[p] = obj[p] /\ (Sending(p)' <=> Sending(p)) /\ loggedIn' = loggedIn
    BY <1>2 DEF flags
  <2>2. Observing(p)' <=> Observing(p)
    BY <2>1 DEF Observing, Sending
  <2> QED BY <2>1, <2>2 DEF IInv, Local
<1> QED BY <1>2, <1>3, <1>6, <1>7, <1>8, <1>9

\* Such a step of the application's thread.
LEMMA MainObjectStep ==
  ASSUME IInv, Running, NEW o \in Objects, NEW r \in Object, o <= created,
         r.life = obj[o].life, r.name = obj[o].name, Local(o)',
         NEW to, MainDoes([obj EXCEPT ![o] = r], to),
         to \in Thread({"idle", "offering", "closing"}),
         main.at \in {"idle", "inserted", "offering", "closing"},
         to.at \in {"offering", "closing"} => to.obj = o,
         to.at = "offering" => /\ Blank(r) /\ r.pc /\ r.life = "alive"
                               /\ main.at = "inserted" /\ o = connections[main.name],
         threads # "stopped" /\ Answering /\ WsObj = o => Waiting(r)
  PROVE  IInv'
<1>1. /\ obj' = [obj EXCEPT ![o] = r] /\ main' = to
      /\ UNCHANGED <<fault, flags, threads, connections, created, ws, sig>>
  BY DEF MainDoes
<1>2. \A p \in Objects \ {o} : Sending(p)' <=> Sending(p)
  BY <1>1 DEF Sending
<1>3. /\ obj'[o] = r /\ \A p \in Objects \ {o} : obj'[p] = obj[p]
      /\ obj' \in [Objects -> Object]
      /\ Heap' /\ Kept' /\ (NoRedial' => NoRedial)
      /\ \A p \in Objects : Local(p)'
  BY Zenon, <1>1, <1>2, ObjectStep
<1>4. UNCHANGED <<factory, wsConnected, loggedIn>>
  BY <1>1 DEF flags
<1>5. to \in Thread({"boot", "login", "init", "idle", "replacing", "inserted",
                     "offering", "closing", "blocked"}) /\ to.at \in {"idle", "offering", "closing"}
  BY DEF Thread
<1>6. TypeOK'
  BY <1>1, <1>3, <1>4, <1>5 DEF IInv, TypeOK
<1>7. Startup' /\ Points'
  BY <1>1, <1>4, <1>5 DEF IInv, Startup, Points
<1>8. QuietWithoutRedial'
  BY <1>1, <1>3, <1>5, Zenon DEF IInv, QuietWithoutRedial
<1>9. Turns'
  <2> SUFFICES ASSUME threads # "stopped" PROVE Turns'
    BY <1>1, Zenon DEF Turns
  <2>1. Answering' = Answering /\ WsObj' = WsObj
    BY <1>1 DEF Answering, WsObj
  <2>2. Answering => WsObj \in Objects
    BY ZenonT(40) DEF Answering, WsObj, IInv, Points, TypeOK, Thread
  <2>3. Answering => Waiting(obj'[WsObj])
    BY <1>3, <2>2 DEF IInv, Turns
  <2>4. Calling' => to.at = "offering" /\ MainObj' = o
    BY <1>1, <1>5 DEF Calling, MainObj
  <2>5. Calling' /\ Answering => o # WsObj
    BY <2>4, ZenonT(40) DEF IInv, Turns, Calling, MainObj
  <2>6. /\ Answering' => Waiting(obj[WsObj])'
        /\ ws'.at = "answering" => ~ Sending(ws.obj)'
    BY <1>1, <2>1, <2>3 DEF Blank, Untold, Waiting, Sending, IInv, Turns
  <2>7. Calling' => Blank(obj[MainObj])' /\ obj'[MainObj'].life = "alive"
    BY <1>3, <2>4, ZenonT(40) DEF Blank
  <2> QED BY <1>1, <1>3, <2>1, <2>4, <2>5, <2>6, <2>7, Zenon DEF Turns
<1>10. Replaced'
  BY <1>1, <1>3, <1>5, ReplacedKept
<1> QED BY <1>3, <1>6, <1>7, <1>8, <1>9, <1>10 DEF IInv

\* Such a step of the WebSocket thread.
LEMMA WsObjectStep ==
  ASSUME IInv, Running, NEW o \in Objects, NEW r \in Object, o <= created,
         r.life = obj[o].life, r.name = obj[o].name, Local(o)',
         NEW to, WsDoes([obj EXCEPT ![o] = r], to),
         to \in Thread({"idle", "describing", "answering"}),
         to.at # "idle" => to.obj = o /\ Answering /\ WsObj = o,
         to.at = "describing" => Blank(r),
         to.at = "answering" => Untold(r) /\ sig.at = "idle",
         threads # "stopped" /\ Calling => MainObj # o \/ (Blank(r) /\ r.pc = obj[o].pc
                                                           /\ to.at = "idle")
  PROVE  IInv'
<1>1. /\ obj' = [obj EXCEPT ![o] = r] /\ ws' = to
      /\ UNCHANGED <<fault, flags, threads, connections, created, main, sig>>
  BY DEF WsDoes
<1>2. \A p \in Objects \ {o} : Sending(p)' <=> Sending(p)
  BY <1>1 DEF Sending
<1>3. /\ obj'[o] = r /\ \A p \in Objects \ {o} : obj'[p] = obj[p]
      /\ obj' \in [Objects -> Object]
      /\ Heap' /\ Kept' /\ (NoRedial' => NoRedial)
      /\ \A p \in Objects : Local(p)'
  BY Zenon, <1>1, <1>2, ObjectStep
<1>4. UNCHANGED <<factory, wsConnected, loggedIn>>
  BY <1>1 DEF flags
<1>5. to \in Thread({"idle", "replacing", "inserted", "describing",
                     "answering", "blocked"})
      /\ to.at \in {"idle", "describing", "answering"}
  BY DEF Thread
<1>6. TypeOK'
  BY <1>1, <1>3, <1>4, <1>5 DEF IInv, TypeOK
<1>7. Startup' /\ Points'
  BY <1>1, <1>4, <1>5, Zenon DEF IInv, Startup, Points
<1>8. QuietWithoutRedial'
  BY <1>1, <1>3, <1>5, Zenon DEF IInv, QuietWithoutRedial
<1>9. Turns'
  <2> SUFFICES ASSUME threads # "stopped" PROVE Turns'
    BY <1>1, Zenon DEF Turns
  <2>1. Calling' = Calling /\ MainObj' = MainObj
    BY <1>1 DEF Calling, MainObj
  <2>2. Calling => MainObj \in Objects
    BY ZenonT(40) DEF Calling, MainObj, IInv, Points, TypeOK, Thread
  <2>3. Calling => /\ Blank(obj'[MainObj]) /\ obj'[MainObj].life = "alive"
                   /\ obj'[MainObj].pc = obj[MainObj].pc
    BY <1>3, <2>2, Zenon DEF IInv, Turns
  <2>4. Answering' => to.at \in {"describing", "answering"} /\ WsObj' = o
    BY <1>1, <1>5, Zenon DEF Answering, WsObj
  <2>5. Calling /\ Answering' => o # MainObj
    BY <2>4 DEF IInv, Turns
  <2>6. Calling' => Blank(obj[MainObj])' /\ obj'[MainObj'].life = "alive"
    BY <2>1, <2>3, Zenon DEF Blank
  <2>7. /\ Answering' => Waiting(obj[WsObj])'
        /\ ws'.at = "answering" => ~ Sending(ws.obj)'
    <3>1. to.at = "answering" \/ to.at = "describing" => obj'[WsObj'] = r /\ ws'.at = to.at
      BY <1>1, <1>3, <2>4, Zenon DEF Answering
    <3> QED BY <1>1, <2>4, <3>1 DEF Blank, Untold, Waiting, Sending
  <2>8. main'.at = "offering" => obj'[main'.obj].pc
    BY <1>1, <2>3, Zenon DEF Calling, MainObj, IInv, Turns
  <2> QED BY <1>1, <2>1, <2>4, <2>5, <2>6, <2>7, <2>8 DEF Turns
<1>10. Replaced'
  BY <1>1, <1>3, <1>5, ReplacedKept
<1> QED BY <1>3, <1>6, <1>7, <1>8, <1>9, <1>10, Zenon DEF IInv

\* Such a step of the signaling thread, on an object that is in use.
LEMMA SigObjectStep ==
  ASSUME IInv, NEW o \in Objects, NEW r \in Object, o <= created,
         r.life = obj[o].life, r.name = obj[o].name, Local(o)', ~ Blank(obj[o]),
         obj' = [obj EXCEPT ![o] = r],
         UNCHANGED <<fault, flags, threads, connections, created, main, ws>>,
         sig' \in [at : {"idle", "sending"}, obj : Objects \union {NoObj}],
         sig'.at = "sending" => threads = "running" /\ sig'.obj \in Objects,
         \A p \in Objects \ {o} : Sending(p)' <=> Sending(p),
         threads # "stopped" /\ ws.at = "answering" /\ ws.obj = o =>
           Untold(r) /\ ~ Sending(o)'
  PROVE  IInv'
<1>1. /\ obj'[o] = r /\ \A p \in Objects \ {o} : obj'[p] = obj[p]
      /\ obj' \in [Objects -> Object]
      /\ Heap' /\ Kept' /\ (NoRedial' => NoRedial)
      /\ \A p \in Objects : Local(p)'
  BY Zenon, ObjectStep
<1>2. UNCHANGED <<factory, wsConnected, loggedIn>>
  BY DEF flags
<1>3. TypeOK'
  BY <1>1, <1>2, Zenon DEF IInv, TypeOK
<1>4. Startup' /\ Points'
  BY <1>2 DEF IInv, Startup, Points
<1>5. QuietWithoutRedial'
  BY <1>1 DEF IInv, QuietWithoutRedial
<1>6. Turns'
  <2> SUFFICES ASSUME threads # "stopped" PROVE Turns'
    BY DEF Turns
  <2>1. /\ Calling' = Calling /\ MainObj' = MainObj
        /\ Answering' = Answering /\ WsObj' = WsObj
    BY Zenon DEF Calling, MainObj, Answering, WsObj
  <2>2. /\ Calling => MainObj \in Objects \ {o}
        /\ Answering => WsObj \in Objects
        /\ Answering /\ ws.at # "answering" => WsObj # o
    BY DEF Calling, MainObj, Answering, WsObj, IInv, Points, TypeOK, Thread, Turns, Waiting
  <2>3. /\ Calling => obj'[MainObj] = obj[MainObj]
        /\ Answering /\ WsObj # o => obj'[WsObj] = obj[WsObj]
    BY <1>1, <2>2
  <2>4. main.at = "offering" => obj'[main.obj] = obj[main.obj]
    BY <2>3 DEF Calling, MainObj
  <2>5. Calling' => Blank(obj[MainObj])' /\ obj'[MainObj'].life = "alive"
    BY <2>1, <2>3 DEF IInv, Turns, Blank
  <2>6. Answering' => Waiting(obj[WsObj])'
    <3>1. CASE Answering /\ WsObj # o
      BY <2>1, <2>3, <3>1 DEF IInv, Turns, Waiting, Blank, Untold
    <3>2. CASE Answering /\ WsObj = o
      <4>1. ws.at = "answering" /\ ws.obj = o
        BY <2>2, <3>2 DEF WsObj
      <4>2. Untold(obj'[o])
        BY <1>1, <4>1
      <4> QED BY <2>1, <3>2, <4>1, <4>2 DEF Waiting, Untold
    <3> QED BY <2>1, <3>1, <3>2
  <2>7. ws'.at = "answering" => ~ Sending(ws.obj)'
    <3>1. ws.at = "answering" => ws.obj \in Objects /\ ~ Sending(ws.obj)
      BY DEF IInv, Points, Turns
    <3>2. Sending(ws.obj)' <=> sig'.at = "sending" /\ sig'.obj = ws.obj
      BY DEF Sending
    <3> QED BY <3>1, <3>2 DEF Sending
  <2> QED BY <2>1, <2>4, <2>5, <2>6, <2>7 DEF IInv, Turns
<1>7. Replaced'
  BY <1>1, ReplacedKept
<1> QED BY <1>1, <1>3, <1>4, <1>5, <1>6, <1>7 DEF IInv

\* A callback that drops the last reference: the destructor stops the threads.
LEMMA DestroyStep ==
  ASSUME IInv, NEW o \in Objects, NEW r \in Object, ~ Mapped(o),
         obj[o].life # "unborn", r.name = obj[o].name,
         r.cands > 0 \/ r.local # "none" => r.outcome \in {"sent", "refused"},
         r.outcome \in {"sent", "refused"} => loggedIn,
         r.remote = "offer" => r.local # "offer",
         obj' = [obj EXCEPT ![o] = Destroyed(r)], threads' = "stopped",
         UNCHANGED <<fault, flags, connections, created, main, ws>>,
         fault # "none" \/ threads = "running",
         sig'.at = "idle", sig.at = "sending" => sig.obj = o,
         sig' \in [at : {"idle", "sending"}, obj : Objects \union {NoObj}]
  PROVE  IInv'
<1> DEFINE d == Destroyed(r)
<1>1. /\ d.life = "dead" /\ d.name = r.name /\ ~ d.pc /\ d.dc = "none"
      /\ d.pending = "none" /\ d.setOps = 0 /\ d.cands = r.cands /\ d.local = r.local
      /\ d.outcome = r.outcome /\ d.remote = r.remote
  BY Zenon, DestroyedFields
<1>2. d \in Object
  BY DestroyedType
<1> HIDE DEF d
<1>3. obj \in [Objects -> Object] /\ connections \in [Keys -> Objects \union {NoObj}]
  BY DEF IInv, TypeOK
<1>4. obj' = [obj EXCEPT ![o] = d]
  BY DEF d
<1>5. obj'[o] = d /\ \A p \in Objects \ {o} : obj'[p] = obj[p]
  BY <1>3, <1>4
<1>6. obj' \in [Objects -> Object]
  BY <1>2, <1>3, <1>4
<1>7. NoRedial' => NoRedial
  BY <1>1, <1>5, RedialStays
<1>8. obj[o].name \in Keys
  BY <1>3, Fields
<1>9. ~ NoRedial
  BY <1>8 DEF IInv, Kept, Mapped
<1>10. UNCHANGED <<factory, wsConnected, loggedIn>>
  BY DEF flags
<1>11. TypeOK'
  BY <1>6, <1>10, Zenon DEF IInv, TypeOK
<1>12. Startup' /\ Points'
  BY <1>10 DEF IInv, Startup, Points
<1>13. Heap'
  BY <1>1, <1>3, <1>5 DEF IInv, Heap
<1>14. Turns' /\ Kept' /\ QuietWithoutRedial'
  BY ZenonT(40), <1>7, <1>9 DEF Turns, Kept, QuietWithoutRedial
<1>15. \A p \in Objects : Local(p)'
  <2> SUFFICES ASSUME NEW p \in Objects PROVE Local(p)'
    OBVIOUS
  <2>1. ~ Sending(p)'
    BY DEF Sending
  <2>2. CASE p = o
    BY ZenonT(40), <1>1, <1>5, <1>10, <2>1, <2>2, LocalDead
  <2>3. CASE p # o
    <3>1. obj'[p] = obj[p] /\ ~ Sending(p)
      BY <1>5, <2>3 DEF Sending
    <3>2. Observing(p)' => Observing(p)
      BY <3>1, <2>1 DEF Observing, Sending
    <3> QED BY ZenonT(40), <1>10, <2>1, <3>1, <3>2 DEF IInv, Local
  <2> QED BY <2>2, <2>3, ZenonT(40)
<1>16. Replaced'
  BY <1>1, <1>5, ReplacedStays DEF IInv, TypeOK
<1> QED BY Zenon, <1>11, <1>12, <1>13, <1>14, <1>15, <1>16 DEF IInv

-----------------------------------------------------------------------------
(* connections[k] = new WebrtcNetwork(k), by Connect or for an offer, keeps *)
(* the invariant.                                                            *)

\* The assignment destroys at most the object it replaces, whose threads it stops.
LEMMA InsertEffect ==
  ASSUME IInv, Running, NEW k \in Keys, Insert(k), UNCHANGED <<flags, sig>>
  PROVE  /\ created + 1 \in Objects /\ created' = created + 1
         /\ obj' \in [Objects -> Object]
         /\ connections' \in [Keys -> Objects \union {NoObj}]
         /\ threads' \in {"none", "running", "stopped"}
         /\ fault' \in {"none", "use_after_free", "null_thread"}
         /\ obj'[created + 1] = WebrtcNetwork(k)
         /\ \A o \in Objects : o # created + 1 /\ ~ (LastRef(k) /\ o = connections[k]) =>
              obj'[o] = obj[o]
         /\ Heap' /\ (\A o \in Objects : Local(o)') /\ Kept'
         /\ NoRedial' => NoRedial /\ ~ LastRef(k)
         /\ \A o \in Objects : o <= created => obj'[o].name = obj[o].name
<1>1. /\ created \in 0..MaxObjects /\ obj \in [Objects -> Object]
      /\ connections \in [Keys -> Objects \union {NoObj}]
      /\ threads \in {"none", "running", "stopped"}
  BY Zenon DEF IInv, TypeOK
<1>2. created < MaxObjects
  BY DEF Insert
<1>3. created + 1 \in Objects
  BY <1>1, <1>2, Bounds DEF Objects
<1> DEFINE n == created + 1
           w == WebrtcNetwork(k)
           c == connections[k]
           d == Destroyed(obj[c])
<1>4. /\ w \in Object /\ w.life = "alive" /\ w.name = k /\ ~ w.pc /\ w.dc = "none"
      /\ w.pending = "none" /\ w.setOps = 0 /\ w.local = "none" /\ w.remote = "none"
      /\ w.outcome = "none" /\ w.cands = 0
  BY Zenon, NewType DEF WebrtcNetwork, Unborn
<1>5. LastRef(k) => c \in Objects /\ c <= created /\ obj[c].name = k /\ sig.at = "idle"
  BY <1>1 DEF LastRef, IInv, Heap, Insert
<1>6. c \in Objects =>
        /\ d \in Object /\ d.life = "dead" /\ d.name = obj[c].name /\ ~ d.pc /\ d.dc = "none"
        /\ d.pending = "none" /\ d.setOps = 0 /\ d.cands = obj[c].cands
        /\ d.local = obj[c].local /\ d.outcome = obj[c].outcome /\ d.remote = obj[c].remote
  BY Zenon, <1>1, DestroyedType, DestroyedFields
<1>7. obj' = [o \in Objects |-> IF o = n THEN w
                                ELSE IF LastRef(k) /\ o = c THEN d ELSE obj[o]]
  BY Zenon DEF Insert
<1> HIDE DEF w, d
<1>8. /\ obj'[n] = w /\ obj' \in [Objects -> Object]
      /\ LastRef(k) => obj'[c] = d
      /\ \A o \in Objects : o # n /\ ~ (LastRef(k) /\ o = c) => obj'[o] = obj[o]
  BY <1>1, <1>3, <1>4, <1>5, <1>6, <1>7
<1>9. /\ connections' = connections \/ connections' = [connections EXCEPT ![k] = n]
      /\ created' = n
      /\ threads' = threads \/ threads' = "stopped"
      /\ fault' \in {"none", "use_after_free", "null_thread"}
  BY DEF Insert, Running
<1>10. connections' \in [Keys -> Objects \union {NoObj}]
  BY <1>1, <1>3, <1>9
<1>11. \A o \in Objects : obj[o].life = "unborn" <=> created < o
  BY DEF IInv, Heap
<1>12. \A o \in Objects : obj[o].life # "unborn" =>
         obj'[o].life # "unborn" /\ obj'[o].name = obj[o].name /\ o # n
  BY <1>1, <1>5, <1>6, <1>8, <1>11
<1>13. NoRedial' => NoRedial
  BY <1>12, RedialStays
<1>14. NoRedial' => connections[k] = NoObj
  <2> SUFFICES ASSUME c # NoObj PROVE ~ NoRedial'
    OBVIOUS
  <2>1. c \in Objects /\ c <= created /\ obj[c].name = k
    BY <1>1, Zenon DEF IInv, Heap
  <2>2. obj'[c].life # "unborn" /\ obj'[c].name = k /\ c # n
    BY <1>1, <1>11, <1>12, <2>1 DEF Objects
  <2>3. obj'[n].life # "unborn" /\ obj'[n].name = k
    BY <1>4, <1>8
  <2> QED BY <1>3, <2>1, <2>2, <2>3 DEF NoRedial
<1>15. NoRedial' => ~ LastRef(k)
  BY <1>14 DEF LastRef
<1>16. Heap'
  <2>1. \A o \in Objects : obj'[o].life = "unborn" <=> created' < o
    <3> SUFFICES ASSUME NEW o \in Objects
                 PROVE  obj'[o].life = "unborn" <=> created' < o
      OBVIOUS
    <3>1. CASE o = n
      BY <1>1, <1>4, <1>8, <1>9, <3>1
    <3>2. CASE o # n /\ LastRef(k) /\ o = c
      BY <1>1, <1>5, <1>6, <1>8, <1>9, <3>2 DEF Objects
    <3>3. CASE o # n /\ ~ (LastRef(k) /\ o = c)
      BY <1>1, <1>8, <1>9, <1>11, <3>3 DEF Objects
    <3> QED BY <3>1, <3>2, <3>3
  <2>2. \A q \in Keys : connections'[q] # NoObj =>
          connections'[q] <= created' /\ obj'[connections'[q]].name = q
    <3> SUFFICES ASSUME NEW q \in Keys, connections'[q] # NoObj
                 PROVE  connections'[q] <= created' /\ obj'[connections'[q]].name = q
      OBVIOUS
    <3>1. CASE connections'[q] = n
      <4>1. q = k
        BY <1>1, <1>9, <3>1 DEF IInv, Heap, Objects, NoObj
      <4> QED BY <1>1, <1>4, <1>8, <1>9, <3>1, <4>1
    <3>2. CASE connections'[q] # n
      <4>1. connections'[q] = connections[q]
        BY <1>1, <1>9, <3>2
      <4>2. connections[q] \in Objects /\ connections[q] <= created
            /\ obj[connections[q]].name = q
        BY <1>1, <4>1 DEF IInv, Heap
      <4>3. obj'[connections[q]].name = q
        BY <1>1, <1>11, <1>12, <4>2 DEF Objects
      <4> QED BY <1>1, <1>9, <4>1, <4>2, <4>3 DEF Objects
    <3> QED BY <3>1, <3>2
  <2> QED BY <2>1, <2>2 DEF Heap
<1>17. Kept'
  <2> SUFFICES ASSUME NoRedial', NEW o \in Objects, obj'[o].life # "unborn"
               PROVE  obj'[o].life = "alive" /\ connections'[obj'[o].name] = o
    BY DEF Kept
  <2>1. connections' = [connections EXCEPT ![k] = n]
    BY <1>15 DEF Insert, DestructorHangs
  <2>2. CASE o = n
    BY <1>1, <1>4, <1>8, <2>1, <2>2
  <2>3. CASE o # n
    <3>1. obj'[o] = obj[o]
      BY <1>8, <1>15, <2>3
    <3>2. obj[o].life = "alive" /\ connections[obj[o].name] = o
      BY <1>13, <3>1 DEF IInv, Kept
    <3>3. obj[o].name # k
      BY <1>14, <3>2 DEF Objects, NoObj
    <3> QED BY <1>1, <2>1, <3>1, <3>2, <3>3, Fields
  <2> QED BY <2>2, <2>3
<1>18. \A o \in Objects : Local(o)'
  <2> SUFFICES ASSUME NEW o \in Objects PROVE Local(o)'
    OBVIOUS
  <2>1. (Sending(o)' <=> Sending(o)) /\ loggedIn' = loggedIn
    BY DEF Sending, flags
  <2>2. Local(o)
    BY ZenonT(40) DEF IInv
  <2>3. CASE o = n
    <3>1. obj[o].life = "unborn"
      BY <1>1, <1>11, <2>3 DEF Objects
    <3>2. ~ Sending(o)
      BY <2>2, <3>1, Zenon DEF Local, Observing, Sending
    <3> QED BY <1>4, <1>8, <2>1, <2>3, <3>2 DEF Local, Observing, Sending
  <2>4. CASE o # n /\ LastRef(k) /\ o = c
    <3>1. obj'[o] = d /\ ~ Sending(o)
      BY Zenon, <1>5, <1>8, <2>4 DEF Sending
    <3>2. /\ obj[o].cands > 0 \/ obj[o].local # "none" => obj[o].outcome \in {"sent", "refused"}
          /\ obj[o].outcome \in {"sent", "refused"} => loggedIn
          /\ obj[o].remote = "offer" => obj[o].local # "offer"
      BY Zenon, <2>2, <3>1 DEF Local
    <3> QED BY Zenon, <1>6, <2>1, <2>4, <3>1, <3>2, LocalDead
  <2>5. CASE o # n /\ ~ (LastRef(k) /\ o = c)
    <3>1. obj'[o] = obj[o]
      BY <1>8, <2>5
    <3>2. Observing(o)' <=> Observing(o)
      BY <2>1, <3>1 DEF Observing, Sending
    <3> QED BY <2>1, <2>2, <3>1, <3>2, Zenon DEF Local
  <2> QED BY <2>3, <2>4, <2>5
<1>19. \A o \in Objects : o <= created => obj'[o].name = obj[o].name
  BY <1>1, <1>11, <1>12 DEF Objects
<1> QED BY <1>1, <1>3, <1>8, <1>9, <1>10, <1>13, <1>15, <1>16, <1>17, <1>18, <1>19 DEF w

\* What Connect_Insert and OnOffer leave of the other objects while the threads run.
LEMMA InsertStep ==
  ASSUME IInv, Running, NEW k \in Keys, Insert(k), UNCHANGED <<flags, sig>>
  PROVE  threads' # "stopped" =>
           /\ ~ LastRef(k) /\ threads' = threads
           /\ \A o \in Objects : o <= created => obj'[o] = obj[o]
           /\ connections' = [connections EXCEPT ![k] = created + 1]
<1>0. created \in Nat
  BY DEF IInv, TypeOK
<1>1. \A o \in Objects : o # created + 1 /\ ~ (LastRef(k) /\ o = connections[k]) =>
         obj'[o] = obj[o]
  BY InsertEffect, Zenon
<1>2. /\ threads' = IF LastRef(k) THEN "stopped" ELSE threads
      /\ ~ LastRef(k) => connections' = [connections EXCEPT ![k] = created + 1]
  BY Zenon DEF Insert, DestructorHangs
<1> QED BY <1>0, <1>1, <1>2 DEF Objects

\* Connect makes an object.
LEMMA ConnectStep == ASSUME IInv, NEW n \in Peers, Connect_Insert(n) PROVE IInv'
<1>0. /\ Running /\ main.at = "idle" /\ Insert(n) /\ UNCHANGED <<flags, ws, sig>>
      /\ main' = Inserted(n, main)
      /\ n \in Keys
  BY DEF Connect_Insert, Keys
<1> DEFINE m == created + 1
<1>1. /\ m \in Objects /\ created' = m
      /\ obj' \in [Objects -> Object]
      /\ connections' \in [Keys -> Objects \union {NoObj}]
      /\ threads' \in {"none", "running", "stopped"}
      /\ fault' \in {"none", "use_after_free", "null_thread"}
      /\ obj'[m] = WebrtcNetwork(n)
      /\ Heap' /\ (\A o \in Objects : Local(o)') /\ Kept'
      /\ NoRedial' => NoRedial /\ ~ LastRef(n)
      /\ \A o \in Objects : o <= created => obj'[o].name = obj[o].name
  BY <1>0, InsertEffect, Zenon
<1>2. threads' # "stopped" =>
        /\ ~ LastRef(n) /\ threads' = threads
        /\ \A o \in Objects : o <= created => obj'[o] = obj[o]
        /\ connections' = [connections EXCEPT ![n] = m]
  BY <1>0, InsertStep, Zenon
<1>3. /\ main \in Thread({"boot", "login", "init", "idle", "replacing", "inserted",
                          "offering", "closing", "blocked"})
      /\ connections \in [Keys -> Objects \union {NoObj}]
      /\ UNCHANGED <<factory, wsConnected, loggedIn>>
      /\ Blocked.at = "blocked"
  BY <1>0 DEF IInv, TypeOK, flags, Blocked, Idle
<1>4. \/ main' = Blocked /\ DestructorHangs(n)
      \/ /\ LastRef(n) /\ ~ DestructorHangs(n)
         /\ main' = [main EXCEPT !.at = "replacing", !.name = n, !.obj = m]
         /\ main'.at = "replacing" /\ main'.name = n /\ main'.obj = m
      \/ /\ ~ LastRef(n) /\ ~ DestructorHangs(n)
         /\ main' = [main EXCEPT !.at = "inserted", !.name = n]
         /\ main'.at = "inserted" /\ main'.name = n
         /\ connections' = [connections EXCEPT ![n] = m]
  BY <1>0, <1>3 DEF Thread, Insert, Inserted, DestructorHangs
<1>5. main' \in Thread({"boot", "login", "init", "idle", "replacing", "inserted",
                        "offering", "closing", "blocked"})
  BY <1>0, <1>1, <1>3, InsertedType, Zenon
<1>6. TypeOK'
  BY <1>0, <1>1, <1>3, <1>5 DEF IInv, TypeOK, Objects
<1>7. Startup'
  <2>1. /\ LastRef(n) => sig.at = "idle"
        /\ threads' = IF LastRef(n) THEN "stopped" ELSE threads
    BY <1>0 DEF Insert
  <2> QED BY <1>0, <1>3, <1>4, <2>1, Zenon DEF IInv, Startup
<1>8. Points'
  <2>1. /\ \A q \in Keys : connections[q] # NoObj => connections'[q] # NoObj
        /\ connections' = [connections EXCEPT ![n] = m] => connections'[n] # NoObj
    BY <1>0, <1>1, <1>3 DEF Insert, Objects, NoObj
  <2>2. ws.at \in {"describing", "answering"} => ws.obj \in Objects /\ ws.obj <= created'
    BY <1>1 DEF IInv, Points, TypeOK, Objects
  <2>3. ws.name \in Keys
    BY DEF IInv, TypeOK, Thread
  <2> QED BY <1>0, <1>3, <1>4, <2>1, <2>2, <2>3, ZenonT(40) DEF IInv, Points
<1>9. QuietWithoutRedial'
  <2> SUFFICES ASSUME NoRedial'
               PROVE  /\ threads' # "stopped" /\ main'.at # "blocked" /\ ws'.at # "blocked"
                      /\ fault' \notin {"use_after_free", "null_thread"}
    BY DEF QuietWithoutRedial
  <2>1. NoRedial /\ ~ LastRef(n)
    BY <1>1
  <2>2. threads' = threads /\ fault' = fault /\ ~ DestructorHangs(n)
    BY <1>0, <2>1, ZenonT(40) DEF Insert, DestructorHangs
  <2> QED BY <1>0, <1>4, <2>1, <2>2 DEF IInv, QuietWithoutRedial
<1>10. Turns'
  <2> SUFFICES ASSUME threads' # "stopped" PROVE Turns'
    BY DEF Turns
  <2>1. main'.at = "inserted" /\ main'.name = n /\ MainObj' = m
    BY <1>0, <1>2, <1>3, <1>4 DEF DestructorHangs, MainObj
  <2>2. Blank(obj[MainObj])' /\ obj'[MainObj'].life = "alive"
    BY ZenonT(40), <1>1, <2>1 DEF Blank, WebrtcNetwork, Unborn
  <2>3. Answering' => Answering /\ WsObj \in Objects /\ WsObj <= created
    BY <1>0, <1>3, Zenon DEF Answering, WsObj, IInv, Points, TypeOK, Thread, Heap
  <2>4. Answering' => Waiting(obj[WsObj]) /\ obj'[WsObj] = obj[WsObj]
    BY <1>2, <2>3, Zenon DEF IInv, Turns
  <2>5. Answering' => WsObj' = WsObj
    <3>1. CASE ws.at = "inserted" /\ ws.name = n /\ Answering'
      <4>1. connections[n] \in Objects /\ Blank(obj[connections[n]])
        BY <2>3, <2>4, <3>1 DEF WsObj, Waiting
      <4>2. LastRef(n)
        BY <4>1, NotTaken DEF LastRef, Objects, NoObj
      <4> QED BY <1>2, <4>2, Zenon
    <3>2. CASE ~ (ws.at = "inserted" /\ ws.name = n)
      BY <1>0, <1>2, <1>3, <3>2, ZenonT(40) DEF WsObj, IInv, TypeOK, Thread
    <3> QED BY <3>1, <3>2, Zenon
  <2>6. Answering' => Waiting(obj[WsObj])' /\ WsObj' # m
    <3>1. Answering' => obj'[WsObj'] = obj[WsObj] /\ Waiting(obj[WsObj])
      BY <2>4, <2>5, Zenon
    <3>2. Answering' => WsObj # m
      <4>1. created \in Nat
        BY DEF IInv, TypeOK
      <4> QED BY <2>3, <4>1 DEF Objects
    <3> QED BY <1>0, <2>5, <3>1, <3>2 DEF Blank, Untold, Waiting
  <2>7. ws'.at = "answering" => ~ Sending(ws.obj)'
    BY <1>0, <1>2, Zenon DEF IInv, Turns, Sending
  <2> QED BY <2>1, <2>2, <2>6, <2>7 DEF Turns
<1>11. Replaced'
  <2>a. created \in Nat /\ created' = created + 1
    BY <1>1 DEF IInv, TypeOK
  <2>b. /\ threads' \in {threads, "stopped"}
        /\ LastRef(n) => threads' = "stopped"
    BY <1>0, Zenon DEF Insert
  <2>1. /\ created \in Nat /\ created' \in Nat /\ created <= created'
        /\ threads' \in {threads, "stopped"}
        /\ LastRef(n) => threads' = "stopped"
    <3>1. created' \in Nat /\ created <= created'
      BY <2>a
    <3> QED BY <2>a, <2>b, <3>1, Zenon
  <2>2. CASE main'.at # "replacing"
    BY <1>0, <1>1, <2>1, <2>2, ReplacedStays DEF IInv
  <2>3. CASE LastRef(n) /\ main'.name = n /\ main'.obj = m
    <3>a. obj'[m].name = n /\ m \in Objects /\ m <= created'
      BY <1>1, <2>a DEF WebrtcNetwork, Unborn
    <3>1. Replacing(main)'
      BY <2>1, <2>3, <3>a, ZenonT(40) DEF Replacing
    <3>2. Replacing(ws)'
      BY <1>0, <1>1, <2>1, ReplacingStays, Zenon DEF IInv, Replaced, Replacing
    <3> QED BY <3>1, <3>2 DEF Replaced
  <2> QED BY <1>3, <1>4, <2>2, <2>3
<1> QED BY <1>1, <1>6, <1>7, <1>8, <1>9, <1>10, <1>11, Zenon DEF IInv

\* NewConnectionmessage makes an object.
LEMMA OfferStep == ASSUME IInv, NEW msg \in Incoming, OnOffer(msg) PROVE IInv'
<1> DEFINE n == Json(msg, "name")
           t == Json(msg, "data")
           m == created + 1
<1>a. n \in Keys /\ t \in {Json(x, "data") : x \in Incoming} \union {NoText}
  BY Named
<1>0. /\ Running /\ ws.at = "idle" /\ Insert(n) /\ UNCHANGED <<flags, main, sig>>
      /\ ws' = Inserted(n, [ws EXCEPT !.data = t])
  BY DEF OnOffer, Delivered
<1> HIDE DEF n, t
<1>1. /\ m \in Objects /\ created' = m
      /\ obj' \in [Objects -> Object]
      /\ connections' \in [Keys -> Objects \union {NoObj}]
      /\ threads' \in {"none", "running", "stopped"}
      /\ fault' \in {"none", "use_after_free", "null_thread"}
      /\ obj'[m] = WebrtcNetwork(n)
      /\ Heap' /\ (\A o \in Objects : Local(o)') /\ Kept'
      /\ NoRedial' => NoRedial /\ ~ LastRef(n)
      /\ \A o \in Objects : o <= created => obj'[o].name = obj[o].name
  BY <1>a, <1>0, InsertEffect
<1>2. threads' # "stopped" =>
        /\ ~ LastRef(n) /\ threads' = threads
        /\ \A o \in Objects : o <= created => obj'[o] = obj[o]
        /\ connections' = [connections EXCEPT ![n] = m]
  BY <1>a, <1>0, InsertStep
<1>3. /\ ws \in Thread({"idle", "replacing", "inserted", "describing",
                        "answering", "blocked"})
      /\ connections \in [Keys -> Objects \union {NoObj}]
      /\ UNCHANGED <<factory, wsConnected, loggedIn>>
      /\ Blocked.at = "blocked"
  BY <1>0 DEF IInv, TypeOK, flags, Blocked, Idle
<1>4. \/ ws' = Blocked /\ DestructorHangs(n)
      \/ /\ LastRef(n) /\ ~ DestructorHangs(n)
         /\ ws' = [[ws EXCEPT !.data = t] EXCEPT !.at = "replacing", !.name = n, !.obj = m]
         /\ ws'.at = "replacing" /\ ws'.name = n /\ ws'.obj = m
      \/ /\ ~ LastRef(n) /\ ~ DestructorHangs(n)
         /\ ws' = [[ws EXCEPT !.data = t] EXCEPT !.at = "inserted", !.name = n]
         /\ ws'.at = "inserted" /\ ws'.name = n
         /\ connections' = [connections EXCEPT ![n] = m]
  BY <1>0, <1>3 DEF Thread, Insert, Inserted, DestructorHangs
<1>5. ws' \in Thread({"idle", "replacing", "inserted", "describing",
                      "answering", "blocked"})
  <2>1. [ws EXCEPT !.data = t] \in Thread({"idle", "replacing", "inserted", "describing",
                                           "answering", "blocked"})
    BY <1>a, <1>3, Zenon DEF Thread
  <2> QED BY <1>a, <1>0, <1>1, <2>1, InsertedType, Zenon
<1>6. TypeOK'
  BY <1>0, <1>1, <1>3, <1>5 DEF IInv, TypeOK, Objects
<1>7. Startup'
  <2>1. /\ LastRef(n) => sig.at = "idle"
        /\ threads' = IF LastRef(n) THEN "stopped" ELSE threads
        /\ LastRef(n) /\ threads = "none" => fault' # "none"
    BY <1>0 DEF Insert
  <2> QED BY <1>0, <1>3, <2>1 DEF IInv, Startup, Running
<1>8. Points'
  <2>1. /\ \A q \in Keys : connections[q] # NoObj => connections'[q] # NoObj
        /\ connections' = [connections EXCEPT ![n] = m] => connections'[n] # NoObj
    BY <1>a, <1>0, <1>1, <1>3 DEF Insert, Objects, NoObj
  <2>2. main.at \in {"offering", "closing"} => main.obj \in Objects /\ main.obj <= created'
    BY <1>1 DEF IInv, Points, TypeOK, Objects
  <2>3. main.name \in Keys
    BY DEF IInv, TypeOK, Thread
  <2> QED BY <1>0, <1>3, <1>4, <2>1, <2>2, <2>3 DEF IInv, Points
<1>9. QuietWithoutRedial'
  <2> SUFFICES ASSUME NoRedial'
               PROVE  /\ threads' # "stopped" /\ main'.at # "blocked" /\ ws'.at # "blocked"
                      /\ fault' \notin {"use_after_free", "null_thread"}
    BY DEF QuietWithoutRedial
  <2>1. NoRedial /\ ~ LastRef(n)
    BY <1>1
  <2>2. threads' = threads /\ fault' = fault /\ ~ DestructorHangs(n)
    BY <1>0, <2>1, ZenonT(40) DEF Insert, DestructorHangs
  <2> QED BY <1>0, <1>4, <2>1, <2>2, Zenon DEF IInv, QuietWithoutRedial
<1>10. Turns'
  <2> SUFFICES ASSUME threads' # "stopped" PROVE Turns'
    BY DEF Turns
  <2>1. ws'.at = "inserted" /\ ws'.name = n /\ WsObj' = m
    BY <1>a, <1>0, <1>2, <1>3, <1>4 DEF DestructorHangs, WsObj
  <2>2. Waiting(obj[WsObj])' /\ ws'.at # "answering"
    BY ZenonT(40), <1>1, <2>1 DEF Waiting, Blank, WebrtcNetwork, Unborn
  <2>3. Calling' => Calling /\ MainObj \in Objects /\ MainObj <= created
    BY <1>0, <1>3 DEF Calling, MainObj, IInv, Points, TypeOK, Thread, Heap
  <2>4. Calling' => /\ Blank(obj[MainObj]) /\ obj[MainObj].life = "alive"
                    /\ obj'[MainObj] = obj[MainObj]
    BY <1>2, <2>3 DEF IInv, Turns
  <2>5. Calling' => MainObj' = MainObj
    <3>1. CASE main.at = "inserted" /\ main.name = n /\ Calling'
      <4>1. connections[n] \in Objects /\ Blank(obj[connections[n]])
        BY <2>3, <2>4, <3>1 DEF MainObj
      <4>2. LastRef(n)
        BY <4>1, NotTaken DEF LastRef, Objects, NoObj
      <4> QED BY <1>2, <4>2, Zenon
    <3>2. CASE ~ (main.at = "inserted" /\ main.name = n)
      BY <1>0, <1>2, <1>3, <3>2, Zenon DEF MainObj, IInv, TypeOK, Thread
    <3> QED BY <3>1, <3>2
  <2>6. Calling' => /\ Blank(obj[MainObj])' /\ obj'[MainObj'].life = "alive"
                    /\ MainObj' # m
    BY <2>3, <2>4, <2>5 DEF Blank, Objects, IInv, TypeOK
  <2>7. main'.at = "offering" => obj'[main'.obj].pc
    BY <1>0, <1>2, <2>3, <2>4 DEF Calling, MainObj, IInv, Turns
  <2> QED BY <2>1, <2>2, <2>6, <2>7, Zenon DEF Turns
<1>11. Replaced'
  <2>a. created \in Nat /\ created' = created + 1
    BY <1>1 DEF IInv, TypeOK
  <2>b. /\ threads' \in {threads, "stopped"}
        /\ LastRef(n) => threads' = "stopped"
    BY <1>0, Zenon DEF Insert
  <2>1. /\ created \in Nat /\ created' \in Nat /\ created <= created'
        /\ threads' \in {threads, "stopped"}
        /\ LastRef(n) => threads' = "stopped"
    BY <2>a, <2>b
  <2>2. CASE ws'.at # "replacing"
    BY <1>0, <1>1, <2>1, <2>2, ReplacedStays DEF IInv
  <2>3. CASE LastRef(n) /\ ws'.name = n /\ ws'.obj = m
    <3>a. obj'[m].name = n /\ m \in Objects /\ m <= created'
      BY <1>1, <2>a DEF WebrtcNetwork, Unborn
    <3>1. Replacing(ws)'
      BY <2>1, <2>3, <3>a, Zenon DEF Replacing
    <3>2. Replacing(main)'
      BY <1>0, <1>1, <2>1, ReplacingStays DEF IInv, Replaced, Replacing
    <3> QED BY <3>1, <3>2 DEF Replaced
  <2> QED BY <1>3, <1>4, <2>2, <2>3
<1> QED BY <1>1, <1>6, <1>7, <1>8, <1>9, <1>10, <1>11, Zenon DEF IInv

\* The pointer is stored: the threads are stopped, so nothing else is at stake.
LEMMA StoreStep ==
  ASSUME IInv, NEW t \in {main, ws}, t.at = "replacing", Store(t),
         UNCHANGED <<fault, flags, threads, obj, created, sig>>,
         \/ t = main /\ main' = Stored(main) /\ ws' = ws
         \/ t = ws /\ ws' = Stored(ws) /\ main' = main
  PROVE  IInv'
<1>1. /\ t.obj \in Objects /\ t.obj <= created /\ obj[t.obj].name = t.name
      /\ threads = "stopped" /\ t.name \in Keys
  BY DEF IInv, Replaced, Replacing, TypeOK, Thread
<1>2. /\ connections \in [Keys -> Objects \union {NoObj}]
      /\ connections' = [connections EXCEPT ![t.name] = t.obj]
  BY DEF IInv, TypeOK, Store
<1>3. /\ connections' \in [Keys -> Objects \union {NoObj}]
      /\ \A k \in Keys : connections'[k] = IF k = t.name THEN t.obj ELSE connections[k]
  BY <1>1, <1>2
<1>4. ~ NoRedial /\ ~ NoRedial'
  BY <1>1 DEF IInv, QuietWithoutRedial, NoRedial
<1>5. UNCHANGED <<factory, wsConnected, loggedIn>>
  BY DEF flags
<1>6. /\ main' = main \/ (main' = Stored(main) /\ t = main)
      /\ ws' = ws \/ (ws' = Stored(ws) /\ t = ws)
  OBVIOUS
<1>7. /\ main' \in Thread({"boot", "login", "init", "idle", "replacing", "inserted",
                           "offering", "closing", "blocked"})
      /\ main' = main \/ (main'.at = "inserted" /\ main'.name = t.name)
  BY <1>6, Zenon DEF IInv, TypeOK, Thread, Stored
<1>8. /\ ws' \in Thread({"idle", "replacing", "inserted", "describing", "answering",
                         "blocked"})
      /\ ws' = ws \/ (ws'.at = "inserted" /\ ws'.name = t.name)
  BY <1>6, ZenonT(40) DEF IInv, TypeOK, Thread, Stored
<1>9. TypeOK'
  BY <1>3, <1>5, <1>7, <1>8 DEF IInv, TypeOK
<1>10. Startup'
  BY <1>5, <1>7, Zenon DEF IInv, Startup
<1>11. Points'
  <2>1. \A k \in Keys : connections[k] # NoObj \/ k = t.name => connections'[k] # NoObj
    BY <1>1, <1>3 DEF Objects, NoObj
  <2>2. main.name \in Keys /\ ws.name \in Keys
    BY Zenon DEF IInv, TypeOK, Thread
  <2> QED BY <1>1, <1>7, <1>8, <2>1, <2>2, Zenon DEF IInv, Points
<1>12. Heap'
  BY <1>1, <1>3, Zenon DEF IInv, Heap
<1>13. Turns' /\ Kept' /\ QuietWithoutRedial'
  BY <1>1, <1>4, Zenon DEF Turns, Kept, QuietWithoutRedial
<1>14. \A o \in Objects : Local(o)'
  BY <1>5, Zenon DEF IInv, Local, Observing, Sending
<1>15. Replaced'
  BY <1>7, <1>8, ReplacedKept
<1> QED BY <1>9, <1>10, <1>11, <1>12, <1>13, <1>14, <1>15 DEF IInv

-----------------------------------------------------------------------------
(***************************************************************************)
(* The steps of the application's thread and of the WebSocket thread that  *)
(* make no object.                                                         *)
(***************************************************************************)

\* CreateOffer makes the PeerConnection of the object Connect prepared.
LEMMA OfferPeerStep == ASSUME IInv, CreateOffer_PeerConnection PROVE IInv'
<1>1. Running /\ main.at = "inserted" /\ main.name \in Keys
  BY Zenon DEF CreateOffer_PeerConnection, IInv, TypeOK, Thread
<1>2. PICK o \in Objects : o = connections[main.name] /\ o <= created
  BY <1>1, Entry, Zenon DEF IInv, Points
<1>3. CASE \/ Dead(o) /\ Crash("use_after_free")
           \/ ~ factory /\ Crash("null_factory")
           \/ Crash("null_pc")
  BY <1>1, <1>2, <1>3, Born, CrashStep, Zenon
<1>4. CASE Stopped /\ HangMain
  BY <1>4, HangStep, Zenon
<1>5. CASE /\ ~ Dead(o) /\ Serving
           /\ MainDoes([obj EXCEPT ![o].pc = TRUE],
                       [main EXCEPT !.at = "offering", !.obj = o])
  <2> DEFINE r == [obj[o] EXCEPT !.pc = TRUE]
             to == [main EXCEPT !.at = "offering", !.obj = o]
  <2>1. obj[o] \in Object /\ obj[o].life = "alive" /\ Local(o)
    BY <1>2, <1>5, Born
  <2>2. r \in Object
    BY <2>1, Zenon DEF Object
  <2>3. /\ r.life = "alive" /\ r.pc /\ r.name = obj[o].name /\ r.pending = obj[o].pending
        /\ r.setOps = obj[o].setOps /\ r.local = obj[o].local
        /\ r.remote = obj[o].remote /\ r.outcome = obj[o].outcome
        /\ r.cands = obj[o].cands /\ r.dc = obj[o].dc
    BY <2>1 DEF Object
  <2>4. to \in Thread({"idle", "offering", "closing"}) /\ to.at = "offering" /\ to.obj = o
    BY Zenon, <1>2 DEF IInv, TypeOK, Thread
  <2>5. MainDoes([obj EXCEPT ![o] = r], to)
    BY <1>5, Zenon
  <2>6. threads # "stopped"
    BY <1>5, Zenon DEF Serving
  <2> HIDE DEF r, to
  <2>7. Blank(r)
    BY <1>1, <1>2, <2>3, <2>6, ZenonT(40) DEF IInv, Turns, Calling, MainObj, Blank
  <2>8. Answering => WsObj # o
    BY <1>1, <1>2, <2>6, Zenon DEF IInv, Turns, Calling, MainObj
  <2>9. obj'[o] = r /\ UNCHANGED <<loggedIn, sig>>
    BY <1>2, <2>5, Zenon DEF MainDoes, IInv, TypeOK, flags
  <2>10. Local(o)'
    BY <1>2, <2>1, <2>3, <2>9, LocalMade, ZenonT(40)
  <2> QED BY <1>1, <1>2, <2>1, <2>2, <2>3, <2>4, <2>5, <2>7, <2>8, <2>10, MainObjectStep, Zenon
<1> QED BY <1>2, <1>3, <1>4, <1>5, Zenon DEF CreateOffer_PeerConnection

\* CreateOffer makes the data channel and starts the offer.
LEMMA OfferStartStep == ASSUME IInv, CreateOffer_Start PROVE IInv'
<1>1. Running /\ main.at = "offering"
  BY DEF CreateOffer_Start
<1>2. PICK o \in Objects : o = main.obj /\ o <= created
  BY <1>1 DEF IInv, Points
<1>3. CASE Dead(o) /\ Crash("use_after_free")
  BY <1>1, <1>2, <1>3, Born, CrashStep
<1>4. CASE Stopped /\ HangMain
  BY <1>4, HangStep
<1>5. CASE /\ ~ Dead(o) /\ Serving
           /\ MainDoes([obj EXCEPT ![o] = [obj[o] EXCEPT !.dc = "connecting",
                                                    !.pending = "offer"]], Idle)
  <2> DEFINE r == [obj[o] EXCEPT !.dc = "connecting", !.pending = "offer"]
  <2>1. obj[o] \in Object /\ obj[o].life = "alive" /\ Local(o)
    BY <1>2, <1>5, Born
  <2>2. r \in Object
    BY <2>1, Zenon DEF Object
  <2>3. /\ r.life = "alive" /\ r.pc = obj[o].pc /\ r.name = obj[o].name
        /\ r.pending = "offer" /\ r.dc = "connecting"
        /\ r.setOps = obj[o].setOps /\ r.local = obj[o].local
        /\ r.remote = obj[o].remote /\ r.outcome = obj[o].outcome
        /\ r.cands = obj[o].cands
    BY <2>1 DEF Object
  <2>4. Idle \in Thread({"idle", "offering", "closing"}) /\ Idle.at = "idle"
    BY DEF Idle, Thread, Keys
  <2>5. MainDoes([obj EXCEPT ![o] = r], Idle)
    BY <1>5, Zenon
  <2>6. threads # "stopped" /\ sig.at = "idle"
    BY <1>5 DEF Serving
  <2> HIDE DEF r
  <2>7. Blank(obj[o]) /\ obj[o].pc /\ (Answering => WsObj # o)
    BY <1>1, <1>2, <2>6 DEF IInv, Turns, Calling, MainObj
  <2>8. obj'[o] = r /\ UNCHANGED <<loggedIn, sig>>
    BY <1>2, <2>5, Zenon DEF MainDoes, IInv, TypeOK, flags
  <2>9. Local(o)'
    <3>1. r.pc
      BY <2>3, <2>7
    <3> QED BY <2>1, <2>3, <2>6, <2>7, <2>8, <3>1, ZenonT(40) DEF Local, Observing, Sending, Blank
  <2> QED BY ZenonT(40), <1>1, <1>2, <2>1, <2>2, <2>3, <2>4, <2>5, <2>7, <2>9, MainObjectStep
<1> QED BY <1>2, <1>3, <1>4, <1>5, Zenon DEF CreateOffer_Start

\* Senddata changes no object.
LEMMA SenddataStep == ASSUME IInv, NEW n \in Peers, Senddata(n) PROVE IInv'
<1>1. Running /\ connections[n] # NoObj /\ n \in Keys
  BY DEF Senddata, Keys
<1>2. PICK o \in Objects : o = connections[n] /\ o <= created
  BY <1>1, Entry, Zenon
<1>3. CASE Dead(o) /\ Crash("use_after_free")
  BY <1>1, <1>2, <1>3, Born, CrashStep
<1>4. CASE Stopped /\ HangMain
  BY <1>4, HangStep
<1>5. CASE UNCHANGED vars
  BY <1>5, StutterStep
<1> QED BY <1>2, <1>3, <1>4, <1>5, Zenon DEF Senddata

\* Disconnect closes the data channel; the object may be one that an offer brought.
LEMMA CloseChannelStep == ASSUME IInv, NEW n \in Peers, Disconnect_Channel(n) PROVE IInv'
<1>1. Running /\ main.at = "idle" /\ connections[n] # NoObj /\ n \in Keys
  BY DEF Disconnect_Channel, Keys
<1>2. PICK o \in Objects : o = connections[n] /\ o <= created
  BY <1>1, Entry, Zenon
<1>3. CASE Dead(o) /\ Crash("use_after_free")
  BY <1>1, <1>2, <1>3, Born, CrashStep, Zenon
<1>4. CASE Stopped /\ HangMain
  BY <1>4, HangStep
<1>5. CASE /\ ~ Dead(o)
           /\ MainDoes([obj EXCEPT ![o].dc = "none"],
                       [main EXCEPT !.at = "closing", !.obj = o])
  <2> DEFINE r == [obj[o] EXCEPT !.dc = "none"]
             to == [main EXCEPT !.at = "closing", !.obj = o]
  <2>1. obj[o] \in Object /\ Local(o)
    BY <1>2, <1>5, Born
  <2>2. r \in Object
    BY <2>1, Zenon DEF Object
  <2>3. /\ r.life = obj[o].life /\ r.pc = obj[o].pc /\ r.name = obj[o].name
        /\ r.pending = obj[o].pending
        /\ r.setOps = obj[o].setOps /\ r.local = obj[o].local
        /\ r.remote = obj[o].remote /\ r.outcome = obj[o].outcome
        /\ r.cands = obj[o].cands /\ r.dc = "none"
    BY <2>1 DEF Object
  <2>4. to \in Thread({"idle", "offering", "closing"}) /\ to.at = "closing" /\ to.obj = o
    BY Zenon, <1>2 DEF IInv, TypeOK, Thread
  <2>5. MainDoes([obj EXCEPT ![o] = r], to)
    BY <1>5, ZenonT(40)
  <2> HIDE DEF r, to
  <2>6. threads # "stopped" /\ Answering /\ WsObj = o => Waiting(r)
    BY <2>3 DEF IInv, Turns, Waiting, Blank, Untold
  <2>7. obj'[o] = r /\ UNCHANGED <<loggedIn, sig>>
    BY <1>2, <2>5 DEF MainDoes, IInv, TypeOK, flags
  <2>8. Local(o)'
    BY Zenon, <1>2, <2>1, <2>3, <2>7, LocalKept
  <2> QED BY Zenon, <1>1, <1>2, <2>1, <2>2, <2>3, <2>4, <2>5, <2>6, <2>8, MainObjectStep
<1> QED BY <1>2, <1>3, <1>4, <1>5, Zenon DEF Disconnect_Channel

\* Disconnect closes the PeerConnection: what was pending has failed.
LEMMA ClosePeerStep == ASSUME IInv, Disconnect_PeerConnection PROVE IInv'
<1>1. Running /\ main.at = "closing"
  BY Zenon DEF Disconnect_PeerConnection
<1>2. PICK o \in Objects : o = main.obj /\ o <= created
  BY <1>1, Zenon DEF IInv, Points
<1>3. CASE \/ Dead(o) /\ Crash("use_after_free")
           \/ Crash("null_pc")
           \/ ~ Mapped(o) /\ Crash("use_after_free")
           \/ Crash("freed_description")
  BY <1>1, <1>2, <1>3, Born, CrashStep, Zenon
<1>4. CASE Stopped /\ HangMain
  BY <1>4, HangStep
<1>5. ASSUME NEW e \in {"failed", "sent"}, Serving,
             MainDoes([obj EXCEPT ![o] = Closed(@, e)], Idle)
      PROVE  IInv'
  <2> DEFINE r == Closed(obj[o], e)
  <2>1. obj[o] \in Object /\ Local(o)
    BY <1>2, <1>5, Born
  <2>2. r \in Object
    BY <2>1, ClosedType
  <2>3. /\ r.life = obj[o].life /\ r.pc = FALSE /\ r.name = obj[o].name
        /\ r.pending = "none" /\ r.setOps = 0 /\ r.local = "none" /\ r.remote = "none"
        /\ r.outcome = IF obj[o].pending = "none" THEN obj[o].outcome ELSE e
        /\ r.cands = obj[o].cands /\ (obj[o].dc = "none" => r.dc = "none")
    BY <2>1 DEF Object, Closed
  <2>4. Idle \in Thread({"idle", "offering", "closing"}) /\ Idle.at = "idle"
    BY DEF Idle, Thread, Keys
  <2>5. MainDoes([obj EXCEPT ![o] = r], Idle)
    BY <1>5, ZenonT(40)
  <2> HIDE DEF r
  <2>6. threads # "stopped" /\ Answering /\ WsObj = o => Waiting(r)
    BY <2>3 DEF IInv, Turns, Waiting, Blank, Untold
  <2>7. obj'[o] = r /\ UNCHANGED <<loggedIn, sig>> /\ sig.at = "idle"
        /\ loggedIn
    BY <1>2, <1>5, <2>5 DEF MainDoes, IInv, TypeOK, flags, Serving, Startup
  <2>8. Local(o)'
    <3>1. ~ r.pc /\ ~ Observing(o)' /\ ~ Sending(o)'
      BY <2>3, <2>7 DEF Observing, Sending
    <3> QED BY ZenonT(40), <2>1, <2>3, <2>7, <3>1 DEF Local
  <2> QED BY Zenon, <1>1, <1>2, <2>1, <2>2, <2>3, <2>4, <2>5, <2>6, <2>8, MainObjectStep
<1> QED BY <1>2, <1>3, <1>4, <1>5 DEF Disconnect_PeerConnection

-----------------------------------------------------------------------------
(* The other actions of the WebSocket thread.                              *)

\* CreateAnswer makes the PeerConnection.
LEMMA AnswerPeerStep == ASSUME IInv, CreateAnswer_PeerConnection PROVE IInv'
<1>1. Running /\ ws.at = "inserted" /\ ws.name \in Keys
  BY DEF CreateAnswer_PeerConnection, IInv, TypeOK, Thread
<1>2. PICK o \in Objects : o = connections[ws.name] /\ o <= created
  BY <1>1, Entry DEF IInv, Points
<1>3. CASE \/ Dead(o) /\ Crash("use_after_free")
           \/ Crash("null_factory")
  BY <1>1, <1>2, <1>3, Born, CrashStep
<1>4. CASE Stopped /\ HangWs
  BY <1>4, HangStep
<1>5. CASE /\ factory' = FALSE /\ ws' = Idle
           /\ UNCHANGED <<fault, wsConnected, loggedIn, threads, heap, main, sig>>
  BY Zenon, <1>5, WsGivesUp
<1>6. CASE /\ ~ Dead(o) /\ Serving
           /\ WsDoes([obj EXCEPT ![o].pc = TRUE],
                     [ws EXCEPT !.at = "describing", !.obj = o])
  <2> DEFINE r == [obj[o] EXCEPT !.pc = TRUE]
             to == [ws EXCEPT !.at = "describing", !.obj = o]
  <2>1. obj[o] \in Object /\ obj[o].life = "alive" /\ Local(o)
    BY <1>2, <1>6, Born
  <2>2. r \in Object
    BY <2>1, Zenon DEF Object
  <2>3. /\ r.life = "alive" /\ r.pc /\ r.name = obj[o].name /\ r.pending = obj[o].pending
        /\ r.setOps = obj[o].setOps /\ r.local = obj[o].local
        /\ r.remote = obj[o].remote /\ r.outcome = obj[o].outcome
        /\ r.cands = obj[o].cands /\ r.dc = obj[o].dc
    BY <2>1 DEF Object
  <2>4. to \in Thread({"idle", "describing", "answering"}) /\ to.at = "describing" /\ to.obj = o
    BY Zenon, <1>2 DEF IInv, TypeOK, Thread
  <2>5. WsDoes([obj EXCEPT ![o] = r], to)
    BY <1>6, Zenon
  <2>6. threads # "stopped"
    BY <1>6, Zenon DEF Serving
  <2> HIDE DEF r, to
  <2>7. Blank(r) /\ (Calling => MainObj # o) /\ Answering /\ WsObj = o
    BY <1>1, <1>2, <2>3, <2>6, ZenonT(40) DEF IInv, Turns, Answering, WsObj, Waiting, Blank
  <2>8. obj'[o] = r /\ UNCHANGED <<loggedIn, sig>>
    BY <1>2, <2>5 DEF WsDoes, IInv, TypeOK, flags
  <2>9. Local(o)'
    BY <1>2, <2>1, <2>3, <2>8, LocalMade, Zenon
  <2> QED BY Zenon, <1>1, <1>2, <2>1, <2>2, <2>3, <2>4, <2>5, <2>7, <2>9, WsObjectStep
<1> QED BY <1>2, <1>3, <1>4, <1>5, <1>6, Zenon DEF CreateAnswer_PeerConnection

\* CreateAnswer sets the offer and starts the answer.
LEMMA DescribeStep == ASSUME IInv, CreateAnswer_Describe PROVE IInv'
<1>1. Running /\ ws.at = "describing"
  BY Zenon DEF CreateAnswer_Describe
<1>2. PICK o \in Objects : o = ws.obj /\ o <= created
  BY <1>1 DEF IInv, Points
<1>3. CASE \/ Dead(o) /\ Crash("use_after_free")
           \/ Crash("null_pc")
  BY <1>1, <1>2, <1>3, Born, CrashStep
<1>4. CASE Stopped /\ HangWs
  BY <1>4, HangStep
<1>5. CASE WsDoes(obj, Idle)
  <2>1. /\ factory' \in BOOLEAN /\ ws' = Idle
        /\ UNCHANGED <<fault, wsConnected, loggedIn, threads, heap, main, sig>>
    BY <1>5, ZenonT(40) DEF WsDoes, flags, heap, IInv, TypeOK
  <2> QED BY <2>1, WsGivesUp
<1>6. CASE /\ obj[o].pc /\ Serving
           /\ WsDoes([obj EXCEPT ![o] = [obj[o] EXCEPT !.setOps = @ + 1, !.remote = "offer"]],
                     [ws EXCEPT !.at = "answering"])
  <2> DEFINE v == obj[o].setOps + 1
             r == [obj[o] EXCEPT !.setOps = v, !.remote = "offer"]
             to == [ws EXCEPT !.at = "answering"]
  <2>1. obj[o] \in Object /\ obj[o].life = "alive" /\ Local(o)
    BY <1>2, <1>6, Born DEF Local
  <2>2. v \in Nat
    BY <2>1, Fields
  <2>3. WsDoes([obj EXCEPT ![o] = r], to)
    BY <1>6, Zenon
  <2> HIDE DEF v
  <2>4. r \in Object
    BY <2>1, <2>2, ZenonT(40) DEF Object
  <2>5. /\ r.life = obj[o].life /\ r.pc = obj[o].pc /\ r.name = obj[o].name
        /\ r.pending = obj[o].pending /\ r.remote = "offer" /\ r.local = obj[o].local
        /\ r.outcome = obj[o].outcome /\ r.cands = obj[o].cands /\ r.dc = obj[o].dc
    BY <2>1 DEF Object
  <2>6. /\ to \in Thread({"idle", "describing", "answering"})
        /\ to.at = "answering" /\ to.obj = o
    BY <1>2, Zenon DEF IInv, TypeOK, Thread
  <2>7. threads # "stopped" /\ sig.at = "idle"
    BY <1>6 DEF Serving
  <2> HIDE DEF r, to
  <2>8. Blank(obj[o]) /\ (Calling => MainObj # o) /\ Answering /\ WsObj = o
    BY <1>1, <1>2, <2>7 DEF IInv, Turns, Answering, WsObj, Waiting
  <2>9. obj'[o] = r /\ UNCHANGED <<loggedIn, sig>>
    BY <1>2, <2>3 DEF WsDoes, IInv, TypeOK, flags
  <2>10. Local(o)'
    <3>1. r.pc
      BY <1>6, <2>5
    <3> QED BY ZenonT(40), <2>1, <2>5, <2>7, <2>8, <2>9, <3>1 DEF Local, Observing, Sending, Blank
  <2>11. Untold(r)
    BY <2>5, <2>8 DEF Blank, Untold
  <2> QED BY <1>1, <1>2, <2>1, <2>3, <2>4, <2>5, <2>6, <2>7, <2>8, <2>10, <2>11, WsObjectStep,
             Zenon
<1> QED BY <1>2, <1>3, <1>4, <1>5, <1>6, Zenon DEF CreateAnswer_Describe

\* CreateAnswer starts the answer.
LEMMA AnswerStartStep == ASSUME IInv, CreateAnswer_Start PROVE IInv'
<1>1. Running /\ ws.at = "answering"
  BY DEF CreateAnswer_Start
<1>2. PICK o \in Objects : o = ws.obj /\ o <= created
  BY <1>1 DEF IInv, Points
<1>3. CASE \/ Dead(o) /\ Crash("use_after_free")
           \/ Crash("null_pc")
  BY <1>1, <1>2, <1>3, Born, CrashStep
<1>4. CASE Stopped /\ HangWs
  BY <1>4, HangStep
<1>5. CASE /\ obj[o].pc /\ Serving
           /\ WsDoes([obj EXCEPT ![o] = [obj[o] EXCEPT !.pending = "answer",
                                                  !.dangling = TRUE]], Idle)
  <2> DEFINE r == [obj[o] EXCEPT !.pending = "answer", !.dangling = TRUE]
  <2>1. obj[o] \in Object /\ obj[o].life = "alive" /\ Local(o)
    BY <1>2, <1>5, Born DEF Local
  <2>2. WsDoes([obj EXCEPT ![o] = r], Idle)
    BY <1>5, Zenon
  <2>3. r \in Object
    BY <2>1, ZenonT(40) DEF Object
  <2>4. /\ r.life = obj[o].life /\ r.pc = obj[o].pc /\ r.name = obj[o].name
        /\ r.pending = "answer" /\ r.remote = obj[o].remote /\ r.local = obj[o].local
        /\ r.outcome = obj[o].outcome /\ r.cands = obj[o].cands /\ r.dc = obj[o].dc
    BY <2>1 DEF Object
  <2>5. Idle \in Thread({"idle", "describing", "answering"}) /\ Idle.at = "idle"
    BY DEF Idle, Thread, Keys
  <2>6. threads # "stopped" /\ sig.at = "idle"
    BY <1>5, Zenon DEF Serving
  <2> HIDE DEF r
  <2>7. Untold(obj[o]) /\ (Calling => MainObj # o)
    BY <1>1, <1>2, <2>6 DEF IInv, Turns, Answering, WsObj, Waiting
  <2>8. obj'[o] = r /\ UNCHANGED <<loggedIn, sig>>
    BY <1>2, <2>2 DEF WsDoes, IInv, TypeOK, flags
  <2>9. Local(o)'
    <3>1. r.pc
      BY <1>5, <2>4
    <3> QED BY ZenonT(40), <2>1, <2>4, <2>6, <2>7, <2>8, <3>1
               DEF Local, Observing, Sending, Untold
  <2> QED BY <1>1, <1>2, <2>1, <2>2, <2>3, <2>4, <2>5, <2>7, <2>9, WsObjectStep, Zenon
<1> QED BY <1>2, <1>3, <1>4, <1>5, Zenon DEF CreateAnswer_Start

\* A candidate changes no object.
LEMMA CandidateStep == ASSUME IInv, NEW m \in Incoming, OnCandidate(m) PROVE IInv'
<1> DEFINE t == Json(m, "candidate")
           k == Json(m, "name")
<1>1. Running /\ k \in Keys
  BY Named DEF OnCandidate, Delivered
<1>2. CASE Crash("json_type") \/ Crash("null_connection")
  BY <1>1, <1>2, CrashStep
<1>3. CASE UNCHANGED vars
  BY <1>3, StutterStep
<1>4. CASE connections[k] # NoObj /\ AddIceCandidate(connections[k], t)
  <2>1. PICK o \in Objects : o = connections[k] /\ o <= created
    BY <1>1, <1>4, Entry
  <2>2. CASE Dead(o) /\ Crash("use_after_free")
    BY <1>1, <2>1, <2>2, Born, CrashStep
  <2>3. CASE Crash("null_pc")
    BY <1>1, <2>3, CrashStep
  <2>4. CASE Stopped /\ HangWs
    BY <2>4, HangStep
  <2> QED BY <1>3, <1>4, <2>1, <2>2, <2>3, <2>4, Zenon DEF AddIceCandidate
<1> QED BY <1>2, <1>3, <1>4, Zenon DEF OnCandidate

\* No description has type "anwer": an answer only marks the call refused.
LEMMA Refused ==
  ASSUME NEW r \in Object, NEW text
  PROVE  SetRemoteDescription(r, text)
           = [r EXCEPT !.outcome = IF r.outcome = "sent" THEN "refused" ELSE r.outcome]
<1>1. ~ CreateSessionDescription("anwer", text)
  BY DEF CreateSessionDescription, SdpTypes
<1> QED BY <1>1 DEF SetRemoteDescription

\* An answer changes no more than the outcome of the call.
LEMMA AnswerStep == ASSUME IInv, NEW m \in Incoming, OnAnswer(m) PROVE IInv'
<1> DEFINE k == Json(m, "name")
           t == Json(m, "answer")
<1>1. Running /\ k \in Keys /\ ws.at = "idle"
  BY Named DEF OnAnswer, Delivered
<1>2. CASE Crash("null_connection")
  BY <1>1, <1>2, CrashStep
<1>3. CASE /\ connections[k] # NoObj
           /\ \/ Dead(connections[k]) /\ Crash("use_after_free")
              \/ WsDoes([obj EXCEPT ![connections[k]] = SetRemoteDescription(@, t)], ws)
  <2>1. PICK o \in Objects : o = connections[k] /\ o <= created
    BY <1>1, <1>3, Entry, Zenon
  <2>2. CASE Dead(o) /\ Crash("use_after_free")
    BY <1>1, <2>1, <2>2, Born, CrashStep
  <2>3. CASE WsDoes([obj EXCEPT ![o] = SetRemoteDescription(@, t)], ws)
    <3>1. obj[o] \in Object /\ Local(o)
      BY <2>1, Born
    <3> DEFINE u == IF obj[o].outcome = "sent" THEN "refused" ELSE obj[o].outcome
               r == [obj[o] EXCEPT !.outcome = u]
    <3>2. WsDoes([obj EXCEPT ![o] = r], ws)
      BY <2>3, <3>1, Refused, Zenon
    <3>3. u \in {"none", "sent", "failed", "refused"}
      BY <3>1, Fields DEF Outcomes
    <3>4. r \in Object
      <4> HIDE DEF u
      <4> QED BY <3>1, <3>3, ZenonT(40) DEF Object
    <3>5. /\ r.life = obj[o].life /\ r.pc = obj[o].pc /\ r.name = obj[o].name
          /\ r.pending = obj[o].pending /\ r.setOps = obj[o].setOps
          /\ r.remote = obj[o].remote /\ r.local = obj[o].local
          /\ r.outcome = u /\ r.cands = obj[o].cands /\ r.dc = obj[o].dc
      BY <3>1 DEF Object
    <3> HIDE DEF r
    <3>6. ws \in Thread({"idle", "describing", "answering"})
      BY <1>1, Zenon DEF IInv, TypeOK, Thread
    <3>7. threads # "stopped" /\ Calling /\ MainObj = o => Blank(r)
      BY <3>5, ZenonT(40) DEF IInv, Turns, Blank
    <3>8. obj'[o] = r /\ UNCHANGED <<loggedIn, sig>>
      BY Zenon, <2>1, <3>2 DEF WsDoes, IInv, TypeOK, flags
    <3>9. Local(o)'
      <4>1. (Observing(o)' <=> Observing(o)) /\ (Sending(o)' <=> Sending(o))
        BY Zenon, <3>5, <3>8 DEF Observing, Sending
      <4>2. u \in {"sent", "refused"} <=> obj[o].outcome \in {"sent", "refused"}
        OBVIOUS
      <4>3. u = "none" <=> obj[o].outcome = "none"
        OBVIOUS
      <4> HIDE DEF u
      <4> QED BY ZenonT(40), <3>1, <3>5, <3>8, <4>1, <4>2, <4>3 DEF Local
    <3> HIDE DEF u
    <3> QED BY ZenonT(40), <1>1, <2>1, <3>2, <3>4, <3>5, <3>6, <3>7, <3>9, WsObjectStep
  <2> QED BY <1>3, <2>1, <2>2, <2>3
<1> QED BY <1>2, <1>3, Zenon DEF OnAnswer

-----------------------------------------------------------------------------
(* The signaling thread.                                                     *)

\* An object that is observed or has a local description was made, and is in use.
LEMMA InUse ==
  ASSUME IInv, NEW o \in Objects, Observing(o) \/ (obj[o].local # "none" /\ obj[o].pc)
  PROVE  /\ o <= created /\ obj[o] \in Object /\ obj[o].life = "alive" /\ obj[o].pc
         /\ Local(o) /\ ~ Blank(obj[o])
<1>1. obj[o] \in Object /\ Local(o) /\ (obj[o].life = "unborn" <=> created < o)
  BY Zenon DEF IInv, TypeOK, Heap
<1>2. obj[o].life = "alive" /\ obj[o].pc
  BY <1>1 DEF Local
<1>3. o <= created
  <2>1. created \in Nat
    BY DEF IInv, TypeOK
  <2>2. ~ (created < o)
    BY <1>1, <1>2, Zenon
  <2> QED BY <2>1, <2>2 DEF Objects
<1>4. ~ Blank(obj[o])
  BY NotTaken, Zenon DEF Blank
<1> QED BY <1>1, <1>2, <1>3, <1>4

\* The end of an operation, for an object left as r.
LEMMA ReleasedStep ==
  ASSUME IInv, Running, threads = "running", NEW o \in Objects, NEW r \in Object,
         Released(o, r), Observing(o), r.life = obj[o].life, r.name = obj[o].name,
         obj'[o] = r => Local(o)',
         r.cands > 0 \/ r.local # "none" => r.outcome \in {"sent", "refused"},
         r.outcome \in {"sent", "refused"} => loggedIn,
         r.remote = "offer" => r.local # "offer",
         UNCHANGED <<fault, flags, connections, created, main, ws>>,
         sig' \in [at : {"idle", "sending"}, obj : Objects \union {NoObj}],
         sig'.at = "idle", sig.at = "sending" => sig.obj = o,
         ws.at = "answering" /\ ws.obj = o => Untold(r)
  PROVE  IInv'
<1>1. /\ o <= created /\ obj[o] \in Object /\ obj[o].life = "alive" /\ obj[o].pc
      /\ Local(o) /\ ~ Blank(obj[o])
  BY Zenon, InUse
<1>2. CASE obj' = [obj EXCEPT ![o] = r] /\ UNCHANGED threads
  <2>1. obj'[o] = r
    BY <1>2 DEF IInv, TypeOK
  <2>2. \A p \in Objects \ {o} : Sending(p)' <=> Sending(p)
    BY ZenonT(40) DEF Sending
  <2>3. ~ Sending(o)'
    BY Zenon DEF Sending
  <2> QED BY ZenonT(40), <1>1, <1>2, <2>1, <2>2, <2>3, SigObjectStep
<1>3. CASE /\ ~ Mapped(o)
           /\ obj' = [obj EXCEPT ![o] = Destroyed(r)] /\ threads' = "stopped"
  BY Zenon, <1>1, <1>3, DestroyStep
<1> QED BY <1>2, <1>3 DEF Released

\* OnSuccess(desc) sets the local description ...
LEMMA SetLocalStep == ASSUME IInv, NEW o \in Objects, OnSuccess_SetLocal(o) PROVE IInv'
<1>1. /\ Running /\ threads = "running" /\ sig.at = "idle" /\ obj[o].pending # "none"
  BY ZenonT(40) DEF OnSuccess_SetLocal, Serving
<1>2. /\ o <= created /\ obj[o] \in Object /\ obj[o].life = "alive" /\ obj[o].pc
      /\ Local(o) /\ ~ Blank(obj[o])
  BY <1>1, InUse DEF Observing
<1> DEFINE v == obj[o].setOps + 1
<1>l. PICK l \in {obj[o].pending, "none"} :
        SigDoes([obj EXCEPT ![o] = [obj[o] EXCEPT !.setOps = @ + 1, !.local = l,
                                                  !.pending = "none"]],
                [at |-> "sending", obj |-> o])
  BY Zenon DEF OnSuccess_SetLocal
<1> DEFINE r == [obj[o] EXCEPT !.setOps = v, !.local = l, !.pending = "none"]
<1>3. v \in Nat /\ v > 0 /\ l \in {"none", "offer", "answer"}
  BY <1>2, Fields DEF Kinds
<1>4. obj' = [obj EXCEPT ![o] = r] /\ sig' = [at |-> "sending", obj |-> o]
      /\ UNCHANGED <<fault, flags, threads, connections, created, main, ws>>
  BY <1>l, Zenon DEF SigDoes
<1>5. r.setOps = v /\ r.local = l
  BY <1>2 DEF Object
<1> HIDE DEF v
<1>6. r \in Object
  BY <1>2, <1>3, ZenonT(40) DEF Object
<1>7. /\ r.life = obj[o].life /\ r.pc = obj[o].pc /\ r.name = obj[o].name
      /\ r.pending = "none" /\ r.remote = obj[o].remote
      /\ r.outcome = obj[o].outcome /\ r.cands = obj[o].cands /\ r.dc = obj[o].dc
  BY Zenon, <1>2 DEF Object
<1> HIDE DEF r
<1>8. /\ sig'.at = "sending" /\ sig'.obj = o
      /\ sig' \in [at : {"idle", "sending"}, obj : Objects \union {NoObj}]
      /\ \A p \in Objects \ {o} : Sending(p)' <=> Sending(p)
  BY <1>1, <1>4 DEF Sending
<1>9. obj'[o] = r /\ UNCHANGED loggedIn
  BY <1>4 DEF IInv, TypeOK, flags
<1>10. Local(o)'
  <2>1. r.pc /\ obj[o].outcome = "none" /\ obj[o].cands = 0
    BY Zenon, <1>1, <1>2, <1>7 DEF Local
  <2>2. obj[o].remote = "offer" => l # "offer" /\ obj[o].dc # "connecting"
    BY <1>1, <1>2, Zenon DEF Local
  <2> QED BY ZenonT(40), <1>2, <1>3, <1>5, <1>7, <1>8, <1>9, <2>1, <2>2 DEF Local, Sending
<1>11. ~ (threads # "stopped" /\ ws.at = "answering" /\ ws.obj = o)
  BY <1>1, Zenon DEF IInv, Turns, Answering, WsObj, Waiting, Untold
<1> QED BY Zenon, <1>1, <1>2, <1>4, <1>6, <1>7, <1>8, <1>10, <1>11, SigObjectStep

\* ... and sends it.
LEMMA SendStep == ASSUME IInv, OnSuccess_Send PROVE IInv'
<1>a. Running /\ sig.at = "sending" /\ threads = "running" /\ wsConnected /\ loggedIn
  BY DEF OnSuccess_Send, IInv, Startup
<1>b. CASE Crash("freed_description")
  BY <1>a, <1>b, CrashStep
<1>c. SUFFICES
        ASSUME Released(sig.obj, [obj[sig.obj] EXCEPT
                                    !.outcome = IF wsConnected THEN "sent" ELSE @]),
               sig' = Resting, UNCHANGED <<fault, flags, connections, created, main, ws>>
        PROVE  IInv'
  BY <1>b, Zenon DEF OnSuccess_Send
<1>1. /\ Running /\ sig.at = "sending" /\ threads = "running" /\ wsConnected /\ loggedIn
      /\ sig' = Resting /\ UNCHANGED <<fault, flags, connections, created, main, ws>>
  BY <1>a, <1>c
<1>2. PICK o \in Objects : o = sig.obj
  BY <1>1 DEF IInv, Startup
<1> DEFINE r == [obj[o] EXCEPT !.outcome = "sent"]
<1>3. Released(o, r)
  BY <1>1, <1>2, <1>c, Zenon
<1>4. Observing(o) /\ Sending(o)
  BY <1>1, <1>2 DEF Observing, Sending
<1>5. obj[o] \in Object /\ obj[o].life = "alive" /\ obj[o].pc /\ Local(o)
  BY <1>4, InUse
<1>6. r \in Object
  BY <1>5, Zenon DEF Object
<1>7. /\ r.life = obj[o].life /\ r.pc = obj[o].pc /\ r.name = obj[o].name
      /\ r.pending = obj[o].pending /\ r.setOps = obj[o].setOps
      /\ r.remote = obj[o].remote /\ r.local = obj[o].local
      /\ r.outcome = "sent" /\ r.cands = obj[o].cands /\ r.dc = obj[o].dc
  BY Zenon, <1>5 DEF Object
<1> HIDE DEF r
<1>8. /\ sig'.at = "idle" /\ loggedIn'
      /\ sig' \in [at : {"idle", "sending"}, obj : Objects \union {NoObj}]
  BY <1>1, ZenonT(40) DEF Resting, flags
<1>9. obj[o].pending = "none"
  BY <1>4, <1>5 DEF Local
<1>10. obj'[o] = r => Local(o)'
  <2>1. r.pc
    BY <1>5, <1>7
  <2> QED BY ZenonT(40), <1>5, <1>7, <1>8, <1>9, <2>1 DEF Local, Observing, Sending
<1>11. obj[o].remote = "offer" => obj[o].local # "offer"
  BY <1>5 DEF Local
<1>12. ~ (ws.at = "answering" /\ ws.obj = o)
  BY <1>1, <1>4, Zenon DEF IInv, Turns
<1> QED BY Zenon, <1>1, <1>2, <1>3, <1>4, <1>6, <1>7, <1>8, <1>10, <1>11, <1>12, ReleasedStep

\* A create operation that failed.
LEMMA FailureStep == ASSUME IInv, NEW o \in Objects, OnFailure(o) PROVE IInv'
<1>1. /\ Running /\ threads = "running" /\ sig.at = "idle" /\ obj[o].pending # "none"
      /\ UNCHANGED <<fault, flags, connections, created, main, ws, sig>>
  BY Zenon DEF OnFailure, Serving
<1>2. Observing(o)
  BY <1>1, Zenon DEF Observing
<1>3. obj[o] \in Object /\ obj[o].life = "alive" /\ obj[o].pc /\ Local(o)
  BY Zenon, <1>2, InUse
<1> DEFINE r == [obj[o] EXCEPT !.pending = "none", !.outcome = "failed"]
<1>4. Released(o, r)
  BY Zenon DEF OnFailure
<1>5. r \in Object
  BY <1>3, Zenon DEF Object
<1>6. /\ r.life = obj[o].life /\ r.pc = obj[o].pc /\ r.name = obj[o].name
      /\ r.pending = "none" /\ r.setOps = obj[o].setOps
      /\ r.remote = obj[o].remote /\ r.local = obj[o].local
      /\ r.outcome = "failed" /\ r.cands = obj[o].cands /\ r.dc = obj[o].dc
  BY ZenonT(40), <1>3 DEF Object
<1> HIDE DEF r
<1>7. /\ sig'.at = "idle" /\ UNCHANGED <<loggedIn, sig>>
      /\ sig' \in [at : {"idle", "sending"}, obj : Objects \union {NoObj}]
  BY <1>1 DEF flags, IInv, TypeOK
<1>8. obj[o].local = "none" /\ obj[o].cands = 0
  BY ZenonT(40), <1>1, <1>3 DEF Local
<1>9. /\ ~ (r.cands > 0 \/ r.local # "none") /\ r.outcome \notin {"sent", "refused"}
      /\ r.local # "offer" /\ r.pending # "offer"
  BY <1>6, <1>8
<1>10. obj'[o] = r => Local(o)'
  <2>1. r.life = "alive" /\ r.pc
    BY Zenon, <1>3, <1>6
  <2>2. r.remote = "offer" => r.dc # "connecting"
    BY ZenonT(40), <1>3, <1>6 DEF Local
  <2> QED BY Zenon, <1>6, <1>7, <1>9, <2>1, <2>2, LocalIdle
<1>11. ~ (ws.at = "answering" /\ ws.obj = o)
  BY <1>1, Zenon DEF IInv, Turns, Answering, WsObj, Waiting, Untold
<1> QED BY Zenon, <1>1, <1>2, <1>4, <1>5, <1>6, <1>7, <1>9, <1>10, <1>11, ReleasedStep

\* A set operation that is over.
LEMMA SetDoneStep == ASSUME IInv, NEW o \in Objects, OnSetDone(o) PROVE IInv'
<1>1. /\ Running /\ threads = "running" /\ sig.at = "idle" /\ obj[o].setOps > 0
      /\ UNCHANGED <<fault, flags, connections, created, main, ws, sig>>
  BY DEF OnSetDone, Serving
<1>2. Observing(o)
  BY <1>1 DEF Observing
<1>3. obj[o] \in Object /\ obj[o].life = "alive" /\ obj[o].pc /\ Local(o)
  BY Zenon, <1>2, InUse
<1> DEFINE v == obj[o].setOps - 1
           r == [obj[o] EXCEPT !.setOps = v]
<1>4. Released(o, r)
  BY ZenonT(40) DEF OnSetDone
<1>5. v \in Nat
  BY <1>1, <1>3, Fields, FewerOps, Zenon
<1> HIDE DEF v
<1>6. r \in Object
  BY <1>3, <1>5, Zenon DEF Object
<1>7. /\ r.life = obj[o].life /\ r.pc = obj[o].pc /\ r.name = obj[o].name
      /\ r.pending = obj[o].pending
      /\ r.remote = obj[o].remote /\ r.local = obj[o].local
      /\ r.outcome = obj[o].outcome /\ r.cands = obj[o].cands /\ r.dc = obj[o].dc
  BY Zenon, <1>3 DEF Object
<1> HIDE DEF r
<1>8. /\ sig'.at = "idle" /\ UNCHANGED <<loggedIn, sig>>
      /\ sig' \in [at : {"idle", "sending"}, obj : Objects \union {NoObj}]
  BY <1>1 DEF flags, IInv, TypeOK
<1>9. /\ obj[o].local # "none" => obj[o].outcome \in {"sent", "refused"}
      /\ obj[o].cands > 0 => obj[o].outcome \in {"sent", "refused"}
      /\ obj[o].outcome \in {"sent", "refused"} => loggedIn
      /\ obj[o].remote = "offer" => obj[o].local # "offer"
  BY Zenon, <1>1, <1>3 DEF Local, Sending
<1>10. obj'[o] = r => Local(o)'
  <2>1. r.life = "alive" /\ r.pc
    BY Zenon, <1>3, <1>7
  <2>2. /\ r.remote = "offer" =>
             r.dc # "connecting" /\ r.pending # "offer" /\ r.local # "offer"
        /\ r.pending # "none" => r.outcome = "none" /\ r.cands = 0 /\ r.local = "none"
    BY ZenonT(40), <1>3, <1>7 DEF Local
  <2> QED BY Zenon, <1>7, <1>8, <1>9, <2>1, <2>2, LocalIdle
<1>11. ws.at = "answering" /\ ws.obj = o => Untold(r)
  BY <1>1, <1>7, Zenon DEF IInv, Turns, Answering, WsObj, Waiting, Untold
<1> QED BY Zenon, <1>1, <1>2, <1>4, <1>6, <1>7, <1>8, <1>9, <1>10, <1>11, ReleasedStep

\* One more candidate, below the bound.
LEMMA MoreCands ==
  ASSUME NEW c \in 0..MaxCand, c < MaxCand
  PROVE  c + 1 \in 0..MaxCand
BY Bounds

\* A candidate is gathered and sent.
LEMMA GatherStep == ASSUME IInv, NEW o \in Objects, OnIceCandidate(o) PROVE IInv'
<1>1. /\ Running /\ threads = "running" /\ sig.at = "idle"
      /\ obj[o].local # "none" /\ obj[o].pc /\ obj[o].cands < MaxCand
  BY DEF OnIceCandidate, Serving
<1>2. /\ o <= created /\ obj[o] \in Object /\ obj[o].life = "alive" /\ obj[o].pc
      /\ Local(o) /\ ~ Blank(obj[o])
  BY Zenon, <1>1, InUse
<1> DEFINE v == obj[o].cands + 1
           r == [obj[o] EXCEPT !.cands = v]
<1>3. obj' = [obj EXCEPT ![o] = r]
      /\ UNCHANGED <<fault, flags, threads, connections, created, main, ws, sig>>
  BY Zenon DEF OnIceCandidate, SigDoes
<1>4. v \in 0..MaxCand
  <2>1. obj[o].cands \in 0..MaxCand
    BY Zenon, <1>2 DEF Object
  <2> QED BY <1>1, <2>1, MoreCands, Zenon
<1> HIDE DEF v
<1>5. r \in Object
  BY <1>2, <1>4, Zenon DEF Object
<1>6. /\ r.life = obj[o].life /\ r.pc = obj[o].pc /\ r.name = obj[o].name
      /\ r.pending = obj[o].pending /\ r.setOps = obj[o].setOps
      /\ r.remote = obj[o].remote /\ r.local = obj[o].local
      /\ r.outcome = obj[o].outcome /\ r.dc = obj[o].dc
  BY Zenon, <1>2 DEF Object
<1> HIDE DEF r
<1>7. obj'[o] = r /\ UNCHANGED <<loggedIn, sig>>
  BY <1>3 DEF IInv, TypeOK, flags
<1>8. Local(o)'
  <2>1. r.pc /\ obj[o].outcome \in {"sent", "refused"}
    BY Zenon, <1>1, <1>2, <1>6 DEF Local, Sending
  <2> QED BY Zenon, <1>1, <1>2, <1>6, <1>7, <2>1 DEF Local, Sending
<1>9. \A p \in Objects \ {o} : Sending(p)' <=> Sending(p)
  BY <1>3 DEF Sending
<1>10. /\ sig' \in [at : {"idle", "sending"}, obj : Objects \union {NoObj}]
       /\ sig'.at = "idle"
  BY <1>1, <1>3, Zenon DEF IInv, TypeOK
<1>11. ~ (threads # "stopped" /\ ws.at = "answering" /\ ws.obj = o)
  BY <1>1 DEF IInv, Turns, Answering, WsObj, Waiting, Untold
<1> QED BY Zenon, <1>2, <1>3, <1>5, <1>6, <1>8, <1>9, <1>10, <1>11, SigObjectStep

\* The caller's data channel arrives.
LEMMA ChannelStep == ASSUME IInv, NEW o \in Objects, OnDataChannel(o) PROVE IInv'
<1>1. /\ Running /\ threads = "running" /\ sig.at = "idle"
      /\ obj[o].local # "none" /\ obj[o].pc
  BY DEF OnDataChannel, Serving
<1>2. /\ o <= created /\ obj[o] \in Object /\ obj[o].life = "alive" /\ obj[o].pc
      /\ Local(o) /\ ~ Blank(obj[o])
  BY Zenon, <1>1, InUse
<1> DEFINE r == [obj[o] EXCEPT !.dc = "open"]
<1>3. obj' = [obj EXCEPT ![o] = r]
      /\ UNCHANGED <<fault, flags, threads, connections, created, main, ws, sig>>
  BY Zenon DEF OnDataChannel, SigDoes
<1>4. r \in Object
  BY <1>2, Zenon DEF Object
<1>5. /\ r.life = obj[o].life /\ r.pc = obj[o].pc /\ r.name = obj[o].name
      /\ r.pending = obj[o].pending /\ r.setOps = obj[o].setOps
      /\ r.remote = obj[o].remote /\ r.local = obj[o].local
      /\ r.outcome = obj[o].outcome /\ r.dc = "open" /\ r.cands = obj[o].cands
  BY Zenon, <1>2 DEF Object
<1> HIDE DEF r
<1>6. obj'[o] = r /\ UNCHANGED <<loggedIn, sig>>
  BY <1>3 DEF IInv, TypeOK, flags
<1>7. Local(o)'
  <2>1. r.pc
    BY <1>2, <1>5
  <2> QED BY ZenonT(40), <1>1, <1>2, <1>5, <1>6, <2>1 DEF Local, Sending
<1>8. \A p \in Objects \ {o} : Sending(p)' <=> Sending(p)
  BY <1>3 DEF Sending
<1>9. /\ sig' \in [at : {"idle", "sending"}, obj : Objects \union {NoObj}]
      /\ sig'.at = "idle"
  BY <1>1, <1>3, Zenon DEF IInv, TypeOK
<1>10. ~ (threads # "stopped" /\ ws.at = "answering" /\ ws.obj = o)
  BY <1>1, Zenon DEF IInv, Turns, Answering, WsObj, Waiting, Untold
<1> QED BY Zenon, <1>2, <1>3, <1>4, <1>5, <1>7, <1>8, <1>9, <1>10, SigObjectStep

-----------------------------------------------------------------------------
\* The process starts in the invariant ...
LEMMA InitIInv == ASSUME Init PROVE IInv
<1>1. /\ fault = "none" /\ factory = FALSE /\ threads = "none"
      /\ wsConnected = FALSE /\ loggedIn = FALSE /\ created = 0
      /\ connections = [k \in Keys |-> NoObj] /\ obj = [o \in Objects |-> Unborn]
      /\ main.at = "boot" /\ ws.at = "idle" /\ sig.at = "idle"
  BY DEF Init, Idle, Resting
<1>2. TypeOK
  <2>1. /\ main \in Thread({"boot", "login", "init", "idle", "replacing", "inserted",
                            "offering", "closing", "blocked"})
        /\ ws \in Thread({"idle", "replacing", "inserted", "describing",
                          "answering", "blocked"})
        /\ sig \in [at : {"idle", "sending"}, obj : Objects \union {NoObj}]
    BY DEF Init, Idle, Resting, Thread, Keys
  <2>2. obj \in [Objects -> Object]
    BY <1>1, UnbornType
  <2>3. connections \in [Keys -> Objects \union {NoObj}] /\ created \in 0..MaxObjects
    BY <1>1, Bounds
  <2> QED BY Zenon, <1>1, <2>1, <2>2, <2>3 DEF TypeOK
<1>3. /\ Unborn.life = "unborn" /\ Unborn.pending = "none" /\ Unborn.setOps = 0
      /\ Unborn.local = "none" /\ Unborn.remote = "none" /\ Unborn.outcome = "none"
      /\ Unborn.cands = 0 /\ Unborn.pc = FALSE
  BY ZenonT(40) DEF Unborn
<1>4. Startup /\ Points /\ Turns /\ Replaced
  BY <1>1, Zenon DEF Startup, Points, Turns, Calling, Answering, Replaced, Replacing
<1>5. Heap
  BY <1>1, <1>3 DEF Heap, Objects
<1>6. \A o \in Objects : Local(o)
  BY <1>1, <1>3 DEF Local, Observing, Sending
<1>7. Kept /\ QuietWithoutRedial
  BY <1>1, <1>3 DEF Kept, QuietWithoutRedial
<1> QED BY <1>2, <1>4, <1>5, <1>6, <1>7 DEF IInv

\* ... every step of the three threads keeps it ...
LEMMA NextIInv == ASSUME IInv, [Next]_vars PROVE IInv'
<1>1. CASE UNCHANGED vars
  BY <1>1, StutterStep
<1>2. CASE MainStep
  <2>1. CASE Connect_Store
    BY <2>1, StoreStep DEF Connect_Store
  <2> QED BY <1>2, <2>1, BootStep, OfferPeerStep, OfferStartStep, ClosePeerStep DEF MainStep
<1>3. CASE Call
  BY <1>3, ConnectStep, SenddataStep, CloseChannelStep DEF Call
<1>4. CASE WsStep
  <2>1. CASE OnOffer_Store
    BY <2>1, StoreStep DEF OnOffer_Store
  <2> QED BY <1>4, <2>1, AnswerPeerStep, DescribeStep, AnswerStartStep DEF WsStep
<1>5. CASE Deliver
  <2>1. \A m \in Incoming : OnOther(m) => UNCHANGED vars
    BY DEF OnOther
  <2> QED BY <1>5, <2>1, OfferStep, CandidateStep, AnswerStep, StutterStep DEF Deliver
<1>6. CASE SigStep
  <2>1. \A o \in Objects : FreedDescription(o) => IInv'
    BY CrashStep DEF FreedDescription
  <2> QED BY <1>6, <2>1, SendStep, SetLocalStep, FailureStep, SetDoneStep, GatherStep,
             ChannelStep DEF SigStep, CreateDone
<1> QED BY <1>1, <1>2, <1>3, <1>4, <1>5, <1>6 DEF Next

\* ... so it always holds.
LEMMA Inductive == Spec => []IInv
<1>1. Init => IInv
  BY InitIInv
<1>2. IInv /\ [Next]_vars => IInv'
  BY NextIInv
<1> QED BY <1>1, <1>2, PTL DEF Spec

\* The three threads keep the shared state in its types (TypeOK).
THEOREM TypeCorrect == Spec => []TypeOK
<1>1. IInv => TypeOK
  BY Zenon DEF IInv
<1> QED BY <1>1, Inductive, PTL

\* Whatever the application and the WebSocket thread do between a request and its
\* callback, the callback finds the object alive and its peer_connection_ set
\* (the dereference at network.cpp:411).
THEOREM CallbacksFindObserver == Spec => []CallbacksSafe
<1>1. IInv => CallbacksSafe
  BY Zenon DEF IInv, Local, CallbacksSafe
<1> QED BY <1>1, Inductive, PTL

\* For every number of players and calls, an object's offer or answer goes out
\* before its candidates, and after the login.
THEOREM WireOrdered == Spec => []WireOrder
<1>1. IInv => WireOrder
  BY ZenonT(40) DEF IInv, Local, WireOrder
<1> QED BY <1>1, Inductive, PTL

\* Two threads that find each other's object in the second lookup of the map never
\* make one object both offer and answer.
THEOREM RolesSeparate == Spec => []OneRole
<1>1. IInv => OneRole
  BY DEF IInv, Local, OneRole
<1> QED BY <1>1, Inductive, PTL

\* The library loses its threads, hangs or uses a freed object only after some
\* peer's entry was replaced.
THEOREM OnlyRedialHurts == Spec => []QuietWithoutRedial
<1>1. IInv => QuietWithoutRedial
  BY ZenonT(40) DEF IInv
<1> QED BY <1>1, Inductive, PTL

-----------------------------------------------------------------------------
(* OneDescription.  An object whose create operation has ended has nothing *)
(* pending and is not the one that a thread is preparing (Local, Turns).   *)

\* What may become of an object whose create operation has ended.
Ended(r, q) == /\ q.pending = "none"
               /\ \/ q.outcome = r.outcome
                  \/ r.outcome = "sent" /\ q.outcome = "refused"

\* Nothing is pending for an object whose create operation has ended.
LEMMA NothingPending ==
  ASSUME IInv, NEW o \in Objects, obj[o].outcome # "none"
  PROVE  /\ obj[o].pending = "none" /\ obj[o] \in Object /\ ~ Sending(o) /\ Ended(obj[o], obj[o])
         /\ Ended(obj[o], Destroyed(obj[o])) /\ ~ Blank(obj[o])
         /\ ~ Untold(obj[o])
<1>1. obj[o] \in Object /\ obj[o].pending = "none" /\ ~ Sending(o)
  BY DEF IInv, TypeOK, Local
<1>2. Destroyed(obj[o]).pending = "none" /\ Destroyed(obj[o]).outcome = obj[o].outcome
  BY <1>1, DestroyedFields, ZenonT(40)
<1> QED BY <1>1, <1>2, Zenon DEF Ended, Blank, Untold

\* The application's thread.
LEMMA EndedMain ==
  ASSUME IInv, MainStep \/ Call, NEW o \in Objects, obj[o].life # "unborn",
         obj[o].outcome # "none"
  PROVE  Ended(obj[o], obj'[o])
<1>1. /\ obj[o].pending = "none" /\ obj[o] \in Object /\ Ended(obj[o], obj[o])
      /\ Ended(obj[o], Destroyed(obj[o])) /\ ~ Blank(obj[o]) /\ o <= created
      /\ obj \in [Objects -> Object] /\ main.name \in Keys
  <2>1. obj \in [Objects -> Object] /\ main.name \in Keys
    BY DEF IInv, TypeOK, Thread
  <2>2. o <= created
    BY DEF IInv, Heap, TypeOK, Objects
  <2> QED BY <2>1, <2>2, NothingPending
<1>2. CASE obj' = obj
  BY <1>1, <1>2
<1>3. ASSUME NEW k \in Keys, Insert(k) PROVE Ended(obj[o], obj'[o])
  <2>1. o # created + 1
    BY <1>1 DEF IInv, TypeOK, Objects
  <2>2. obj'[o] \in {obj[o], Destroyed(obj[o])}
    BY <1>3, <2>1, ZenonT(40) DEF Insert
  <2> QED BY <1>1, <2>2
<1>4. ASSUME NEW p \in Objects, NEW b,
             obj' = [obj EXCEPT ![p].pc = b] \/ obj' = [obj EXCEPT ![p].dc = b]
      PROVE  Ended(obj[o], obj'[o])
  <2>1. obj'[o].pending = obj[o].pending /\ obj'[o].outcome = obj[o].outcome
    BY <1>1, <1>4 DEF Object
  <2> QED BY <1>1, <2>1 DEF Ended
<1>5. CASE CreateOffer_PeerConnection
  <2>1. connections[main.name] \in Objects
    BY <1>1, <1>5, Entry DEF CreateOffer_PeerConnection, IInv, Points
  <2> QED BY <1>2, <1>4, <1>5, <2>1
             DEF CreateOffer_PeerConnection, Crash, HangMain, MainDoes, heap
<1>6. CASE CreateOffer_Start
  <2>1. CASE obj' = obj
    BY <1>2, <2>1
  <2>2. ASSUME NEW r, Serving, obj' = [obj EXCEPT ![main.obj] = r] PROVE Ended(obj[o], obj'[o])
    <3>1. Blank(obj[main.obj])
      BY <1>6, <2>2 DEF CreateOffer_Start, Serving, IInv, Turns, Calling, MainObj
    <3> QED BY <1>1, <2>2, <3>1
  <2> QED BY <1>6, <2>1, <2>2 DEF CreateOffer_Start, Crash, HangMain, MainDoes, heap
<1>7. CASE Disconnect_PeerConnection
  <2>1. \A e \in {"failed", "sent"} : Ended(obj[o], Closed(obj[o], e))
    BY <1>1, ZenonT(40) DEF Ended, Closed, Object
  <2>2. \/ obj' = obj
        \/ \E e \in {"failed", "sent"} :
              obj' = [obj EXCEPT ![main.obj] = Closed(obj[main.obj], e)]
    BY <1>7 DEF Disconnect_PeerConnection, Crash, HangMain, MainDoes, heap
  <2> QED BY <1>1, <1>2, <2>1, <2>2
<1>8. ASSUME NEW n \in Peers, Disconnect_Channel(n) PROVE Ended(obj[o], obj'[o])
  <2>1. n \in Keys
    BY DEF Keys
  <2>2. connections[n] # NoObj => connections[n] \in Objects
    BY <2>1 DEF IInv, TypeOK
  <2> QED BY <1>2, <1>4, <1>8, <2>2 DEF Disconnect_Channel, Crash, HangMain, MainDoes, heap
<1>9. ASSUME NEW n \in Peers, Connect_Insert(n) PROVE Ended(obj[o], obj'[o])
  BY <1>3, <1>9, ZenonT(40) DEF Connect_Insert, Keys
<1>10. ASSUME NEW n \in Peers, Senddata(n) PROVE obj' = obj
  BY <1>10, Zenon DEF Senddata, Crash, HangMain, vars, heap
<1>11. CASE NetworkInit_Connect \/ NetworkInit_Login \/ InitializePeerConnection
            \/ Connect_Store
  BY <1>2, <1>11, ZenonT(40)
     DEF NetworkInit_Connect, NetworkInit_Login, InitializePeerConnection, Connect_Store, heap
<1> QED BY <1>2, <1>5, <1>6, <1>7, <1>8, <1>9, <1>10, <1>11 DEF MainStep, Call

\* The WebSocket thread.
LEMMA EndedWs ==
  ASSUME IInv, WsStep \/ Deliver, NEW o \in Objects, obj[o].life # "unborn",
         obj[o].outcome # "none"
  PROVE  Ended(obj[o], obj'[o])
<1>1. /\ obj[o].pending = "none" /\ obj[o] \in Object /\ Ended(obj[o], obj[o])
      /\ Ended(obj[o], Destroyed(obj[o])) /\ ~ Blank(obj[o]) /\ ~ Untold(obj[o]) /\ o <= created
      /\ obj \in [Objects -> Object] /\ ws.name \in Keys
  <2>1. obj \in [Objects -> Object] /\ ws.name \in Keys
    BY DEF IInv, TypeOK, Thread
  <2>2. o <= created
    BY DEF IInv, Heap, TypeOK, Objects
  <2> QED BY <2>1, <2>2, NothingPending
<1>2. CASE obj' = obj
  BY <1>1, <1>2
<1>3. CASE CreateAnswer_PeerConnection
  <2>1. CASE obj' = obj
    BY <1>2, <2>1
  <2>2. CASE obj' = [obj EXCEPT ![connections[ws.name]].pc = TRUE]
    <3>1. obj'[o].pending = obj[o].pending /\ obj'[o].outcome = obj[o].outcome
      BY <1>1, <2>2 DEF Object
    <3> QED BY <1>1, <3>1 DEF Ended
  <2> QED BY <1>3, <2>1, <2>2, ZenonT(40) DEF CreateAnswer_PeerConnection, Crash, HangWs, WsDoes, heap
<1>4. CASE CreateAnswer_Describe
  <2>1. CASE obj' = obj
    BY <1>2, <2>1
  <2>2. ASSUME NEW r, Serving, obj' = [obj EXCEPT ![ws.obj] = r] PROVE Ended(obj[o], obj'[o])
    <3>1. Blank(obj[ws.obj])
      BY <1>4, <2>2, Zenon DEF CreateAnswer_Describe, Serving, IInv, Turns, Answering, WsObj, Waiting
    <3> QED BY <1>1, <2>2, <3>1
  <2> QED BY <1>4, <2>1, <2>2 DEF CreateAnswer_Describe, Crash, HangWs, WsDoes, heap
<1>5. ASSUME NEW m \in Incoming, OnOffer(m) PROVE Ended(obj[o], obj'[o])
  <2>1. o # created + 1
    BY <1>1 DEF IInv, TypeOK, Objects
  <2>2. obj'[o] \in {obj[o], Destroyed(obj[o])}
    BY <1>5, <2>1, Zenon DEF OnOffer, Insert
  <2> QED BY <1>1, <2>2
<1>6. ASSUME NEW m \in Incoming, OnAnswer(m) PROVE Ended(obj[o], obj'[o])
  <2>. DEFINE p == connections[Json(m, "name")]
              text == Json(m, "answer")
  <2>1. obj' = obj \/ obj' = [obj EXCEPT ![p] = SetRemoteDescription(obj[p], text)]
    BY <1>6 DEF OnAnswer, Crash, WsDoes, heap
  <2>2. SetRemoteDescription(obj[o], text)
          = [obj[o] EXCEPT !.outcome = IF obj[o].outcome = "sent" THEN "refused" ELSE obj[o].outcome]
    BY DEF SetRemoteDescription, CreateSessionDescription, SdpTypes
  <2>3. Ended(obj[o], SetRemoteDescription(obj[o], text))
    BY <1>1, <2>2, ZenonT(40) DEF Ended, Object
  <2> QED BY <1>1, <1>2, <2>1, <2>3, Zenon
<1>7. ASSUME NEW m \in Incoming, OnCandidate(m) \/ OnOther(m) PROVE obj' = obj
  BY <1>7, Zenon DEF OnCandidate, AddIceCandidate, OnOther, Crash, HangWs, vars, heap
<1>8. CASE CreateAnswer_Start
  <2>1. CASE obj' = obj
    BY <1>2, <2>1
  <2>2. ASSUME NEW r, Serving, obj' = [obj EXCEPT ![ws.obj] = r] PROVE Ended(obj[o], obj'[o])
    <3>1. Untold(obj[ws.obj])
      BY <1>8, <2>2, Zenon DEF CreateAnswer_Start, Serving, IInv, Turns, Answering, WsObj, Waiting
    <3> QED BY <1>1, <2>2, <3>1
  <2> QED BY <1>8, <2>1, <2>2 DEF CreateAnswer_Start, Crash, HangWs, WsDoes, heap
<1>9. CASE OnOffer_Store
  BY <1>2, <1>9 DEF OnOffer_Store
<1> QED BY <1>2, <1>3, <1>4, <1>5, <1>6, <1>7, <1>8, <1>9, ZenonT(40) DEF WsStep, Deliver

\* The signaling thread.
LEMMA EndedSig ==
  ASSUME IInv, SigStep, NEW o \in Objects, obj[o].life # "unborn", obj[o].outcome # "none"
  PROVE  Ended(obj[o], obj'[o])
<1>1. /\ obj[o].pending = "none" /\ obj[o] \in Object /\ Ended(obj[o], obj[o])
      /\ Ended(obj[o], Destroyed(obj[o])) /\ ~ Sending(o) /\ obj \in [Objects -> Object]
  BY NothingPending DEF IInv, TypeOK
<1>2. ASSUME NEW p, NEW r, p # o, obj' = [obj EXCEPT ![p] = r] PROVE Ended(obj[o], obj'[o])
  BY <1>1, <1>2
<1>3. CASE OnSuccess_Send
  BY <1>1, <1>2, <1>3 DEF OnSuccess_Send, Released, Sending, Crash, heap
<1>4. ASSUME NEW p \in Objects, CreateDone(p) PROVE Ended(obj[o], obj'[o])
  BY <1>1, <1>2, <1>4
     DEF CreateDone, OnSuccess_SetLocal, OnFailure, Released, SigDoes
<1>5. ASSUME NEW p \in Objects, OnSetDone(p) PROVE Ended(obj[o], obj'[o])
  <2> DEFINE r == [obj[p] EXCEPT !.setOps = obj[p].setOps - 1]
  <2>1. obj' = [obj EXCEPT ![p] = r] \/ obj' = [obj EXCEPT ![p] = Destroyed(r)]
    BY <1>5 DEF OnSetDone, Released
  <2>2. p = o => Ended(obj[o], r) /\ Ended(obj[o], Destroyed(r))
    BY <1>1, ZenonT(40) DEF Ended, Destroyed, Object
  <2> QED BY <1>1, <2>1, <2>2
<1>6. ASSUME NEW p \in Objects, OnIceCandidate(p) \/ OnDataChannel(p)
      PROVE  Ended(obj[o], obj'[o])
  <2>1. \/ obj' = [obj EXCEPT ![p].cands = @ + 1]
        \/ obj' = [obj EXCEPT ![p].dc = "open"]
    BY <1>6 DEF OnIceCandidate, OnDataChannel, SigDoes
  <2>2. obj'[o].pending = obj[o].pending /\ obj'[o].outcome = obj[o].outcome
    BY <1>1, <2>1 DEF Object
  <2> QED BY <1>1, <2>2, Zenon DEF Ended
<1>7. ASSUME NEW p \in Objects, FreedDescription(p) PROVE obj' = obj
  BY <1>7 DEF FreedDescription, Crash, heap
<1> QED BY <1>1, <1>3, <1>4, <1>5, <1>6, <1>7, ZenonT(40) DEF SigStep

\* Whatever objects the threads find when they look a name up again, no object is
\* asked for a second description, and nothing that ended begins again.
THEOREM DescribedOnce == Spec => OneDescription
<1>1. IInv /\ [Next]_vars =>
        [\A o \in Objects : obj[o].life # "unborn" /\ obj[o].outcome # "none" =>
           /\ obj'[o].pending = "none"
           /\ \/ obj'[o].outcome = obj[o].outcome
              \/ obj[o].outcome = "sent" /\ obj'[o].outcome = "refused"]_vars
  <2> SUFFICES ASSUME IInv, Next, NEW o \in Objects,
                      obj[o].life # "unborn", obj[o].outcome # "none"
               PROVE  Ended(obj[o], obj'[o])
    BY Zenon DEF Ended
  <2> QED BY EndedMain, EndedWs, EndedSig, ZenonT(40) DEF Next
<1> QED BY <1>1, Inductive, PTL DEF Spec, OneDescription
=============================================================================
