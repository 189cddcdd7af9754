--------------------------- MODULE SoleCallProofs ---------------------------
(***************************************************************************)
(* What SignallingSystem promises of a single call, for any number of      *)
(* pages and names and any bounds, with logins, name changes and exits     *)
(* going on around it: the answer returns to the caller (AnswerReturns).   *)
(***************************************************************************)
EXTENDS SignallingSystemProofs

-----------------------------------------------------------------------------
(* AnswerReturns.  Everything that belongs to the negotiation can be       *)
(* traced to the offer of k, the caller: Traced says so of every message   *)
(* in flight, of every operation queued and of every description set.  The *)
(* names an answer may be sent to are the ones that lead to k or to nobody *)
(* (Home).                                                                 *)

\* n is k's name, or one that k used and left in the directory, or none.
Home(k, n) == n = NoName \/ n = name[k] \/ users[n] = k

\* The operations that page c may have to run.
CallOps(k, c) ==
  {o \in Operation :
     /\ o.do = "createOffer" => c = k /\ Called(k)
     /\ o.do = "createAnswer" => Called(k) /\ Home(k, connectedUser[c])
     /\ o.do = "setRemote" /\ o.type = "offer" => Called(k) /\ o.blob.from = k
     /\ o.do = "setRemote" /\ o.type = "answer" => c = k /\ o.blob.re = k}

\* What page c may have sent, and what may be on the way to it.
CallRequests(k, c) ==
  {r \in Requests(c) :
     /\ r.type = "offer" => c = k /\ Called(k)
     /\ r.type = "answer" => r.blob.re = k /\ Home(k, r.name)}
CallMessages(k, c) ==
  {m \in Message :
     /\ m.type = "offer" => Called(k) /\ m.offer.from = k /\ Home(k, m.name)
     /\ m.type = "answer" => c = k /\ m.answer.re = k}

\* The page of c takes part in no call but k's.
TracedPage(k, c) ==
  /\ c # k => Home(k, connectedUser[c])
  /\ \A g \in Peers :
       /\ peer[c][g].ops \in Seq(CallOps(k, c))
       /\ peer[c][g].state = "have-remote-offer" => peer[c][g].remote = k

Traced(k) == \A c \in Conns : /\ TracedPage(k, c)
                              /\ wire[c] \in Seq(CallRequests(k, c))
                              /\ outbox[c] \in Seq(CallMessages(k, c))

-----------------------------------------------------------------------------
(* What every step of the system does to the parts Traced is about.        *)

\* What is known already of every state.
Base == /\ TypeOK /\ Fresh /\ RegistryExact
        /\ Pages /\ Wires /\ Clicks /\ \A c \in Conns : Budget(c)

\* They hold, and the server takes the steps it is specified to take.
LEMMA BaseStep == ASSUME Base, [SysNext]_sysvars PROVE Base' /\ [Next]_vars
BY SysTypeStep, SysStepIsServerStep, RegistryStep, BudgetStep DEF Base

\* They hold initially.
LEMMA BaseInit == SysInit => Base
BY SysTypeInit, BudgetInit DEF SysInit, Init, Base, Fresh, RegistryExact

\* Nobody takes back a click.
LEMMA DialsGrow ==
  ASSUME Base, [SysNext]_sysvars, NEW c \in Conns
  PROVE  /\ clicks[c].dial \in Nat /\ clicks'[c].dial \in Nat
         /\ clicks'[c].dial >= clicks[c].dial
<1>1. \/ clicks' = clicks
      \/ \E d \in Conns : \/ clicks' = [clicks EXCEPT ![d].login = @ + 1]
                          \/ clicks' = [clicks EXCEPT ![d].dial = @ + 1]
  <2>1. ASSUME NEW d \in Conns, PageStep(d)
        PROVE  \/ clicks' = clicks
               \/ clicks' = [clicks EXCEPT ![d].login = @ + 1]
               \/ clicks' = [clicks EXCEPT ![d].dial = @ + 1]
    BY <2>1, Zenon DEF PageStep, loginBtn, connectToOtherUsernameBtn, Callback,
       OfferCreated, AnswerCreated, DescriptionSet, CandidateAdded, onicecandidate
  <2>2. ASSUME NEW d \in Conns, ServerReads(d) \/ ClientReads(d) \/ Connection(d)
        PROVE  clicks' = clicks
    BY <2>2 DEF ServerReads, ClientReads, onmessage, onLogin, onOffer, onAnswer,
                onCandidate, Connection, clientvars
  <2>3. CASE UNCHANGED sysvars
    BY <2>3 DEF sysvars, clientvars
  <2>. QED  BY <2>1, <2>2, <2>3, Zenon DEF SysNext
<1>. QED  BY <1>1 DEF Base, Clicks

\* Whoever is the only caller has been so all along.
LEMMA SoleCallerBefore ==
  ASSUME Base, [SysNext]_sysvars, NEW k \in Conns, SoleCaller(k)'
  PROVE  SoleCaller(k)
<1>1. \A c \in Conns : clicks[c].dial <= IF c = k THEN 1 ELSE 0
  <2>. SUFFICES ASSUME NEW c \in Conns PROVE clicks[c].dial <= IF c = k THEN 1 ELSE 0
    OBVIOUS
  <2>1. clicks'[c].dial <= IF c = k THEN 1 ELSE 0
    BY DEF SoleCaller
  <2>. QED  BY <2>1, DialsGrow
<1>2. ASSUME status[k] = "closed", name[k] # NoName
      PROVE  users[name[k]] = NoConn /\ \A c \in Conns \ {k} : name[c] # name[k]
  <2>1. TypeOK /\ RegistryExact /\ Fresh /\ [Next]_vars /\ name[k] \in Names
    BY <1>2, BaseStep DEF Base, TypeOK
  <2>2. ASSUME status'[k] = "closed", name'[k] = name[k]
        PROVE  users'[name[k]] = NoConn /\ \A c \in Conns \ {k} : name'[c] # name[k]
    BY <1>2, <2>2 DEF SoleCaller
  <2>3. ASSUME NEW c \in Conns, OnConnection(c)
        PROVE  users[name[k]] = NoConn /\ \A e \in Conns \ {k} : name[e] # name[k]
    BY <1>2, <2>1, <2>2, <2>3 DEF OnConnection, TypeOK
  <2>4. ASSUME NEW c \in Conns, NEW n \in Names, Login(c, n), users[n] = NoConn
        PROVE  users[name[k]] = NoConn /\ \A e \in Conns \ {k} : name[e] # name[k]
    <3>1. /\ users' = [users EXCEPT ![n] = c] /\ name' = [name EXCEPT ![c] = n]
          /\ status' = status /\ status[c] = "open" /\ c # k
      BY <1>2, <2>4 DEF Login, Receiving
    <3>2. users'[name[k]] = NoConn /\ \A e \in Conns \ {k} : name'[e] # name[k]
      BY <1>2, <2>1, <2>2, <3>1 DEF TypeOK
    <3>3. n # name[k] /\ users[name[k]] = NoConn
      BY <2>1, <3>1, <3>2 DEF TypeOK
    <3>4. name[c] # name[k]
      BY <1>2, <2>1, <3>1, <3>3, ServerAssumption DEF RegistryExact
    <3>. QED  BY <2>1, <3>1, <3>2, <3>3, <3>4 DEF TypeOK
  <2>5. ASSUME NEW c \in Conns, OnClose(c)
        PROVE  users[name[k]] = NoConn /\ \A e \in Conns \ {k} : name[e] # name[k]
    <3>1. /\ status' = [status EXCEPT ![c] = "closed"] /\ name' = name /\ c # k
          /\ users'[name[k]] = users[name[k]] \/ name[k] = name[c]
      BY <1>2, <2>1, <2>5 DEF OnClose, TypeOK
    <3>. QED  BY <1>2, <2>1, <2>2, <3>1 DEF TypeOK
  <2>6. CASE Aloof
    BY <1>2, <2>1, <2>2, <2>6 DEF Aloof
  <2>. QED  BY <2>1, <2>3, <2>4, <2>5, <2>6, StepKinds
<1>. QED  BY <1>1, <1>2 DEF SoleCaller

\* A name that leads to k or nobody goes on doing so ...
LEMMA HomeStep ==
  ASSUME Base, [SysNext]_sysvars, NEW k \in Conns, NEW n \in Names \union {NoName}, Home(k, n)
  PROVE  Home(k, n)'
<1>1. TypeOK /\ RegistryExact /\ Fresh /\ [Next]_vars
  BY BaseStep DEF Base
<1>. SUFFICES ASSUME n # NoName, n \in Names PROVE n = name'[k] \/ users'[n] = k
  BY DEF Home
<1>2. n = name[k] \/ users[n] = k
  BY DEF Home
<1>3. ASSUME NEW c \in Conns, OnConnection(c) PROVE n = name'[k] \/ users'[n] = k
  BY <1>2, <1>3 DEF OnConnection
<1>4. ASSUME NEW c \in Conns, NEW l \in Names, Login(c, l), users[l] = NoConn
      PROVE  n = name'[k] \/ users'[n] = k
  <2>1. /\ users' = [users EXCEPT ![l] = c] /\ name' = [name EXCEPT ![c] = l]
        /\ status[c] = "open"
    BY <1>4 DEF Login, Receiving
  <2>. QED  BY <1>1, <1>2, <1>4, <2>1, ServerAssumption DEF TypeOK, RegistryExact
<1>5. ASSUME NEW c \in Conns, OnClose(c) PROVE n = name'[k] \/ users'[n] = k
  <2>1. /\ status[c] = "closing" /\ name' = name
        /\ users' = IF name[c] = NoName THEN users ELSE [users EXCEPT ![name[c]] = NoConn]
    BY <1>5 DEF OnClose
  <2>. QED  BY <1>1, <1>2, <2>1 DEF TypeOK, RegistryExact
<1>6. CASE Aloof
  BY <1>2, <1>6 DEF Aloof
<1>. QED  BY <1>1, <1>3, <1>4, <1>5, <1>6, StepKinds

\* ... which it does as long as k is the only caller.
LEMMA HomeLeads ==
  ASSUME Base, NEW k \in Conns, SoleCaller(k), NEW n \in Names \union {NoName}, Home(k, n)
  PROVE  Lookup(n) \in {k, NoConn}
<1>1. ASSUME n # NoName, n = name[k] PROVE users[n] \in {k, NoConn}
  <2>1. status[k] \in {"open", "closing"} => users[n] = k
    BY <1>1 DEF Base, RegistryExact
  <2>2. status[k] = "closed" => users[n] = NoConn
    BY <1>1 DEF SoleCaller
  <2>3. status[k] \in {"open", "closing", "closed"}
    BY <1>1 DEF Base, Fresh, TypeOK
  <2>. QED  BY <2>1, <2>2, <2>3
<1>. QED  BY <1>1 DEF Home, Lookup

-----------------------------------------------------------------------------
(* What the operations on peer connections do, field by field.             *)

PeerMap == [Conns -> [1..MaxLogins -> Peer]]

\* Queueing operations leaves the connections alone that are not the current one.
LEMMA EnqueueElsewhere ==
  \A P \in PeerMap, c, e \in Conns, ops \in Seq(Operation), h \in Peers :
    e # c \/ h # myConnection[c] => Enqueue(P, c, ops)[e][h] = P[e][h]
BY ZenonT(40) DEF Enqueue, PeerMap, Peers

\* They are queued behind the others.
LEMMA EnqueueHere ==
  \A P \in PeerMap, c \in Conns, ops \in Seq(Operation), h \in Peers :
    h = myConnection[c] => /\ Enqueue(P, c, ops)[c][h].ops = P[c][h].ops \o ops
                           /\ Enqueue(P, c, ops)[c][h].local = P[c][h].local
<1>. TAKE P \in PeerMap, c \in Conns, ops \in Seq(Operation), h \in Peers
<1>. HAVE h = myConnection[c]
<1>1. P[c][h] \in Peer
  BY Zenon DEF PeerMap, Peers
<1>2. Enqueue(P, c, ops)[c][h] = [P[c][h] EXCEPT !.ops = P[c][h].ops \o ops]
  BY Zenon DEF Enqueue, PeerMap, Peers
<1>. QED  BY <1>1, <1>2, Zenon DEF Peer

\* The descriptions are not touched.
LEMMA EnqueueKeeps ==
  \A P \in PeerMap, c, e \in Conns, ops \in Seq(Operation), h \in Peers :
    /\ Enqueue(P, c, ops)[e][h].state = P[e][h].state
    /\ Enqueue(P, c, ops)[e][h].remote = P[e][h].remote
<1>. TAKE P \in PeerMap, c, e \in Conns, ops \in Seq(Operation), h \in Peers
<1>1. P[e][h] \in Peer /\ P[c] \in [1..MaxLogins -> Peer] /\ h \in 1..MaxLogins
  BY Zenon DEF PeerMap, Peers
<1>2. CASE e = c /\ h = myConnection[c]
  <2>1. Enqueue(P, c, ops)[e][h] = [P[e][h] EXCEPT !.ops = P[e][h].ops \o ops]
    BY <1>1, <1>2, Zenon DEF Enqueue, PeerMap
  <2>. QED  BY <1>1, <2>1 DEF Peer
<1>3. CASE e # c \/ h # myConnection[c]
  BY <1>3, EnqueueElsewhere, ZenonT(40)
<1>. QED  BY <1>2, <1>3, Zenon

\* Finishing an operation leaves the other connections alone.
LEMMA DoneElsewhere ==
  ASSUME Pages
  PROVE  \A c, e \in Conns, g, h \in Peers :
           e # c \/ h # g => Done(c, g)[e][h] = peer[e][h]
BY DEF Done, Pages, Peers

\* It is taken off the queue.
LEMMA DoneHere ==
  ASSUME Pages
  PROVE  \A c \in Conns, g \in Peers : Done(c, g)[c][g].ops = Tail(peer[c][g].ops)
<1>. TAKE c \in Conns, g \in Peers
<1>1. peer[c][g] \in Peer
  BY Zenon DEF Pages, Peers
<1>2. Done(c, g)[c][g] = [peer[c][g] EXCEPT !.ops = Tail(peer[c][g].ops)]
  BY Zenon DEF Done, Pages, Peers
<1>. QED  BY <1>1, <1>2 DEF Peer

\* The descriptions are not touched.
LEMMA DoneKeeps ==
  ASSUME Pages
  PROVE  \A c, e \in Conns, g, h \in Peers :
           /\ Done(c, g)[e][h].state = peer[e][h].state
           /\ Done(c, g)[e][h].local = peer[e][h].local
           /\ Done(c, g)[e][h].remote = peer[e][h].remote
<1>. TAKE c, e \in Conns, g, h \in Peers
<1>1. peer[e][h] \in Peer /\ peer[c] \in [1..MaxLogins -> Peer] /\ h \in 1..MaxLogins
      /\ peer \in PeerMap
  BY Zenon DEF Pages, Peers, PeerMap
<1>2. CASE e = c /\ h = g
  <2>1. Done(c, g)[e][h] = [peer[e][h] EXCEPT !.ops = Tail(peer[e][h].ops)]
    BY <1>1, <1>2 DEF Done, PeerMap
  <2>. QED  BY <1>1, <2>1 DEF Peer
<1>3. CASE e # c \/ h # g
  BY <1>3, DoneElsewhere, ZenonT(40)
<1>. QED  BY <1>2, <1>3, Zenon

\* Gathering a candidate changes nothing but their number.
LEMMA CandidateCounted ==
  ASSUME Pages, NEW c \in Conns, NEW g \in Peers, peer' = [peer EXCEPT ![c][g].cands = @ + 1],
         NEW e \in Conns, NEW h \in Peers
  PROVE  /\ peer'[e][h].ops = peer[e][h].ops /\ peer'[e][h].state = peer[e][h].state
         /\ peer'[e][h].remote = peer[e][h].remote /\ peer'[e][h].local = peer[e][h].local
<1>1. peer \in PeerMap /\ peer[c][g] \in Peer
  BY Zenon DEF Pages, Peers, PeerMap
<1>2. CASE e = c /\ h = g
  <2>1. peer'[e][h] = [peer[c][g] EXCEPT !.cands = peer[c][g].cands + 1]
    BY <1>1, <1>2, Zenon DEF PeerMap, Peers
  <2>. QED  BY <1>1, <1>2, <2>1 DEF Peer
<1>3. CASE e # c \/ h # g
  BY <1>1, <1>3 DEF PeerMap, Peers
<1>. QED  BY <1>2, <1>3

\* Setting a description does what SetResult says.
LEMMA DescribedResult ==
  ASSUME NEW l \in Peer, NEW op, op.do \in {"setLocal", "setRemote"}, NEW s \in After(l, op)
  PROVE  Described(l, op, s).ops = l.ops /\ SetResult(l, op, Described(l, op, s))
<1>1. <<l.state, op.do, op.type, s>> \in Transitions
  BY DEF After
<1>2. /\ op.do = "setLocal" =>
           \/ op.type = "offer" /\ s = "have-local-offer" /\ l.state # "have-remote-offer"
           \/ op.type = "answer" /\ s = "stable" /\ l.state = "have-remote-offer"
      /\ op.do = "setRemote" =>
           \/ op.type = "offer"
           \/ op.type = "answer" /\ s = "stable" /\ l.state = "have-local-offer"
  BY <1>1 DEF Transitions
<1>3. CASE op.do = "setLocal"
  <2>1. Described(l, op, s) = [l EXCEPT !.state = s, !.local = TRUE]
    BY <1>3 DEF Described
  <2>2. /\ Described(l, op, s).ops = l.ops /\ Described(l, op, s).state = s
        /\ Described(l, op, s).local = TRUE /\ Described(l, op, s).remote = l.remote
    BY <2>1 DEF Peer
  <2>. QED  BY <1>2, <1>3, <2>2 DEF SetResult
<1>4. CASE op.do = "setRemote" /\ op.type = "offer" /\ s # "have-remote-offer"
  BY <1>4 DEF Described, SetResult
<1>5. CASE op.do = "setRemote" /\ ~ (op.type = "offer" /\ s # "have-remote-offer")
  <2>1. Described(l, op, s) = [l EXCEPT !.state = s, !.remote = op.blob.from]
    BY <1>5 DEF Described
  <2>2. /\ Described(l, op, s).ops = l.ops /\ Described(l, op, s).state = s
        /\ Described(l, op, s).local = l.local /\ Described(l, op, s).remote = op.blob.from
    BY <2>1 DEF Peer
  <2>. QED  BY <1>2, <1>5, <2>2 DEF SetResult
<1>. QED  BY <1>3, <1>4, <1>5

\* Setting a description changes one connection.
LEMMA DescriptionEffect ==
  ASSUME Pages, NEW c \in Conns, NEW g \in Peers, DescriptionSet(c, g),
         NEW e \in Conns, NEW h \in Peers
  PROVE  /\ e # c \/ h # g => peer'[e][h] = peer[e][h]
         /\ e = c /\ h = g =>
              /\ peer'[e][h].ops = Tail(peer[e][h].ops)
              /\ SetResult(peer[e][h], Head(peer[e][h].ops), peer'[e][h])
<1>. DEFINE l == Done(c, g)[c][g]
            op == Head(peer[c][g].ops)
<1>1. peer[c][g].ops # <<>> /\ op.do \in {"setLocal", "setRemote"} /\ g \in 1..MaxLogins
  BY DEF DescriptionSet, Running, Peers
<1>2. Done(c, g) \in [Conns -> [1..MaxLogins -> Peer]]
  BY <1>1, DoneType
<1>3. /\ l.state = peer[c][g].state /\ l.local = peer[c][g].local
      /\ l.remote = peer[c][g].remote /\ l.ops = Tail(peer[c][g].ops)
  BY DoneHere, DoneKeeps, ZenonT(40)
<1>4. e # c \/ h # g => Done(c, g)[e][h] = peer[e][h]
  BY DoneElsewhere, ZenonT(40)
<1>5. CASE peer' = Done(c, g)
  BY <1>3, <1>4, <1>5, Zenon DEF SetResult
<1>6. ASSUME NEW s \in After(peer[c][g], op),
             peer' = [Done(c, g) EXCEPT ![c][g] = Described(l, op, s)]
      PROVE  /\ e # c \/ h # g => peer'[e][h] = peer[e][h]
             /\ peer'[c][g].ops = Tail(peer[c][g].ops)
             /\ SetResult(peer[c][g], op, peer'[c][g])
  <2>1. e # c \/ h # g => peer'[e][h] = peer[e][h]
    BY <1>2, <1>4, <1>6 DEF Peers
  <2>2. l \in Peer /\ peer'[c][g] = Described(l, op, s)
    BY <1>1, <1>2, <1>6, ZenonT(40)
  <2>3. s \in After(l, op)
    BY <1>3, <1>6 DEF After
  <2>4. peer'[c][g].ops = l.ops /\ SetResult(l, op, peer'[c][g])
    <3>1. Described(l, op, s).ops = l.ops /\ SetResult(l, op, Described(l, op, s))
      BY <1>1, <2>2, <2>3, DescribedResult
    <3>. QED  BY <2>2, <3>1, ZenonT(40)
  <2>. QED  BY <1>3, <2>1, <2>4, Zenon DEF SetResult
<1>7. peer' = Done(c, g) \/ \E s \in After(peer[c][g], op) :
        peer' = [Done(c, g) EXCEPT ![c][g] = Described(l, op, s)]
  BY DEF DescriptionSet
<1>. QED  BY <1>5, <1>6, <1>7, ZenonT(40)

-----------------------------------------------------------------------------
(* The steps of the system keep Traced.                                    *)

\* However the system goes on, the call of k remains the only one.
LEMMA TracedStep == \A k \in Conns :
    /\ Base /\ [SysNext]_sysvars /\ SoleCaller(k) /\ SoleCaller(k)' /\ Traced(k)
    => Traced(k)'
\* What was allowed remains so.
<1>CallSetsGrow.
  ASSUME Base, [SysNext]_sysvars, NEW k \in Conns, NEW c \in Conns
  PROVE  /\ CallRequests(k, c) \subseteq CallRequests(k, c)'
         /\ CallMessages(k, c) \subseteq CallMessages(k, c)'
         /\ (Called(k) /\ Home(k, connectedUser[c]) => Home(k, connectedUser[c])')
              => CallOps(k, c) \subseteq CallOps(k, c)'
  <2>. USE <1>CallSetsGrow
  <2>1. Called(k) => Called(k)'
    BY DialsGrow DEF Called
  <2>2. \A n \in Names \union {NoName} : Home(k, n) => Home(k, n)'
    BY HomeStep
  <2>3. ASSUME NEW r \in CallRequests(k, c) PROVE r \in CallRequests(k, c)'
    <3>1. r.type = "answer" => r.name \in Names \union {NoName}
      BY DEF CallRequests, Requests
    <3>. QED  BY <2>1, <2>2, <3>1 DEF CallRequests
  <2>4. ASSUME NEW m \in CallMessages(k, c) PROVE m \in CallMessages(k, c)'
    <3>1. m.type = "offer" => m.name \in Names \union {NoName}
      BY RelayedFields, Zenon DEF CallMessages
    <3>. QED  BY <2>1, <2>2, <3>1 DEF CallMessages
  <2>. QED  BY <2>1, <2>3, <2>4 DEF CallOps
\* A page whose connections and addressee are left alone.
<1>TracedKept.
  ASSUME Base, [SysNext]_sysvars, NEW k \in Conns, NEW c \in Conns, TracedPage(k, c),
         connectedUser'[c] = connectedUser[c]
  PROVE  /\ CallOps(k, c) \subseteq CallOps(k, c)'
         /\ c # k => Home(k, connectedUser[c])'
         /\ Home(k, connectedUser[c]) => Home(k, connectedUser[c])'
         /\ peer'[c] = peer[c] => TracedPage(k, c)'
  <2>. USE <1>TracedKept
  <2>1. PICK n \in Names \union {NoName} : n = connectedUser[c]
    BY DEF Base, Pages
  <2>2. Home(k, n) => Home(k, n)'
    BY HomeStep
  <2>3. Home(k, connectedUser[c]) => Home(k, connectedUser[c])'
    BY <2>1, <2>2 DEF Home
  <2>4. CallOps(k, c) \subseteq CallOps(k, c)'
    BY <2>3, <1>CallSetsGrow
  <2>5. ASSUME peer'[c] = peer[c] PROVE TracedPage(k, c)'
    BY <2>3, <2>4, <2>5, SeqGrows DEF TracedPage
  <2>. QED  BY <2>3, <2>4, <2>5 DEF TracedPage
\* The queues of a page that are left alone, or get shorter.
<1>TracedQueues.
  ASSUME Base, [SysNext]_sysvars, NEW k \in Conns, NEW c \in Conns, Traced(k)
  PROVE  /\ (\/ wire'[c] = wire[c]
             \/ wire[c] # <<>> /\ wire'[c] = Tail(wire[c]))
              => wire'[c] \in Seq(CallRequests(k, c)')
         /\ (\/ outbox'[c] = outbox[c]
             \/ outbox'[c] = <<>>
             \/ outbox[c] # <<>> /\ outbox'[c] = Tail(outbox[c]))
              => outbox'[c] \in Seq(CallMessages(k, c)')
         /\ wire[c] \in Seq(CallRequests(k, c)') /\ outbox[c] \in Seq(CallMessages(k, c)')
  <2>. USE <1>TracedQueues
  <2>1. wire[c] \in Seq(CallRequests(k, c)') /\ outbox[c] \in Seq(CallMessages(k, c)')
    BY <1>CallSetsGrow, SeqGrows DEF Traced
  <2>2. wire[c] # <<>> => Tail(wire[c]) \in Seq(CallRequests(k, c)')
    BY <2>1
  <2>3. outbox[c] # <<>> => Tail(outbox[c]) \in Seq(CallMessages(k, c)')
    BY <2>1
  <2>4. <<>> \in Seq(CallMessages(k, c)')
    OBVIOUS
  <2>. QED  BY <2>1, <2>2, <2>3, <2>4, ZenonT(40)
\* The operations that make the offer and set the answer.
<1>OfferOp. \A k \in Conns : Called(k)' => Op("createOffer", "offer", NoBlob) \in CallOps(k, k)'
  <2>1. Op("createOffer", "offer", NoBlob) \in Operation
    BY DEF Op, Operation
  <2>. QED  BY <2>1 DEF CallOps, Op
<1>AnswerOp. \A k \in Conns, p \in Payloads :
               p.re = k => Op("setRemote", "answer", p) \in CallOps(k, k)'
  <2>1. \A p \in Payloads : Op("setRemote", "answer", p) \in Operation
    BY DEF Op, Operation
  <2>. QED  BY <2>1 DEF CallOps, Op
\* More operations for a page.
<1>TracedEnqueue.
  ASSUME NEW P \in PeerMap, NEW c \in Conns, NEW ops \in Seq(Operation), NEW S,
         \A h \in Peers : P[c][h].ops \in Seq(S), ops \in Seq(S)
  PROVE  \A h \in Peers : Enqueue(P, c, ops)[c][h].ops \in Seq(S)
  <2>. USE <1>TracedEnqueue
  <2>. SUFFICES ASSUME NEW h \in Peers PROVE Enqueue(P, c, ops)[c][h].ops \in Seq(S)
    OBVIOUS
  <2>1. CASE h = myConnection[c]
    <3>1. Enqueue(P, c, ops)[c][h].ops = P[c][h].ops \o ops
      BY <2>1, EnqueueHere, Zenon
    <3>2. P[c][h].ops \o ops \in Seq(S)
      OBVIOUS
    <3>. QED  BY <3>1, <3>2, Zenon
  <2>2. CASE h # myConnection[c]
    BY <2>2, EnqueueElsewhere, Zenon
  <2>. QED  BY <2>1, <2>2
\* A handler that queues operations of the call.
<1>TracedOnPeer.
  ASSUME Base, NEW k \in Conns, NEW c \in Conns, TracedPage(k, c), NEW ops \in Seq(Operation),
         OnPeer(c, ops), ops \in Seq(CallOps(k, c)'), CallOps(k, c) \subseteq CallOps(k, c)',
         c # k => Home(k, connectedUser[c])'
  PROVE  TracedPage(k, c)' /\ \A e \in Conns \ {c} : peer'[e] = peer[e]
  <2>. USE <1>TracedOnPeer
  <2>1. peer \in PeerMap
    BY DEF Base, Pages, PeerMap
  <2>2. \A h \in Peers : peer[c][h].ops \in Seq(CallOps(k, c)')
    BY SeqGrows DEF TracedPage
  <2>3. CASE peer' = peer
    BY <2>2, <2>3, Zenon DEF TracedPage
  <2>4. CASE peer' = Enqueue(peer, c, ops)
    <3>1. \A h \in Peers : peer'[c][h].ops \in Seq(CallOps(k, c)')
      BY <2>1, <2>2, <2>4, <1>TracedEnqueue
    <3>2. \A h \in Peers : /\ peer'[c][h].state = peer[c][h].state
                           /\ peer'[c][h].remote = peer[c][h].remote
      BY <2>1, <2>4, EnqueueKeeps, ZenonT(40)
    <3>3. \A e \in Conns \ {c} : peer'[e] = peer[e]
      BY <2>1, <2>4 DEF Enqueue, PeerMap
    <3>. QED  BY <3>1, <3>2, <3>3, Zenon DEF TracedPage
  <2>. QED  BY <2>3, <2>4 DEF OnPeer
\* The server reads: one queue is shortened, and one may grow.
<1>ServerEffect.
  ASSUME TypeOK, Wires, NEW d \in Conns, ServerReads(d), NEW c \in Conns
  PROVE  /\ wire[d] # <<>> /\ Head(wire[d]) \in Requests(d)
         /\ wire'[d] = Tail(wire[d]) /\ (c # d => wire'[c] = wire[c])
         /\ \/ outbox'[c] = outbox[c]
            \/ \E m \in Message : /\ outbox'[c] = Append(outbox[c], m)
                                  /\ Passed(d, Head(wire[d]), m, c)
  <2>. USE <1>ServerEffect
  <2>. DEFINE r == Head(wire[d])
  <2>1. /\ wire[d] \in Seq(Requests(d)) /\ wire[d] # <<>> /\ r \in Requests(d)
        /\ wire'[d] = Tail(wire[d]) /\ (c # d => wire'[c] = wire[c])
    BY DEF Wires, ServerReads
  <2>2. ASSUME r.type = "login", Login(d, r.name)
        PROVE  \/ outbox'[c] = outbox[c]
               \/ \E m \in Message : outbox'[c] = Append(outbox[c], m) /\ Passed(d, r, m, c)
    <3>1. LoginReply(FALSE) \in Message /\ LoginReply(TRUE) \in Message
      BY MessageTypes, Zenon
    <3>2. LoginReply(FALSE).type = "login" /\ LoginReply(TRUE).type = "login"
      BY DEF LoginReply
    <3>3. PICK m \in Message : m.type = "login" /\ sendTo(d, m)
      BY <2>2, <3>1, <3>2, ZenonT(40) DEF Login
    <3>. QED  BY <2>2, <3>3, SendToOne DEF Passed
  <2>3. ASSUME NEW m \in Message, NEW link, Relay(d, r.name, m, link), m.type = r.type,
               \/ r.type = "offer" /\ m.offer = r.blob /\ m.name = name[d]
               \/ r.type = "answer" /\ m.answer = r.blob
               \/ r.type = "candidate" /\ m.candidate = r.blob
        PROVE  \/ outbox'[c] = outbox[c]
               \/ \E x \in Message : outbox'[c] = Append(outbox[c], x) /\ Passed(d, r, x, c)
    <3>1. CASE outbox' = outbox
      BY <3>1
    <3>2. CASE Lookup(r.name) # NoConn /\ sendTo(Lookup(r.name), m)
      <4>1. r.name \in Names \union {NoName}
        BY <2>1 DEF Requests
      <4>2. Lookup(r.name) \in Conns
        BY <3>2, <4>1, Zenon DEF Lookup, TypeOK
      <4>3. \/ outbox'[c] = outbox[c]
            \/ c = Lookup(r.name) /\ outbox'[c] = Append(outbox[c], m)
        BY <3>2, <4>2, SendToOne, Zenon
      <4>4. c = Lookup(r.name) => Passed(d, r, m, c)
        BY <2>3, Zenon DEF Passed
      <4>. QED  BY <4>3, <4>4
    <3>. QED  BY <2>3, <3>1, <3>2 DEF Relay
  <2>4. ASSUME r.type # "login"
        PROVE  /\ name[d] \in Names \union {NoName} /\ r.blob \in Payloads
               /\ OfferMsg(r.blob, name[d]) \in Message /\ AnswerMsg(r.blob) \in Message
               /\ CandidateMsg(r.blob) \in Message
    <3>1. name[d] \in Names \union {NoName} /\ r.blob \in Payloads
      BY <2>1, <2>4 DEF TypeOK, Requests
    <3>. QED  BY <3>1, MessageTypes, Zenon
  <2>5. ASSUME r.type = "offer", Offer(d, r.name, r.blob)
        PROVE  \/ outbox'[c] = outbox[c]
               \/ \E x \in Message : outbox'[c] = Append(outbox[c], x) /\ Passed(d, r, x, c)
    <3>1. LET m == OfferMsg(r.blob, name[d])
          IN  m.type = r.type /\ m.offer = r.blob /\ m.name = name[d]
      BY <2>5 DEF OfferMsg
    <3>. QED  BY <2>3, <2>4, <2>5, <3>1, Zenon DEF Offer
  <2>6. ASSUME r.type = "answer", Answer(d, r.name, r.blob)
        PROVE  \/ outbox'[c] = outbox[c]
               \/ \E x \in Message : outbox'[c] = Append(outbox[c], x) /\ Passed(d, r, x, c)
    <3>1. LET m == AnswerMsg(r.blob) IN m.type = r.type /\ m.answer = r.blob
      BY <2>6 DEF AnswerMsg
    <3>. QED  BY <2>3, <2>4, <2>6, <3>1, Zenon DEF Answer
  <2>7. ASSUME r.type = "candidate", Candidate(d, r.name, r.blob)
        PROVE  \/ outbox'[c] = outbox[c]
               \/ \E x \in Message : outbox'[c] = Append(outbox[c], x) /\ Passed(d, r, x, c)
    <3>1. LET m == CandidateMsg(r.blob) IN m.type = r.type /\ m.candidate = r.blob
      BY <2>7 DEF CandidateMsg
    <3>. QED  BY <2>3, <2>4, <2>7, <3>1, Zenon DEF Candidate
  <2>8. \/ r.type = "login" /\ Login(d, r.name)
        \/ r.type = "offer" /\ Offer(d, r.name, r.blob)
        \/ r.type = "answer" /\ Answer(d, r.name, r.blob)
        \/ r.type = "candidate" /\ Candidate(d, r.name, r.blob)
    BY DEF ServerReads, Handle
  <2>. QED  BY <2>1, <2>2, <2>5, <2>6, <2>7, <2>8, Zenon
\* The server reads: an offer is k's, and an answer reaches k or nobody.
<1>TracedServer.
  ASSUME Base, [SysNext]_sysvars, NEW k \in Conns, SoleCaller(k), Traced(k),
         NEW d \in Conns, ServerReads(d)
  PROVE  Traced(k)'
  <2>. USE <1>TracedServer
  <2>. SUFFICES ASSUME NEW c \in Conns
                PROVE  /\ TracedPage(k, c)'
                       /\ wire'[c] \in Seq(CallRequests(k, c)')
                       /\ outbox'[c] \in Seq(CallMessages(k, c)')
    BY DEF Traced
  <2>. DEFINE r == Head(wire[d])
  <2>1. TypeOK /\ Wires
    BY DEF Base
  <2>2. TracedPage(k, c)'
    BY <1>TracedKept DEF ServerReads, Traced
  <2>3. wire'[c] \in Seq(CallRequests(k, c)')
    BY <2>1, <1>ServerEffect, <1>TracedQueues
  <2>4. outbox'[c] \in Seq(CallMessages(k, c)')
    <3>1. wire[d] \in Seq(CallRequests(k, d)) /\ wire[d] # <<>>
      BY <2>1, <1>ServerEffect DEF Traced
    <3>2. r \in CallRequests(k, d)
      BY <3>1
    <3>3. ASSUME NEW m \in Message, Passed(d, r, m, c) PROVE m \in CallMessages(k, c)
      <4>1. CASE m.type = "offer"
        <5>1. d = k /\ Called(k) /\ m.offer.from = d /\ m.name = name[d]
          BY <3>2, <3>3, <4>1 DEF Passed, CallRequests, Requests
        <5>. QED  BY <4>1, <5>1 DEF CallMessages, Home
      <4>2. CASE m.type = "answer"
        <5>1. /\ r.name \in Names \union {NoName} /\ Home(k, r.name)
              /\ Lookup(r.name) = c /\ m.answer.re = k
          BY <3>2, <3>3, <4>2 DEF Passed, CallRequests, Requests
        <5>2. c = k
          BY <5>1, HomeLeads, ServerAssumption
        <5>. QED  BY <4>2, <5>1, <5>2, ZenonT(40) DEF CallMessages
      <4>. QED  BY <3>3, <4>1, <4>2 DEF CallMessages
    <3>4. CASE outbox'[c] = outbox[c]
      BY <3>4, <1>TracedQueues
    <3>5. ASSUME NEW m \in Message, outbox'[c] = Append(outbox[c], m), Passed(d, r, m, c)
          PROVE  outbox'[c] \in Seq(CallMessages(k, c)')
      <4>1. m \in CallMessages(k, c)'
        BY <3>3, <3>5, <1>CallSetsGrow, Zenon
      <4>2. outbox[c] \in Seq(CallMessages(k, c)')
        BY <1>TracedQueues
      <4>3. Append(outbox[c], m) \in Seq(CallMessages(k, c)')
        BY <4>1, <4>2
      <4>. QED  BY <3>5, <4>3, ZenonT(40)
    <3>. QED  BY <2>1, <3>4, <3>5, <1>ServerEffect, Zenon
  <2>. QED  BY <2>2, <2>3, <2>4
\* A page reads: what it queues, and whom it answers, is what it was sent.
<1>TracedRead.
  ASSUME Base, [SysNext]_sysvars, NEW k \in Conns, Traced(k), NEW d \in Conns, ClientReads(d)
  PROVE  Traced(k)'
  <2>. USE <1>TracedRead
  <2>1. TypeOK /\ Pages /\ Wires /\ outbox[d] # <<>> /\ wire' = wire
        /\ outbox'[d] = Tail(outbox[d]) /\ \A c \in Conns \ {d} : outbox'[c] = outbox[c]
    BY Zenon DEF Base, TypeOK, ClientReads, Receive, onmessage, onLogin, onOffer, onAnswer,
           onCandidate, clientvars
  <2>2. PICK m \in CallMessages(k, d) : m = Head(outbox[d])
    <3>1. outbox[d] \in Seq(CallMessages(k, d)) /\ outbox[d] # <<>>
      BY <2>1 DEF Traced
    <3>. QED  BY <3>1
  <2>3. m \in Message
    BY <2>2 DEF CallMessages
  <2>4. ASSUME NEW ops \in Seq(Operation), OnPeer(d, ops), ops \in Seq(CallOps(k, d)'),
               CallOps(k, d) \subseteq CallOps(k, d)', d # k => Home(k, connectedUser[d])',
               \A c \in Conns \ {d} : connectedUser'[c] = connectedUser[c]
        PROVE  \A c \in Conns : TracedPage(k, c)'
    <3>1. TracedPage(k, d)' /\ \A e \in Conns \ {d} : peer'[e] = peer[e]
      BY <2>4, <1>TracedOnPeer, ZenonT(40) DEF Traced
    <3>2. ASSUME NEW c \in Conns, c # d PROVE TracedPage(k, c)'
      BY <2>4, <3>1, <3>2, <1>TracedKept, Zenon DEF Traced
    <3>. QED  BY <3>1, <3>2, Zenon
  <2>5. ASSUME m.type = "offer", onOffer(d, m.offer, m.name)
        PROVE  \A c \in Conns : TracedPage(k, c)'
    <3>. DEFINE ops == <<Op("setRemote", "offer", m.offer), Op("createAnswer", "answer", NoBlob)>>
    <3>1. /\ Called(k) /\ m.offer.from = k /\ Home(k, m.name)
          /\ m.offer \in Payloads /\ m.name \in Names \union {NoName}
      BY <2>2, <2>3, <2>5, RelayedFields, ZenonT(40) DEF CallMessages
    <3>2. /\ OnPeer(d, ops) /\ connectedUser' = [connectedUser EXCEPT ![d] = m.name]
          /\ connectedUser'[d] = m.name
      BY <2>1, <2>5, Zenon DEF onOffer, Pages
    <3>3. Home(k, m.name)'
      BY <3>1, HomeStep, ZenonT(40)
    <3>4. Home(k, connectedUser[d])' /\ Called(k)'
      <4>1. Called(k)'
        BY <3>1, DialsGrow DEF Called
      <4>2. Home(k, connectedUser[d])'
        BY <3>2, <3>3, Zenon DEF Home
      <4>. QED  BY <4>1, <4>2
    <3>5. CallOps(k, d) \subseteq CallOps(k, d)'
      BY <3>4, <1>CallSetsGrow
    <3>6. ops \in Seq(Operation)
      BY <3>1, QueuedTypes
    <3>7. ops \in Seq(CallOps(k, d)')
      <4>1. ops[1] \in Operation /\ ops[2] \in Operation
        BY <3>6
      <4>2. ops[1] \in CallOps(k, d)' /\ ops[2] \in CallOps(k, d)'
        BY <3>1, <3>4, <4>1, ZenonT(40) DEF CallOps, Op
      <4>. QED  BY <4>2
    <3>8. \A c \in Conns \ {d} : connectedUser'[c] = connectedUser[c]
      BY <2>1, <3>2 DEF Pages
    <3>. QED  BY <2>4, <3>2, <3>4, <3>5, <3>6, <3>7, <3>8, Zenon
  <2>6. ASSUME m.type = "answer", onAnswer(d, m.answer)
        PROVE  \A c \in Conns : TracedPage(k, c)'
    <3>1. d = k /\ m.answer.re = k /\ m.answer \in Payloads
      BY <2>2, <2>3, <2>6, RelayedFields DEF CallMessages
    <3>2. OnPeer(d, <<Op("setRemote", "answer", m.answer)>>) /\ connectedUser' = connectedUser
      BY <2>6, ZenonT(40) DEF onAnswer
    <3>3. CallOps(k, d) \subseteq CallOps(k, d)'
      BY <3>2, <1>TracedKept DEF Traced
    <3>4. <<Op("setRemote", "answer", m.answer)>> \in Seq(Operation)
      BY <3>1, QueuedTypes, ZenonT(40)
    <3>5. Op("setRemote", "answer", m.answer) \in CallOps(k, d)'
      BY <3>1, <1>AnswerOp, Zenon
    <3>6. <<Op("setRemote", "answer", m.answer)>> \in Seq(CallOps(k, d)')
      BY <3>5
    <3>. QED  BY <2>4, <3>1, <3>2, <3>3, <3>4, <3>6, ZenonT(40)
  <2>7. ASSUME m.type = "candidate", onCandidate(d, m.candidate)
        PROVE  \A c \in Conns : TracedPage(k, c)'
    <3>1. m.candidate \in Payloads
      BY <2>2, <2>3, <2>7, RelayedFields
    <3>2. /\ OnPeer(d, <<Op("addIceCandidate", "candidate", m.candidate)>>)
          /\ connectedUser' = connectedUser
      BY <2>7, ZenonT(40) DEF onCandidate
    <3>3. CallOps(k, d) \subseteq CallOps(k, d)' /\ (d # k => Home(k, connectedUser[d])')
      BY <3>2, <1>TracedKept, Zenon DEF Traced
    <3>4. <<Op("addIceCandidate", "candidate", m.candidate)>> \in Seq(Operation)
      BY <3>1, QueuedTypes
    <3>5. Op("addIceCandidate", "candidate", m.candidate) \in CallOps(k, d)'
      BY <3>4 DEF CallOps, Op
    <3>6. <<Op("addIceCandidate", "candidate", m.candidate)>> \in Seq(CallOps(k, d)')
      BY <3>5
    <3>. QED  BY <2>4, <3>2, <3>3, <3>4, <3>6, ZenonT(40)
  <2>8. ASSUME peer' = peer, connectedUser' = connectedUser
        PROVE  \A c \in Conns : TracedPage(k, c)'
    BY <2>8, <1>TracedKept, Zenon DEF Traced
  <2>9. \A c \in Conns : TracedPage(k, c)'
    BY <2>2, <2>5, <2>6, <2>7, <2>8, Zenon DEF ClientReads, onmessage, onLogin, clientvars
  <2>10. ASSUME NEW c \in Conns
         PROVE  wire'[c] \in Seq(CallRequests(k, c)') /\ outbox'[c] \in Seq(CallMessages(k, c)')
    BY <2>1, <1>TracedQueues, ZenonT(40)
  <2>. QED  BY <2>9, <2>10, ZenonT(40) DEF Traced
\* Connections open and close: nothing of a call is added.
<1>TracedConnection.
  ASSUME Base, [SysNext]_sysvars, NEW k \in Conns, Traced(k), NEW d \in Conns, Connection(d)
  PROVE  Traced(k)'
  <2>. USE <1>TracedConnection
  <2>1. /\ TypeOK /\ TypeOK' /\ wire' = wire /\ peer' = peer /\ connectedUser' = connectedUser
    BY BaseStep, Zenon DEF Base, Connection, clientvars
  <2>2. ASSUME NEW c \in Conns PROVE TracedPage(k, c)' /\ wire'[c] \in Seq(CallRequests(k, c)')
    BY <2>1, <1>TracedKept, <1>TracedQueues, Zenon DEF Traced
  <2>3. ASSUME NEW c \in Conns PROVE outbox'[c] \in Seq(CallMessages(k, c)')
    <3>1. Hello \in CallMessages(k, c)' /\ LeaveMsg \in CallMessages(k, c)'
      BY MessageTypes, ZenonT(40) DEF CallMessages, Hello, LeaveMsg
    <3>2. outbox[c] \in Seq(CallMessages(k, c)')
      BY <1>TracedQueues
    <3>3. /\ Append(outbox[c], Hello) \in Seq(CallMessages(k, c)')
          /\ Append(outbox[c], LeaveMsg) \in Seq(CallMessages(k, c)')
          /\ <<>> \in Seq(CallMessages(k, c)')
      BY <3>1, <3>2
    <3>. QED  BY <2>1, <3>2, <3>3, ConnectionQueues, Zenon
  <2>. QED  BY <2>2, <2>3 DEF Traced
\* A page sends a request of the call, or one that is not about it.
<1>TracedSend.
  ASSUME Base, [SysNext]_sysvars, NEW k \in Conns, Traced(k), NEW d \in Conns,
         NEW type, NEW n, NEW p, send(d, type, n, p), NEW to,
         to = IF connectedUser[d] = NoName THEN n ELSE connectedUser[d],
         type = "offer" => d = k /\ Called(k)',
         type = "answer" => p.re = k /\ Home(k, to)',
         NEW c \in Conns
  PROVE  wire'[c] \in Seq(CallRequests(k, c)')
  <2>. USE <1>TracedSend
  <2>1. wire[c] \in Seq(Requests(c)) /\ wire'[c] \in Seq(Requests(c)) /\ DOMAIN wire = Conns
    BY BaseStep, ZenonT(40) DEF Base, Wires
  <2>2. c # d => wire'[c] = wire[c]
    BY <2>1 DEF send
  <2>3. CASE c = d
    <3>1. wire'[c] = Append(wire[c], Request(type, to, p))
      BY <2>1, <2>3, ZenonT(40) DEF send
    <3>2. PICK r : r = Request(type, to, p)
      OBVIOUS
    <3>3. wire'[c] = Append(wire[c], r)
      BY <3>1, <3>2, ZenonT(40)
    <3>4. r \in Requests(c)
      <4>1. Append(wire[c], r) \in Seq(Requests(c))
        BY <2>1, <3>3, ZenonT(40)
      <4>2. Append(wire[c], r)[Len(wire[c]) + 1] = r /\ Len(Append(wire[c], r)) = Len(wire[c]) + 1
        BY <2>1
      <4>. QED  BY <2>1, <4>1, <4>2
    <3>5. r \in CallRequests(k, c)'
      BY <2>3, <3>2, <3>4, Zenon DEF CallRequests, Request
    <3>6. wire[c] \in Seq(CallRequests(k, c)')
      BY <1>TracedQueues, Zenon
    <3>7. Append(wire[c], r) \in Seq(CallRequests(k, c)')
      BY <3>5, <3>6, SeqAppend, ZenonT(40)
    <3>. QED  BY <3>3, <3>7, Zenon
  <2>. QED  BY <2>2, <2>3, <1>TracedQueues, Zenon
\* A candidate plays no part in that.
<1>TracedCandidate.
  ASSUME Base, [SysNext]_sysvars, NEW k \in Conns, Traced(k), NEW d \in Conns,
         NEW p, send(d, "candidate", NoName, p), NEW c \in Conns
  PROVE  wire'[c] \in Seq(CallRequests(k, c)')
  <2>1. PICK to : to = IF connectedUser[d] = NoName THEN NoName ELSE connectedUser[d]
    BY ZenonT(40)
  <2>. QED  BY <1>TracedCandidate, <2>1, <1>TracedSend
\* An answer is sent to a name that k is home to.
<1>TracedAnswer.
  ASSUME Base, [SysNext]_sysvars, NEW k \in Conns, Traced(k), NEW d \in Conns,
         NEW p, send(d, "answer", NoName, p), p.re = k,
         NEW n, n = connectedUser[d], Home(k, n)', NEW c \in Conns
  PROVE  wire'[c] \in Seq(CallRequests(k, c)')
  <2>1. n = IF connectedUser[d] = NoName THEN NoName ELSE connectedUser[d]
    BY <1>TracedAnswer, ZenonT(40)
  <2>. QED  BY <1>TracedAnswer, <2>1, <1>TracedSend
\* The user of k calls: until then there was nothing to answer.
<1>TracedDial.
  ASSUME Base, [SysNext]_sysvars, NEW k \in Conns, SoleCaller(k)', Traced(k), NEW d \in Conns,
         NEW n \in Names \union {NoName}, connectToOtherUsernameBtn(d, n)
  PROVE  \A c \in Conns : TracedPage(k, c)' /\ wire'[c] \in Seq(CallRequests(k, c)')
  <2>. USE <1>TracedDial
  <2>1. /\ Pages /\ Clicks /\ wire' = wire
        /\ connectedUser' = [connectedUser EXCEPT ![d] = n]
    BY DEF Base, connectToOtherUsernameBtn
  <2>2. clicks[d].dial \in Nat /\ clicks'[d].dial = clicks[d].dial + 1
    BY <2>1, ZenonT(40) DEF connectToOtherUsernameBtn, Clicks
  <2>3. clicks'[d].dial <= IF d = k THEN 1 ELSE 0
    BY DEF SoleCaller
  <2>4. d = k /\ clicks[k].dial = 0 /\ clicks'[k].dial = 1
    BY <2>2, <2>3
  <2>5. CallOps(k, k) \subseteq CallOps(k, k)'
    BY <2>4, <1>CallSetsGrow, Zenon DEF Called
  <2>. DEFINE ops == <<Op("createOffer", "offer", NoBlob)>>
  <2>6. ops \in Seq(Operation) /\ ops \in Seq(CallOps(k, k)')
    <3>1. ops \in Seq(Operation) /\ Op("createOffer", "offer", NoBlob) \in Operation
      BY QueuedTypes, Zenon DEF Op, Operation
    <3>2. Called(k)'
      BY <2>4 DEF Called
    <3>3. Op("createOffer", "offer", NoBlob) \in CallOps(k, k)'
      BY <3>2, <1>OfferOp, Zenon
    <3>. QED  BY <3>1, <3>3
  <2>7. TracedPage(k, k)' /\ \A e \in Conns \ {k} : peer'[e] = peer[e]
    <3>1. CASE peer' = peer
      BY <2>5, <3>1, SeqGrows, Zenon DEF TracedPage, Traced
    <3>2. CASE OnPeer(k, ops)
      BY <2>5, <2>6, <3>2, <1>TracedOnPeer, Zenon DEF Traced
    <3>3. peer' = peer \/ OnPeer(k, ops)
      BY <2>4, Zenon DEF connectToOtherUsernameBtn, OnPeer
    <3>. QED  BY <3>1, <3>2, <3>3, Zenon
  <2>8. ASSUME NEW c \in Conns, c # k PROVE TracedPage(k, c)'
    <3>1. connectedUser'[c] = connectedUser[c]
      BY <2>1, <2>4, <2>8, Zenon DEF Pages
    <3>. QED  BY <2>7, <2>8, <3>1, <1>TracedKept, Zenon DEF Traced
  <2>. QED  BY <2>1, <2>7, <2>8, <1>TracedQueues
\* A connection that has finished an operation, and may have to set a description.
<1>TracedFinish.
  ASSUME Base, [SysNext]_sysvars, NEW k \in Conns, NEW c \in Conns, TracedPage(k, c),
         connectedUser'[c] = connectedUser[c],
         NEW g \in Peers, peer[c][g].ops # <<>>, NEW type \in {"offer", "answer"},
         \/ peer' = Done(c, g)
         \/ peer' = Enqueue(Done(c, g), c, <<Op("setLocal", type, NoBlob)>>)
  PROVE  TracedPage(k, c)' /\ \A e \in Conns \ {c} : peer'[e] = peer[e]
  <2>. USE <1>TracedFinish
  <2>1. Pages /\ g \in 1..MaxLogins
    BY DEF Base, Peers
  <2>2. Done(c, g) \in PeerMap
    BY <2>1, DoneType, ZenonT(40) DEF PeerMap
  <2>3. /\ CallOps(k, c) \subseteq CallOps(k, c)'
        /\ c # k => Home(k, connectedUser[c])'
    BY <1>TracedKept, Zenon
  <2>4. ASSUME NEW h \in Peers PROVE Done(c, g)[c][h].ops \in Seq(CallOps(k, c)')
    <3>1. peer[c][h].ops \in Seq(CallOps(k, c)')
      BY <2>3, SeqGrows, ZenonT(40) DEF TracedPage
    <3>2. peer[c][h].ops # <<>> => Tail(peer[c][h].ops) \in Seq(CallOps(k, c)')
      BY <3>1
    <3>3. h = g => Done(c, g)[c][h].ops = Tail(peer[c][h].ops)
      BY <2>1, DoneHere, Zenon
    <3>4. h # g => Done(c, g)[c][h] = peer[c][h]
      BY <2>1, DoneElsewhere, Zenon
    <3>. QED  BY <3>1, <3>2, <3>3, <3>4, ZenonT(40)
  <2>5. ASSUME NEW h \in Peers
        PROVE  /\ Done(c, g)[c][h].state = peer[c][h].state
               /\ Done(c, g)[c][h].remote = peer[c][h].remote
    <3>1. Done(c, g)[c][h].state = peer[c][h].state
      BY <2>1, DoneKeeps, ZenonT(40)
    <3>2. Done(c, g)[c][h].remote = peer[c][h].remote
      BY <2>1, DoneKeeps, ZenonT(40)
    <3>. QED  BY <3>1, <3>2, Zenon
  <2>6. \A e \in Conns \ {c} : Done(c, g)[e] = peer[e]
    BY <2>1 DEF Done, Pages
  <2>7. CASE peer' = Done(c, g)
    BY <2>3, <2>4, <2>5, <2>6, <2>7, Zenon DEF TracedPage
  <2>8. CASE peer' = Enqueue(Done(c, g), c, <<Op("setLocal", type, NoBlob)>>)
    <3>. DEFINE ops == <<Op("setLocal", type, NoBlob)>>
    <3>1. Op("setLocal", type, NoBlob) \in Operation
      BY Zenon DEF Op, Operation
    <3>2. Op("setLocal", type, NoBlob) \in CallOps(k, c)'
      BY <3>1, ZenonT(40) DEF CallOps, Op
    <3>3. ops \in Seq(Operation) /\ ops \in Seq(CallOps(k, c)')
      BY <3>1, <3>2
    <3>4. \A h \in Peers : Enqueue(Done(c, g), c, ops)[c][h].ops \in Seq(CallOps(k, c)')
      BY <2>2, <2>4, <3>3, <1>TracedEnqueue, Zenon
    <3>5. ASSUME NEW h \in Peers
          PROVE  /\ Enqueue(Done(c, g), c, ops)[c][h].state = Done(c, g)[c][h].state
                 /\ Enqueue(Done(c, g), c, ops)[c][h].remote = Done(c, g)[c][h].remote
      BY <2>2, <3>3, EnqueueKeeps, ZenonT(40)
    <3>6. \A e \in Conns \ {c} : Enqueue(Done(c, g), c, ops)[e] = Done(c, g)[e]
      BY <2>2 DEF Enqueue, PeerMap
    <3>7. \A h \in Peers : /\ peer'[c][h].ops \in Seq(CallOps(k, c)')
                           /\ peer'[c][h].state = peer[c][h].state
                           /\ peer'[c][h].remote = peer[c][h].remote
      BY <2>2, <2>5, <2>8, <3>3, <3>4, <3>5, ZenonT(40)
    <3>8. \A e \in Conns \ {c} : peer'[e] = peer[e]
      BY <2>6, <2>8, <3>6, ZenonT(40)
    <3>. QED  BY <2>3, <3>7, <3>8, Zenon DEF TracedPage
  <2>. QED  BY <2>7, <2>8, ZenonT(40)
\* A description is set: a remote offer is k's.
<1>TracedDescription.
  ASSUME Base, [SysNext]_sysvars, NEW k \in Conns, NEW c \in Conns, TracedPage(k, c),
         NEW g \in Peers, DescriptionSet(c, g)
  PROVE  TracedPage(k, c)'
  <2>. USE <1>TracedDescription
  <2>1. Pages /\ connectedUser' = connectedUser /\ peer[c][g].ops # <<>>
    BY Zenon DEF Base, DescriptionSet, Running
  <2>2. /\ CallOps(k, c) \subseteq CallOps(k, c)'
        /\ c # k => Home(k, connectedUser[c])'
    BY <2>1, <1>TracedKept, Zenon
  <2>3. ASSUME NEW h \in Peers
        PROVE  /\ peer'[c][h].ops \in Seq(CallOps(k, c)')
               /\ peer'[c][h].state = "have-remote-offer" => peer'[c][h].remote = k
    <3>1. /\ peer[c][h].ops \in Seq(CallOps(k, c)) /\ peer[c][h].ops \in Seq(CallOps(k, c)')
          /\ peer[c][h].state = "have-remote-offer" => peer[c][h].remote = k
      BY <2>2, SeqGrows, Zenon DEF TracedPage
    <3>2. CASE h # g
      BY <2>1, <3>1, <3>2, DescriptionEffect, ZenonT(40)
    <3>3. CASE h = g
      <4>1. PICK op : op = Head(peer[c][h].ops)
        BY Zenon
      <4>2. /\ peer'[c][h].ops = Tail(peer[c][h].ops)
            /\ SetResult(peer[c][h], Head(peer[c][h].ops), peer'[c][h])
        BY <2>1, <3>3, DescriptionEffect, ZenonT(40)
      <4>3. op \in CallOps(k, c) /\ Tail(peer[c][h].ops) \in Seq(CallOps(k, c)')
        BY <2>1, <3>1, <3>3, <4>1
      <4>4. SetResult(peer[c][h], op, peer'[c][h])
        BY <4>1, <4>2, ZenonT(40)
      <4>5. peer'[c][h].state = "have-remote-offer" => peer'[c][h].remote = k
        BY <3>1, <4>3, <4>4, Zenon DEF SetResult, CallOps
      <4>6. peer'[c][h].ops \in Seq(CallOps(k, c)')
        BY <4>2, <4>3, Zenon
      <4>. QED  BY <4>5, <4>6
    <3>. QED  BY <3>2, <3>3, Zenon
  <2>. QED  BY <2>2, <2>3, Zenon DEF TracedPage
\* A callback runs: an offer is sent by k, and an answer to a name that leads to k.
<1>TracedCallback.
  ASSUME Base, [SysNext]_sysvars, NEW k \in Conns, Traced(k), NEW d \in Conns, NEW g \in Peers,
         Callback(d, g) \/ onicecandidate(d, g)
  PROVE  \A c \in Conns : TracedPage(k, c)' /\ wire'[c] \in Seq(CallRequests(k, c)')
  <2>. USE <1>TracedCallback
  <2>1. Pages /\ connectedUser' = connectedUser
    BY Zenon DEF Base, Callback, OfferCreated, AnswerCreated, DescriptionSet, CandidateAdded,
           onicecandidate
  <2>. DEFINE to == IF connectedUser[d] = NoName THEN NoName ELSE connectedUser[d]
  <2>2. ASSUME TracedPage(k, d)', \A e \in Conns \ {d} : peer'[e] = peer[e]
        PROVE  \A c \in Conns : TracedPage(k, c)'
    BY <2>1, <2>2, <1>TracedKept, ZenonT(40) DEF Traced
  <2>3. ASSUME wire' = wire PROVE \A c \in Conns : wire'[c] \in Seq(CallRequests(k, c)')
    BY <2>3, <1>TracedQueues, Zenon
  <2>4. ASSUME peer[d][g].ops # <<>> PROVE Head(peer[d][g].ops) \in CallOps(k, d)
    <3>1. peer[d][g].ops \in Seq(CallOps(k, d))
      BY DEF Traced, TracedPage
    <3>. QED  BY <2>4, <3>1
  <2>5. ASSUME NEW type \in {"offer", "answer"}, peer[d][g].ops # <<>>,
               \/ peer' = Done(d, g)
               \/ peer' = Enqueue(Done(d, g), d, <<Op("setLocal", type, NoBlob)>>)
        PROVE  \A c \in Conns : TracedPage(k, c)'
    <3>1. TracedPage(k, d)' /\ \A e \in Conns \ {d} : peer'[e] = peer[e]
      BY <2>1, <2>5, <1>TracedFinish, Zenon DEF Traced
    <3>. QED  BY <2>2, <3>1
  <2>6. CASE OfferCreated(d, g)
    <3>1. /\ peer[d][g].ops # <<>> /\ Head(peer[d][g].ops).do = "createOffer"
          /\ \/ peer' = Done(d, g) /\ wire' = wire
             \/ /\ peer' = Enqueue(Done(d, g), d, <<Op("setLocal", "offer", NoBlob)>>)
                /\ send(d, "offer", NoName, [from |-> d, re |-> NoConn])
      BY <2>6, Zenon DEF OfferCreated, Running
    <3>2. d = k /\ Called(k) /\ Called(k)'
      <4>1. d = k /\ Called(k)
        BY <2>4, <3>1, ZenonT(40) DEF CallOps
      <4>2. Called(k) => Called(k)'
        BY DialsGrow DEF Called
      <4>. QED  BY <4>1, <4>2, Zenon
    <3>3. PICK p, n : p = [from |-> d, re |-> NoConn] /\ n = to
      BY Zenon
    <3>4. ASSUME send(d, "offer", NoName, [from |-> d, re |-> NoConn]), NEW c \in Conns
          PROVE  wire'[c] \in Seq(CallRequests(k, c)')
      <4>1. send(d, "offer", NoName, p)
        BY <3>3, <3>4, Zenon
      <4>. QED  BY <3>2, <3>3, <4>1, <1>TracedSend, Zenon
    <3>. QED  BY <2>3, <2>5, <3>1, <3>4, Zenon
  <2>7. CASE AnswerCreated(d, g)
    <3>1. /\ peer[d][g].ops # <<>> /\ Head(peer[d][g].ops).do = "createAnswer"
          /\ \/ peer' = Done(d, g) /\ wire' = wire
             \/ /\ peer' = Enqueue(Done(d, g), d, <<Op("setLocal", "answer", NoBlob)>>)
                /\ send(d, "answer", NoName, [from |-> d, re |-> peer[d][g].remote])
                /\ peer[d][g].state = "have-remote-offer"
      BY <2>7, Zenon DEF AnswerCreated, Running
    <3>2. PICK n \in Names \union {NoName} : n = connectedUser[d]
      BY <2>1, Zenon DEF Pages
    <3>3. Home(k, n) /\ n = to
      BY <2>4, <3>1, <3>2, Zenon DEF CallOps
    <3>4. Home(k, n)'
      BY <3>3, HomeStep
    <3>5. PICK p : p = [from |-> d, re |-> peer[d][g].remote]
      BY Zenon
    <3>6. ASSUME send(d, "answer", NoName, [from |-> d, re |-> peer[d][g].remote]),
                 peer[d][g].state = "have-remote-offer", NEW c \in Conns
          PROVE  wire'[c] \in Seq(CallRequests(k, c)')
      <4>1. send(d, "answer", NoName, p)
        BY <3>5, <3>6, Zenon
      <4>2. p.re = k
        BY <3>5, <3>6, ZenonT(40) DEF Traced, TracedPage
      <4>. QED  BY <3>2, <3>4, <4>1, <4>2, <1>TracedAnswer, ZenonT(40)
    <3>. QED  BY <2>3, <2>5, <3>1, <3>6, ZenonT(40)
  <2>8. CASE DescriptionSet(d, g)
    <3>1. TracedPage(k, d)' /\ wire' = wire
      BY <2>8, <1>TracedDescription, ZenonT(40) DEF Traced, DescriptionSet
    <3>2. peer' \in PeerMap /\ peer \in PeerMap
      BY BaseStep DEF Base, Pages, PeerMap
    <3>3. ASSUME NEW e \in Conns, e # d PROVE peer'[e] = peer[e]
      <4>1. ASSUME NEW h \in Peers PROVE peer'[e][h] = peer[e][h]
        BY <2>1, <2>8, <3>3, DescriptionEffect, ZenonT(40)
      <4>2. peer'[e] \in [Peers -> Peer] /\ peer[e] \in [Peers -> Peer]
        BY <3>2 DEF PeerMap, Peers
      <4>3. /\ peer'[e] = [h \in Peers |-> peer'[e][h]]
            /\ peer[e] = [h \in Peers |-> peer[e][h]]
        BY <4>2, Zenon
      <4>4. [h \in Peers |-> peer'[e][h]] = [h \in Peers |-> peer[e][h]]
        BY <4>1, Zenon
      <4>. QED  BY <4>3, <4>4, Zenon
    <3>. QED  BY <2>2, <2>3, <3>1, <3>3
  <2>9. CASE CandidateAdded(d, g)
    <3>1. peer[d][g].ops # <<>> /\ peer' = Done(d, g) /\ wire' = wire
      BY <2>9, ZenonT(40) DEF CandidateAdded, Running
    <3>. QED  BY <2>3, <2>5, <3>1, Zenon
  <2>10. CASE onicecandidate(d, g)
    <3>1. /\ peer' = [peer EXCEPT ![d][g].cands = @ + 1]
          /\ send(d, "candidate", NoName, [from |-> d, re |-> NoConn])
      BY <2>10 DEF onicecandidate
    <3>2. PICK p : p = [from |-> d, re |-> NoConn]
      BY Zenon
    <3>3. send(d, "candidate", NoName, p)
      BY <3>1, <3>2, Zenon
    <3>4. ASSUME NEW c \in Conns PROVE wire'[c] \in Seq(CallRequests(k, c)')
      BY <3>3, <1>TracedCandidate, ZenonT(40)
    <3>5. ASSUME NEW h \in Peers
          PROVE  /\ peer'[d][h].ops = peer[d][h].ops /\ peer'[d][h].state = peer[d][h].state
                 /\ peer'[d][h].remote = peer[d][h].remote
      BY <2>1, <3>1, CandidateCounted
    <3>6. \A e \in Conns \ {d} : peer'[e] = peer[e]
      BY <2>1, <3>1, ZenonT(40) DEF Pages
    <3>7. /\ CallOps(k, d) \subseteq CallOps(k, d)'
          /\ d # k => Home(k, connectedUser[d])'
      BY <2>1, <1>TracedKept, Zenon DEF Traced
    <3>8. \A h \in Peers : peer'[d][h].ops \in Seq(CallOps(k, d)')
      <4>1. ASSUME NEW h \in Peers PROVE peer[d][h].ops \in Seq(CallOps(k, d)')
        BY <3>7, SeqGrows, ZenonT(40) DEF Traced, TracedPage
      <4>. QED  BY <3>5, <4>1, Zenon
    <3>9. TracedPage(k, d)'
      BY <3>5, <3>7, <3>8, ZenonT(40) DEF Traced, TracedPage
    <3>. QED  BY <2>2, <3>4, <3>6, <3>9
  <2>. QED  BY <2>6, <2>7, <2>8, <2>9, <2>10, ZenonT(40) DEF Callback
<1>. QED
  <2>. SUFFICES
    ASSUME Base, [SysNext]_sysvars, NEW k \in Conns, SoleCaller(k), SoleCaller(k)', Traced(k)
    PROVE  Traced(k)'
    OBVIOUS
  <2>1. ASSUME NEW d \in Conns, PageStep(d) PROVE Traced(k)'
    <3>1. outbox' = outbox
      BY <2>1 DEF PageStep, vars
    <3>2. ASSUME \A c \in Conns : TracedPage(k, c)' /\ wire'[c] \in Seq(CallRequests(k, c)')
          PROVE  Traced(k)'
      BY <3>1, <3>2, <1>TracedQueues DEF Traced
    <3>3. ASSUME NEW n \in Names, loginBtn(d, n) PROVE Traced(k)'
      <4>1. peer' = peer /\ connectedUser' = connectedUser /\ send(d, "login", n, NoBlob)
        BY <3>3 DEF loginBtn
      <4>2. PICK to : to = IF connectedUser[d] = NoName THEN n ELSE connectedUser[d]
        OBVIOUS
      <4>3. ASSUME NEW c \in Conns PROVE wire'[c] \in Seq(CallRequests(k, c)')
        BY <4>1, <4>2, <1>TracedSend
      <4>. QED  BY <3>2, <4>1, <4>3, <1>TracedKept DEF Traced
    <3>4. ASSUME NEW n \in Names \union {NoName}, connectToOtherUsernameBtn(d, n) PROVE Traced(k)'
      BY <3>2, <3>4, <1>TracedDial
    <3>5. ASSUME NEW g \in Peers, Callback(d, g) \/ onicecandidate(d, g) PROVE Traced(k)'
      BY <3>2, <3>5, <1>TracedCallback, Zenon
    <3>. QED  BY <2>1, <3>3, <3>4, <3>5, Zenon DEF PageStep
  <2>2. CASE UNCHANGED sysvars
    BY <2>2, <1>TracedKept, <1>TracedQueues, Zenon DEF Traced, sysvars, vars, clientvars
  <2>. QED  BY <2>1, <2>2, <1>TracedServer, <1>TracedRead, <1>TracedConnection DEF SysNext

\* At first nobody has called.
LEMMA TracedInit == ASSUME SysInit, NEW k \in Conns PROVE Traced(k)
<1>1. ASSUME NEW c \in Conns
      PROVE  /\ wire[c] = <<>> /\ outbox[c] = <<>> /\ connectedUser[c] = NoName
             /\ \A g \in Peers : peer[c][g].ops = <<>> /\ peer[c][g].state = "stable"
  BY DEF SysInit, Init, ClientInit, NewPeer
<1>2. \A S : <<>> \in Seq(S)
  OBVIOUS
<1>3. ASSUME NEW c \in Conns
      PROVE  /\ wire[c] \in Seq(CallRequests(k, c)) /\ outbox[c] \in Seq(CallMessages(k, c))
             /\ \A g \in Peers : peer[c][g].ops \in Seq(CallOps(k, c))
  BY <1>1, <1>2, Zenon
<1>. QED  BY <1>1, <1>3 DEF Traced, TracedPage, Home

\* While one user has called, once, every answer that a page sets answers that call.
THEOREM AnswersReturn == SysSpec => []AnswerReturns
<1>. DEFINE I == Base /\ \A k \in Conns : SoleCaller(k) => Traced(k)
<1>1. SysInit => I
  BY BaseInit, TracedInit
<1>2. I /\ [SysNext]_sysvars => I'
  BY BaseStep, SoleCallerBefore, TracedStep, ZenonT(40)
<1>3. I => AnswerReturns
  <2>. SUFFICES ASSUME I, NEW k \in Conns, SoleCaller(k), NEW c \in Conns, NEW g \in Peers,
                       Running(c, g, "setRemote"), Head(peer[c][g].ops).type = "answer"
                PROVE  Head(peer[c][g].ops).blob.re = c
    BY DEF AnswerReturns, AnswerIsOurs
  <2>1. peer[c][g].ops \in Seq(CallOps(k, c)) /\ peer[c][g].ops # <<>>
    BY DEF Traced, TracedPage, Running
  <2>2. Head(peer[c][g].ops) \in CallOps(k, c)
    BY <2>1
  <2>. QED  BY <2>2 DEF CallOps, Running
<1>. QED  BY <1>1, <1>2, <1>3, PTL DEF SysSpec
=============================================================================
