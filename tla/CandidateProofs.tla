--------------------------- MODULE CandidateProofs ---------------------------
(***************************************************************************)
(* What SignallingSystem promises of the candidates of a single call, for  *)
(* any number of pages and names and any bounds: CandidateKept.  The call  *)
(* goes through stages (Stage): the offer has not been relayed yet, or it  *)
(* went to nobody or back to the caller, or caller and callee talk.  While *)
(* they talk, the description of each is on its way to the other, queued   *)
(* there or set, and the candidates are behind it (Heard).                 *)
(***************************************************************************)
EXTENDS SoleCallProofs, StageProofs

-----------------------------------------------------------------------------
(* Three more invariants: connections that were not made yet are as new, a *)
(* page with a connection has a name, and a user is entered once connected *)
(* (Prepared).                                                             *)

Untouched(c) == \A g \in Peers : g > myConnection[c] => peer[c][g] = NewPeer
Welcomed(c) == Has(outbox[c], Welcomes) \/ myConnection[c] # 0 => name[c] # NoName

\* A page that has a connection, or will be told to make one, has a name.
LEMMA WelcomedStep == \A c \in Conns :
    /\ Base /\ [SysNext]_sysvars /\ Welcomed(c)
    => Welcomed(c)'
\* Whoever has a name keeps having one.
<1>NameStays.
  ASSUME Base, [SysNext]_sysvars, NEW c \in Conns, name[c] # NoName
  PROVE  name'[c] # NoName
  <2>. USE <1>NameStays
  <2>1. TypeOK /\ [Next]_vars
    BY BaseStep DEF Base
  <2>2. ASSUME NEW d \in Conns, NEW n \in Names, Login(d, n), users[n] = NoConn
        PROVE  name'[c] # NoName
    BY <2>1, <2>2, ServerAssumption DEF Login, TypeOK
  <2>3. ASSUME NEW d \in Conns, OnConnection(d) \/ OnClose(d) PROVE name'[c] # NoName
    BY <2>3 DEF OnConnection, OnClose
  <2>4. CASE Aloof
    BY <2>4 DEF Aloof
  <2>. QED  BY <2>1, <2>2, <2>3, <2>4, StepKinds, Zenon
\* The server welcomes a connection when it gives it a name.
<1>WelcomeSent.
  ASSUME TypeOK, Wires, NEW d \in Conns, ServerReads(d), NEW c \in Conns
  PROVE  \/ outbox'[c] = outbox[c]
         \/ \E m \in Message : /\ outbox'[c] = Append(outbox[c], m)
                               /\ m = Welcome => name'[c] # NoName
  <2>. USE <1>WelcomeSent
  <2>. DEFINE r == Head(wire[d])
  <2>1. wire[d] \in Seq(Requests(d)) /\ wire[d] # <<>>
    BY DEF Wires, ServerReads
  <2>2. r \in Requests(d)
    BY <2>1
  <2>3. CASE r.type = "login"
    <3>1. PICK n \in Names : n = r.name
      BY <2>2, <2>3 DEF Requests
    <3>2. Login(d, n)
      BY <2>3, <3>1, ZenonT(40) DEF ServerReads, Handle
    <3>3. LoginReply(FALSE) \in Message /\ Welcome \in Message
      BY MessageTypes, Zenon DEF Welcome
    <3>4. LoginReply(FALSE) # Welcome
      BY DEF LoginReply, Welcome
    <3>5. CASE sendTo(d, LoginReply(FALSE))
      <4>1. PICK m \in Message : m # Welcome /\ sendTo(d, m)
        BY <3>3, <3>4, <3>5, ZenonT(40)
      <4>. QED  BY <4>1, SendToOne
    <3>6. CASE sendTo(d, Welcome) /\ name' = [name EXCEPT ![d] = n]
      <4>1. name'[d] # NoName
        BY <3>6, ServerAssumption, Zenon DEF TypeOK
      <4>. QED  BY <3>3, <3>6, <4>1, SendToOne, ZenonT(40)
    <3>. QED  BY <3>2, <3>5, <3>6, ZenonT(40) DEF Login, Welcome
  <2>4. CASE r.type # "login"
    <3>1. r.name \in Names \union {NoName}
      BY <2>2 DEF Requests
    <3>2. PICK m \in Message : m.type \in Relayed /\ \E link : Relay(d, r.name, m, link)
      BY <2>2, <2>4, RelayRead
    <3>3. m # Welcome
      BY <3>2 DEF Relayed, Welcome, LoginReply
    <3>4. outbox'[c] = outbox[c] \/ outbox'[c] = Append(outbox[c], m)
      BY <3>1, <3>2, LookupType, SendToOne, ZenonT(40) DEF Relay
    <3>. QED  BY <3>3, <3>4
  <2>. QED  BY <2>3, <2>4
<1>. QED
  <2>. SUFFICES
    ASSUME Base, [SysNext]_sysvars, NEW c \in Conns, Welcomed(c)
    PROVE  Welcomed(c)'
    OBVIOUS
  <2>1. /\ TypeOK /\ TypeOK' /\ Pages /\ Wires /\ outbox[c] \in Seq(Message)
        /\ name[c] # NoName => name'[c] # NoName
    BY BaseStep, <1>NameStays, QueueTypes DEF Base
  <2>2. ASSUME \/ outbox'[c] = outbox[c] \/ outbox'[c] = <<>>
               \/ \E m : outbox'[c] = Append(outbox[c], m) /\ (m = Welcome => name'[c] # NoName),
               myConnection'[c] = myConnection[c]
        PROVE  Welcomed(c)'
    <3>1. ASSUME NEW m, m = Welcome => name'[c] # NoName, Has(Append(outbox[c], m), Welcomes)
          PROVE  name'[c] # NoName
      BY <2>1, <3>1, HasAppend DEF Welcomed, Welcomes
    <3>2. Has(outbox'[c], Welcomes) => name'[c] # NoName
      <4>1. CASE outbox'[c] = outbox[c]
        BY <2>1, <4>1, Zenon DEF Welcomed
      <4>2. CASE outbox'[c] = <<>>
        BY <4>2, HasEmpty, Zenon
      <4>. QED  BY <2>2, <3>1, <4>1, <4>2, Zenon
    <3>. QED  BY <2>1, <2>2, <3>2 DEF Welcomed
  <2>3. ASSUME NEW d \in Conns, ServerReads(d) PROVE Welcomed(c)'
    BY <2>1, <2>2, <2>3, <1>WelcomeSent, ZenonT(40) DEF ServerReads
  <2>4. ASSUME NEW d \in Conns, ClientReads(d) PROVE Welcomed(c)'
    <3>1. /\ outbox[d] \in Seq(Message) /\ outbox[d] # <<>>
          /\ outbox'[d] = Tail(outbox[d]) /\ (c # d => outbox'[c] = outbox[c])
      BY <2>1, <2>4, QueueTypes, ZenonT(40) DEF ClientReads, Receive, TypeOK
    <3>2. Head(outbox[d]) \in Message
      BY <3>1
    <3>3. /\ c # d => myConnection'[c] = myConnection[c]
          /\ myConnection'[d] = myConnection[d] \/ Head(outbox[d]) = Welcome
      BY <2>1, <2>4, <3>2, WelcomeOnly, ZenonT(40)
         DEF ClientReads, onmessage, onLogin, onOffer, onAnswer, onCandidate, clientvars, Pages
    <3>4. CASE c # d
      BY <2>2, <3>1, <3>3, <3>4, Zenon
    <3>5. CASE c = d
      <4>1. Has(outbox[d], Welcomes) <=> Head(outbox[d]) \in Welcomes \/ Has(Tail(outbox[d]), Welcomes)
        BY <3>1, HasTail
      <4>2. Has(outbox'[c], Welcomes) => name[c] # NoName
        BY <3>1, <3>5, <4>1, ZenonT(40) DEF Welcomed
      <4>3. myConnection'[c] # 0 => name[c] # NoName
        BY <3>3, <3>5, <4>1 DEF Welcomed, Welcomes
      <4>. QED  BY <2>1, <4>2, <4>3, Zenon DEF Welcomed
    <3>. QED  BY <3>4, <3>5, Zenon
  <2>5. ASSUME NEW d \in Conns, Connection(d) PROVE Welcomed(c)'
    <3>1. Hello # Welcome /\ LeaveMsg # Welcome
      BY DEF Hello, LeaveMsg, Welcome, LoginReply
    <3>. QED  BY <2>1, <2>2, <2>5, <3>1, ConnectionQueues, ZenonT(40) DEF Connection, clientvars
  <2>6. ASSUME UNCHANGED <<outbox, myConnection>> PROVE Welcomed(c)'
    BY <2>2, <2>6, Zenon
  <2>7. ASSUME NEW d \in Conns, PageStep(d) PROVE UNCHANGED <<outbox, myConnection>>
    BY <2>7, ZenonT(40) DEF PageStep, vars, loginBtn, connectToOtherUsernameBtn, Callback, OfferCreated,
                AnswerCreated, DescriptionSet, CandidateAdded, onicecandidate
  <2>. QED  BY <2>3, <2>4, <2>5, <2>6, <2>7, ZenonT(40) DEF SysNext, sysvars, vars, clientvars

\* A callback works on its own connection and on the current one.
LEMMA CallbackElsewhere ==
  ASSUME Base, NEW d \in Conns, NEW g \in Peers, Callback(d, g) \/ onicecandidate(d, g),
         NEW e \in Conns, NEW h \in Peers, e # d \/ (h # g /\ h # myConnection[d])
  PROVE  peer'[e][h] = peer[e][h]
<1>1. Pages /\ g \in 1..MaxLogins /\ peer \in PeerMap
  BY DEF Base, Peers, Pages, PeerMap
<1>2. Done(d, g)[e][h] = peer[e][h]
  BY <1>1, DoneElsewhere, ZenonT(40)
<1>3. ASSUME NEW ops \in Seq(Operation), peer[d][g].ops # <<>>,
             peer' = Enqueue(Done(d, g), d, ops)
      PROVE  peer'[e][h] = peer[e][h]
  <2>1. Done(d, g) \in PeerMap
    BY <1>1, <1>3, DoneType DEF PeerMap
  <2>2. PICK P \in PeerMap : P = Done(d, g)
    BY <2>1, Zenon
  <2>3. e # d \/ h # myConnection[d]
    BY Zenon
  <2>4. Enqueue(P, d, ops)[e][h] = P[e][h]
    BY <2>3, EnqueueElsewhere, ZenonT(40)
  <2>. QED  BY <1>2, <1>3, <2>2, <2>4, Zenon
<1>4. CASE OfferCreated(d, g)
  <2>1. \/ peer' = Done(d, g)
        \/ peer' = Enqueue(Done(d, g), d, <<Op("setLocal", "offer", NoBlob)>>)
    BY <1>4 DEF OfferCreated
  <2>. QED  BY <1>2, <1>3, <1>4, <2>1, QueuedTypes, Zenon DEF OfferCreated, Running
<1>5. CASE AnswerCreated(d, g)
  <2>1. \/ peer' = Done(d, g)
        \/ peer' = Enqueue(Done(d, g), d, <<Op("setLocal", "answer", NoBlob)>>)
    BY <1>5 DEF AnswerCreated
  <2>. QED  BY <1>2, <1>3, <1>5, <2>1, QueuedTypes, ZenonT(40) DEF AnswerCreated, Running
<1>6. CASE DescriptionSet(d, g)
  BY <1>1, <1>6, DescriptionEffect, ZenonT(40)
<1>7. CASE CandidateAdded(d, g)
  BY <1>2, <1>7 DEF CandidateAdded
<1>8. CASE onicecandidate(d, g)
  BY <1>1, <1>8 DEF onicecandidate, PeerMap, Peers
<1>. QED  BY <1>4, <1>5, <1>6, <1>7, <1>8, Zenon DEF Callback

\* Connections are made one after the other.
LEMMA ConnectionsGrow ==
  ASSUME Base, [SysNext]_sysvars, NEW c \in Conns
  PROVE  /\ myConnection[c] \in Nat /\ myConnection'[c] \in Nat
         /\ myConnection'[c] >= myConnection[c]
<1>1. ASSUME NEW d \in Conns, ClientReads(d)
      PROVE  myConnection' = myConnection \/ myConnection' = [myConnection EXCEPT ![d] = @ + 1]
  BY <1>1, Zenon DEF ClientReads, onmessage, onLogin, onOffer, onAnswer, onCandidate, clientvars
<1>2. ASSUME NEW d \in Conns, PageStep(d) \/ ServerReads(d) \/ Connection(d)
      PROVE  myConnection' = myConnection
  BY <1>2, ZenonT(40) DEF PageStep, loginBtn, connectToOtherUsernameBtn, Callback, OfferCreated,
              AnswerCreated, DescriptionSet, CandidateAdded, onicecandidate, ServerReads,
              Connection, clientvars
<1>3. ASSUME UNCHANGED sysvars PROVE myConnection' = myConnection
  BY <1>3 DEF sysvars, clientvars
<1>4. Pages
  BY DEF Base
<1>. QED  BY <1>1, <1>2, <1>3, <1>4 DEF SysNext, Pages

\* Nothing is queued for a connection before it is made.
LEMMA UntouchedStep == \A c \in Conns :
    /\ Base /\ [SysNext]_sysvars /\ Untouched(c)
    => Untouched(c)'
\* A handler works on the current connection.
<1>HandlerElsewhere.
  ASSUME Base, NEW d \in Conns, NEW ops \in Seq(Operation), peer' = peer \/ OnPeer(d, ops),
         NEW e \in Conns, NEW h \in Peers, e # d \/ h # myConnection[d]
  PROVE  peer'[e][h] = peer[e][h]
  <2>. USE <1>HandlerElsewhere
  <2>1. peer \in PeerMap
    BY DEF Base, Pages, PeerMap
  <2>2. ASSUME peer' = Enqueue(peer, d, ops) PROVE peer'[e][h] = peer[e][h]
    BY <2>1, <2>2, EnqueueElsewhere, Zenon
  <2>. QED  BY <2>2, Zenon DEF OnPeer
\* What a page queues when it reads a message.
<1>ReadQueues.
  ASSUME Base, NEW d \in Conns, ClientReads(d)
  PROVE  \E ops \in Seq(Operation) : peer' = peer \/ OnPeer(d, ops)
  <2>. USE <1>ReadQueues
  <2>1. outbox[d] \in Seq(Message) /\ outbox[d] # <<>>
    BY DEF Base, TypeOK, ClientReads, Receive
  <2>2. PICK m \in Message : m = Head(outbox[d])
    BY <2>1
  <2>3. onmessage(d, m)
    BY <2>2 DEF ClientReads
  <2>4. CASE m.type = "offer" /\ onOffer(d, m.offer, m.name)
    <3>1. m.offer \in Payloads
      BY <2>4, RelayedFields
    <3>. QED  BY <2>4, <3>1, QueuedTypes, ZenonT(40) DEF onOffer
  <2>5. CASE m.type = "answer" /\ onAnswer(d, m.answer)
    <3>1. m.answer \in Payloads
      BY <2>5, RelayedFields
    <3>. QED  BY <2>5, <3>1, QueuedTypes, ZenonT(40) DEF onAnswer
  <2>6. CASE m.type = "candidate" /\ onCandidate(d, m.candidate)
    <3>1. m.candidate \in Payloads
      BY <2>6, RelayedFields
    <3>. QED  BY <2>6, <3>1, QueuedTypes DEF onCandidate
  <2>7. CASE peer' = peer
    <3>1. <<>> \in Seq(Operation)
      OBVIOUS
    <3>. QED  BY <2>7, <3>1, Zenon
  <2>. QED  BY <2>3, <2>4, <2>5, <2>6, <2>7, ZenonT(40) DEF onmessage, onLogin, clientvars
<1>. QED
  <2>. SUFFICES
    ASSUME Base, [SysNext]_sysvars, NEW c \in Conns, Untouched(c)
    PROVE  Untouched(c)'
    OBVIOUS
  <2>1. ASSUME NEW h \in Peers, h > myConnection[c] PROVE peer'[c][h] = peer[c][h]
    <3>1. /\ h # myConnection[c]
          /\ peer[c][h].ops = <<>> /\ ~ peer[c][h].local
      BY <2>1, ConnectionsGrow DEF Untouched, NewPeer, Peers
    <3>2. ASSUME NEW d \in Conns, ClientReads(d) PROVE peer'[c][h] = peer[c][h]
      BY <3>1, <3>2, <1>ReadQueues, <1>HandlerElsewhere, ZenonT(40)
    <3>3. ASSUME NEW d \in Conns, NEW n \in Names \union {NoName}, connectToOtherUsernameBtn(d, n)
          PROVE  peer'[c][h] = peer[c][h]
      <4>1. peer' = peer \/ OnPeer(d, <<Op("createOffer", "offer", NoBlob)>>)
        BY <3>3 DEF connectToOtherUsernameBtn, OnPeer
      <4>. QED  BY <3>1, <4>1, QueuedTypes, <1>HandlerElsewhere, ZenonT(40)
    <3>4. ASSUME NEW d \in Conns, NEW g \in Peers, Callback(d, g) \/ onicecandidate(d, g)
          PROVE  peer'[c][h] = peer[c][h]
      <4>1. peer[d][g].ops # <<>> \/ peer[d][g].local
        BY <3>4, Zenon DEF Callback, OfferCreated, AnswerCreated, DescriptionSet, CandidateAdded,
                    onicecandidate, Running
      <4>2. c # d \/ h # g
        BY <3>1, <4>1
      <4>. QED  BY <3>1, <3>4, <4>2, CallbackElsewhere, ZenonT(40)
    <3>5. ASSUME NEW d \in Conns, PageStep(d) PROVE peer'[c][h] = peer[c][h]
      <4>1. ASSUME NEW n \in Names, loginBtn(d, n) PROVE peer' = peer
        BY <4>1 DEF loginBtn
      <4>. QED  BY <3>3, <3>4, <3>5, <4>1, ZenonT(40) DEF PageStep
    <3>6. ASSUME NEW d \in Conns, ServerReads(d) \/ Connection(d) PROVE peer' = peer
      BY <3>6 DEF ServerReads, Connection, clientvars
    <3>. QED  BY <3>2, <3>5, <3>6, ZenonT(40) DEF SysNext, sysvars, clientvars
  <2>2. ASSUME NEW h \in Peers, h > myConnection'[c] PROVE peer'[c][h] = NewPeer
    <3>1. h > myConnection[c]
      BY <2>2, ConnectionsGrow DEF Peers
    <3>. QED  BY <2>1, <3>1, Zenon DEF Untouched
  <2>. QED  BY <2>2 DEF Untouched

-----------------------------------------------------------------------------
(* Nobody has left, and nobody has replaced a connection.                  *)

Settled == \A c \in Conns : status[c] \in {"new", "open"} /\ myConnection[c] <= 1

\* It has been so all along.
LEMMA SettledBefore ==
  ASSUME Base, [SysNext]_sysvars, Settled'
  PROVE  Settled
<1>. SUFFICES ASSUME NEW c \in Conns
              PROVE  status[c] \in {"new", "open"} /\ myConnection[c] <= 1
  BY DEF Settled
<1>1. status'[c] \in {"new", "open"} /\ myConnection'[c] <= 1
  BY DEF Settled
<1>2. TypeOK /\ [Next]_vars
  BY BaseStep DEF Base
<1>3. ASSUME NEW d \in Conns, OnConnection(d) PROVE status[c] \in {"new", "open"}
  BY <1>1, <1>2, <1>3, ZenonT(40) DEF OnConnection, TypeOK
<1>4. ASSUME NEW d \in Conns, OnClose(d) PROVE status[c] \in {"new", "open"}
  BY <1>1, <1>2, <1>4, ZenonT(40) DEF OnClose, TypeOK
<1>5. ASSUME NEW d \in Conns, NEW n \in Names, Login(d, n) PROVE status[c] \in {"new", "open"}
  BY <1>1, <1>5, Zenon DEF Login
<1>6. ASSUME Aloof PROVE status[c] \in {"new", "open"}
  BY <1>1, <1>6 DEF Aloof
<1>7. status[c] \in {"new", "open"}
  BY <1>2, <1>3, <1>4, <1>5, <1>6, StepKinds, ZenonT(40)
<1>. QED  BY <1>1, <1>7, ConnectionsGrow

\* While nobody leaves, names keep their owners.
LEMMA LeadsStays ==
  ASSUME Base, [SysNext]_sysvars, Settled', NEW c \in Conns, NEW n, Leads(c, n)
  PROVE  Leads(c, n)'
<1>1. TypeOK /\ [Next]_vars /\ n \in Names /\ users[n] = c
  BY BaseStep DEF Base, Leads
<1>2. ASSUME NEW d \in Conns, OnConnection(d) PROVE users'[n] = c
  BY <1>1, <1>2, Zenon DEF OnConnection
<1>3. ASSUME NEW d \in Conns, OnClose(d) PROVE FALSE
  BY <1>1, <1>3, Zenon DEF OnClose, Settled, TypeOK
<1>4. ASSUME NEW d \in Conns, NEW l \in Names, Login(d, l), users[l] = NoConn
      PROVE  users'[n] = c
  BY <1>1, <1>4, ServerAssumption, Zenon DEF Login, TypeOK
<1>5. ASSUME Aloof PROVE users'[n] = c
  BY <1>1, <1>5, Zenon DEF Aloof
<1>. QED  BY <1>1, <1>2, <1>3, <1>4, <1>5, StepKinds, ZenonT(40) DEF Leads

-----------------------------------------------------------------------------
(* Every step is one of the moves.                                         *)

Ground == /\ Base /\ 1 \in Peers
          /\ \A c \in Conns : Prepared(c) /\ Untouched(c) /\ Welcomed(c)

\* Every step is a move.
LEMMA Moves ==
  /\ Ground /\ [SysNext]_sysvars /\ Settled /\ Settled'
  => Move
\* The server reads.
<1>ServerMoves.
  ASSUME Ground, Settled, NEW d \in Conns, ServerReads(d)
  PROVE  PlainMove \/ \E r : RelayMove(d, r)
  <2>. USE <1>ServerMoves
  <2>1. /\ TypeOK /\ Wires /\ wire[d] \in Seq(Requests(d)) /\ wire[d] # <<>>
        /\ wire'[d] = Tail(wire[d]) /\ \A e \in Conns \ {d} : wire'[e] = wire[e]
    BY DEF Ground, Base, Wires, ServerReads
  <2>2. NoCall /\ \A e \in Conns : Kept(e) /\ connectedUser'[e] = connectedUser[e]
    BY DEF ServerReads, NoCall, Called, Kept, Queued, Conn
  <2>3. PICK r \in Requests(d) : r = Head(wire[d])
    BY <2>1
  <2>4. ASSUME r.type = "login", Login(d, r.name) PROVE PlainMove
    <3>1. LoginReply(FALSE) \in Message /\ LoginReply(TRUE) \in Message
      BY MessageTypes, Zenon
    <3>2. LoginReply(FALSE).type = "login" /\ LoginReply(TRUE).type = "login"
      BY DEF LoginReply
    <3>3. PICK m \in Message : m.type = "login" /\ sendTo(d, m)
      BY <2>4, <3>1, <3>2, ZenonT(40) DEF Login
    <3>4. m \in Plain /\ Head(wire[d]) \in Asks(d, {"login"}) /\ otherName' = otherName
      BY <2>3, <2>4, <3>3, Zenon DEF Plain, Asks, Login
    <3>5. ASSUME NEW e \in Conns
          PROVE  /\ Slight(outbox[e], outbox'[e], Plain)
                 /\ Slight(wire[e], wire'[e], Asks(e, {"login"}))
      <4>1. outbox'[e] = outbox[e] \/ outbox'[e] = Append(outbox[e], m)
        BY <2>1, <3>3, SendToOne, Zenon
      <4>. QED  BY <2>1, <3>4, <4>1, ZenonT(40) DEF Slight
    <3>. QED  BY <2>2, <3>4, <3>5 DEF PlainMove
  <2>5. ASSUME r.type # "login", NEW m \in Message, NEW link, Relay(d, r.name, m, link),
               \A c : Lookup(r.name) = c => Passed(d, r, m, c),
               link = IF r.type = "candidate" THEN otherName ELSE [otherName EXCEPT ![d] = r.name]
        PROVE  RelayMove(d, r)
    <3>1. r.name \in Names \union {NoName} /\ Lookup(r.name) \in Conns \union {NoConn}
      BY <2>1, <2>3, LookupType, ZenonT(40) DEF Requests
    <3>2. CASE Lookup(r.name) = NoConn
      <4>1. otherName' = otherName /\ outbox' = outbox
        BY <2>5, <3>2, ZenonT(40) DEF Relay
      <4>. QED  BY <2>1, <2>2, <2>3, <2>5, <3>2, <4>1, ZenonT(40) DEF RelayMove
    <3>3. CASE Lookup(r.name) # NoConn
      <4>1. PICK c \in Conns : c = Lookup(r.name)
        BY <3>1, <3>3, ZenonT(40)
      <4>2. Leads(c, r.name)
        BY <3>1, <3>3, <4>1, ServerAssumption, ZenonT(40) DEF Lookup, Leads
      <4>3. status[c] = "open"
        BY <4>2 DEF Ground, Prepared, Unentered, Settled, Leads
      <4>4. otherName' = link /\ sendTo(c, m)
        BY <2>5, <3>3, <4>1, ZenonT(40) DEF Relay
      <4>5. /\ outbox'[c] = Append(outbox[c], m)
            /\ \A e \in Conns \ {c} : outbox'[e] = outbox[e]
        BY <2>1, <4>3, <4>4, ZenonT(40) DEF sendTo, TypeOK
      <4>6. /\ otherName'[d] = IF r.type = "candidate" THEN otherName[d] ELSE r.name
            /\ \A e \in Conns \ {d} : otherName'[e] = otherName[e]
        BY <2>1, <2>5, <4>4, ZenonT(40) DEF TypeOK
      <4>7. Passed(d, r, m, c)
        BY <2>5, <4>1
      <4>. QED  BY <2>1, <2>2, <2>3, <2>5, <4>2, <4>5, <4>6, <4>7, ZenonT(40) DEF RelayMove
    <3>. QED  BY <3>2, <3>3
  <2>6. ASSUME r.type # "login"
        PROVE  /\ name[d] \in Names \union {NoName} /\ r.blob \in Payloads
               /\ OfferMsg(r.blob, name[d]) \in Message /\ AnswerMsg(r.blob) \in Message
               /\ CandidateMsg(r.blob) \in Message
    <3>1. name[d] \in Names \union {NoName} /\ r.blob \in Payloads
      BY <2>1, <2>3, <2>6, ZenonT(40) DEF TypeOK, Requests
    <3>. QED  BY <3>1, MessageTypes, ZenonT(40)
  <2>7. ASSUME r.type = "offer", Offer(d, r.name, r.blob) PROVE RelayMove(d, r)
    <3>1. PICK m \in Message : m = OfferMsg(r.blob, name[d])
      BY <2>6, <2>7, Zenon
    <3>2. m.type = r.type /\ m.offer = r.blob /\ m.name = name[d]
      BY <2>7, <3>1 DEF OfferMsg
    <3>3. Relay(d, r.name, m, [otherName EXCEPT ![d] = r.name])
      BY <2>7, <3>1, ZenonT(40) DEF Offer
    <3>4. \A c : Lookup(r.name) = c => Passed(d, r, m, c)
      BY <2>7, <3>2 DEF Passed
    <3>. QED  BY <2>5, <2>7, <3>3, <3>4, Zenon
  <2>8. ASSUME r.type = "answer", Answer(d, r.name, r.blob) PROVE RelayMove(d, r)
    <3>1. PICK m \in Message : m = AnswerMsg(r.blob)
      BY <2>6, <2>8
    <3>2. m.type = r.type /\ m.answer = r.blob
      BY <2>8, <3>1 DEF AnswerMsg
    <3>3. Relay(d, r.name, m, [otherName EXCEPT ![d] = r.name])
      BY <2>8, <3>1, Zenon DEF Answer
    <3>4. \A c : Lookup(r.name) = c => Passed(d, r, m, c)
      BY <2>8, <3>2, ZenonT(40) DEF Passed
    <3>. QED  BY <2>5, <2>8, <3>3, <3>4, ZenonT(40)
  <2>9. ASSUME r.type = "candidate", Candidate(d, r.name, r.blob) PROVE RelayMove(d, r)
    <3>1. PICK m \in Message : m = CandidateMsg(r.blob)
      BY <2>6, <2>9, ZenonT(40)
    <3>2. m.type = r.type /\ m.candidate = r.blob
      BY <2>9, <3>1 DEF CandidateMsg
    <3>3. Relay(d, r.name, m, otherName)
      BY <2>9, <3>1, ZenonT(40) DEF Candidate
    <3>4. \A c : Lookup(r.name) = c => Passed(d, r, m, c)
      BY <2>9, <3>2, ZenonT(40) DEF Passed
    <3>. QED  BY <2>5, <2>9, <3>3, <3>4, ZenonT(40)
  <2>. QED  BY <2>3, <2>4, <2>7, <2>8, <2>9, ZenonT(40) DEF ServerReads, Handle
\* The type of a first connection.
<1>ConnType.
  ASSUME Ground, NEW c \in Conns
  PROVE  Conn(c) \in Peer /\ Conn(c).ops \in Seq(Operation) /\ peer \in PeerMap
  <2>. USE <1>ConnType
  <2>1. Conn(c) \in Peer /\ peer \in PeerMap
    BY ZenonT(40) DEF Ground, Base, Pages, Conn, Peers, PeerMap
  <2>. QED  BY <2>1 DEF Peer
\* A handler queues operations on the first connection.
<1>QueuedOnFirst.
  ASSUME Ground, NEW d \in Conns, myConnection[d] = 1, NEW ops \in Seq(Operation),
         NEW P \in PeerMap, peer' = Enqueue(P, d, ops), NEW O, O = P[d][1].ops \o ops,
         \A e \in Conns : /\ P[e][1].state = Conn(e).state /\ P[e][1].local = Conn(e).local
                          /\ P[e][1].remote = Conn(e).remote
                          /\ e # d => P[e][1].ops = Conn(e).ops
  PROVE  Queued(d, O) /\ \A e \in Conns \ {d} : Kept(e)
  <2>. USE <1>QueuedOnFirst
  <2>1. 1 \in Peers
    BY DEF Ground
  <2>2. Queued(d, O)
    <3>1. /\ Enqueue(P, d, ops)[d][1].state = P[d][1].state
          /\ Enqueue(P, d, ops)[d][1].local = P[d][1].local
          /\ Enqueue(P, d, ops)[d][1].remote = P[d][1].remote
          /\ Enqueue(P, d, ops)[d][1].ops = P[d][1].ops \o ops
      <4>1. Enqueue(P, d, ops)[d][1].state = P[d][1].state
        BY <2>1, EnqueueKeeps, Zenon
      <4>2. Enqueue(P, d, ops)[d][1].local = P[d][1].local
        BY <2>1, EnqueueHere, Zenon
      <4>3. Enqueue(P, d, ops)[d][1].remote = P[d][1].remote
        BY <2>1, EnqueueKeeps, Zenon
      <4>4. Enqueue(P, d, ops)[d][1].ops = P[d][1].ops \o ops
        BY <2>1, EnqueueHere, Zenon
      <4>. QED  BY <4>1, <4>2, <4>3, <4>4, Zenon
    <3>. QED  BY <3>1, ZenonT(40) DEF Queued, Conn
  <2>3. ASSUME NEW e \in Conns, e # d PROVE Kept(e)
    <3>1. Enqueue(P, d, ops)[e][1] = P[e][1]
      BY <2>1, <2>3, EnqueueElsewhere, ZenonT(40)
    <3>. QED  BY <2>3, <3>1, ZenonT(40) DEF Kept, Queued, Conn
  <2>. QED  BY <2>2, <2>3, ZenonT(40)
\* Queueing one operation, or two.
<1>Queueing.
  ASSUME NEW T, NEW q \in Seq(T), NEW x, NEW y
  PROVE  q \o <<x>> = Append(q, x) /\ q \o <<x, y>> = Append(Append(q, x), y)
  BY <1>Queueing
\* The page reads.
<1>ReadMoves.
  ASSUME Ground, Settled, NEW d \in Conns, ClientReads(d)
  PROVE  PlainMove \/ \E m : ReadMove(d, m)
  <2>. USE <1>ReadMoves
  <2>1. /\ TypeOK /\ Pages /\ outbox[d] \in Seq(Message) /\ outbox[d] # <<>>
        /\ outbox'[d] = Tail(outbox[d]) /\ \A e \in Conns \ {d} : outbox'[e] = outbox[e]
        /\ \A e \in Conns : otherName'[e] = otherName[e]
    BY DEF Ground, Base, TypeOK, ClientReads, Receive
  <2>2. PICK m \in Message : m = Head(outbox[d])
    BY <2>1
  <2>3. onmessage(d, m)
    BY <2>2, Zenon DEF ClientReads
  <2>4. NoCall /\ \A e \in Conns : wire'[e] = wire[e]
    BY <2>3, Zenon DEF NoCall, Called, onmessage, onLogin, onOffer, onAnswer, onCandidate, clientvars
  <2>5. ASSUME m.type \in {"hello", "login", "leave", "error"}, peer' = peer,
               connectedUser' = connectedUser
        PROVE  PlainMove
    <3>1. Head(outbox[d]) \in Plain
      BY <2>2, <2>5 DEF Plain
    <3>2. ASSUME NEW e \in Conns
          PROVE  /\ Slight(outbox[e], outbox'[e], Plain)
                 /\ Slight(wire[e], wire'[e], Asks(e, {"login"}))
      BY <2>1, <2>4, <3>1, ZenonT(40) DEF Slight
    <3>. QED  BY <2>1, <2>4, <2>5, <3>2, ZenonT(40) DEF PlainMove, Kept, Queued, Conn
  <2>6. ASSUME m.type \in Relayed PROVE myConnection[d] = 1
    <3>1. 1 \in 1..Len(outbox[d]) /\ Head(outbox[d]) = outbox[d][1]
      BY <2>1
    <3>2. Granted(d, 1)
      BY <2>2, <2>6, <3>1, ZenonT(40) DEF Ground, Prepared, Behind
    <3>3. myConnection[d] # 0 /\ myConnection[d] <= 1 /\ myConnection[d] \in Nat
      BY <2>1, <3>2 DEF Granted, Settled, Pages
    <3>. QED  BY <3>3
  <2>7. ASSUME m.type \in Relayed, NEW ops \in Seq(Operation), OnPeer(d, ops)
        PROVE  Queued(d, Conn(d).ops \o ops) /\ \A e \in Conns \ {d} : Kept(e)
    <3>1. peer \in PeerMap /\ peer' = Enqueue(peer, d, ops)
      BY <2>1, <2>6, <2>7 DEF Pages, PeerMap, OnPeer
    <3>. QED  BY <2>6, <2>7, <3>1, <1>QueuedOnFirst, ZenonT(40) DEF Conn
  <2>8. Conn(d).ops \in Seq(Operation)
    BY <1>ConnType
  <2>9. ASSUME m.type = "offer", onOffer(d, m.offer, m.name) PROVE ReadMove(d, m)
    <3>1. m.offer \in Payloads
      BY <2>9, RelayedFields
    <3>2. PICK o, a : o = Op("setRemote", "offer", m.offer) /\ a = Op("createAnswer", "answer", NoBlob)
      OBVIOUS
    <3>3. o \in OpsBy("setRemote", "offer", m.offer.from) /\ a \in Ops("createAnswer", "answer")
      BY <3>1, <3>2 DEF OpsBy, Ops, Op, Operation
    <3>4. OnPeer(d, <<o, a>>)
      BY <2>9, <3>2, ZenonT(40) DEF onOffer
    <3>5. <<o, a>> \in Seq(Operation)
      BY <3>3 DEF OpsBy, Ops
    <3>6. Queued(d, Conn(d).ops \o <<o, a>>) /\ \A e \in Conns \ {d} : Kept(e)
      BY <2>7, <2>9, <3>4, <3>5, ZenonT(40) DEF Relayed
    <3>7. Conn(d).ops \o <<o, a>> = Append(Append(Conn(d).ops, o), a)
      BY <2>8, <1>Queueing
    <3>8. Queued(d, Append(Append(Conn(d).ops, o), a))
      BY <3>6, <3>7, ZenonT(40)
    <3>9. connectedUser'[d] = m.name /\ \A e \in Conns \ {d} : connectedUser'[e] = connectedUser[e]
      BY <2>1, <2>9 DEF onOffer, Pages
    <3>. QED  BY <2>1, <2>2, <2>4, <2>9, <3>3, <3>6, <3>8, <3>9, ZenonT(40) DEF ReadMove
  <2>10. ASSUME m.type = "answer", onAnswer(d, m.answer) PROVE ReadMove(d, m)
    <3>1. m.answer \in Payloads
      BY <2>10, RelayedFields
    <3>2. PICK o : o = Op("setRemote", "answer", m.answer)
      OBVIOUS
    <3>3. o \in OpsBy("setRemote", "answer", m.answer.from)
      BY <3>1, <3>2 DEF OpsBy, Ops, Op, Operation
    <3>4. OnPeer(d, <<o>>)
      BY <2>10, <3>2, ZenonT(40) DEF onAnswer
    <3>5. <<o>> \in Seq(Operation)
      BY <3>3 DEF OpsBy, Ops
    <3>6. Queued(d, Conn(d).ops \o <<o>>) /\ \A e \in Conns \ {d} : Kept(e)
      BY <2>7, <2>10, <3>4, <3>5, ZenonT(40) DEF Relayed
    <3>7. Conn(d).ops \o <<o>> = Append(Conn(d).ops, o)
      BY <2>8, <1>Queueing
    <3>8. Queued(d, Append(Conn(d).ops, o))
      BY <3>6, <3>7, ZenonT(40)
    <3>9. \A e \in Conns : connectedUser'[e] = connectedUser[e]
      BY <2>10 DEF onAnswer
    <3>. QED  BY <2>1, <2>2, <2>4, <2>10, <3>3, <3>6, <3>8, <3>9, ZenonT(40) DEF ReadMove
  <2>11. ASSUME m.type = "candidate", onCandidate(d, m.candidate) PROVE ReadMove(d, m)
    <3>1. m.candidate \in Payloads
      BY <2>11, RelayedFields
    <3>2. PICK o : o = Op("addIceCandidate", "candidate", m.candidate)
      OBVIOUS
    <3>3. o \in OpsBy("addIceCandidate", "candidate", m.candidate.from)
      BY <3>1, <3>2, Zenon DEF OpsBy, Ops, Op, Operation
    <3>4. OnPeer(d, <<o>>)
      BY <2>11, <3>2, ZenonT(40) DEF onCandidate
    <3>5. <<o>> \in Seq(Operation)
      BY <3>3 DEF OpsBy, Ops
    <3>6. Queued(d, Conn(d).ops \o <<o>>) /\ \A e \in Conns \ {d} : Kept(e)
      BY <2>7, <2>11, <3>4, <3>5, ZenonT(40) DEF Relayed
    <3>7. Conn(d).ops \o <<o>> = Append(Conn(d).ops, o)
      BY <2>8, <1>Queueing
    <3>8. Queued(d, Append(Conn(d).ops, o))
      BY <3>6, <3>7, Zenon
    <3>9. \A e \in Conns : connectedUser'[e] = connectedUser[e]
      BY <2>11, Zenon DEF onCandidate
    <3>. QED  BY <2>1, <2>2, <2>4, <2>11, <3>3, <3>6, <3>8, <3>9, ZenonT(40) DEF ReadMove
  <2>. QED  BY <2>3, <2>5, <2>9, <2>10, <2>11, ZenonT(40) DEF onmessage, onLogin, clientvars
\* A connection opens: one that closed would not be settled.
<1>ConnectionMoves.
  ASSUME Ground, Settled', NEW d \in Conns, Connection(d)
  PROVE  PlainMove
  <2>. USE <1>ConnectionMoves
  <2>1. TypeOK /\ Hello \in Plain
    BY MessageTypes DEF Ground, Base, Plain, Hello
  <2>2. OnConnection(d)
    <3>1. status'[d] \in {"new", "open"}
      BY DEF Settled
    <3>2. ~ Disconnect(d) /\ ~ OnClose(d)
      BY <2>1, <3>1, ZenonT(40) DEF Disconnect, OnClose, TypeOK
    <3>. QED  BY <3>2 DEF Connection
  <2>3. \A e \in Conns : \/ outbox'[e] = outbox[e]
                         \/ outbox'[e] = Append(outbox[e], Hello)
    BY <2>1, <2>2 DEF OnConnection, TypeOK
  <2>4. UNCHANGED clientvars /\ otherName' = otherName
    BY <2>2 DEF Connection, OnConnection
  <2>5. ASSUME NEW e \in Conns
        PROVE  /\ Slight(outbox[e], outbox'[e], Plain)
               /\ Slight(wire[e], wire'[e], Asks(e, {"login"}))
    BY <2>1, <2>3, <2>4, ZenonT(40) DEF Slight, clientvars
  <2>. QED  BY <2>4, <2>5, ZenonT(40) DEF PlainMove, NoCall, Called, Kept, Queued, Conn, clientvars
\* A page asks the server for something.
<1>RequestSent.
  ASSUME Ground, NEW d \in Conns, NEW type, NEW n, NEW p, send(d, type, n, p), Wires'
  PROVE  /\ \A e \in Conns \ {d} : wire'[e] = wire[e]
         /\ \E r \in Asks(d, {type}) :
              /\ wire'[d] = Append(wire[d], r)
              /\ connectedUser[d] # NoName \/ n = NoName => r.name = connectedUser[d]
  <2>. USE <1>RequestSent
  <2>1. /\ DOMAIN wire = Conns /\ wire[d] \in Seq(Requests(d)) /\ wire'[d] \in Seq(Requests(d))
    BY DEF Ground, Base, Wires
  <2>2. PICK r : r = Request(type, IF connectedUser[d] = NoName THEN n ELSE connectedUser[d], p)
    OBVIOUS
  <2>3. wire' = [wire EXCEPT ![d] = Append(wire[d], r)]
    BY <2>2, Zenon DEF send
  <2>4. wire'[d] = Append(wire[d], r) /\ \A e \in Conns \ {d} : wire'[e] = wire[e]
    BY <2>1, <2>3
  <2>5. r \in Requests(d)
    <3>1. Append(wire[d], r) \in Seq(Requests(d))
      BY <2>1, <2>4, Zenon
    <3>2. /\ Append(wire[d], r)[Len(wire[d]) + 1] = r
          /\ Len(Append(wire[d], r)) = Len(wire[d]) + 1
      BY <2>1
    <3>. QED  BY <2>1, <3>1, <3>2
  <2>6. r.type = type /\ (connectedUser[d] # NoName \/ n = NoName => r.name = connectedUser[d])
    BY <2>2 DEF Request
  <2>. QED  BY <2>4, <2>5, <2>6, ZenonT(40) DEF Asks
\* The user clicks.
<1>ClickMoves.
  ASSUME Ground, [SysNext]_sysvars, Settled, NEW d \in Conns, UNCHANGED vars
  PROVE  /\ \A n \in Names : loginBtn(d, n) => PlainMove
         /\ \A n \in Names \union {NoName} : connectToOtherUsernameBtn(d, n) => DialMove(d)
  <2>. USE <1>ClickMoves
  <2>1. /\ Pages /\ Clicks /\ Wires' /\ 1 \in Peers
        /\ \A e \in Conns : outbox'[e] = outbox[e] /\ otherName'[e] = otherName[e]
    BY BaseStep DEF Ground, Base, vars
  <2>2. ASSUME NEW n \in Names, loginBtn(d, n) PROVE PlainMove
    <3>1. /\ peer' = peer /\ connectedUser' = connectedUser /\ send(d, "login", n, NoBlob)
          /\ clicks' = [clicks EXCEPT ![d].login = @ + 1]
      BY <2>2 DEF loginBtn
    <3>2. NoCall
      BY <2>1, <3>1 DEF NoCall, Called, Clicks
    <3>3. PICK r \in Asks(d, {"login"}) : wire'[d] = Append(wire[d], r)
      BY <2>1, <3>1, <1>RequestSent, ZenonT(40)
    <3>4. \A e \in Conns \ {d} : wire'[e] = wire[e]
      BY <2>1, <3>1, <1>RequestSent
    <3>5. ASSUME NEW e \in Conns
          PROVE  /\ Slight(outbox[e], outbox'[e], Plain)
                 /\ Slight(wire[e], wire'[e], Asks(e, {"login"}))
      BY <2>1, <3>3, <3>4, ZenonT(40) DEF Slight
    <3>. QED  BY <2>1, <3>1, <3>2, <3>5, ZenonT(40) DEF PlainMove, Kept, Queued, Conn
  <2>3. ASSUME NEW n \in Names \union {NoName}, connectToOtherUsernameBtn(d, n) PROVE DialMove(d)
    <3>1. /\ wire' = wire /\ clicks' = [clicks EXCEPT ![d].dial = @ + 1]
          /\ peer' = peer \/
               (myConnection[d] # 0
                /\ peer' = Enqueue(peer, d, <<Op("createOffer", "offer", NoBlob)>>))
      BY <2>3 DEF connectToOtherUsernameBtn
    <3>2. clicks'[d].dial = clicks[d].dial + 1
      BY <2>1, <3>1 DEF Clicks
    <3>3. CASE peer' = peer
      BY <2>1, <3>1, <3>2, <3>3, ZenonT(40) DEF DialMove, Kept, Queued, Conn
    <3>4. ASSUME myConnection[d] # 0,
                 peer' = Enqueue(peer, d, <<Op("createOffer", "offer", NoBlob)>>)
          PROVE  DialMove(d)
      <4>1. myConnection[d] = 1 /\ peer \in PeerMap /\ Conn(d).ops \in Seq(Operation)
        BY <2>1, <3>4, <1>ConnType DEF Pages, Settled
      <4>2. PICK o : o = Op("createOffer", "offer", NoBlob)
        OBVIOUS
      <4>3. o \in Ops("createOffer", "offer")
        BY <4>2 DEF Ops, Op, Operation
      <4>4. peer' = Enqueue(peer, d, <<o>>)
        BY <3>4, <4>2, ZenonT(40)
      <4>5. <<o>> \in Seq(Operation)
        BY <4>3 DEF Ops
      <4>6. Queued(d, Conn(d).ops \o <<o>>) /\ \A e \in Conns \ {d} : Kept(e)
        BY <4>1, <4>4, <4>5, <1>QueuedOnFirst, ZenonT(40) DEF Conn
      <4>7. Conn(d).ops \o <<o>> = Append(Conn(d).ops, o)
        BY <4>1, <1>Queueing
      <4>8. Queued(d, Append(Conn(d).ops, o))
        BY <4>6, <4>7, Zenon
      <4>. QED  BY <2>1, <3>1, <3>2, <4>3, <4>6, <4>8, ZenonT(40) DEF DialMove
    <3>. QED  BY <3>1, <3>3, <3>4
  <2>. QED  BY <2>2, <2>3, ZenonT(40)
\* A description is set: only if that is illegal does it change nothing.
<1>DescriptionSure.
  ASSUME Ground, NEW d \in Conns, DescriptionSet(d, 1), NEW op, op = Head(Conn(d).ops)
  PROVE  SurelySet(op, Conn(d), Conn(d)')
  <2>. USE <1>DescriptionSure
  <2>. DEFINE l == Done(d, 1)[d][1]
  <2>1. /\ Conn(d).ops # <<>> /\ op.do \in {"setLocal", "setRemote"} /\ Pages
        /\ 1 \in Peers /\ 1 \in 1..MaxLogins
    BY DEF DescriptionSet, Running, Conn, Ground, Base, Peers
  <2>2. /\ l.state = Conn(d).state /\ l.local = Conn(d).local /\ l.remote = Conn(d).remote
    BY <2>1, DoneKeeps, Zenon DEF Conn
  <2>3. Done(d, 1) \in [Conns -> [1..MaxLogins -> Peer]]
    BY <2>1, DoneType, ZenonT(40) DEF Conn
  <2>4. CASE After(Conn(d), op) = {}
    <3>1. ASSUME NEW s \in SignallingStates PROVE <<Conn(d).state, op.do, op.type, s>> \notin Transitions
      BY <2>4, <3>1, ZenonT(40) DEF After
    <3>. QED  BY <3>1, Zenon DEF SurelySet, Transitions, SignallingStates
  <2>5. ASSUME NEW s \in After(Conn(d), op),
               peer' = [Done(d, 1) EXCEPT ![d][1] = Described(l, op, s)]
        PROVE  SurelySet(op, Conn(d), Conn(d)')
    <3>1. l \in Peer /\ Conn(d)' = Described(l, op, s)
      BY <2>1, <2>3, <2>5, ZenonT(40) DEF Conn
    <3>2. <<Conn(d).state, op.do, op.type, s>> \in Transitions
      BY <2>5, Zenon DEF After
    <3>3. CASE op.do = "setLocal"
      <4>1. Described(l, op, s) = [l EXCEPT !.state = s, !.local = TRUE]
        BY <3>3 DEF Described
      <4>2. Conn(d)'.state = s /\ Conn(d)'.remote = l.remote
        BY <3>1, <4>1, ZenonT(40) DEF Peer
      <4>. QED  BY <2>2, <3>2, <3>3, <4>2, ZenonT(40) DEF SurelySet, Transitions
    <3>4. CASE op.do = "setRemote" /\ op.type = "offer" /\ s # "have-remote-offer"
      BY <3>2, <3>4, Zenon DEF SurelySet, Transitions
    <3>5. CASE op.do = "setRemote" /\ ~ (op.type = "offer" /\ s # "have-remote-offer")
      <4>1. Described(l, op, s) = [l EXCEPT !.state = s, !.remote = op.blob.from]
        BY <3>5 DEF Described
      <4>2. Conn(d)'.state = s /\ Conn(d)'.remote = op.blob.from
        BY <3>1, <4>1, ZenonT(40) DEF Peer
      <4>. QED  BY <3>2, <3>5, <4>2, ZenonT(40) DEF SurelySet, Transitions
    <3>. QED  BY <2>1, <3>3, <3>4, <3>5, ZenonT(40)
  <2>6. \/ After(Conn(d), op) = {}
        \/ \E s \in After(Conn(d), op) : peer' = [Done(d, 1) EXCEPT ![d][1] = Described(l, op, s)]
    BY Zenon DEF DescriptionSet, Conn
  <2>. QED  BY <2>4, <2>5, <2>6, ZenonT(40)
\* A connection finishes its operation, or gathers a candidate.
<1>CallbackMoves.
  ASSUME Ground, [SysNext]_sysvars, Settled, NEW d \in Conns, UNCHANGED vars, NEW g \in Peers,
         Callback(d, g) \/ onicecandidate(d, g)
  PROVE  GatherMove(d) \/ \E op : RunMove(d, op)
  <2>. USE <1>CallbackMoves
  <2>1. /\ Base /\ Pages /\ Wires' /\ 1 \in Peers /\ 1 \in 1..MaxLogins
        /\ \A e \in Conns : outbox'[e] = outbox[e] /\ otherName'[e] = otherName[e]
    BY BaseStep, ZenonT(40) DEF Ground, Base, vars, Peers
  <2>2. /\ peer[d][g].ops # <<>> \/ peer[d][g].local
        /\ connectedUser' = connectedUser /\ clicks' = clicks
    BY Zenon DEF Callback, OfferCreated, AnswerCreated, DescriptionSet, CandidateAdded,
           onicecandidate, Running
  <2>3. g = 1 /\ myConnection[d] = 1
    <3>1. peer[d][g] # NewPeer
      BY <2>2 DEF NewPeer
    <3>2. myConnection[d] \in Nat /\ myConnection[d] <= 1 /\ g \in Nat /\ g >= 1
      BY <2>1 DEF Pages, Settled, Peers
    <3>3. ~ (g > myConnection[d])
      BY <3>1 DEF Ground, Untouched
    <3>. QED  BY <3>2, <3>3
  <2>4. NoCall /\ \A e \in Conns : connectedUser'[e] = connectedUser[e]
    BY <2>2, Zenon DEF NoCall, Called
  <2>5. ASSUME NEW e \in Conns, e # d PROVE Kept(e)
    <3>1. peer'[e][1] = peer[e][1]
      BY <2>1, <2>5, CallbackElsewhere, ZenonT(40)
    <3>. QED  BY <3>1, Zenon DEF Kept, Queued, Conn
  <2>6. PICK op : op = Head(Conn(d).ops)
    OBVIOUS
  <2>7. Done(d, 1)[d][1].ops = Tail(Conn(d).ops)
    BY <2>1, DoneHere, ZenonT(40) DEF Conn
  <2>8. ASSUME peer' = Done(d, 1) PROVE Queued(d, Tail(Conn(d).ops))
    <3>1. Done(d, 1)[d][1].state = peer[d][1].state
      BY <2>1, DoneKeeps, ZenonT(40)
    <3>2. Done(d, 1)[d][1].local = peer[d][1].local
      BY <2>1, DoneKeeps, Zenon
    <3>3. Done(d, 1)[d][1].remote = peer[d][1].remote
      BY <2>1, DoneKeeps, Zenon
    <3>. QED  BY <2>7, <2>8, <3>1, <3>2, <3>3, ZenonT(40) DEF Queued, Conn
  <2>9. ASSUME Conn(d).ops # <<>>, NEW o \in Operation, peer' = Enqueue(Done(d, 1), d, <<o>>)
        PROVE  Queued(d, Append(Tail(Conn(d).ops), o))
    <3>1. Done(d, 1) \in PeerMap
      BY <2>1, <2>9, DoneType, Zenon DEF PeerMap, Conn
    <3>2. ASSUME NEW e \in Conns
          PROVE  /\ Done(d, 1)[e][1].state = Conn(e).state /\ Done(d, 1)[e][1].local = Conn(e).local
                 /\ Done(d, 1)[e][1].remote = Conn(e).remote
                 /\ e # d => Done(d, 1)[e][1].ops = Conn(e).ops
      <4>1. Done(d, 1)[e][1].state = peer[e][1].state
        BY <2>1, DoneKeeps, ZenonT(40)
      <4>2. Done(d, 1)[e][1].local = peer[e][1].local
        BY <2>1, DoneKeeps, ZenonT(40)
      <4>3. Done(d, 1)[e][1].remote = peer[e][1].remote
        BY <2>1, DoneKeeps, ZenonT(40)
      <4>4. e # d => Done(d, 1)[e][1] = peer[e][1]
        BY <2>1, DoneElsewhere, Zenon
      <4>. QED  BY <4>1, <4>2, <4>3, <4>4, Zenon DEF Conn
    <3>3. <<o>> \in Seq(Operation)
      OBVIOUS
    <3>4. Queued(d, Done(d, 1)[d][1].ops \o <<o>>)
      BY <2>3, <2>9, <3>1, <3>2, <3>3, <1>QueuedOnFirst, ZenonT(40)
    <3>5. Tail(Conn(d).ops) \in Seq(Operation)
      BY <2>9, <1>ConnType, SeqParts, ZenonT(40)
    <3>6. Tail(Conn(d).ops) \o <<o>> = Append(Tail(Conn(d).ops), o)
      BY <3>5, <1>Queueing, ZenonT(40)
    <3>. QED  BY <2>7, <3>4, <3>6, Zenon
  <2>10. ASSUME NEW do, Running(d, g, do) PROVE Conn(d).ops # <<>> /\ op.do = do
    BY <2>3, <2>6, <2>10, ZenonT(40) DEF Running, Conn
  <2>11. CASE OfferCreated(d, g)
    <3>1. /\ Conn(d).ops # <<>> /\ op.do = "createOffer"
          /\ \/ /\ peer' = Done(d, 1) /\ wire' = wire /\ Conn(d).state = "have-remote-offer"
             \/ /\ peer' = Enqueue(Done(d, 1), d, <<Op("setLocal", "offer", NoBlob)>>)
                /\ send(d, "offer", NoName, [from |-> d, re |-> NoConn])
      BY <2>3, <2>10, <2>11, ZenonT(40) DEF OfferCreated, Conn
    <3>2. CASE peer' = Done(d, 1) /\ wire' = wire /\ Conn(d).state = "have-remote-offer"
      BY <2>1, <2>4, <2>5, <2>6, <2>8, <3>1, <3>2, ZenonT(40) DEF RunMove
    <3>3. CASE /\ peer' = Enqueue(Done(d, 1), d, <<Op("setLocal", "offer", NoBlob)>>)
               /\ send(d, "offer", NoName, [from |-> d, re |-> NoConn])
      <4>1. PICK o, p : o = Op("setLocal", "offer", NoBlob) /\ p = [from |-> d, re |-> NoConn]
        BY ZenonT(40)
      <4>2. o \in Ops("setLocal", "offer") /\ o \in Operation
        BY <4>1 DEF Ops, Op, Operation
      <4>3. peer' = Enqueue(Done(d, 1), d, <<o>>) /\ send(d, "offer", NoName, p)
        BY <3>3, <4>1, ZenonT(40)
      <4>4. Queued(d, Append(Tail(Conn(d).ops), o))
        BY <2>9, <3>1, <4>2, <4>3, ZenonT(40)
      <4>5. /\ \A e \in Conns \ {d} : wire'[e] = wire[e]
            /\ \E r \in Asks(d, {"offer"}) : wire'[d] = Append(wire[d], r)
        BY <2>1, <4>3, <1>RequestSent, ZenonT(40)
      <4>. QED  BY <2>1, <2>4, <2>5, <2>6, <3>1, <4>2, <4>4, <4>5, ZenonT(40) DEF RunMove
    <3>. QED  BY <3>1, <3>2, <3>3, ZenonT(40)
  <2>12. CASE AnswerCreated(d, g)
    <3>1. /\ Conn(d).ops # <<>> /\ op.do = "createAnswer"
          /\ \/ peer' = Done(d, 1) /\ wire' = wire
             \/ /\ peer' = Enqueue(Done(d, 1), d, <<Op("setLocal", "answer", NoBlob)>>)
                /\ send(d, "answer", NoName, [from |-> d, re |-> Conn(d).remote])
      BY <2>3, <2>10, <2>12, ZenonT(40) DEF AnswerCreated, Conn
    <3>2. CASE peer' = Done(d, 1) /\ wire' = wire
      BY <2>1, <2>4, <2>5, <2>6, <2>8, <3>1, <3>2, ZenonT(40) DEF RunMove
    <3>3. CASE /\ peer' = Enqueue(Done(d, 1), d, <<Op("setLocal", "answer", NoBlob)>>)
               /\ send(d, "answer", NoName, [from |-> d, re |-> Conn(d).remote])
      <4>1. PICK o, p : o = Op("setLocal", "answer", NoBlob) /\ p = [from |-> d, re |-> Conn(d).remote]
        BY ZenonT(40)
      <4>2. o \in Ops("setLocal", "answer") /\ o \in Operation
        BY <4>1 DEF Ops, Op, Operation
      <4>3. peer' = Enqueue(Done(d, 1), d, <<o>>) /\ send(d, "answer", NoName, p)
        BY <3>3, <4>1, ZenonT(40)
      <4>4. Queued(d, Append(Tail(Conn(d).ops), o))
        BY <2>9, <3>1, <4>2, <4>3, ZenonT(40)
      <4>5. /\ \A e \in Conns \ {d} : wire'[e] = wire[e]
            /\ \E r \in Asks(d, {"answer"}) : r.name = connectedUser[d] /\ wire'[d] = Append(wire[d], r)
        BY <2>1, <4>3, <1>RequestSent, ZenonT(40)
      <4>. QED  BY <2>1, <2>4, <2>5, <2>6, <3>1, <4>2, <4>4, <4>5, ZenonT(40) DEF RunMove
    <3>. QED  BY <3>1, <3>2, <3>3, ZenonT(40)
  <2>13. CASE DescriptionSet(d, g)
    <3>1. Conn(d).ops # <<>> /\ op.do \in {"setLocal", "setRemote"} /\ wire' = wire
      BY <2>10, <2>13 DEF DescriptionSet
    <3>2. Conn(d)'.ops = Tail(Conn(d).ops) /\ SetResult(Conn(d), op, Conn(d)')
      <4>1. /\ peer'[d][1].ops = Tail(peer[d][1].ops)
            /\ SetResult(peer[d][1], Head(peer[d][1].ops), peer'[d][1])
        BY <2>1, <2>3, <2>13, DescriptionEffect, ZenonT(40)
      <4>. QED  BY <2>6, <4>1, ZenonT(40) DEF Conn
    <3>3. SurelySet(op, Conn(d), Conn(d)')
      BY <2>3, <2>6, <2>13, <1>DescriptionSure, ZenonT(40)
    <3>. QED  BY <2>1, <2>4, <2>5, <2>6, <3>1, <3>2, <3>3, ZenonT(40) DEF RunMove
  <2>14. CASE CandidateAdded(d, g)
    <3>1. /\ Conn(d).ops # <<>> /\ op.do = "addIceCandidate" /\ wire' = wire
          /\ peer' = Done(d, 1)
      BY <2>3, <2>10, <2>14 DEF CandidateAdded
    <3>. QED  BY <2>1, <2>4, <2>5, <2>6, <2>8, <3>1, ZenonT(40) DEF RunMove
  <2>15. CASE onicecandidate(d, g)
    <3>1. /\ Conn(d).local /\ peer' = [peer EXCEPT ![d][1].cands = @ + 1]
          /\ send(d, "candidate", NoName, [from |-> d, re |-> NoConn])
      BY <2>3, <2>15 DEF onicecandidate, Conn
    <3>2. PICK p : p = [from |-> d, re |-> NoConn]
      BY Zenon
    <3>3. send(d, "candidate", NoName, p)
      BY <3>1, <3>2, Zenon
    <3>4. /\ \A e \in Conns \ {d} : wire'[e] = wire[e]
          /\ \E r \in Asks(d, {"candidate"}) : wire'[d] = Append(wire[d], r)
      BY <2>1, <3>3, <1>RequestSent, Zenon
    <3>5. Kept(d)
      BY <2>1, <3>1, CandidateCounted, ZenonT(40) DEF Kept, Queued, Conn
    <3>. QED  BY <2>1, <2>4, <2>5, <3>1, <3>4, <3>5, ZenonT(40) DEF GatherMove
  <2>. QED  BY <2>11, <2>12, <2>13, <2>14, <2>15, ZenonT(40) DEF Callback
<1>. QED
  <2>. SUFFICES
    ASSUME Ground, [SysNext]_sysvars, Settled, Settled'
    PROVE  Move
    OBVIOUS
  <2>1. ASSUME NEW d \in Conns, PageStep(d)
        PROVE  PlainMove \/ DialMove(d) \/ GatherMove(d) \/ \E op : RunMove(d, op)
    <3>1. UNCHANGED vars
      BY <2>1 DEF PageStep
    <3>. QED  BY <2>1, <3>1, <1>ClickMoves, <1>CallbackMoves, ZenonT(40) DEF PageStep
  <2>2. ASSUME UNCHANGED sysvars PROVE PlainMove
    BY <2>2, ZenonT(40) DEF sysvars, vars, clientvars, PlainMove, NoCall, Called, Kept, Queued, Conn, Slight
  <2>. QED  BY <2>1, <2>2, <1>ServerMoves, <1>ReadMoves, <1>ConnectionMoves, ZenonT(40) DEF SysNext, Move

-----------------------------------------------------------------------------
(* The stages hold from the start, follow one another, and show that       *)
(* candidates are added in time.                                           *)

\* Nobody has called.
LEMMA StageInit == ASSUME SysInit, 1 \in Peers, NEW k \in Conns PROVE Stage(k)
<1>1. ASSUME NEW e \in Conns
      PROVE  /\ wire[e] = <<>> /\ outbox[e] = <<>> /\ otherName[e] = NoName
             /\ Conn(e) = NewPeer /\ clicks[e].dial = 0
  BY <1>1 DEF SysInit, Init, ClientInit, Conn
<1>2. \A S : <<>> \in Seq(S)
  OBVIOUS
<1>3. ASSUME NEW e \in Conns PROVE Quiet(e)
  <2>1. wire[e] \in Seq(LoginsOf(e)) /\ outbox[e] \in Seq(Plain)
    BY <1>1, <1>2, ZenonT(40)
  <2>. QED  BY <1>1, <2>1 DEF Quiet, Blank, NewPeer
<1>. QED  BY <1>1, <1>3 DEF Stage, Before, Idle, Called, Quiet

\* A user with a connection in use is found under their name.
LEMMA CallerNamed ==
  ASSUME Ground, Settled, NEW k \in Conns PROVE Named(k)
<1>. SUFFICES ASSUME Conn(k) # NewPeer PROVE Leads(k, name[k])
  BY DEF Named
<1>1. TypeOK /\ Fresh /\ RegistryExact /\ myConnection[k] \in Nat
  BY DEF Ground, Base, Pages
<1>2. ~ (1 > myConnection[k])
  BY DEF Ground, Untouched, Conn
<1>3. name[k] # NoName
  BY <1>1, <1>2 DEF Ground, Welcomed
<1>4. name[k] \in Names /\ status[k] \in {"new", "open"}
  BY <1>1, <1>3 DEF TypeOK, Settled
<1>5. users[name[k]] = k
  BY <1>1, <1>3, <1>4 DEF Fresh, RegistryExact
<1>. QED  BY <1>4, <1>5 DEF Leads

\* The only call is the first.
LEMMA FirstDial ==
  ASSUME Base, NEW k \in Conns, SoleCaller(k)' PROVE FirstCall(k)
<1>. SUFFICES ASSUME NEW d \in Conns, DialMove(d) PROVE d = k /\ ~ Called(k) /\ Called(k)'
  BY DEF FirstCall
<1>1. clicks[d].dial \in Nat /\ clicks'[d].dial = clicks[d].dial + 1
  BY DEF Base, Clicks, DialMove
<1>2. clicks'[d].dial <= IF d = k THEN 1 ELSE 0
  BY DEF SoleCaller
<1>. QED  BY <1>1, <1>2 DEF Called

\* The name in an answer of k leads to k, if to anyone.
LEMMA OwnAnswer ==
  ASSUME Base, NEW k \in Conns, SoleCaller(k), Traced(k) PROVE OwnAnswers(k)
<1>. SUFFICES ASSUME NEW r \in Requests(k), NEW c \in Conns, wire[k] # <<>>, r = Head(wire[k]),
                     r.type = "answer", Leads(c, r.name)
              PROVE  c = k
  BY DEF OwnAnswers
<1>1. wire[k] \in Seq(CallRequests(k, k))
  BY DEF Traced
<1>2. r \in CallRequests(k, k)
  BY <1>1
<1>3. Home(k, r.name) /\ r.name \in Names
  BY <1>2 DEF CallRequests, Leads
<1>4. Lookup(r.name) \in {k, NoConn}
  BY <1>3, HomeLeads
<1>. QED  BY <1>3, <1>4, ServerAssumption, ZenonT(40) DEF Lookup, Leads

\* Whatever a page or the server does, the call stays in its stage or enters the next,
\* as long as k alone has called and everything is settled.
LEMMA StageStep ==
  ASSUME Ground, [SysNext]_sysvars, NEW k \in Conns, SoleCaller(k), SoleCaller(k)', Traced(k),
         Settled => Stage(k), Settled'
  PROVE  Stage(k)'
<1>1. Settled /\ NamesStay
  BY SettledBefore, LeadsStays DEF Ground, NamesStay
<1>2. Move
  BY <1>1, Moves
<1>3. Named(k)
  BY <1>1, CallerNamed
<1>4. FirstCall(k) /\ OwnAnswers(k)
  <2>1. Base
    BY Zenon DEF Ground
  <2>2. FirstCall(k)
    BY <2>1, FirstDial
  <2>3. OwnAnswers(k)
    BY <2>1, OwnAnswer
  <2>. QED  BY <2>2, <2>3
<1>. QED  BY <1>1, <1>2, <1>3, <1>4, StageKept, Zenon

\* What the pages are like at first.
LEMMA GroundInit ==
  ASSUME SysInit, NEW c \in Conns PROVE Prepared(c) /\ Untouched(c) /\ Welcomed(c)
<1>1. /\ outbox[c] = <<>> /\ status[c] = "new" /\ myConnection[c] = 0
      /\ \A n \in Names : users[n] # c
      /\ \A g \in Peers : peer[c][g] = NewPeer
  BY ServerAssumption, Zenon DEF SysInit, Init, ClientInit
<1>2. Prepared(c) /\ Untouched(c)
  BY <1>1 DEF Prepared, Behind, Entered, Unentered, Untouched
<1>3. ~ Has(outbox[c], Welcomes)
  BY <1>1, HasEmpty, Zenon
<1>. QED  BY <1>1, <1>2, <1>3 DEF Welcomed

\* While one user has called, once, and no page has replaced its connection, every
\* candidate is added after the description it belongs to was set.
THEOREM CandidatesKept == SysSpec => []CandidateKept
<1>. DEFINE Common == Base /\ \A c \in Conns : Prepared(c) /\ Untouched(c) /\ Welcomed(c)
            Staged(k) == Traced(k) /\ (1 \in Peers /\ Settled => Stage(k))
            I == Common /\ \A k \in Conns : SoleCaller(k) => Staged(k)
<1>1. SysInit => I
  BY BaseInit, GroundInit, TracedInit, StageInit, Zenon
<1>2. I /\ [SysNext]_sysvars => I'
  <2>. SUFFICES ASSUME I, [SysNext]_sysvars PROVE I'
    OBVIOUS
  <2>1. Base' /\ Base
    BY BaseStep
  <2>2. \A c \in Conns : Prepared(c)'
    BY PreparedStep DEF Base
  <2>3. \A c \in Conns : Untouched(c)' /\ Welcomed(c)'
    BY UntouchedStep, WelcomedStep
  <2>4. ASSUME NEW k \in Conns, SoleCaller(k)' PROVE Staged(k)'
    <3>1. SoleCaller(k) /\ Traced(k) /\ (1 \in Peers /\ Settled => Stage(k))
      BY <2>4, SoleCallerBefore
    <3>2. Traced(k)'
      BY <2>4, <3>1, TracedStep
    <3>3. 1 \in Peers /\ Settled' => Stage(k)'
      BY <2>4, <3>1, StageStep, Zenon DEF Ground
    <3>. QED  BY <3>2, <3>3 DEF Peers
  <2>. QED  BY <2>1, <2>2, <2>3, <2>4, Zenon
<1>3. I => CandidateKept
  <2>. SUFFICES ASSUME I, NEW k \in Conns, SoleCaller(k), \A c \in Conns : myConnection[c] <= 1,
                       NEW c \in Conns, NEW g \in Peers, Running(c, g, "addIceCandidate"),
                       \A e \in Conns : status[e] \notin {"closing", "closed"},
                       NEW d, d = Head(peer[c][g].ops).blob.from
                PROVE  d = c \/ peer[c][g].remote = d \/ Lookup(otherName[d]) # c
    BY Zenon DEF CandidateKept, CandidateInTime
  <2>1. Settled
    <3>1. \A e \in Conns : status[e] \in {"new", "open", "closing", "closed"}
      BY DEF Base, TypeOK
    <3>. QED  BY <3>1, Zenon DEF Settled
  <2>2. g = 1
    <3>1. peer[c][g].ops # <<>> /\ NewPeer.ops = <<>>
      BY Zenon DEF Running, NewPeer
    <3>2. ~ (g > myConnection[c])
      BY <3>1, Zenon DEF Untouched
    <3>3. myConnection[c] \in Nat /\ g \in Nat /\ g >= 1
      BY DEF Base, Pages, Peers
    <3>. QED  BY <3>2, <3>3
  <2>3. Ground /\ Stage(k)
    BY <2>1, <2>2, Zenon DEF Ground
  <2>4. Conn(c).ops # <<>> /\ Head(Conn(c).ops).do = "addIceCandidate"
    BY <2>2, Zenon DEF Running, Conn
  <2>5. d = c \/ Conn(c).remote = d \/ Lookup(otherName[d]) # c
    BY <2>1, <2>2, <2>3, <2>4, StageInTime, Zenon DEF Conn
  <2>. QED  BY <2>2, <2>5, Zenon DEF Conn
<1>. QED  BY <1>1, <1>2, <1>3, PTL DEF SysSpec
=============================================================================
