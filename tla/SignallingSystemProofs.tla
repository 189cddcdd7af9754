----------------------- MODULE SignallingSystemProofs -----------------------
(***************************************************************************)
(* Proofs about SignallingSystem, for any sets of clients, names and blobs *)
(* and any bounds: the pages use the server as it is specified, so all     *)
(* that SignallingServerProofs shows holds with browsers around it; the    *)
(* pages, their connections and what they send stay well formed; no page   *)
(* is handed a call before it has made its RTCPeerConnection; and the      *)
(* server process ends only with a user whose partner has closed.          *)
(***************************************************************************)
EXTENDS PageTypes, SignallingServerProofs

-----------------------------------------------------------------------------
(* The types of the operations on peer connections.                        *)

\* The operations the handlers queue are operations.
LEMMA QueuedTypes ==
  /\ <<Op("createOffer", "offer", NoBlob)>> \in Seq(Operation)
  /\ <<Op("setLocal", "offer", NoBlob)>> \in Seq(Operation)
  /\ <<Op("setLocal", "answer", NoBlob)>> \in Seq(Operation)
  /\ \A p \in Payloads :
       /\ <<Op("setRemote", "offer", p), Op("createAnswer", "answer", NoBlob)>>
            \in Seq(Operation)
       /\ <<Op("setRemote", "answer", p)>> \in Seq(Operation)
       /\ <<Op("addIceCandidate", "candidate", p)>> \in Seq(Operation)
<1>1. ASSUME NEW S, NEW a \in S, NEW b \in S PROVE <<a>> \in Seq(S) /\ <<a, b>> \in Seq(S)
  OBVIOUS
<1>2. /\ Op("createOffer", "offer", NoBlob) \in Operation
      /\ Op("setLocal", "offer", NoBlob) \in Operation
      /\ Op("setLocal", "answer", NoBlob) \in Operation
      /\ Op("createAnswer", "answer", NoBlob) \in Operation
      /\ \A p \in Payloads : /\ Op("setRemote", "offer", p) \in Operation
                             /\ Op("setRemote", "answer", p) \in Operation
                             /\ Op("addIceCandidate", "candidate", p) \in Operation
  BY DEF Op, Operation
<1>. QED  BY <1>1, <1>2, Zenon

\* Taking the first operation off leaves the connections well typed.
LEMMA DoneType ==
  ASSUME Pages, NEW c \in Conns, NEW g \in 1..MaxLogins, peer[c][g].ops # <<>>
  PROVE  /\ Done(c, g) \in [Conns -> [1..MaxLogins -> Peer]]
         /\ Head(peer[c][g].ops) \in Operation
<1>1. peer[c][g] \in Peer
  BY Zenon DEF Pages
<1>2. peer[c][g].ops \in Seq(Operation)
  BY <1>1 DEF Peer
<1>3. Tail(peer[c][g].ops) \in Seq(Operation) /\ Head(peer[c][g].ops) \in Operation
  BY <1>2
<1>4. [peer[c][g] EXCEPT !.ops = Tail(peer[c][g].ops)] \in Peer
  BY <1>1, <1>3, Zenon DEF Peer
<1>. QED  BY <1>3, <1>4 DEF Done, Pages

\* What a relayed message carries.
LEMMA RelayedFields ==
  ASSUME NEW m \in Message
  PROVE  /\ m.type = "offer" => m.offer \in Payloads /\ m.name \in Names \union {NoName}
         /\ m.type = "answer" => m.answer \in Payloads
         /\ m.type = "candidate" => m.candidate \in Payloads
BY DEF Message

-----------------------------------------------------------------------------
(* The system's steps are steps of the server's specification.             *)

\* The server reads what it may be sent.
LEMMA ServerReadsStep ==
  ASSUME Wires, NEW c \in Conns, ServerReads(c)
  PROVE  OnMessage(c) /\ Wires'
<1>. DEFINE m == Head(wire[c])
<1>1. wire[c] \in Seq(Requests(c)) /\ wire[c] # <<>>
  BY DEF Wires, ServerReads
<1>2. m \in Requests(c) /\ Tail(wire[c]) \in Seq(Requests(c))
  BY <1>1
<1>3. m.type = "login" => m.name \in Names
  BY <1>2 DEF Requests
<1>4. m.type # "login" =>
        m.name \in Names \union {NoName} /\ m.blob \in Payloads /\ m.blob.from = c
  BY <1>2 DEF Requests
<1>5. Wires'
  BY <1>2 DEF Wires, ServerReads
<1>6. OnMessage(c)
  BY <1>3, <1>4, Zenon DEF ServerReads, Handle, OnMessage
<1>. QED  BY <1>5, <1>6

\* Every step of the system is a step of the server or leaves it alone.
LEMMA SysStepIsServerStep ==
  ASSUME Wires, [SysNext]_sysvars
  PROVE  [Next]_vars
<1>1. ASSUME NEW c \in Conns, ServerReads(c) PROVE Next
  BY <1>1, ServerReadsStep DEF Next
<1>2. ASSUME NEW c \in Conns, ClientReads(c) PROVE Next
  BY <1>2 DEF Next, ClientReads
<1>3. ASSUME NEW c \in Conns, PageStep(c) PROVE UNCHANGED vars
  BY <1>3 DEF PageStep
<1>4. ASSUME NEW c \in Conns, Connection(c) PROVE Next
  BY <1>4 DEF Next, Connection
<1>5. CASE UNCHANGED sysvars
  BY <1>5 DEF sysvars
<1>. QED  BY <1>1, <1>2, <1>3, <1>4, <1>5 DEF SysNext

\* The system keeps its types.
LEMMA SysTypeStep ==
  /\ TypeOK /\ Pages /\ Wires /\ [SysNext]_sysvars
  => TypeOK' /\ Pages' /\ Wires'
\* A blob made by a page is a payload, and every payload has a maker.
<1>BlobTypes.
  /\ \A c \in Conns, d \in Conns \union {NoConn} : [from |-> c, re |-> d] \in Payloads
  /\ \A p \in Payloads \union {NoBlob} : p.from \in Conns \union {NoConn}
  <2>1. \A c \in Conns, d \in Conns \union {NoConn} : [from |-> c, re |-> d] \in Payloads
    BY BlobsAssumption
  <2>2. \A p \in Payloads \union {NoBlob} : p.from \in Conns \union {NoConn}
    BY ServerAssumption DEF NoBlob
  <2>. QED  BY <2>1, <2>2
\* Queueing operations keeps the connections well typed, even where the bound on
\* logins has been passed (then there is no such connection and nothing changes).
<1>EnqueueType.
  ASSUME NEW peers \in [Conns -> [1..MaxLogins -> Peer]], NEW c \in Conns,
         NEW ops \in Seq(Operation)
  PROVE  Enqueue(peers, c, ops) \in [Conns -> [1..MaxLogins -> Peer]]
  <2>. USE <1>EnqueueType
  <2>. DEFINE g == myConnection[c]
  <2>1. CASE g \in 1..MaxLogins
    <3>1. peers[c][g] \in Peer
      BY <2>1, Zenon
    <3>2. peers[c][g].ops \o ops \in Seq(Operation)
      BY <3>1 DEF Peer
    <3>3. [peers[c][g] EXCEPT !.ops = peers[c][g].ops \o ops] \in Peer
      BY <3>1, <3>2, Zenon DEF Peer
    <3>. QED  BY <2>1, <3>3 DEF Enqueue
  <2>2. CASE g \notin 1..MaxLogins
    BY <2>2, Zenon DEF Enqueue
  <2>. QED  BY <2>1, <2>2
\* Sending keeps the messages to the server well formed, if the one sent is.
<1>SendType.
  ASSUME Pages, Wires, NEW c \in Conns, NEW type, NEW n, NEW p, send(c, type, n, p),
         \/ type = "login" /\ n \in Names /\ p = NoBlob
         \/ type \in {"offer", "answer", "candidate"} /\ n = NoName
            /\ p \in Payloads /\ p.from = c
  PROVE  Wires'
  <2>. USE <1>SendType
  <2>. DEFINE to == IF connectedUser[c] = NoName THEN n ELSE connectedUser[c]
  <2>1. to \in Names \union {NoName} /\ (type = "login" => to \in Names)
    BY DEF Pages
  <2>2. Request(type, to, p) \in Requests(c)
    BY <2>1 DEF Request, Requests
  <2>3. Append(wire[c], Request(type, to, p)) \in Seq(Requests(c))
    BY <2>2 DEF Wires
  <2>. QED  BY <2>3 DEF send, Wires
\* The buttons.
<1>ButtonStep.
  ASSUME Pages, Wires, NEW c \in Conns,
         \/ \E n \in Names : loginBtn(c, n)
         \/ \E n \in Names \union {NoName} : connectToOtherUsernameBtn(c, n)
  PROVE  Pages' /\ Wires'
  <2>. USE <1>ButtonStep
  <2>1. ASSUME NEW n \in Names, loginBtn(c, n) PROVE Pages' /\ Wires'
    <3>1. Wires'
      BY <2>1, <1>SendType DEF loginBtn
    <3>. QED  BY <2>1, <3>1 DEF loginBtn, Pages
  <2>2. ASSUME NEW n \in Names \union {NoName}, connectToOtherUsernameBtn(c, n)
        PROVE  Pages' /\ Wires'
    <3>1. <<Op("createOffer", "offer", NoBlob)>> \in Seq(Operation)
      BY QueuedTypes
    <3>2. peer' \in [Conns -> [1..MaxLogins -> Peer]]
      BY <2>2, <3>1, <1>EnqueueType, Zenon DEF connectToOtherUsernameBtn, Pages
    <3>. QED  BY <2>2, <3>2, Zenon DEF connectToOtherUsernameBtn, Pages, Wires
  <2>. QED  BY <2>1, <2>2
\* A message handler that queues operations keeps the connections' types.
<1>OnPeerType.
  ASSUME Pages, NEW c \in Conns, NEW ops \in Seq(Operation), OnPeer(c, ops)
  PROVE  peer' \in [Conns -> [1..MaxLogins -> Peer]]
  BY <1>OnPeerType, <1>EnqueueType, Zenon DEF OnPeer, Pages
\* connection.onmessage.
<1>OnMessageStep.
  ASSUME Pages, Wires, NEW c \in Conns, NEW m \in Message, onmessage(c, m)
  PROVE  Pages' /\ Wires'
  <2>. USE <1>OnMessageStep
  <2>1. CASE m.type = "login" /\ onLogin(c, m.success)
    BY <2>1 DEF onLogin, Pages, Wires
  <2>2. CASE m.type = "offer" /\ onOffer(c, m.offer, m.name)
    <3>1. <<Op("setRemote", "offer", m.offer), Op("createAnswer", "answer", NoBlob)>>
            \in Seq(Operation)
      BY <2>2, QueuedTypes, RelayedFields
    <3>2. peer' \in [Conns -> [1..MaxLogins -> Peer]]
      BY <2>2, <3>1, <1>OnPeerType, Zenon DEF onOffer
    <3>. QED  BY <2>2, <3>2, RelayedFields, Zenon DEF onOffer, Pages, Wires
  <2>3. CASE m.type = "answer" /\ onAnswer(c, m.answer)
    <3>1. <<Op("setRemote", "answer", m.answer)>> \in Seq(Operation)
      BY <2>3, QueuedTypes, RelayedFields
    <3>2. peer' \in [Conns -> [1..MaxLogins -> Peer]]
      BY <2>3, <3>1, <1>OnPeerType, Zenon DEF onAnswer
    <3>. QED  BY <2>3, <3>2 DEF onAnswer, Pages, Wires
  <2>4. CASE m.type = "candidate" /\ onCandidate(c, m.candidate)
    <3>1. <<Op("addIceCandidate", "candidate", m.candidate)>> \in Seq(Operation)
      BY <2>4, QueuedTypes, RelayedFields
    <3>2. peer' \in [Conns -> [1..MaxLogins -> Peer]]
      BY <2>4, <3>1, <1>OnPeerType, Zenon DEF onCandidate
    <3>. QED  BY <2>4, <3>2 DEF onCandidate, Pages, Wires
  <2>5. CASE UNCHANGED clientvars
    BY <2>5 DEF clientvars, Pages, Wires
  <2>. QED  BY <2>1, <2>2, <2>3, <2>4, <2>5 DEF onmessage
\* The callbacks of a peer connection.
<1>CallbackStep.
  ASSUME Pages, Wires, NEW c \in Conns, NEW g \in 1..MaxLogins,
         Callback(c, g) \/ onicecandidate(c, g)
  PROVE  Pages' /\ Wires'
  <2>. USE <1>CallbackStep
  <2>. DEFINE r == peer[c][g]
              PeerSets == [Conns -> [1..MaxLogins -> Peer]]
  <2>1. r \in Peer /\ r.remote \in Conns \union {NoConn}
    <3>1. r \in Peer
      BY Zenon DEF Pages
    <3>. QED  BY <3>1 DEF Peer
  <2>2. ASSUME r.ops # <<>>
        PROVE  Done(c, g) \in PeerSets /\ Head(r.ops) \in Operation
    BY <2>2, DoneType
  <2>3. CASE OfferCreated(c, g)
    <3>1. Done(c, g) \in PeerSets
      BY <2>2, <2>3 DEF OfferCreated, Running
    <3>2. <<Op("setLocal", "offer", NoBlob)>> \in Seq(Operation)
      BY QueuedTypes
    <3>3. Enqueue(Done(c, g), c, <<Op("setLocal", "offer", NoBlob)>>) \in PeerSets
      BY <3>1, <3>2, <1>EnqueueType, ZenonT(40)
    <3>4. Wires'
      <4>1. CASE UNCHANGED wire
        BY <4>1 DEF Wires
      <4>2. CASE send(c, "offer", NoName, [from |-> c, re |-> NoConn])
        BY <4>2, <1>BlobTypes, <1>SendType
      <4>. QED  BY <2>3, <4>1, <4>2 DEF OfferCreated
    <3>. QED  BY <2>3, <3>1, <3>3, <3>4, Zenon DEF OfferCreated, Pages
  <2>4. CASE AnswerCreated(c, g)
    <3>1. Done(c, g) \in PeerSets
      BY <2>2, <2>4, Zenon DEF AnswerCreated, Running
    <3>2. <<Op("setLocal", "answer", NoBlob)>> \in Seq(Operation)
      BY QueuedTypes
    <3>3. Enqueue(Done(c, g), c, <<Op("setLocal", "answer", NoBlob)>>) \in PeerSets
      BY <3>1, <3>2, <1>EnqueueType, Zenon
    <3>4. Wires'
      <4>1. CASE UNCHANGED wire
        BY <4>1 DEF Wires
      <4>2. CASE send(c, "answer", NoName, [from |-> c, re |-> r.remote])
        BY <2>1, <4>2, <1>BlobTypes, <1>SendType
      <4>. QED  BY <2>4, <4>1, <4>2 DEF AnswerCreated
    <3>. QED  BY <2>4, <3>1, <3>3, <3>4, Zenon DEF AnswerCreated, Pages
  <2>5. CASE DescriptionSet(c, g)
    <3>. DEFINE op == Head(r.ops)
                left == Done(c, g)
    <3>1. left \in PeerSets /\ op \in Operation /\ left[c][g] \in Peer
      BY <2>2, <2>5, Zenon DEF DescriptionSet, Running
    <3>2. After(r, op) \subseteq SignallingStates
      BY DEF After
    <3>3. op.blob.from \in Conns \union {NoConn}
      BY <3>1, <1>BlobTypes DEF Operation
    <3>4. ASSUME NEW s \in SignallingStates PROVE Described(left[c][g], op, s) \in Peer
      <4>. DEFINE l == left[c][g]
      <4>1. [l EXCEPT !.state = s, !.local = TRUE] \in Peer
        BY <3>1, <3>4, Zenon DEF Peer
      <4>2. [l EXCEPT !.state = s, !.remote = op.blob.from] \in Peer
        BY <3>1, <3>3, <3>4, Zenon DEF Peer
      <4>. QED  BY <3>1, <4>1, <4>2 DEF Described
    <3>5. ASSUME NEW s \in After(r, op)
          PROVE  [left EXCEPT ![c][g] = Described(left[c][g], op, s)] \in PeerSets
      BY <3>1, <3>2, <3>4
    <3>6. peer' \in PeerSets
      BY <2>5, <3>1, <3>5, Zenon DEF DescriptionSet
    <3>. QED  BY <2>5, <3>6 DEF DescriptionSet, Pages, Wires
  <2>6. CASE CandidateAdded(c, g)
    BY <2>2, <2>6 DEF CandidateAdded, Running, Pages, Wires
  <2>7. CASE onicecandidate(c, g)
    <3>1. [r EXCEPT !.cands = r.cands + 1] \in Peer
      <4>1. r.cands + 1 \in Nat
        BY <2>1 DEF Peer
      <4>. QED  BY <2>1, <4>1, Zenon DEF Peer
    <3>2. peer' \in PeerSets
      BY <2>7, <3>1 DEF onicecandidate, Pages
    <3>3. Wires'
      BY <2>7, <1>BlobTypes, <1>SendType DEF onicecandidate
    <3>. QED  BY <2>7, <3>2, <3>3 DEF onicecandidate, Pages
  <2>. QED
    BY <2>3, <2>4, <2>5, <2>6, <2>7 DEF Callback
\* The first message to a client is a message of the protocol.
<1>HeadType.
  ASSUME TypeOK, NEW c \in Conns, outbox[c] # <<>>
  PROVE  Head(outbox[c]) \in Message /\ Tail(outbox[c]) \in Seq(Message)
  <2>. USE <1>HeadType
  <2>1. outbox[c] \in Seq(Message)
    BY DEF TypeOK
  <2>. QED  BY <2>1
<1>. QED
  <2>. SUFFICES
    ASSUME TypeOK, Pages, Wires, [SysNext]_sysvars
    PROVE  TypeOK' /\ Pages' /\ Wires'
    OBVIOUS
  <2>1. TypeOK'
    BY SysStepIsServerStep, TypeStep
  <2>2. ASSUME NEW c \in Conns, ServerReads(c) PROVE Pages' /\ Wires'
    BY <2>2, ServerReadsStep, Zenon DEF ServerReads, Pages
  <2>3. ASSUME NEW c \in Conns, ClientReads(c) PROVE Pages' /\ Wires'
    BY <2>3, <1>HeadType, <1>OnMessageStep DEF ClientReads, Receive
  <2>4. ASSUME NEW c \in Conns, PageStep(c) PROVE Pages' /\ Wires'
    BY <2>4, <1>ButtonStep, <1>CallbackStep, Zenon DEF PageStep, Peers
  <2>5. ASSUME NEW c \in Conns, Connection(c) PROVE Pages' /\ Wires'
    BY <2>5 DEF Connection, clientvars, Pages, Wires
  <2>6. CASE UNCHANGED sysvars
    BY <2>1, <2>6 DEF sysvars, clientvars, Pages, Wires
  <2>. QED  BY <2>1, <2>2, <2>3, <2>4, <2>5, <2>6 DEF SysNext

\* The system starts with its types.
LEMMA SysTypeInit == SysInit => TypeOK /\ Pages /\ Wires
<1>. SUFFICES ASSUME SysInit PROVE TypeOK /\ Pages /\ Wires
  OBVIOUS
<1>1. TypeOK
  BY DEF SysInit, Init, TypeOK
<1>2. NewPeer \in Peer
  BY DEF NewPeer, Peer, SignallingStates
<1>3. Pages
  BY <1>2 DEF SysInit, ClientInit, Pages, Peers
<1>4. Wires
  BY DEF SysInit, ClientInit, Wires
<1>. QED  BY <1>1, <1>3, <1>4

\* The pages of client.js use the server as SignallingServer assumes: the server
\* among them is still the server specified, so what is proved of it holds here.
THEOREM ServerAsSpecified == SysSpec => ServerSpec
<1>1. SysInit => Init
  BY DEF SysInit
<1>. QED
  BY <1>1, SysTypeInit, SysTypeStep, SysStepIsServerStep, PTL DEF SysSpec, ServerSpec, Spec

\* With browsers around it, the directory of users is exact and the offers that
\* reach a page lead its answer back to their makers.
THEOREM SystemAuthentic == SysSpec => [](RegistryExact /\ OfferAuthentic)
BY ServerAsSpecified, RegistryCorrect, OffersAuthentic, PTL DEF ServerSpec

-----------------------------------------------------------------------------
(* PeerReady.  A page makes its connection when it reads the reply to its  *)
(* first successful login.  The invariant: a relayed message is queued     *)
(* behind that reply, unless the page has read it, because the server      *)
(* relays only to users in the directory and replies as it enters them.    *)

Relayed == {"offer", "answer", "candidate"}
Welcome == LoginReply(TRUE)

\* The page of c has its connection, or will have it before message i is read.
Granted(c, i) == \/ myConnection[c] # 0
                 \/ \E j \in 1..(i - 1) : outbox[c][j] = Welcome

Behind(c) == \A i \in 1..Len(outbox[c]) :
               outbox[c][i].type \in Relayed => Granted(c, i)
Entered(c) == status[c] = "open" /\ (\E n \in Names : users[n] = c)
                => Granted(c, Len(outbox[c]) + 1)
Unentered(c) == status[c] = "new" => \A n \in Names : users[n] # c

Prepared(c) == Behind(c) /\ Entered(c) /\ Unentered(c)

\* The effect of sendTo on one queue.
LEMMA SendToOne ==
  ASSUME TypeOK, NEW d \in Conns, NEW m \in Message, sendTo(d, m), NEW c \in Conns
  PROVE  \/ outbox'[c] = outbox[c]
         \/ c = d /\ status[c] = "open" /\ outbox'[c] = Append(outbox[c], m)
BY DEF TypeOK, sendTo

\* A request that is not a login is relayed as one message.
LEMMA RelayRead ==
  ASSUME TypeOK, NEW d \in Conns, ServerReads(d), Head(wire[d]) \in Requests(d),
         Head(wire[d]).type # "login"
  PROVE  \E m \in Message : /\ m.type \in Relayed
                            /\ \E link : Relay(d, Head(wire[d]).name, m, link)
<1>. DEFINE r == Head(wire[d])
<1>1. r.blob \in Payloads
  BY DEF Requests
<1>2. name[d] \in Names \union {NoName}
  BY DEF TypeOK
<1>3. /\ OfferMsg(r.blob, name[d]) \in Message /\ AnswerMsg(r.blob) \in Message
      /\ CandidateMsg(r.blob) \in Message
  BY <1>1, <1>2, MessageTypes
<1>4. /\ OfferMsg(r.blob, name[d]).type \in Relayed
      /\ AnswerMsg(r.blob).type \in Relayed /\ CandidateMsg(r.blob).type \in Relayed
  BY DEF OfferMsg, AnswerMsg, CandidateMsg, Relayed
<1>. QED
  BY <1>3, <1>4, Zenon DEF ServerReads, Handle, Offer, Answer, Candidate

\* No step of the system breaks the promise.
LEMMA PreparedStep ==
  /\ TypeOK /\ Pages /\ Wires /\ (\A c \in Conns : Prepared(c)) /\ [SysNext]_sysvars
  => \A c \in Conns : Prepared(c)'
\* A queue that is left alone keeps its promise, unless its owner is entered or
\* opened.
<1>PreparedKept.
  ASSUME NEW c \in Conns, Prepared(c),
         outbox'[c] = outbox[c], myConnection'[c] = myConnection[c],
         status'[c] = "open" => status[c] = "open",
         status'[c] = "new" => status[c] = "new",
         \A n \in Names : users'[n] = c => users[n] = c
  PROVE  Prepared(c)'
  BY <1>PreparedKept DEF Prepared, Behind, Entered, Unentered, Granted
\* One more message in the queue: if it is relayed, its receiver is in the
\* directory, and if it is the first entry of the receiver, it is the reply.
<1>PreparedAppend.
  ASSUME TypeOK, NEW c \in Conns, NEW m \in Message, Prepared(c),
         outbox'[c] = Append(outbox[c], m), myConnection'[c] = myConnection[c],
         m.type \in Relayed => status[c] = "open" /\ \E n \in Names : users[n] = c,
         status'[c] = "open",
         (\E n \in Names : users'[n] = c) =>
           \/ m = Welcome
           \/ status[c] = "open" /\ \E n \in Names : users[n] = c
  PROVE  Prepared(c)'
  <2>. USE <1>PreparedAppend
  <2>. DEFINE Later(i) == \/ myConnection'[c] # 0
                          \/ \E j \in 1..(i - 1) : outbox'[c][j] = Welcome
  <2>1. outbox[c] \in Seq(Message)
    BY DEF TypeOK
  <2>2. PICK k \in Nat : k = Len(outbox[c])
    BY <2>1
  <2>3. /\ Len(outbox'[c]) = k + 1 /\ outbox'[c][k + 1] = m
        /\ \A i \in 1..k : outbox'[c][i] = outbox[c][i]
    BY <2>1, <2>2
  <2>4. \A i \in 1..(k + 1) : Granted(c, i) => Later(i)
    BY <2>3 DEF Granted
  <2>5. Behind(c)'
    <3>. SUFFICES ASSUME NEW i \in 1..(k + 1), outbox'[c][i].type \in Relayed
                  PROVE  Later(i)
      BY <2>3, Zenon DEF Behind, Granted
    <3>1. CASE i \in 1..k
      BY <2>2, <2>3, <2>4, <3>1 DEF Prepared, Behind
    <3>2. CASE i = k + 1
      BY <2>2, <2>3, <2>4, <3>2 DEF Prepared, Entered
    <3>3. i \in 1..k \/ i = k + 1
      OBVIOUS
    <3>. QED  BY <3>1, <3>2, <3>3, Zenon
  <2>6. Entered(c)'
    <3>. SUFFICES ASSUME \E n \in Names : users'[n] = c
                  PROVE  myConnection'[c] # 0 \/ \E j \in 1..(k + 1) : outbox'[c][j] = Welcome
      BY <2>3 DEF Entered, Granted
    <3>1. CASE m = Welcome
      BY <2>3, <3>1
    <3>2. CASE status[c] = "open" /\ \E n \in Names : users[n] = c
      <4>1. myConnection'[c] # 0 \/ \E j \in 1..k : outbox'[c][j] = Welcome
        BY <2>2, <2>3, <3>2 DEF Prepared, Entered, Granted
      <4>2. \A j \in 1..k : j \in 1..(k + 1)
        OBVIOUS
      <4>. QED  BY <4>1, <4>2, Zenon
    <3>. QED  BY <3>1, <3>2, Zenon
  <2>7. Unentered(c)'
    BY DEF Unentered
  <2>. QED  BY <2>5, <2>6, <2>7 DEF Prepared
\* The page reads its first message: the reply makes its connection.
<1>PreparedRead.
  ASSUME TypeOK, Pages, NEW c \in Conns, Prepared(c), ClientReads(c)
  PROVE  Prepared(c)'
  <2>. USE <1>PreparedRead
  <2>1. outbox[c] \in Seq(Message) /\ outbox[c] # <<>> /\ outbox'[c] = Tail(outbox[c])
    BY DEF TypeOK, ClientReads, Receive
  <2>2. PICK k \in Nat : Len(outbox[c]) = k + 1
    <3>1. Len(outbox[c]) \in Nat /\ Len(outbox[c]) # 0
      BY <2>1
    <3>2. Len(outbox[c]) - 1 \in Nat /\ Len(outbox[c]) = (Len(outbox[c]) - 1) + 1
      BY <3>1
    <3>. QED  BY <3>2, Zenon
  <2>3. /\ Len(outbox'[c]) = k /\ Head(outbox[c]) = outbox[c][1]
        /\ \A i \in 1..k : outbox'[c][i] = outbox[c][i + 1]
    BY <2>1, <2>2
  <2>4. UNCHANGED <<status, users>>
    BY Zenon DEF ClientReads, Receive
  <2>5. myConnection[c] # 0 => myConnection'[c] # 0
    BY DEF ClientReads, onmessage, onLogin, onOffer, onAnswer, onCandidate, clientvars, Pages
  <2>6. outbox[c][1] = Welcome => myConnection'[c] # 0
    <3>. SUFFICES ASSUME Head(outbox[c]) = Welcome PROVE myConnection'[c] # 0
      BY <2>3
    <3>1. Head(outbox[c]).type = "login" /\ Head(outbox[c]).success = TRUE
      BY DEF Welcome, LoginReply
    <3>2. onLogin(c, Head(outbox[c]).success)
      BY <3>1 DEF ClientReads, onmessage
    <3>3. myConnection'[c] = myConnection[c] + 1
      BY <3>1, <3>2 DEF onLogin, Pages
    <3>. QED  BY <3>3 DEF Pages
  <2>7. ASSUME NEW i \in 1..(k + 1), Granted(c, i + 1)
        PROVE  myConnection'[c] # 0 \/ \E j \in 1..(i - 1) : outbox'[c][j] = Welcome
    <3>1. CASE myConnection[c] # 0
      BY <2>5, <3>1
    <3>2. ASSUME NEW j \in 1..i, outbox[c][j] = Welcome, j = 1
          PROVE  myConnection'[c] # 0
      BY <2>6, <3>2
    <3>3. ASSUME NEW j \in 1..i, outbox[c][j] = Welcome, j # 1
          PROVE  \E l \in 1..(i - 1) : outbox'[c][l] = Welcome
      <4>1. j - 1 \in 1..k /\ j - 1 \in 1..(i - 1) /\ (j - 1) + 1 = j
        BY <3>3
      <4>2. outbox'[c][j - 1] = Welcome
        BY <2>3, <3>3, <4>1
      <4>. QED  BY <4>1, <4>2
    <3>4. myConnection[c] # 0 \/ \E j \in 1..i : outbox[c][j] = Welcome
      BY <2>7 DEF Granted
    <3>. QED  BY <3>1, <3>2, <3>3, <3>4, Zenon
  <2>8. Behind(c)'
    <3>. SUFFICES ASSUME NEW i \in 1..k, outbox'[c][i].type \in Relayed
                  PROVE  myConnection'[c] # 0 \/ \E j \in 1..(i - 1) : outbox'[c][j] = Welcome
      BY <2>3 DEF Behind, Granted
    <3>1. i + 1 \in 1..Len(outbox[c]) /\ i \in 1..(k + 1)
      BY <2>2
    <3>2. Granted(c, i + 1)
      BY <2>3, <3>1 DEF Prepared, Behind
    <3>. QED  BY <2>7, <3>1, <3>2, ZenonT(40)
  <2>9. Entered(c)'
    <3>. SUFFICES ASSUME status[c] = "open", \E n \in Names : users[n] = c
                  PROVE  myConnection'[c] # 0 \/ \E j \in 1..k : outbox'[c][j] = Welcome
      BY <2>3, <2>4 DEF Entered, Granted
    <3>1. Granted(c, (k + 1) + 1)
      BY <2>2 DEF Prepared, Entered
    <3>2. k + 1 \in 1..(k + 1) /\ k = k + 1 - 1
      OBVIOUS
    <3>. QED  BY <2>7, <3>1, <3>2
  <2>10. Unentered(c)'
    BY <2>4, Zenon DEF Prepared, Unentered
  <2>. QED  BY <2>8, <2>9, <2>10 DEF Prepared
\* The server reads a request of some page.
<1>PreparedServer.
  ASSUME TypeOK, Wires, NEW d \in Conns, ServerReads(d), NEW c \in Conns, Prepared(c)
  PROVE  Prepared(c)'
  <2>. USE <1>PreparedServer
  <2>. DEFINE r == Head(wire[d])
  <2>1. wire[d] \in Seq(Requests(d)) /\ wire[d] # <<>>
    BY DEF Wires, ServerReads
  <2>2. r \in Requests(d)
    BY <2>1
  <2>3. myConnection'[c] = myConnection[c]
    BY DEF ServerReads
  <2>4. CASE r.type = "login" /\ Login(d, r.name)
    <3>1. r.name \in Names
      BY <2>2, <2>4 DEF Requests
    <3>2. status' = status /\ status[d] = "open" /\ (d = c => status[c] = "open")
      BY <2>4 DEF Login, Receiving
    <3>3. /\ LoginReply(FALSE) \in Message /\ LoginReply(FALSE).type \notin Relayed
          /\ LoginReply(TRUE) \in Message /\ LoginReply(TRUE).type \notin Relayed
      <4>1. LoginReply(FALSE) \in Message /\ LoginReply(TRUE) \in Message
        BY MessageTypes, Zenon
      <4>2. LoginReply(FALSE).type \notin Relayed /\ LoginReply(TRUE).type \notin Relayed
        BY DEF LoginReply, Relayed
      <4>. QED  BY <4>1, <4>2, Zenon
    <3>4. PICK m \in Message :
            /\ m.type \notin Relayed /\ sendTo(d, m)
            /\ \/ users' = users
               \/ m = Welcome /\ users' = [users EXCEPT ![r.name] = d]
      BY <2>4, <3>3, Zenon DEF Login, Welcome
    <3>5. CASE c # d
      <4>1. outbox'[c] = outbox[c]
        BY <3>4, <3>5, SendToOne
      <4>2. \A n \in Names : users'[n] = c => users[n] = c
        BY <3>4, <3>5, ZenonT(40) DEF TypeOK
      <4>. QED  BY <2>3, <3>2, <4>1, <4>2, <1>PreparedKept
    <3>6. CASE c = d
      <4>1. outbox'[c] = Append(outbox[c], m)
        BY <3>2, <3>4, <3>6 DEF sendTo, TypeOK
      <4>2. (\E n \in Names : users'[n] = c) =>
              \/ m = Welcome
              \/ status[c] = "open" /\ \E n \in Names : users[n] = c
        BY <3>2, <3>4, <3>6, Zenon
      <4>. QED  BY <2>3, <3>2, <3>4, <3>6, <4>1, <4>2, <1>PreparedAppend, Zenon
    <3>. QED  BY <3>5, <3>6
  <2>5. CASE r.type # "login"
    <3>1. r.name \in Names \union {NoName} /\ r.blob \in Payloads
      BY <2>2, <2>5 DEF Requests
    <3>2. PICK m \in Message : m.type \in Relayed /\ \E link : Relay(d, r.name, m, link)
      BY <2>2, <2>5, RelayRead
    <3>3. status' = status /\ users' = users
      BY <3>2 DEF Relay
    <3>4. CASE outbox'[c] = outbox[c]
      BY <2>3, <3>3, <3>4, <1>PreparedKept, ZenonT(40)
    <3>5. CASE outbox'[c] # outbox[c]
      <4>1. Lookup(r.name) # NoConn /\ sendTo(Lookup(r.name), m)
        BY <3>2, <3>5 DEF Relay
      <4>2. Lookup(r.name) \in Conns
        BY <3>1, <4>1, LookupType
      <4>3. c = Lookup(r.name) /\ status[c] = "open" /\ outbox'[c] = Append(outbox[c], m)
        BY <3>5, <4>1, <4>2, SendToOne, Zenon
      <4>4. \E n \in Names : users[n] = c
        BY <3>1, <4>1, <4>3, Zenon DEF Lookup
      <4>. QED  BY <2>3, <3>3, <4>3, <4>4, <1>PreparedAppend, ZenonT(40)
    <3>. QED  BY <3>4, <3>5
  <2>. QED  BY <2>4, <2>5 DEF ServerReads, Handle
\* Connections open and close.
<1>PreparedConnection.
  ASSUME TypeOK, NEW d \in Conns, Connection(d), NEW c \in Conns, Prepared(c)
  PROVE  Prepared(c)'
  <2>. USE <1>PreparedConnection
  <2>1. myConnection'[c] = myConnection[c]
    BY DEF Connection, clientvars
  <2>2. CASE OnConnection(d)
    <3>1. CASE c # d
      <4>1. outbox'[c] = outbox[c] /\ status'[c] = status[c] /\ users' = users
        BY <2>2, <3>1 DEF OnConnection, TypeOK
      <4>. QED  BY <2>1, <4>1, <1>PreparedKept
    <3>2. CASE c = d
      <4>1. outbox'[c] = Append(outbox[c], Hello) /\ status'[c] = "open" /\ users' = users
        BY <2>2, <3>2 DEF OnConnection, TypeOK
      <4>2. Hello \in Message /\ Hello.type \notin Relayed
        BY MessageTypes DEF Hello, Relayed
      <4>3. \A n \in Names : users[n] # c
        BY <2>2, <3>2, Zenon DEF OnConnection, Prepared, Unentered
      <4>. QED  BY <2>1, <4>1, <4>2, <4>3, <1>PreparedAppend
    <3>. QED  BY <3>1, <3>2
  <2>3. CASE Disconnect(d)
    <3>1. CASE c # d
      <4>1. outbox'[c] = outbox[c] /\ status'[c] = status[c] /\ users' = users
        BY <2>3, <3>1 DEF Disconnect, TypeOK
      <4>. QED  BY <2>1, <4>1, <1>PreparedKept
    <3>2. CASE c = d
      <4>1. outbox'[c] = <<>> /\ status'[c] = "closing"
        BY <2>3, <3>2 DEF Disconnect, TypeOK
      <4>. QED  BY <4>1 DEF Prepared, Behind, Entered, Unentered
    <3>. QED  BY <3>1, <3>2
  <2>4. CASE OnClose(d)
    <3>1. /\ status'[c] = "open" => status[c] = "open"
          /\ status'[c] = "new" => status[c] = "new"
          /\ status[c] = "open" => status'[c] = "open"
      BY <2>4 DEF OnClose, TypeOK
    <3>2. users' \in [Names -> Conns \union {NoConn}]
      BY <2>4 DEF OnClose, TypeOK
    <3>3. \A n \in Names : users'[n] = c => users[n] = c
      BY <2>4, ServerAssumption, ZenonT(40) DEF OnClose, TypeOK
    <3>4. CASE outbox'[c] = outbox[c]
      BY <2>1, <3>1, <3>3, <3>4, <1>PreparedKept
    <3>5. CASE outbox'[c] # outbox[c]
      <4>. DEFINE partner == users'[otherName[d]]
      <4>1. otherName[d] # NoName /\ partner # NoConn /\ sendTo(partner, LeaveMsg)
        BY <2>4, <3>5, Zenon DEF OnClose, Notify
      <4>2. partner \in Conns
        BY <3>2, <4>1 DEF TypeOK
      <4>3. LeaveMsg \in Message /\ LeaveMsg.type \notin Relayed
        BY MessageTypes DEF LeaveMsg, Relayed
      <4>4. status[c] = "open" /\ outbox'[c] = Append(outbox[c], LeaveMsg)
        BY <3>5, <4>1, <4>2, <4>3, SendToOne
      <4>. QED  BY <2>1, <3>1, <3>3, <4>3, <4>4, <1>PreparedAppend, Zenon
    <3>. QED  BY <3>4, <3>5
  <2>. QED  BY <2>2, <2>3, <2>4 DEF Connection
<1>. QED
  <2>. SUFFICES
    ASSUME TypeOK, Pages, Wires, \A c \in Conns : Prepared(c), [SysNext]_sysvars
    PROVE  \A c \in Conns : Prepared(c)'
    OBVIOUS
  <2>. SUFFICES ASSUME NEW c \in Conns PROVE Prepared(c)'
    OBVIOUS
  <2>1. ASSUME NEW d \in Conns, ServerReads(d) PROVE Prepared(c)'
    BY <2>1, <1>PreparedServer
  <2>2. ASSUME NEW d \in Conns, ClientReads(d) PROVE Prepared(c)'
    <3>1. CASE c = d
      BY <2>2, <3>1, <1>PreparedRead
    <3>2. CASE c # d
      <4>1. outbox'[c] = outbox[c] /\ UNCHANGED <<status, users>>
        BY <2>2, <3>2, Zenon DEF ClientReads, Receive, TypeOK
      <4>2. myConnection'[c] = myConnection[c]
        BY <2>2, <3>2
           DEF ClientReads, onmessage, onLogin, onOffer, onAnswer, onCandidate, clientvars, Pages
      <4>. QED  BY <4>1, <4>2, <1>PreparedKept
    <3>. QED  BY <3>1, <3>2
  <2>3. ASSUME NEW d \in Conns, PageStep(d) PROVE Prepared(c)'
    <3>1. UNCHANGED vars /\ myConnection' = myConnection
      BY <2>3, Zenon DEF PageStep, loginBtn, connectToOtherUsernameBtn, Callback, OfferCreated,
                  AnswerCreated, DescriptionSet, CandidateAdded, onicecandidate
    <3>. QED  BY <3>1, <1>PreparedKept, Zenon DEF vars
  <2>4. ASSUME NEW d \in Conns, Connection(d) PROVE Prepared(c)'
    BY <2>4, <1>PreparedConnection
  <2>5. CASE UNCHANGED sysvars
    BY <2>5, <1>PreparedKept DEF sysvars, vars, clientvars
  <2>. QED  BY <2>1, <2>2, <2>3, <2>4, <2>5 DEF SysNext

\* onOffer, onAnswer and onCandidate of client.js never meet an undefined
\* myConnection: the server relays to a page only behind the reply to its login.
THEOREM PagesReady == SysSpec => []PeerReady
<1>. DEFINE I == TypeOK /\ Pages /\ Wires /\ \A c \in Conns : Prepared(c)
<1>1. SysInit => I
  <2>. SUFFICES ASSUME SysInit, NEW c \in Conns PROVE Prepared(c)
    BY SysTypeInit
  <2>1. outbox[c] = <<>> /\ status[c] = "new" /\ \A n \in Names : users[n] # c
    BY ServerAssumption DEF SysInit, Init
  <2>. QED  BY <2>1 DEF Prepared, Behind, Entered, Unentered
<1>2. I /\ [SysNext]_sysvars => I'
  BY SysTypeStep, PreparedStep
<1>3. I => PeerReady
  <2>. SUFFICES ASSUME I, NEW c \in Conns, outbox[c] # <<>>,
                       Head(outbox[c]).type \in Relayed
                PROVE  myConnection[c] # 0
    BY DEF PeerReady, Relayed
  <2>1. outbox[c] \in Seq(Message)
    BY DEF TypeOK
  <2>2. 1 \in 1..Len(outbox[c]) /\ Head(outbox[c]) = outbox[c][1]
    BY <2>1
  <2>3. Granted(c, 1)
    BY <2>2 DEF Prepared, Behind
  <2>. QED  BY <2>3 DEF Granted
<1>. QED  BY <1>1, <1>2, <1>3, PTL DEF SysSpec

-----------------------------------------------------------------------------
(* ClientTypeOK.  That myConnection never passes the last connection there *)
(* is takes a count: every RTCPeerConnection of a page was preceded by a   *)
(* reply, every reply by a login and every login by a click of loginBtn.   *)

Welcomes == {Welcome}
LoginRequests == [type : {"login"}, name : Names, blob : {NoBlob}]

Clicks == clicks \in [Conns -> [login : Nat, dial : Nat]]

\* The clicks that the page of c has not used for a connection cover the logins
\* under way and the replies to them.
Within(c, a, b) ==
  /\ AtMost(wire[c], LoginRequests, a) /\ AtMost(outbox[c], Welcomes, b)
  /\ a + b + myConnection[c] <= clicks[c].login
Budget(c) == clicks[c].login <= MaxLogins /\ \E a, b \in Nat : Within(c, a, b)

\* The queues of one page, as sequences.
LEMMA QueueTypes ==
  ASSUME TypeOK, Wires, NEW c \in Conns
  PROVE  outbox[c] \in Seq(Message) /\ wire[c] \in Seq(Requests(c))
BY DEF TypeOK, Wires

\* Only the positive reply makes a connection.
LEMMA WelcomeOnly ==
  ASSUME NEW m \in Message, m.type = "login", m.success PROVE m = Welcome
BY DEF Message, Welcome, LoginReply

\* Connections open and close: a greeting, a leave, or a queue that is lost.
LEMMA ConnectionQueues ==
  ASSUME TypeOK, TypeOK', NEW d \in Conns, Connection(d), NEW c \in Conns
  PROVE  \/ outbox'[c] = outbox[c] \/ outbox'[c] = <<>>
         \/ outbox'[c] = Append(outbox[c], Hello) \/ outbox'[c] = Append(outbox[c], LeaveMsg)
<1>1. CASE OnConnection(d)
  BY <1>1 DEF OnConnection, TypeOK
<1>2. CASE Disconnect(d)
  BY <1>2 DEF Disconnect, TypeOK
<1>3. CASE OnClose(d)
  <2>1. users' \in [Names -> Conns \union {NoConn}]
    BY DEF TypeOK
  <2>2. outbox' = outbox \/ \E e \in Conns : sendTo(e, LeaveMsg)
    BY <1>3, <2>1, Zenon DEF OnClose, Notify, TypeOK
  <2>3. LeaveMsg \in Message
    BY MessageTypes
  <2>. QED  BY <2>2, <2>3, SendToOne
<1>. QED  BY <1>1, <1>2, <1>3 DEF Connection

\* The clicks are counted, and no step spends more than was clicked for.
LEMMA BudgetStep ==
  /\ TypeOK /\ Pages /\ Wires /\ Clicks /\ (\A c \in Conns : Budget(c))
  /\ [SysNext]_sysvars
  => Clicks' /\ \A c \in Conns : Budget(c)'
\* Only a login request is one.
<1>LoginKinds.
  ASSUME NEW c \in Conns, NEW r \in Requests(c)
  PROVE  r \in LoginRequests <=> r.type = "login"
  BY <1>LoginKinds DEF Requests, LoginRequests
\* A step that only takes from what has been counted.
<1>BudgetKept.
  ASSUME Pages, Pages', Clicks, NEW c \in Conns, Budget(c), clicks'[c].login = clicks[c].login,
         NEW a \in Nat, NEW b \in Nat, Within(c, a, b), NEW e \in Nat, NEW f \in Nat,
         AtMost(wire'[c], LoginRequests, e), AtMost(outbox'[c], Welcomes, f),
         e + f + myConnection'[c] <= a + b + myConnection[c]
  PROVE  Budget(c)'
  <2>. USE <1>BudgetKept
  <2>1. myConnection[c] \in Nat /\ myConnection'[c] \in Nat /\ clicks[c].login \in Nat
    BY DEF Pages, Clicks
  <2>2. a + b + myConnection[c] <= clicks[c].login /\ clicks[c].login <= MaxLogins
    BY DEF Within, Budget
  <2>3. e + f + myConnection'[c] <= clicks'[c].login
    BY <2>1, <2>2
  <2>. QED  BY <2>2, <2>3, ZenonT(40) DEF Within, Budget
\* A step that leaves alone what has been counted, or adds other messages.
<1>BudgetSame.
  ASSUME TypeOK, Pages, Pages', Wires, Clicks, NEW c \in Conns, Budget(c),
         clicks'[c].login = clicks[c].login, myConnection'[c] = myConnection[c],
         \/ wire'[c] = wire[c]
         \/ \E m : m \notin LoginRequests /\ wire'[c] = Append(wire[c], m),
         \/ outbox'[c] = outbox[c]
         \/ \E m : m \notin Welcomes /\ outbox'[c] = Append(outbox[c], m)
  PROVE  Budget(c)'
  <2>. USE <1>BudgetSame
  <2>1. outbox[c] \in Seq(Message) /\ wire[c] \in Seq(Requests(c))
    BY QueueTypes
  <2>2. PICK a \in Nat, b \in Nat : Within(c, a, b)
    BY Zenon DEF Budget
  <2>3. AtMost(wire'[c], LoginRequests, a) /\ AtMost(outbox'[c], Welcomes, b)
    BY <2>1, <2>2, AtMostSame, ZenonT(40) DEF Within
  <2>4. a + b + myConnection'[c] <= a + b + myConnection[c]
    BY DEF Pages
  <2>. QED  BY <2>2, <2>3, <2>4, <1>BudgetKept, ZenonT(40)
\* A login taken pays for one reply, and what is left alone costs nothing.
<1>BudgetSum. \A a, b, i, m \in Nat : a = i + 1 => i + (b + 1) + m <= a + b + m
  OBVIOUS
<1>SumKept. \A a, b, m \in Nat : a + b + m <= a + b + m
  OBVIOUS
\* The server reads: a login may become one reply.
<1>BudgetServer.
  ASSUME TypeOK, TypeOK', Pages, Pages', Wires, Wires', Clicks,
         NEW d \in Conns, ServerReads(d), NEW c \in Conns, Budget(c)
  PROVE  Budget(c)'
  <2>. USE <1>BudgetServer
  <2>. DEFINE r == Head(wire[d])
  <2>1. /\ wire[d] \in Seq(Requests(d)) /\ wire[d] # <<>> /\ r \in Requests(d)
        /\ wire'[d] = Tail(wire[d]) /\ (c # d => wire'[c] = wire[c])
        /\ myConnection' = myConnection /\ clicks' = clicks
        /\ outbox[c] \in Seq(Message) /\ wire[c] \in Seq(Requests(c))
    <3>1. wire[d] \in Seq(Requests(d)) /\ wire[d] # <<>>
      BY DEF Wires, ServerReads
    <3>2. r \in Requests(d)
      BY <3>1
    <3>. QED  BY <3>1, <3>2, QueueTypes DEF Wires, ServerReads
  <2>2. PICK a \in Nat, b \in Nat : Within(c, a, b)
    BY Zenon DEF Budget
  <2>3. PICK m \in Message : /\ outbox'[c] = outbox[c] \/ outbox'[c] = Append(outbox[c], m)
                             /\ m \in Welcomes => r.type = "login"
                             /\ r.type = "login" /\ c # d => outbox'[c] = outbox[c]
    <3>1. CASE r.type = "login"
      <4>1. LoginReply(FALSE) \in Message /\ LoginReply(TRUE) \in Message
        BY MessageTypes, Zenon
      <4>2. PICK m \in Message : sendTo(d, m)
        BY <3>1, <4>1, Zenon DEF ServerReads, Handle, Login
      <4>3. /\ outbox'[c] = outbox[c] \/ outbox'[c] = Append(outbox[c], m)
            /\ c # d => outbox'[c] = outbox[c]
        BY <4>2, SendToOne
      <4>. QED  BY <3>1, <4>3, Zenon
    <3>2. CASE r.type # "login"
      <4>1. r.name \in Names \union {NoName}
        BY <2>1, <3>2, Zenon DEF Requests
      <4>2. PICK m \in Message : m.type \in Relayed /\ \E link : Relay(d, r.name, m, link)
        BY <2>1, <3>2, RelayRead
      <4>3. m \notin Welcomes
        BY <4>2 DEF Relayed, Welcomes, Welcome, LoginReply
      <4>4. outbox'[c] = outbox[c] \/ outbox'[c] = Append(outbox[c], m)
        BY <4>1, <4>2, LookupType, SendToOne DEF Relay
      <4>. QED  BY <3>2, <4>3, <4>4, Zenon
    <3>. QED  BY <3>1, <3>2, Zenon
  <2>4. CASE c # d
    BY <2>1, <2>3, <2>4, <1>BudgetSame, Zenon
  <2>5. CASE c = d /\ r.type = "login"
    <3>1. r \in LoginRequests
      BY <2>1, <2>5, <1>LoginKinds
    <3>2. PICK k \in Nat : a = k + 1 /\ AtMost(wire'[c], LoginRequests, k)
      <4>1. AtMost(wire[d], LoginRequests, a)
        BY <2>2, <2>5, ZenonT(40) DEF Within
      <4>2. \E k \in Nat : a = k + 1 /\ AtMost(Tail(wire[d]), LoginRequests, k)
        BY <2>1, <3>1, <4>1, AtMostTail
      <4>. QED  BY <2>1, <2>5, <4>2, Zenon
    <3>3. b + 1 \in Nat /\ AtMost(outbox'[c], Welcomes, b + 1)
      <4>1. AtMost(outbox'[c], Welcomes, b + 1)
        BY <2>1, <2>2, <2>3, AtMostMore, Zenon DEF Within
      <4>. QED  BY <4>1
    <3>4. k + (b + 1) + myConnection'[c] <= a + b + myConnection[c]
      <4>1. myConnection'[c] = myConnection[c] /\ myConnection[c] \in Nat
        BY <2>1, Zenon DEF Pages
      <4>. QED  BY <3>2, <4>1, <1>BudgetSum, Zenon
    <3>. QED  BY <2>1, <2>2, <3>2, <3>3, <3>4, <1>BudgetKept, ZenonT(40)
  <2>6. CASE c = d /\ r.type # "login"
    <3>1. r \notin LoginRequests
      BY <2>1, <2>6, <1>LoginKinds
    <3>2. AtMost(wire'[c], LoginRequests, a)
      <4>1. AtMost(wire[d], LoginRequests, a)
        BY <2>2, <2>6, ZenonT(40) DEF Within
      <4>2. AtMost(Tail(wire[d]), LoginRequests, a)
        BY <2>1, <3>1, <4>1, AtMostTail
      <4>. QED  BY <2>1, <2>6, <4>2, Zenon
    <3>3. AtMost(outbox'[c], Welcomes, b)
      BY <2>1, <2>2, <2>3, <2>6, AtMostSame, ZenonT(40) DEF Within
    <3>4. a + b + myConnection'[c] <= a + b + myConnection[c]
      <4>1. myConnection'[c] = myConnection[c] /\ myConnection[c] \in Nat
        BY <2>1, Zenon DEF Pages
      <4>. QED  BY <4>1, <1>SumKept, Zenon
    <3>. QED  BY <2>1, <2>2, <3>2, <3>3, <3>4, <1>BudgetKept, Zenon
  <2>. QED  BY <2>4, <2>5, <2>6
\* The page reads: the reply becomes one connection.
<1>BudgetRead.
  ASSUME TypeOK, TypeOK', Pages, Pages', Wires, Wires', Clicks,
         NEW d \in Conns, ClientReads(d), NEW c \in Conns, Budget(c)
  PROVE  Budget(c)'
  <2>. USE <1>BudgetRead
  <2>. DEFINE m == Head(outbox[d])
  <2>1. /\ outbox[d] \in Seq(Message) /\ outbox[d] # <<>> /\ wire[c] \in Seq(Requests(c))
        /\ outbox'[d] = Tail(outbox[d]) /\ (c # d => outbox'[c] = outbox[c])
    BY QueueTypes, Zenon DEF ClientReads, Receive, TypeOK
  <2>2. m \in Message /\ Tail(outbox[d]) \in Seq(Message)
    BY <2>1
  <2>3. wire' = wire /\ clicks' = clicks
    BY Zenon DEF ClientReads, onmessage, onLogin, onOffer, onAnswer, onCandidate, clientvars
  <2>4. /\ c # d => myConnection'[c] = myConnection[c]
        /\ \/ myConnection'[d] = myConnection[d]
           \/ m = Welcome /\ myConnection'[d] = myConnection[d] + 1
    BY <2>2, WelcomeOnly, Zenon
       DEF ClientReads, onmessage, onLogin, onOffer, onAnswer, onCandidate, clientvars, Pages
  <2>5. CASE c # d
    BY <2>1, <2>3, <2>4, <2>5, <1>BudgetSame, Zenon
  <2>6. CASE c = d
    <3>1. PICK a \in Nat, b \in Nat : Within(c, a, b)
      BY Zenon DEF Budget
    <3>2. AtMost(wire'[c], LoginRequests, a)
      BY <2>3, <3>1, Zenon DEF Within
    <3>3. PICK k \in Nat : /\ AtMost(outbox'[c], Welcomes, k)
                           /\ (k = b /\ m \notin Welcomes) \/ b = k + 1
      <4>1. AtMost(outbox[d], Welcomes, b)
        BY <2>6, <3>1, ZenonT(40) DEF Within
      <4>2. \E k \in Nat : /\ AtMost(Tail(outbox[d]), Welcomes, k)
                           /\ (k = b /\ m \notin Welcomes) \/ b = k + 1
        BY <2>1, <4>1, AtMostTail
      <4>. QED  BY <2>1, <2>6, <4>2, Zenon
    <3>4. a + k + myConnection'[c] <= a + b + myConnection[c]
      BY <2>4, <2>6, <3>3 DEF Pages, Welcomes
    <3>. QED  BY <2>3, <3>1, <3>2, <3>3, <3>4, <1>BudgetKept, Zenon
  <2>. QED  BY <2>5, <2>6
\* send appends one message, to one queue.
<1>SendOne.
  ASSUME Wires, NEW d \in Conns, NEW type, NEW n, NEW p, send(d, type, n, p)
  PROVE  /\ \E x : x.type = type /\ wire'[d] = Append(wire[d], x)
         /\ \A c \in Conns \ {d} : wire'[c] = wire[c]
  BY <1>SendOne DEF Wires, send, Request
\* The page sends: a login has been clicked for.
<1>BudgetPage.
  ASSUME TypeOK, TypeOK', Pages, Pages', Wires, Wires', Clicks,
         NEW d \in Conns, PageStep(d), NEW c \in Conns, Budget(c)
  PROVE  Budget(c)'
  <2>. USE <1>BudgetPage
  <2>1. /\ outbox' = outbox /\ myConnection' = myConnection
        /\ outbox[c] \in Seq(Message) /\ wire[c] \in Seq(Requests(c))
    BY QueueTypes, Zenon DEF PageStep, vars, loginBtn, connectToOtherUsernameBtn, Callback,
       OfferCreated, AnswerCreated, DescriptionSet, CandidateAdded, onicecandidate
  <2>2. myConnection[c] \in Nat /\ clicks[c].login \in Nat
    BY DEF Pages, Clicks
  <2>3. ASSUME NEW n \in Names, loginBtn(d, n) PROVE Budget(c)'
    <3>1. CASE c # d
      <4>1. wire'[c] = wire[c] /\ clicks'[c] = clicks[c]
        BY <2>3, <3>1, <1>SendOne DEF loginBtn, Clicks
      <4>. QED  BY <2>1, <4>1, <1>BudgetSame, Zenon
    <3>2. CASE c = d
      <4>1. /\ clicks'[c].login = clicks[c].login + 1 /\ clicks[c].login < MaxLogins
            /\ send(d, "login", n, NoBlob)
        BY <2>3, <3>2 DEF loginBtn, Clicks
      <4>2. \E x : wire'[c] = Append(wire[c], x)
        BY <3>2, <4>1, <1>SendOne, Zenon
      <4>3. PICK a \in Nat, b \in Nat : Within(c, a, b)
        BY Zenon DEF Budget
      <4>4. AtMost(wire'[c], LoginRequests, a + 1) /\ AtMost(outbox'[c], Welcomes, b)
        BY <2>1, <4>2, <4>3, AtMostMore, Zenon DEF Within
      <4>5. /\ a + 1 \in Nat /\ clicks'[c].login <= MaxLogins
            /\ (a + 1) + b + myConnection'[c] <= clicks'[c].login
        <5>1. a + b + myConnection[c] <= clicks[c].login
          BY <4>3 DEF Within
        <5>2. ASSUME NEW m \in Nat, NEW k \in Nat, a + b + m <= k, k < MaxLogins
              PROVE  a + 1 \in Nat /\ k + 1 <= MaxLogins /\ (a + 1) + b + m <= k + 1
          BY <4>3, <5>2, ClientAssumption
        <5>3. myConnection'[c] = myConnection[c]
          BY <2>1, Zenon
        <5>. QED  BY <2>2, <4>1, <5>1, <5>2, <5>3, Zenon
      <4>. QED  BY <4>4, <4>5, Zenon DEF Within, Budget
    <3>. QED  BY <3>1, <3>2
  <2>4. ASSUME clicks'[c].login = clicks[c].login,
               \/ wire' = wire
               \/ \E type \in Relayed : \E n, p : send(d, type, n, p)
        PROVE  Budget(c)'
    <3>1. wire'[c] = wire[c] \/ \E x : x.type \in Relayed /\ wire'[c] = Append(wire[c], x)
      BY <2>4, <1>SendOne
    <3>2. \A x : x.type \in Relayed => x \notin LoginRequests
      BY DEF Relayed, LoginRequests
    <3>3. wire'[c] = wire[c] \/ \E x : x \notin LoginRequests /\ wire'[c] = Append(wire[c], x)
      BY <3>1, <3>2, ZenonT(40)
    <3>. QED  BY <2>1, <2>4, <3>3, <1>BudgetSame, ZenonT(40)
  <2>5. ASSUME NEW n, connectToOtherUsernameBtn(d, n) PROVE Budget(c)'
    <3>1. clicks'[c].login = clicks[c].login /\ wire' = wire
      BY <2>5 DEF connectToOtherUsernameBtn, Clicks
    <3>. QED  BY <2>4, <3>1
  <2>6. ASSUME NEW g, Callback(d, g) \/ onicecandidate(d, g) PROVE Budget(c)'
    <3>1. clicks' = clicks /\ (wire' = wire \/ \E type \in Relayed : \E n, p : send(d, type, n, p))
      BY <2>6 DEF Callback, OfferCreated, AnswerCreated, DescriptionSet, CandidateAdded,
                  onicecandidate, Relayed
    <3>. QED  BY <2>4, <3>1, Zenon
  <2>. QED  BY <2>3, <2>5, <2>6, Zenon DEF PageStep
\* Connections open and close: no reply is added.
<1>BudgetConnection.
  ASSUME TypeOK, TypeOK', Pages, Pages', Wires, Wires', Clicks,
         NEW d \in Conns, Connection(d), NEW c \in Conns, Budget(c)
  PROVE  Budget(c)'
  <2>. USE <1>BudgetConnection
  <2>1. /\ wire' = wire /\ clicks' = clicks /\ myConnection' = myConnection
        /\ outbox[c] \in Seq(Message) /\ wire[c] \in Seq(Requests(c))
    BY QueueTypes, Zenon DEF Connection, clientvars
  <2>2. Hello \notin Welcomes /\ LeaveMsg \notin Welcomes
    BY DEF Hello, LeaveMsg, Welcomes, Welcome, LoginReply
  <2>3. \/ outbox'[c] = outbox[c] \/ outbox'[c] = <<>>
        \/ outbox'[c] = Append(outbox[c], Hello) \/ outbox'[c] = Append(outbox[c], LeaveMsg)
    BY ConnectionQueues
  <2>4. CASE outbox'[c] = <<>>
    <3>1. PICK a \in Nat, b \in Nat : Within(c, a, b)
      BY Zenon DEF Budget
    <3>2. AtMost(wire'[c], LoginRequests, a) /\ AtMost(outbox'[c], Welcomes, b)
      BY <2>1, <2>4, <3>1, AtMostEmpty, ZenonT(40) DEF Within
    <3>3. a + b + myConnection'[c] <= a + b + myConnection[c]
      BY <2>1 DEF Pages
    <3>. QED  BY <2>1, <3>1, <3>2, <3>3, <1>BudgetKept, Zenon
  <2>5. CASE outbox'[c] # <<>>
    <3>1. outbox'[c] = outbox[c] \/ \E x : x \notin Welcomes /\ outbox'[c] = Append(outbox[c], x)
      BY <2>2, <2>3, <2>5, Zenon
    <3>. QED  BY <2>1, <3>1, <1>BudgetSame, Zenon
  <2>. QED  BY <2>4, <2>5, Zenon
<1>. QED
  <2>. SUFFICES
    ASSUME TypeOK, Pages, Wires, Clicks, \A c \in Conns : Budget(c), [SysNext]_sysvars
    PROVE  Clicks' /\ \A c \in Conns : Budget(c)'
    OBVIOUS
  <2>1. TypeOK' /\ Pages' /\ Wires'
    BY SysTypeStep
  <2>2. Clicks'
    <3>1. ASSUME NEW d \in Conns, PageStep(d) PROVE Clicks'
      <4>1. \/ clicks' = clicks
            \/ clicks' = [clicks EXCEPT ![d].login = @ + 1]
            \/ clicks' = [clicks EXCEPT ![d].dial = @ + 1]
        BY <3>1, Zenon DEF PageStep, loginBtn, connectToOtherUsernameBtn, Callback,
           OfferCreated, AnswerCreated, DescriptionSet, CandidateAdded, onicecandidate
      <4>. QED  BY <4>1 DEF Clicks
    <3>2. ASSUME NEW d \in Conns, ServerReads(d) \/ ClientReads(d) \/ Connection(d)
          PROVE  clicks' = clicks
      BY <3>2, Zenon DEF ServerReads, ClientReads, onmessage, onLogin, onOffer, onAnswer,
                  onCandidate, Connection, clientvars
    <3>. QED  BY <3>1, <3>2 DEF SysNext, sysvars, clientvars, Clicks
  <2>3. ASSUME NEW c \in Conns, UNCHANGED sysvars PROVE Budget(c)'
    BY <2>3, Zenon DEF sysvars, vars, clientvars, Within, Budget
  <2>. QED
    BY <2>1, <2>2, <2>3, <1>BudgetServer, <1>BudgetRead, <1>BudgetPage, <1>BudgetConnection DEF SysNext

\* The system starts within its budget.
LEMMA BudgetInit == SysInit => Clicks /\ \A c \in Conns : Budget(c)
<1>. SUFFICES ASSUME SysInit PROVE Clicks /\ \A c \in Conns : Budget(c)
  OBVIOUS
<1>1. Clicks
  BY DEF SysInit, ClientInit, Clicks
<1>2. \A c \in Conns : /\ wire[c] = <<>> /\ outbox[c] = <<>> /\ myConnection[c] = 0
                       /\ clicks[c].login = 0
  BY DEF SysInit, Init, ClientInit
<1>3. ASSUME NEW c \in Conns PROVE Budget(c)
  <2>1. AtMost(wire[c], LoginRequests, 0) /\ AtMost(outbox[c], Welcomes, 0)
    BY <1>2, AtMostEmpty
  <2>2. 0 + 0 + myConnection[c] <= clicks[c].login /\ clicks[c].login <= MaxLogins
    BY <1>2, ClientAssumption
  <2>3. 0 \in Nat
    OBVIOUS
  <2>. QED  BY <2>1, <2>2, <2>3, ZenonT(40) DEF Within, Budget
<1>. QED  BY <1>1, <1>3

\* Within the budget, myConnection is one of the connections there are.
LEMMA MyConnectionBound ==
  ASSUME TypeOK, Pages, Wires, Clicks, NEW c \in Conns, Budget(c)
  PROVE  myConnection[c] \in 0..MaxLogins
<1>1. myConnection[c] \in Nat /\ clicks[c].login \in Nat
  BY DEF Pages, Clicks
<1>2. PICK a \in Nat, b \in Nat : a + b + myConnection[c] <= clicks[c].login
  BY Zenon DEF Within, Budget
<1>3. clicks[c].login <= MaxLogins
  BY DEF Budget
<1>. QED  BY <1>1, <1>2, <1>3, ClientAssumption

\* The pages keep their types, and never use more connections than they logged in:
\* each positive reply of the server answers a login of its own.
THEOREM PagesTyped == SysSpec => []ClientTypeOK
<1>. DEFINE I == TypeOK /\ Pages /\ Wires /\ Clicks /\ \A c \in Conns : Budget(c)
<1>1. SysInit => I
  BY SysTypeInit, BudgetInit
<1>2. I /\ [SysNext]_sysvars => I'
  BY SysTypeStep, BudgetStep
<1>3. I => ClientTypeOK
  <2>. SUFFICES ASSUME I PROVE ClientTypeOK
    OBVIOUS
  <2>1. \A c \in Conns : myConnection[c] \in 0..MaxLogins
    BY MyConnectionBound
  <2>2. connectedUser \in [Conns -> Names \union {NoName}]
        /\ myConnection \in [Conns -> 0..MaxLogins]
    BY <2>1, Zenon DEF Pages
  <2>3. ASSUME NEW c \in Conns, NEW i \in 1..Len(wire[c])
        PROVE  /\ wire[c][i].type \in {"login", "offer", "answer", "candidate"}
               /\ wire[c][i].type = "login" => wire[c][i].name \in Names
               /\ wire[c][i].type # "login" => wire[c][i].blob \in Payloads
    <3>1. wire[c][i] \in Requests(c)
      BY DEF Wires
    <3>. QED  BY <3>1 DEF Requests
  <2>. QED  BY <2>2, <2>3 DEF ClientTypeOK
<1>. QED  BY <1>1, <1>2, <1>3, PTL DEF SysSpec

-----------------------------------------------------------------------------
(* EndsWithPartner.  The server links a user to names it finds in the      *)
(* directory, and a name leaves the directory only when its owner closes.  *)

\* Somebody who was known as n has closed.
Departed(n) == \E e \in Conns : status[e] = "closed" /\ name[e] = n

LinksLead ==
  \A c \in Conns : otherName[c] # NoName =>
    Lookup(otherName[c]) # NoConn \/ Departed(otherName[c])

\* Links keep leading to the directory or to somebody who has closed.
LEMMA LinksStep ==
  /\ TypeOK /\ TypeOK' /\ LinksLead /\ [Next]_vars
  => LinksLead'
\* A name that is found, or whose owner closed, stays so.
<1>LeadsStep.
  ASSUME TypeOK, [Next]_vars, NEW n \in Names, users[n] # NoConn \/ Departed(n)
  PROVE  users'[n] # NoConn \/ Departed(n)'
  <2>. USE <1>LeadsStep
  <2>1. ASSUME NEW c \in Conns, OnConnection(c) PROVE users'[n] # NoConn \/ Departed(n)'
    BY <2>1, ZenonT(40) DEF OnConnection, TypeOK, Departed
  <2>2. ASSUME NEW c \in Conns, NEW l \in Names, Login(c, l), users[l] = NoConn
        PROVE  users'[n] # NoConn \/ Departed(n)'
    BY <2>2, ServerAssumption, ZenonT(40) DEF Login, Receiving, TypeOK, Departed
  <2>3. ASSUME NEW c \in Conns, OnClose(c) PROVE users'[n] # NoConn \/ Departed(n)'
    <3>1. /\ status' = [status EXCEPT ![c] = "closed"] /\ name' = name
          /\ users'[n] = users[n] \/ n = name[c]
      BY <2>3 DEF OnClose, TypeOK
    <3>. QED  BY <3>1 DEF TypeOK, Departed
  <2>4. CASE Aloof
    BY <2>4, Zenon DEF Aloof, Departed
  <2>. QED  BY <2>1, <2>2, <2>3, <2>4, StepKinds
\* A link is made only to a name in the directory.
<1>LinksMade.
  ASSUME TypeOK, [Next]_vars, NEW c \in Conns
  PROVE  \/ otherName'[c] \in {otherName[c], NoName}
         \/ users[otherName'[c]] # NoConn /\ otherName'[c] \in Names
  <2>. USE <1>LinksMade
  <2>1. ASSUME NEW d \in Conns, NEW n \in Names \union {NoName}, NEW p \in Payloads,
               Offer(d, n, p) \/ Answer(d, n, p) \/ Candidate(d, n, p)
        PROVE  \/ otherName'[c] = otherName[c]
               \/ users[otherName'[c]] # NoConn /\ otherName'[c] \in Names
    <3>1. \/ otherName' = otherName
          \/ Lookup(n) # NoConn /\ otherName' = [otherName EXCEPT ![d] = n]
      BY <2>1 DEF Offer, Answer, Candidate, Relay
    <3>. QED  BY <3>1 DEF Lookup, TypeOK
  <2>2. ASSUME NEW d \in Conns, NEW n \in Names \union {NoName}, Leave(d, n)
        PROVE  otherName'[c] \in {otherName[c], NoName}
    BY <2>2 DEF Leave, Notify, TypeOK
  <2>3. ASSUME NEW d \in Conns, OnClose(d) PROVE otherName'[c] \in {otherName[c], NoName}
    BY <2>3, Zenon DEF OnClose, Notify, TypeOK
  <2>4. ASSUME NEW d \in Conns,
               \/ OnConnection(d) \/ Disconnect(d) \/ Receive(d) \/ UnknownCommand(d)
               \/ NullMessage(d) \/ \E n \in Names : Login(d, n)
        PROVE  otherName' = otherName
    BY <2>4, Zenon DEF OnConnection, Disconnect, Receive, UnknownCommand, NullMessage, Login
  <2>5. CASE UNCHANGED vars
    BY <2>5, Zenon DEF vars
  <2>. QED  BY <2>1, <2>2, <2>3, <2>4, <2>5, Zenon DEF Next, OnMessage
<1>. QED
  <2>. SUFFICES
    ASSUME TypeOK, TypeOK', LinksLead, [Next]_vars
    PROVE  LinksLead'
    OBVIOUS
  <2>. SUFFICES ASSUME NEW c \in Conns, otherName'[c] # NoName
                PROVE  users'[otherName'[c]] # NoConn \/ Departed(otherName[c])'
    BY DEF LinksLead, Lookup, Departed
  <2>1. otherName'[c] \in Names
    BY DEF TypeOK
  <2>2. users[otherName'[c]] # NoConn \/ Departed(otherName'[c])
    BY <2>1, <1>LinksMade DEF LinksLead, Lookup, Departed
  <2>3. PICK n \in Names : n = otherName'[c]
    BY <2>1
  <2>4. users'[n] # NoConn \/ Departed(n)'
    BY <2>2, <2>3, <1>LeadsStep, Zenon
  <2>. QED  BY <2>3, <2>4 DEF Departed

\* Only the close handler ends the process, when it finds no partner.
LEMMA EndStep ==
  ASSUME TypeOK, TypeOK', Wires, LinksLead', [SysNext]_sysvars, up, ~ up'
  PROVE  \E c, e \in Conns : /\ status[c] = "closing" /\ status'[c] = "closed"
                             /\ status'[e] = "closed"
                             /\ otherName[c] # NoName /\ name[e] = otherName[c]
<1>1. ASSUME NEW c \in Conns, ServerReads(c) \/ ClientReads(c) \/ PageStep(c) PROVE FALSE
  BY <1>1, Zenon DEF ServerReads, Handle, Login, Offer, Answer, Candidate, Relay, ClientReads,
              Receive, PageStep, vars
<1>2. ASSUME NEW c \in Conns, OnConnection(c) \/ Disconnect(c) PROVE FALSE
  BY <1>2, Zenon DEF OnConnection, Disconnect
<1>3. PICK c \in Conns : OnClose(c)
  BY <1>1, <1>2, Zenon DEF SysNext, Connection, sysvars, vars
<1>4. /\ status[c] = "closing" /\ status'[c] = "closed"
      /\ otherName[c] # NoName /\ otherName' = otherName /\ users'[otherName[c]] = NoConn
      /\ name' = name
  BY <1>3, Zenon DEF OnClose, Notify, TypeOK
<1>5. PICK e \in Conns : status'[e] = "closed" /\ name'[e] = otherName'[c]
  BY <1>4 DEF LinksLead, Lookup, Departed
<1>. QED  BY <1>4, <1>5, Zenon

\* With pages that never send "leave", the process outlives every message and every
\* close but that of a user whose partner, under the name they were linked by, has
\* closed before (or who is their own partner).
THEOREM EndsOnlyWithPartner == SysSpec => EndsWithPartner
<1>. DEFINE I == TypeOK /\ Pages /\ Wires /\ LinksLead
<1>1. SysInit => I
  BY SysTypeInit DEF SysInit, Init, LinksLead
<1>2. I /\ [SysNext]_sysvars => I'
  BY SysTypeStep, SysStepIsServerStep, LinksStep, ZenonT(40)
<1>3. I /\ I' /\ [SysNext]_sysvars =>
        [up /\ ~ up' =>
           \E c, e \in Conns : /\ status[c] = "closing" /\ status'[c] = "closed"
                               /\ status'[e] = "closed"
                               /\ otherName[c] # NoName /\ name[e] = otherName[c]]_sysvars
  BY EndStep
<1>. QED  BY <1>1, <1>2, <1>3, PTL DEF SysSpec, EndsWithPartner
=============================================================================
