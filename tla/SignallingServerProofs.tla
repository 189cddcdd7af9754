----------------------- MODULE SignallingServerProofs -----------------------
(***************************************************************************)
(* Proofs about SignallingServer, for any sets of connections, names and   *)
(* blobs.  The inductive invariant is Inv: the three checked invariants    *)
(* and Fresh, which says that a connection not yet opened left no trace.   *)
(***************************************************************************)
EXTENDS SignallingServer, Queues, TLAPS

\* A connection that is not open yet has no name.
Fresh == \A c \in Conns : status[c] = "new" => name[c] = NoName

Inv == TypeOK /\ Fresh /\ RegistryExact /\ OfferAuthentic

\* Every message the handlers build is one of the messages of the protocol.
LEMMA MessageTypes ==
  /\ Hello \in Message /\ LeaveMsg \in Message /\ ErrorMsg \in Message
  /\ \A ok \in BOOLEAN : LoginReply(ok) \in Message
  /\ \A p \in Payloads : AnswerMsg(p) \in Message /\ CandidateMsg(p) \in Message
  /\ \A p \in Payloads, n \in Names \union {NoName} : OfferMsg(p, n) \in Message
BY DEF Message, Hello, LeaveMsg, ErrorMsg, LoginReply, OfferMsg, AnswerMsg, CandidateMsg

\* Only offers have the type "offer", and their fields have the right types.
LEMMA OfferFields ==
  ASSUME NEW m \in Message, m.type = "offer"
  PROVE  m.offer.from \in Conns /\ m.name \in Names \union {NoName}
BY ServerAssumption DEF Message

\* sendTo appends at most one message, to one queue.
LEMMA SendToType ==
  ASSUME TypeOK, NEW d \in Conns, NEW m \in Message, sendTo(d, m)
  PROVE  outbox' \in [Conns -> Seq(Message)]
BY DEF TypeOK, sendTo

\* What an invariant about every queued message needs to know of sendTo: a
\* message of the new queues is the message sent or one of the old queues.
LEMMA SendToContents ==
  ASSUME TypeOK, NEW d \in Conns, NEW m \in Message, sendTo(d, m),
         NEW e \in Conns, NEW i \in 1..Len(outbox'[e])
  PROVE  \/ outbox'[e][i] = m
         \/ i \in 1..Len(outbox[e]) /\ outbox'[e][i] = outbox[e][i]
<1>1. CASE e = d /\ status[d] = "open"
  <2>1. outbox'[e] = Append(outbox[e], m)
    BY <1>1 DEF sendTo, TypeOK
  <2>2. outbox[e] \in Seq(Message)
    BY DEF TypeOK
  <2>. QED  BY <2>1, <2>2
<1>2. CASE ~ (e = d /\ status[d] = "open")
  <2>1. outbox'[e] = outbox[e]
    BY <1>2 DEF sendTo, TypeOK
  <2>. QED  BY <2>1
<1>. QED  BY <1>1, <1>2

\* A looked-up connection is a connection of the system.
LEMMA LookupType ==
  ASSUME TypeOK, NEW n \in Names \union {NoName}, Lookup(n) # NoConn
  PROVE  Lookup(n) \in Conns
BY DEF TypeOK, Lookup

-----------------------------------------------------------------------------
\* Each handler keeps the types.
LEMMA TypeStep ==
  ASSUME TypeOK, [Next]_vars
  PROVE  TypeOK'
<1>. USE DEF TypeOK
<1>1. ASSUME NEW c \in Conns, OnConnection(c) PROVE TypeOK'
  BY <1>1, MessageTypes DEF OnConnection
<1>2. ASSUME NEW c \in Conns, NEW n \in Names, Login(c, n) PROVE TypeOK'
  <2>1. outbox' \in [Conns -> Seq(Message)]
    BY <1>2, MessageTypes, SendToType, Zenon DEF Login
  <2>. QED  BY <1>2, <2>1, Zenon DEF Login
<1>3. ASSUME NEW c \in Conns, NEW n \in Names \union {NoName}, NEW p \in Payloads,
             Offer(c, n, p) \/ Answer(c, n, p) \/ Candidate(c, n, p)
      PROVE  TypeOK'
  <2>1. Lookup(n) # NoConn => Lookup(n) \in Conns
    BY LookupType
  <2>2. /\ OfferMsg(p, name[c]) \in Message
        /\ AnswerMsg(p) \in Message /\ CandidateMsg(p) \in Message
    BY MessageTypes
  <2>3. outbox' \in [Conns -> Seq(Message)]
    BY <1>3, <2>1, <2>2, SendToType DEF Offer, Answer, Candidate, Relay
  <2>4. otherName' \in [Conns -> Names \union {NoName}]
    BY <1>3 DEF Offer, Answer, Candidate, Relay
  <2>. QED  BY <1>3, <2>3, <2>4 DEF Offer, Answer, Candidate, Relay
<1>4. ASSUME NEW c \in Conns, NEW n \in Names \union {NoName}, Leave(c, n)
      PROVE  TypeOK'
  <2>1. outbox' \in [Conns -> Seq(Message)]
    BY <1>4, LookupType, MessageTypes, SendToType DEF Leave, Notify
  <2>2. up' \in BOOLEAN /\ otherName' \in [Conns -> Names \union {NoName}]
    BY <1>4, Zenon DEF Leave, Notify
  <2>. QED  BY <1>4, <2>1, <2>2 DEF Leave, Notify
<1>5. ASSUME NEW c \in Conns, UnknownCommand(c) \/ NullMessage(c) PROVE TypeOK'
  <2>1. CASE UnknownCommand(c)
    BY <2>1, MessageTypes, SendToType DEF UnknownCommand
  <2>2. CASE NullMessage(c)
    BY <2>2, Zenon DEF NullMessage
  <2>. QED  BY <1>5, <2>1, <2>2
<1>6. ASSUME NEW c \in Conns, OnClose(c) PROVE TypeOK'
  <2>1. users' \in [Names -> Conns \union {NoConn}]
    BY <1>6 DEF OnClose, Notify
  <2>2. outbox' \in [Conns -> Seq(Message)]
    BY <1>6, <2>1, MessageTypes, SendToType, Zenon DEF OnClose, Notify
  <2>3. up' \in BOOLEAN /\ otherName' \in [Conns -> Names \union {NoName}]
    BY <1>6, Zenon DEF OnClose, Notify
  <2>4. status' \in [Conns -> {"new", "open", "closing", "closed"}]
    BY <1>6 DEF OnClose, Notify
  <2>. QED  BY <1>6, <2>1, <2>2, <2>3, <2>4 DEF OnClose, Notify
<1>7. ASSUME NEW c \in Conns, Disconnect(c) PROVE TypeOK'
  BY <1>7 DEF Disconnect
<1>8. ASSUME NEW c \in Conns, Receive(c) PROVE TypeOK'
  <2>1. outbox[c] \in Seq(Message) /\ outbox[c] # <<>>
    BY <1>8 DEF Receive
  <2>2. Tail(outbox[c]) \in Seq(Message)
    BY <2>1
  <2>. QED  BY <1>8, <2>2 DEF Receive
<1>9. CASE UNCHANGED vars
  BY <1>9 DEF vars
<1>. QED
  BY <1>1, <1>2, <1>3, <1>4, <1>5, <1>6, <1>7, <1>8, <1>9, Zenon DEF Next, OnMessage

\* The type invariant: the handlers of signallingserver.js keep the directory,
\* the connections' fields and the queues well formed.
THEOREM TypeCorrect == Spec => []TypeOK
<1>1. Init => TypeOK
  BY DEF Init, TypeOK
<1>. QED  BY <1>1, TypeStep, PTL DEF Spec

-----------------------------------------------------------------------------
\* The steps that change neither the directory nor the names, and at most turn
\* open connections into closing ones.
Aloof == /\ UNCHANGED <<users, name>>
         /\ \A c \in Conns : \/ status'[c] = status[c]
                             \/ status[c] = "open" /\ status'[c] = "closing"

\* Every step opens a connection, logs one in, closes one, or is aloof.
LEMMA StepKinds ==
  ASSUME TypeOK, [Next]_vars
  PROVE  \/ \E c \in Conns : OnConnection(c)
         \/ \E c \in Conns, n \in Names : Login(c, n) /\ users[n] = NoConn
         \/ \E c \in Conns : OnClose(c)
         \/ Aloof
<1>1. ASSUME NEW c \in Conns, NEW n \in Names, Login(c, n), users[n] # NoConn
      PROVE  Aloof
  BY <1>1 DEF Login, Aloof
<1>2. ASSUME NEW c \in Conns, NEW n \in Names \union {NoName}, NEW p \in Payloads,
             Offer(c, n, p) \/ Answer(c, n, p) \/ Candidate(c, n, p)
      PROVE  Aloof
  BY <1>2 DEF Offer, Answer, Candidate, Relay, Aloof
<1>3. ASSUME NEW c \in Conns, NEW n \in Names \union {NoName}, Leave(c, n)
      PROVE  Aloof
  BY <1>3 DEF Leave, Notify, Aloof
<1>4. ASSUME NEW c \in Conns, UnknownCommand(c) \/ NullMessage(c) \/ Receive(c)
      PROVE  Aloof
  BY <1>4 DEF UnknownCommand, NullMessage, Receive, Aloof
<1>5. ASSUME NEW c \in Conns, Disconnect(c) PROVE Aloof
  BY <1>5 DEF Disconnect, Aloof, TypeOK
<1>6. CASE UNCHANGED vars
  BY <1>6 DEF vars, Aloof
<1>. QED
  BY <1>1, <1>2, <1>3, <1>4, <1>5, <1>6 DEF Next, OnMessage

\* Each handler keeps the directory exact for current names.
LEMMA RegistryStep ==
  ASSUME TypeOK, Fresh, RegistryExact, [Next]_vars
  PROVE  Fresh' /\ RegistryExact'
<1>. USE DEF Fresh, RegistryExact
<1>1. ASSUME NEW c \in Conns, OnConnection(c) PROVE Fresh' /\ RegistryExact'
  BY <1>1 DEF OnConnection, TypeOK
<1>2. ASSUME NEW c \in Conns, NEW n \in Names, Login(c, n), users[n] = NoConn
      PROVE  Fresh' /\ RegistryExact'
  <2>1. /\ users' = [users EXCEPT ![n] = c]
        /\ name' = [name EXCEPT ![c] = n]
        /\ status' = status /\ status[c] = "open"
    BY <1>2 DEF Login, Receiving
  <2>2. Fresh'
    BY <2>1 DEF TypeOK
  <2>3. ASSUME NEW d \in Conns, name'[d] # NoName
        PROVE  users'[name'[d]] = d <=> status'[d] \in {"open", "closing"}
    BY <1>2, <2>1, <2>3, ServerAssumption DEF TypeOK
  <2>. QED  BY <2>2, <2>3
<1>3. ASSUME NEW c \in Conns, OnClose(c) PROVE Fresh' /\ RegistryExact'
  <2>1. /\ status[c] = "closing"
        /\ status' = [status EXCEPT ![c] = "closed"]
        /\ users' = IF name[c] = NoName THEN users
                    ELSE [users EXCEPT ![name[c]] = NoConn]
        /\ name' = name
    BY <1>3 DEF OnClose, Notify
  <2>2. Fresh'
    BY <2>1 DEF TypeOK
  <2>3. ASSUME NEW d \in Conns, name'[d] # NoName
        PROVE  users'[name'[d]] = d <=> status'[d] \in {"open", "closing"}
    BY <2>1, <2>3, ServerAssumption DEF TypeOK
  <2>. QED  BY <2>2, <2>3
<1>4. CASE Aloof
  BY <1>4 DEF Aloof
<1>. QED  BY <1>1, <1>2, <1>3, <1>4, StepKinds

\* Under its current name a connection is in the directory exactly while it is
\* connected, for any number of connections and names.
THEOREM RegistryCorrect == Spec => []RegistryExact
<1>1. Init => TypeOK /\ Fresh /\ RegistryExact
  BY DEF Init, TypeOK, Fresh, RegistryExact
<1>2. TypeOK /\ Fresh /\ RegistryExact /\ [Next]_vars
        => (TypeOK /\ Fresh /\ RegistryExact)'
  BY TypeStep, RegistryStep
<1>. QED  BY <1>1, <1>2, PTL DEF Spec

-----------------------------------------------------------------------------
\* An offer that names its sender leads back to it, or the sender is gone.
Authentic(m) == m.type = "offer" /\ m.name # NoName =>
                  \/ users[m.name] = m.offer.from
                  \/ status[m.offer.from] = "closed"

\* Every step keeps every queued offer authentic.
LEMMA OfferStep ==
  /\ TypeOK /\ Fresh /\ RegistryExact /\ OfferAuthentic /\ [Next]_vars
  => OfferAuthentic'
\* Whatever the directory does in one step, a queued offer stays authentic.
<1>AuthenticStep.
  ASSUME TypeOK, Fresh, RegistryExact, [Next]_vars,
         NEW m \in Message, Authentic(m)
  PROVE  Authentic(m)'
  <2>. USE <1>AuthenticStep
  <2>. SUFFICES ASSUME m.type = "offer", m.name # NoName
                PROVE  \/ users'[m.name] = m.offer.from
                       \/ status'[m.offer.from] = "closed"
    BY DEF Authentic
  <2>0. m.offer.from \in Conns /\ m.name \in Names
    BY OfferFields
  <2>a. users[m.name] = m.offer.from \/ status[m.offer.from] = "closed"
    BY DEF Authentic
  <2>1. ASSUME NEW c \in Conns, OnConnection(c)
        PROVE  users'[m.name] = m.offer.from \/ status'[m.offer.from] = "closed"
    BY <2>0, <2>a, <2>1 DEF OnConnection, TypeOK
  <2>2. ASSUME NEW c \in Conns, NEW n \in Names, Login(c, n), users[n] = NoConn
        PROVE  users'[m.name] = m.offer.from \/ status'[m.offer.from] = "closed"
    BY <2>0, <2>a, <2>2, ServerAssumption DEF Login, TypeOK
  <2>3. ASSUME NEW c \in Conns, OnClose(c)
        PROVE  users'[m.name] = m.offer.from \/ status'[m.offer.from] = "closed"
    BY <2>0, <2>a, <2>3, ServerAssumption DEF OnClose, Notify, TypeOK, RegistryExact
  <2>4. CASE Aloof
    BY <2>0, <2>a, <2>4, Zenon DEF Aloof, TypeOK
  <2>. QED  BY <2>1, <2>2, <2>3, <2>4, StepKinds
\* A message that a step adds to a queue is a relayed offer of an open
\* connection under its own name, or no offer at all.
<1>QueueStep.
  ASSUME TypeOK, [Next]_vars, NEW e \in Conns, NEW i \in 1..Len(outbox'[e])
  PROVE  \/ \E j \in 1..Len(outbox[e]) : outbox'[e][i] = outbox[e][j]
         \/ outbox'[e][i].type # "offer"
         \/ \E c \in Conns, n \in Names \union {NoName}, p \in Payloads :
               /\ p.from = c /\ Offer(c, n, p)
               /\ outbox'[e][i] = OfferMsg(p, name[c])
  <2>. USE <1>QueueStep
  <2>. DEFINE Old == \E j \in 1..Len(outbox[e]) : outbox'[e][i] = outbox[e][j]
              Other == outbox'[e][i].type # "offer"
  <2>1. ASSUME NEW c \in Conns, OnConnection(c) PROVE Old \/ Other
    <3>1. CASE e = c
      <4>1. outbox'[e] = Append(outbox[e], Hello) /\ outbox[e] \in Seq(Message)
        BY <2>1, <3>1 DEF OnConnection, TypeOK
      <4>2. Hello.type # "offer"
        BY DEF Hello
      <4>. QED  BY <4>1, <4>2
    <3>2. CASE e # c
      BY <2>1, <3>2 DEF OnConnection, TypeOK
    <3>. QED  BY <3>1, <3>2
  <2>2. ASSUME NEW d \in Conns, NEW m \in Message, sendTo(d, m), m.type # "offer"
        PROVE  Old \/ Other
    BY <2>2, SendToContents
  <2>3. ASSUME outbox' = outbox PROVE Old \/ Other
    BY <2>3
  <2>4. ASSUME NEW c \in Conns, NEW n \in Names, Login(c, n) PROVE Old \/ Other
    <3>1. LoginReply(TRUE).type # "offer" /\ LoginReply(FALSE).type # "offer"
      BY DEF LoginReply
    <3>. QED  BY <2>2, <2>4, <3>1, MessageTypes, Zenon DEF Login
  <2>5. ASSUME NEW c \in Conns, NEW n \in Names \union {NoName}, NEW p \in Payloads,
               Answer(c, n, p) \/ Candidate(c, n, p)
        PROVE  Old \/ Other
    <3>1. AnswerMsg(p).type # "offer" /\ CandidateMsg(p).type # "offer"
      BY DEF AnswerMsg, CandidateMsg
    <3>. QED  BY <2>2, <2>3, <2>5, <3>1, MessageTypes, LookupType DEF Answer, Candidate, Relay
  <2>6. ASSUME NEW c \in Conns, NEW n \in Names \union {NoName}, NEW p \in Payloads,
               p.from = c, Offer(c, n, p)
        PROVE  Old \/ outbox'[e][i] = OfferMsg(p, name[c])
    <3>1. OfferMsg(p, name[c]) \in Message
      BY MessageTypes DEF TypeOK
    <3>2. CASE outbox' = outbox
      BY <3>2
    <3>3. CASE Lookup(n) # NoConn /\ sendTo(Lookup(n), OfferMsg(p, name[c]))
      BY <3>1, <3>3, SendToContents, LookupType
    <3>. QED  BY <2>6, <3>2, <3>3 DEF Offer, Relay
  <2>7. LeaveMsg \in Message /\ LeaveMsg.type # "offer"
    BY MessageTypes DEF LeaveMsg
  <2>8. ASSUME NEW c \in Conns, NEW n \in Names \union {NoName}, Leave(c, n)
        PROVE  Old \/ Other
    BY <2>2, <2>3, <2>7, <2>8, LookupType DEF Leave, Notify
  <2>9. ASSUME NEW c \in Conns, OnClose(c) PROVE Old \/ Other
    <3>1. users' \in [Names -> Conns \union {NoConn}]
      BY <2>9 DEF OnClose, Notify, TypeOK
    <3>2. \/ outbox' = outbox
          \/ \E d \in Conns : sendTo(d, LeaveMsg)
      BY <2>9, <3>1, Zenon DEF OnClose, Notify, TypeOK
    <3>. QED  BY <2>2, <2>3, <2>7, <3>2
  <2>10. ASSUME NEW c \in Conns, UnknownCommand(c) \/ NullMessage(c) PROVE Old \/ Other
    <3>1. ErrorMsg.type # "offer"
      BY DEF ErrorMsg
    <3>. QED  BY <2>2, <2>3, <2>10, <3>1, MessageTypes DEF UnknownCommand, NullMessage
  <2>11. ASSUME NEW c \in Conns, Disconnect(c) PROVE Old
    BY <2>11 DEF Disconnect, TypeOK
  <2>12. ASSUME NEW c \in Conns, Receive(c) PROVE Old
    <3>1. CASE e = c
      <4>1. /\ outbox[e] \in Seq(Message) /\ outbox[e] # <<>>
            /\ outbox'[e] = Tail(outbox[e])
        BY <2>12, <3>1 DEF Receive, TypeOK
      <4>2. i + 1 \in 1..Len(outbox[e]) /\ outbox'[e][i] = outbox[e][i + 1]
        BY <4>1
      <4>. QED  BY <4>2
    <3>2. CASE e # c
      BY <2>12, <3>2 DEF Receive, TypeOK
    <3>. QED  BY <3>1, <3>2
  <2>13. CASE UNCHANGED vars
    BY <2>3, <2>13 DEF vars
  <2>. QED
    BY <2>1, <2>4, <2>5, <2>6, <2>8, <2>9, <2>10, <2>11, <2>12, <2>13, Zenon DEF Next, OnMessage
\* OfferAuthentic, message by message.
<1>OfferAuthenticDef.
  OfferAuthentic <=>
    \A d \in Conns : \A i \in 1..Len(outbox[d]) : Authentic(outbox[d][i])
  BY DEF OfferAuthentic, Authentic
\* A relayed offer is authentic when it is queued: its sender is connected, and
\* so is in the directory under the name the offer carries.
<1>RelayedOffer.
  ASSUME TypeOK, RegistryExact,
         NEW c \in Conns, NEW n \in Names \union {NoName}, NEW p \in Payloads,
         p.from = c, Offer(c, n, p)
  PROVE  name[c] # NoName => users'[name[c]] = p.from
  <2>. USE <1>RelayedOffer
  <2>1. status[c] = "open" /\ users' = users
    BY DEF Offer, Relay, Receiving
  <2>2. name[c] # NoName => users[name[c]] = c
    BY <2>1 DEF RegistryExact
  <2>. QED  BY <2>1, <2>2
<1>. QED
  <2>. SUFFICES
    ASSUME TypeOK, Fresh, RegistryExact, OfferAuthentic, [Next]_vars
    PROVE  OfferAuthentic'
    OBVIOUS
  <2>. SUFFICES ASSUME NEW e \in Conns, NEW i \in 1..Len(outbox'[e])
                PROVE  Authentic(outbox[e][i])'
    BY DEF OfferAuthentic, Authentic
  <2>. DEFINE m == outbox'[e][i]
  <2>1. ASSUME NEW j \in 1..Len(outbox[e]), m = outbox[e][j]
        PROVE  Authentic(outbox[e][i])'
    <3>1. outbox[e][j] \in Message
      BY <2>1 DEF TypeOK
    <3>2. Authentic(outbox[e][j])
      BY <2>1, <1>OfferAuthenticDef
    <3>3. \A x \in Message : Authentic(x) => Authentic(x)'
      BY <1>AuthenticStep
    <3>. QED  BY <2>1, <3>1, <3>2, <3>3 DEF Authentic
  <2>2. ASSUME m.type # "offer" PROVE Authentic(outbox[e][i])'
    BY <2>2 DEF Authentic
  <2>3. ASSUME NEW c \in Conns, NEW n \in Names \union {NoName}, NEW p \in Payloads,
               p.from = c, Offer(c, n, p), m = OfferMsg(p, name[c])
        PROVE  Authentic(outbox[e][i])'
    <3>1. name[c] # NoName => users'[name[c]] = p.from
      BY <2>3, <1>RelayedOffer, Zenon
    <3>2. m.name = name[c] /\ m.offer = p
      BY <2>3 DEF OfferMsg
    <3>. QED  BY <3>1, <3>2 DEF Authentic
  <2>. QED  BY <2>1, <2>2, <2>3, <1>QueueStep

\* The name on an offer in flight leads to the client that made the offer, or
\* that client is gone.
THEOREM OffersAuthentic == Spec => []OfferAuthentic
<1>1. Init => Inv
  BY DEF Init, Inv, TypeOK, Fresh, RegistryExact, OfferAuthentic
<1>2. Inv /\ [Next]_vars => Inv'
  BY TypeStep, RegistryStep, OfferStep DEF Inv
<1>3. Inv => OfferAuthentic
  BY DEF Inv
<1>. QED  BY <1>1, <1>2, <1>3, PTL DEF Spec

-----------------------------------------------------------------------------
\* The initial state of the server is one of the abstract directory.
LEMMA RegistryInit ==
  ASSUME Init
  PROVE  Registry!Init
BY DEF Init, Registry!Init

\* A successful login is Acquire, the close event Depart, the rest stutters.
LEMMA RegistryRefineStep ==
  ASSUME TypeOK, Fresh, RegistryExact, [Next]_vars
  PROVE  [Registry!Next]_(Registry!regvars)
<1>. DEFINE Departed == {c \in Conns : status[c] = "closed"}
<1>1. ASSUME NEW c \in Conns, OnConnection(c) PROVE UNCHANGED <<users, Departed>>
  BY <1>1 DEF OnConnection, TypeOK
<1>2. ASSUME NEW c \in Conns, NEW n \in Names, Login(c, n), users[n] = NoConn
      PROVE  Registry!Acquire(c, n)
  BY <1>2 DEF Login, Receiving, Registry!Acquire
<1>3. ASSUME NEW c \in Conns, OnClose(c) PROVE Registry!Depart(c)
  <2>1. status[c] = "closing" /\ status' = [status EXCEPT ![c] = "closed"]
    BY <1>3 DEF OnClose, Notify
  <2>2. c \notin Departed /\ Departed' = Departed \union {c}
    BY <2>1 DEF TypeOK
  <2>. DEFINE freed == IF name[c] = NoName THEN {} ELSE {name[c]}
  <2>3. freed \in SUBSET {n \in Names : users[n] = c}
    BY <2>1 DEF RegistryExact, TypeOK
  <2>4. users' = [n \in Names |-> IF n \in freed THEN NoConn ELSE users[n]]
    BY <1>3, Zenon DEF OnClose, Notify, TypeOK
  <2>. QED  BY <2>2, <2>3, <2>4, Zenon DEF Registry!Depart, Registry!OwnedBy
<1>4. ASSUME Aloof PROVE UNCHANGED <<users, Departed>>
  BY <1>4 DEF Aloof, TypeOK
<1>. QED
  BY <1>1, <1>2, <1>3, <1>4, StepKinds DEF Registry!Next, Registry!regvars

\* The server implements the abstract directory of names: a name is taken only
\* when it is free and freed only by the departure of its owner.
THEOREM ImplementsRegistry == Spec => RegistryPromise
<1>1. Init => TypeOK /\ Fresh /\ RegistryExact
  BY DEF Init, TypeOK, Fresh, RegistryExact
<1>2. TypeOK /\ Fresh /\ RegistryExact /\ [Next]_vars
        => (TypeOK /\ Fresh /\ RegistryExact)'
  BY TypeStep, RegistryStep
<1>3. TypeOK /\ Fresh /\ RegistryExact /\ [Next]_vars
        => [Registry!Next]_(Registry!regvars)
  BY RegistryRefineStep
<1>4. Init => Registry!Init
  BY RegistryInit
<1>. QED  BY <1>1, <1>2, <1>3, <1>4, PTL DEF Spec, RegistryPromise, Registry!Spec

-----------------------------------------------------------------------------
(* Facts about queues, after a message was appended to one or its first    *)
(* message was taken, for the proofs about the pages.                      *)

\* The first message and the others.
LEMMA TailEffect ==
  ASSUME NEW T, NEW q \in Seq(T), q # <<>>
  PROVE  \E k \in Nat : /\ Len(q) = k + 1 /\ Len(Tail(q)) = k /\ Head(q) = q[1]
                        /\ \A i \in 1..k : Tail(q)[i] = q[i + 1]
<1>1. Len(q) \in Nat /\ Len(q) # 0
  OBVIOUS
<1>2. Len(q) - 1 \in Nat /\ Len(q) = (Len(q) - 1) + 1
  BY <1>1
<1>3. PICK k \in Nat : Len(q) = k + 1
  BY <1>2, Zenon
<1>4. /\ Len(Tail(q)) = k /\ Head(q) = q[1]
      /\ \A i \in 1..k : Tail(q)[i] = q[i + 1]
  BY <1>3
<1>. QED  BY <1>3, <1>4

\* A queue after a message was appended.
LEMMA AppendEffect ==
  ASSUME NEW T, NEW q \in Seq(T), NEW m
  PROVE  \E k \in Nat : /\ Len(q) = k /\ Len(Append(q, m)) = k + 1
                        /\ Append(q, m)[k + 1] = m
                        /\ \A i \in 1..k : Append(q, m)[i] = q[i]
OBVIOUS

-----------------------------------------------------------------------------
\* Nothing is in an empty queue.
LEMMA HasEmpty == \A S : ~ Has(<<>>, S)
BY DEF Has

\* What is in the queue after an append.
LEMMA HasAppend ==
  ASSUME NEW T, NEW q \in Seq(T), NEW m, NEW S
  PROVE  Has(Append(q, m), S) <=> Has(q, S) \/ m \in S
<1>1. PICK k \in Nat : /\ Len(q) = k /\ Len(Append(q, m)) = k + 1
                       /\ Append(q, m)[k + 1] = m
                       /\ \A i \in 1..k : Append(q, m)[i] = q[i]
  BY AppendEffect
<1>. QED  BY <1>1 DEF Has

\* What is in the queue before and after its first message was taken.
LEMMA HasTail ==
  ASSUME NEW T, NEW q \in Seq(T), q # <<>>, NEW S
  PROVE  Has(q, S) <=> Head(q) \in S \/ Has(Tail(q), S)
<1>1. PICK k \in Nat : /\ Len(q) = k + 1 /\ Len(Tail(q)) = k /\ Head(q) = q[1]
                       /\ \A i \in 1..k : Tail(q)[i] = q[i + 1]
  BY TailEffect
<1>2. ASSUME NEW i \in 1..(k + 1), q[i] \in S, i # 1 PROVE Has(Tail(q), S)
  <2>1. i - 1 \in 1..k /\ (i - 1) + 1 = i
    BY <1>2
  <2>. QED  BY <1>1, <1>2, <2>1 DEF Has
<1>3. ASSUME NEW i \in 1..k, Tail(q)[i] \in S PROVE Has(q, S)
  <2>1. i + 1 \in 1..(k + 1)
    OBVIOUS
  <2>. QED  BY <1>1, <1>3, <2>1 DEF Has
<1>4. Head(q) \in S => Has(q, S)
  BY <1>1 DEF Has
<1>. QED  BY <1>1, <1>2, <1>3, <1>4 DEF Has

-----------------------------------------------------------------------------
\* What is not there is led by anything.
LEMMA LedAbsent == ASSUME NEW q, NEW S, NEW T, ~ Has(q, T) PROVE Led(q, S, T)
BY DEF Has, Led

\* The order holds after an append, if what must follow has something to follow.
LEMMA LedAppend ==
  ASSUME NEW U, NEW q \in Seq(U), NEW m, NEW S, NEW T, Led(q, S, T),
         m \in T => Has(q, S)
  PROVE  Led(Append(q, m), S, T)
<1>1. PICK k \in Nat : /\ Len(q) = k /\ Len(Append(q, m)) = k + 1
                       /\ Append(q, m)[k + 1] = m
                       /\ \A i \in 1..k : Append(q, m)[i] = q[i]
  BY AppendEffect
<1>2. ASSUME NEW i \in 1..k, q[i] \in T PROVE \E j \in 1..(i - 1) : Append(q, m)[j] \in S
  <2>1. PICK j \in 1..(i - 1) : q[j] \in S
    BY <1>1, <1>2 DEF Led
  <2>2. j \in 1..k
    OBVIOUS
  <2>. QED  BY <1>1, <2>1, <2>2
<1>3. ASSUME m \in T PROVE \E j \in 1..k : Append(q, m)[j] \in S
  BY <1>1, <1>3 DEF Has
<1>. QED  BY <1>1, <1>2, <1>3 DEF Led

\* The first message follows nothing; without it, the order holds unless others follow it.
LEMMA LedTail ==
  ASSUME NEW U, NEW q \in Seq(U), q # <<>>, NEW S, NEW T, Led(q, S, T)
  PROVE  Head(q) \notin T /\ (Head(q) \in S \/ Led(Tail(q), S, T))
<1>1. PICK k \in Nat : /\ Len(q) = k + 1 /\ Len(Tail(q)) = k /\ Head(q) = q[1]
                       /\ \A i \in 1..k : Tail(q)[i] = q[i + 1]
  BY TailEffect
<1>2. Head(q) \notin T
  BY <1>1 DEF Led
<1>3. ASSUME Head(q) \notin S, NEW i \in 1..k, Tail(q)[i] \in T
      PROVE  \E j \in 1..(i - 1) : Tail(q)[j] \in S
  <2>1. i + 1 \in 1..(k + 1) /\ (i + 1) - 1 = i
    OBVIOUS
  <2>2. PICK j \in 1..i : q[j] \in S
    BY <1>1, <1>3, <2>1 DEF Led
  <2>3. j # 1
    BY <1>1, <1>3, <2>2
  <2>4. j - 1 \in 1..(i - 1) /\ j - 1 \in 1..k /\ (j - 1) + 1 = j
    BY <2>3
  <2>. QED  BY <1>1, <2>2, <2>4, Zenon
<1>. QED  BY <1>1, <1>2, <1>3 DEF Led

-----------------------------------------------------------------------------
\* A longer list of what is allowed.
LEMMA SeqGrows == ASSUME NEW S, NEW T, NEW q \in Seq(S), S \subseteq T PROVE q \in Seq(T)
OBVIOUS

\* An append of something allowed.
LEMMA SeqAppend == ASSUME NEW U, NEW q \in Seq(U), NEW m \in U PROVE Append(q, m) \in Seq(U)
OBVIOUS

\* A queue of allowed messages holds none of the others, ...
LEMMA SeqLacks == ASSUME NEW U, NEW q \in Seq(U), NEW S, U \cap S = {} PROVE ~ Has(q, S)
BY DEF Has

\* ... and one that holds none of S is a queue of the others.
LEMMA SeqWithout ==
  ASSUME NEW U, NEW q \in Seq(U), NEW S, ~ Has(q, S) PROVE q \in Seq(U \ S)
<1>1. \A i \in 1..Len(q) : q[i] \in U \ S
  BY DEF Has
<1>. QED  BY <1>1

\* The first message and the others are allowed.
LEMMA SeqParts ==
  ASSUME NEW U, NEW q \in Seq(U), q # <<>> PROVE Head(q) \in U /\ Tail(q) \in Seq(U)
OBVIOUS

\* A message that nothing precedes is alone.
LEMMA AloneAppend ==
  ASSUME NEW T, NEW q \in Seq(T), NEW m, NEW S
  PROVE  /\ ~ Has(q, S) => Alone(Append(q, m), S)
         /\ m \notin S /\ Alone(q, S) => Alone(Append(q, m), S)
<1>1. PICK k \in Nat : /\ Len(q) = k /\ Len(Append(q, m)) = k + 1
                       /\ Append(q, m)[k + 1] = m
                       /\ \A i \in 1..k : Append(q, m)[i] = q[i]
  BY AppendEffect
<1>2. \A i \in 1..(k + 1) : i \in 1..k \/ i = k + 1
  OBVIOUS
<1>. QED  BY <1>1, <1>2 DEF Has, Alone

\* Once the only one is taken, none is left.
LEMMA AloneTail ==
  ASSUME NEW T, NEW q \in Seq(T), q # <<>>, NEW S, Alone(q, S)
  PROVE  Alone(Tail(q), S) /\ (Head(q) \in S => ~ Has(Tail(q), S))
<1>1. PICK k \in Nat : /\ Len(q) = k + 1 /\ Len(Tail(q)) = k /\ Head(q) = q[1]
                       /\ \A i \in 1..k : Tail(q)[i] = q[i + 1]
  BY TailEffect
<1>2. \A i \in 1..k : i + 1 \in 1..(k + 1) /\ i + 1 # 1
  OBVIOUS
<1>3. \A i, j \in 1..k : i + 1 = j + 1 => i = j
  OBVIOUS
<1>. QED  BY <1>1, <1>2, <1>3 DEF Has, Alone

\* What a slight change, with messages that play no part, leaves as it was.
LEMMA SlightKeeps ==
  ASSUME NEW U, NEW q \in Seq(U), NEW N, N \subseteq U, NEW r, Slight(q, r, N)
  PROVE  /\ r \in Seq(U)
         /\ \A S : S \cap N = {} =>
              (Has(r, S) <=> Has(q, S)) /\ (Alone(q, S) => Alone(r, S))
         /\ \A S, T : S \cap N = {} /\ T \cap N = {} /\ Led(q, S, T) => Led(r, S, T)
<1>1. CASE r = q
  BY <1>1, Zenon
<1>2. ASSUME NEW m \in N, r = Append(q, m)
      PROVE  /\ r \in Seq(U)
             /\ \A S : S \cap N = {} =>
                  (Has(r, S) <=> Has(q, S)) /\ (Alone(q, S) => Alone(r, S))
             /\ \A S, T : S \cap N = {} /\ T \cap N = {} /\ Led(q, S, T) => Led(r, S, T)
  <2>1. Append(q, m) \in Seq(U)
    BY <1>2
  <2>2. ASSUME NEW S, S \cap N = {}
        PROVE  /\ Has(Append(q, m), S) <=> Has(q, S)
               /\ Alone(q, S) => Alone(Append(q, m), S)
    BY <2>2, HasAppend, AloneAppend
  <2>3. ASSUME NEW S, NEW T, T \cap N = {}, Led(q, S, T) PROVE Led(Append(q, m), S, T)
    BY <2>3, LedAppend
  <2>. QED  BY <1>2, <2>1, <2>2, <2>3, Zenon
<1>3. ASSUME q # <<>>, Head(q) \in N, r = Tail(q)
      PROVE  /\ r \in Seq(U)
             /\ \A S : S \cap N = {} =>
                  (Has(r, S) <=> Has(q, S)) /\ (Alone(q, S) => Alone(r, S))
             /\ \A S, T : S \cap N = {} /\ T \cap N = {} /\ Led(q, S, T) => Led(r, S, T)
  <2>1. Tail(q) \in Seq(U)
    BY <1>3
  <2>2. ASSUME NEW S, S \cap N = {}
        PROVE  /\ Has(Tail(q), S) <=> Has(q, S)
               /\ Alone(q, S) => Alone(Tail(q), S)
    BY <1>3, <2>2, HasTail, AloneTail
  <2>3. ASSUME NEW S, NEW T, S \cap N = {}, Led(q, S, T) PROVE Led(Tail(q), S, T)
    BY <1>3, <2>3, LedTail
  <2>. QED  BY <1>3, <2>1, <2>2, <2>3, Zenon
<1>. QED  BY <1>1, <1>2, <1>3, Zenon DEF Slight

-----------------------------------------------------------------------------
(* Counting.                                                               *)

\* Nothing is in an empty queue.
LEMMA AtMostEmpty == ASSUME NEW S, NEW n \in Nat PROVE AtMost(<<>>, S, n)
<1>1. PICK h : h = [i \in 1..(0 + 1) |-> n]
  BY Zenon
<1>2. Counts(h, <<>>, S, 0) /\ h[1] = n
  BY <1>1 DEF Counts
<1>3. Len(<<>>) = 0
  OBVIOUS
<1>. QED  BY <1>2, <1>3, Zenon DEF AtMost

\* One more message, counted by one if it has to be: n is the new count.
LEMMA CountOn ==
  ASSUME NEW T, NEW q \in Seq(T), NEW S, NEW h, Counts(h, q, S, Len(q)), NEW m,
         NEW d \in {0, 1}, One(m, S) <= d
  PROVE  AtMost(Append(q, m), S, h[1] + d)
<1>1. PICK k \in Nat : /\ Len(q) = k /\ Len(Append(q, m)) = k + 1
                       /\ Append(q, m)[k + 1] = m
                       /\ \A i \in 1..k : Append(q, m)[i] = q[i]
  BY AppendEffect
<1>2. PICK r : r = Append(q, m)
  BY Zenon
<1>3. h \in [1..(k + 1) -> Nat] /\ \A i \in 1..k : h[i] = h[i + 1] + One(r[i], S)
  BY <1>1, <1>2 DEF Counts
<1>4. PICK e \in Nat : d = e + One(m, S)
  BY DEF One
<1>5. PICK g : g = [i \in 1..((k + 1) + 1) |-> IF i \in 1..(k + 1) THEN h[i] + d ELSE h[k + 1] + e]
  BY Zenon
<1>6. /\ g \in [1..((k + 1) + 1) -> Nat] /\ g[(k + 1) + 1] = h[k + 1] + e
      /\ \A i \in 1..(k + 1) : g[i] = h[i] + d
  <2>1. h[k + 1] + e \in Nat /\ \A i \in 1..(k + 1) : h[i] + d \in Nat
    BY <1>3
  <2>2. g \in [1..((k + 1) + 1) -> Nat]
    BY <1>5, <2>1
  <2>3. g[(k + 1) + 1] = h[k + 1] + e /\ \A i \in 1..(k + 1) : g[i] = h[i] + d
    BY <1>5
  <2>. QED  BY <2>2, <2>3, Zenon
<1>7. ASSUME NEW i \in 1..(k + 1) PROVE g[i] = g[i + 1] + One(r[i], S)
  <2>1. CASE i = k + 1
    <3>1. g[i] = h[k + 1] + d /\ g[i + 1] = h[k + 1] + e /\ r[i] = m
      BY <1>1, <1>2, <1>6, <2>1
    <3>2. h[k + 1] \in Nat
      BY <1>3
    <3>. QED  BY <1>4, <3>1, <3>2 DEF One
  <2>2. CASE i \in 1..k
    <3>1. g[i] = h[i] + d /\ g[i + 1] = h[i + 1] + d /\ h[i] = h[i + 1] + One(r[i], S)
      <4>1. i \in 1..(k + 1) /\ i + 1 \in 1..(k + 1)
        BY <2>2
      <4>2. \A j \in 1..(k + 1) : g[j] = h[j] + d
        BY <1>6
      <4>. QED  BY <1>3, <2>2, <4>1, <4>2, Zenon
    <3>2. h[i + 1] \in Nat
      BY <1>3, <2>2
    <3>. QED  BY <3>1, <3>2 DEF One
  <2>. QED  BY <2>1, <2>2
<1>8. Counts(g, r, S, Len(r)) /\ g[1] = h[1] + d
  <2>1. Len(r) = k + 1 /\ 1 \in 1..(k + 1)
    BY <1>1, <1>2
  <2>2. Counts(g, r, S, k + 1)
    BY <1>6, <1>7, Zenon DEF Counts
  <2>. QED  BY <1>6, <2>1, <2>2, Zenon
<1>. QED  BY <1>2, <1>8, Zenon DEF AtMost

\* A queue that is left alone, or gets a message of another kind, holds no more.
LEMMA AtMostSame ==
  ASSUME NEW T, NEW q \in Seq(T), NEW S, NEW n \in Nat, AtMost(q, S, n), NEW r,
         r = q \/ \E m : m \notin S /\ r = Append(q, m)
  PROVE  AtMost(r, S, n)
<1>1. CASE r = q
  BY <1>1, Zenon
<1>2. ASSUME NEW m, m \notin S PROVE AtMost(Append(q, m), S, n)
  <2>1. PICK h : Counts(h, q, S, Len(q)) /\ h[1] = n
    BY Zenon DEF AtMost
  <2>2. One(m, S) <= 0 /\ 0 \in {0, 1} /\ n + 0 = n
    BY <1>2 DEF One
  <2>3. AtMost(Append(q, m), S, h[1] + 0)
    BY <2>1, <2>2, CountOn, Zenon
  <2>. QED  BY <2>1, <2>2, <2>3, Zenon
<1>. QED  BY <1>1, <1>2, Zenon

\* A queue that gets at most one message holds at most one more.
LEMMA AtMostMore ==
  ASSUME NEW T, NEW q \in Seq(T), NEW S, NEW n \in Nat, AtMost(q, S, n), NEW r,
         r = q \/ \E m : r = Append(q, m)
  PROVE  AtMost(r, S, n + 1)
<1>1. PICK h : Counts(h, q, S, Len(q)) /\ h[1] = n
  BY Zenon DEF AtMost
<1>2. CASE r = q
  <2>1. PICK k \in Nat : k = Len(q)
    OBVIOUS
  <2>2. h \in [1..(k + 1) -> Nat] /\ \A i \in 1..k : h[i] = h[i + 1] + One(q[i], S)
    BY <1>1, <2>1 DEF Counts
  <2>3. PICK g : g = [i \in 1..(k + 1) |-> h[i] + 1]
    BY Zenon
  <2>4. g \in [1..(k + 1) -> Nat] /\ g[1] = n + 1
    BY <1>1, <2>2, <2>3
  <2>5. ASSUME NEW i \in 1..k PROVE g[i] = g[i + 1] + One(q[i], S)
    <3>1. /\ g[i] = h[i] + 1 /\ g[i + 1] = h[i + 1] + 1 /\ h[i + 1] \in Nat
          /\ h[i] = h[i + 1] + One(q[i], S)
      BY <2>2, <2>3
    <3>. QED  BY <3>1 DEF One
  <2>6. Counts(g, q, S, Len(q))
    BY <2>1, <2>4, <2>5 DEF Counts
  <2>. QED  BY <1>2, <2>4, <2>6, Zenon DEF AtMost
<1>3. ASSUME NEW m PROVE AtMost(Append(q, m), S, n + 1)
  <2>1. One(m, S) <= 1 /\ 1 \in {0, 1}
    BY DEF One
  <2>. QED  BY <1>1, <2>1, CountOn, Zenon
<1>. QED  BY <1>2, <1>3, Zenon

\* Taking the first message takes one of those that were counted, or none.
LEMMA AtMostTail ==
  ASSUME NEW T, NEW q \in Seq(T), q # <<>>, NEW S, NEW n \in Nat, AtMost(q, S, n)
  PROVE  /\ Head(q) \notin S => AtMost(Tail(q), S, n)
         /\ Head(q) \in S => \E k \in Nat : n = k + 1 /\ AtMost(Tail(q), S, k)
<1>1. PICK l \in Nat : /\ Len(q) = l + 1 /\ Len(Tail(q)) = l /\ Head(q) = q[1]
                       /\ \A i \in 1..l : Tail(q)[i] = q[i + 1]
  BY TailEffect
<1>2. PICK r : r = Tail(q)
  BY Zenon
<1>3. PICK h : Counts(h, q, S, Len(q)) /\ h[1] = n
  BY Zenon DEF AtMost
<1>4. /\ h \in [1..((l + 1) + 1) -> Nat]
      /\ \A i \in 1..(l + 1) : h[i] = h[i + 1] + One(q[i], S)
  BY <1>1, <1>3 DEF Counts
<1>5. PICK g : g = [i \in 1..(l + 1) |-> h[i + 1]]
  BY Zenon
<1>6. g \in [1..(l + 1) -> Nat] /\ g[1] = h[2]
  BY <1>4, <1>5
<1>7. ASSUME NEW i \in 1..l PROVE g[i] = g[i + 1] + One(r[i], S)
  BY <1>1, <1>2, <1>4, <1>5
<1>8. AtMost(r, S, h[2])
  <2>1. Counts(g, r, S, Len(r))
    BY <1>1, <1>2, <1>6, <1>7 DEF Counts
  <2>. QED  BY <1>6, <2>1, Zenon DEF AtMost
<1>9. h[2] \in Nat /\ n = h[2] + One(Head(q), S)
  BY <1>1, <1>3, <1>4
<1>10. ASSUME Head(q) \notin S PROVE AtMost(r, S, n)
  <2>1. h[2] = n
    BY <1>9, <1>10 DEF One
  <2>. QED  BY <1>8, <2>1, Zenon
<1>11. ASSUME Head(q) \in S PROVE \E k \in Nat : n = k + 1 /\ AtMost(r, S, k)
  <2>1. n = h[2] + 1
    BY <1>9, <1>11 DEF One
  <2>. QED  BY <1>8, <1>9, <2>1, Zenon
<1>. QED  BY <1>2, <1>10, <1>11, Zenon

-----------------------------------------------------------------------------
(* A description and the candidates behind it.                             *)

\* Anything may be sent to the page, since a description has been sent.
LEMMA HeardSend ==
  ASSUME NEW rm, NEW d, NEW T, NEW O \in Seq(T), NEW S, NEW A, NEW U, NEW X \in Seq(U), NEW M,
         NEW C, Heard(rm, d, O, S, A, X, M, C), NEW m
  PROVE  Heard(rm, d, O, S, A, Append(X, m), M, C)
BY HasAppend, LedAppend DEF Heard

\* The page reads something else than a description of d, or a candidate of d.
LEMMA HeardRead ==
  ASSUME NEW rm, NEW d, NEW T, NEW O \in Seq(T), NEW S, NEW A, NEW U, NEW X \in Seq(U), NEW M,
         NEW C, Heard(rm, d, O, S, A, X, M, C), X # <<>>, Head(X) \notin M
  PROVE  /\ Heard(rm, d, O, S, A, Tail(X), M, C)
         /\ \A a : Head(X) \in C \/ a \notin A => Heard(rm, d, Append(O, a), S, A, Tail(X), M, C)
<1>1. CASE rm = d
  BY <1>1 DEF Heard
<1>2. CASE Has(O, S) /\ Led(O, S, A)
  BY <1>2, HasAppend, LedAppend DEF Heard
<1>3. CASE Has(X, M) /\ Led(X, M, C) /\ ~ Has(O, A)
  <2>1. Has(Tail(X), M) /\ Led(Tail(X), M, C) /\ Head(X) \notin C
    BY <1>3, HasTail, LedTail
  <2>2. ASSUME NEW a, a \notin A PROVE ~ Has(Append(O, a), A)
    BY <1>3, <2>2, HasAppend
  <2>. QED  BY <1>3, <2>1, <2>2 DEF Heard
<1>. QED  BY <1>1, <1>2, <1>3 DEF Heard

\* The page reads the description, and queues setting it.
LEMMA HeardDescription ==
  ASSUME NEW rm, NEW d, NEW T, NEW O \in Seq(T), NEW S, NEW A, S \cap A = {}, NEW U, NEW X \in Seq(U),
         NEW M, NEW C, Heard(rm, d, O, S, A, X, M, C), NEW s \in S, NEW Y
  PROVE  Heard(rm, d, Append(O, s), S, A, Y, M, C)
<1>1. Has(Append(O, s), S)
  BY HasAppend
<1>2. Led(O, S, A) => Led(Append(O, s), S, A)
  BY LedAppend
<1>3. ~ Has(O, A) => Led(O, S, A)
  BY LedAbsent
<1>. QED  BY <1>1, <1>2, <1>3 DEF Heard

\* More operations that do not add candidates of d.
LEMMA HeardQueue ==
  ASSUME NEW rm, NEW d, NEW T, NEW O \in Seq(T), NEW S, NEW A, NEW X,
         NEW M, NEW C, Heard(rm, d, O, S, A, X, M, C), NEW o, o \notin A
  PROVE  Heard(rm, d, Append(O, o), S, A, X, M, C)
BY HasAppend, LedAppend DEF Heard

\* An operation is done that does not set the description of d.
LEMMA HeardDone ==
  ASSUME NEW rm, NEW d, NEW T, NEW O \in Seq(T), NEW S, NEW A, NEW X,
         NEW M, NEW C, Heard(rm, d, O, S, A, X, M, C), O # <<>>, Head(O) \notin S
  PROVE  Heard(rm, d, Tail(O), S, A, X, M, C)
BY HasTail, LedTail DEF Heard
=============================================================================
