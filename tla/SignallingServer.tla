-------------------------- MODULE SignallingServer --------------------------
(***************************************************************************)
(* The signalling server, tests/signallingserver.js: one Node.js process   *)
(* whose event loop runs one handler at a time.  Each WebSocket connection *)
(* object carries two fields set by the handlers, name and otherName; the  *)
(* process keeps the directory users.  A TypeError thrown by a handler is  *)
(* not caught anywhere, so it ends the process: up becomes FALSE.          *)
(***************************************************************************)
EXTENDS SignallingMessages

CONSTANT MaxQueue   \* bound on the messages in flight to one client

ASSUME ServerAssumption == /\ NoConn \notin Conns
                           /\ NoName \notin Names
                           /\ \A p \in Payloads : p.from \in Conns
                           /\ MaxQueue \in Nat

VARIABLES up,         \* the process is running
          status,     \* WebSocket readyState of each connection
          users,      \* users[n]: the connection stored under n, or NoConn
          name,       \* connection.name
          otherName,  \* connection.otherName
          outbox      \* messages sent and not yet received by the client

vars == <<up, status, users, name, otherName, outbox>>

-----------------------------------------------------------------------------
\* users[data.name]; a message without a name finds nothing.
Lookup(n) == IF n = NoName THEN NoConn ELSE users[n]

\* There is room in the queue to client d.
HasRoom(d) == Len(outbox[d]) < MaxQueue

\* sendTo: a send on a connection that is not OPEN is dropped by ws.
sendTo(d, m) ==
  outbox' = [outbox EXCEPT ![d] = IF status[d] = "open" THEN Append(@, m) ELSE @]

-----------------------------------------------------------------------------
Init == /\ up = TRUE
        /\ status = [c \in Conns |-> "new"]
        /\ users = [n \in Names |-> NoConn]
        /\ name = [c \in Conns |-> NoName]
        /\ otherName = [c \in Conns |-> NoName]
        /\ outbox = [c \in Conns |-> <<>>]

\* wss.on('connection'): install the handlers and greet the client.
OnConnection(c) ==
  /\ up
  /\ status[c] = "new"
  /\ status' = [status EXCEPT ![c] = "open"]
  /\ outbox' = [outbox EXCEPT ![c] = Append(@, Hello)]
  /\ UNCHANGED <<up, users, name, otherName>>

\* connection.on('message') runs only while the connection is open.
Receiving(c) == up /\ status[c] = "open"

\* Mutated login: the directory stores the name instead of the connection.
LoginStoresName(c, n) ==
  /\ Receiving(c)
  /\ HasRoom(c)
  /\ users[n] = NoConn
  /\ users' = [users EXCEPT ![n] = n]
  /\ name' = [name EXCEPT ![c] = n]
  /\ sendTo(c, LoginReply(TRUE))
  /\ UNCHANGED <<up, status, otherName>>

\* Mutated login: the test for a name in use is missing.
LoginUnchecked(c, n) ==
  /\ Receiving(c)
  /\ HasRoom(c)
  /\ users' = [users EXCEPT ![n] = c]
  /\ name' = [name EXCEPT ![c] = n]
  /\ sendTo(c, LoginReply(TRUE))
  /\ UNCHANGED <<up, status, otherName>>

\* case "login": refuse a name that is in the directory, else store it.  The
\* name an earlier login of the same connection stored stays in the directory.
Login(c, n) ==
  /\ Receiving(c)
  /\ HasRoom(c)
  /\ IF users[n] # NoConn
       THEN /\ sendTo(c, LoginReply(FALSE))
            /\ UNCHANGED <<users, name>>
       ELSE /\ users' = [users EXCEPT ![n] = c]
            /\ name' = [name EXCEPT ![c] = n]
            /\ sendTo(c, LoginReply(TRUE))
  /\ UNCHANGED <<up, status, otherName>>

\* Mutated relay: the link is made before the user named n is looked up.
RelayLinksFirst(c, n, m, link) ==
  /\ Receiving(c)
  /\ otherName' = link
  /\ \/ Lookup(n) = NoConn /\ UNCHANGED outbox
     \/ Lookup(n) # NoConn /\ HasRoom(Lookup(n)) /\ sendTo(Lookup(n), m)
  /\ UNCHANGED <<up, status, users, name>>

\* Relay m to the user named n, if there is one; link is the otherName field of
\* the connections afterwards.
Relay(c, n, m, link) ==
  /\ Receiving(c)
  /\ \/ Lookup(n) = NoConn /\ UNCHANGED <<otherName, outbox>>
     \/ /\ Lookup(n) # NoConn
        /\ HasRoom(Lookup(n))
        /\ otherName' = link
        /\ sendTo(Lookup(n), m)
  /\ UNCHANGED <<up, status, users, name>>

\* Mutated offer: the offer carries the addressee's name, not the sender's.
OfferUnderOtherName(c, n, p) ==
  Relay(c, n, OfferMsg(p, n), [otherName EXCEPT ![c] = n])

\* case "offer": under the sender's name.
Offer(c, n, p) == Relay(c, n, OfferMsg(p, name[c]), [otherName EXCEPT ![c] = n])

\* case "answer": the sender is not named.
Answer(c, n, p) == Relay(c, n, AnswerMsg(p), [otherName EXCEPT ![c] = n])

\* case "candidate": the sender is not named, and no link is made.
Candidate(c, n, p) == Relay(c, n, CandidateMsg(p), otherName)

\* Tell conn that its partner left.  conn.otherName is assigned before conn is
\* tested, so a connection that is not in the directory throws.
Notify(conn) ==
  \/ /\ conn = NoConn
     /\ up' = FALSE
     /\ UNCHANGED <<otherName, outbox>>
  \/ /\ conn # NoConn
     /\ HasRoom(conn)
     /\ otherName' = [otherName EXCEPT ![conn] = NoName]
     /\ sendTo(conn, LeaveMsg)
     /\ UNCHANGED up

\* case "leave".
Leave(c, n) == /\ Receiving(c)
               /\ Notify(Lookup(n))
               /\ UNCHANGED <<status, users, name>>

\* The text null is JSON, and null.type throws outside the try.
NullMessage(c) ==
  /\ Receiving(c)
  /\ up' = FALSE
  /\ UNCHANGED <<status, users, name, otherName, outbox>>

\* default: any other type, and input that is not JSON (data = {}).
UnknownCommand(c) ==
  /\ Receiving(c)
  /\ HasRoom(c)
  /\ sendTo(c, ErrorMsg)
  /\ UNCHANGED <<up, status, users, name, otherName>>

\* Mutated close: the partner's name is deleted from the directory.
OnCloseDropsPartner(c) ==
  /\ up
  /\ status[c] = "closing"
  /\ status' = [status EXCEPT ![c] = "closed"]
  /\ users' = IF otherName[c] = NoName THEN users
              ELSE [users EXCEPT ![otherName[c]] = NoConn]
  /\ UNCHANGED <<up, name, otherName, outbox>>

\* connection.on('close'): forget the current name, then tell the partner.
OnClose(c) ==
  /\ up
  /\ status[c] = "closing"
  /\ status' = [status EXCEPT ![c] = "closed"]
  /\ users' = IF name[c] = NoName THEN users
              ELSE [users EXCEPT ![name[c]] = NoConn]
  /\ \/ /\ name[c] = NoName \/ otherName[c] = NoName
        /\ UNCHANGED <<up, otherName, outbox>>
     \/ /\ name[c] # NoName /\ otherName[c] # NoName
        /\ Notify(users'[otherName[c]])
  /\ UNCHANGED name

-----------------------------------------------------------------------------
(* The network (the ws library and TCP), outside the program.              *)

\* The client closes, or the socket fails: readyState leaves OPEN at once,
\* the close event follows.  What was still in flight is lost.
Disconnect(c) ==
  /\ up
  /\ status[c] = "open"
  /\ status' = [status EXCEPT ![c] = "closing"]
  /\ outbox' = [outbox EXCEPT ![c] = <<>>]
  /\ UNCHANGED <<up, users, name, otherName>>

\* The client receives the oldest message sent to it.
Receive(c) ==
  /\ outbox[c] # <<>>
  /\ outbox' = [outbox EXCEPT ![c] = Tail(@)]
  /\ UNCHANGED <<up, status, users, name, otherName>>

\* A handler run for one message of client c.  The blobs a client sends are
\* the ones it made.
OnMessage(c) ==
  \/ \E n \in Names : Login(c, n)
  \/ \E n \in Names \union {NoName}, p \in Payloads :
        /\ p.from = c
        /\ Offer(c, n, p) \/ Answer(c, n, p) \/ Candidate(c, n, p)
  \/ \E n \in Names \union {NoName} : Leave(c, n)
  \/ NullMessage(c) \/ UnknownCommand(c)

Next == \E c \in Conns : \/ OnConnection(c) \/ OnMessage(c) \/ OnClose(c)
                         \/ Disconnect(c) \/ Receive(c)

Spec == Init /\ [][Next]_vars

-----------------------------------------------------------------------------
(* Properties.                                                             *)

\* The values the handlers may leave in the process and in the queues.
TypeOK ==
  /\ up \in BOOLEAN
  /\ status \in [Conns -> {"new", "open", "closing", "closed"}]
  /\ users \in [Names -> Conns \union {NoConn}]
  /\ name \in [Conns -> Names \union {NoName}]
  /\ otherName \in [Conns -> Names \union {NoName}]
  /\ outbox \in [Conns -> Seq(Message)]

\* Under its current name a connection is in the directory exactly while it is
\* connected: whatever the order of logins, repeated logins and closes, no
\* other connection takes that name meanwhile, and the close handler frees it.
RegistryExact ==
  \A c \in Conns : name[c] # NoName =>
    (users[name[c]] = c <=> status[c] \in {"open", "closing"})

\* The name on an offer in flight still leads to the client that made the offer,
\* unless that client is gone: the answer the receiver addresses to that name
\* (client.js onOffer) is relayed to the caller and to nobody else.
OfferAuthentic ==
  \A d \in Conns : \A i \in 1..Len(outbox[d]) :
    LET m == outbox[d][i]
    IN  m.type = "offer" /\ m.name # NoName =>
          \/ users[m.name] = m.offer.from
          \/ status[m.offer.from] = "closed"

Registry == INSTANCE NameRegistry
              WITH owner <- users, departed <- {c \in Conns : status[c] = "closed"}

\* The server implements the abstract directory of names: a name is taken only
\* when it is free and is freed only by the departure of its owner.
RegistryPromise == Registry!Spec

\* "all connected to the server users" (signallingserver.js:7): every entry of
\* the directory is a connection that has not been closed.
AllUsersConnected ==
  \A n \in Names : users[n] # NoConn => status[users[n]] # "closed"

\* The close handler is meant to help "if we are still in "offer", "answer" or
\* "candidate" state" (signallingserver.js:125-126): the exit of a user who called
\* somebody else never ends the process.
SurvivesExit ==
  [][\A c \in Conns : OnClose(c) /\ otherName[c] # name[c] => up']_vars

\* otherName says whom "UserA connected with" (signallingserver.js:61), to
\* "notify the other user" (signallingserver.js:106) when UserA exits: the exit of a
\* user d leaves alone the link of a user c to somebody other than d.
LinkKeptAcrossExits ==
  [][\A c, d \in Conns :
       /\ OnClose(d)
       /\ status[c] = "open" /\ otherName[c] # NoName
       /\ users[otherName[c]] \notin {c, d, NoConn}
       => otherName'[c] = otherName[c]]_vars
=============================================================================
