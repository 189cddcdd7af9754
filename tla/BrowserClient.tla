--------------------------- MODULE BrowserClient ---------------------------
(***************************************************************************)
(* The browser client, tests/client.js: one page per connection, with the  *)
(* globals connectedUser and myConnection.  Every login that succeeds      *)
(* makes a new RTCPeerConnection; the ones before it stay alive, and their *)
(* callbacks use whatever the globals are by then.  JavaScript runs one    *)
(* handler or callback at a time; a TypeError only ends the handler.       *)
(***************************************************************************)
EXTENDS SignallingMessages

CONSTANTS MaxLogins,  \* bound on the clicks of loginBtn
          MaxDials,   \* bound on the clicks of connectToOtherUsernameBtn
          MaxCands,   \* bound on the candidates gathered by one connection
          MaxWire     \* bound on the messages in flight to the server

ASSUME ClientAssumption == /\ MaxLogins \in Nat /\ MaxDials \in Nat
                           /\ MaxCands \in Nat /\ MaxWire \in Nat

VARIABLES connectedUser,  \* whom every message of the page is addressed to
          myConnection,   \* the current RTCPeerConnection: 0 is undefined
          peer,           \* the RTCPeerConnections of each page
          wire,           \* messages sent and not yet read by the server
          clicks          \* how often the buttons were used

clientvars == <<connectedUser, myConnection, peer, wire, clicks>>

Peers == 1..MaxLogins

-----------------------------------------------------------------------------
(* RTCPeerConnection, as the page uses it.  Operations are queued and run  *)
(* one after the other; an operation that is not legal in the signalling   *)
(* state fails, and a failed set or add is seen by nobody.                 *)

NewPeer == [state |-> "stable", local |-> FALSE, remote |-> NoConn,
            cands |-> 0, ops |-> <<>>]

Op(do, type, p) == [do |-> do, type |-> type, blob |-> p]

\* Signalling state, which description, its type, next state.  A remote offer that
\* meets a local one is refused, or rolls it back, depending on the browser.
Transitions ==
  {<<"stable", "setLocal", "offer", "have-local-offer">>,
   <<"have-local-offer", "setLocal", "offer", "have-local-offer">>,
   <<"have-remote-offer", "setLocal", "answer", "stable">>,
   <<"stable", "setRemote", "offer", "have-remote-offer">>,
   <<"have-remote-offer", "setRemote", "offer", "have-remote-offer">>,
   <<"have-local-offer", "setRemote", "offer", "have-local-offer">>,
   <<"have-local-offer", "setRemote", "offer", "have-remote-offer">>,
   <<"have-local-offer", "setRemote", "answer", "stable">>}

SignallingStates == {"stable", "have-local-offer", "have-remote-offer"}

\* The signalling states that op may lead to.
After(r, op) ==
  {s \in SignallingStates : <<r.state, op.do, op.type, s>> \in Transitions}

\* The connection once a description was set.
Described(r, op, state) ==
  IF op.do = "setLocal" THEN [r EXCEPT !.state = state, !.local = TRUE]
  ELSE IF op.type = "offer" /\ state # "have-remote-offer" THEN r
  ELSE [r EXCEPT !.state = state, !.remote = op.blob.from]

\* Queue operations on the connection that myConnection is now.
Enqueue(peers, c, ops) ==
  [peers EXCEPT ![c][myConnection[c]].ops = @ \o ops]

-----------------------------------------------------------------------------
ClientInit == /\ connectedUser = [c \in Conns |-> NoName]
              /\ myConnection = [c \in Conns |-> 0]
              /\ peer = [c \in Conns |-> [g \in Peers |-> NewPeer]]
              /\ wire = [c \in Conns |-> <<>>]
              /\ clicks = [c \in Conns |-> [login |-> 0, dial |-> 0]]

CanSend(c) == Len(wire[c]) < MaxWire

\* Mutated send: the name is replaced without a test.
sendToConnected(c, type, n, p) ==
  wire' = [wire EXCEPT ![c] = Append(@, Request(type, connectedUser[c], p))]

\* send: connectedUser replaces the name in the message, if it is set.
send(c, type, n, p) ==
  wire' = [wire EXCEPT ![c] =
             Append(@, Request(type, IF connectedUser[c] = NoName THEN n
                                     ELSE connectedUser[c], p))]

\* loginBtn is clicked with the name n entered.
loginBtn(c, n) ==
  /\ clicks[c].login < MaxLogins /\ CanSend(c)
  /\ clicks' = [clicks EXCEPT ![c].login = @ + 1]
  /\ send(c, "login", n, NoBlob)
  /\ UNCHANGED <<connectedUser, myConnection, peer>>

\* connectToOtherUsernameBtn is clicked: createOffer, unless the name is empty or
\* there is no connection (a TypeError, after connectedUser was set).
connectToOtherUsernameBtn(c, n) ==
  /\ clicks[c].dial < MaxDials
  /\ clicks' = [clicks EXCEPT ![c].dial = @ + 1]
  /\ connectedUser' = [connectedUser EXCEPT ![c] = n]
  /\ peer' = IF n = NoName \/ myConnection[c] = 0 THEN peer
             ELSE Enqueue(peer, c, <<Op("createOffer", "offer", NoBlob)>>)
  /\ UNCHANGED <<myConnection, wire>>

-----------------------------------------------------------------------------
(* connection.onmessage: one handler per type.                             *)

\* Mutated onLogin: the branches are swapped.
onLoginSwapped(c, success) ==
  /\ myConnection' = IF success THEN myConnection
                     ELSE [myConnection EXCEPT ![c] = @ + 1]
  /\ UNCHANGED <<connectedUser, peer, wire, clicks>>

\* A new connection, with its data channel, on success; an alert otherwise.
onLogin(c, success) ==
  /\ myConnection' = IF success THEN [myConnection EXCEPT ![c] = @ + 1]
                     ELSE myConnection
  /\ UNCHANGED <<connectedUser, peer, wire, clicks>>

\* A handler that starts with a call on myConnection.
OnPeer(c, ops) == peer' = IF myConnection[c] = 0 THEN peer ELSE Enqueue(peer, c, ops)

\* Mutated onOffer: the caller is not remembered.
onOfferAnonymous(c, offer, n) ==
  /\ OnPeer(c, <<Op("setRemote", "offer", offer), Op("createAnswer", "answer", NoBlob)>>)
  /\ UNCHANGED <<connectedUser, myConnection, wire, clicks>>

\* Mutated onOffer: the offer is not set.
onOfferUnset(c, offer, n) ==
  /\ connectedUser' = [connectedUser EXCEPT ![c] = n]
  /\ OnPeer(c, <<Op("createAnswer", "answer", NoBlob)>>)
  /\ UNCHANGED <<myConnection, wire, clicks>>

\* The caller becomes the one who is answered.
onOffer(c, offer, n) ==
  /\ connectedUser' = [connectedUser EXCEPT ![c] = n]
  /\ OnPeer(c, <<Op("setRemote", "offer", offer), Op("createAnswer", "answer", NoBlob)>>)
  /\ UNCHANGED <<myConnection, wire, clicks>>

onAnswer(c, answer) ==
  /\ OnPeer(c, <<Op("setRemote", "answer", answer)>>)
  /\ UNCHANGED <<connectedUser, myConnection, wire, clicks>>

onCandidate(c, candidate) ==
  /\ OnPeer(c, <<Op("addIceCandidate", "candidate", candidate)>>)
  /\ UNCHANGED <<connectedUser, myConnection, wire, clicks>>

\* Other types are ignored; the greeting is not JSON.
onmessage(c, m) ==
  \/ m.type = "login" /\ onLogin(c, m.success)
  \/ m.type = "offer" /\ onOffer(c, m.offer, m.name)
  \/ m.type = "answer" /\ onAnswer(c, m.answer)
  \/ m.type = "candidate" /\ onCandidate(c, m.candidate)
  \/ m.type \in {"hello", "leave", "error"} /\ UNCHANGED clientvars

-----------------------------------------------------------------------------
(* The callbacks of a connection g of page c, when its first operation is  *)
(* done.                                                                   *)

Running(c, g, do) == peer[c][g].ops # <<>> /\ Head(peer[c][g].ops).do = do
Done(c, g) == [peer EXCEPT ![c][g].ops = Tail(@)]

\* createOffer's callback: send the offer, then set it.  Its other callback alerts.
OfferCreated(c, g) ==
  /\ Running(c, g, "createOffer") /\ CanSend(c)
  /\ IF peer[c][g].state = "have-remote-offer"
       THEN peer' = Done(c, g) /\ UNCHANGED wire
       ELSE /\ send(c, "offer", NoName, [from |-> c, re |-> NoConn])
            /\ peer' = Enqueue(Done(c, g), c, <<Op("setLocal", "offer", NoBlob)>>)
  /\ UNCHANGED <<connectedUser, myConnection, clicks>>

\* Mutated callback: the caller's own description is sent back as the answer.
AnswerEchoed(c, g) ==
  /\ Running(c, g, "createAnswer") /\ CanSend(c)
  /\ peer[c][g].state = "have-remote-offer"
  /\ send(c, "answer", NoName, [from |-> peer[c][g].remote, re |-> peer[c][g].remote])
  /\ peer' = Enqueue(Done(c, g), c, <<Op("setLocal", "answer", NoBlob)>>)
  /\ UNCHANGED <<connectedUser, myConnection, clicks>>

\* createAnswer's callback: set the answer and send it.
AnswerCreated(c, g) ==
  /\ Running(c, g, "createAnswer") /\ CanSend(c)
  /\ IF peer[c][g].state # "have-remote-offer"
       THEN peer' = Done(c, g) /\ UNCHANGED wire
       ELSE /\ send(c, "answer", NoName, [from |-> c, re |-> peer[c][g].remote])
            /\ peer' = Enqueue(Done(c, g), c, <<Op("setLocal", "answer", NoBlob)>>)
  /\ UNCHANGED <<connectedUser, myConnection, clicks>>

\* setLocalDescription or setRemoteDescription has been run: nobody is told.
DescriptionSet(c, g) ==
  /\ Running(c, g, "setLocal") \/ Running(c, g, "setRemote")
  /\ LET r == peer[c][g]
         op == Head(r.ops)
     IN  \/ After(r, op) = {} /\ peer' = Done(c, g)
         \/ \E s \in After(r, op) :
              peer' = [Done(c, g) EXCEPT ![c][g] = Described(@, op, s)]
  /\ UNCHANGED <<connectedUser, myConnection, wire, clicks>>

\* addIceCandidate has been run; without a remote description it failed.
CandidateAdded(c, g) ==
  /\ Running(c, g, "addIceCandidate")
  /\ peer' = Done(c, g)
  /\ UNCHANGED <<connectedUser, myConnection, wire, clicks>>

\* onicecandidate: candidates are gathered once there is a local description.
onicecandidate(c, g) ==
  /\ peer[c][g].local /\ peer[c][g].cands < MaxCands /\ CanSend(c)
  /\ peer' = [peer EXCEPT ![c][g].cands = @ + 1]
  /\ send(c, "candidate", NoName, [from |-> c, re |-> NoConn])
  /\ UNCHANGED <<connectedUser, myConnection, clicks>>

Callback(c, g) == \/ OfferCreated(c, g) \/ AnswerCreated(c, g)
                  \/ DescriptionSet(c, g) \/ CandidateAdded(c, g)
=============================================================================
