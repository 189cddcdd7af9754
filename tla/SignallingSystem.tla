-------------------------- MODULE SignallingSystem --------------------------
(***************************************************************************)
(* The signalling server and the browser clients that use it.  A client's  *)
(* messages reach the server in order, the server's reach the client in    *)
(* order, and what is in flight when a connection closes is lost.  A page  *)
(* whose connection is closed reaches nobody and takes no more steps here. *)
(***************************************************************************)
EXTENDS SignallingServer, BrowserClient

CONSTANTS Logins,  \* the client and name of each login the users may attempt
          Dials    \* the client and name of each call they may make

ASSUME UsersAssumption == /\ Logins \subseteq Conns \X Names
                          /\ Dials \subseteq Conns \X (Names \union {NoName})

\* A blob is known by its maker and, for an answer, by the maker of the offer.
ASSUME BlobsAssumption == [from : Conns, re : Conns \union {NoConn}] \subseteq Payloads

sysvars == <<vars, clientvars>>

SysInit == Init /\ ClientInit

\* The page of c is open and connected.
Page(c) == up /\ status[c] = "open"

\* The server runs its handler for the first message of c.
Handle(c, m) ==
  \/ m.type = "login" /\ Login(c, m.name)
  \/ m.type = "offer" /\ Offer(c, m.name, m.blob)
  \/ m.type = "answer" /\ Answer(c, m.name, m.blob)
  \/ m.type = "candidate" /\ Candidate(c, m.name, m.blob)

ServerReads(c) ==
  /\ wire[c] # <<>>
  /\ Handle(c, Head(wire[c]))
  /\ wire' = [wire EXCEPT ![c] = Tail(@)]
  /\ UNCHANGED <<connectedUser, myConnection, peer, clicks>>

\* The page runs its handler for the first message to c.
ClientReads(c) ==
  /\ Page(c)
  /\ Receive(c)
  /\ onmessage(c, Head(outbox[c]))

\* The user does something, or a callback runs.
PageStep(c) ==
  /\ Page(c)
  /\ \/ \E n \in Names : <<c, n>> \in Logins /\ loginBtn(c, n)
     \/ \E n \in Names \union {NoName} :
          <<c, n>> \in Dials /\ connectToOtherUsernameBtn(c, n)
     \/ \E g \in Peers : Callback(c, g) \/ onicecandidate(c, g)
  /\ UNCHANGED vars

\* The connection opens, its page or its socket closes, the server notices.
Connection(c) == /\ OnConnection(c) \/ Disconnect(c) \/ OnClose(c)
                 /\ UNCHANGED clientvars

SysNext == \E c \in Conns : \/ ServerReads(c) \/ ClientReads(c)
                            \/ PageStep(c) \/ Connection(c)

SysSpec == SysInit /\ [][SysNext]_sysvars

\* The server's event loop, the browsers' and their peer connections go on.
FairSystem == /\ SysSpec
              /\ \A c \in Conns : WF_sysvars(ServerReads(c)) /\ WF_sysvars(ClientReads(c))
              /\ \A c \in Conns, g \in Peers :
                   WF_sysvars(PageStep(c) /\ Callback(c, g))

-----------------------------------------------------------------------------
(* Properties.                                                             *)

\* What the pages keep and what they have sent to the server.
ClientTypeOK ==
  /\ connectedUser \in [Conns -> Names \union {NoName}]
  /\ myConnection \in [Conns -> 0..MaxLogins]
  /\ \A c \in Conns : \A i \in 1..Len(wire[c]) :
       /\ wire[c][i].type \in {"login", "offer", "answer", "candidate"}
       /\ wire[c][i].type = "login" => wire[c][i].name \in Names
       /\ wire[c][i].type # "login" => wire[c][i].blob \in Payloads

\* However logins, calls and exits interleave, a page that is handed an offer, an
\* answer or a candidate has a connection by then: onOffer, onAnswer and onCandidate
\* use myConnection without a test.
PeerReady ==
  \A c \in Conns :
    /\ Page(c) /\ outbox[c] # <<>>
    /\ Head(outbox[c]).type \in {"offer", "answer", "candidate"}
    => myConnection[c] # 0

\* The pages use the server as SignallingServer assumes: with them around, the
\* server still behaves as specified (client.js sends only blobs it made itself).
ServerSpec == Spec

\* "when another user answers to our offer" (client.js:141): the answer that onAnswer
\* passes to setRemoteDescription was made for an offer of this page.
AnswerIsOurs ==
  \A c \in Conns, g \in Peers :
    /\ Running(c, g, "setRemote")
    /\ Head(peer[c][g].ops).type = "answer"
    => Head(peer[c][g].ops).blob.re = c

\* k alone has called, and once; if k has left, nobody else has had k's name.
SoleCaller(k) ==
  /\ \A c \in Conns : clicks[c].dial <= IF c = k THEN 1 ELSE 0
  /\ status[k] = "closed" /\ name[k] # NoName =>
       users[name[k]] = NoConn /\ \A c \in Conns \ {k} : name[c] # name[k]

\* As long as there has been one call (SoleCaller), every answer returns to the page
\* whose offer it answers: whoever logs in again, takes over other names or leaves
\* meanwhile.
AnswerReturns == (\E k \in Conns : SoleCaller(k)) => AnswerIsOurs

\* "when we got ice candidate from another user" (client.js:146): it is added after
\* the description it belongs to was set, so that it is not lost, once the server
\* has linked its maker to this user by relaying an offer or answer (otherName),
\* and as long as nobody has left.
CandidateInTime ==
  \A c \in Conns, g \in Peers :
    Running(c, g, "addIceCandidate") =>
      LET d == Head(peer[c][g].ops).blob.from
      IN  \/ d = c \/ peer[c][g].remote = d
          \/ Lookup(otherName[d]) # c
          \/ \E e \in Conns : status[e] \in {"closing", "closed"}

\* As long as there has been one call and no page has replaced its connection by
\* logging in again, candidates are added in time: whoever else logs in, whoever
\* is called, and however the handlers and callbacks of the pages interleave.
CandidateKept ==
  (\E k \in Conns : SoleCaller(k)) /\ (\A c \in Conns : myConnection[c] <= 1)
    => CandidateInTime

\* The server process ends only when a user closes whose partner has closed before,
\* or who is linked to themselves (signallingserver.js:133-135).
EndsWithPartner ==
  [][up /\ ~ up' =>
       \E c, e \in Conns : /\ status[c] = "closing" /\ status'[c] = "closed"
                           /\ status'[e] = "closed"
                           /\ otherName[c] # NoName /\ name[e] = otherName[c]]_sysvars

\* Two pages have exchanged offer and answer.
Joined(c, d) ==
  \E g, h \in Peers : /\ peer[c][g].state = "stable" /\ peer[c][g].remote = d
                      /\ peer[d][h].state = "stable" /\ peer[d][h].remote = c

\* A call to a user who is logged in is completed on both sides, unless one of the
\* two leaves or the server process ends.
CallCompleted ==
  \A c, d \in Conns :
    /\ Page(c) /\ Page(d) /\ c # d
    /\ connectedUser[c] # NoName /\ Lookup(connectedUser[c]) = d
    /\ \E g \in Peers : Running(c, g, "createOffer")
    ~> Joined(c, d) \/ ~ Page(c) \/ ~ Page(d)
=============================================================================
