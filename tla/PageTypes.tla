----------------------------- MODULE PageTypes -----------------------------
(***************************************************************************)
(* The types of what the pages of SignallingSystem keep and send, and what *)
(* the server and the peer connections may make of it.                     *)
(***************************************************************************)
EXTENDS SignallingSystem

Operation ==
  [do : {"createOffer", "createAnswer", "setLocal", "setRemote", "addIceCandidate"},
   type : {"offer", "answer", "candidate"}, blob : Payloads \union {NoBlob}]

Peer == [state : SignallingStates, local : BOOLEAN, remote : Conns \union {NoConn},
         cands : Nat, ops : Seq(Operation)]

\* What the page of c may send: its blobs are its own.
Requests(c) ==
  [type : {"login"}, name : Names, blob : {NoBlob}]
  \union [type : {"offer", "answer", "candidate"}, name : Names \union {NoName},
          blob : {p \in Payloads : p.from = c}]

\* The state of the pages, and of their messages to the server.
Pages == /\ connectedUser \in [Conns -> Names \union {NoName}]
         /\ myConnection \in [Conns -> Nat]
         /\ peer \in [Conns -> [1..MaxLogins -> Peer]]
Wires == /\ DOMAIN wire = Conns
         /\ \A c \in Conns : wire[c] \in Seq(Requests(c))

\* k has called.
Called(k) == clicks[k].dial # 0

\* The server reads r, a request of d: what it may send to c.
Passed(d, r, m, c) ==
  \/ r.type = "login" /\ m.type = "login" /\ c = d
  \/ /\ Lookup(r.name) = c /\ m.type = r.type
     /\ \/ r.type = "offer" /\ m.offer = r.blob /\ m.name = name[d]
        \/ r.type = "answer" /\ m.answer = r.blob
        \/ r.type = "candidate" /\ m.candidate = r.blob

\* How a description may leave a connection: what q, after op, has of r.
SetResult(r, op, q) ==
  \/ q.state = r.state /\ q.local = r.local /\ q.remote = r.remote
  \/ /\ op.do = "setLocal" /\ q.local /\ q.remote = r.remote
     /\ \/ op.type = "offer" /\ r.state # "have-remote-offer" /\ q.state = "have-local-offer"
        \/ op.type = "answer" /\ r.state = "have-remote-offer" /\ q.state = "stable"
  \/ /\ op.do = "setRemote" /\ q.local = r.local /\ q.remote = op.blob.from
     /\ \/ op.type = "offer" /\ q.state = "have-remote-offer"
        \/ op.type = "answer" /\ r.state = "have-local-offer" /\ q.state = "stable"
=============================================================================
