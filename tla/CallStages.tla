---------------------------- MODULE CallStages -----------------------------
(***************************************************************************)
(* The course of a single call in SignallingSystem, while nobody leaves    *)
(* and nobody replaces a connection: the moves of the system, as far as    *)
(* the call is concerned, and the stages of the call.                      *)
(***************************************************************************)
EXTENDS PageTypes, Queues

-----------------------------------------------------------------------------
\* n is in the directory, as a name of c.
Leads(c, n) == n \in Names /\ users[n] = c

(* The moves of the system while it is settled, as far as the first        *)
(* connection of every page, its queues and its link are concerned.        *)

Conn(c) == peer[c][1]

\* Messages, requests and operations, by type and maker.
Plain == {m \in Message : m.type \in {"hello", "login", "leave", "error"}}
Asks(c, types) == {r \in Requests(c) : r.type \in types}
Ops(do, type) == {o \in Operation : o.do = do /\ o.type = type}
OpsBy(do, type, d) == {o \in Ops(do, type) : o.blob.from = d}

\* The operations of e become O, and its descriptions stay as they are.
Queued(e, O) == /\ Conn(e)'.ops = O /\ Conn(e)'.state = Conn(e).state
                /\ Conn(e)'.local = Conn(e).local /\ Conn(e)'.remote = Conn(e).remote
Kept(e) == Queued(e, Conn(e).ops)

\* Nobody calls.
NoCall == \A e \in Conns : Called(e)' <=> Called(e)

\* Logins, greetings and the like: nothing of the call is touched.
PlainMove ==
  /\ NoCall
  /\ \A e \in Conns : /\ Kept(e) /\ connectedUser'[e] = connectedUser[e]
                      /\ otherName'[e] = otherName[e]
                      /\ Slight(wire[e], wire'[e], Asks(e, {"login"}))
                      /\ Slight(outbox[e], outbox'[e], Plain)

\* d calls.
DialMove(d) ==
  /\ clicks'[d].dial = clicks[d].dial + 1
  /\ \A e \in Conns : /\ wire'[e] = wire[e] /\ outbox'[e] = outbox[e]
                      /\ otherName'[e] = otherName[e] /\ (e # d => Kept(e))
  /\ Kept(d) \/ \E o \in Ops("createOffer", "offer") : Queued(d, Append(Conn(d).ops, o))

\* The server reads r from d and relays it, or finds nobody.
RelayMove(d, r) ==
  /\ wire[d] # <<>> /\ r = Head(wire[d]) /\ r \in Requests(d) /\ r.type # "login"
  /\ wire'[d] = Tail(wire[d]) /\ NoCall
  /\ \A e \in Conns : /\ Kept(e) /\ connectedUser'[e] = connectedUser[e]
                      /\ e # d => wire'[e] = wire[e] /\ otherName'[e] = otherName[e]
  /\ \/ Lookup(r.name) = NoConn /\ otherName'[d] = otherName[d]
        /\ \A e \in Conns : outbox'[e] = outbox[e]
     \/ \E c \in Conns, m \in Message :
          /\ Leads(c, r.name) /\ Passed(d, r, m, c)
          /\ outbox'[c] = Append(outbox[c], m)
          /\ \A e \in Conns \ {c} : outbox'[e] = outbox[e]
          /\ otherName'[d] = IF r.type = "candidate" THEN otherName[d] ELSE r.name

\* The page of d reads m, a message of the call.
ReadMove(d, m) ==
  /\ outbox[d] # <<>> /\ m = Head(outbox[d]) /\ m \in Message /\ outbox'[d] = Tail(outbox[d])
  /\ NoCall
  /\ \A e \in Conns : wire'[e] = wire[e] /\ otherName'[e] = otherName[e]
  /\ \A e \in Conns \ {d} : /\ outbox'[e] = outbox[e] /\ Kept(e)
                            /\ connectedUser'[e] = connectedUser[e]
  /\ \/ /\ m.type = "offer" /\ connectedUser'[d] = m.name
        /\ \E o \in OpsBy("setRemote", "offer", m.offer.from), a \in Ops("createAnswer", "answer") :
             Queued(d, Append(Append(Conn(d).ops, o), a))
     \/ /\ m.type = "answer" /\ connectedUser'[d] = connectedUser[d]
        /\ \E o \in OpsBy("setRemote", "answer", m.answer.from) :
             Queued(d, Append(Conn(d).ops, o))
     \/ /\ m.type = "candidate" /\ connectedUser'[d] = connectedUser[d]
        /\ \E o \in OpsBy("addIceCandidate", "candidate", m.candidate.from) :
             Queued(d, Append(Conn(d).ops, o))

\* What setting a description does to a connection, if it is legal.
SurelySet(op, r, q) ==
  /\ op.do = "setLocal" /\ op.type = "offer" /\ r.state \in {"stable", "have-local-offer"} =>
       q.state = "have-local-offer" /\ q.remote = r.remote
  /\ op.do = "setRemote" /\ op.type = "answer" /\ r.state = "have-local-offer" =>
       q.state = "stable" /\ q.remote = op.blob.from
  /\ op.do = "setRemote" /\ op.type = "offer" /\ r.state \in {"stable", "have-remote-offer"} =>
       q.state = "have-remote-offer" /\ q.remote = op.blob.from

\* The connection of d finishes op.
RunMove(d, op) ==
  /\ Conn(d).ops # <<>> /\ op = Head(Conn(d).ops) /\ NoCall
  /\ \A e \in Conns : /\ outbox'[e] = outbox[e] /\ otherName'[e] = otherName[e]
                      /\ connectedUser'[e] = connectedUser[e]
                      /\ e # d => wire'[e] = wire[e] /\ Kept(e)
  /\ \/ /\ op.do \notin {"setLocal", "setRemote"} /\ wire'[d] = wire[d]
        /\ op.do = "createOffer" => Conn(d).state = "have-remote-offer"
        /\ Queued(d, Tail(Conn(d).ops))
     \/ /\ op.do = "createOffer"
        /\ \E r \in Asks(d, {"offer"}), o \in Ops("setLocal", "offer") :
             wire'[d] = Append(wire[d], r) /\ Queued(d, Append(Tail(Conn(d).ops), o))
     \/ /\ op.do = "createAnswer"
        /\ \E r \in Asks(d, {"answer"}), o \in Ops("setLocal", "answer") :
             /\ r.name = connectedUser[d]
             /\ wire'[d] = Append(wire[d], r) /\ Queued(d, Append(Tail(Conn(d).ops), o))
     \/ /\ op.do \in {"setLocal", "setRemote"} /\ wire'[d] = wire[d]
        /\ Conn(d)'.ops = Tail(Conn(d).ops)
        /\ SetResult(Conn(d), op, Conn(d)') /\ SurelySet(op, Conn(d), Conn(d)')

\* The connection of d has gathered a candidate.
GatherMove(d) ==
  /\ Conn(d).local /\ NoCall
  /\ \A e \in Conns : /\ outbox'[e] = outbox[e] /\ otherName'[e] = otherName[e]
                      /\ connectedUser'[e] = connectedUser[e] /\ Kept(e)
                      /\ e # d => wire'[e] = wire[e]
  /\ \E r \in Asks(d, {"candidate"}) : wire'[d] = Append(wire[d], r)

\* One of the moves.
Move == \/ PlainMove
        \/ \E d \in Conns : \/ DialMove(d) \/ GatherMove(d) \/ \E r : RelayMove(d, r)
                            \/ (\E m : ReadMove(d, m)) \/ (\E op : RunMove(d, op))

\* What the moves happen among: names keep their owners, k is found under its name
\* once its connection is in use, k's call is the first and only one, and the name
\* in an answer of k leads to k, if to anyone.
NamesStay == \A c \in Conns, n \in Names : Leads(c, n) => Leads(c, n)'
Named(k) == Conn(k) # NewPeer => Leads(k, name[k])
FirstCall(k) == \A d \in Conns : DialMove(d) => d = k /\ ~ Called(k) /\ Called(k)'
OwnAnswers(k) == \A r \in Requests(k), c \in Conns :
                   /\ wire[k] # <<>> /\ r = Head(wire[k])
                   /\ r.type = "answer" /\ Leads(c, r.name)
                   => c = k

-----------------------------------------------------------------------------
(* The messages, requests and operations of the call between k and b, where *)
(* h is the name under which the server passed on k's offer.               *)

Offers(k, h) == {m \in Message : m.type = "offer" /\ m.offer.from = k /\ m.name = h}
Answers(b) == {m \in Message : m.type = "answer" /\ m.answer.from = b}
CandsBy(d) == {m \in Message : m.type = "candidate" /\ m.candidate.from = d}
Cands == UNION {CandsBy(d) : d \in Conns}

HomeAnswers(b, h) == {r \in Asks(b, {"answer"}) : r.name = h}

SetOffer == Ops("setLocal", "offer")
SetAnswer == Ops("setLocal", "answer")
MakeAnswer == Ops("createAnswer", "answer")
SetOfferBy(k) == OpsBy("setRemote", "offer", k)
SetAnswerBy(b) == OpsBy("setRemote", "answer", b)
AddsBy(d) == OpsBy("addIceCandidate", "candidate", d)
Adds == UNION {AddsBy(d) : d \in Conns}

\* What may be under way from and to a page, and what its connection may have to do.
LoginsOf(e) == Asks(e, {"login"})
Chatter == Plain \union Cands
CallerOut(k) == Asks(k, {"login", "candidate"})
CallerIn(b) == Chatter \union Answers(b)
CallerOps(b) == SetOffer \union SetAnswerBy(b) \union Adds
CalleeOut(b, h) == Asks(b, {"login", "candidate"}) \union HomeAnswers(b, h)
CalleeIn(k, h) == Chatter \union Offers(k, h)
CalleeOps(k) == SetOfferBy(k) \union MakeAnswer \union SetAnswer \union Adds
LostOut(k) == Asks(k, {"login", "answer", "candidate"})
LostIn == {m \in Message : m.type = "candidate" => m \in Cands}
LostOps == {o \in Operation : o.do # "createOffer" /\ (o.do = "addIceCandidate" => o \in Adds)}

-----------------------------------------------------------------------------
(* The stages of k's call, while everything is settled.                    *)

\* Nothing has happened to a connection.
Blank(r) == r.ops = <<>> /\ r.state = "stable" /\ ~ r.local /\ r.remote = NoConn

\* The page of e takes no part in the call yet, or at most gets candidates.
Quiet(e) == /\ wire[e] \in Seq(LoginsOf(e)) /\ otherName[e] = NoName
            /\ outbox[e] \in Seq(Plain) /\ Blank(Conn(e))
Apart(e) == /\ wire[e] \in Seq(LoginsOf(e)) /\ otherName[e] = NoName
            /\ outbox[e] \in Seq(Chatter) /\ Conn(e).ops \in Seq(Adds) /\ ~ Conn(e).local

\* k has not called, createOffer is running, or the offer is on its way to the server.
Idle(k) == ~ Called(k) /\ Quiet(k)
Calling(k) ==
  /\ Called(k) /\ wire[k] \in Seq(LoginsOf(k))
  /\ \E o \in Ops("createOffer", "offer") : Conn(k).ops = <<o>>
  /\ Conn(k).state = "stable" /\ ~ Conn(k).local /\ Conn(k).remote = NoConn
Offering(k) ==
  /\ Called(k) /\ Conn(k).ops \in Seq(SetOffer) /\ Conn(k).remote = NoConn
  /\ \/ Conn(k).state = "have-local-offer"
     \/ Conn(k).state = "stable" /\ Conn(k).ops # <<>>
  /\ wire[k] \in Seq(Asks(k, {"login", "offer", "candidate"}))
  /\ Has(wire[k], Asks(k, {"offer"})) /\ Alone(wire[k], Asks(k, {"offer"}))
  /\ Led(wire[k], Asks(k, {"offer"}), Asks(k, {"candidate"}))

Before(k) == /\ \A e \in Conns \ {k} : Quiet(e)
             /\ otherName[k] = NoName /\ outbox[k] \in Seq(Plain)
             /\ Idle(k) \/ Calling(k) \/ Offering(k)

\* The offer reaches nobody, or the caller.
Lost(k) ==
  /\ Called(k) /\ \A e \in Conns \ {k} : Apart(e)
  /\ otherName[k] = NoName \/ Leads(k, otherName[k])
  /\ wire[k] \in Seq(LostOut(k)) /\ outbox[k] \in Seq(LostIn) /\ Conn(k).ops \in Seq(LostOps)

\* The caller's offer will be set before an answer of b is, or b's answer has been.
Ready(r, b) == \/ r.remote = b \/ r.state = "have-local-offer"
               \/ Has(r.ops, SetOffer) /\ Led(r.ops, SetOffer, SetAnswerBy(b))

Caller(k, b) ==
  /\ Leads(b, otherName[k]) /\ wire[k] \in Seq(CallerOut(k)) /\ outbox[k] \in Seq(CallerIn(b))
  /\ Conn(k).ops \in Seq(CallerOps(b)) /\ Conn(k).state \in {"stable", "have-local-offer"}
  /\ Ready(Conn(k), b)

Callee(k, b, h) ==
  /\ wire[b] \in Seq(CalleeOut(b, h)) /\ outbox[b] \in Seq(CalleeIn(k, h))
  /\ Conn(b).ops \in Seq(CalleeOps(k)) /\ Conn(b).state \in {"stable", "have-remote-offer"}
  /\ Has(Conn(b).ops, MakeAnswer) => connectedUser[b] = h
  /\ Heard(Conn(b).remote, k, Conn(b).ops, SetOfferBy(k), AddsBy(k),
           outbox[b], Offers(k, h), CandsBy(k))

\* No answer has been relayed to k yet, or one has.
Unlinked(k, b, h) ==
  /\ otherName[b] = NoName
  /\ Led(wire[b], HomeAnswers(b, h), Asks(b, {"candidate"}))
  /\ Conn(b).local \/ Has(Conn(b).ops, SetAnswer) => Has(wire[b], HomeAnswers(b, h))
  /\ ~ Has(outbox[k], CandsBy(b)) /\ ~ Has(Conn(k).ops, AddsBy(b))
Linked(k, b, h) ==
  /\ otherName[b] = h
  /\ Heard(Conn(k).remote, b, Conn(k).ops, SetAnswerBy(b), AddsBy(b),
           outbox[k], Answers(b), CandsBy(b))

\* k's offer was relayed to b.
Talk(k, b, h) == /\ k # b /\ Called(k) /\ Leads(k, h) /\ Caller(k, b) /\ Callee(k, b, h)
                 /\ Unlinked(k, b, h) \/ Linked(k, b, h)
                 /\ \A e \in Conns \ {k, b} : Apart(e)

Stage(k) == Before(k) \/ Lost(k) \/ \E b \in Conns, h \in Names : Talk(k, b, h)

=============================================================================
