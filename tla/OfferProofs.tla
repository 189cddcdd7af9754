---------------------------- MODULE OfferProofs ----------------------------
(***************************************************************************)
(* Proofs about the stages of a call (CallStages), until the offer is      *)
(* relayed: every move keeps the call in its stage or takes it to the      *)
(* next.                                                                   *)
(***************************************************************************)
EXTENDS CallStages, SignallingServerProofs

-----------------------------------------------------------------------------
(* The pages that take no part.                                            *)

\* Messages that play no part are neither offers, answers nor candidates.
LEMMA PlainApart ==
  ASSUME NEW e \in Conns, NEW h
  PROVE  /\ Plain \subseteq Chatter
         /\ Plain \cap Offers(e, h) = {} /\ Plain \cap Answers(e) = {} /\ Plain \cap CandsBy(e) = {}
         /\ LoginsOf(e) \cap Asks(e, {"offer"}) = {} /\ LoginsOf(e) \cap Asks(e, {"candidate"}) = {}
         /\ LoginsOf(e) \cap HomeAnswers(e, h) = {}
         /\ LoginsOf(e) \subseteq CallerOut(e) /\ LoginsOf(e) \subseteq CalleeOut(e, h)
BY DEF Plain, Chatter, Offers, Answers, CandsBy, LoginsOf, Asks, HomeAnswers, CallerOut, CalleeOut

\* The message that the server makes of a request.
LEMMA MessageMade ==
  ASSUME NEW d \in Conns, NEW r \in Requests(d), r.type # "login", NEW m \in Message, NEW c,
         Passed(d, r, m, c)
  PROVE  /\ r.type = "candidate" => m \in CandsBy(d) /\ m \in Cands
         /\ r.type = "answer" => m \in Answers(d)
         /\ r.type = "offer" => m \in Offers(d, name[d])
<1>1. r.blob.from = d
  BY DEF Requests
<1>2. m.type = r.type
  BY DEF Passed
<1>3. ASSUME r.type = "candidate" PROVE m \in CandsBy(d)
  <2>1. m.candidate = r.blob
    BY <1>2, <1>3 DEF Passed
  <2>. QED  BY <1>1, <1>2, <1>3, <2>1 DEF CandsBy
<1>4. ASSUME r.type = "answer" PROVE m \in Answers(d)
  <2>1. m.answer = r.blob
    BY <1>4 DEF Passed
  <2>. QED  BY <1>1, <1>2, <1>4, <2>1 DEF Answers
<1>5. ASSUME r.type = "offer" PROVE m \in Offers(d, name[d])
  <2>1. m.offer = r.blob /\ m.name = name[d]
    BY <1>5 DEF Passed
  <2>. QED  BY <1>1, <1>2, <1>5, <2>1 DEF Offers
<1>6. \A x \in CandsBy(d) : x \in Cands
  BY DEF Cands
<1>. QED
  BY <1>3, <1>4, <1>5, <1>6

\* A page that only logs in has nothing relayed.
LEMMA NoRelay ==
  ASSUME NEW e \in Conns, wire[e] \in Seq(LoginsOf(e)), NEW d, NEW r, RelayMove(d, r)
  PROVE  d # e
<1>. SUFFICES ASSUME d = e PROVE FALSE
  OBVIOUS
<1>1. wire[e] # <<>> /\ r = Head(wire[e]) /\ r.type # "login"
  BY DEF RelayMove
<1>2. Head(wire[e]) \in LoginsOf(e)
  BY <1>1
<1>. QED  BY <1>1, <1>2 DEF LoginsOf, Asks

\* A page that takes no part yet stays so, unless it is called.
LEMMA QuietKept ==
  ASSUME NEW e \in Conns, Quiet(e), NEW d \in Conns
  PROVE  /\ PlainMove => Quiet(e)'
         /\ DialMove(d) /\ d # e => Quiet(e)'
         /\ \A r : RelayMove(d, r) => d # e /\ (outbox'[e] = outbox[e] => Quiet(e)')
         /\ \A m : ReadMove(d, m) => d # e /\ Quiet(e)'
         /\ \A op : RunMove(d, op) => d # e /\ Quiet(e)'
         /\ GatherMove(d) => d # e /\ Quiet(e)'
<1>1. /\ wire[e] \in Seq(LoginsOf(e)) /\ otherName[e] = NoName
      /\ outbox[e] \in Seq(Plain) /\ Blank(Conn(e))
  BY DEF Quiet
<1>2. Kept(e) => Blank(Conn(e))'
  BY <1>1 DEF Kept, Queued, Blank
<1>3. ASSUME PlainMove PROVE Quiet(e)'
  <2>1. wire'[e] \in Seq(LoginsOf(e)) /\ outbox'[e] \in Seq(Plain)
    BY <1>1, <1>3, SlightKeeps, Zenon DEF PlainMove, LoginsOf
  <2>. QED  BY <1>1, <1>2, <1>3, <2>1 DEF PlainMove, Quiet
<1>4. ASSUME DialMove(d), d # e PROVE Quiet(e)'
  BY <1>1, <1>2, <1>4 DEF DialMove, Quiet
<1>5. ASSUME NEW r, RelayMove(d, r) PROVE d # e /\ (outbox'[e] = outbox[e] => Quiet(e)')
  <2>1. d # e
    BY <1>1, <1>5, NoRelay, Zenon
  <2>. QED  BY <1>1, <1>2, <1>5, <2>1 DEF RelayMove, Quiet
<1>6. ASSUME NEW m, ReadMove(d, m) PROVE d # e /\ Quiet(e)'
  <2>1. ASSUME d = e PROVE FALSE
    <3>1. outbox[e] # <<>> /\ m = Head(outbox[e]) /\ m.type \in {"offer", "answer", "candidate"}
      BY <1>6, <2>1 DEF ReadMove
    <3>2. Head(outbox[e]) \in Plain
      BY <1>1, <3>1
    <3>. QED  BY <3>1, <3>2, Zenon DEF Plain
  <2>. QED  BY <1>1, <1>2, <1>6, <2>1 DEF ReadMove, Quiet
<1>7. ASSUME NEW op, RunMove(d, op) PROVE d # e /\ Quiet(e)'
  <2>1. d # e
    BY <1>1, <1>7 DEF RunMove, Blank
  <2>. QED  BY <1>1, <1>2, <1>7, <2>1, Zenon DEF RunMove, Quiet
<1>8. ASSUME GatherMove(d) PROVE d # e /\ Quiet(e)'
  <2>1. d # e
    BY <1>1, <1>8 DEF GatherMove, Blank
  <2>. QED  BY <1>1, <1>2, <1>8, <2>1 DEF GatherMove, Quiet
<1>. QED  BY <1>3, <1>4, <1>5, <1>6, <1>7, <1>8

\* A page that gets at most candidates stays so, if it gets nothing else.
LEMMA ApartKept ==
  ASSUME NEW e \in Conns, Apart(e), NEW d \in Conns
  PROVE  /\ PlainMove => Apart(e)'
         /\ \A r : RelayMove(d, r) => /\ d # e
                                      /\ \/ outbox'[e] = outbox[e]
                                         \/ \E m \in Cands : outbox'[e] = Append(outbox[e], m)
                                         => Apart(e)'
         /\ \A m : ReadMove(d, m) => Apart(e)'
         /\ \A op : RunMove(d, op) => Apart(e)'
         /\ GatherMove(d) => d # e /\ Apart(e)'
<1>1. /\ wire[e] \in Seq(LoginsOf(e)) /\ otherName[e] = NoName
      /\ outbox[e] \in Seq(Chatter) /\ Conn(e).ops \in Seq(Adds) /\ ~ Conn(e).local
  BY DEF Apart
<1>2. Kept(e) => Conn(e)'.ops \in Seq(Adds) /\ ~ Conn(e)'.local
  BY <1>1 DEF Kept, Queued
<1>3. ASSUME PlainMove PROVE Apart(e)'
  <2>1. wire'[e] \in Seq(LoginsOf(e)) /\ outbox'[e] \in Seq(Chatter)
    BY <1>1, <1>3, SlightKeeps, PlainApart, Zenon DEF PlainMove, LoginsOf
  <2>. QED  BY <1>1, <1>2, <1>3, <2>1, Zenon DEF PlainMove, Apart
<1>4. ASSUME NEW r, RelayMove(d, r)
      PROVE  /\ d # e
             /\ \/ outbox'[e] = outbox[e]
                \/ \E m \in Cands : outbox'[e] = Append(outbox[e], m)
                => Apart(e)'
  <2>1. d # e
    BY <1>1, <1>4, NoRelay
  <2>2. ASSUME \/ outbox'[e] = outbox[e]
               \/ \E m \in Cands : outbox'[e] = Append(outbox[e], m)
        PROVE  outbox'[e] \in Seq(Chatter)
    <3>1. CASE outbox'[e] = outbox[e]
      BY <1>1, <3>1
    <3>2. CASE \E m \in Cands : outbox'[e] = Append(outbox[e], m)
      <4>1. PICK m \in Cands : outbox'[e] = Append(outbox[e], m)
        BY <3>2
      <4>2. m \in Chatter
        BY DEF Chatter
      <4>3. Append(outbox[e], m) \in Seq(Chatter)
        BY <1>1, <4>2
      <4>. QED  BY <4>1, <4>3, Zenon
    <3>. QED  BY <2>2, <3>1, <3>2
  <2>. QED  BY <1>1, <1>2, <1>4, <2>1, <2>2 DEF RelayMove, Apart
<1>5. ASSUME NEW m, ReadMove(d, m) PROVE Apart(e)'
  <2>1. CASE d # e
    BY <1>1, <1>2, <1>5, <2>1, Zenon DEF ReadMove, Apart
  <2>2. CASE d = e
    <3>1. /\ outbox[e] # <<>> /\ m = Head(outbox[e]) /\ outbox'[e] = Tail(outbox[e])
          /\ m.type \in {"offer", "answer", "candidate"}
          /\ wire'[e] = wire[e] /\ otherName'[e] = otherName[e]
      BY <1>5, <2>2 DEF ReadMove
    <3>2. m \in Chatter /\ outbox'[e] \in Seq(Chatter)
      BY <1>1, <3>1, SeqParts, Zenon
    <3>3. m.type = "candidate" /\ m.candidate.from \in Conns
      BY <3>1, <3>2, Zenon DEF Chatter, Plain, Cands, CandsBy
    <3>4. PICK o \in OpsBy("addIceCandidate", "candidate", m.candidate.from) :
            Queued(e, Append(Conn(e).ops, o))
      BY <1>5, <2>2, <3>3 DEF ReadMove
    <3>5. o \in Adds
      BY <3>3 DEF Adds, AddsBy
    <3>6. Conn(e)'.ops \in Seq(Adds) /\ ~ Conn(e)'.local
      BY <1>1, <3>4, <3>5 DEF Queued
    <3>. QED  BY <1>1, <3>1, <3>2, <3>6, Zenon DEF Apart
  <2>. QED  BY <2>1, <2>2, Zenon
<1>6. ASSUME NEW op, RunMove(d, op) PROVE Apart(e)'
  <2>1. CASE d # e
    BY <1>1, <1>2, <1>6, <2>1 DEF RunMove, Apart
  <2>2. CASE d = e
    <3>1. Conn(e).ops # <<>> /\ op = Head(Conn(e).ops)
      BY <1>6, <2>2 DEF RunMove
    <3>2. op \in Adds /\ Tail(Conn(e).ops) \in Seq(Adds)
      BY <1>1, <3>1, SeqParts
    <3>3. op.do = "addIceCandidate"
      BY <3>2 DEF Adds, AddsBy, OpsBy, Ops
    <3>4. /\ outbox'[e] = outbox[e] /\ otherName'[e] = otherName[e] /\ wire'[e] = wire[e]
          /\ Queued(e, Tail(Conn(e).ops))
      BY <1>6, <2>2, <3>3 DEF RunMove
    <3>. QED  BY <1>1, <3>2, <3>4, Zenon DEF Apart, Queued
  <2>. QED  BY <2>1, <2>2, Zenon
<1>7. ASSUME GatherMove(d) PROVE d # e /\ Apart(e)'
  <2>1. d # e
    BY <1>1, <1>7 DEF GatherMove
  <2>. QED  BY <1>1, <1>2, <1>7, <2>1 DEF GatherMove, Apart
<1>. QED  BY <1>3, <1>4, <1>5, <1>6, <1>7

\* Taking no part yet is a case of that.
LEMMA QuietIsApart ==
  ASSUME NEW e \in Conns PROVE (Quiet(e) => Apart(e)) /\ (Quiet(e)' => Apart(e)')
<1>1. /\ outbox[e] \in Seq(Plain) => outbox[e] \in Seq(Chatter)
      /\ outbox'[e] \in Seq(Plain) => outbox'[e] \in Seq(Chatter)
  BY PlainApart, SeqGrows
<1>2. <<>> \in Seq(Adds)
  OBVIOUS
<1>. QED  BY <1>1, <1>2, Zenon DEF Quiet, Apart, Blank

-----------------------------------------------------------------------------
(* Until the offer is relayed.                                             *)

\* From the first stage, every move leads to a stage.
LEMMA BeforeKept == \A k \in Conns :
    /\ Move /\ NamesStay /\ Named(k) /\ FirstCall(k) /\ Before(k)
    => Stage(k)'
\* Logins, greetings and the like leave the call where it is.
<1>BeforePlain.
  ASSUME NEW k \in Conns, Before(k), PlainMove
  PROVE  Before(k)'
  <2>. USE <1>BeforePlain
  <2>1. \A e \in Conns \ {k} : Quiet(e)'
    BY QuietKept DEF Before
  <2>2. /\ Slight(outbox[k], outbox'[k], Plain) /\ otherName'[k] = otherName[k]
        /\ Slight(wire[k], wire'[k], LoginsOf(k)) /\ (Called(k)' <=> Called(k)) /\ Kept(k)
    BY DEF PlainMove, NoCall, LoginsOf
  <2>3. outbox'[k] \in Seq(Plain)
    BY <2>2, SlightKeeps, Zenon DEF Before
  <2>4. ASSUME Idle(k) PROVE Idle(k)'
    BY <2>2, <2>4, QuietKept DEF Idle
  <2>5. ASSUME Calling(k) PROVE Calling(k)'
    <3>1. wire'[k] \in Seq(LoginsOf(k))
      BY <2>2, <2>5, SlightKeeps, ZenonT(40) DEF Calling
    <3>. QED  BY <2>2, <2>5, <3>1 DEF Calling, Kept, Queued
  <2>6. ASSUME Offering(k) PROVE Offering(k)'
    <3>1. PICK U, O, C : /\ U = Asks(k, {"login", "offer", "candidate"})
                         /\ O = Asks(k, {"offer"}) /\ C = Asks(k, {"candidate"})
      OBVIOUS
    <3>2. LoginsOf(k) \subseteq U /\ O \cap LoginsOf(k) = {} /\ C \cap LoginsOf(k) = {}
      BY <3>1 DEF LoginsOf, Asks
    <3>3. wire[k] \in Seq(U) /\ Has(wire[k], O) /\ Alone(wire[k], O) /\ Led(wire[k], O, C)
      BY <2>6, <3>1 DEF Offering
    <3>4. wire'[k] \in Seq(U) /\ Has(wire'[k], O) /\ Alone(wire'[k], O) /\ Led(wire'[k], O, C)
      BY <2>2, <3>2, <3>3, SlightKeeps, ZenonT(40)
    <3>. QED  BY <2>2, <2>6, <3>1, <3>4 DEF Offering, Kept, Queued
  <2>. QED  BY <2>1, <2>2, <2>3, <2>4, <2>5, <2>6 DEF Before
\* The click that calls begins the stage Calling.
<1>BeforeDial.
  ASSUME NEW k \in Conns, FirstCall(k), Before(k), NEW d \in Conns, DialMove(d)
  PROVE  Stage(k)'
  <2>. USE <1>BeforeDial
  <2>1. d = k /\ ~ Called(k) /\ Called(k)'
    BY Zenon DEF FirstCall
  <2>2. Idle(k) /\ otherName[k] = NoName /\ \A e \in Conns \ {k} : Quiet(e)'
    BY <2>1, QuietKept, Zenon DEF Before, Calling, Offering
  <2>3. /\ wire'[k] \in Seq(LoginsOf(k)) /\ outbox'[k] \in Seq(Plain) /\ otherName'[k] = NoName
        /\ Blank(Conn(k))
    BY <2>2 DEF DialMove, Idle, Quiet
  <2>4. ASSUME Kept(k) PROVE Lost(k)'
    <3>1. \A e \in Conns \ {k} : Apart(e)'
      BY <2>2, QuietIsApart
    <3>2. wire'[k] \in Seq(LostOut(k))
      <4>1. LoginsOf(k) \subseteq LostOut(k)
        BY DEF LoginsOf, Asks, LostOut
      <4>. QED  BY <2>3, <4>1, SeqGrows
    <3>3. outbox'[k] \in Seq(LostIn)
      <4>1. Plain \subseteq LostIn
        BY DEF Plain, LostIn
      <4>. QED  BY <2>3, <4>1, SeqGrows
    <3>4. Conn(k)'.ops = <<>>
      BY <2>3, <2>4 DEF Kept, Queued, Blank
    <3>5. Conn(k)'.ops \in Seq(LostOps)
      BY <3>4
    <3>. QED  BY <2>1, <2>3, <3>1, <3>2, <3>3, <3>5 DEF Lost
  <2>5. ASSUME NEW o \in Ops("createOffer", "offer"), Queued(k, Append(Conn(k).ops, o))
        PROVE  Before(k)'
    <3>1. Append(Conn(k).ops, o) = <<o>>
      BY <2>3 DEF Blank
    <3>2. Conn(k)'.ops = <<o>>
      BY <2>5, <3>1, Zenon DEF Queued
    <3>3. Conn(k)'.state = "stable" /\ ~ Conn(k)'.local /\ Conn(k)'.remote = NoConn
      BY <2>3, <2>5 DEF Queued, Blank
    <3>4. Calling(k)'
      BY <2>1, <2>3, <3>2, <3>3, Zenon DEF Calling
    <3>. QED  BY <2>2, <2>3, <3>4 DEF Before
  <2>. QED  BY <2>1, <2>4, <2>5 DEF DialMove, Stage
\* The request that is relayed is the offer.
<1>OfferFirst.
  ASSUME NEW k \in Conns, Before(k), NEW d \in Conns, NEW r, RelayMove(d, r)
  PROVE  /\ d = k /\ Offering(k) /\ r \in Asks(k, {"offer"}) /\ r.type = "offer"
         /\ wire'[k] \in Seq(CallerOut(k))
  <2>. USE <1>OfferFirst
  <2>1. d = k
    BY QuietKept DEF Before
  <2>2. Offering(k)
    <3>1. ~ Idle(k) /\ ~ Calling(k)
      BY <2>1, NoRelay DEF Idle, Quiet, Calling
    <3>. QED  BY <3>1 DEF Before
  <2>3. PICK U, O, C : /\ U = Asks(k, {"login", "offer", "candidate"})
                       /\ O = Asks(k, {"offer"}) /\ C = Asks(k, {"candidate"})
    OBVIOUS
  <2>4. wire[k] \in Seq(U) /\ Alone(wire[k], O) /\ Led(wire[k], O, C)
    BY <2>2, <2>3 DEF Offering
  <2>5. wire[k] # <<>> /\ r = Head(wire[k]) /\ r.type # "login" /\ wire'[k] = Tail(wire[k])
    BY <2>1 DEF RelayMove
  <2>6. r \in U /\ wire'[k] \in Seq(U) /\ r \notin C
    BY <2>4, <2>5, SeqParts, LedTail
  <2>7. r \in O /\ r.type = "offer"
    BY <2>3, <2>5, <2>6 DEF Asks
  <2>8. ~ Has(wire'[k], O)
    BY <2>4, <2>5, <2>7, AloneTail
  <2>9. wire'[k] \in Seq(U \ O)
    BY <2>6, <2>8, SeqWithout
  <2>10. U \ O \subseteq CallerOut(k)
    BY <2>3 DEF Asks, CallerOut
  <2>11. wire'[k] \in Seq(CallerOut(k))
    BY <2>9, <2>10, SeqGrows, Zenon
  <2>. QED  BY <2>1, <2>2, <2>3, <2>7, <2>11, Zenon
\* The offer goes to nobody or back to k.
<1>OfferLost.
  ASSUME NEW k \in Conns, Before(k), NamesStay, NEW r, RelayMove(k, r),
         \A e \in Conns \ {k} : outbox'[e] = outbox[e],
         outbox'[k] = outbox[k] \/ \E m \in Message : /\ m.type = "offer"
                                                      /\ outbox'[k] = Append(outbox[k], m),
         otherName'[k] = otherName[k] \/ (otherName'[k] = r.name /\ Leads(k, r.name))
  PROVE  Lost(k)'
  <2>. USE <1>OfferLost
  <2>1. Offering(k) /\ wire'[k] \in Seq(CallerOut(k))
    BY <1>OfferFirst
  <2>2. \A e \in Conns \ {k} : Apart(e)'
    BY QuietKept, QuietIsApart, Zenon DEF Before
  <2>3. Called(k)' /\ Kept(k)
    BY <2>1, Zenon DEF RelayMove, NoCall, Offering
  <2>4. otherName'[k] = NoName \/ Leads(k, otherName[k])'
    <3>1. ASSUME otherName'[k] = r.name, Leads(k, r.name) PROVE Leads(k, otherName[k])'
      <4>1. r.name \in Names /\ users'[r.name] = k
        BY <3>1, Zenon DEF NamesStay, Leads
      <4>. QED  BY <3>1, <4>1 DEF Leads
    <3>. QED  BY <3>1, Zenon DEF Before
  <2>5. wire'[k] \in Seq(LostOut(k))
    <3>1. CallerOut(k) \subseteq LostOut(k)
      BY DEF CallerOut, Asks, LostOut
    <3>. QED  BY <2>1, <3>1, SeqGrows
  <2>6. outbox'[k] \in Seq(LostIn)
    <3>1. Plain \subseteq LostIn
      BY DEF Plain, LostIn
    <3>2. outbox[k] \in Seq(LostIn)
      BY <3>1, SeqGrows DEF Before
    <3>3. \A m \in Message : m.type = "offer" => m \in LostIn
      BY DEF LostIn
    <3>4. \A m \in LostIn : Append(outbox[k], m) \in Seq(LostIn)
      BY <3>2
    <3>. QED  BY <3>2, <3>3, <3>4, Zenon
  <2>7. Conn(k)'.ops \in Seq(LostOps)
    <3>1. SetOffer \subseteq LostOps
      BY Zenon DEF SetOffer, Ops, LostOps
    <3>2. Conn(k)'.ops \in Seq(SetOffer)
      BY <2>1, <2>3, Zenon DEF Kept, Queued, Offering
    <3>. QED  BY <3>1, <3>2, SeqGrows
  <2>. QED  BY <2>2, <2>3, <2>4, <2>5, <2>6, <2>7, Zenon DEF Lost
\* The offer goes to b, who can answer it under the name h.
<1>OfferSent.
  ASSUME NEW k \in Conns, Before(k), NamesStay, NEW r, RelayMove(k, r),
         NEW b \in Conns, b # k, NEW h \in Names, Leads(k, h), NEW m \in Offers(k, h),
         outbox'[b] = Append(outbox[b], m), \A e \in Conns \ {b} : outbox'[e] = outbox[e],
         otherName'[k] = r.name, Leads(b, r.name)
  PROVE  Talk(k, b, h)'
  <2>. USE <1>OfferSent
  <2>1. Offering(k) /\ wire'[k] \in Seq(CallerOut(k)) /\ Quiet(b)
    BY <1>OfferFirst, Zenon DEF Before
  <2>2. \A e \in Conns \ {k, b} : Apart(e)'
    BY QuietKept, QuietIsApart, Zenon DEF Before
  <2>3. Called(k)' /\ Kept(k) /\ Kept(b) /\ wire'[b] = wire[b] /\ otherName'[b] = NoName
    BY <2>1, Zenon DEF RelayMove, NoCall, Offering, Quiet
  <2>4. Leads(k, h)' /\ Leads(b, otherName[k])'
    <3>1. users'[h] = k /\ r.name \in Names /\ users'[r.name] = b
      BY DEF NamesStay, Leads
    <3>. QED  BY <3>1 DEF Leads
  <2>5. \A S, T : <<>> \in Seq(S) /\ ~ Has(<<>>, S)
    BY HasEmpty
  <2>6. Conn(k)'.ops \in Seq(SetOffer) /\ Conn(b)'.ops = <<>> /\ ~ Conn(b)'.local
    BY <2>1, <2>3, ZenonT(40) DEF Kept, Queued, Offering, Quiet, Blank
  <2>7. Caller(k, b)'
    <3>1. outbox'[k] \in Seq(CallerIn(b))
      <4>1. Plain \subseteq CallerIn(b) /\ outbox'[k] \in Seq(Plain)
        BY DEF CallerIn, Chatter, Before
      <4>. QED  BY <4>1, SeqGrows, Zenon
    <3>2. Conn(k)'.ops \in Seq(CallerOps(b))
      <4>1. SetOffer \subseteq CallerOps(b)
        BY Zenon DEF CallerOps
      <4>. QED  BY <2>6, <4>1, SeqGrows
    <3>3. /\ Conn(k)'.state \in {"stable", "have-local-offer"}
          /\ Conn(k)'.state = "have-local-offer" \/ Conn(k)'.ops # <<>>
      BY <2>1, <2>3, Zenon DEF Kept, Queued, Offering
    <3>4. ~ Has(Conn(k)'.ops, SetAnswerBy(b))
      <4>1. SetOffer \cap SetAnswerBy(b) = {}
        BY DEF SetOffer, SetAnswerBy, OpsBy, Ops
      <4>. QED  BY <2>6, <4>1, SeqLacks, ZenonT(40)
    <3>5. Conn(k)'.ops # <<>> => Has(Conn(k)'.ops, SetOffer)
      BY <2>6, HasTail, SeqParts, Zenon
    <3>6. Ready(Conn(k), b)'
      BY <3>3, <3>4, <3>5, LedAbsent, Zenon DEF Ready
    <3>. QED  BY <2>1, <2>4, <3>1, <3>2, <3>3, <3>6, Zenon DEF Caller
  <2>8. wire'[b] \in Seq(CalleeOut(b, h)) /\ ~ Has(wire'[b], Asks(b, {"candidate"}))
    BY <2>1, <2>3, PlainApart, SeqGrows, SeqLacks, ZenonT(40) DEF Quiet
  <2>9. Callee(k, b, h)'
    <3>1. outbox[b] \in Seq(Plain) /\ Plain \subseteq CalleeIn(k, h) /\ m \in CalleeIn(k, h)
      BY <2>1 DEF Quiet, CalleeIn, Chatter
    <3>2. outbox[b] \in Seq(CalleeIn(k, h))
      BY <3>1, SeqGrows
    <3>3. Append(outbox[b], m) \in Seq(CalleeIn(k, h))
      BY <3>1, <3>2
    <3>4. Conn(b)'.state = "stable"
      BY <2>1, <2>3, Zenon DEF Kept, Queued, Quiet, Blank
    <3>5. m \notin CandsBy(k)
      BY Zenon DEF Offers, CandsBy
    <3>6. ~ Has(outbox[b], CandsBy(k))
      BY <3>1, PlainApart, SeqLacks, Zenon
    <3>7. Led(Append(outbox[b], m), Offers(k, h), CandsBy(k)) /\ Has(Append(outbox[b], m), Offers(k, h))
      BY <3>1, <3>5, <3>6, LedAbsent, LedAppend, HasAppend, ZenonT(40)
    <3>8. Heard(Conn(b)'.remote, k, <<>>, SetOfferBy(k), AddsBy(k),
                Append(outbox[b], m), Offers(k, h), CandsBy(k))
      BY <2>5, <3>7 DEF Heard
    <3>9. Heard(Conn(b).remote, k, Conn(b).ops, SetOfferBy(k), AddsBy(k),
                outbox[b], Offers(k, h), CandsBy(k))'
      BY <2>6, <3>8, Zenon
    <3>10. /\ Conn(b)'.ops \in Seq(CalleeOps(k)) /\ ~ Has(Conn(b)'.ops, MakeAnswer)
           /\ outbox'[b] \in Seq(CalleeIn(k, h))
      BY <2>5, <2>6, <3>3, Zenon
    <3>. QED  BY <2>8, <3>4, <3>9, <3>10, Zenon DEF Callee
  <2>10. Unlinked(k, b, h)'
    <3>1. ~ Has(outbox'[k], CandsBy(b))
      <4>1. outbox'[k] \in Seq(Plain)
        BY ZenonT(40) DEF Before
      <4>. QED  BY <4>1, PlainApart, SeqLacks, Zenon
    <3>2. ~ Has(Conn(k)'.ops, AddsBy(b))
      <4>1. SetOffer \cap AddsBy(b) = {}
        BY DEF SetOffer, AddsBy, OpsBy, Ops
      <4>. QED  BY <2>6, <4>1, SeqLacks, Zenon
    <3>3. ~ Has(Conn(b)'.ops, SetAnswer)
      BY <2>5, <2>6, Zenon
    <3>. QED  BY <2>3, <2>6, <2>8, <3>1, <3>2, <3>3, LedAbsent, Zenon DEF Unlinked
  <2>. QED  BY <2>2, <2>3, <2>4, <2>7, <2>9, <2>10, Zenon DEF Talk
\* The first thing the server relays is k's offer: to nobody, to k, or to a callee.
<1>BeforeRelay.
  ASSUME NamesStay, NEW k \in Conns, Named(k), Before(k), NEW d \in Conns, NEW r,
         RelayMove(d, r)
  PROVE  Stage(k)'
  <2>. USE <1>BeforeRelay
  <2>1. d = k /\ Offering(k) /\ r.type = "offer" /\ r \in Requests(k)
    <3>1. d = k /\ Offering(k) /\ r.type = "offer"
      BY <1>OfferFirst
    <3>2. r \in Requests(d)
      BY Zenon DEF RelayMove
    <3>. QED  BY <3>1, <3>2, Zenon
  <2>2. CASE otherName'[k] = otherName[k] /\ \A e \in Conns : outbox'[e] = outbox[e]
    BY <2>1, <2>2, <1>OfferLost, Zenon DEF Stage
  <2>3. CASE \E c \in Conns, m \in Message :
               /\ Leads(c, r.name) /\ Passed(k, r, m, c)
               /\ outbox'[c] = Append(outbox[c], m)
               /\ \A e \in Conns \ {c} : outbox'[e] = outbox[e]
               /\ otherName'[k] = r.name
    <3>1. PICK c \in Conns, m \in Message :
            /\ Leads(c, r.name) /\ Passed(k, r, m, c)
            /\ outbox'[c] = Append(outbox[c], m)
            /\ \A e \in Conns \ {c} : outbox'[e] = outbox[e]
            /\ otherName'[k] = r.name
      BY <2>3, Zenon
    <3>2. m \in Offers(k, name[k]) /\ m.type = "offer"
      BY <2>1, <3>1, MessageMade, ZenonT(40) DEF Offers
    <3>3. CASE c = k
      BY <2>1, <3>1, <3>2, <3>3, <1>OfferLost, Zenon DEF Stage
    <3>4. CASE c # k
      <4>1. Conn(k) # NewPeer
        BY <2>1 DEF Offering, NewPeer
      <4>2. name[k] \in Names /\ Leads(k, name[k])
        BY <4>1 DEF Named, Leads
      <4>3. PICK h \in Names : h = name[k]
        BY <4>2, Zenon
      <4>4. Talk(k, c, h)'
        BY <2>1, <3>1, <3>2, <3>4, <4>2, <4>3, <1>OfferSent, Zenon
      <4>. QED  BY <4>4 DEF Stage
    <3>. QED  BY <3>3, <3>4
  <2>. QED  BY <2>1, <2>2, <2>3, Zenon DEF RelayMove
\* createOffer of client.js:108 queues the description and sends the offer; nothing
\* else is run before the offer is relayed.
<1>BeforeRun.
  ASSUME NEW k \in Conns, Before(k), NEW d \in Conns, NEW op, RunMove(d, op)
  PROVE  Before(k)'
  <2>. USE <1>BeforeRun
  <2>1. d = k /\ \A e \in Conns \ {k} : Quiet(e)'
    BY QuietKept, Zenon DEF Before
  <2>2. /\ outbox'[k] \in Seq(Plain) /\ otherName'[k] = NoName /\ (Called(k)' <=> Called(k))
        /\ Conn(k).ops # <<>> /\ op = Head(Conn(k).ops)
    BY <2>1, Zenon DEF RunMove, NoCall, Before
  <2>3. ~ Idle(k)
    BY <2>2, Zenon DEF Idle, Quiet, Blank
  <2>4. ASSUME Calling(k) PROVE Offering(k)'
    <3>1. PICK o \in Ops("createOffer", "offer") : Conn(k).ops = <<o>>
      BY <2>4, Zenon DEF Calling
    <3>2. op = o /\ Tail(Conn(k).ops) = <<>>
      BY <2>2, <3>1
    <3>3. op.do = "createOffer" /\ Conn(k).state = "stable"
      BY <2>4, <3>2, Zenon DEF Ops, Calling
    <3>4. PICK r \in Asks(k, {"offer"}), s \in Ops("setLocal", "offer") :
            wire'[k] = Append(wire[k], r) /\ Queued(k, Append(Tail(Conn(k).ops), s))
      BY <2>1, <3>3, Zenon DEF RunMove
    <3>5. Append(Tail(Conn(k).ops), s) \in Seq(SetOffer) /\ Append(Tail(Conn(k).ops), s) # <<>>
      <4>1. s \in SetOffer
        BY DEF SetOffer
      <4>2. Append(<<>>, s) \in Seq(SetOffer) /\ Append(<<>>, s) # <<>>
        BY <4>1
      <4>. QED  BY <3>2, <4>2, Zenon
    <3>6. /\ Conn(k)'.ops \in Seq(SetOffer) /\ Conn(k)'.ops # <<>>
          /\ Conn(k)'.state = "stable" /\ Conn(k)'.remote = NoConn
      BY <2>4, <3>4, <3>5 DEF Queued, Calling
    <3>7. PICK U, O, C : /\ U = Asks(k, {"login", "offer", "candidate"})
                         /\ O = Asks(k, {"offer"}) /\ C = Asks(k, {"candidate"})
      OBVIOUS
    <3>8. /\ LoginsOf(k) \subseteq U /\ O \cap LoginsOf(k) = {} /\ C \cap LoginsOf(k) = {}
          /\ r \in O /\ r \in U /\ r \notin C
      BY <3>4, <3>7, ZenonT(40) DEF LoginsOf, Asks
    <3>9. wire[k] \in Seq(LoginsOf(k)) /\ wire[k] \in Seq(U)
      BY <2>4, <3>8, SeqGrows DEF Calling
    <3>10. ~ Has(wire[k], O) /\ ~ Has(wire[k], C)
      BY <3>8, <3>9, SeqLacks
    <3>11. /\ Append(wire[k], r) \in Seq(U) /\ Has(Append(wire[k], r), O)
           /\ Alone(Append(wire[k], r), O) /\ Led(Append(wire[k], r), O, C)
      BY <3>8, <3>9, <3>10, HasAppend, AloneAppend, LedAbsent, LedAppend
    <3>12. wire'[k] \in Seq(U) /\ Has(wire'[k], O) /\ Alone(wire'[k], O) /\ Led(wire'[k], O, C)
      BY <3>4, <3>11, Zenon
    <3>. QED  BY <2>2, <2>4, <3>6, <3>7, <3>12, Zenon DEF Offering, Calling
  <2>5. ASSUME Offering(k) PROVE Offering(k)'
    <3>1. op \in SetOffer /\ Tail(Conn(k).ops) \in Seq(SetOffer)
      BY <2>2, <2>5, SeqParts, Zenon DEF Offering
    <3>2. op.do = "setLocal" /\ op.type = "offer"
      BY <3>1, Zenon DEF SetOffer, Ops
    <3>3. /\ wire'[k] = wire[k] /\ Conn(k)'.ops = Tail(Conn(k).ops)
          /\ SurelySet(op, Conn(k), Conn(k)')
      BY <2>1, <3>2, Zenon DEF RunMove
    <3>4. Conn(k)'.state = "have-local-offer" /\ Conn(k)'.remote = Conn(k).remote
      BY <2>5, <3>2, <3>3, Zenon DEF SurelySet, Offering
    <3>. QED  BY <2>2, <2>5, <3>1, <3>3, <3>4, Zenon DEF Offering
  <2>. QED  BY <2>1, <2>2, <2>3, <2>4, <2>5, Zenon DEF Before
\* Candidates are gathered behind the offer that was sent.
<1>BeforeGather.
  ASSUME NEW k \in Conns, Before(k), NEW d \in Conns, GatherMove(d)
  PROVE  Before(k)'
  <2>. USE <1>BeforeGather
  <2>1. d = k /\ \A e \in Conns \ {k} : Quiet(e)'
    BY QuietKept, Zenon DEF Before
  <2>2. /\ outbox'[k] \in Seq(Plain) /\ otherName'[k] = NoName /\ (Called(k)' <=> Called(k))
        /\ Conn(k).local /\ Kept(k)
    BY <2>1, Zenon DEF GatherMove, NoCall, Before
  <2>3. Offering(k)
    BY <2>2, Zenon DEF Before, Idle, Quiet, Blank, Calling
  <2>4. PICK r \in Asks(k, {"candidate"}) : wire'[k] = Append(wire[k], r)
    BY <2>1 DEF GatherMove
  <2>5. PICK U, O, C : /\ U = Asks(k, {"login", "offer", "candidate"})
                       /\ O = Asks(k, {"offer"}) /\ C = Asks(k, {"candidate"})
    OBVIOUS
  <2>6. r \in U /\ r \notin O
    BY <2>4, <2>5, ZenonT(40) DEF Asks
  <2>7. wire[k] \in Seq(U) /\ Has(wire[k], O) /\ Alone(wire[k], O) /\ Led(wire[k], O, C)
    BY <2>3, <2>5 DEF Offering
  <2>8. /\ Append(wire[k], r) \in Seq(U) /\ Has(Append(wire[k], r), O)
        /\ Alone(Append(wire[k], r), O) /\ Led(Append(wire[k], r), O, C)
    BY <2>6, <2>7, HasAppend, AloneAppend, LedAppend
  <2>9. wire'[k] \in Seq(U) /\ Has(wire'[k], O) /\ Alone(wire'[k], O) /\ Led(wire'[k], O, C)
    BY <2>4, <2>8, ZenonT(40)
  <2>10. Offering(k)'
    BY <2>2, <2>3, <2>5, <2>9, Zenon DEF Offering, Kept, Queued
  <2>. QED  BY <2>1, <2>2, <2>10, Zenon DEF Before
<1>. QED
  <2>. SUFFICES
    ASSUME Move, NamesStay, NEW k \in Conns, Named(k), FirstCall(k), Before(k)
    PROVE  Stage(k)'
    OBVIOUS
  <2>1. ASSUME NEW d \in Conns, NEW m, ReadMove(d, m) PROVE FALSE
    <3>1. d = k
      BY <2>1, QuietKept DEF Before
    <3>2. outbox[k] # <<>> /\ m = Head(outbox[k]) /\ m.type \in {"offer", "answer", "candidate"}
      BY <2>1, <3>1 DEF ReadMove
    <3>3. m \in Plain
      BY <3>2, SeqParts DEF Before
    <3>. QED  BY <3>2, <3>3 DEF Plain
  <2>2. PlainMove => Stage(k)'
    BY <1>BeforePlain DEF Stage
  <2>3. ASSUME NEW d \in Conns PROVE GatherMove(d) \/ (\E op : RunMove(d, op)) => Stage(k)'
    BY <1>BeforeRun, <1>BeforeGather DEF Stage
  <2>. QED  BY <2>1, <2>2, <2>3, <1>BeforeDial, <1>BeforeRelay DEF Move

-----------------------------------------------------------------------------
(* A call that reached nobody.                                             *)

\* A call that reached nobody never will.
LEMMA LostKept == \A k \in Conns :
    /\ Move /\ NamesStay /\ FirstCall(k) /\ OwnAnswers(k) /\ Lost(k)
    => Lost(k)'
\* k goes on having called, and its link leads to k, if to anyone.
<1>LostLink.
  ASSUME NamesStay, NoCall, NEW k \in Conns, Lost(k), otherName'[k] = otherName[k]
  PROVE  Called(k)' /\ (otherName'[k] = NoName \/ Leads(k, otherName[k])')
  <2>1. Called(k)'
    BY <1>LostLink DEF NoCall, Lost
  <2>2. otherName'[k] = NoName \/ Leads(k, otherName[k])'
    BY <1>LostLink, Zenon DEF NamesStay, Leads, Lost
  <2>. QED  BY <2>1, <2>2
\* What the server relays once the offer is lost stays with k, unless it is a
\* candidate: the names k may answer to lead to k.
<1>LostRelay.
  ASSUME NamesStay, NEW k \in Conns, OwnAnswers(k), Lost(k), NEW d \in Conns, NEW r,
         RelayMove(d, r)
  PROVE  Lost(k)'
  <2>. USE <1>LostRelay
  <2>1. d = k
    BY ApartKept, Zenon DEF Lost
  <2>2. /\ wire[k] \in Seq(LostOut(k)) /\ outbox[k] \in Seq(LostIn)
        /\ wire[k] # <<>> /\ r = Head(wire[k]) /\ wire'[k] = Tail(wire[k])
        /\ r \in Requests(k) /\ r.type # "login"
    BY <2>1, Zenon DEF Lost, RelayMove
  <2>3. r \in LostOut(k) /\ wire'[k] \in Seq(LostOut(k))
    BY <2>2, SeqParts
  <2>4. r.type \in {"answer", "candidate"}
    BY <2>2, <2>3, ZenonT(40) DEF LostOut, Asks
  <2>5. Called(k)' /\ Conn(k)'.ops \in Seq(LostOps)
    BY <2>1, Zenon DEF RelayMove, NoCall, Lost, Kept, Queued
  <2>6. ASSUME otherName'[k] = otherName[k] PROVE otherName'[k] = NoName \/ Leads(k, otherName[k])'
    BY <2>6, Zenon DEF Lost, NamesStay, Leads
  <2>7. CASE otherName'[k] = otherName[k] /\ \A e \in Conns : outbox'[e] = outbox[e]
    <3>1. \A e \in Conns \ {k} : Apart(e)'
      BY <2>7, ApartKept, ZenonT(40) DEF Lost
    <3>. QED  BY <2>2, <2>3, <2>5, <2>6, <2>7, <3>1, Zenon DEF Lost
  <2>8. CASE \E c \in Conns, m \in Message :
               /\ Leads(c, r.name) /\ Passed(k, r, m, c)
               /\ outbox'[c] = Append(outbox[c], m)
               /\ \A e \in Conns \ {c} : outbox'[e] = outbox[e]
               /\ otherName'[k] = IF r.type = "candidate" THEN otherName[k] ELSE r.name
    <3>1. PICK c \in Conns, m \in Message :
            /\ Leads(c, r.name) /\ Passed(k, r, m, c)
            /\ outbox'[c] = Append(outbox[c], m)
            /\ \A e \in Conns \ {c} : outbox'[e] = outbox[e]
            /\ otherName'[k] = IF r.type = "candidate" THEN otherName[k] ELSE r.name
      BY <2>8, Zenon
    <3>2. /\ r.type = "candidate" => m \in Cands
          /\ r.type = "answer" => m.type = "answer" /\ c = k
      BY <2>1, <2>2, <3>1, MessageMade, ZenonT(40) DEF Answers, OwnAnswers
    <3>3. m \in LostIn
      BY <2>4, <3>2 DEF LostIn
    <3>4. outbox'[k] \in Seq(LostIn)
      <4>1. Append(outbox[k], m) \in Seq(LostIn)
        BY <2>2, <3>3, SeqAppend, Zenon
      <4>. QED  BY <2>2, <3>1, <4>1, Zenon
    <3>5. \A e \in Conns \ {k} : Apart(e)'
      <4>. SUFFICES ASSUME NEW e \in Conns \ {k} PROVE Apart(e)'
        OBVIOUS
      <4>1. \/ outbox'[e] = outbox[e]
            \/ \E x \in Cands : outbox'[e] = Append(outbox[e], x)
        BY <2>4, <3>1, <3>2
      <4>. QED  BY <4>1, ApartKept DEF Lost
    <3>6. otherName'[k] = NoName \/ Leads(k, otherName[k])'
      <4>1. CASE r.type = "candidate"
        BY <2>6, <3>1, <4>1
      <4>2. CASE r.type = "answer"
        <5>1. r.name \in Names /\ users'[r.name] = k /\ otherName'[k] = r.name
          BY <3>1, <3>2, <4>2 DEF NamesStay, Leads
        <5>. QED  BY <5>1, ZenonT(40) DEF Leads
      <4>. QED  BY <2>4, <4>1, <4>2, Zenon
    <3>. QED  BY <2>3, <2>5, <3>4, <3>5, <3>6, Zenon DEF Lost
  <2>. QED  BY <2>1, <2>7, <2>8, Zenon DEF RelayMove
\* Only k reads anything but candidates, once the offer is lost.
<1>LostRead.
  ASSUME NamesStay, NEW k \in Conns, Lost(k), NEW d \in Conns, NEW m, ReadMove(d, m)
  PROVE  Lost(k)'
  <2>. USE <1>LostRead
  <2>1. \A e \in Conns \ {k} : Apart(e)'
    BY ApartKept, Zenon DEF Lost
  <2>2. /\ Called(k)' /\ wire'[k] \in Seq(LostOut(k))
        /\ otherName'[k] = NoName \/ Leads(k, otherName[k])'
    <3>1. NoCall /\ otherName'[k] = otherName[k] /\ wire'[k] = wire[k]
      BY Zenon DEF ReadMove
    <3>2. wire[k] \in Seq(LostOut(k))
      BY Zenon DEF Lost
    <3>. QED  BY <3>1, <3>2, <1>LostLink, Zenon
  <2>3. CASE d # k
    <3>1. outbox'[k] \in Seq(LostIn) /\ Conn(k)'.ops \in Seq(LostOps)
      BY <2>3, Zenon DEF ReadMove, Lost, Kept, Queued
    <3>. QED  BY <2>1, <2>2, <3>1, Zenon DEF Lost
  <2>4. CASE d = k
    <3>1. /\ outbox[k] \in Seq(LostIn) /\ outbox[k] # <<>> /\ m = Head(outbox[k])
          /\ outbox'[k] = Tail(outbox[k]) /\ Conn(k).ops \in Seq(LostOps)
      BY <2>4, Zenon DEF ReadMove, Lost
    <3>2. m \in LostIn /\ outbox'[k] \in Seq(LostIn)
      BY <3>1, SeqParts, ZenonT(40)
    <3>3. CASE m.type = "offer"
      <4>1. PICK o \in OpsBy("setRemote", "offer", m.offer.from), a \in Ops("createAnswer", "answer") :
              Queued(k, Append(Append(Conn(k).ops, o), a))
        BY <2>4, <3>3 DEF ReadMove
      <4>2. o \in LostOps /\ a \in LostOps
        BY DEF OpsBy, Ops, LostOps
      <4>3. Append(Append(Conn(k).ops, o), a) \in Seq(LostOps)
        BY <3>1, <4>2, SeqAppend
      <4>4. Conn(k)'.ops \in Seq(LostOps)
        BY <4>1, <4>3, Zenon DEF Queued
      <4>. QED  BY <2>1, <2>2, <3>2, <4>4, ZenonT(40) DEF Lost
    <3>4. CASE m.type = "answer"
      <4>1. PICK o \in OpsBy("setRemote", "answer", m.answer.from) : Queued(k, Append(Conn(k).ops, o))
        BY <2>4, <3>4 DEF ReadMove
      <4>2. o \in LostOps
        BY DEF OpsBy, Ops, LostOps
      <4>3. Append(Conn(k).ops, o) \in Seq(LostOps)
        BY <3>1, <4>2, SeqAppend
      <4>4. Conn(k)'.ops \in Seq(LostOps)
        BY <4>1, <4>3, Zenon DEF Queued
      <4>. QED  BY <2>1, <2>2, <3>2, <4>4, ZenonT(40) DEF Lost
    <3>5. CASE m.type = "candidate"
      <4>1. PICK o \in OpsBy("addIceCandidate", "candidate", m.candidate.from) :
              Queued(k, Append(Conn(k).ops, o))
        BY <2>4, <3>5 DEF ReadMove
      <4>2. m.candidate.from \in Conns
        BY <3>2, <3>5 DEF LostIn, Cands, CandsBy
      <4>3. o \in Adds /\ o \in Operation /\ o.do = "addIceCandidate"
        BY <4>2 DEF Adds, AddsBy, OpsBy, Ops
      <4>4. o \in LostOps
        BY <4>3 DEF LostOps
      <4>5. Append(Conn(k).ops, o) \in Seq(LostOps)
        BY <3>1, <4>4, SeqAppend
      <4>6. Conn(k)'.ops \in Seq(LostOps)
        BY <4>1, <4>5, Zenon DEF Queued
      <4>. QED  BY <2>1, <2>2, <3>2, <4>6, ZenonT(40) DEF Lost
    <3>. QED  BY <2>4, <3>3, <3>4, <3>5, ZenonT(40) DEF ReadMove
  <2>. QED  BY <2>3, <2>4
\* Only k runs anything but candidates, once the offer is lost.
<1>LostRun.
  ASSUME NamesStay, NEW k \in Conns, Lost(k), NEW d \in Conns, NEW op, RunMove(d, op)
  PROVE  Lost(k)'
  <2>. USE <1>LostRun
  <2>1. \A e \in Conns \ {k} : Apart(e)'
    BY ApartKept, Zenon DEF Lost
  <2>2. /\ Called(k)' /\ outbox'[k] \in Seq(LostIn)
        /\ otherName'[k] = NoName \/ Leads(k, otherName[k])'
    <3>1. NoCall /\ otherName'[k] = otherName[k] /\ outbox'[k] = outbox[k]
      BY Zenon DEF RunMove
    <3>. QED  BY <3>1, <1>LostLink, Zenon DEF Lost
  <2>3. CASE d # k
    <3>1. wire'[k] \in Seq(LostOut(k)) /\ Conn(k)'.ops \in Seq(LostOps)
      BY <2>3, Zenon DEF RunMove, Lost, Kept, Queued
    <3>. QED  BY <2>1, <2>2, <3>1, Zenon DEF Lost
  <2>4. CASE d = k
    <3>1. /\ Conn(k).ops \in Seq(LostOps) /\ Conn(k).ops # <<>> /\ op = Head(Conn(k).ops)
          /\ wire[k] \in Seq(LostOut(k))
      BY <2>4, Zenon DEF RunMove, Lost
    <3>2. op \in LostOps /\ Tail(Conn(k).ops) \in Seq(LostOps)
      BY <3>1, SeqParts
    <3>3. op.do # "createOffer"
      BY <3>2, Zenon DEF LostOps
    <3>4. ASSUME NEW r \in Asks(k, {"answer"}), NEW o \in Ops("setLocal", "answer"),
                 wire'[k] = Append(wire[k], r), Queued(k, Append(Tail(Conn(k).ops), o))
          PROVE  wire'[k] \in Seq(LostOut(k)) /\ Conn(k)'.ops \in Seq(LostOps)
      <4>1. r \in LostOut(k) /\ o \in LostOps
        BY Zenon DEF LostOut, Asks, LostOps, Ops
      <4>2. Append(wire[k], r) \in Seq(LostOut(k)) /\ Append(Tail(Conn(k).ops), o) \in Seq(LostOps)
        BY <3>1, <3>2, <4>1, SeqAppend, Zenon
      <4>. QED  BY <3>4, <4>2 DEF Queued
    <3>5. wire'[k] \in Seq(LostOut(k)) /\ Conn(k)'.ops \in Seq(LostOps)
      BY <2>4, <3>1, <3>2, <3>3, <3>4, Zenon DEF RunMove, Queued
    <3>. QED  BY <2>1, <2>2, <3>5, Zenon DEF Lost
  <2>. QED  BY <2>3, <2>4
<1>. QED
  <2>. SUFFICES
    ASSUME Move, NamesStay, NEW k \in Conns, FirstCall(k), OwnAnswers(k), Lost(k)
    PROVE  Lost(k)'
    OBVIOUS
  <2>1. \A d \in Conns : ~ DialMove(d)
    BY Zenon DEF Lost, FirstCall
  <2>2. ASSUME PlainMove PROVE Lost(k)'
    <3>1. /\ \A e \in Conns \ {k} : Apart(e)'
          /\ Called(k)' /\ (otherName'[k] = NoName \/ Leads(k, otherName[k])')
          /\ Conn(k)'.ops \in Seq(LostOps)
      <4>1. \A e \in Conns \ {k} : Apart(e)'
        BY <2>2, ApartKept DEF Lost
      <4>2. NoCall /\ otherName'[k] = otherName[k] /\ Conn(k)'.ops = Conn(k).ops
        BY <2>2 DEF PlainMove, Kept, Queued
      <4>. QED  BY <4>1, <4>2, <1>LostLink, ZenonT(40) DEF Lost
    <3>2. LoginsOf(k) \subseteq LostOut(k) /\ Plain \subseteq LostIn
      BY Zenon DEF LoginsOf, LostOut, Asks, Plain, LostIn
    <3>3. /\ Slight(wire[k], wire'[k], LoginsOf(k)) /\ Slight(outbox[k], outbox'[k], Plain)
          /\ wire[k] \in Seq(LostOut(k)) /\ outbox[k] \in Seq(LostIn)
      BY <2>2, Zenon DEF PlainMove, LoginsOf, Lost
    <3>4. wire'[k] \in Seq(LostOut(k)) /\ outbox'[k] \in Seq(LostIn)
      BY <3>2, <3>3, SlightKeeps, Zenon
    <3>. QED  BY <3>1, <3>4, ZenonT(40) DEF Lost
  <2>3. ASSUME NEW d \in Conns, GatherMove(d) PROVE Lost(k)'
    <3>1. d = k /\ \A e \in Conns \ {k} : Apart(e)'
      BY <2>3, ApartKept DEF Lost
    <3>2. /\ Called(k)' /\ (otherName'[k] = NoName \/ Leads(k, otherName[k])')
          /\ Conn(k)'.ops \in Seq(LostOps) /\ outbox'[k] \in Seq(LostIn)
      <4>1. /\ NoCall /\ otherName'[k] = otherName[k]
            /\ Conn(k)'.ops = Conn(k).ops /\ outbox'[k] = outbox[k]
        BY <2>3 DEF GatherMove, Kept, Queued
      <4>. QED  BY <4>1, <1>LostLink DEF Lost
    <3>3. PICK r \in Asks(k, {"candidate"}) : wire'[k] = Append(wire[k], r)
      BY <2>3, <3>1 DEF GatherMove
    <3>4. r \in LostOut(k) /\ wire[k] \in Seq(LostOut(k))
      BY DEF LostOut, Asks, Lost
    <3>5. wire'[k] \in Seq(LostOut(k))
      BY <3>3, <3>4, SeqAppend
    <3>. QED  BY <3>1, <3>2, <3>5, ZenonT(40) DEF Lost
  <2>. QED  BY <2>1, <2>2, <2>3, <1>LostRelay, <1>LostRead, <1>LostRun DEF Move
=============================================================================
