---------------------------- MODULE StageProofs ----------------------------
(***************************************************************************)
(* Proofs about the stages of a call (CallStages), once the offer has been *)
(* relayed: every move keeps the call in its stage, and in every stage a   *)
(* candidate that is added comes after its description.                    *)
(***************************************************************************)
EXTENDS OfferProofs

-----------------------------------------------------------------------------
(* A call that reached b: the messages.                                    *)

\* The caller's side, when only messages come and go.
LEMMA CallerMoves ==
  ASSUME NamesStay, NEW k \in Conns, NEW b \in Conns, Caller(k, b), Kept(k),
         otherName'[k] = otherName[k],
         wire'[k] \in Seq(CallerOut(k)), outbox'[k] \in Seq(CallerIn(b))
  PROVE  Caller(k, b)'
<1>1. Leads(b, otherName[k])'
  BY DEF Caller, NamesStay, Leads
<1>2. /\ Conn(k)'.ops \in Seq(CallerOps(b)) /\ Conn(k)'.state \in {"stable", "have-local-offer"}
      /\ Ready(Conn(k), b)'
  BY DEF Caller, Ready, Kept, Queued
<1>. QED  BY <1>1, <1>2 DEF Caller

\* The callee's side, when only messages come and go.
LEMMA CalleeMoves ==
  ASSUME NEW k \in Conns, NEW b \in Conns, NEW h, Callee(k, b, h), Kept(b),
         connectedUser'[b] = connectedUser[b],
         wire'[b] \in Seq(CalleeOut(b, h)), outbox'[b] \in Seq(CalleeIn(k, h)),
         Heard(Conn(b).remote, k, Conn(b).ops, SetOfferBy(k), AddsBy(k),
               outbox'[b], Offers(k, h), CandsBy(k))
  PROVE  Callee(k, b, h)'
<1>1. /\ Conn(b)'.ops = Conn(b).ops /\ Conn(b)'.state = Conn(b).state
      /\ Conn(b)'.remote = Conn(b).remote
  BY DEF Kept, Queued
<1>2. Heard(Conn(b)'.remote, k, Conn(b)'.ops, SetOfferBy(k), AddsBy(k),
            outbox'[b], Offers(k, h), CandsBy(k))
  BY <1>1, Zenon
<1>. QED  BY <1>1, <1>2 DEF Callee

\* Logins, greetings and the like do not disturb the call.
LEMMA TalkPlain == \A k, b \in Conns, h \in Names :
    /\ NamesStay /\ Talk(k, b, h) /\ PlainMove
    => Talk(k, b, h)'
\* What is on its way to a page stays in order when messages without a part come or go.
<1>HeardSlight.
  ASSUME NEW rm, NEW d, NEW O, NEW S, NEW A, NEW U, NEW X \in Seq(U), NEW M, NEW C,
         Heard(rm, d, O, S, A, X, M, C), NEW N, N \subseteq U, M \cap N = {}, C \cap N = {},
         NEW Y, Slight(X, Y, N)
  PROVE  Heard(rm, d, O, S, A, Y, M, C)
  BY <1>HeardSlight, SlightKeeps, Zenon DEF Heard
<1>. QED
  <2>. SUFFICES
    ASSUME NamesStay, NEW k \in Conns, NEW b \in Conns, NEW h \in Names, Talk(k, b, h), PlainMove
    PROVE  Talk(k, b, h)'
    OBVIOUS
  <2>1. \A e \in Conns \ {k, b} : Apart(e)'
    BY ApartKept DEF Talk
  <2>2. \A e \in {k, b} : /\ Kept(e) /\ connectedUser'[e] = connectedUser[e]
                          /\ otherName'[e] = otherName[e]
                          /\ Slight(wire[e], wire'[e], LoginsOf(e))
                          /\ Slight(outbox[e], outbox'[e], Plain)
    BY DEF PlainMove, LoginsOf
  <2>3. k # b /\ Called(k)' /\ Leads(k, h)'
    BY DEF PlainMove, NoCall, Talk, NamesStay
  <2>4. /\ wire[k] \in Seq(CallerOut(k)) /\ outbox[k] \in Seq(CallerIn(b))
        /\ wire[b] \in Seq(CalleeOut(b, h)) /\ outbox[b] \in Seq(CalleeIn(k, h))
        /\ Caller(k, b) /\ Callee(k, b, h)
    BY DEF Talk, Caller, Callee
  <2>5. Plain \subseteq CallerIn(b) /\ Plain \subseteq CalleeIn(k, h)
    BY DEF CallerIn, CalleeIn, Chatter
  <2>6. /\ wire'[k] \in Seq(CallerOut(k)) /\ outbox'[k] \in Seq(CallerIn(b))
        /\ wire'[b] \in Seq(CalleeOut(b, h)) /\ outbox'[b] \in Seq(CalleeIn(k, h))
    BY <2>2, <2>4, <2>5, SlightKeeps, PlainApart, Zenon
  <2>7. Caller(k, b)'
    BY <2>2, <2>4, <2>6, CallerMoves
  <2>8. Callee(k, b, h)'
    <3>1. Plain \cap Offers(k, h) = {} /\ Plain \cap CandsBy(k) = {}
      BY PlainApart
    <3>2. Heard(Conn(b).remote, k, Conn(b).ops, SetOfferBy(k), AddsBy(k),
                outbox[b], Offers(k, h), CandsBy(k))
      BY <2>4, Zenon DEF Callee
    <3>3. Heard(Conn(b).remote, k, Conn(b).ops, SetOfferBy(k), AddsBy(k),
                outbox'[b], Offers(k, h), CandsBy(k))
      BY <2>2, <2>4, <2>5, <3>1, <3>2, <1>HeardSlight, Zenon
    <3>. QED  BY <2>2, <2>4, <2>6, <3>3, CalleeMoves
  <2>9. Answers(b) \cap Plain = {} /\ CandsBy(b) \cap Plain = {}
    BY PlainApart
  <2>10. ASSUME Unlinked(k, b, h) PROVE Unlinked(k, b, h)'
    <3>1. ~ Has(outbox'[k], CandsBy(b))
      <4>1. ~ Has(outbox[k], CandsBy(b)) /\ Slight(outbox[k], outbox'[k], Plain)
        BY <2>2, <2>10 DEF Unlinked
      <4>. QED  BY <2>4, <2>5, <2>9, <4>1, SlightKeeps, Zenon
    <3>2. PICK H, C : H = HomeAnswers(b, h) /\ C = Asks(b, {"candidate"})
      OBVIOUS
    <3>3. H \cap LoginsOf(b) = {} /\ C \cap LoginsOf(b) = {} /\ LoginsOf(b) \subseteq CalleeOut(b, h)
      BY <3>2, PlainApart
    <3>4. Led(wire'[b], H, C) /\ (Has(wire[b], H) => Has(wire'[b], H))
      <4>1. Led(wire[b], H, C) /\ Slight(wire[b], wire'[b], LoginsOf(b))
        BY <2>2, <2>10, <3>2 DEF Unlinked
      <4>. QED  BY <2>4, <3>3, <4>1, SlightKeeps, Zenon
    <3>. QED  BY <2>2, <2>10, <3>1, <3>2, <3>4 DEF Unlinked, Kept, Queued
  <2>11. ASSUME Linked(k, b, h) PROVE Linked(k, b, h)'
    <3>1. Heard(Conn(k).remote, b, Conn(k).ops, SetAnswerBy(b), AddsBy(b),
                outbox[k], Answers(b), CandsBy(b))
      BY <2>11, Zenon DEF Linked
    <3>2. Heard(Conn(k).remote, b, Conn(k).ops, SetAnswerBy(b), AddsBy(b),
                outbox'[k], Answers(b), CandsBy(b))
      BY <2>2, <2>4, <2>5, <2>9, <3>1, <1>HeardSlight, Zenon
    <3>3. Conn(k)'.remote = Conn(k).remote /\ Conn(k)'.ops = Conn(k).ops
      BY <2>2 DEF Kept, Queued
    <3>4. Heard(Conn(k)'.remote, b, Conn(k)'.ops, SetAnswerBy(b), AddsBy(b),
                outbox'[k], Answers(b), CandsBy(b))
      BY <3>2, <3>3, Zenon
    <3>. QED  BY <2>2, <2>11, <3>4 DEF Linked
  <2>. QED  BY <2>1, <2>3, <2>7, <2>8, <2>10, <2>11 DEF Talk

\* The server relays candidates of caller and callee, and the callee's answer, which
\* links the callee to the caller.
LEMMA TalkRelay == \A k, b \in Conns, h \in Names, d \in Conns : \A r :
    /\ NamesStay /\ Talk(k, b, h) /\ RelayMove(d, r)
    => Talk(k, b, h)'
\* A candidate is relayed: of the caller, or of the callee once their answer was.
<1>TalkCandidate.
  ASSUME NamesStay, NEW k \in Conns, NEW b \in Conns, NEW h \in Names, Talk(k, b, h),
         NEW d \in {k, b}, NEW r, RelayMove(d, r), r.type = "candidate",
         d = b => Linked(k, b, h)
  PROVE  Talk(k, b, h)'
  <2>. USE <1>TalkCandidate
  <2>1. /\ \A e \in Conns : /\ Kept(e) /\ connectedUser'[e] = connectedUser[e]
                            /\ otherName'[e] = otherName[e]
                            /\ \/ outbox'[e] = outbox[e]
                               \/ \E m \in CandsBy(d) : outbox'[e] = Append(outbox[e], m)
        /\ \A e \in Conns : e # d => wire'[e] = wire[e]
        /\ wire[d] # <<>> /\ wire'[d] = Tail(wire[d])
    <3>1. \A m \in Message, c \in Conns : Passed(d, r, m, c) => m \in CandsBy(d)
      BY MessageMade DEF RelayMove
    <3>. QED  BY <3>1, Zenon DEF RelayMove
  <2>2. CandsBy(d) \subseteq Cands
    BY DEF Cands
  <2>3. \A e \in Conns \ {k, b} : Apart(e)'
    <3>. SUFFICES ASSUME NEW e \in Conns \ {k, b} PROVE Apart(e)'
      OBVIOUS
    <3>1. outbox'[e] = outbox[e] \/ \E m \in Cands : outbox'[e] = Append(outbox[e], m)
      BY <2>1, <2>2
    <3>. QED  BY <3>1, ApartKept DEF Talk
  <2>4. k # b /\ Called(k)' /\ Leads(k, h)'
    BY Zenon DEF RelayMove, NoCall, Talk, NamesStay
  <2>5. /\ wire[k] \in Seq(CallerOut(k)) /\ outbox[k] \in Seq(CallerIn(b))
        /\ wire[b] \in Seq(CalleeOut(b, h)) /\ outbox[b] \in Seq(CalleeIn(k, h))
        /\ Conn(k).ops \in Seq(CallerOps(b)) /\ Conn(b).ops \in Seq(CalleeOps(k))
        /\ Caller(k, b) /\ Callee(k, b, h)
    BY DEF Talk, Caller, Callee
  <2>6. wire'[k] \in Seq(CallerOut(k)) /\ wire'[b] \in Seq(CalleeOut(b, h))
    BY <2>1, <2>5, SeqParts, Zenon
  <2>7. CandsBy(d) \subseteq CallerIn(b) /\ CandsBy(d) \subseteq CalleeIn(k, h)
    BY <2>2 DEF CallerIn, CalleeIn, Chatter
  <2>8. outbox'[k] \in Seq(CallerIn(b)) /\ outbox'[b] \in Seq(CalleeIn(k, h))
    <3>1. \A m \in CandsBy(d) : /\ Append(outbox[k], m) \in Seq(CallerIn(b))
                                /\ Append(outbox[b], m) \in Seq(CalleeIn(k, h))
      BY <2>5, <2>7, SeqAppend
    <3>. QED  BY <2>1, <2>5, <3>1, Zenon
  <2>9. Caller(k, b)'
    BY <2>1, <2>5, <2>6, <2>8, CallerMoves, Zenon
  <2>10. Callee(k, b, h)'
    <3>1. Heard(Conn(b).remote, k, Conn(b).ops, SetOfferBy(k), AddsBy(k),
                outbox[b], Offers(k, h), CandsBy(k))
      BY <2>5, Zenon DEF Callee
    <3>2. \A m : Heard(Conn(b).remote, k, Conn(b).ops, SetOfferBy(k), AddsBy(k),
                       Append(outbox[b], m), Offers(k, h), CandsBy(k))
      BY <2>5, <3>1, HeardSend
    <3>3. Heard(Conn(b).remote, k, Conn(b).ops, SetOfferBy(k), AddsBy(k),
                outbox'[b], Offers(k, h), CandsBy(k))
      BY <2>1, <3>1, <3>2, Zenon
    <3>. QED  BY <2>1, <2>5, <2>6, <2>8, <3>3, CalleeMoves, Zenon
  <2>11. ASSUME Unlinked(k, b, h), d = k PROVE Unlinked(k, b, h)'
    <3>1. ~ Has(outbox[k], CandsBy(b)) /\ \A m \in CandsBy(d) : m \notin CandsBy(b)
      BY <2>4, <2>11, ZenonT(40) DEF Unlinked, CandsBy
    <3>2. \A m \in CandsBy(d) : ~ Has(Append(outbox[k], m), CandsBy(b))
      BY <2>5, <3>1, HasAppend
    <3>3. ~ Has(outbox'[k], CandsBy(b))
      BY <2>1, <3>1, <3>2, Zenon
    <3>4. wire'[b] = wire[b] /\ otherName'[b] = otherName[b] /\ Kept(b) /\ Kept(k)
      BY <2>1, <2>4, <2>11
    <3>. QED  BY <2>11, <3>3, <3>4, Zenon DEF Unlinked, Kept, Queued
  <2>12. ASSUME Linked(k, b, h) PROVE Linked(k, b, h)'
    <3>1. Heard(Conn(k).remote, b, Conn(k).ops, SetAnswerBy(b), AddsBy(b),
                outbox[k], Answers(b), CandsBy(b))
      BY <2>12, Zenon DEF Linked
    <3>2. \A m : Heard(Conn(k).remote, b, Conn(k).ops, SetAnswerBy(b), AddsBy(b),
                       Append(outbox[k], m), Answers(b), CandsBy(b))
      BY <2>5, <3>1, HeardSend, Zenon
    <3>3. Conn(k)'.remote = Conn(k).remote /\ Conn(k)'.ops = Conn(k).ops
      BY <2>1 DEF Kept, Queued
    <3>4. Heard(Conn(k)'.remote, b, Conn(k)'.ops, SetAnswerBy(b), AddsBy(b),
                outbox'[k], Answers(b), CandsBy(b))
      BY <2>1, <3>1, <3>2, <3>3, Zenon
    <3>. QED  BY <2>1, <2>12, <3>4, Zenon DEF Linked
  <2>13. Unlinked(k, b, h)' \/ Linked(k, b, h)'
    BY <2>11, <2>12 DEF Talk
  <2>. QED  BY <2>3, <2>4, <2>9, <2>10, <2>13, Zenon DEF Talk
\* The answer of b is relayed to k.
<1>TalkAnswer.
  ASSUME NamesStay, NEW k \in Conns, NEW b \in Conns, NEW h \in Names, Talk(k, b, h),
         NEW r, RelayMove(b, r), r \in HomeAnswers(b, h)
  PROVE  Talk(k, b, h)'
  <2>. USE <1>TalkAnswer
  <2>1. k # b /\ Called(k)' /\ Leads(k, h)' /\ r.name = h /\ r.type = "answer" /\ Leads(k, h)
    BY Zenon DEF RelayMove, NoCall, Talk, NamesStay, HomeAnswers, Asks
  <2>2. Lookup(r.name) = k
    BY <2>1, ServerAssumption, ZenonT(40) DEF Leads, Lookup
  <2>3. PICK m \in Message : /\ Passed(b, r, m, k) /\ outbox'[k] = Append(outbox[k], m)
                             /\ \A e \in Conns \ {k} : outbox'[e] = outbox[e]
                             /\ otherName'[b] = h
    <3>1. Lookup(r.name) # NoConn
      BY <2>2, ServerAssumption, Zenon
    <3>2. PICK c \in Conns, m \in Message :
            /\ Leads(c, r.name) /\ Passed(b, r, m, c) /\ outbox'[c] = Append(outbox[c], m)
            /\ \A e \in Conns \ {c} : outbox'[e] = outbox[e]
            /\ otherName'[b] = IF r.type = "candidate" THEN otherName[b] ELSE r.name
      BY <3>1, Zenon DEF RelayMove
    <3>3. c = k
      BY <2>1, <3>2, Zenon DEF Leads
    <3>4. r.type # "candidate"
      BY <2>1
    <3>. QED  BY <2>1, <3>2, <3>3, <3>4, Zenon
  <2>4. m \in Answers(b)
    BY <2>1, <2>3, MessageMade, Zenon DEF RelayMove
  <2>5. /\ \A e \in Conns : Kept(e) /\ connectedUser'[e] = connectedUser[e]
        /\ \A e \in Conns \ {b} : wire'[e] = wire[e] /\ otherName'[e] = otherName[e]
        /\ wire[b] # <<>> /\ wire'[b] = Tail(wire[b])
    BY Zenon DEF RelayMove
  <2>6. \A e \in Conns \ {k, b} : Apart(e)'
    BY <2>3, ApartKept, Zenon DEF Talk
  <2>7. /\ wire[k] \in Seq(CallerOut(k)) /\ outbox[k] \in Seq(CallerIn(b))
        /\ wire[b] \in Seq(CalleeOut(b, h)) /\ outbox[b] \in Seq(CalleeIn(k, h))
        /\ Conn(k).ops \in Seq(CallerOps(b)) /\ Caller(k, b) /\ Callee(k, b, h)
    BY Zenon DEF Talk, Caller, Callee
  <2>8. Caller(k, b)'
    <3>1. m \in CallerIn(b)
      BY <2>4 DEF CallerIn
    <3>2. outbox'[k] \in Seq(CallerIn(b))
      BY <2>3, <2>7, <3>1, SeqAppend
    <3>. QED  BY <2>1, <2>5, <2>7, <3>2, CallerMoves, Zenon
  <2>9. Callee(k, b, h)'
    <3>1. wire'[b] \in Seq(CalleeOut(b, h)) /\ outbox'[b] = outbox[b]
      <4>1. outbox'[b] = outbox[b]
        BY <2>1, <2>3, Zenon
      <4>2. wire'[b] \in Seq(CalleeOut(b, h))
        BY <2>5, <2>7, SeqParts
      <4>. QED  BY <4>1, <4>2
    <3>2. Heard(Conn(b).remote, k, Conn(b).ops, SetOfferBy(k), AddsBy(k),
                outbox'[b], Offers(k, h), CandsBy(k))
      BY <2>7, <3>1, Zenon DEF Callee
    <3>. QED  BY <2>5, <2>7, <3>1, <3>2, CalleeMoves, Zenon
  <2>10. Linked(k, b, h)'
    <3>1. Heard(Conn(k).remote, b, Conn(k).ops, SetAnswerBy(b), AddsBy(b),
                Append(outbox[k], m), Answers(b), CandsBy(b))
      <4>1. CASE Linked(k, b, h)
        BY <2>7, <4>1, HeardSend, Zenon DEF Linked
      <4>2. CASE Unlinked(k, b, h)
        <5>1. ~ Has(outbox[k], CandsBy(b)) /\ ~ Has(Conn(k).ops, AddsBy(b)) /\ m \notin CandsBy(b)
          BY <2>4, <4>2, ZenonT(40) DEF Unlinked, Answers, CandsBy
        <5>2. /\ Has(Append(outbox[k], m), Answers(b))
              /\ Led(Append(outbox[k], m), Answers(b), CandsBy(b))
          BY <2>4, <2>7, <5>1, HasAppend, LedAbsent, LedAppend, Zenon
        <5>. QED  BY <5>1, <5>2, Zenon DEF Heard
      <4>. QED  BY <4>1, <4>2, Zenon DEF Talk
    <3>2. Conn(k)'.remote = Conn(k).remote /\ Conn(k)'.ops = Conn(k).ops
      BY <2>5 DEF Kept, Queued
    <3>3. Heard(Conn(k)'.remote, b, Conn(k)'.ops, SetAnswerBy(b), AddsBy(b),
                outbox'[k], Answers(b), CandsBy(b))
      BY <2>3, <3>1, <3>2, Zenon
    <3>. QED  BY <2>3, <3>3 DEF Linked
  <2>. QED  BY <2>1, <2>6, <2>8, <2>9, <2>10, ZenonT(40) DEF Talk
<1>. QED
  <2>. SUFFICES
    ASSUME NamesStay, NEW k \in Conns, NEW b \in Conns, NEW h \in Names, Talk(k, b, h),
           NEW d \in Conns, NEW r, RelayMove(d, r)
    PROVE  Talk(k, b, h)'
    OBVIOUS
  <2>1. d \in {k, b}
    BY ApartKept, Zenon DEF Talk
  <2>2. wire[d] # <<>> /\ r = Head(wire[d]) /\ r.type # "login"
    BY DEF RelayMove
  <2>3. ASSUME d = k PROVE r.type = "candidate" /\ d # b
    <3>1. r \in CallerOut(k)
      BY <2>2, <2>3, SeqParts DEF Talk, Caller
    <3>. QED  BY <2>2, <2>3, <3>1, ZenonT(40) DEF CallerOut, Asks, Talk
  <2>4. ASSUME d = b PROVE r \in HomeAnswers(b, h) \/ (r.type = "candidate" /\ Linked(k, b, h))
    <3>1. r \in CalleeOut(b, h) /\ wire[b] \in Seq(CalleeOut(b, h))
      BY <2>2, <2>4, SeqParts, Zenon DEF Talk, Callee
    <3>2. r \in HomeAnswers(b, h) \/ (r.type = "candidate" /\ r \in Asks(b, {"candidate"}))
      BY <2>2, <3>1 DEF CalleeOut, Asks
    <3>3. ASSUME Unlinked(k, b, h) PROVE r \notin Asks(b, {"candidate"})
      BY <2>2, <2>4, <3>1, <3>3, LedTail DEF Unlinked
    <3>. QED  BY <3>2, <3>3, Zenon DEF Talk
  <2>. QED  BY <2>1, <2>3, <2>4, <1>TalkCandidate, <1>TalkAnswer

\* The caller or the callee gathers a candidate.
LEMMA TalkGather ==
  ASSUME NamesStay, NEW k \in Conns, NEW b \in Conns, NEW h \in Names, Talk(k, b, h),
         NEW d \in Conns, GatherMove(d)
  PROVE  Talk(k, b, h)'
<1>1. d \in {k, b} /\ \A e \in Conns \ {k, b} : Apart(e)'
  BY ApartKept, ZenonT(40) DEF Talk
<1>2. k # b /\ Called(k)' /\ Leads(k, h)'
  BY DEF GatherMove, NoCall, Talk, NamesStay
<1>3. /\ \A e \in Conns : /\ outbox'[e] = outbox[e] /\ otherName'[e] = otherName[e]
                          /\ connectedUser'[e] = connectedUser[e] /\ Kept(e)
                          /\ e # d => wire'[e] = wire[e]
      /\ \E r \in Asks(d, {"candidate"}) : wire'[d] = Append(wire[d], r)
      /\ Conn(d).local
  BY Zenon DEF GatherMove
<1>4. /\ wire[k] \in Seq(CallerOut(k)) /\ outbox[k] \in Seq(CallerIn(b))
      /\ wire[b] \in Seq(CalleeOut(b, h)) /\ outbox[b] \in Seq(CalleeIn(k, h))
      /\ Caller(k, b) /\ Callee(k, b, h)
  BY Zenon DEF Talk, Caller, Callee
<1>5. PICK r \in Asks(d, {"candidate"}) : wire'[d] = Append(wire[d], r)
  BY <1>3
<1>6. (d = k => r \in CallerOut(k)) /\ (d = b => r \in CalleeOut(b, h))
  BY DEF CallerOut, CalleeOut, Asks
<1>7. wire'[k] \in Seq(CallerOut(k)) /\ wire'[b] \in Seq(CalleeOut(b, h))
  <2>1. /\ d = k => Append(wire[k], r) \in Seq(CallerOut(k))
        /\ d = b => Append(wire[b], r) \in Seq(CalleeOut(b, h))
    BY <1>4, <1>6, SeqAppend
  <2>. QED  BY <1>1, <1>3, <1>4, <1>5, <2>1, ZenonT(40)
<1>8. Caller(k, b)'
  BY <1>3, <1>4, <1>7, CallerMoves, Zenon
<1>9. Callee(k, b, h)'
  <2>1. Heard(Conn(b).remote, k, Conn(b).ops, SetOfferBy(k), AddsBy(k),
              outbox'[b], Offers(k, h), CandsBy(k))
    BY <1>3, <1>4, Zenon DEF Callee
  <2>. QED  BY <1>3, <1>4, <1>7, <2>1, CalleeMoves, Zenon
<1>10. ASSUME Unlinked(k, b, h) PROVE Unlinked(k, b, h)'
  <2>1. PICK H, C : H = HomeAnswers(b, h) /\ C = Asks(b, {"candidate"})
    BY Zenon
  <2>2. Led(wire[b], H, C) /\ (d = b => Has(wire[b], H))
    BY <1>3, <1>10, <2>1 DEF Unlinked
  <2>3. Led(wire'[b], H, C) /\ (Has(wire[b], H) => Has(wire'[b], H))
    <3>1. CASE d # b
      BY <1>3, <2>2, <3>1
    <3>2. CASE d = b
      <4>1. Led(Append(wire[b], r), H, C) /\ Has(Append(wire[b], r), H)
        BY <1>4, <2>2, <3>2, LedAppend, HasAppend, ZenonT(40)
      <4>. QED  BY <1>5, <3>2, <4>1, Zenon
    <3>. QED  BY <3>1, <3>2, ZenonT(40)
  <2>. QED  BY <1>3, <1>10, <2>1, <2>3, Zenon DEF Unlinked, Kept, Queued
<1>11. ASSUME Linked(k, b, h) PROVE Linked(k, b, h)'
  BY <1>3, <1>11 DEF Linked, Kept, Queued
<1>. QED  BY <1>1, <1>2, <1>8, <1>9, <1>10, <1>11, Zenon DEF Talk

-----------------------------------------------------------------------------
(* A call that reached b: the pages read.                                  *)

\* Steps of the other pages.
LEMMA TalkElsewhere ==
  ASSUME NamesStay, NEW k \in Conns, NEW b \in Conns, NEW h \in Names, Talk(k, b, h), NoCall,
         \A e \in {k, b} : /\ Kept(e) /\ wire'[e] = wire[e] /\ outbox'[e] = outbox[e]
                           /\ otherName'[e] = otherName[e] /\ connectedUser'[e] = connectedUser[e],
         \A e \in Conns \ {k, b} : Apart(e)'
  PROVE  Talk(k, b, h)'
<1>1. k # b /\ Called(k)' /\ Leads(k, h)' /\ Caller(k, b) /\ Callee(k, b, h)
  BY Zenon DEF NoCall, Talk, NamesStay
<1>2. Caller(k, b)'
  BY <1>1, CallerMoves, Zenon DEF Caller
<1>3. Callee(k, b, h)'
  <2>1. Heard(Conn(b).remote, k, Conn(b).ops, SetOfferBy(k), AddsBy(k),
              outbox'[b], Offers(k, h), CandsBy(k))
    BY <1>1, Zenon DEF Callee
  <2>. QED  BY <1>1, <2>1, CalleeMoves, Zenon DEF Callee
<1>4. Unlinked(k, b, h) \/ Linked(k, b, h) => Unlinked(k, b, h)' \/ Linked(k, b, h)'
  BY Zenon DEF Unlinked, Linked, Kept, Queued
<1>. QED  BY <1>1, <1>2, <1>3, <1>4, Zenon DEF Talk

\* The callee's side when b's connection has other operations.
LEMMA CalleeQueues ==
  ASSUME NEW k \in Conns, NEW b \in Conns, NEW h, NEW O \in Seq(CalleeOps(k)), Queued(b, O),
         Conn(b).state \in {"stable", "have-remote-offer"},
         Has(O, MakeAnswer) => connectedUser'[b] = h,
         wire'[b] \in Seq(CalleeOut(b, h)), outbox'[b] \in Seq(CalleeIn(k, h)),
         Heard(Conn(b).remote, k, O, SetOfferBy(k), AddsBy(k),
               outbox'[b], Offers(k, h), CandsBy(k))
  PROVE  Callee(k, b, h)'
<1>1. /\ Conn(b)'.ops = O /\ Conn(b)'.state = Conn(b).state /\ Conn(b)'.remote = Conn(b).remote
  BY DEF Queued
<1>2. Heard(Conn(b)'.remote, k, Conn(b)'.ops, SetOfferBy(k), AddsBy(k),
            outbox'[b], Offers(k, h), CandsBy(k))
  BY <1>1, Zenon
<1>3. Has(Conn(b)'.ops, MakeAnswer) => connectedUser'[b] = h
  BY <1>1, Zenon
<1>. QED  BY <1>1, <1>2, <1>3, Zenon DEF Callee

\* Caller, callee or a third page reads a relayed message: descriptions and candidates
\* move from the messages to the operations in the order they came.
LEMMA TalkRead == \A k, b \in Conns, h \in Names, d \in Conns : \A m :
    /\ NamesStay /\ Talk(k, b, h) /\ ReadMove(d, m)
    => Talk(k, b, h)'
\* The caller's side when k's connection gets another operation.
<1>CallerQueues.
  ASSUME NamesStay, NEW k \in Conns, NEW b \in Conns, Caller(k, b),
         NEW o \in CallerOps(b), Queued(k, Append(Conn(k).ops, o)),
         otherName'[k] = otherName[k], wire'[k] = wire[k], outbox'[k] \in Seq(CallerIn(b))
  PROVE  Caller(k, b)'
  <2>. USE <1>CallerQueues
  <2>1. Leads(b, otherName[k])'
    BY DEF Caller, NamesStay, Leads
  <2>2. Conn(k).ops \in Seq(CallerOps(b)) /\ Ready(Conn(k), b)
    BY DEF Caller
  <2>3. Append(Conn(k).ops, o) \in Seq(CallerOps(b))
    BY <2>2, SeqAppend
  <2>4. /\ Conn(k)'.ops = Append(Conn(k).ops, o) /\ Conn(k)'.remote = Conn(k).remote
        /\ Conn(k)'.state = Conn(k).state
    BY Zenon DEF Queued
  <2>5. ASSUME Has(Conn(k).ops, SetOffer), Led(Conn(k).ops, SetOffer, SetAnswerBy(b))
        PROVE  Has(Append(Conn(k).ops, o), SetOffer)
               /\ Led(Append(Conn(k).ops, o), SetOffer, SetAnswerBy(b))
    BY <2>2, <2>5, HasAppend, LedAppend
  <2>6. \/ Conn(k)'.remote = b \/ Conn(k)'.state = "have-local-offer"
        \/ Has(Conn(k)'.ops, SetOffer) /\ Led(Conn(k)'.ops, SetOffer, SetAnswerBy(b))
    BY <2>2, <2>4, <2>5, Zenon DEF Ready
  <2>7. Ready(Conn(k), b)'
    BY <2>6 DEF Ready
  <2>. QED  BY <2>1, <2>3, <2>4, <2>7 DEF Caller
\* The caller reads an answer or a candidate.
<1>CallerReads.
  ASSUME NamesStay, NEW k \in Conns, NEW b \in Conns, NEW h \in Names, Talk(k, b, h),
         NEW m, ReadMove(k, m)
  PROVE  Talk(k, b, h)'
  <2>. USE <1>CallerReads
  <2>1. \A e \in Conns \ {k, b} : Apart(e)'
    BY ApartKept, Zenon DEF Talk
  <2>2. /\ k # b /\ Called(k)' /\ Leads(k, h)' /\ Caller(k, b) /\ Callee(k, b, h)
        /\ outbox[k] \in Seq(CallerIn(b)) /\ Conn(k).ops \in Seq(CallerOps(b))
    BY Zenon DEF ReadMove, NoCall, Talk, NamesStay, Caller
  <2>3. /\ outbox[k] # <<>> /\ m = Head(outbox[k]) /\ outbox'[k] = Tail(outbox[k])
        /\ wire'[k] = wire[k] /\ otherName'[k] = otherName[k]
        /\ wire'[b] = wire[b] /\ otherName'[b] = otherName[b] /\ outbox'[b] = outbox[b]
        /\ Kept(b) /\ connectedUser'[b] = connectedUser[b]
        /\ m.type \in {"offer", "answer", "candidate"}
    BY <2>2, Zenon DEF ReadMove
  <2>4. m \in CallerIn(b) /\ Tail(outbox[k]) \in Seq(CallerIn(b))
    BY <2>2, <2>3, SeqParts, Zenon
  <2>5. m \in Answers(b) \/ m \in Cands
    BY <2>3, <2>4, Zenon DEF CallerIn, Chatter, Plain
  <2>6. Callee(k, b, h)'
    <3>1. Heard(Conn(b).remote, k, Conn(b).ops, SetOfferBy(k), AddsBy(k),
                outbox'[b], Offers(k, h), CandsBy(k))
      BY <2>2, <2>3, Zenon DEF Callee
    <3>. QED  BY <2>2, <2>3, <3>1, CalleeMoves, Zenon DEF Callee
  <2>7. PICK o \in CallerOps(b) : /\ Queued(k, Append(Conn(k).ops, o))
                                  /\ m \in Answers(b) => o \in SetAnswerBy(b)
                                  /\ m \notin Answers(b) => (o \in AddsBy(b) => m \in CandsBy(b))
    <3>1. CASE m \in Answers(b)
      <4>1. m.type = "answer" /\ m.answer.from = b
        BY <3>1, Zenon DEF Answers
      <4>2. PICK o \in OpsBy("setRemote", "answer", b) : Queued(k, Append(Conn(k).ops, o))
        BY <4>1, Zenon DEF ReadMove
      <4>3. o \in SetAnswerBy(b) /\ o \in CallerOps(b)
        BY DEF SetAnswerBy, CallerOps
      <4>. QED  BY <3>1, <4>2, <4>3
    <3>2. CASE m \in Cands
      <4>1. m.type = "candidate" /\ m.candidate.from \in Conns /\ m \in Message
        BY <3>2, ZenonT(40) DEF Cands, CandsBy
      <4>2. PICK o \in OpsBy("addIceCandidate", "candidate", m.candidate.from) :
              Queued(k, Append(Conn(k).ops, o))
        BY <4>1 DEF ReadMove
      <4>3. o \in CallerOps(b) /\ m \notin Answers(b) /\ (o \in AddsBy(b) => m \in CandsBy(b))
        BY <4>1, Zenon DEF CallerOps, Adds, AddsBy, OpsBy, Answers, CandsBy
      <4>. QED  BY <4>2, <4>3
    <3>. QED  BY <2>5, <3>1, <3>2
  <2>8. Caller(k, b)'
    BY <2>2, <2>3, <2>4, <2>7, <1>CallerQueues, Zenon
  <2>9. /\ Conn(k)'.ops = Append(Conn(k).ops, o) /\ Conn(k)'.remote = Conn(k).remote
    BY <2>7 DEF Queued
  <2>10. SetAnswerBy(b) \cap AddsBy(b) = {}
    BY Zenon DEF SetAnswerBy, AddsBy, OpsBy, Ops
  <2>11. ASSUME Unlinked(k, b, h) PROVE Unlinked(k, b, h)'
    <3>1. ~ Has(outbox[k], CandsBy(b)) /\ ~ Has(Conn(k).ops, AddsBy(b))
      BY <2>11, Zenon DEF Unlinked
    <3>2. m \notin CandsBy(b) /\ ~ Has(outbox'[k], CandsBy(b))
      BY <2>2, <2>3, <3>1, HasTail, Zenon
    <3>3. o \notin AddsBy(b)
      BY <2>7, <2>10, <3>2, ZenonT(40)
    <3>4. ~ Has(Append(Conn(k).ops, o), AddsBy(b))
      BY <2>2, <3>1, <3>3, HasAppend
    <3>5. ~ Has(Conn(k)'.ops, AddsBy(b))
      BY <2>9, <3>4, Zenon
    <3>. QED  BY <2>3, <2>11, <3>2, <3>5, Zenon DEF Unlinked, Kept, Queued
  <2>12. ASSUME Linked(k, b, h) PROVE Linked(k, b, h)'
    <3>1. Heard(Conn(k).remote, b, Conn(k).ops, SetAnswerBy(b), AddsBy(b),
                outbox[k], Answers(b), CandsBy(b))
      BY <2>12, Zenon DEF Linked
    <3>2. Heard(Conn(k).remote, b, Append(Conn(k).ops, o), SetAnswerBy(b), AddsBy(b),
                Tail(outbox[k]), Answers(b), CandsBy(b))
      <4>1. CASE m \in Answers(b)
        BY <2>2, <2>7, <2>10, <3>1, <4>1, HeardDescription, Zenon
      <4>2. CASE m \notin Answers(b)
        BY <2>2, <2>3, <2>7, <3>1, <4>2, HeardRead, Zenon
      <4>. QED  BY <4>1, <4>2
    <3>3. Heard(Conn(k)'.remote, b, Conn(k)'.ops, SetAnswerBy(b), AddsBy(b),
                outbox'[k], Answers(b), CandsBy(b))
      BY <2>3, <2>9, <3>2, Zenon
    <3>. QED  BY <2>3, <2>12, <3>3, Zenon DEF Linked
  <2>. QED  BY <2>1, <2>2, <2>6, <2>8, <2>11, <2>12, Zenon DEF Talk
\* The callee reads the offer or a candidate.
<1>CalleeReads.
  ASSUME NamesStay, NEW k \in Conns, NEW b \in Conns, NEW h \in Names, Talk(k, b, h),
         NEW m, ReadMove(b, m)
  PROVE  Talk(k, b, h)'
  <2>. USE <1>CalleeReads
  <2>1. \A e \in Conns \ {k, b} : Apart(e)'
    BY ApartKept, Zenon DEF Talk
  <2>2. /\ k # b /\ Called(k)' /\ Leads(k, h)' /\ Caller(k, b) /\ Callee(k, b, h)
        /\ outbox[b] \in Seq(CalleeIn(k, h)) /\ Conn(b).ops \in Seq(CalleeOps(k))
        /\ wire[b] \in Seq(CalleeOut(b, h)) /\ Conn(b).state \in {"stable", "have-remote-offer"}
    BY Zenon DEF ReadMove, NoCall, Talk, NamesStay, Callee
  <2>3. /\ outbox[b] # <<>> /\ m = Head(outbox[b]) /\ outbox'[b] = Tail(outbox[b])
        /\ wire'[k] = wire[k] /\ otherName'[k] = otherName[k]
        /\ wire'[b] = wire[b] /\ otherName'[b] = otherName[b] /\ outbox'[k] = outbox[k]
        /\ Kept(k) /\ m.type \in {"offer", "answer", "candidate"}
    BY <2>2, Zenon DEF ReadMove
  <2>4. m \in CalleeIn(k, h) /\ outbox'[b] \in Seq(CalleeIn(k, h))
    BY <2>2, <2>3, SeqParts, Zenon
  <2>5. m \in Offers(k, h) \/ m \in Cands
    BY <2>3, <2>4, Zenon DEF CalleeIn, Chatter, Plain
  <2>6. Caller(k, b)'
    BY <2>2, <2>3, CallerMoves, Zenon DEF Caller
  <2>7. Heard(Conn(b).remote, k, Conn(b).ops, SetOfferBy(k), AddsBy(k),
              outbox[b], Offers(k, h), CandsBy(k))
    BY <2>2, Zenon DEF Callee
  <2>8. SetOfferBy(k) \cap AddsBy(k) = {}
    BY DEF SetOfferBy, AddsBy, OpsBy, Ops
  <2>9. /\ Callee(k, b, h)' /\ Conn(b)'.local = Conn(b).local
        /\ Has(Conn(b)'.ops, SetAnswer) => Has(Conn(b).ops, SetAnswer)
    <3>1. CASE m \in Offers(k, h)
      <4>1. m.type = "offer" /\ m.offer.from = k /\ m.name = h
        BY <3>1 DEF Offers
      <4>2. PICK o \in OpsBy("setRemote", "offer", k), a \in Ops("createAnswer", "answer") :
              Queued(b, Append(Append(Conn(b).ops, o), a))
        BY <4>1, ZenonT(40) DEF ReadMove
      <4>3. connectedUser'[b] = h
        BY <4>1 DEF ReadMove
      <4>4. /\ o \in SetOfferBy(k) /\ o \in CalleeOps(k) /\ a \in CalleeOps(k) /\ a \notin AddsBy(k)
            /\ o \notin SetAnswer /\ a \notin SetAnswer
        BY DEF SetOfferBy, CalleeOps, MakeAnswer, AddsBy, SetAnswer, OpsBy, Ops
      <4>5. PICK O : O = Append(Conn(b).ops, o)
        BY ZenonT(40)
      <4>6. O \in Seq(CalleeOps(k)) /\ Append(O, a) \in Seq(CalleeOps(k))
        BY <2>2, <4>4, <4>5, SeqAppend
      <4>7. Heard(Conn(b).remote, k, O, SetOfferBy(k), AddsBy(k),
                  outbox'[b], Offers(k, h), CandsBy(k))
        BY <2>2, <2>7, <2>8, <4>4, <4>5, HeardDescription, Zenon
      <4>8. Heard(Conn(b).remote, k, Append(O, a), SetOfferBy(k), AddsBy(k),
                  outbox'[b], Offers(k, h), CandsBy(k))
        BY <4>4, <4>6, <4>7, HeardQueue
      <4>9. Queued(b, Append(O, a))
        BY <4>2, <4>5, Zenon
      <4>10. Callee(k, b, h)'
        BY <2>2, <2>3, <2>4, <4>3, <4>6, <4>8, <4>9, CalleeQueues, Zenon
      <4>11. Has(Append(O, a), SetAnswer) => Has(Conn(b).ops, SetAnswer)
        <5>1. Has(Append(O, a), SetAnswer) => Has(O, SetAnswer)
          BY <4>4, <4>6, HasAppend, ZenonT(40)
        <5>2. Has(Append(Conn(b).ops, o), SetAnswer) => Has(Conn(b).ops, SetAnswer)
          BY <2>2, <4>4, HasAppend
        <5>. QED  BY <4>5, <5>1, <5>2, Zenon
      <4>. QED  BY <4>9, <4>10, <4>11, Zenon DEF Queued
    <3>2. CASE m \in Cands
      <4>1. m.type = "candidate" /\ m.candidate.from \in Conns /\ m \in Message
        BY <3>2, Zenon DEF Cands, CandsBy
      <4>2. PICK o \in OpsBy("addIceCandidate", "candidate", m.candidate.from) :
              Queued(b, Append(Conn(b).ops, o))
        BY <4>1, Zenon DEF ReadMove
      <4>3. connectedUser'[b] = connectedUser[b]
        BY <4>1 DEF ReadMove
      <4>4. /\ o \in CalleeOps(k) /\ m \notin Offers(k, h) /\ (o \in AddsBy(k) => m \in CandsBy(k))
            /\ o \notin MakeAnswer /\ o \notin SetAnswer
        BY <4>1 DEF CalleeOps, Adds, AddsBy, OpsBy, Ops, Offers, CandsBy, MakeAnswer, SetAnswer
      <4>5. Append(Conn(b).ops, o) \in Seq(CalleeOps(k))
        BY <2>2, <4>4, SeqAppend, Zenon
      <4>6. /\ Has(Append(Conn(b).ops, o), SetAnswer) => Has(Conn(b).ops, SetAnswer)
            /\ Has(Append(Conn(b).ops, o), MakeAnswer) => Has(Conn(b).ops, MakeAnswer)
        BY <2>2, <4>4, HasAppend, Zenon
      <4>7. Heard(Conn(b).remote, k, Append(Conn(b).ops, o), SetOfferBy(k), AddsBy(k),
                  Tail(outbox[b]), Offers(k, h), CandsBy(k))
        BY <2>2, <2>3, <2>7, <4>4, HeardRead, Zenon
      <4>8. Heard(Conn(b).remote, k, Append(Conn(b).ops, o), SetOfferBy(k), AddsBy(k),
                  outbox'[b], Offers(k, h), CandsBy(k))
        BY <2>3, <4>7, Zenon
      <4>9. Has(Append(Conn(b).ops, o), MakeAnswer) => connectedUser'[b] = h
        BY <2>2, <4>3, <4>6, Zenon DEF Callee
      <4>10. Callee(k, b, h)'
        BY <2>2, <2>3, <2>4, <4>2, <4>5, <4>8, <4>9, CalleeQueues, Zenon
      <4>. QED  BY <4>2, <4>6, <4>10, Zenon DEF Queued
    <3>. QED  BY <2>5, <3>1, <3>2
  <2>10. Unlinked(k, b, h) => Unlinked(k, b, h)'
    BY <2>3, <2>9, Zenon DEF Unlinked, Kept, Queued
  <2>11. Linked(k, b, h) => Linked(k, b, h)'
    BY <2>3, ZenonT(40) DEF Linked, Kept, Queued
  <2>. QED  BY <2>1, <2>2, <2>6, <2>9, <2>10, <2>11, Zenon DEF Talk
<1>. QED
  <2>. SUFFICES
    ASSUME NamesStay, NEW k \in Conns, NEW b \in Conns, NEW h \in Names, Talk(k, b, h),
           NEW d \in Conns, NEW m, ReadMove(d, m)
    PROVE  Talk(k, b, h)'
    OBVIOUS
  <2>1. CASE d \notin {k, b}
    <3>1. \A e \in Conns \ {k, b} : Apart(e)'
      BY ApartKept, Zenon DEF Talk
    <3>2. NoCall /\ \A e \in {k, b} : /\ Kept(e) /\ wire'[e] = wire[e] /\ outbox'[e] = outbox[e]
                                      /\ otherName'[e] = otherName[e]
                                      /\ connectedUser'[e] = connectedUser[e]
      BY <2>1, Zenon DEF ReadMove
    <3>. QED  BY <3>1, <3>2, TalkElsewhere, Zenon
  <2>. QED  BY <2>1, <1>CallerReads, <1>CalleeReads

-----------------------------------------------------------------------------
(* A call that reached b: the connections work.                            *)

\* Caller, callee or a third page runs an operation: a description is set before the
\* candidates behind it are added.
LEMMA TalkRun == \A k, b \in Conns, h \in Names, d \in Conns : \A op :
    /\ NamesStay /\ Talk(k, b, h) /\ RunMove(d, op)
    => Talk(k, b, h)'
\* k's connection finishes an operation.
<1>CallerRuns.
  ASSUME NamesStay, NEW k \in Conns, NEW b \in Conns, NEW h \in Names, Talk(k, b, h),
         NEW op, RunMove(k, op)
  PROVE  Talk(k, b, h)'
  <2>. USE <1>CallerRuns
  <2>1. \A e \in Conns \ {k, b} : Apart(e)'
    BY ApartKept, Zenon DEF Talk
  <2>2. /\ k # b /\ Called(k)' /\ Leads(k, h)' /\ Caller(k, b) /\ Callee(k, b, h)
        /\ Conn(k).ops \in Seq(CallerOps(b)) /\ Ready(Conn(k), b)
        /\ Conn(k).state \in {"stable", "have-local-offer"}
    BY Zenon DEF RunMove, NoCall, Talk, NamesStay, Caller
  <2>3. /\ Conn(k).ops # <<>> /\ op = Head(Conn(k).ops)
        /\ outbox'[k] = outbox[k] /\ otherName'[k] = otherName[k]
        /\ wire'[b] = wire[b] /\ otherName'[b] = otherName[b] /\ outbox'[b] = outbox[b]
        /\ Kept(b) /\ connectedUser'[b] = connectedUser[b]
    BY <2>2, Zenon DEF RunMove
  <2>4. op \in CallerOps(b) /\ Tail(Conn(k).ops) \in Seq(CallerOps(b))
    BY <2>2, <2>3, SeqParts, Zenon
  <2>5. Callee(k, b, h)'
    <3>1. Heard(Conn(b).remote, k, Conn(b).ops, SetOfferBy(k), AddsBy(k),
                outbox'[b], Offers(k, h), CandsBy(k))
      BY <2>2, <2>3, Zenon DEF Callee
    <3>. QED  BY <2>2, <2>3, <3>1, CalleeMoves, Zenon DEF Callee
  <2>6. /\ op \in SetOffer => op.do = "setLocal" /\ op.type = "offer" /\ op \notin SetAnswerBy(b)
        /\ op \in SetAnswerBy(b) => op.do = "setRemote" /\ op.type = "answer" /\ op.blob.from = b
        /\ op \in Adds => /\ op.do = "addIceCandidate"
                          /\ op \notin SetOffer /\ op \notin SetAnswerBy(b)
        /\ op \in SetOffer \/ op \in SetAnswerBy(b) \/ op \in Adds
    BY <2>4, Zenon DEF CallerOps, SetOffer, SetAnswerBy, Adds, AddsBy, OpsBy, Ops
  <2>7. wire'[k] = wire[k] /\ Conn(k)'.ops = Tail(Conn(k).ops)
    BY <2>6, Zenon DEF RunMove, Queued
  <2>8. /\ op \in SetOffer => Conn(k)'.state = "have-local-offer" /\ Conn(k)'.remote = Conn(k).remote
        /\ op \in SetAnswerBy(b) => /\ Conn(k)'.state \in {"stable", "have-local-offer"}
                                    /\ Conn(k)'.remote = b
        /\ op \in Adds => Conn(k)'.state = Conn(k).state /\ Conn(k)'.remote = Conn(k).remote
    <3>1. ASSUME op \in SetOffer
          PROVE  Conn(k)'.state = "have-local-offer" /\ Conn(k)'.remote = Conn(k).remote
      <4>1. SurelySet(op, Conn(k), Conn(k)')
        BY <2>6, <3>1, Zenon DEF RunMove
      <4>. QED  BY <2>2, <2>6, <3>1, <4>1, Zenon DEF SurelySet
    <3>2. ASSUME op \in SetAnswerBy(b)
          PROVE  Conn(k)'.state \in {"stable", "have-local-offer"} /\ Conn(k)'.remote = b
      <4>1. SurelySet(op, Conn(k), Conn(k)') /\ SetResult(Conn(k), op, Conn(k)')
        BY <2>6, <3>2, Zenon DEF RunMove
      <4>2. ~ Led(Conn(k).ops, SetOffer, SetAnswerBy(b))
        BY <2>2, <2>3, <3>2, LedTail, Zenon
      <4>3. Conn(k).remote = b \/ Conn(k).state = "have-local-offer"
        BY <2>2, <4>2, Zenon DEF Ready
      <4>. QED  BY <2>2, <2>6, <3>2, <4>1, <4>3, ZenonT(40) DEF SurelySet, SetResult
    <3>3. ASSUME op \in Adds
          PROVE  Conn(k)'.state = Conn(k).state /\ Conn(k)'.remote = Conn(k).remote
      BY <2>6, <3>3, Zenon DEF RunMove, Queued
    <3>. QED  BY <3>1, <3>2, <3>3, Zenon
  <2>9. Caller(k, b)'
    <3>1. Leads(b, otherName[k])'
      BY <2>2, <2>3, ZenonT(40) DEF Caller, NamesStay, Leads
    <3>2. ASSUME op \in Adds, Has(Conn(k).ops, SetOffer), Led(Conn(k).ops, SetOffer, SetAnswerBy(b))
          PROVE  Has(Tail(Conn(k).ops), SetOffer) /\ Led(Tail(Conn(k).ops), SetOffer, SetAnswerBy(b))
      BY <2>2, <2>3, <2>6, <3>2, HasTail, LedTail, Zenon
    <3>3. \/ Conn(k)'.remote = b \/ Conn(k)'.state = "have-local-offer"
          \/ Has(Conn(k)'.ops, SetOffer) /\ Led(Conn(k)'.ops, SetOffer, SetAnswerBy(b))
      <4>1. CASE op \in SetOffer \/ op \in SetAnswerBy(b)
        BY <2>8, <4>1, Zenon
      <4>2. CASE op \in Adds
        BY <2>2, <2>7, <2>8, <3>2, <4>2, Zenon DEF Ready
      <4>. QED  BY <2>6, <4>1, <4>2, Zenon
    <3>4. Ready(Conn(k), b)'
      BY <3>3, Zenon DEF Ready
    <3>5. Conn(k)'.state \in {"stable", "have-local-offer"}
      BY <2>2, <2>6, <2>8, Zenon
    <3>. QED  BY <2>2, <2>3, <2>4, <2>7, <3>1, <3>4, <3>5, Zenon DEF Caller
  <2>10. ASSUME Unlinked(k, b, h) PROVE Unlinked(k, b, h)'
    <3>1. ~ Has(Tail(Conn(k).ops), AddsBy(b))
      BY <2>2, <2>3, <2>10, HasTail, Zenon DEF Unlinked
    <3>2. ~ Has(Conn(k)'.ops, AddsBy(b))
      BY <2>7, <3>1, Zenon
    <3>. QED  BY <2>3, <2>10, <3>2, Zenon DEF Unlinked, Kept, Queued
  <2>11. ASSUME Linked(k, b, h) PROVE Linked(k, b, h)'
    <3>1. Heard(Conn(k).remote, b, Conn(k).ops, SetAnswerBy(b), AddsBy(b),
                outbox[k], Answers(b), CandsBy(b))
      BY <2>11, Zenon DEF Linked
    <3>2. Heard(Conn(k)'.remote, b, Conn(k)'.ops, SetAnswerBy(b), AddsBy(b),
                outbox'[k], Answers(b), CandsBy(b))
      <4>1. CASE op \in SetAnswerBy(b)
        BY <2>8, <4>1 DEF Heard
      <4>2. CASE op \notin SetAnswerBy(b)
        <5>1. Heard(Conn(k).remote, b, Tail(Conn(k).ops), SetAnswerBy(b), AddsBy(b),
                    outbox[k], Answers(b), CandsBy(b))
          BY <2>2, <2>3, <3>1, <4>2, HeardDone, Zenon
        <5>2. Conn(k)'.remote = Conn(k).remote
          BY <2>6, <2>8, <4>2, Zenon
        <5>. QED  BY <2>3, <2>7, <5>1, <5>2, Zenon
      <4>. QED  BY <4>1, <4>2, ZenonT(40)
    <3>. QED  BY <2>3, <2>11, <3>2, Zenon DEF Linked
  <2>. QED  BY <2>1, <2>2, <2>5, <2>9, <2>10, <2>11, Zenon DEF Talk
\* b's connection sets k's offer, or another description.
<1>CalleeSets.
  ASSUME NEW k \in Conns, NEW b \in Conns, NEW h \in Names, Callee(k, b, h),
         NEW op, RunMove(b, op), op \in SetOfferBy(k) \/ op \in SetAnswer
  PROVE  /\ Callee(k, b, h)' /\ wire'[b] = wire[b] /\ Conn(b)'.ops = Tail(Conn(b).ops)
         /\ Conn(b)'.local => Conn(b).local \/ op \in SetAnswer
  <2>. USE <1>CalleeSets
  <2>1. /\ Conn(b).ops \in Seq(CalleeOps(k)) /\ Conn(b).state \in {"stable", "have-remote-offer"}
        /\ wire[b] \in Seq(CalleeOut(b, h)) /\ outbox[b] \in Seq(CalleeIn(k, h))
        /\ Has(Conn(b).ops, MakeAnswer) => connectedUser[b] = h
        /\ Heard(Conn(b).remote, k, Conn(b).ops, SetOfferBy(k), AddsBy(k),
                 outbox[b], Offers(k, h), CandsBy(k))
    BY Zenon DEF Callee
  <2>2. /\ op \in SetOfferBy(k) => op.do = "setRemote" /\ op.type = "offer" /\ op.blob.from = k
        /\ op \in SetAnswer => op.do = "setLocal" /\ op.type = "answer" /\ op \notin SetOfferBy(k)
    BY Zenon DEF SetOfferBy, SetAnswer, OpsBy, Ops
  <2>3. /\ Conn(b).ops # <<>> /\ op = Head(Conn(b).ops) /\ outbox'[b] = outbox[b]
        /\ connectedUser'[b] = connectedUser[b] /\ wire'[b] = wire[b]
        /\ Conn(b)'.ops = Tail(Conn(b).ops)
        /\ SetResult(Conn(b), op, Conn(b)') /\ SurelySet(op, Conn(b), Conn(b)')
    BY <2>2, Zenon DEF RunMove
  <2>4. Tail(Conn(b).ops) \in Seq(CalleeOps(k))
    BY <2>1, <2>3, SeqParts, Zenon
  <2>5. Has(Tail(Conn(b).ops), MakeAnswer) => connectedUser'[b] = h
    BY <2>1, <2>3, HasTail, Zenon
  <2>6. /\ Conn(b)'.state \in {"stable", "have-remote-offer"}
        /\ op \in SetOfferBy(k) => Conn(b)'.remote = k
        /\ op \in SetAnswer => Conn(b)'.remote = Conn(b).remote
        /\ Conn(b)'.local => Conn(b).local \/ op \in SetAnswer
    BY <2>1, <2>2, <2>3, Zenon DEF SetResult, SurelySet
  <2>7. Heard(Conn(b)'.remote, k, Conn(b)'.ops, SetOfferBy(k), AddsBy(k),
              outbox'[b], Offers(k, h), CandsBy(k))
    <3>1. CASE op \in SetOfferBy(k)
      BY <2>6, <3>1 DEF Heard
    <3>2. CASE op \in SetAnswer
      <4>1. Heard(Conn(b).remote, k, Tail(Conn(b).ops), SetOfferBy(k), AddsBy(k),
                  outbox[b], Offers(k, h), CandsBy(k))
        BY <2>1, <2>2, <2>3, <3>2, HeardDone, Zenon
      <4>. QED  BY <2>3, <2>6, <3>2, <4>1, Zenon
    <3>. QED  BY <3>1, <3>2, ZenonT(40)
  <2>8. /\ Has(Conn(b)'.ops, MakeAnswer) => connectedUser'[b] = h
        /\ Conn(b)'.ops \in Seq(CalleeOps(k))
    BY <2>3, <2>4, <2>5, Zenon
  <2>. QED  BY <2>1, <2>3, <2>6, <2>7, <2>8, Zenon DEF Callee
\* b's connection adds a candidate or makes an answer, in vain or not.
<1>CalleeAnswers.
  ASSUME NEW k \in Conns, NEW b \in Conns, NEW h \in Names, Callee(k, b, h),
         NEW op, RunMove(b, op), op \in MakeAnswer \/ op \in Adds
  PROVE  /\ Callee(k, b, h)' /\ Conn(b)'.local = Conn(b).local
         /\ \/ wire'[b] = wire[b] /\ Conn(b)'.ops = Tail(Conn(b).ops)
            \/ \E r \in HomeAnswers(b, h) : wire'[b] = Append(wire[b], r)
  <2>. USE <1>CalleeAnswers
  <2>1. /\ Conn(b).ops \in Seq(CalleeOps(k)) /\ Conn(b).state \in {"stable", "have-remote-offer"}
        /\ wire[b] \in Seq(CalleeOut(b, h)) /\ outbox[b] \in Seq(CalleeIn(k, h))
        /\ Has(Conn(b).ops, MakeAnswer) => connectedUser[b] = h
        /\ Heard(Conn(b).remote, k, Conn(b).ops, SetOfferBy(k), AddsBy(k),
                 outbox[b], Offers(k, h), CandsBy(k))
    BY Zenon DEF Callee
  <2>2. /\ op \in MakeAnswer => op.do = "createAnswer"
        /\ op \in Adds => op.do = "addIceCandidate"
        /\ op \notin SetOfferBy(k)
    BY Zenon DEF SetOfferBy, MakeAnswer, Adds, AddsBy, OpsBy, Ops
  <2>3. /\ Conn(b).ops # <<>> /\ op = Head(Conn(b).ops) /\ outbox'[b] = outbox[b]
        /\ connectedUser'[b] = connectedUser[b]
    BY Zenon DEF RunMove
  <2>4. PICK O : O = Tail(Conn(b).ops)
    BY Zenon
  <2>5. O \in Seq(CalleeOps(k))
    BY <2>1, <2>3, <2>4, SeqParts, Zenon
  <2>6. Has(O, MakeAnswer) => Has(Conn(b).ops, MakeAnswer)
    BY <2>1, <2>3, <2>4, HasTail, Zenon
  <2>7. Heard(Conn(b).remote, k, O, SetOfferBy(k), AddsBy(k), outbox[b], Offers(k, h), CandsBy(k))
    BY <2>1, <2>2, <2>3, <2>4, HeardDone, Zenon
  <2>8. ASSUME wire'[b] = wire[b], Queued(b, O)
        PROVE  Callee(k, b, h)' /\ Conn(b)'.local = Conn(b).local /\ Conn(b)'.ops = O
    <3>1. Callee(k, b, h)'
      BY <2>1, <2>3, <2>5, <2>6, <2>7, <2>8, CalleeQueues, Zenon
    <3>. QED  BY <2>8, <3>1, Zenon DEF Queued
  <2>9. ASSUME op.do = "createAnswer",
               NEW r \in Asks(b, {"answer"}), NEW o \in Ops("setLocal", "answer"),
               r.name = connectedUser[b], wire'[b] = Append(wire[b], r), Queued(b, Append(O, o))
        PROVE  Callee(k, b, h)' /\ Conn(b)'.local = Conn(b).local /\ r \in HomeAnswers(b, h)
    <3>1. Has(Conn(b).ops, MakeAnswer)
      <4>1. op \in MakeAnswer
        BY <2>2, <2>9, Zenon
      <4>. QED  BY <2>1, <2>3, <4>1, HasTail, Zenon
    <3>2. connectedUser[b] = h /\ r \in HomeAnswers(b, h) /\ r \in CalleeOut(b, h)
      BY <2>1, <2>9, <3>1, Zenon DEF HomeAnswers, CalleeOut
    <3>3. o \in CalleeOps(k) /\ o \notin AddsBy(k)
      BY Zenon DEF CalleeOps, SetAnswer, AddsBy, OpsBy, Ops
    <3>4. wire'[b] \in Seq(CalleeOut(b, h)) /\ Append(O, o) \in Seq(CalleeOps(k))
      BY <2>1, <2>5, <2>9, <3>2, <3>3, SeqAppend, Zenon
    <3>5. Heard(Conn(b).remote, k, Append(O, o), SetOfferBy(k), AddsBy(k),
                outbox[b], Offers(k, h), CandsBy(k))
      BY <2>5, <2>7, <3>3, HeardQueue, Zenon
    <3>6. Callee(k, b, h)'
      BY <2>1, <2>3, <2>9, <3>2, <3>4, <3>5, CalleeQueues, ZenonT(40)
    <3>. QED  BY <2>9, <3>2, <3>6, Zenon DEF Queued
  <2>10. \/ wire'[b] = wire[b] /\ Queued(b, O)
         \/ /\ op.do = "createAnswer"
            /\ \E r \in Asks(b, {"answer"}), o \in Ops("setLocal", "answer") :
                 /\ r.name = connectedUser[b]
                 /\ wire'[b] = Append(wire[b], r) /\ Queued(b, Append(O, o))
    BY <2>2, <2>4, Zenon DEF RunMove
  <2>. QED  BY <2>4, <2>8, <2>9, <2>10, Zenon
\* b's connection finishes an operation.
<1>CalleeRuns.
  ASSUME NamesStay, NEW k \in Conns, NEW b \in Conns, NEW h \in Names, Talk(k, b, h),
         NEW op, RunMove(b, op)
  PROVE  Talk(k, b, h)'
  <2>. USE <1>CalleeRuns
  <2>1. \A e \in Conns \ {k, b} : Apart(e)'
    BY ApartKept, Zenon DEF Talk
  <2>2. /\ k # b /\ Called(k)' /\ Leads(k, h)' /\ Caller(k, b) /\ Callee(k, b, h)
        /\ Conn(b).ops \in Seq(CalleeOps(k)) /\ wire[b] \in Seq(CalleeOut(b, h))
    BY Zenon DEF RunMove, NoCall, Talk, NamesStay, Callee
  <2>3. /\ Conn(b).ops # <<>> /\ op = Head(Conn(b).ops)
        /\ wire'[k] = wire[k] /\ outbox'[k] = outbox[k] /\ otherName'[k] = otherName[k] /\ Kept(k)
        /\ otherName'[b] = otherName[b]
    BY <2>2, Zenon DEF RunMove
  <2>4. op \in CalleeOps(k)
    BY <2>2, <2>3, SeqParts, Zenon
  <2>5. Caller(k, b)'
    BY <2>2, <2>3, CallerMoves, Zenon DEF Caller
  <2>6. /\ Callee(k, b, h)' /\ (Conn(b)'.local => Conn(b).local \/ op \in SetAnswer)
        /\ \/ wire'[b] = wire[b] /\ Conn(b)'.ops = Tail(Conn(b).ops)
           \/ \E r \in HomeAnswers(b, h) : wire'[b] = Append(wire[b], r)
    <3>1. CASE op \in SetOfferBy(k) \/ op \in SetAnswer
      BY <2>2, <3>1, <1>CalleeSets, Zenon
    <3>2. CASE op \in MakeAnswer \/ op \in Adds
      BY <2>2, <3>2, <1>CalleeAnswers, Zenon
    <3>. QED  BY <2>4, <3>1, <3>2, Zenon DEF CalleeOps
  <2>7. ASSUME Unlinked(k, b, h) PROVE Unlinked(k, b, h)'
    <3>1. PICK H, C : H = HomeAnswers(b, h) /\ C = Asks(b, {"candidate"})
      BY ZenonT(40)
    <3>2. Led(wire[b], H, C) /\ (Conn(b).local \/ Has(Conn(b).ops, SetAnswer) => Has(wire[b], H))
      BY <2>7, <3>1 DEF Unlinked
    <3>3. ASSUME NEW r \in H, wire'[b] = Append(wire[b], r)
          PROVE  Led(wire'[b], H, C) /\ Has(wire'[b], H)
      <4>1. r \notin C
        BY <3>1, Zenon DEF HomeAnswers, Asks
      <4>2. Led(Append(wire[b], r), H, C) /\ Has(Append(wire[b], r), H)
        BY <2>2, <3>2, <4>1, LedAppend, HasAppend, Zenon
      <4>. QED  BY <3>3, <4>2, Zenon
    <3>4. ASSUME wire'[b] = wire[b], Conn(b)'.ops = Tail(Conn(b).ops)
          PROVE  Led(wire'[b], H, C)
                 /\ (Conn(b)'.local \/ Has(Conn(b)'.ops, SetAnswer) => Has(wire'[b], H))
      <4>1. op \in SetAnswer \/ Has(Tail(Conn(b).ops), SetAnswer) => Has(Conn(b).ops, SetAnswer)
        BY <2>2, <2>3, HasTail, Zenon
      <4>2. Has(Conn(b)'.ops, SetAnswer) => Has(Conn(b).ops, SetAnswer)
        BY <3>4, <4>1, Zenon
      <4>. QED  BY <2>6, <3>2, <3>4, <4>1, <4>2, Zenon
    <3>5. Led(wire'[b], H, C)
          /\ (Conn(b)'.local \/ Has(Conn(b)'.ops, SetAnswer) => Has(wire'[b], H))
      BY <2>6, <3>1, <3>3, <3>4, Zenon
    <3>6. ~ Has(outbox'[k], CandsBy(b)) /\ ~ Has(Conn(k)'.ops, AddsBy(b)) /\ otherName'[b] = NoName
      BY <2>3, <2>7, Zenon DEF Unlinked, Kept, Queued
    <3>. QED  BY <3>1, <3>5, <3>6, Zenon DEF Unlinked
  <2>8. Linked(k, b, h) => Linked(k, b, h)'
    BY <2>3, Zenon DEF Linked, Kept, Queued
  <2>. QED  BY <2>1, <2>2, <2>5, <2>6, <2>7, <2>8, ZenonT(40) DEF Talk
<1>. QED
  <2>. SUFFICES
    ASSUME NamesStay, NEW k \in Conns, NEW b \in Conns, NEW h \in Names, Talk(k, b, h),
           NEW d \in Conns, NEW op, RunMove(d, op)
    PROVE  Talk(k, b, h)'
    OBVIOUS
  <2>1. CASE d \notin {k, b}
    <3>1. \A e \in Conns \ {k, b} : Apart(e)'
      BY ApartKept, Zenon DEF Talk
    <3>2. NoCall /\ \A e \in {k, b} : /\ Kept(e) /\ wire'[e] = wire[e] /\ outbox'[e] = outbox[e]
                                      /\ otherName'[e] = otherName[e]
                                      /\ connectedUser'[e] = connectedUser[e]
      BY <2>1, Zenon DEF RunMove
    <3>. QED  BY <3>1, <3>2, TalkElsewhere, Zenon
  <2>. QED  BY <2>1, <1>CallerRuns, <1>CalleeRuns

\* While nobody leaves, k and b go on talking.
LEMMA TalkKept ==
  ASSUME Move, NamesStay, NEW k \in Conns, FirstCall(k), NEW b \in Conns, NEW h \in Names,
         Talk(k, b, h)
  PROVE  Talk(k, b, h)'
<1>1. \A d \in Conns : ~ DialMove(d)
  BY DEF Talk, FirstCall
<1>. QED  BY <1>1, TalkPlain, TalkRelay, TalkRead, TalkRun, TalkGather DEF Move

-----------------------------------------------------------------------------
(* The stages follow one another, and show that candidates are added in    *)
(* time.                                                                   *)

\* Every move leaves the call in its stage or takes it to the next.
LEMMA StageKept ==
  ASSUME Move, NamesStay, NEW k \in Conns, Named(k), FirstCall(k), OwnAnswers(k), Stage(k)
  PROVE  Stage(k)'
<1>1. ASSUME NEW b \in Conns, NEW h \in Names, Talk(k, b, h) PROVE Stage(k)'
  BY <1>1, TalkKept DEF Stage
<1>2. Lost(k) => Stage(k)'
  BY LostKept, Zenon DEF Stage
<1>. QED  BY <1>1, <1>2, BeforeKept DEF Stage

\* In every stage a candidate that is added comes after its description.
LEMMA StageInTime == \A k, c \in Conns : \A op, d :
    /\ Stage(k) /\ Conn(c).ops # <<>> /\ op = Head(Conn(c).ops)
    /\ op.do = "addIceCandidate" /\ d = op.blob.from
    => d = c \/ Conn(c).remote = d \/ Lookup(otherName[d]) # c
\* When a candidate of d is the next to be added, d's description has been set.
<1>HeardFirst.
  ASSUME NEW rm, NEW d, NEW T, NEW O \in Seq(T), NEW S, NEW A, NEW X,
         NEW M, NEW C, Heard(rm, d, O, S, A, X, M, C), O # <<>>, Head(O) \in A
  PROVE  rm = d
  BY <1>HeardFirst, HasTail, LedTail DEF Heard
<1>. QED
  <2>. SUFFICES
    ASSUME NEW k \in Conns, Stage(k), NEW c \in Conns,
           Conn(c).ops # <<>>, NEW op, op = Head(Conn(c).ops), op.do = "addIceCandidate",
           NEW d, d = op.blob.from
    PROVE  d = c \/ Conn(c).remote = d \/ Lookup(otherName[d]) # c
    OBVIOUS
  <2>1. ASSUME otherName[d] = NoName PROVE Lookup(otherName[d]) # c
    BY <2>1, ServerAssumption, ZenonT(40) DEF Lookup
  <2>2. ASSUME NEW e \in Conns, e # c, Leads(e, otherName[d]) PROVE Lookup(otherName[d]) # c
    BY <2>2, ServerAssumption, Zenon DEF Lookup, Leads
  <2>3. ASSUME NEW U, Conn(c).ops \in Seq(U) PROVE op \in U
    BY <2>3, SeqParts
  <2>4. op \in Adds => d \in Conns /\ op \in AddsBy(d)
    BY Zenon DEF Adds, AddsBy, OpsBy
  <2>5. CASE Before(k)
    <3>1. c = k /\ ~ Idle(k)
      BY <2>5, Zenon DEF Before, Idle, Quiet, Blank
    <3>2. ~ Calling(k)
      BY <3>1 DEF Calling, Ops
    <3>3. ~ Offering(k)
      <4>1. op \notin SetOffer
        BY Zenon DEF SetOffer, Ops
      <4>. QED  BY <2>3, <3>1, <4>1, Zenon DEF Offering
    <3>. QED  BY <2>5, <3>1, <3>2, <3>3, Zenon DEF Before
  <2>6. CASE Lost(k)
    <3>1. op \in Adds
      <4>1. c # k => Conn(c).ops \in Seq(Adds)
        BY <2>6 DEF Lost, Apart
      <4>2. c = k => Conn(c).ops \in Seq(LostOps)
        BY <2>6, Zenon DEF Lost
      <4>. QED  BY <2>3, <4>1, <4>2, ZenonT(40) DEF LostOps
    <3>2. d # k => otherName[d] = NoName
      BY <2>4, <2>6, <3>1, Zenon DEF Lost, Apart
    <3>3. d = k => otherName[d] = NoName \/ Leads(k, otherName[d])
      BY <2>6, Zenon DEF Lost
    <3>. QED  BY <2>1, <2>2, <3>2, <3>3, Zenon
  <2>7. ASSUME NEW b \in Conns, NEW h \in Names, Talk(k, b, h)
        PROVE  d = c \/ Conn(c).remote = d \/ Lookup(otherName[d]) # c
    <3>1. /\ k # b /\ Leads(k, h) /\ Leads(b, otherName[k])
          /\ Conn(k).ops \in Seq(CallerOps(b)) /\ Conn(b).ops \in Seq(CalleeOps(k))
          /\ Unlinked(k, b, h) \/ Linked(k, b, h)
          /\ \A e \in Conns \ {k, b} : otherName[e] = NoName /\ Conn(e).ops \in Seq(Adds)
      BY <2>7, Zenon DEF Talk, Caller, Callee, Apart
    <3>2. op \in Adds
      <4>1. \A o \in CallerOps(b) \union CalleeOps(k) : o.do = "addIceCandidate" => o \in Adds
        BY Zenon DEF CallerOps, CalleeOps, SetOffer, SetAnswer, MakeAnswer, SetOfferBy, SetAnswerBy,
               OpsBy, Ops
      <4>2. op \in CallerOps(b) \/ op \in CalleeOps(k) \/ op \in Adds
        BY <2>3, <3>1, Zenon
      <4>. QED  BY <4>1, <4>2, Zenon
    <3>3. CASE d \notin {k, b}
      BY <2>1, <2>4, <3>1, <3>2, <3>3, Zenon
    <3>4. CASE d = k
      <4>1. CASE c = b
        <5>1. Heard(Conn(b).remote, k, Conn(b).ops, SetOfferBy(k), AddsBy(k),
                    outbox[b], Offers(k, h), CandsBy(k))
          BY <2>7, Zenon DEF Talk, Callee
        <5>2. Conn(b).remote = k
          BY <2>4, <3>1, <3>2, <3>4, <4>1, <5>1, <1>HeardFirst, Zenon
        <5>. QED  BY <3>4, <4>1, <5>2, Zenon
      <4>2. CASE c # b
        BY <2>2, <3>1, <3>4, <4>2, Zenon
      <4>. QED  BY <4>1, <4>2, Zenon
    <3>5. CASE d = b
      <4>1. CASE Unlinked(k, b, h)
        BY <2>1, <3>5, <4>1, Zenon DEF Unlinked
      <4>2. CASE Linked(k, b, h) /\ c # k
        BY <2>2, <3>1, <3>5, <4>2, Zenon DEF Linked
      <4>3. CASE Linked(k, b, h) /\ c = k
        <5>1. Heard(Conn(k).remote, b, Conn(k).ops, SetAnswerBy(b), AddsBy(b),
                    outbox[k], Answers(b), CandsBy(b))
          BY <4>3, Zenon DEF Linked
        <5>2. Conn(k).remote = b
          BY <2>4, <3>1, <3>2, <3>5, <4>3, <5>1, <1>HeardFirst, Zenon
        <5>. QED  BY <3>5, <4>3, <5>2, Zenon
      <4>. QED  BY <3>1, <4>1, <4>2, <4>3, Zenon
    <3>. QED  BY <3>3, <3>4, <3>5, Zenon
  <2>. QED  BY <2>5, <2>6, <2>7, ZenonT(40) DEF Stage

=============================================================================
