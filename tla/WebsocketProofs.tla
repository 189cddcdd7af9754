--------------------------- MODULE WebsocketProofs ---------------------------
(***************************************************************************)
(* Proofs about Websocket, for any number of messages: the flag of the     *)
(* wrapper, and the order of the echoes.                                   *)
(***************************************************************************)
EXTENDS Websocket, TLAPS

Queues == /\ accepted \in Nat
          /\ tasks \in Seq(Nat) /\ network \in Seq(Nat)
          /\ echoes \in Seq(Nat) /\ received \in Seq(Nat)

\* Nothing was sent before the connection was tried.
Silent == link = "none" => /\ accepted = 0 /\ tasks = <<>> /\ network = <<>>
                           /\ echoes = <<>> /\ received = <<>> /\ dropped = {}

\* What waits to be written and what was not written was accepted.
Known == Range(tasks) \subseteq 1..accepted /\ dropped \subseteq 1..accepted

Below(S, T) == \A m \in S, n \in T : m < n

\* Every number up to one of S is in S or in D.
NoGap(S, D) == \A n \in S : 1..n \subseteq S \union D

Back  == Range(received) \union Range(echoes)
There == Range(network)
Here  == Range(tasks)

\* What the server has sent back is in order and skips only failed writes.
Returned == /\ Ascending(received) /\ Ascending(echoes)
            /\ Below(Range(received), Range(echoes))
            /\ NoGap(Back, dropped)

\* As long as nothing was lost, the stages before the server go on from there.
Flowing == link = "up" => /\ Ascending(network) /\ Ascending(tasks)
                          /\ Below(Back, There) /\ Below(Back \union There, Here)
                          /\ Back \union There \union Here = (1..accepted) \ dropped

\* Silent is needed for connect, HonestFlag for send and close, Known for send.
WInv == Queues /\ HonestFlag /\ Silent /\ Known /\ Returned /\ Flowing

-----------------------------------------------------------------------------
(* Queues.                                                                 *)

\* An empty queue.
LEMMA EmptyQueue ==
  /\ <<>> \in Seq(Nat) /\ Range(<<>>) = {} /\ Ascending(<<>>)
BY DEF Range, Ascending

\* What is in a queue are numbers.
LEMMA QueueRange ==
  ASSUME NEW s \in Seq(Nat)
  PROVE  /\ Range(s) \subseteq Nat /\ Len(s) \in Nat
         /\ \A x : x \in Range(s) <=> \E i \in 1..Len(s) : x = s[i]
<1>1. DOMAIN s = 1..Len(s) /\ Len(s) \in Nat /\ \A i \in 1..Len(s) : s[i] \in Nat
  OBVIOUS
<1>. QED  BY <1>1 DEF Range

\* A number is appended that is greater than those there.
LEMMA QueueAppend ==
  ASSUME NEW s \in Seq(Nat), NEW x \in Nat
  PROVE  /\ Append(s, x) \in Seq(Nat)
         /\ Range(Append(s, x)) = Range(s) \union {x}
         /\ Ascending(s) /\ Below(Range(s), {x}) => Ascending(Append(s, x))
<1>1. /\ Append(s, x) \in Seq(Nat) /\ Len(Append(s, x)) = Len(s) + 1 /\ Len(s) \in Nat
      /\ Append(s, x)[Len(s) + 1] = x
      /\ \A i \in 1..Len(s) : Append(s, x)[i] = s[i]
  OBVIOUS
<1>2. PICK u \in Seq(Nat) : u = Append(s, x)
  BY <1>1, Zenon
<1>3. /\ Len(u) = Len(s) + 1 /\ u[Len(s) + 1] = x
      /\ \A i \in 1..Len(s) : u[i] = s[i]
  BY <1>1, <1>2
<1>4. \A i \in 1..(Len(s) + 1) : i \in 1..Len(s) \/ i = Len(s) + 1
  BY <1>1
<1>5. 1..Len(s) \subseteq 1..(Len(s) + 1) /\ Len(s) + 1 \in 1..(Len(s) + 1)
  BY <1>1
<1>6. Range(u) = Range(s) \union {x}
  <2>1. ASSUME NEW y \in Range(u) PROVE y \in Range(s) \union {x}
    <3>1. PICK i \in 1..(Len(s) + 1) : y = u[i]
      BY <1>3, <2>1, QueueRange
    <3>. QED  BY <1>3, <1>4, <3>1, QueueRange, Zenon
  <2>2. ASSUME NEW y \in Range(s) PROVE y \in Range(u)
    <3>1. PICK i \in 1..Len(s) : y = s[i]
      BY <2>2, QueueRange
    <3>2. i \in 1..Len(u) /\ y = u[i]
      BY <1>3, <1>5, <3>1
    <3>. QED  BY <3>2, QueueRange
  <2>3. x \in Range(u)
    <3>1. Len(s) + 1 \in 1..Len(u) /\ x = u[Len(s) + 1]
      BY <1>3, <1>5
    <3>. QED  BY <3>1, QueueRange
  <2>. QED  BY <2>1, <2>2, <2>3, Zenon
<1>7. ASSUME Ascending(s), Below(Range(s), {x}),
             NEW i \in 1..Len(u), NEW j \in 1..Len(u), i < j
      PROVE  u[i] < u[j]
  <2>1. i \in 1..Len(s)
    BY <1>1, <1>3, <1>7
  <2>2. CASE j \in 1..Len(s)
    BY <1>3, <1>7, <2>1, <2>2 DEF Ascending
  <2>3. CASE j = Len(s) + 1
    <3>1. s[i] \in Range(s)
      BY <2>1, QueueRange
    <3>. QED  BY <1>3, <1>7, <2>1, <2>3, <3>1 DEF Below
  <2>. QED  BY <1>3, <1>4, <2>2, <2>3
<1>. QED  BY <1>2, <1>6, <1>7, Zenon DEF Ascending

\* The first number, the least of them, is taken away.
LEMMA QueueTail ==
  ASSUME NEW s \in Seq(Nat), s # <<>>
  PROVE  /\ Tail(s) \in Seq(Nat) /\ Head(s) \in Nat
         /\ Range(s) = {Head(s)} \union Range(Tail(s))
         /\ Ascending(s) => Ascending(Tail(s)) /\ Below({Head(s)}, Range(Tail(s)))
<1>1. /\ Tail(s) \in Seq(Nat) /\ Head(s) \in Nat /\ Len(Tail(s)) \in Nat
      /\ Len(s) = Len(Tail(s)) + 1 /\ Head(s) = s[1]
      /\ \A i \in 1..Len(Tail(s)) : Tail(s)[i] = s[i + 1]
  OBVIOUS
<1>2. PICK u \in Seq(Nat) : u = Tail(s)
  BY <1>1, Zenon
<1>3. /\ Len(u) \in Nat /\ Len(s) = Len(u) + 1 /\ Head(s) = s[1]
      /\ \A i \in 1..Len(u) : u[i] = s[i + 1]
  BY <1>1, <1>2
<1>4. \A i \in 1..Len(u) : i + 1 \in 1..Len(s) /\ 1 < i + 1
  BY <1>3
<1>5. 1 \in 1..Len(s) /\ \A i \in 1..Len(s) : i = 1 \/ \E j \in 1..Len(u) : i = j + 1
  <2>1. ASSUME NEW i \in 1..Len(s), i # 1 PROVE \E j \in 1..Len(u) : i = j + 1
    <3>1. i - 1 \in 1..Len(u) /\ i = (i - 1) + 1
      BY <1>3, <2>1
    <3>. QED  BY <3>1
  <2>. QED  BY <1>3, <2>1
<1>6. Range(s) = {Head(s)} \union Range(u)
  <2>1. ASSUME NEW y \in Range(s) PROVE y = Head(s) \/ y \in Range(u)
    <3>1. PICK i \in 1..Len(s) : y = s[i]
      BY <2>1, QueueRange
    <3>2. CASE i = 1
      BY <1>3, <3>1, <3>2
    <3>3. CASE \E j \in 1..Len(u) : i = j + 1
      BY <1>3, <3>1, <3>3, QueueRange, Zenon
    <3>. QED  BY <1>5, <3>2, <3>3
  <2>2. ASSUME NEW y \in Range(u) PROVE y \in Range(s)
    <3>1. PICK i \in 1..Len(u) : y = u[i]
      BY <2>2, QueueRange
    <3>. QED  BY <1>3, <1>4, <3>1, QueueRange, Zenon
  <2>3. Head(s) \in Range(s)
    BY <1>3, <1>5, QueueRange
  <2>. QED  BY <2>1, <2>2, <2>3
<1>7. ASSUME Ascending(s) PROVE Ascending(u) /\ Below({Head(s)}, Range(u))
  <2>1. ASSUME NEW i \in 1..Len(u), NEW j \in 1..Len(u), i < j PROVE u[i] < u[j]
    <3>1. i + 1 < j + 1
      BY <1>3, <2>1
    <3>. QED  BY <1>3, <1>4, <1>7, <3>1, Zenon DEF Ascending
  <2>2. ASSUME NEW y \in Range(u) PROVE Head(s) < y
    <3>1. PICK i \in 1..Len(u) : y = u[i]
      BY <2>2, QueueRange
    <3>. QED  BY <1>3, <1>4, <1>5, <1>7, <3>1 DEF Ascending
  <2>. QED  BY <2>1, <2>2 DEF Ascending, Below
<1>. QED  BY <1>1, <1>2, <1>6, <1>7

\* Two queues in a row.
LEMMA QueueConcat ==
  ASSUME NEW s \in Seq(Nat), NEW t \in Seq(Nat)
  PROVE  /\ s \o t \in Seq(Nat)
         /\ Range(s \o t) = Range(s) \union Range(t)
         /\ Ascending(s) /\ Ascending(t) /\ Below(Range(s), Range(t)) => Ascending(s \o t)
<1>1. /\ s \o t \in Seq(Nat) /\ Len(s \o t) = Len(s) + Len(t)
      /\ Len(s) \in Nat /\ Len(t) \in Nat
      /\ \A i \in 1..Len(s) : (s \o t)[i] = s[i]
      /\ \A i \in (Len(s) + 1)..(Len(s) + Len(t)) : (s \o t)[i] = t[i - Len(s)]
  OBVIOUS
<1>2. PICK u \in Seq(Nat) : u = s \o t
  BY <1>1, Zenon
<1>3. \A i \in 1..Len(s) : i \in 1..Len(u) /\ u[i] = s[i]
  BY <1>1, <1>2
<1>4. \A j \in 1..Len(t) : Len(s) + j \in 1..Len(u) /\ u[Len(s) + j] = t[j]
  <2>1. ASSUME NEW j \in 1..Len(t)
        PROVE  Len(s) + j \in 1..Len(u) /\ u[Len(s) + j] = t[j]
    <3>1. /\ Len(s) + j \in (Len(s) + 1)..(Len(s) + Len(t)) /\ (Len(s) + j) - Len(s) = j
          /\ Len(s) + j \in 1..(Len(s) + Len(t))
      BY <1>1, <2>1
    <3>. QED  BY <1>1, <1>2, <3>1
  <2>. QED  BY <2>1
<1>5. \A i \in 1..Len(u) : i \in 1..Len(s) \/ \E j \in 1..Len(t) : i = Len(s) + j
  <2>1. ASSUME NEW i \in 1..Len(u), i \notin 1..Len(s)
        PROVE  \E j \in 1..Len(t) : i = Len(s) + j
    <3>1. i - Len(s) \in 1..Len(t) /\ i = Len(s) + (i - Len(s))
      BY <1>1, <1>2, <2>1
    <3>. QED  BY <3>1, Zenon
  <2>. QED  BY <2>1
<1>6. Range(u) = Range(s) \union Range(t)
  <2>1. ASSUME NEW y \in Range(u) PROVE y \in Range(s) \union Range(t)
    <3>1. PICK i \in 1..Len(u) : y = u[i]
      BY <2>1, QueueRange
    <3>2. CASE i \in 1..Len(s)
      BY <1>3, <3>1, <3>2, QueueRange, Zenon
    <3>3. CASE \E j \in 1..Len(t) : i = Len(s) + j
      <4>1. PICK j \in 1..Len(t) : i = Len(s) + j
        BY <3>3
      <4>2. y = t[j]
        BY <1>4, <3>1, <4>1
      <4>. QED  BY <4>2, QueueRange
    <3>. QED  BY <1>5, <3>2, <3>3
  <2>2. ASSUME NEW y \in Range(s) PROVE y \in Range(u)
    <3>1. PICK i \in 1..Len(s) : y = s[i]
      BY <2>2, QueueRange
    <3>. QED  BY <1>3, <3>1, QueueRange, Zenon
  <2>3. ASSUME NEW y \in Range(t) PROVE y \in Range(u)
    <3>1. PICK i \in 1..Len(t) : y = t[i]
      BY <2>3, QueueRange
    <3>. QED  BY <1>4, <3>1, QueueRange, Zenon
  <2>. QED  BY <2>1, <2>2, <2>3
<1>7. ASSUME Ascending(s), Ascending(t), Below(Range(s), Range(t)),
             NEW i \in 1..Len(u), NEW j \in 1..Len(u), i < j
      PROVE  u[i] < u[j]
  <2>1. CASE j \in 1..Len(s)
    <3>1. i \in 1..Len(s)
      BY <1>1, <1>2, <1>7, <2>1
    <3>. QED  BY <1>3, <1>7, <2>1, <3>1 DEF Ascending
  <2>2. CASE \E k \in 1..Len(t) : j = Len(s) + k
    <3>1. PICK k \in 1..Len(t) : j = Len(s) + k
      BY <2>2
    <3>2. CASE i \in 1..Len(s)
      <4>1. s[i] \in Range(s) /\ t[k] \in Range(t)
        BY <3>2, QueueRange, Zenon
      <4>. QED  BY <1>3, <1>4, <1>7, <3>1, <3>2, <4>1, Zenon DEF Below
    <3>3. CASE \E h \in 1..Len(t) : i = Len(s) + h
      <4>1. PICK h \in 1..Len(t) : i = Len(s) + h
        BY <3>3
      <4>2. h < k
        BY <1>1, <1>7, <3>1, <4>1
      <4>. QED  BY <1>4, <1>7, <3>1, <4>1, <4>2, Zenon DEF Ascending
    <3>. QED  BY <1>5, <3>2, <3>3
  <2>. QED  BY <1>5, <2>1, <2>2
<1>. QED  BY <1>2, <1>6, <1>7 DEF Ascending

-----------------------------------------------------------------------------
\* Of the messages up to a without D, S has come back, N is on the way to the
\* server and T not written: the least message of N comes back.
LEMMA ComesBack ==
  ASSUME NEW a \in Nat, NEW D, NEW S \in SUBSET Nat, NEW N \in SUBSET Nat,
         NEW T \in SUBSET Nat, NEW h \in Nat, NEW M \in SUBSET Nat,
         N = {h} \union M, Below({h}, M),
         Below(S, N), Below(S \union N, T), S \union N \union T = (1..a) \ D,
         NoGap(S, D)
  PROVE  /\ Below(S, {h}) /\ Below(S \union {h}, M)
         /\ Below((S \union {h}) \union M, T)
         /\ (S \union {h}) \union M \union T = (1..a) \ D
         /\ NoGap(S \union {h}, D)
<1>1. Below(S, {h}) /\ Below(S \union {h}, M)
  BY DEF Below
<1>2. /\ Below((S \union {h}) \union M, T)
      /\ (S \union {h}) \union M \union T = (1..a) \ D
  <2>1. (S \union {h}) \union M = S \union N
    OBVIOUS
  <2>. QED  BY <2>1
<1>3. ASSUME NEW m \in 1..h PROVE m \in (S \union {h}) \union D
  <2>1. h \in 1..a
    OBVIOUS
  <2>2. m \in 1..a
    BY <2>1
  <2>3. m \notin M
    BY DEF Below
  <2>4. m \notin T
    BY DEF Below
  <2>. QED  BY <2>2, <2>3, <2>4
<1>. QED  BY <1>1, <1>2, <1>3 DEF NoGap

-----------------------------------------------------------------------------
\* The wrapper starts unconnected, with nothing sent.
LEMMA WInit == Init => WInv
<1>. SUFFICES ASSUME Init PROVE WInv
  OBVIOUS
<1>1. Queues
  BY EmptyQueue DEF Init, Queues
<1>2. Silent /\ HonestFlag
  BY DEF Init, Silent, HonestFlag
<1>3. Known
  BY EmptyQueue DEF Init, Known
<1>4. Returned
  BY EmptyQueue DEF Init, Returned, Back, Below, NoGap
<1>5. Flowing
  BY DEF Init, Flowing
<1>. QED  BY <1>1, <1>2, <1>3, <1>4, <1>5 DEF WInv

\* Every step of the application, the library, the network and the server.
LEMMA WStep ==
  ASSUME WInv, [Next]_wsvars
  PROVE  WInv'
<1>. USE DEF WInv, queues
<1>0. /\ Range(received) \in SUBSET Nat /\ Range(echoes) \in SUBSET Nat
      /\ There \in SUBSET Nat /\ Here \in SUBSET Nat
  BY QueueRange DEF Queues, There, Here
<1>00. Back \in SUBSET Nat /\ Back \union There \in SUBSET Nat
  BY <1>0, Zenon DEF Back
<1>1. CASE setreceivehandler
  <2>1. UNCHANGED <<iswebsocketconnected, link, accepted, tasks, network, echoes, received,
                    dropped>>
    BY <1>1 DEF setreceivehandler
  <2>2. Queues' /\ HonestFlag' /\ Silent' /\ Known'
    BY <2>1 DEF Queues, HonestFlag, Silent, Known
  <2>. QED  BY <2>1, <2>2 DEF Returned, Flowing, Back, There, Here
<1>2. CASE connect
  <2>1. /\ link = "none" /\ link' \in {"up", "failed"}
        /\ iswebsocketconnected' <=> link' = "up"
        /\ UNCHANGED <<accepted, tasks, network, echoes, received, dropped>>
    BY <1>2, Zenon DEF connect
  <2>2. HonestFlag'
    BY <2>1 DEF HonestFlag
  <2>3. Queues' /\ Silent' /\ Known'
    BY <2>1 DEF Queues, Silent, Known
  <2>4. Returned'
    BY <2>1 DEF Returned, Back
  <2>5. /\ Back' = {} /\ There' = {} /\ Here' = {} /\ accepted' = 0
        /\ Ascending(network') /\ Ascending(tasks')
    BY <2>1, EmptyQueue DEF Silent, Back, There, Here
  <2>6. Flowing'
    BY <2>5 DEF Flowing, Below
  <2>. QED  BY <2>2, <2>3, <2>4, <2>6
<1>3. CASE send
  <2>1. /\ accepted' = accepted + 1 /\ tasks' = Append(tasks, accepted + 1)
        /\ link \in {"up", "lost"}
        /\ UNCHANGED <<iswebsocketconnected, link, network, echoes, received, dropped>>
    BY <1>3 DEF send, HonestFlag
  <2>2. HonestFlag' /\ Silent'
    BY <2>1 DEF HonestFlag, Silent
  <2>3. tasks \in Seq(Nat) /\ accepted \in Nat /\ accepted + 1 \in Nat
    BY DEF Queues
  <2>4. /\ tasks' \in Seq(Nat) /\ Here' = Here \union {accepted + 1}
        /\ Ascending(tasks) /\ Below(Here, {accepted + 1}) => Ascending(tasks')
    BY <2>1, <2>3, QueueAppend, Zenon DEF Here
  <2>5. Queues'
    BY <2>1, <2>3, <2>4 DEF Queues
  <2>6. Known'
    BY <2>1, <2>3, <2>4 DEF Known, Here
  <2>7. Returned' /\ Back' = Back /\ There' = There
    BY <2>1 DEF Returned, Back, There
  <2>8. ASSUME link = "up" PROVE Flowing'
    <3>1. /\ Below(Back \union There, Here' ) /\ Below(Here, {accepted + 1})
          /\ (Back \union There) \union Here' = (1..(accepted + 1)) \ dropped
      <4>1. dropped \in SUBSET (1..accepted)
        BY DEF Known
      <4>2. /\ Below(Back \union There, Here)
            /\ (Back \union There) \union Here = (1..accepted) \ dropped
        BY <2>8 DEF Flowing
      <4>3. \A n \in (Back \union There) \union Here : n < accepted + 1
        BY <2>3, <4>2
      <4>4. 1..(accepted + 1) = (1..accepted) \union {accepted + 1}
        BY <2>3
      <4>5. accepted + 1 \notin dropped
        BY <2>3, <4>1
      <4>6. Below(Back \union There, Here') /\ Below(Here, {accepted + 1})
        BY <2>4, <4>2, <4>3, Zenon DEF Below
      <4>7. (Back \union There) \union Here' = (1..(accepted + 1)) \ dropped
        BY <2>4, <4>2, <4>4, <4>5, Zenon
      <4>. QED  BY <4>6, <4>7
    <3>. QED  BY <2>1, <2>4, <2>7, <2>8, <3>1 DEF Flowing
  <2>9. ASSUME link # "up" PROVE Flowing'
    BY <2>1, <2>9 DEF Flowing
  <2>. QED  BY <2>2, <2>5, <2>6, <2>7, <2>8, <2>9
<1>4. CASE close
  <2>1. /\ UNCHANGED <<accepted, tasks, network, echoes, received, dropped>>
        /\ \/ link' = "closed" /\ ~ iswebsocketconnected'
           \/ link = "lost" /\ UNCHANGED <<link, iswebsocketconnected>>
    BY <1>4 DEF close
  <2>2. Queues' /\ HonestFlag' /\ Silent' /\ Known'
    BY <2>1 DEF Queues, HonestFlag, Silent, Known
  <2>. QED  BY <2>1, <2>2 DEF Returned, Flowing, Back, There, Here
<1>5. CASE TaskDone
  <2>1. /\ tasks # <<>> /\ tasks' = Tail(tasks) /\ network' = Append(network, Head(tasks))
        /\ link = "up"
        /\ UNCHANGED <<iswebsocketconnected, link, accepted, echoes, received, dropped>>
    BY <1>5 DEF TaskDone
  <2>2. tasks \in Seq(Nat) /\ network \in Seq(Nat)
    BY DEF Queues
  <2>3. /\ Ascending(network) /\ Ascending(tasks)
        /\ Below(Back, There) /\ Below(Back \union There, Here)
        /\ Back \union There \union Here = (1..accepted) \ dropped
    BY <2>1 DEF Flowing
  <2>4. /\ tasks' \in Seq(Nat) /\ Head(tasks) \in Nat /\ Here = {Head(tasks)} \union Here'
        /\ Ascending(tasks') /\ Below({Head(tasks)}, Here')
    BY <2>1, <2>2, <2>3, QueueTail, Zenon DEF Here
  <2>5. Here' \in SUBSET Nat
    BY <2>4, QueueRange DEF Here
  <2>6. /\ network' \in Seq(Nat) /\ There' = There \union {Head(tasks)}
        /\ Below(There, {Head(tasks)}) => Ascending(network')
    BY <2>1, <2>2, <2>3, <2>4, QueueAppend, Zenon DEF There
  <2>7. /\ Below(There, {Head(tasks)}) /\ Below(Back, There')
        /\ Below(Back \union There', Here')
        /\ Back \union There' \union Here' = Back \union There \union Here
    <3>1. /\ Below(There, {Head(tasks)}) /\ Below(Back, There \union {Head(tasks)})
          /\ Below(Back \union (There \union {Head(tasks)}), Here')
          /\ Back \union (There \union {Head(tasks)}) \union Here'
               = Back \union There \union Here
      BY <2>3, <2>4, SMT DEF Below
    <3>. QED  BY <2>6, <3>1, Zenon
  <2>8. Queues' /\ HonestFlag' /\ Silent'
    BY <2>1, <2>4, <2>6 DEF Queues, HonestFlag, Silent
  <2>9. Known'
    BY <2>1, <2>4 DEF Known, Here
  <2>10. Returned' /\ Back' = Back
    BY <2>1 DEF Returned, Back
  <2>11. Flowing'
    BY <2>1, <2>3, <2>4, <2>6, <2>7, <2>10 DEF Flowing
  <2>. QED  BY <2>8, <2>9, <2>10, <2>11
<1>6. CASE TaskFailed
  <2>1. /\ tasks # <<>> /\ tasks' = Tail(tasks) /\ dropped' = dropped \union {Head(tasks)}
        /\ link # "none"
        /\ UNCHANGED <<iswebsocketconnected, link, accepted, network, echoes, received>>
    BY <1>6 DEF TaskFailed
  <2>2. tasks \in Seq(Nat)
    BY DEF Queues
  <2>3. /\ tasks' \in Seq(Nat) /\ Head(tasks) \in Nat /\ Here = {Head(tasks)} \union Here'
        /\ Ascending(tasks) => Ascending(tasks') /\ Below({Head(tasks)}, Here')
    BY <2>1, <2>2, QueueTail, Zenon DEF Here
  <2>4. Here' \in SUBSET Nat
    BY <2>3, QueueRange DEF Here
  <2>5. Queues' /\ HonestFlag' /\ Silent'
    BY <2>1, <2>3 DEF Queues, HonestFlag, Silent
  <2>6. Known'
    BY <2>1, <2>3, Zenon DEF Known, Here
  <2>7. Back' = Back /\ There' = There
    BY <2>1 DEF Back, There
  <2>8. Returned'
    <3>1. NoGap(Back, dropped')
      BY <2>1 DEF Returned, NoGap
    <3>. QED  BY <2>1, <2>7, <3>1 DEF Returned
  <2>9. ASSUME link = "up" PROVE Flowing'
    <3>1. /\ Ascending(network) /\ Ascending(tasks) /\ Below(Back, There)
          /\ Below(Back \union There, Here)
          /\ (Back \union There) \union Here = (1..accepted) \ dropped
      BY <2>9 DEF Flowing
    <3>2. /\ Below(Back \union There, Here')
          /\ (Back \union There) \union Here' = (1..accepted) \ dropped'
      <4>1. ~ (Head(tasks) < Head(tasks))
        BY <2>3
      <4>2. Head(tasks) \notin Here'
        BY <2>3, <3>1, <4>1, Zenon DEF Below
      <4>3. Head(tasks) \notin Back \union There
        BY <2>3, <3>1, <4>1, Zenon DEF Below
      <4>4. Below(Back \union There, Here')
        BY <2>3, <3>1, Zenon DEF Below
      <4>5. (Back \union There) \union Here' = (1..accepted) \ dropped'
        BY <2>1, <2>3, <3>1, <4>2, <4>3, Zenon
      <4>. QED  BY <4>4, <4>5
    <3>. QED  BY <2>1, <2>3, <2>7, <3>1, <3>2 DEF Flowing
  <2>10. ASSUME link # "up" PROVE Flowing'
    BY <2>1, <2>10 DEF Flowing
  <2>. QED  BY <2>5, <2>6, <2>8, <2>9, <2>10
<1>7. CASE Echo
  <2>1. /\ network # <<>> /\ network' = Tail(network) /\ echoes' = Append(echoes, Head(network))
        /\ link = "up"
        /\ UNCHANGED <<iswebsocketconnected, link, accepted, tasks, received, dropped>>
    BY <1>7 DEF Echo
  <2>2. network \in Seq(Nat) /\ echoes \in Seq(Nat) /\ accepted \in Nat
    BY DEF Queues
  <2>3. /\ Ascending(network) /\ Ascending(tasks)
        /\ Below(Back, There) /\ Below(Back \union There, Here)
        /\ Back \union There \union Here = (1..accepted) \ dropped
    BY <2>1 DEF Flowing
  <2>4. /\ network' \in Seq(Nat) /\ Head(network) \in Nat
        /\ There = {Head(network)} \union There'
        /\ Ascending(network') /\ Below({Head(network)}, There')
    BY <2>1, <2>2, <2>3, QueueTail, Zenon DEF There
  <2>5. There' \in SUBSET Nat
    BY <2>4, QueueRange DEF There
  <2>6. /\ echoes' \in Seq(Nat) /\ Range(echoes') = Range(echoes) \union {Head(network)}
        /\ Ascending(echoes) /\ Below(Range(echoes), {Head(network)}) => Ascending(echoes')
    BY <2>2, <2>1, <2>4, QueueAppend, Zenon
  <2>7. Back' = Back \union {Head(network)}
    BY <2>1, <2>6 DEF Back
  <2>8. NoGap(Back, dropped)
    BY DEF Returned
  <2>9. /\ Below(Back, {Head(network)}) /\ Below(Back', There')
        /\ Below(Back' \union There', Here)
        /\ Back' \union There' \union Here = (1..accepted) \ dropped
        /\ NoGap(Back', dropped)
    <3>1. /\ Below(Back, {Head(network)}) /\ Below(Back \union {Head(network)}, There')
          /\ Below((Back \union {Head(network)}) \union There', Here)
          /\ (Back \union {Head(network)}) \union There' \union Here
               = (1..accepted) \ dropped
          /\ NoGap(Back \union {Head(network)}, dropped)
      BY <1>0, <1>00, <2>2, <2>3, <2>4, <2>5, <2>8, ComesBack, Zenon
    <3>. QED  BY <2>7, <3>1, Zenon
  <2>10. Queues' /\ HonestFlag' /\ Silent'
    BY <2>1, <2>4, <2>6 DEF Queues, HonestFlag, Silent
  <2>11. Known' /\ Here' = Here
    BY <2>1 DEF Known, Here
  <2>12. Returned'
    <3>1. Ascending(echoes') /\ Below(Range(received), Range(echoes'))
      BY <2>6, <2>9 DEF Returned, Back, Below
    <3>. QED  BY <2>1, <2>9, <3>1 DEF Returned
  <2>13. Flowing'
    BY <2>1, <2>3, <2>4, <2>9, <2>11 DEF Flowing
  <2>. QED  BY <2>10, <2>11, <2>12, <2>13
<1>8. CASE Deliver
  <2>1. /\ echoes # <<>> /\ echoes' = Tail(echoes) /\ received' = Append(received, Head(echoes))
        /\ link # "none"
        /\ UNCHANGED <<iswebsocketconnected, link, accepted, tasks, network, dropped>>
    BY <1>8 DEF Deliver
  <2>2. echoes \in Seq(Nat) /\ received \in Seq(Nat)
    BY DEF Queues
  <2>3. /\ echoes' \in Seq(Nat) /\ Head(echoes) \in Nat
        /\ Range(echoes) = {Head(echoes)} \union Range(echoes')
        /\ Ascending(echoes') /\ Below({Head(echoes)}, Range(echoes'))
    BY <2>1, <2>2, QueueTail, Zenon DEF Returned
  <2>4. /\ received' \in Seq(Nat) /\ Range(received') = Range(received) \union {Head(echoes)}
        /\ Ascending(received) /\ Below(Range(received), {Head(echoes)})
             => Ascending(received')
    BY <2>1, <2>2, <2>3, QueueAppend, Zenon
  <2>5. Queues' /\ HonestFlag' /\ Silent' /\ Known'
    BY <2>1, <2>3, <2>4 DEF Queues, HonestFlag, Silent, Known
  <2>6. Back' = Back /\ There' = There /\ Here' = Here
    BY <2>1, <2>3, <2>4 DEF Back, There, Here
  <2>7. Ascending(received') /\ Below(Range(received'), Range(echoes'))
    BY <2>3, <2>4 DEF Returned, Below
  <2>8. Returned'
    BY <2>1, <2>3, <2>6, <2>7 DEF Returned
  <2>9. Flowing'
    BY <2>1, <2>6 DEF Flowing
  <2>. QED  BY <2>5, <2>8, <2>9
<1>9. CASE Lose
  <2>1. /\ link' = "lost" /\ network' = <<>> /\ link = "up"
        /\ UNCHANGED <<iswebsocketconnected, accepted, tasks, echoes, received, dropped>>
    BY <1>9 DEF Lose
  <2>2. Queues' /\ HonestFlag' /\ Silent' /\ Known'
    BY <2>1, EmptyQueue DEF Queues, HonestFlag, Silent, Known
  <2>. QED  BY <2>1, <2>2 DEF Returned, Flowing, Back
<1>10. CASE UNCHANGED wsvars
  <2>1. UNCHANGED <<iswebsocketconnected, link, accepted, tasks, network, echoes, received,
                    dropped>>
    BY <1>10 DEF wsvars
  <2>2. Queues' /\ HonestFlag' /\ Silent' /\ Known'
    BY <2>1 DEF Queues, HonestFlag, Silent, Known
  <2>. QED  BY <2>1, <2>2 DEF Returned, Flowing, Back, There, Here
<1>. QED
  BY <1>1, <1>2, <1>3, <1>4, <1>5, <1>6, <1>7, <1>8, <1>9, <1>10 DEF Next

\* The order within the stages and between them is the order of the whole flow.
LEMMA StagesOrder == WInv => EchoInOrder
<1>. SUFFICES ASSUME WInv PROVE EchoInOrder
  OBVIOUS
<1>1. /\ received \in Seq(Nat) /\ echoes \in Seq(Nat) /\ network \in Seq(Nat)
      /\ tasks \in Seq(Nat) /\ accepted \in Nat
  BY DEF WInv, Queues
<1>2. /\ Ascending(received) /\ Ascending(echoes) /\ NoGap(Back, dropped)
      /\ Below(Range(received), Range(echoes))
  BY DEF WInv, Returned
<1>3. ASSUME NEW n \in Range(received)
      PROVE  1..n \subseteq Range(received) \union dropped
  <2>1. ASSUME NEW m \in 1..n PROVE m \notin Range(echoes)
    <3>1. n \in Nat
      BY <1>1, <1>3, QueueRange
    <3>. QED  BY <1>2, <1>3, <3>1 DEF Below
  <2>. QED  BY <1>2, <1>3, <2>1 DEF NoGap, Back
<1>4. ASSUME link = "up"
      PROVE  /\ Ascending(received \o echoes \o network \o tasks)
             /\ Range(received \o echoes \o network \o tasks) = (1..accepted) \ dropped
  <2>1. /\ Ascending(network) /\ Ascending(tasks)
        /\ Below(Back, There) /\ Below(Back \union There, Here)
        /\ Back \union There \union Here = (1..accepted) \ dropped
    BY <1>4 DEF WInv, Flowing
  <2>2. PICK f \in Seq(Nat) : f = received \o echoes /\ Range(f) = Back /\ Ascending(f)
    BY <1>1, <1>2, QueueConcat, Zenon DEF Back
  <2>3. PICK h \in Seq(Nat) : /\ h = f \o network /\ Range(h) = Back \union There
                              /\ Ascending(h)
    <3>1. f \o network \in Seq(Nat) /\ Ascending(f \o network)
      BY <1>1, <2>1, <2>2, QueueConcat, Zenon DEF There
    <3>2. Range(f \o network) = Back \union There
      BY <1>1, <2>2, QueueConcat, Zenon DEF There
    <3>. QED  BY <3>1, <3>2, Zenon
  <2>4. PICK all \in Seq(Nat) : /\ all = h \o tasks /\ Ascending(all)
                                /\ Range(all) = Back \union There \union Here
    <3>1. h \o tasks \in Seq(Nat) /\ Ascending(h \o tasks)
      BY <1>1, <2>1, <2>3, QueueConcat, Zenon DEF Here
    <3>2. Range(h \o tasks) = (Back \union There) \union Here
      BY <1>1, <2>3, QueueConcat, Zenon DEF Here
    <3>. QED  BY <3>1, <3>2, Zenon
  <2>. QED  BY <2>1, <2>2, <2>3, <2>4
<1>. QED  BY <1>2, <1>3, <1>4 DEF EchoInOrder

\* The wrapper's flag: set from a successful connect to a successful close.
THEOREM FlagHonest == Spec => []HonestFlag
BY WInit, WStep, PTL DEF Spec, WInv

\* The handler sees the messages that send accepted in their order, each once, and
\* misses only those whose write failed; while the connection is up, every other
\* accepted message has been delivered or is on its way, in its place.
THEOREM EchoesOrdered == Spec => []EchoInOrder
BY WInit, WStep, StagesOrder, PTL DEF Spec
=============================================================================
