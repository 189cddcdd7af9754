----------------------------- MODULE Websocket -----------------------------
(***************************************************************************)
(* The WebSocket wrapper, src/websocket.cpp, talking to the echo server of *)
(* its tests, tests/loopback.js.  send returns when the message is queued; *)
(* the library writes it later, in a task whose error nobody looks at, and *)
(* the flag iswebsocketconnected does not follow the loss of the server.   *)
(* Messages are numbered in the order in which send accepted them.         *)
(***************************************************************************)
EXTENDS Naturals, Sequences, Functions

CONSTANT MaxSends   \* bound on the calls of send

ASSUME SendsAssumption == MaxSends \in Nat

VARIABLES iswebsocketconnected,
          handler,    \* a message handler is set
          link,       \* the connection: "none", "failed", "up", "lost", "closed"
          accepted,   \* how many messages send returned true for
          tasks,      \* messages accepted and not written
          network,    \* messages on their way to the server
          echoes,     \* messages on their way back
          received,   \* what the handler was called with
          dropped,    \* messages whose write failed
          ended       \* an error that no task observed ended the process

queues  == <<tasks, network, echoes>>
wsvars  == <<iswebsocketconnected, handler, link, accepted, queues, received, dropped, ended>>

Init == /\ iswebsocketconnected = FALSE /\ handler = FALSE /\ link = "none"
        /\ accepted = 0 /\ tasks = <<>> /\ network = <<>> /\ echoes = <<>>
        /\ received = <<>> /\ dropped = {} /\ ended = FALSE

-----------------------------------------------------------------------------
(* The application's thread.                                               *)

setreceivehandler ==
  /\ ~ ended /\ ~ handler
  /\ handler' = TRUE
  /\ UNCHANGED <<iswebsocketconnected, link, accepted, queues, received, dropped, ended>>

\* Mutated connect: the exception is swallowed.
connectIgnoresError ==
  /\ ~ ended /\ link = "none"
  /\ link' \in {"up", "failed"}
  /\ iswebsocketconnected' = TRUE
  /\ UNCHANGED <<handler, accepted, queues, received, dropped, ended>>

\* connect waits for the outcome.  A program connects a wrapper once.
connect ==
  /\ ~ ended /\ link = "none"
  /\ link' \in {"up", "failed"}
  /\ iswebsocketconnected' = (link' = "up")
  /\ UNCHANGED <<handler, accepted, queues, received, dropped, ended>>

\* send: false without the flag, else true once the message is queued.  The tests
\* and NetworkInit set the handler first.
send ==
  /\ ~ ended /\ handler
  /\ iswebsocketconnected /\ accepted < MaxSends
  /\ accepted' = accepted + 1
  /\ tasks' = Append(tasks, accepted')
  /\ UNCHANGED <<iswebsocketconnected, handler, link, network, echoes, received,
                 dropped, ended>>

\* close: false without the flag.  On a lost connection it may throw, and then
\* leaves the flag set.
close ==
  /\ ~ ended /\ iswebsocketconnected
  /\ \/ link' = "closed" /\ iswebsocketconnected' = FALSE
     \/ link = "lost" /\ UNCHANGED <<link, iswebsocketconnected>>
  /\ UNCHANGED <<handler, accepted, queues, received, dropped, ended>>

-----------------------------------------------------------------------------
(* The library's threads, the network and the server.                      *)

\* Mutated task: a message that is written overtakes those on their way.
TaskOvertakes ==
  /\ ~ ended /\ link = "up" /\ tasks # <<>>
  /\ tasks' = Tail(tasks)
  /\ network' = <<Head(tasks)>> \o network
  /\ UNCHANGED <<iswebsocketconnected, handler, link, accepted, echoes, received,
                 dropped, ended>>

\* The first task writes its message.
TaskDone ==
  /\ ~ ended /\ link = "up" /\ tasks # <<>>
  /\ tasks' = Tail(tasks)
  /\ network' = Append(network, Head(tasks))
  /\ UNCHANGED <<iswebsocketconnected, handler, link, accepted, echoes, received,
                 dropped, ended>>

\* The first task fails: always without the connection, possibly with it.  The
\* continuation does not call get (line 35), so the error is unobserved: the message
\* is lost, and the task library may end the process.
TaskFailed ==
  /\ ~ ended /\ link \in {"up", "lost", "closed"} /\ tasks # <<>>
  /\ tasks' = Tail(tasks)
  /\ dropped' = dropped \union {Head(tasks)}
  /\ ended' \in BOOLEAN
  /\ UNCHANGED <<iswebsocketconnected, handler, link, accepted, network, echoes, received>>

\* connection.on('message') of loopback.js sends the message back.
Echo ==
  /\ link = "up" /\ network # <<>>
  /\ network' = Tail(network)
  /\ echoes' = Append(echoes, Head(network))
  /\ UNCHANGED <<iswebsocketconnected, handler, link, accepted, tasks, received,
                 dropped, ended>>

\* Mutated delivery: the handler is called only when another message waits.
DeliverLate ==
  /\ ~ ended /\ link \in {"up", "lost"} /\ Len(echoes) > 1
  /\ echoes' = Tail(echoes)
  /\ received' = Append(received, Head(echoes))
  /\ UNCHANGED <<iswebsocketconnected, handler, link, accepted, tasks, network,
                 dropped, ended>>

\* The handler is called.
Deliver ==
  /\ ~ ended /\ link \in {"up", "lost"} /\ echoes # <<>>
  /\ echoes' = Tail(echoes)
  /\ received' = Append(received, Head(echoes))
  /\ UNCHANGED <<iswebsocketconnected, handler, link, accepted, tasks, network,
                 dropped, ended>>

\* The server or the network goes away, with what was on its way there.
Lose ==
  /\ link = "up"
  /\ link' = "lost" /\ network' = <<>>
  /\ UNCHANGED <<iswebsocketconnected, handler, accepted, tasks, echoes, received,
                 dropped, ended>>

Next == \/ setreceivehandler \/ connect \/ send \/ close
        \/ TaskDone \/ TaskFailed \/ Echo \/ Deliver \/ Lose

Spec == Init /\ [][Next]_wsvars

\* The library's threads and the server go on; the application need not.
FairSpec == /\ Spec
            /\ WF_wsvars(TaskDone \/ TaskFailed) /\ WF_wsvars(Echo) /\ WF_wsvars(Deliver)

-----------------------------------------------------------------------------
(* Properties.                                                             *)

\* The flag is set exactly between a successful connect and a successful close,
\* whatever happens to the server in between: it vouches for connect, not for the
\* connection, and is never unset while the connection is up.
HonestFlag == /\ link = "up" => iswebsocketconnected
              /\ iswebsocketconnected => link \in {"up", "lost"}

Ascending(s) == \A i, j \in 1..Len(s) : i < j => s[i] < s[j]

\* A write that fails loses its own message and no other.  The handler sees the
\* messages in the order of the calls of send, each once, and skips only those whose
\* write failed, also after the connection has gone; while it is up, every other
\* message that send accepted has been delivered or is in its place on the way.
EchoInOrder ==
  LET flow == received \o echoes \o network \o tasks
  IN  /\ Ascending(received)
      /\ \A n \in Range(received) : 1..n \subseteq Range(received) \union dropped
      /\ link = "up" => Ascending(flow) /\ Range(flow) = (1..accepted) \ dropped

\* "REQUIRE(result == "Hello world")" (testwebsocketlib.cpp:25): a message that send
\* accepted comes back to the handler, unless its write fails or the connection or
\* the process goes first.
EchoArrives ==
  \A i \in 1..MaxSends :
    accepted >= i ~> i \in Range(received) \union dropped \/ link # "up" \/ ended
=============================================================================
