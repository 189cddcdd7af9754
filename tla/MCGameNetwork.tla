--------------------------- MODULE MCGameNetwork ---------------------------
(* Instances of GameNetwork for TLC.                                         *)
EXTENDS GameNetwork

\* Messages in the form that OnWebSocketMessage reads.
Agreed ==
  [type : {"offer"}, name : Peers, data : {"sdp"}]
  \union [type : {"answer"}, name : Peers, answer : {"sdp"}]
  \union [type : {"candidate"}, name : Peers,
          candidate : {"with_mid", "no_mid", "unparsable"}]

\* Messages in the form that signallingserver.js relays them between two of these
\* clients: the offer is under "offer", answers and candidates carry no name, and
\* the candidate is a JSON object (network.cpp:399).  The greeting is no JSON.
Relayed ==
  [type : {"offer"}, name : Peers, offer : {"sdp"}]
  \union [type : {"answer"}, answer : {"sdp"}]
  \union [type : {"candidate"}, candidate : {"object"}]
  \union [type : {"login", "leave", "error"}] \union {[text |-> "Hello world"]}

AllMessages == Agreed \union Relayed
=============================================================================
