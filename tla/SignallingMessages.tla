------------------------- MODULE SignallingMessages -------------------------
(***************************************************************************)
(* The users of the signalling protocol and the messages that the server   *)
(* (tests/signallingserver.js) and its clients (tests/client.js) exchange. *)
(***************************************************************************)
EXTENDS Naturals, Sequences

CONSTANTS Conns,     \* WebSocket connection objects, each opened at most once
          Names,     \* user names (non-empty strings)
          NoConn,    \* JavaScript's undefined, for an entry of users
          NoName,    \* undefined, null or "", for a name
          Payloads   \* SDP and ICE blobs, opaque to the server

(* Messages to the clients.  JSON.stringify drops a field whose value is   *)
(* undefined: that is the value NoName of a field here.                    *)

Hello          == [type |-> "hello"]
LoginReply(ok) == [type |-> "login", success |-> ok]
OfferMsg(p, n) == [type |-> "offer", offer |-> p, name |-> n]
AnswerMsg(p)   == [type |-> "answer", answer |-> p]
CandidateMsg(p) == [type |-> "candidate", candidate |-> p]
LeaveMsg       == [type |-> "leave"]
ErrorMsg       == [type |-> "error"]

Message == [type : {"hello", "leave", "error"}]
           \union [type : {"login"}, success : BOOLEAN]
           \union [type : {"offer"}, offer : Payloads, name : Names \union {NoName}]
           \union [type : {"answer"}, answer : Payloads]
           \union [type : {"candidate"}, candidate : Payloads]

\* What a client sends; a field it does not use is NoName or NoBlob.
NoBlob == [from |-> NoConn, re |-> NoConn]
Request(type, n, p) == [type |-> type, name |-> n, blob |-> p]
=============================================================================
