# TLA+ verification of webrtc-multiplayer-game

Paths are relative to the repository root (`src/network.cpp`, `tests/signallingserver.js`, ...).

## The system

Players exchange game data over WebRTC data channels. To set a channel up, two clients
exchange an offer, an answer and ICE candidates through a signalling server.

| part | source | state | operations |
|---|---|---|---|
| signalling server | `tests/signallingserver.js` | the directory `users`; per connection `name`, `otherName` | connection, login, offer, answer, candidate, leave, unknown command, close |
| game network library | `src/network.cpp`, `include/network.h` | the map `connections`; the factory; three shared threads; per `WebrtcNetwork` object its PeerConnection, data channel and pending operations | `NetworkInit`, `Connect`, `Senddata`, `Disconnect`; the handlers of offers, answers and candidates; libwebrtc's callbacks |
| WebSocket wrapper | `src/websocket.cpp` | `iswebsocketconnected` | `connect`, `send`, `setreceivehandler`, `close` |
| example application | `apps/app.cpp` | none | `NetworkInit`, `Connect`, wait |
| browser client | `tests/client.js`, `tests/example.html` | `connectedUser`, `myConnection` and the peer connections before it | login, connect, the message handlers, asynchronous callbacks |
| test fixtures | `tests/loopback.js`, `tests/testwebsocketlib.cpp` | none | echo; three tests of the wrapper |

Interactions: clients send JSON to the server, which relays it by name; messages to one client
arrive in order; a closed socket loses what was in flight. Inside the library, the
application's thread and the WebSocket callback thread both work on `connections` and on the
objects, while libwebrtc's signaling thread runs every callback.

What makes it hard: two users calling each other at once; names that are given up and taken
again while messages are in flight; partners that leave in any order; reference counts dropped
on whichever thread is last; a destructor that stops threads shared by all objects; callbacks
arriving after `Disconnect`; a server whose handlers throw half-way; callbacks of a browser page that
use globals another message has changed meanwhile.

## Modules

### SignallingMessages, SignallingServer, NameRegistry, MCSignallingServer

`SignallingMessages` has the connections, names and messages that the server and its clients share:
one operator per message the server builds, and `Request`, the form of a client's messages.

`SignallingServer` is one Node.js process. Its event loop runs one handler at a time, so each
`case` of the message handler and the close handler is one atomic action. `users`, `name` and
`otherName` are the variables of the code. `status` is the WebSocket's `readyState`; `outbox`
holds the messages sent to a client and not received; `up` becomes FALSE when a handler throws,
because nothing catches the `TypeError`. The text `null` is such a case: it parses, and reading its
type throws (`NullMessage`). `Offer`, `Answer` and `Candidate` share `Relay`;
`Leave` and `OnClose` share `Notify`, which throws for a partner not in the directory. Two
actions are the environment's: `Disconnect` (the socket leaves OPEN, the close event follows
later) and `Receive`. SDP and ICE blobs are opaque values that remember who made them. Clients
send the messages of the protocol in any order, with names that exist or not.

`NameRegistry` is the abstract directory: a name has at most one owner, is taken only when
free, and becomes free only when its owner departs.

### GameNetwork, MCGameNetwork

`GameNetwork` is `network.cpp` in a process with three threads: `main`, `ws` and `sig`. A call
that another thread marshals to the signaling thread needs that thread to be idle (`Serving`)
and never returns once it was stopped (the caller is `Blocked`). Methods are split where other
threads can run in between:

- `Connect` = `Connect_Insert` (make the object, assign the map entry), `Connect_Store` (the end of
  the assignment, when it destroys an object), `CreateOffer_PeerConnection` (second lookup, make the
  PeerConnection), `CreateOffer_Start` (data channel, start the offer);
- an offer = `OnOffer`, `OnOffer_Store` (likewise), `CreateAnswer_PeerConnection`,
  `CreateAnswer_Describe` (set the remote description), `CreateAnswer_Start`;
- `Disconnect` = `Disconnect_Channel`, `Disconnect_PeerConnection`;
- `OnSuccess(desc)` = `OnSuccess_SetLocal`, `OnSuccess_Send`.

`Insert` and `Store` model the assignment of a `scoped_refptr` in the map
(`local/include/api/scoped_refptr.h`): the old object is released first. If that was the last
reference its destructor stops the threads, and if the object still has a PeerConnection or a
channel the destructor then waits for ever (`local/include/api/proxy.h`). Otherwise the thread is
`"replacing"` until it stores the new object, and in between the entry leads the other thread to the
dying one. References are held by
the map and by pending operations (`Observing`); a running method holds none. `fault` records a
crash: a null factory, PeerConnection, connection or thread, a JSON value of the wrong type, a
use after free, or the double-owned session description of `CreateAnswer` (undefined behaviour:
the process may end at any time, or not). A return value that is missing (`NetworkInit`,
`Connect`, `CreateOffer` fall off their end) is not modelled: no caller looks at it.

External, modelled as the code uses it: `CreatePeerConnection` may return null; a create
operation calls back once, with success or failure; `Close` ends all callbacks and fails what is
pending, or delivers a success that was already on its way; `SetLocalDescription` may fail, and then
frees the description whose text `OnSuccess` goes on to read; candidates and data channels follow the local description; `CreateSessionDescription`
returns null for an unknown type or text that does not parse. JSON messages are records; a
missing field reads as the empty string, as `Json::Value` does. `MCGameNetwork` defines two
vocabularies: `Agreed`, the form `OnWebSocketMessage` reads, and `Relayed`, the form the server
really sends to such a client.

### BrowserClient, SignallingSystem, MCSignallingSystem

`BrowserClient` is `client.js`: one page per connection, with the globals `connectedUser` and
`myConnection` (the number of the current peer connection, 0 while it is undefined), the two buttons
of the signalling, one operator per message handler, and the callbacks of `createOffer`,
`createAnswer` and `onicecandidate`. A callback uses the globals as they are when it runs: `send`
reads `connectedUser`, `Enqueue` reads `myConnection`. A `TypeError` ends the handler and nothing
else. External is `RTCPeerConnection`: a queue of operations run one after the other, legal or not
according to the signalling state (`Transitions`). A remote offer that meets a local one may be
refused or roll it back, since browsers differ. Adding a candidate and setting a description fail
silently, as the page passes no error handler. The button that sends data and the callbacks of the
data channel change nothing that a page or the server looks at.

`SignallingSystem` composes pages and server: `wire` holds the messages from a page, `outbox` those
to it, both in order. `ServerReads` runs the server's handler on the first message of a page,
`ClientReads` the page's handler on the first message to it, `PageStep` a button or a callback. A
page can leave at any time (`Disconnect`, `OnClose`), and what is in flight to it is lost. Which
names users enter is given by `Logins` and `Dials`.

### Websocket

The wrapper and the echo server of its tests. A message goes through `tasks` (accepted by `send`,
not written), `network` and `echoes` to `received`. `Lose` is the end of the server or the network.
`TaskFailed` is a write that fails, after that or on a connection that is up, and whose error nobody
observes (`websocket.cpp:35` is commented out): the message is lost, and the task library may end the
process. `dropped` remembers these messages for the properties. `close` may throw on
a lost connection and then leaves the flag set. The wrapper is connected once, and the handler is
set before the first `send`, as the tests and `NetworkInit` do.

## Runs

Passing:

- `server` (3 connections, 2 names, at most 1 message in flight per client; 60 326 states up to
  symmetry). Three connections are a caller, a callee and a third user who takes over a name or
  interferes; two names make conflicts, renames and take-overs happen. `RegistryExact`: under its
  current name a connection is in the directory exactly while it is connected. `OfferAuthentic`:
  the name on an offer in flight leads to its maker, unless that client is gone.
  `RegistryPromise`: the server implements `NameRegistry`.
- `network` (2 peers, 2 objects, 1 candidate per object, every form of message; 204 048 states). Two
  objects allow an entry to be replaced while its call goes on, or two calls at once; more objects
  are the theorems' part. `CallbacksSafe`: a callback finds its object alive and its PeerConnection
  set. `WireOrder`: no candidate before its description, nothing before the login. `OneRole`: no
  object is used both to offer and to answer. This one holds only because the destructor stops the
  threads before the second lookup can use the other thread's object: the mutant that keeps the
  threads running breaks it. `QuietWithoutRedial`: as long as no peer's entry is replaced, no thread
  hangs, the shared threads stay up, and no freed object is used. `OneDescription` (an action property):
  an object whose offer or answer was sent, refused or failed never makes another, and the outcome
  stays. `CallResolved` (liveness): a call that `Connect` began is sent, fails visibly, or ends with
  the process or its threads.
- `system` (2 pages, 2 names, every login and call allowed, 2 logins and 1 call per page, 1 message to
  the server and 2 to a page in flight; 315 993 states up to symmetry). Two logins make a second peer
  connection, and a login after a call, which is sent under the wrong name. `ClientTypeOK`: the pages'
  globals and requests are well formed, and a page has no more peer connections than logins.
  `PeerReady`: a page that is handed an offer, an answer or a candidate has a peer connection.
  `AnswerReturns`: as long as there has been one call, and nobody else has had the name of a caller who
  has left (`SoleCaller`), an answer that is set was made for this page's offer, whoever logs in again,
  takes over other names or leaves. `ServerSpec`: with these
  clients the server behaves as `SignallingServer` says, so the runs and theorems about it apply.
  `EndsWithPartner` (an action property): the server process ends only when a user closes whose partner
  has closed before, or is that user.
- `system_call` (3 pages, 1 call, 1 candidate per connection; 64 913 states). One caller, and two users
  who compete for the name called. `CandidateKept`: as long as there has been one call and no page has
  replaced its connection, a candidate is added after the description it belongs to, once the server
  has linked the two users and while nobody has left (`CandidateInTime`). `CallCompleted` (liveness): a
  call to a user who is logged in ends with both sides stable and described by each other, unless one leaves or the server ends.
- `websocket` (4 messages; 1 109 states). `HonestFlag`: the flag is set exactly from a successful
  `connect` to a successful `close`. `EchoInOrder`: the handler sees the messages in
  order, each once, and misses only those whose write failed, also after the connection was lost;
  while it is up, every other accepted message has come back or is on its way. `EchoArrives`
  (liveness): what `send` accepted comes back, unless its write fails or the connection or the
  process goes first. Four messages leave some before and some after a failed one, and two failures
  in a row.

Violated: each names a disagreement between the code and what a comment, message or interface says (the
quotations are under `findings` in `PROJECT.json`):

- `server_ghost`: a name from an earlier login of the same connection is never freed.
- `server_exit`: a user whose partner is gone ends the server process by closing.
- `server_link`: the exit of a third user cuts the link between two others.
- `network_apply`: the type `"anwer"` makes every answer unusable.
- `network_factory`: an offer can arrive before the factory exists.
- `network_selfstop`: the signaling thread can stop itself.
- `system_answer` (two callers of one user): the second offer changes `connectedUser` before the answer
  to the first was sent, and the answer reaches the second caller, who sets it.

Modelled without a run of their own: a leave for a name that is gone ends the server process as
well (the same `Notify`), and so does a message `null` (`NullMessage`; no client of the repository sends
either); an offer in the form the server relays is read under another field, and no
answer is made (`CreateAnswer_Describe`); a relayed answer has no name and leads to a null connection,
and a relayed candidate is an object where a string is read (`OnAnswer`, `OnCandidate`); a session description has
two owners (`FreedDescription`); data for a channel that is not open yet is reported as sent
(`Accepts`).

Deadlock is not checked: a crashed process, a thread that hangs, or connections that are all
closed really are the end; so is a user who does nothing more.

Bounds: `MaxQueue` (messages in flight to a client), `MaxObjects` (objects made, hence calls and
offers), `MaxCand` and `MaxCands` (candidates per connection), `MaxLogins` and `MaxDials` (uses of the
two buttons), `MaxWire` (messages in flight to the server), `MaxSends`. Messages that change nothing
are not bounded. A full queue delays the step that would add to it.

Fairness. `network` (`FairSpec`): weak fairness of the steps a thread is in the middle of (the
operating system schedules every thread), of the second half of `OnSuccess` (a callback runs to its
end), and, per object, of the completion of a create operation (libwebrtc calls back every observer
while its thread runs). `system_call` (`FairSystem`): weak fairness, per page, of the server's and the
page's handlers for a message that has arrived (event loops go on, TCP delivers while the connection
is open) and, per peer connection, of its first operation. `websocket` (`FairSpec`): weak fairness of
the write (which succeeds or fails), of echoing and of delivering. No call of an application, no click, candidate or message from
outside is assumed to come, and no exit or loss is excluded.

## Proofs

`SignallingServerProofs` proves, for any sets of connections, names and blobs and any queue bound,
from `ServerAssumption` (the null values are not members, every blob has a maker):

- `TypeCorrect`: `Spec => []TypeOK`;
- `RegistryCorrect`: `Spec => []RegistryExact`;
- `OffersAuthentic`: `Spec => []OfferAuthentic`;
- `ImplementsRegistry`: `Spec => RegistryPromise`, the refinement of `NameRegistry`.

The inductive invariant is `Inv == TypeOK /\ Fresh /\ RegistryExact /\ OfferAuthentic`. `Fresh`
(a connection that is not open yet has no name) is needed for `OnConnection`. A login needs
`RegistryExact` to know that nobody connected has the free name. A close needs it to know that
only its own entry is removed, both for `OfferAuthentic` and for the abstract `Depart`.
`StepKinds` reduces every step to an opening, a successful login, a close, or a step that leaves
the directory alone; `QueueStep` says what a step may add to a queue.

`GameNetworkProofs` proves `TypeOK`, `CallbacksSafe`, `WireOrder`, `OneRole`, `QuietWithoutRedial` and
`OneDescription` for any set of peers and messages and any bounds, from `NetworkAssumption`. The
inductive invariant is `IInv`. `Heap` says that objects are made in order and filed under their
name; `Points` and `Startup` where a thread may be. `Turns` is the heart: while the shared threads
run, the object that `Connect` or an offer is preparing is still blank, and the two threads prepare
different ones. It is what makes `OneRole` and `CallbacksSafe` inductive across the unprotected second
lookups; it fails once threads are stopped, where every step that would use it waits. It also says that
an object whose answer is about to be started is not the one that the signaling thread is sending for.
`Replaced`: a thread that is replacing an entry holds an object made for that name, and the shared threads
are stopped. `Local` relates
the fields of one object (an operation pending, a description set, candidates sent). `Kept`: as long
as no name is dialled twice every object is in the map and alive, which `QuietWithoutRedial` needs.
There is one lemma per action; the steps that change one object, make one, or drop the last reference
to one share the lemmas `ObjectStep`, `InsertEffect` and `DestroyStep`. `OneDescription` follows from
`Local` and `Turns`: an object that has an outcome is not blank, so no thread is preparing it.

The proofs about pages and server hold for any pages, names, logins, calls and bounds, from the
assumptions of the two components, `UsersAssumption` and `BlobsAssumption`. `PageTypes` has the types of
what pages keep and send. `Queues` defines what a queue holds, in which order and how often; the lemmas
about it are the last part of `SignallingServerProofs`.

`SignallingSystemProofs`:

- `ServerAsSpecified`: `SysSpec => ServerSpec`; each step of the composition is a step of the server
  or leaves it alone, because a page's requests (`Wires`) are ones the server's specification allows;
- `SystemAuthentic`: hence `RegistryExact` and `OfferAuthentic` hold in the composition;
- `PagesReady`: `SysSpec => []PeerReady`. The invariant `Prepared` has three parts: a relayed message is
  queued behind the reply to a successful login, unless the page has read it (`Behind`); a connection
  in the directory was sent such a reply (`Entered`); one that is not open is not in the directory
  (`Unentered`). Only the order of the queue makes it true;
- `PagesTyped`: `SysSpec => []ClientTypeOK`. That a page has no more connections than it has clicks on
  the login button is a matter of counting: the login requests in flight, the positive replies in
  flight and the connections made are never more than the clicks (`Budget`). `AtMost` bounds the number
  of messages of a kind in a queue by a function that counts them from the end, which needs no recursion;
- `EndsOnlyWithPartner`: `SysSpec => EndsWithPartner`. The server throws at a name that is not in the
  directory; by `LinksLead` a link is to a name that is in it, or whose owner has closed.

`SoleCallProofs` proves `AnswersReturn`: `SysSpec => []AnswerReturns`. A caller, once the only one, was so
in every earlier state (`SoleCallerBefore`), so it is enough to follow the behaviours with one caller k.
`Traced(k)` says of every message in flight, operation queued and description set that it can be
traced to k's offer: only k has made an offer, what is answered is k's offer, and an answer is sent to a
name that is k's, that k has left behind in the directory, or that leads to nobody (`Home`). That the last
is kept when users log in and leave is where `RegistryExact` comes in (`HomeStep`).

`CandidateProofs` proves `CandidatesKept`: `SysSpec => []CandidateKept`. While nobody leaves and no page
has made a second connection (`Settled`), each step is one of the moves of `CallStages`: nothing of the
call is touched, the user calls, the server relays a request, a page reads a message, a connection
finishes an operation or gathers a candidate (`Moves`). The call goes through stages (`Stage`):
`Before` (nothing was relayed yet), `Lost` (the offer found nobody, or the caller), or `Talk` between
caller and callee. In `Talk`, for each direction, the description has been set, or it is queued at the
connection before any candidate of its maker, or it is still under way before them (`Heard`). Moves keep
the call in its stages; `OfferProofs` shows it until the offer is relayed, `StageProofs` from then on
(`StageKept`), and that every stage has candidates in time (`StageInTime`).

`WebsocketProofs` proves `HonestFlag` and `EchoInOrder` for any number of messages. Its invariant says that
what the server sent back is ascending and skips only failed writes (`Returned`) and, while the connection
is up, that each stage of a message's way is ascending and above the stages after it, and that the stages
together hold what was accepted and not dropped (`Flowing`). The step that needs all of it is `Echo`:
that nothing was skipped follows from where all the other messages are (`ComesBack`).

Every safety property of a passing run is proved. Only model-checked: liveness (`CallResolved`,
`CallCompleted`, `EchoArrives`), which the prover does not do, and the violations. `AnswerIsOurs` and
`CandidateInTime` fail with two callers of one user (`system_answer`); what is proved is that they hold as
long as there is one (`AnswerReturns`, `CandidateKept`).

## Not modelled

- libwebrtc (the headers vendored under `local/` are about 100 000 of the repository's lines),
  cpprestsdk, jsoncpp, ws and the browsers, beyond the behaviour described above. The program's own
  C++ and JavaScript is some 800 lines that are not blank. Definitions model about 560 of them; the
  others are declarations, observers that only log, data-channel callbacks of the page, and tests.
- Observers that only log, console output, the text of SDP and of JSON, build files, the page's HTML.
- The data after the set-up of a call: no code of the repository looks at it.
- The empty user name, and names that are properties of every JavaScript object.
- The data race inside `std::unordered_map`: a lookup is one step here, and so is the store of a pointer.
- The check of `setLocalDescription` that an offer was made by the same peer connection (after a second
  login of a page): the model lets it succeed.
- The server's restart: it keeps nothing, and clients do not reconnect. A page whose connection is
  closed takes no more steps.
- The library of `network.cpp` together with the server: the messages it sends and reads are not the
  ones the server relays (see "Modelled without a run"), so the composition makes no answer to a
  relayed offer and ends at the first relayed answer or candidate. `MCGameNetwork` hands it all of these
  forms instead.
- An abstract negotiation (idle, offered, answered) that `SignallingSystem` would implement: the page
  does not keep calls apart (`system_answer`), so there is no such refinement beyond one call, for
  which `CallCompleted` and `AnswerReturns` say the same.
