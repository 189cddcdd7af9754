---------------------------- MODULE GameNetwork ----------------------------
(***************************************************************************)
(* The game's network library, src/network.cpp, in one process with three  *)
(* threads: the application's (main), the WebSocket client's callback      *)
(* thread (ws), and libwebrtc's signaling thread (sig), which runs every   *)
(* observer callback.  A call of main or ws on a PeerConnection is run by  *)
(* the signaling thread while the caller waits, so it needs sig idle, and  *)
(* it never returns once that thread was stopped.  A method is split where *)
(* another thread may run in between: at such calls, and between the two   *)
(* lookups of connections[name].  fault records the first crash.           *)
(***************************************************************************)
EXTENDS Naturals

CONSTANTS Peers,        \* names of other players
          Incoming,     \* JSON messages the WebSocket may deliver
          MaxObjects,   \* bound on the WebrtcNetwork objects created
          MaxCand       \* bound on the ICE candidates gathered per object

\* A field that is missing from a JSON object reads as the empty string.
NoText == ""
NoName == NoText
Json(m, field) == IF field \in DOMAIN m THEN m[field] ELSE NoText

Objects == 1..MaxObjects
NoObj == 0
Keys == Peers \union {NoName}

ASSUME NetworkAssumption ==
  /\ NoName \notin Peers
  /\ MaxObjects \in Nat /\ MaxCand \in Nat
  /\ \A m \in Incoming : Json(m, "name") \in Keys

VARIABLES fault,        \* "none", or why the process crashed
          factory,      \* peer_connection_factory is not null
          threads,      \* the three rtc::Threads: "none", "running", "stopped"
          wsConnected,  \* ws_.iswebsocketconnected
          loggedIn,     \* the login message was sent
          connections,  \* the map: an object, or NoObj where there is no entry
          obj,          \* the WebrtcNetwork objects
          created,      \* how many objects were made
          main, ws, sig \* where each thread is

flags == <<factory, wsConnected, loggedIn>>
heap  == <<connections, obj, created>>
vars  == <<fault, flags, threads, heap, main, ws, sig>>

-----------------------------------------------------------------------------
(* WebrtcNetwork objects.  pending is a CreateOffer or CreateAnswer that   *)
(* has not called back, setOps the SetLocal/RemoteDescription calls that   *)
(* have not; both hold a reference to the object, their observer.  outcome *)
(* is what became of the create operation: its description was sent, or it *)
(* failed; "refused": it was sent, and then an answer was turned down.     *)

Unborn == [life |-> "unborn", name |-> NoName, pc |-> FALSE, dc |-> "none",
           pending |-> "none", setOps |-> 0, local |-> "none",
           remote |-> "none", dangling |-> FALSE, outcome |-> "none", cands |-> 0]

\* WebrtcNetwork(name)
WebrtcNetwork(name) == [Unborn EXCEPT !.life = "alive", !.name = name]

\* After the destructor: the PeerConnection, its channel and its operations
\* went with the object.
Destroyed(r) == [r EXCEPT !.life = "dead", !.pc = FALSE, !.dc = "none",
                          !.pending = "none", !.setOps = 0, !.dangling = FALSE]

Mapped(o) == \E k \in Keys : connections[k] = o

\* The signaling thread holds a reference to o.
Observing(o) == \/ obj[o].pending # "none"
                \/ obj[o].setOps > 0
                \/ sig.at = "sending" /\ sig.obj = o

Idle    == [at |-> "idle", name |-> NoName, data |-> NoText, obj |-> NoObj]
Blocked == [Idle EXCEPT !.at = "blocked"]
Resting == [at |-> "idle", obj |-> NoObj]

Running == fault = "none"
Stopped == threads = "stopped"
Dead(o) == obj[o].life = "dead"

\* The caller's request can be run by the signaling thread now.
Serving == threads = "running" /\ sig.at = "idle"

\* What a step of one thread leaves behind.
Crash(why) == fault' = why /\ UNCHANGED <<flags, threads, heap, main, ws, sig>>
HangMain   == main' = Blocked /\ UNCHANGED <<fault, flags, threads, heap, ws, sig>>
HangWs     == ws' = Blocked /\ UNCHANGED <<fault, flags, threads, heap, main, sig>>
MainDoes(newobj, newmain) ==
  /\ obj' = newobj /\ main' = newmain
  /\ UNCHANGED <<fault, flags, threads, connections, created, ws, sig>>
WsDoes(newobj, newws) ==
  /\ obj' = newobj /\ ws' = newws
  /\ UNCHANGED <<fault, flags, threads, connections, created, main, sig>>
SigDoes(newobj, newsig) ==
  /\ obj' = newobj /\ sig' = newsig
  /\ UNCHANGED <<fault, flags, threads, connections, created, main, ws>>

Init == /\ fault = "none" /\ factory = FALSE /\ threads = "none"
        /\ wsConnected = FALSE /\ loggedIn = FALSE
        /\ connections = [k \in Keys |-> NoObj]
        /\ obj = [o \in Objects |-> Unborn] /\ created = 0
        /\ main = [Idle EXCEPT !.at = "boot"] /\ ws = Idle /\ sig = Resting

-----------------------------------------------------------------------------
(* connections[k] = new WebrtcNetwork(k).  The assignment releases the old *)
(* object before it stores the new one: while a destructor runs, the entry *)
(* still leads to the dying object.                                        *)

\* The entry holds the last reference to its object, so assigning destroys it.
LastRef(k) == /\ connections[k] # NoObj
              /\ ~ Observing(connections[k])

\* The destructor has stopped the threads by the time it releases the data
\* channel and the PeerConnection, which waits for the signaling thread.
DestructorHangs(k) == /\ LastRef(k)
                      /\ \/ obj[connections[k]].pc
                         \/ obj[connections[k]].dc # "none"

\* Mutated assignment: replacing an object leaves the threads alone.
InsertKeepsThreads(k) ==
  /\ created < MaxObjects
  /\ created' = created + 1
  /\ obj' = [o \in Objects |->
               IF o = created + 1 THEN WebrtcNetwork(k)
               ELSE IF LastRef(k) /\ o = connections[k] THEN Destroyed(obj[o])
               ELSE obj[o]]
  /\ connections' = [connections EXCEPT ![k] = created + 1]
  /\ UNCHANGED <<threads, fault>>

\* The new object is made and the old one released.  ~WebrtcNetwork stops the shared
\* threads, waiting for what they are doing.
Insert(k) ==
  /\ created < MaxObjects
  /\ LastRef(k) => sig.at = "idle"
  /\ created' = created + 1
  /\ obj' = [o \in Objects |->
               IF o = created + 1 THEN WebrtcNetwork(k)
               ELSE IF LastRef(k) /\ o = connections[k] THEN Destroyed(obj[o])
               ELSE obj[o]]
  /\ connections' = IF LastRef(k) THEN connections
                    ELSE [connections EXCEPT ![k] = created + 1]
  /\ threads' = IF LastRef(k) THEN "stopped" ELSE threads
  /\ fault' = IF LastRef(k) /\ obj[connections[k]].life = "dead" THEN "use_after_free"
              ELSE IF LastRef(k) /\ threads = "none" THEN "null_thread"
              ELSE fault

\* Where Insert(k) leaves the thread t that ran it: the pointer is stored, or still
\* to be stored once the destructor has returned.
Inserted(k, t) == IF DestructorHangs(k) THEN Blocked
                  ELSE IF LastRef(k) THEN [t EXCEPT !.at = "replacing", !.name = k,
                                                    !.obj = created + 1]
                  ELSE [t EXCEPT !.at = "inserted", !.name = k]

\* The destructor has returned to thread t, which stores the new object.
Store(t) == connections' = [connections EXCEPT ![t.name] = t.obj]
Stored(t) == [t EXCEPT !.at = "inserted", !.obj = NoObj]

-----------------------------------------------------------------------------
(* The application's thread.                                               *)

\* NetworkInit, first part: install the handler and connect.  On failure
\* NetworkInit returns false, which app.cpp ignores.
NetworkInit_Connect ==
  /\ Running /\ main.at = "boot"
  /\ \/ wsConnected' = TRUE /\ main' = [main EXCEPT !.at = "login"]
     \/ wsConnected' = FALSE /\ main' = Idle
  /\ UNCHANGED <<fault, factory, threads, loggedIn, heap, ws, sig>>

\* NetworkInit, second part: send the login message.
NetworkInit_Login ==
  /\ Running /\ main.at = "login"
  /\ loggedIn' = wsConnected
  /\ main' = [main EXCEPT !.at = "init"]
  /\ UNCHANGED <<fault, factory, threads, wsConnected, heap, ws, sig>>

\* InitializePeerConnection: start the threads, make the factory (or fail).
InitializePeerConnection ==
  /\ Running /\ main.at = "init"
  /\ threads' = "running"
  /\ factory' \in BOOLEAN
  /\ main' = Idle
  /\ UNCHANGED <<fault, wsConnected, loggedIn, heap, ws, sig>>

\* Connect, for one name: make the object.
Connect_Insert(n) ==
  /\ Running /\ main.at = "idle"
  /\ Insert(n)
  /\ main' = Inserted(n, main)
  /\ UNCHANGED <<flags, ws, sig>>

\* The assignment of Connect, the rest.
Connect_Store ==
  /\ Running /\ main.at = "replacing"
  /\ Store(main)
  /\ main' = Stored(main)
  /\ UNCHANGED <<fault, flags, threads, obj, created, ws, sig>>

\* Connect looks the name up again; CreateOffer makes the PeerConnection.  When
\* that fails, its use at line 218 comes before the test at line 221.
CreateOffer_PeerConnection ==
  /\ Running /\ main.at = "inserted"
  /\ LET o == connections[main.name]
     IN  \/ Dead(o) /\ Crash("use_after_free")
         \/ ~ Dead(o) /\ ~ factory /\ Crash("null_factory")
         \/ ~ Dead(o) /\ factory /\ Stopped /\ HangMain
         \/ ~ Dead(o) /\ factory /\ Serving /\ Crash("null_pc")
         \/ /\ ~ Dead(o) /\ factory /\ Serving
            /\ MainDoes([obj EXCEPT ![o].pc = TRUE],
                        [main EXCEPT !.at = "offering", !.obj = o])

\* Mutated CreateOffer: the data channel is made, the offer is not started.
CreateOffer_ChannelOnly ==
  /\ Running /\ main.at = "offering"
  /\ ~ Dead(main.obj) /\ Serving
  /\ MainDoes([obj EXCEPT ![main.obj].dc = "connecting"], Idle)

\* CreateOffer, the rest: make the data channel and start the offer.  Nothing
\* keeps the object alive during the call.
CreateOffer_Start ==
  /\ Running /\ main.at = "offering"
  /\ LET o == main.obj
     IN  \/ Dead(o) /\ Crash("use_after_free")
         \/ ~ Dead(o) /\ Stopped /\ HangMain
         \/ /\ ~ Dead(o) /\ Serving
            /\ MainDoes([obj EXCEPT ![o] = [obj[o] EXCEPT !.dc = "connecting",
                                                          !.pending = "offer"]], Idle)

\* SendDataViaDataChannel returns true: there is a data channel to call Send on
\* (whose own result is ignored).
Accepts(o) == obj[o].dc # "none"

\* Senddata: nothing for an unknown peer or one without a data channel.
Senddata(n) ==
  /\ Running /\ main.at = "idle"
  /\ LET o == connections[n]
     IN  /\ o # NoObj
         /\ \/ Dead(o) /\ Crash("use_after_free")
            \/ Accepts(o) /\ Stopped /\ HangMain
            \/ ~ Dead(o) /\ (Accepts(o) => Serving) /\ UNCHANGED vars

\* Disconnect, for one name; the entry stays in the map.  DeletePeerConnection
\* first closes the data channel.
Disconnect_Channel(n) ==
  /\ Running /\ main.at = "idle"
  /\ LET o == connections[n]
     IN  /\ o # NoObj
         /\ \/ Dead(o) /\ Crash("use_after_free")
            \/ Accepts(o) /\ Stopped /\ HangMain
            \/ /\ ~ Dead(o) /\ (Accepts(o) => Serving)
               /\ MainDoes([obj EXCEPT ![o].dc = "none"],
                           [main EXCEPT !.at = "closing", !.obj = o])

\* Mutated end of Disconnect: the pointer is cleared without Close, so what is
\* pending still calls back.
Disconnect_Forget ==
  /\ Running /\ main.at = "closing" /\ ~ Dead(main.obj)
  /\ MainDoes([obj EXCEPT ![main.obj].pc = FALSE], Idle)

\* Mutated end of Disconnect: the entry is erased, which destroys the object.
Disconnect_Erase ==
  /\ Running /\ main.at = "closing"
  /\ obj[main.obj].pc /\ Serving /\ Mapped(main.obj)
  /\ obj' = [obj EXCEPT ![main.obj] = Destroyed(@)]
  /\ connections' = [k \in Keys |-> IF connections[k] = main.obj THEN NoObj
                                    ELSE connections[k]]
  /\ threads' = "stopped"
  /\ main' = Idle
  /\ UNCHANGED <<fault, flags, created, ws, sig>>

\* PeerConnection::Close ends every callback.  A create operation that is pending
\* ends as given.
Closed(r, ending) ==
  [r EXCEPT !.pc = FALSE, !.pending = "none", !.setOps = 0,
            !.local = "none", !.remote = "none", !.dangling = FALSE,
            !.outcome = IF r.pending = "none" THEN r.outcome ELSE ending,
            !.dc = IF r.dc = "none" THEN "none" ELSE "closed"]

\* DeletePeerConnection then closes and releases the PeerConnection.  Close fails a
\* pending create operation, or, if its callback was on its way, runs OnSuccess with
\* a connection that takes no description any more: the text sent is of a freed one.
\* For an object that was replaced meanwhile, dropping the operations drops the last
\* reference while the method is running on it.
Disconnect_PeerConnection ==
  /\ Running /\ main.at = "closing"
  /\ LET o == main.obj
     IN  \/ Dead(o) /\ Crash("use_after_free")
         \/ ~ Dead(o) /\ ~ obj[o].pc /\ Crash("null_pc")
         \/ obj[o].pc /\ Stopped /\ HangMain
         \/ obj[o].pc /\ Serving /\ ~ Mapped(o) /\ Crash("use_after_free")
         \/ obj[o].pending # "none" /\ Serving /\ Mapped(o) /\ Crash("freed_description")
         \/ /\ obj[o].pc /\ Serving /\ Mapped(o)
            /\ \E ending \in {"failed", "sent"} :
                 MainDoes([obj EXCEPT ![o] = Closed(@, ending)], Idle)

-----------------------------------------------------------------------------
(* The WebSocket callback thread: OnWebSocketMessage, one message at a     *)
(* time.  The server relays messages to a client that has logged in.       *)

Delivered(m, types) == /\ Running /\ ws.at = "idle" /\ wsConnected
                       /\ Json(m, "type") \in types

\* CreateSessionDescription (libwebrtc): null unless the type is known and the
\* text parses.
SdpTypes == {"offer", "pranswer", "answer", "rollback"}
CreateSessionDescription(type, text) == type \in SdpTypes /\ text = "sdp"

\* "offer": NewConnectionmessage makes the object.
OnOffer(m) ==
  /\ Delivered(m, {"offer"}) /\ loggedIn
  /\ LET n == Json(m, "name")
     IN  /\ Insert(n)
         /\ ws' = Inserted(n, [ws EXCEPT !.data = Json(m, "data")])
  /\ UNCHANGED <<flags, main, sig>>

\* Its assignment, the rest.
OnOffer_Store ==
  /\ Running /\ ws.at = "replacing"
  /\ Store(ws)
  /\ ws' = Stored(ws)
  /\ UNCHANGED <<fault, flags, threads, obj, created, main, sig>>

\* It looks the name up again; CreateAnswer makes the PeerConnection, and drops
\* the factory if that fails.
CreateAnswer_PeerConnection ==
  /\ Running /\ ws.at = "inserted"
  /\ LET o == connections[ws.name]
     IN  \/ Dead(o) /\ Crash("use_after_free")
         \/ ~ Dead(o) /\ ~ factory /\ Crash("null_factory")
         \/ ~ Dead(o) /\ factory /\ Stopped /\ HangWs
         \/ /\ ~ Dead(o) /\ factory /\ Serving
            /\ factory' = FALSE /\ ws' = Idle
            /\ UNCHANGED <<fault, wsConnected, loggedIn, threads, heap, main, sig>>
         \/ /\ ~ Dead(o) /\ factory /\ Serving
            /\ WsDoes([obj EXCEPT ![o].pc = TRUE],
                      [ws EXCEPT !.at = "describing", !.obj = o])

\* CreateAnswer then parses the offer and sets it.  The application may have
\* disconnected the peer meanwhile: peer_connection_ is null then.
CreateAnswer_Describe ==
  /\ Running /\ ws.at = "describing"
  /\ LET o == ws.obj
         parsed == CreateSessionDescription("offer", ws.data)
     IN  \/ Dead(o) /\ Crash("use_after_free")
         \/ ~ Dead(o) /\ ~ parsed /\ WsDoes(obj, Idle)
         \/ ~ Dead(o) /\ parsed /\ ~ obj[o].pc /\ Crash("null_pc")
         \/ obj[o].pc /\ parsed /\ Stopped /\ HangWs
         \/ /\ obj[o].pc /\ parsed /\ Serving
            /\ WsDoes([obj EXCEPT ![o] = [obj[o] EXCEPT !.setOps = @ + 1,
                                                        !.remote = "offer"]],
                      [ws EXCEPT !.at = "answering"])

\* CreateAnswer, the rest: start the answer.  On return the unique_ptr, which still
\* owns the description the PeerConnection took over, frees it: dangling.  Again the
\* application may have disconnected the peer, and the object may be gone.
CreateAnswer_Start ==
  /\ Running /\ ws.at = "answering"
  /\ LET o == ws.obj
     IN  \/ Dead(o) /\ Crash("use_after_free")
         \/ ~ Dead(o) /\ ~ obj[o].pc /\ Crash("null_pc")
         \/ obj[o].pc /\ Stopped /\ HangWs
         \/ /\ obj[o].pc /\ Serving
            /\ WsDoes([obj EXCEPT ![o] = [obj[o] EXCEPT !.pending = "answer",
                                                        !.dangling = TRUE]], Idle)

\* The definition takes the candidate for the mid and the mid for the candidate: a
\* mid never parses as a candidate.  An empty mid leaves the error line empty, which
\* lets the null candidate through to the PeerConnection (which ignores it).
AddIceCandidate(o, text) ==
  \/ Dead(o) /\ Crash("use_after_free")
  \/ ~ Dead(o) /\ text = "with_mid" /\ UNCHANGED vars
  \/ ~ Dead(o) /\ text = "no_mid" /\ ~ obj[o].pc /\ Crash("null_pc")
  \/ obj[o].pc /\ text = "no_mid" /\ Stopped /\ HangWs
  \/ obj[o].pc /\ text = "no_mid" /\ Serving /\ UNCHANGED vars

\* "candidate": asString throws for a JSON object; text that is not JSON is
\* dropped; connections[name] is null for an unknown name.
OnCandidate(m) ==
  /\ Delivered(m, {"candidate"}) /\ loggedIn
  /\ LET text == Json(m, "candidate")
         o == connections[Json(m, "name")]
     IN  \/ text = "object" /\ Crash("json_type")
         \/ text = "unparsable" /\ UNCHANGED vars
         \/ text \in {"with_mid", "no_mid"} /\ o = NoObj /\ Crash("null_connection")
         \/ text \in {"with_mid", "no_mid"} /\ o # NoObj /\ AddIceCandidate(o, text)

\* The object after SetRemoteDescription, which asks for a description of type
\* "anwer".
SetRemoteDescription(r, text) ==
  IF CreateSessionDescription("anwer", text)
    THEN [r EXCEPT !.remote = "answer", !.setOps = @ + 1, !.dangling = TRUE]
    ELSE [r EXCEPT !.outcome = IF @ = "sent" THEN "refused" ELSE @]

\* "answer": connections[name] is null for an unknown name.
OnAnswer(m) ==
  /\ Delivered(m, {"answer"}) /\ loggedIn
  /\ LET o == connections[Json(m, "name")]
     IN  \/ o = NoObj /\ Crash("null_connection")
         \/ o # NoObj /\ Dead(o) /\ Crash("use_after_free")
         \/ /\ o # NoObj /\ ~ Dead(o)
            /\ WsDoes([obj EXCEPT ![o] = SetRemoteDescription(@, Json(m, "answer"))], ws)

\* Any other type is ignored: the login reply, "leave", and the greeting, which
\* is not JSON.
OnOther(m) == /\ Delivered(m, {NoText, "login", "leave", "error"})
              /\ UNCHANGED vars

-----------------------------------------------------------------------------
(* The signaling thread.                                                   *)

\* The operation that held a reference to o is over and left o as r.  The last
\* reference runs the destructor on this thread, which then stops itself.
Released(o, r) ==
  IF Mapped(o) \/ r.pending # "none" \/ r.setOps > 0
    THEN obj' = [obj EXCEPT ![o] = r] /\ UNCHANGED threads
    ELSE obj' = [obj EXCEPT ![o] = Destroyed(r)] /\ threads' = "stopped"

\* Mutated OnSuccess: the create operation is not finished by its callback.
OnSuccess_Again(o) ==
  /\ Running /\ Serving
  /\ obj[o].pending # "none"
  /\ SigDoes([obj EXCEPT ![o] = [obj[o] EXCEPT !.setOps = @ + 1,
                                               !.local = obj[o].pending]],
             [at |-> "sending", obj |-> o])

\* OnSuccess(desc): SetLocalDescription, which may fail and then frees desc; the
\* message is still to be sent.
OnSuccess_SetLocal(o) ==
  /\ Running /\ Serving
  /\ obj[o].pending # "none"
  /\ \E set \in {obj[o].pending, "none"} :
       SigDoes([obj EXCEPT ![o] = [obj[o] EXCEPT !.setOps = @ + 1,
                                                 !.local = set,
                                                 !.pending = "none"]],
               [at |-> "sending", obj |-> o])

\* Mutated end of OnSuccess: only offers are sent.
OnSuccess_SendOffers ==
  /\ Running /\ sig.at = "sending"
  /\ Released(sig.obj, [obj[sig.obj] EXCEPT
                          !.outcome = IF obj[sig.obj].local = "offer" THEN "sent" ELSE @])
  /\ sig' = Resting
  /\ UNCHANGED <<fault, flags, connections, created, main, ws>>

\* OnSuccess(desc), the rest: send the offer or answer under name_.  The text is read
\* from desc, which was freed if it could not be set.
OnSuccess_Send ==
  /\ Running /\ sig.at = "sending"
  /\ \/ obj[sig.obj].local = "none" /\ Crash("freed_description")
     \/ /\ Released(sig.obj, [obj[sig.obj] EXCEPT
                                 !.outcome = IF wsConnected THEN "sent" ELSE @])
        /\ sig' = Resting
        /\ UNCHANGED <<fault, flags, connections, created, main, ws>>

\* OnFailure of a create operation is only logged.
OnFailure(o) ==
  /\ Running /\ Serving
  /\ obj[o].pending # "none"
  /\ Released(o, [obj[o] EXCEPT !.pending = "none", !.outcome = "failed"])
  /\ UNCHANGED <<fault, flags, connections, created, main, ws, sig>>

\* Mutated completion of a set operation: it may be reported twice.
OnSetDoneAgain(o) ==
  /\ Running /\ Serving
  /\ obj[o].local # "none"
  /\ SigDoes([obj EXCEPT ![o].setOps = @ - 1], sig)

\* OnSuccess() and OnFailure of a set operation are only logged.
OnSetDone(o) ==
  /\ Running /\ Serving
  /\ obj[o].setOps > 0
  /\ Released(o, [obj[o] EXCEPT !.setOps = @ - 1])
  /\ UNCHANGED <<fault, flags, connections, created, main, ws, sig>>

\* OnIceCandidate: gathering starts with the local description; each candidate
\* is sent under name_.
OnIceCandidate(o) ==
  /\ Running /\ Serving
  /\ obj[o].pc /\ obj[o].local # "none" /\ obj[o].cands < MaxCand
  /\ SigDoes([obj EXCEPT ![o].cands = @ + 1], sig)

\* OnDataChannel: the channel that the caller made has reached the callee.
OnDataChannel(o) ==
  /\ Running /\ Serving
  /\ obj[o].pc /\ obj[o].local = "answer" /\ obj[o].dc = "none"
  /\ SigDoes([obj EXCEPT ![o].dc = "open"], sig)

\* A freed description that the PeerConnection still uses: undefined behaviour,
\* which may end the process at any time.
FreedDescription(o) == Running /\ obj[o].dangling /\ Crash("freed_description")

-----------------------------------------------------------------------------
MainStep == \/ NetworkInit_Connect \/ NetworkInit_Login \/ InitializePeerConnection
            \/ Connect_Store \/ CreateOffer_PeerConnection \/ CreateOffer_Start
            \/ Disconnect_PeerConnection

\* The application calls the library.
Call == \E n \in Peers : Connect_Insert(n) \/ Senddata(n) \/ Disconnect_Channel(n)

WsStep == \/ OnOffer_Store \/ CreateAnswer_PeerConnection \/ CreateAnswer_Describe
          \/ CreateAnswer_Start

Deliver == \E m \in Incoming : OnOffer(m) \/ OnCandidate(m) \/ OnAnswer(m) \/ OnOther(m)

\* Callbacks that libwebrtc owes to a create operation of o.
CreateDone(o) == OnSuccess_SetLocal(o) \/ OnFailure(o)

SigStep == \/ OnSuccess_Send
           \/ \E o \in Objects : \/ CreateDone(o) \/ OnSetDone(o) \/ OnIceCandidate(o)
                                 \/ OnDataChannel(o) \/ FreedDescription(o)

Next == MainStep \/ Call \/ WsStep \/ Deliver \/ SigStep

Spec == Init /\ [][Next]_vars

\* Every thread goes on with what it has begun, and libwebrtc completes every
\* create operation while its signaling thread runs.
FairSpec == /\ Spec
            /\ WF_vars(MainStep) /\ WF_vars(WsStep) /\ WF_vars(OnSuccess_Send)
            /\ \A o \in Objects : WF_vars(CreateDone(o))

-----------------------------------------------------------------------------
(* Properties.                                                             *)

Object == [life : {"unborn", "alive", "dead"}, name : Keys, pc : BOOLEAN,
           dc : {"none", "connecting", "open", "closed"},
           pending : {"none", "offer", "answer"}, setOps : Nat,
           local : {"none", "offer", "answer"}, remote : {"none", "offer", "answer"},
           dangling : BOOLEAN, outcome : {"none", "sent", "failed", "refused"},
           cands : 0..MaxCand]

Thread(points) == [at : points, name : Keys, data : {Json(m, "data") : m \in Incoming}
                                                     \union {NoText},
                   obj : Objects \union {NoObj}]

\* The values that the three threads leave in the process's shared state.
TypeOK ==
  /\ fault \in {"none", "null_factory", "null_pc", "null_connection", "null_thread",
                "json_type", "use_after_free", "freed_description"}
  /\ factory \in BOOLEAN /\ threads \in {"none", "running", "stopped"}
  /\ wsConnected \in BOOLEAN /\ loggedIn \in BOOLEAN
  /\ connections \in [Keys -> Objects \union {NoObj}]
  /\ obj \in [Objects -> Object]
  /\ created \in 0..MaxObjects
  /\ main \in Thread({"boot", "login", "init", "idle", "replacing", "inserted",
                      "offering", "closing", "blocked"})
  /\ ws \in Thread({"idle", "replacing", "inserted", "describing", "answering", "blocked"})
  /\ sig \in [at : {"idle", "sending"}, obj : Objects \union {NoObj}]

\* The callbacks of an operation find the observer alive and its peer_connection_
\* set (OnSuccess dereferences it at line 411), whatever the application and the
\* WebSocket thread do with the object between the request and the callback.
CallbacksSafe ==
  \A o \in Objects : Observing(o) => obj[o].life = "alive" /\ obj[o].pc

\* What the server sees of one object: no candidate before the offer or answer it
\* belongs to, and nothing at all before the login.
WireOrder ==
  \A o \in Objects : /\ obj[o].cands > 0 => obj[o].outcome \in {"sent", "refused"}
                     /\ obj[o].outcome \in {"sent", "refused"} => loggedIn

\* When two players call each other at once, the second lookup of Connect (line
\* 478) or NewConnectionmessage (line 95) may find the other thread's object; still,
\* no object is ever used both to offer and to answer.
OneRole ==
  \A o \in Objects : obj[o].remote = "offer" =>
    obj[o].dc # "connecting" /\ obj[o].pending # "offer" /\ obj[o].local # "offer"

\* Connect and NewConnectionmessage use whatever object their second lookup finds, and
\* OnSuccess sends what was made; still, an object makes one offer or answer at most,
\* and how that ended is final, except that an answer to what was sent may be refused.
OneDescription ==
  [][\A o \in Objects : obj[o].life # "unborn" /\ obj[o].outcome # "none" =>
       /\ obj'[o].pending = "none"
       /\ \/ obj'[o].outcome = obj[o].outcome
          \/ obj[o].outcome = "sent" /\ obj'[o].outcome = "refused"]_vars

\* No name was given a second object.
NoRedial == \A o, p \in Objects :
              /\ obj[o].life # "unborn" /\ obj[p].life # "unborn"
              /\ obj[o].name = obj[p].name
              => o = p

\* As long as no peer's entry is replaced, the shared threads stay up, no thread
\* hangs and no freed object is used, whatever else happens.
QuietWithoutRedial ==
  NoRedial => /\ threads # "stopped"
              /\ main.at # "blocked" /\ ws.at # "blocked"
              /\ fault \notin {"use_after_free", "null_thread"}

\* A call that Connect has begun does not get stuck: the offer of the object it
\* made is sent, or its failure is reported, or the process has crashed or lost
\* its threads.
CallResolved ==
  \A n \in Peers, o \in Objects :
    main.at = "inserted" /\ main.name = n /\ connections[n] = o
      ~> fault # "none" \/ threads = "stopped" \/ obj[o].outcome # "none"

-----------------------------------------------------------------------------
(* What comments and interfaces say and the code does not do.              *)

\* "Once an answer is received from the remote peer, call SetRemoteDescription with
\* the remote answer." (peer_connection_interface.h): an answer to an offer that was
\* sent becomes the remote description.
AnswerApplied ==
  [][\A m \in Incoming :
       LET o == connections[Json(m, "name")]
       IN  OnAnswer(m) /\ o # NoObj /\ obj[o].outcome = "sent" /\ obj[o].local = "offer"
             => obj'[o].remote = "answer"]_vars

\* "Create PeerConnectionFactoryInterface if it doesn't exist" is the first step
\* of answering (peer_connection_interface.h): no offer is handled before the
\* factory's threads exist.
FactoryFirst == ws.at = "inserted" => threads # "none"

\* "Never call Stop on the current thread" (thread.h): no callback on the signaling
\* thread stops the threads.
NeverStopsItself ==
  [][OnSuccess_Send \/ (\E o \in Objects : OnFailure(o) \/ OnSetDone(o))
       => threads' = threads]_vars
=============================================================================
