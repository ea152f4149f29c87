------------------------------ MODULE H2Client ------------------------------
(***************************************************************************)
(* The HTTP/2 client of std.net.http2 (http2_client.zen): one connection,  *)
(* one request at a time, no thread of its own.  What makes it hard is     *)
(* that the peer talks whenever it likes: its SETTINGS, WINDOW_UPDATE and  *)
(* GOAWAY frames are read only while the client waits for the handshake,   *)
(* for send credit or for the response, and each side spends credit that   *)
(* the other counts a round trip later.                                    *)
(*                                                                         *)
(* The two wires are FIFO and lose nothing until the link is cut.  The     *)
(* peer is external: what RFC 7540 lets a server do, as far as PeerDoes    *)
(* says it does it.  A stream is named by its rank, so stream k has the    *)
(* wire id 2k - 1 and 0 is the connection.                                 *)
(***************************************************************************)
EXTENDS Integers, Sequences, FiniteSets

CONSTANTS
  DefaultWindow, Window, MaxWindow,  \* DEFAULT_WINDOW, WINDOW, MAX_WINDOW
  MaxSend,        \* MAX_SEND: most bytes of one DATA frame
  Grants,         \* the increments of the peer's WINDOW_UPDATEs
  MaxPosts,       \* bound: requests that reach the wire
  Scenes          \* the programs and peers looked at; one is chosen at first

Habits == {"settings", "grant", "goaway", "ping", "info", "trailers", "cut",
           "early", "reset", "overgrant", "unsupported"}
Streams == 1..MaxPosts
Errors == {"ProtocolFailed", "RecvFailed", "SendFailed", "Closed", "Receiver"}

ASSUME WindowAssumption ==
  /\ DefaultWindow \in Nat \ {0} /\ Window \in Nat \ {0}
  /\ MaxWindow \in Nat /\ DefaultWindow + Window <= MaxWindow
  /\ MaxSend \in Nat \ {0}
ASSUME CallAssumption == MaxPosts \in Nat
ASSUME PeerAssumption == Grants \subseteq 1..MaxWindow
ASSUME SceneAssumption == \A s \in Scenes :
  /\ s.bodies \subseteq Nat /\ s.replies \subseteq Nat
  /\ s.kinds \subseteq {"stream", "into"}
  /\ s.refuses \subseteq s.kinds \X {"middle", "last"}
  /\ s.inits \subseteq 0..MaxWindow
  /\ s.does \subseteq Habits
  /\ s.turns \in Nat

VARIABLES
  scene,          \* of Scenes
  \* H2Client
  open, sid, initWin, sendWin, sendDebt, connWin, active, gotGoaway, peerLast,
  \* the call in progress
  at,             \* where it is
  kind,           \* which one it is
  left,           \* bytes of the request body not yet sent
  gotFinal, done, \* H2ReadState
  credit,         \* the DATA frame in hand: H2Data.credit
  got,            \* bytes its consumer accepted
  result,         \* what the last call returned
  \* the link
  toPeer, toClient, up,
  \* the peer
  pConn,          \* what the client may still send it on the connection
  pInit,          \* its INITIAL_WINDOW_SIZE as far as acknowledged
  unacked,        \* the values it sent that are not
  granted,        \* per stream, WINDOW_UPDATEs sent less DATA received
  request,        \* per stream: "none", "open" or "ended"
  reply,          \* per stream: "none", "open" or "ended"
  owed,           \* per stream, bytes of the reply not yet sent
  sent,           \* per stream, bytes of the reply sent
  outConn,        \* what it may still send on the connection
  outInit,        \* the INITIAL_WINDOW_SIZE it knows of the client
  spent,          \* per stream, DATA sent less WINDOW_UPDATEs received
  pLast,          \* the last stream it will answer
  turns,
  overrun         \* it received DATA it had not granted

sendVars == <<initWin, sendWin, sendDebt, connWin>>
connVars == <<open, sid, active, gotGoaway, peerLast>>
callVars == <<at, kind, left, gotFinal, done, credit, got, result>>
linkVars == <<toPeer, toClient, up>>
pSend    == <<pConn, pInit, unacked, granted, request, overrun>>
pReply   == <<reply, owed, sent, outConn, outInit, spent>>
peerVars == <<pSend, pReply, pLast, turns>>
vars     == <<sendVars, connVars, callVars, linkVars, peerVars, scene>>

Bodies   == scene.bodies    \* the sizes of request bodies
Kinds    == scene.kinds     \* the calls made: post_stream, post_into
Refuses  == scene.refuses   \* <<kind, "middle" | "last">>: chunks refused
Inits    == scene.inits     \* the INITIAL_WINDOW_SIZE values of its SETTINGS
Replies  == scene.replies   \* the sizes of response bodies
PeerDoes == scene.does      \* which of Habits the peer has
Turns    == scene.turns     \* bound: frames it sends of its own accord

Frame(t, s, n, e) == [type |-> t, sid |-> s, n |-> n, end |-> e]
Response == {"info", "final", "trailers", "data", "reset"}
Control  == {"settings", "ack", "ping", "update", "goaway"}
\* Of PRIORITY the client knows only that it may come inside a response.
\* "unsupported" stands for what it knows nothing of: PUSH_PROMISE and what is
\* pushed, CONTINUATION, HEADERS that need one, and extension frames.
Stray    == {"priority", "unsupported"}
Others   == Control \cup Stray

\* The sums of the first numbers of a sequence.
Sums(w) ==
  LET upTo[i \in 0..Len(w)] == IF i = 0 THEN 0 ELSE upTo[i - 1] + w[i]
  IN  upTo

\* The bytes that the frames of a type and of some streams carry on a wire.
Bytes(wire, type, ids) ==
  Sums([i \in 1..Len(wire) |->
          IF wire[i].type = type /\ wire[i].sid \in ids THEN wire[i].n ELSE 0]
      )[Len(wire)]
DataOn(wire)          == Bytes(wire, "data", Streams)
StreamDataOn(wire, s) == Bytes(wire, "data", {s})
UpdatesOn(wire, s)    == Bytes(wire, "update", {s})

Smaller(m, n) == IF m < n THEN m ELSE n

\* connect has dialled and written the preface, SETTINGS and WINDOW_UPDATE.
Init ==
  /\ scene \in Scenes
  /\ open = TRUE /\ sid = 1 /\ active = 0
  /\ initWin = DefaultWindow /\ sendWin = DefaultWindow
  /\ sendDebt = 0 /\ connWin = DefaultWindow
  /\ gotGoaway = FALSE /\ peerLast = 0
  /\ at = "handshake" /\ kind = "stream" /\ left = 0
  /\ gotFinal = FALSE /\ done = FALSE /\ credit = 0 /\ got = 0
  /\ result = "none"
  /\ toPeer = <<Frame("settings", 0, Window, FALSE),
                Frame("update", 0, Window, FALSE)>>
  /\ \E v \in Inits : /\ toClient = <<Frame("settings", 0, v, FALSE)>>
                      /\ unacked = <<v>>
  /\ up = TRUE
  /\ pConn = DefaultWindow /\ pInit = DefaultWindow
  /\ granted = [s \in Streams |-> 0] /\ request = [s \in Streams |-> "none"]
  /\ reply = [s \in Streams |-> "none"] /\ owed = [s \in Streams |-> 0]
  /\ sent = [s \in Streams |-> 0] /\ spent = [s \in Streams |-> 0]
  /\ outConn = DefaultWindow /\ outInit = DefaultWindow
  /\ pLast = MaxPosts /\ turns = Turns /\ overrun = FALSE

-----------------------------------------------------------------------------
(* The call.                                                               *)

\* A frame written to a link that is down is lost.
Write(frames) == toPeer' = IF up THEN toPeer \o frames ELSE toPeer

\* The error path of connect, of post_stream (stream_failed) and of post_into,
\* which leaves the client as it is.
Fails(e) ==
  /\ result' = e
  /\ at' = IF at = "handshake" THEN "dead" ELSE "idle"
  /\ open' = (open /\ kind = "into")
  /\ active' = IF kind = "into" THEN active ELSE 0
  /\ UNCHANGED <<kind, left, gotFinal, done, credit, got>>

\* send_post up to its HEADERS frame.
Post(k, b) ==
  /\ at = "idle" /\ open /\ sid \in Streams
  /\ kind' = k /\ left' = b
  /\ sid' = sid + 1 /\ active' = sid
  /\ sendWin' = initWin /\ sendDebt' = 0
  /\ Write(<<Frame("headers", sid, 0, b = 0)>>)
  /\ at' = IF b = 0 THEN "recv" ELSE "send"
  /\ gotFinal' = FALSE /\ done' = FALSE /\ credit' = 0 /\ got' = 0
  /\ result' = "none"
  /\ UNCHANGED <<open, gotGoaway, peerLast, initWin, connWin, toClient, up,
                 peerVars>>

\* The header block exceeds MAX_SEND, or the link is down: the stream is spent
\* and nothing is written.
PostUnsent(k) ==
  /\ at = "idle" /\ open /\ sid \in Streams
  /\ kind' = k /\ result' = "SendFailed"
  /\ open' = (k = "into")
  /\ sid' = sid + 1 /\ active' = IF k = "into" THEN sid ELSE 0
  /\ sendWin' = initWin /\ sendDebt' = 0
  /\ UNCHANGED <<gotGoaway, peerLast, initWin, connWin, at, left, gotFinal,
                 done, credit, got, linkVars, peerVars>>

PostRefused(k) ==
  /\ at = "idle" /\ ~open
  /\ kind' = k /\ result' = "Closed"
  /\ active' = IF k = "into" THEN active ELSE 0
  /\ UNCHANGED <<open, sid, gotGoaway, peerLast, at, left, gotFinal, done,
                 credit, got, sendVars, linkVars, peerVars>>

Avail == Smaller(sendWin, connWin)

SendChunk ==
  /\ at = "send" /\ Avail > 0
  /\ LET n == Smaller(Smaller(Avail, left), MaxSend) IN
     /\ Write(<<Frame("data", active, n, n = left)>>)
     /\ sendWin' = sendWin - n /\ connWin' = connWin - n
     /\ left' = left - n
     /\ at' = IF n = left THEN "recv" ELSE "send"
  /\ UNCHANGED <<kind, gotFinal, done, credit, got, result, initWin, sendDebt,
                 connVars, toClient, up, peerVars>>

\* Mutant: the wait for credit looks at the stream only.
ReadingStreamOnly ==
  \/ at = "handshake"
  \/ at = "send" /\ sendWin = 0
  \/ at = "recv" /\ ~done

\* Where the code reads a frame: connect's loop, send_post's wait for credit
\* and next_response_event.
Reading ==
  \/ at = "handshake"
  \/ at = "send" /\ Avail = 0
  \/ at = "recv" /\ ~done

Arrived == IF Reading /\ toClient # <<>> THEN {Head(toClient)} ELSE {}

\* FrameReader.read, and what control leaves alone.
Reads(f) ==
  /\ f \in Arrived
  /\ toClient' = Tail(toClient)
  /\ UNCHANGED <<up, peerVars>>

\* add_stream_credit pays the debt first.
Repaid(inc)    == Smaller(inc, sendDebt)
Overflows(inc) == sendWin + inc - Repaid(inc) > MaxWindow
\* Mutant: any credit clears the whole debt.
AddStreamCreditForgives(inc) ==
  /\ sendDebt' = 0
  /\ sendWin' = IF Overflows(inc) THEN sendWin ELSE sendWin + inc - Repaid(inc)
AddStreamCredit(inc) ==
  /\ sendDebt' = sendDebt - Repaid(inc)
  /\ sendWin' = IF Overflows(inc) THEN sendWin ELSE sendWin + inc - Repaid(inc)

\* Mutant: the window stops at zero and the debt is forgotten.
TakeStreamCreditAtMost(d) ==
  /\ sendWin' = sendWin - Smaller(d, sendWin)
  /\ UNCHANGED sendDebt
\* apply_settings, with a lower initial window: what the stream does not have
\* becomes debt.
TakeStreamCredit(d) ==
  /\ sendDebt' = sendDebt + (d - Smaller(d, sendWin))
  /\ sendWin' = sendWin - Smaller(d, sendWin)

ReadSettings == \E f \in Arrived :
  /\ Reads(f) /\ f.type = "settings"
  /\ IF f.n >= initWin THEN AddStreamCredit(f.n - initWin)
                       ELSE TakeStreamCredit(initWin - f.n)
  /\ IF f.n >= initWin /\ Overflows(f.n - initWin)
     THEN /\ Fails("ProtocolFailed")
          /\ UNCHANGED <<initWin, toPeer>>
     ELSE /\ initWin' = f.n
          /\ Write(<<Frame("ack", 0, 0, FALSE)>>)
          /\ at' = IF at = "handshake" THEN "idle" ELSE at
          /\ UNCHANGED <<open, active, kind, left, gotFinal, done, credit, got,
                         result>>
  /\ UNCHANGED <<sid, gotGoaway, peerLast, connWin>>

\* Mutant: no upper bound.
ReadConnUpdateUnbounded == \E f \in Arrived :
  /\ Reads(f) /\ f.type = "update" /\ f.sid = 0
  /\ connWin' = connWin + f.n
  /\ UNCHANGED <<open, active, callVars, initWin, sendWin, sendDebt, sid,
                 gotGoaway, peerLast, toPeer>>
ReadConnUpdate == \E f \in Arrived :
  /\ Reads(f) /\ f.type = "update" /\ f.sid = 0
  /\ IF f.n > 0 /\ connWin + f.n <= MaxWindow
     THEN /\ connWin' = connWin + f.n
          /\ UNCHANGED <<open, active, callVars>>
     ELSE /\ Fails("ProtocolFailed")
          /\ UNCHANGED connWin
  /\ UNCHANGED <<initWin, sendWin, sendDebt, sid, gotGoaway, peerLast, toPeer>>

ReadStreamUpdate == \E f \in Arrived :
  /\ Reads(f) /\ f.type = "update" /\ f.sid # 0
  /\ IF f.sid = active /\ f.n > 0 THEN AddStreamCredit(f.n)
                                  ELSE UNCHANGED <<sendWin, sendDebt>>
  /\ IF f.n = 0 \/ (f.sid = active /\ Overflows(f.n))
     THEN Fails("ProtocolFailed")
     ELSE UNCHANGED <<open, active, callVars>>
  /\ UNCHANGED <<initWin, connWin, sid, gotGoaway, peerLast, toPeer>>

\* connect refuses a client that is not open, next_response_event compares the
\* stream with what the peer refuses; the wait for credit does neither.
ReadGoaway == \E f \in Arrived :
  /\ Reads(f) /\ f.type = "goaway"
  /\ gotGoaway' = TRUE /\ peerLast' = f.n /\ open' = FALSE
  /\ IF at = "handshake" \/ (at = "recv" /\ active > f.n)
     THEN /\ result' = "Closed"
          /\ at' = IF at = "handshake" THEN "dead" ELSE "idle"
          /\ active' = IF kind = "into" THEN active ELSE 0
          /\ UNCHANGED <<kind, left, gotFinal, done, credit, got>>
     ELSE UNCHANGED <<active, callVars>>
  /\ UNCHANGED <<sid, sendVars, toPeer>>

ReadPing == \E f \in Arrived :
  /\ Reads(f) /\ f.type \in {"ping", "ack"}
  /\ IF f.type = "ping" THEN Write(<<Frame("pong", 0, 0, FALSE)>>)
                        ELSE UNCHANGED toPeer
  /\ UNCHANGED <<sendVars, connVars, callVars>>

\* Mutant: informational responses are not expected.
AdmitsFinalOnly(f) ==
  /\ at = "recv" /\ f.sid = active
  /\ \/ f.type = "final" /\ ~gotFinal
     \/ f.type = "trailers" /\ gotFinal /\ f.end
     \/ f.type = "data" /\ gotFinal /\ f.n <= MaxSend
     \/ f.type = "priority"

\* next_response_event, decode_headers and data_event: what they admit, in
\* which state.
Admits(f) ==
  /\ at = "recv" /\ f.sid = active
  /\ \/ f.type = "info" /\ ~gotFinal /\ ~f.end
     \/ f.type = "final" /\ ~gotFinal
     \/ f.type = "trailers" /\ gotFinal /\ f.end
     \/ f.type = "data" /\ gotFinal /\ f.n <= MaxSend
     \/ f.type = "priority"

\* Mutant: the final headers end the response.
ReadHeadersEnds == \E f \in Arrived :
  /\ Reads(f) /\ f.type \in {"info", "final", "trailers"} /\ Admits(f)
  /\ gotFinal' = (gotFinal \/ f.type = "final")
  /\ done' = (f.end \/ f.type = "final")
  /\ UNCHANGED <<at, kind, left, credit, got, result, sendVars, connVars,
                 toPeer>>
ReadHeaders == \E f \in Arrived :
  /\ Reads(f) /\ f.type \in {"info", "final", "trailers"} /\ Admits(f)
  /\ gotFinal' = (gotFinal \/ f.type = "final")
  /\ done' = f.end
  /\ UNCHANGED <<at, kind, left, credit, got, result, sendVars, connVars,
                 toPeer>>

ReadData == \E f \in Arrived :
  /\ Reads(f) /\ f.type = "data" /\ Admits(f)
  /\ at' = "deliver" /\ credit' = f.n /\ done' = f.end
  /\ UNCHANGED <<kind, left, gotFinal, got, result, sendVars, connVars, toPeer>>

\* next_response_event passes over a PRIORITY of its own stream.
ReadPriority == \E f \in Arrived :
  /\ Reads(f) /\ f.type = "priority" /\ Admits(f)
  /\ UNCHANGED <<sendVars, connVars, callVars, toPeer>>

\* What control leaves to its caller, while connecting or sending; of another
\* stream, out of place or RST_STREAM; a kind next_response_event does not know.
ReadUnexpected == \E f \in Arrived :
  /\ Reads(f) /\ f.type \in Response \cup Stray /\ ~Admits(f)
  /\ Fails("ProtocolFailed")
  /\ UNCHANGED <<sendVars, sid, gotGoaway, peerLast, toPeer>>

\* Mutant: the frame that ends the stream returns no credit at all.
AcceptOpenOnly ==
  /\ at = "deliver"
  /\ at' = "recv" /\ got' = got + credit
  /\ Write(IF credit = 0 \/ done THEN <<>>
           ELSE <<Frame("update", active, credit, FALSE),
                  Frame("update", 0, credit, FALSE)>>)
  /\ UNCHANGED <<kind, left, gotFinal, done, credit, result, sendVars, connVars,
                 toClient, up, peerVars>>

\* The consumer accepts the chunk: restore_recv_window.
Accept ==
  /\ at = "deliver"
  /\ at' = "recv" /\ got' = got + credit
  /\ Write(IF credit = 0 THEN <<>>
           ELSE (IF done THEN <<>> ELSE <<Frame("update", active, credit, FALSE)>>)
                \o <<Frame("update", 0, credit, FALSE)>>)
  /\ UNCHANGED <<kind, left, gotFinal, done, credit, result, sendVars, connVars,
                 toClient, up, peerVars>>

\* Mutant: a client with an unread response stays open.
RefuseKeepsOpen ==
  /\ at = "deliver"
  /\ <<kind, IF done THEN "last" ELSE "middle">> \in Refuses
  /\ at' = "idle" /\ active' = 0
  /\ result' = IF kind = "stream" THEN "Receiver" ELSE "RecvFailed"
  /\ UNCHANGED <<open, kind, left, gotFinal, done, credit, got, sid, gotGoaway,
                 peerLast, sendVars, linkVars, peerVars>>

\* The mailbox (receiver_refused) or the sink refuses it.
Refuse ==
  /\ at = "deliver"
  /\ <<kind, IF done THEN "last" ELSE "middle">> \in Refuses
  /\ at' = "idle"
  /\ IF kind = "stream" THEN /\ result' = "Receiver"
                             /\ open' = (open /\ done) /\ active' = 0
                        ELSE result' = "RecvFailed" /\ UNCHANGED <<open, active>>
  /\ UNCHANGED <<kind, left, gotFinal, done, credit, got, sid, gotGoaway,
                 peerLast, sendVars, linkVars, peerVars>>

Complete ==
  /\ at = "recv" /\ done
  /\ at' = "idle" /\ result' = "ok" /\ active' = 0
  /\ UNCHANGED <<kind, left, gotFinal, done, credit, got, open, sid, gotGoaway,
                 peerLast, sendVars, linkVars, peerVars>>

\* A read finds the stream ended, or a write fails: DATA, a reply to a control
\* frame, or the credit of a chunk.
LinkFails ==
  /\ ~up
  /\ \/ Reading /\ toClient = <<>> /\ Fails("RecvFailed")
     \/ /\ \/ at = "send" /\ Avail > 0
           \/ at = "deliver" /\ credit > 0
           \/ \E f \in Arrived : f.type \in {"settings", "ping"}
        /\ Fails("SendFailed")
  /\ UNCHANGED <<sendVars, sid, gotGoaway, peerLast, linkVars, peerVars>>

Close ==
  /\ at = "idle"
  /\ at' = "closed" /\ up' = FALSE
  /\ toPeer' = <<>> /\ toClient' = <<>>
  /\ UNCHANGED <<kind, left, gotFinal, done, credit, got, result, sendVars,
                 connVars, peerVars>>

Call ==
  \/ SendChunk
  \/ ReadSettings \/ ReadConnUpdate \/ ReadStreamUpdate \/ ReadGoaway
  \/ ReadPing \/ ReadHeaders \/ ReadData \/ ReadPriority \/ ReadUnexpected
  \/ Accept \/ Complete \/ LinkFails

Client ==
  \/ Call \/ Refuse \/ Close
  \/ \E k \in Kinds : PostUnsent(k) \/ PostRefused(k) \/ \E b \in Bodies : Post(k, b)

-----------------------------------------------------------------------------
(* The peer.                                                               *)

Does(habit) == habit \in PeerDoes

\* A frame nothing asked for counts against Turns.
Spontaneous == turns > 0 /\ turns' = turns - 1

Says(frame) == /\ up
               /\ toClient' = Append(toClient, frame)
               /\ UNCHANGED <<sendVars, connVars, callVars, up>>

\* What the client may send it on a stream.
PeerWindow(s) == pInit + granted[s]

PeerReads ==
  /\ up /\ toPeer # <<>>
  /\ toPeer' = Tail(toPeer)
  /\ UNCHANGED <<sendVars, connVars, callVars, up, reply, owed, sent, pLast,
                 turns>>
  /\ LET f == Head(toPeer) IN
     \/ /\ f.type = "headers"
        /\ request' = [request EXCEPT ![f.sid] = IF f.end THEN "ended" ELSE "open"]
        /\ UNCHANGED <<pConn, pInit, unacked, granted, overrun, outConn, outInit,
                       spent, toClient>>
     \/ /\ f.type = "data"
        /\ overrun' = (overrun \/ f.n > pConn \/ f.n > PeerWindow(f.sid))
        /\ pConn' = pConn - f.n
        /\ granted' = [granted EXCEPT ![f.sid] = @ - f.n]
        /\ request' = [request EXCEPT ![f.sid] = IF f.end THEN "ended" ELSE @]
        /\ UNCHANGED <<pInit, unacked, outConn, outInit, spent, toClient>>
     \/ /\ f.type = "settings"
        /\ outInit' = f.n
        /\ toClient' = Append(toClient, Frame("ack", 0, 0, FALSE))
        /\ UNCHANGED <<pSend, outConn, spent>>
     \/ /\ f.type = "ack"
        /\ pInit' = Head(unacked) /\ unacked' = Tail(unacked)
        /\ UNCHANGED <<pConn, granted, request, overrun, outConn, outInit, spent,
                       toClient>>
     \/ /\ f.type = "update"
        /\ IF f.sid = 0 THEN outConn' = outConn + f.n /\ UNCHANGED spent
           ELSE spent' = [spent EXCEPT ![f.sid] = @ - f.n] /\ UNCHANGED outConn
        /\ UNCHANGED <<pSend, outInit, toClient>>
     \/ /\ f.type = "pong"
        /\ UNCHANGED <<pSend, outConn, outInit, spent, toClient>>

\* The stream is known to the peer and it means to answer it.
Serving(s) == request[s] # "none" /\ s <= pLast

\* Values of its initial window that may be in force when a frame sent now
\* is read.
InForce  == {pInit} \cup {unacked[i] : i \in DOMAIN unacked}
LastInit == IF unacked = <<>> THEN pInit ELSE unacked[Len(unacked)]

\* Nothing it sent lets the client go on with stream s, or with any.
Starves(s)  == Serving(s) /\ request[s] = "open" /\ LastInit + granted[s] <= 0
StarvesConn == /\ pConn <= 0
               /\ \E s \in Streams : Serving(s) /\ request[s] = "open"

PeerSettings(v) ==
  /\ Does("settings") /\ Spontaneous
  /\ \A s \in Streams : reply[s] # "ended" => v + granted[s] <= MaxWindow
  /\ Says(Frame("settings", 0, v, FALSE))
  /\ unacked' = Append(unacked, v)
  /\ UNCHANGED <<toPeer, pConn, pInit, granted, request, overrun, pReply, pLast>>

\* Within what a window may hold; without being asked, or because the client
\* could not go on.
PeerGrants(s, n) ==
  /\ request[s] # "none"
  /\ IF Starves(s) THEN UNCHANGED turns ELSE Does("grant") /\ Spontaneous
  /\ \A v \in InForce : v + granted[s] + n <= MaxWindow
  /\ Says(Frame("update", s, n, FALSE))
  /\ granted' = [granted EXCEPT ![s] = @ + n]
  /\ UNCHANGED <<toPeer, pConn, pInit, unacked, request, overrun, pReply, pLast>>

PeerGrantsConn(n) ==
  /\ IF StarvesConn THEN UNCHANGED turns ELSE Does("grant") /\ Spontaneous
  /\ pConn + n <= MaxWindow
  /\ Says(Frame("update", 0, n, FALSE))
  /\ pConn' = pConn + n
  /\ UNCHANGED <<toPeer, pInit, unacked, granted, request, overrun, pReply, pLast>>

\* It answers a request it has read, or is still reading.
Answers(s) == Serving(s) /\ (request[s] = "ended" \/ Does("early"))

PeerInfo(s) ==
  /\ Does("info") /\ Spontaneous /\ Answers(s) /\ reply[s] = "none"
  /\ Says(Frame("info", s, 0, FALSE))
  /\ UNCHANGED <<toPeer, pSend, pReply, pLast>>

PeerReplies(s, size, e) ==
  /\ Answers(s) /\ reply[s] = "none"
  /\ e => size = 0
  /\ Says(Frame("final", s, 0, e))
  /\ reply' = [reply EXCEPT ![s] = IF e THEN "ended" ELSE "open"]
  /\ owed' = [owed EXCEPT ![s] = size]
  /\ UNCHANGED <<toPeer, pSend, sent, outConn, outInit, spent, pLast, turns>>

\* No frame is longer than what the client's SETTINGS left as it was.
PeerData(s, n, e) ==
  /\ reply[s] = "open" /\ n <= MaxSend
  /\ n <= owed[s] /\ n <= outConn /\ n <= outInit - spent[s]
  /\ IF e THEN n = owed[s] ELSE n > 0
  /\ Says(Frame("data", s, n, e))
  /\ reply' = [reply EXCEPT ![s] = IF e THEN "ended" ELSE @]
  /\ owed' = [owed EXCEPT ![s] = @ - n] /\ sent' = [sent EXCEPT ![s] = @ + n]
  /\ outConn' = outConn - n /\ spent' = [spent EXCEPT ![s] = @ + n]
  /\ UNCHANGED <<toPeer, pSend, outInit, pLast, turns>>

PeerTrailers(s) ==
  /\ Does("trailers") /\ reply[s] = "open" /\ owed[s] = 0
  /\ Says(Frame("trailers", s, 0, TRUE))
  /\ reply' = [reply EXCEPT ![s] = "ended"]
  /\ UNCHANGED <<toPeer, pSend, owed, sent, outConn, outInit, spent, pLast, turns>>

PeerResets(s) ==
  /\ Does("reset") /\ Spontaneous /\ Serving(s) /\ reply[s] # "ended"
  /\ Says(Frame("reset", s, 0, FALSE))
  /\ reply' = [reply EXCEPT ![s] = "ended"]
  /\ UNCHANGED <<toPeer, pSend, owed, sent, outConn, outInit, spent, pLast>>

\* Streams beyond `last' it has not answered and never will.
PeerGoaway(last) ==
  /\ Does("goaway") /\ Spontaneous
  /\ last <= pLast /\ \A s \in Streams : reply[s] # "none" => s <= last
  /\ Says(Frame("goaway", 0, last, FALSE))
  /\ pLast' = last
  /\ UNCHANGED <<toPeer, pSend, pReply>>

PeerPing ==
  /\ Does("ping") /\ Spontaneous
  /\ Says(Frame("ping", 0, 0, FALSE))
  /\ UNCHANGED <<toPeer, pSend, pReply, pLast>>

\* PRIORITY of any stream at any time, or a frame the client does not know: all
\* of them RFC 7540 lets a server send to a client that has not turned push off.
PeerUnsupported(t, s) ==
  /\ Does("unsupported") /\ Spontaneous
  /\ t = "priority" => s # 0
  /\ Says(Frame(t, s, 0, FALSE))
  /\ UNCHANGED <<toPeer, pSend, pReply, pLast>>

\* An increment of zero, or more than a window may hold.
PeerOvergrants(s, n) ==
  /\ Does("overgrant") /\ Spontaneous
  /\ Says(Frame("update", s, n, FALSE))
  /\ UNCHANGED <<toPeer, pSend, pReply, pLast>>

\* The link goes down; what the client can still read is a prefix.
Cut ==
  /\ Does("cut") /\ up
  /\ up' = FALSE /\ toPeer' = <<>>
  /\ \E i \in 0..Len(toClient) : toClient' = SubSeq(toClient, 1, i)
  /\ UNCHANGED <<sendVars, connVars, callVars, peerVars>>

\* What a peer does that serves its client.
Serves ==
  \/ PeerReads
  \/ \E n \in Grants : \/ StarvesConn /\ PeerGrantsConn(n)
                       \/ \E s \in Streams : Starves(s) /\ PeerGrants(s, n)
  \/ \E s \in Streams :
       \/ \E size \in Replies, e \in BOOLEAN : PeerReplies(s, size, e)
       \/ \E n \in 0..owed[s], e \in BOOLEAN : PeerData(s, n, e)

Peer ==
  \/ PeerReads \/ PeerPing \/ Cut
  \/ \E v \in Inits : PeerSettings(v)
  \/ \E n \in Grants : PeerGrantsConn(n)
  \/ \E last \in 0..MaxPosts : PeerGoaway(last)
  \/ \E s \in 0..MaxPosts, n \in {0, MaxWindow} : PeerOvergrants(s, n)
  \/ \E s \in 0..MaxPosts, t \in Stray : PeerUnsupported(t, s)
  \/ \E s \in Streams :
       \/ \E n \in Grants : PeerGrants(s, n)
       \/ \E size \in Replies, e \in BOOLEAN : PeerReplies(s, size, e)
       \/ \E n \in 0..owed[s], e \in BOOLEAN : PeerData(s, n, e)
       \/ PeerInfo(s) \/ PeerTrailers(s) \/ PeerResets(s)

\* Where the call may be over, or the peer may leave its client waiting.
Deserted == \/ PeerDoes \cap {"goaway", "early", "overgrant"} # {}
            \/ ~(Refuses \subseteq {<<"stream", "middle">>})
Over == (at \in {"dead", "closed"} \/ Deserted) /\ UNCHANGED vars

InScene(A) == A /\ UNCHANGED scene
Next == InScene(Client \/ Peer \/ Over)
Spec == Init /\ [][Next]_vars
\* The caller's code runs on, and the peer serves.
FairSpec == Spec /\ WF_vars(InScene(Call)) /\ WF_vars(InScene(Serves))

-----------------------------------------------------------------------------
(* What is claimed.                                                        *)

\* The state keeps its shape; whatever increments the peer sends, no send
\* window exceeds MAX_WINDOW or goes below zero (add_conn_credit,
\* add_stream_credit, apply_settings).
ClientOK ==
  /\ open \in BOOLEAN /\ gotGoaway \in BOOLEAN
  /\ sid \in 1..MaxPosts + 1 /\ active \in 0..MaxPosts /\ peerLast \in Nat
  /\ initWin \in 0..MaxWindow /\ sendWin \in 0..MaxWindow
  /\ connWin \in 0..MaxWindow /\ sendDebt \in Nat
  /\ at \in {"handshake", "idle", "send", "recv", "deliver", "dead", "closed"}
  /\ kind \in {"stream", "into"} /\ result \in Errors \cup {"none", "ok"}
  /\ left \in Nat /\ credit \in Nat /\ got \in Nat
  /\ gotFinal \in BOOLEAN /\ done \in BOOLEAN

PeerOK ==
  /\ up \in BOOLEAN /\ overrun \in BOOLEAN
  /\ pConn \in Int /\ pInit \in 0..MaxWindow /\ unacked \in Seq(0..MaxWindow)
  /\ granted \in [Streams -> Int] /\ spent \in [Streams -> Int]
  /\ request \in [Streams -> {"none", "open", "ended"}]
  /\ reply \in [Streams -> {"none", "open", "ended"}]
  /\ owed \in [Streams -> Nat] /\ sent \in [Streams -> Nat]
  /\ outConn \in Nat /\ outInit \in Nat
  /\ pLast \in 0..MaxPosts /\ turns \in 0..Turns

Frames == [type : Response \cup Others \cup {"headers", "pong"},
           sid : 0..MaxPosts, n : Nat, end : BOOLEAN]
TypeOK == ClientOK /\ PeerOK /\ toPeer \in Seq(Frames) /\ toClient \in Seq(Frames)

\* The client never sends DATA that the peer has not granted, on the stream
\* or on the connection, whatever SETTINGS were in flight (send_post's wait
\* for credit, apply_settings).
NoOverrun == ~Does("overgrant") => ~overrun

\* Send credit is neither lost nor invented: what the client believes it may
\* send, with the DATA and the WINDOW_UPDATEs under way, is what the peer
\* counts, on the connection and on the stream being served; debt stands for
\* a window below zero (send_win, send_debt, conn_win).
SendCreditExact ==
  up /\ ~Does("overgrant") =>
        /\ connWin + DataOn(toPeer) + UpdatesOn(toClient, 0) = pConn
        /\ active # 0 => sendWin - sendDebt - initWin
                           + StreamDataOn(toPeer, active)
                           + UpdatesOn(toClient, active) = granted[active]

\* A call of post_into that fails leaves its client open, and the rest of the
\* response unread: when its sink refuses a chunk, when the link is lost, when
\* the peer answers before the end of the request, sends what the client does
\* not support or breaks flow control.
LeavesUnread ==
  \/ <<"into", "middle">> \in Refuses
  \/ "into" \in Kinds
     /\ PeerDoes \cap {"cut", "early", "overgrant", "unsupported"} # {}

\* Receive credit does not leak while the client can be used: what the peer
\* may send, what is on its way or in hand and what is on its way back is the
\* window connect advertised (restore_recv_window).  A refused last chunk and
\* a response left unread do lose it.
InHand == IF at = "deliver" THEN credit ELSE 0
RecvCreditExact ==
  /\ up /\ at # "dead" /\ (open \/ at # "idle")
  /\ Refuses \subseteq {<<"stream", "middle">>} /\ ~LeavesUnread
  =>
    /\ outConn + DataOn(toClient) + InHand + UpdatesOn(toPeer, 0)
         = DefaultWindow + Window
    /\ active # 0 /\ reply[active] # "ended" =>
         spent[active] = StreamDataOn(toClient, active) + InHand
                           + UpdatesOn(toPeer, active)

\* Between calls a client that is open has read its earlier responses to the
\* end: nothing of them can be taken for part of the next one.
CleanWhenOpen ==
  at = "idle" /\ open /\ ~LeavesUnread =>
    \A i \in DOMAIN toClient : toClient[i].type \notin Response

\* A call that returns Ok gave its consumer the whole response, and the peer
\* had the whole request unless it answered before the end of it.
WholeOnSuccess ==
  at = "idle" /\ result = "ok" =>
    LET s == sid - 1 IN
    /\ got = sent[s] /\ owed[s] = 0 /\ reply[s] = "ended"
    /\ left = 0
    /\ Does("early") \/ request[s] = "ended"

\* ProtocolFailed has one of these causes: the peer breaks flow control; it
\* does what RFC 7540 allows and this client does not support, which is to answer
\* before the end of a request, to reset a stream, to send PRIORITY elsewhere
\* than in its response, or an unsupported frame; or a failed post_into left the
\* rest of a response.  Settings, grants, pings, interim headers, trailers and
\* GOAWAY never bring it, however they cross the request (control,
\* next_response_event, decode_headers).
Causes == {"overgrant", "early", "reset", "unsupported"}
FailsForCause ==
  result = "ProtocolFailed" => PeerDoes \cap Causes # {} \/ LeavesUnread

\* A peer that serves is never waited for in vain: every call returns, to a
\* caller told of its completion or of its failure (post_stream, post_into).
PostEnds == (at \in {"send", "recv", "deliver"}) ~> (at = "idle")
=============================================================================
