----------------------------- MODULE SerialPort -----------------------------
(***************************************************************************)
(* One configured serial port: the SerialProxy, the servers that share the *)
(* device, and the clients that hold it open.                              *)
(*                                                                         *)
(* Everything runs in one selector loop (server_manager.py), so handlers   *)
(* do not interleave. They do nest: telling a client something can fail,   *)
(* the failure removes the client, removing the last holder closes the     *)
(* device, and closing the device tells everybody. `stack` holds the calls *)
(* that are in progress, innermost first; a handler starts on an empty     *)
(* stack and every frame is one call, or the rest of one after a nested    *)
(* call has returned.                                                      *)
(*                                                                         *)
(* A definition marked as a mutant stands for a bug in the one after it    *)
(* and is used by nothing: it shows that the properties notice.            *)
(*                                                                         *)
(* Outside this module: the bytes themselves and the write queue           *)
(* (WriteQueue), modem lines, monitors, reading the configuration.         *)
(***************************************************************************)
EXTENDS Naturals, Sequences, FiniteSets, Functions

CONSTANTS
  SocketServers,  \* TCP, TELNET, TLS and Unix socket servers (server.py)
  TlsServers,     \* the ones of them that shake hands first
  WsServers,      \* WebSocket endpoints (server_websocket.py)
  SocketClients,  \* connections to socket servers
  WsClients,      \* connections to WebSocket endpoints
  Layouts,        \* the server lists this port may be configured with, each
                  \* server once: a new one is an object of its own
  PortLimit,      \* max_connections of the port, 0 for no limit
  ServerLimit,    \* max_connections of each server, 0 for no limit
  SendRaises,     \* may ws_send() to a dead socket raise OSError?
  RebuildFails,   \* may a server of a new configuration fail to start?
  PairFails       \* may socketpair() fail, for a port without a descriptor?

Servers == SocketServers \cup WsServers
Clients == SocketClients \cup WsClients

ASSUME SerialPortAssumption ==
  /\ TlsServers \subseteq SocketServers
  /\ SocketServers \cap WsServers = {}
  /\ SocketClients \cap WsClients = {}
  /\ Layouts \subseteq Seq(Servers)
  /\ \A l \in Layouts : IsInjective(l)
  /\ PortLimit \in Nat /\ ServerLimit \in Nat
  /\ SendRaises \in BOOLEAN /\ RebuildFails \in BOOLEAN /\ PairFails \in BOOLEAN

VARIABLES
  servers,    \* SerialProxy._servers
  down,       \* socket servers left in the list with their listener closed
  conns,      \* each server's _connections
  attached,   \* each WebSocket endpoint's _attached
  greeted,    \* WebSocket clients that have had their hello
  shaking,    \* TLS connections whose handshake has not finished
  closed,     \* socket connections that have closed themselves
  gone,       \* WebSocket clients whose socket is dead, or not there yet
  told,       \* what each WebSocket client last heard about the device
  device,     \* SerialProxy._serial is open
  readable,   \* ... and can be read: by its descriptor, or a reader's socketpair
  announced,  \* SerialProxy._announced_connected
  due,        \* REOPEN_INTERVAL has passed since the last attempt
  plugged,    \* the device can be opened
  stack       \* the calls in progress

clientVars == <<conns, attached, greeted, shaking, closed, gone, told>>
portVars   == <<servers, down, device, readable, announced, due>>
vars == <<clientVars, portVars, plugged, stack>>

-----------------------------------------------------------------------------
(* Who holds the device *)

\* A socket protocol cannot let go of the device and stay connected.
Attached(s) == IF s \in WsServers THEN attached[s] ELSE conns[s]

\* (Mutant: a client that is connected counts as a holder.)
AnyConnected == \E s \in Range(servers) : conns[s] # {}

HasConnections == \E s \in Range(servers) : Attached(s) # {}

TotalConnections == Cardinality(UNION {Attached(s) : s \in Range(servers)})

\* (Mutant: one client too many.)
RoomForOneMore == PortLimit = 0 \/ TotalConnections <= PortLimit

CanAddConnection == PortLimit = 0 \/ TotalConnections < PortLimit

HasRoom(s) == ServerLimit = 0 \/ Cardinality(conns[s]) < ServerLimit

Listening(s) == s \in Range(servers) \ down

\* A connection some server knows of, wherever it is listed.
Known(c) == \E s \in Servers : c \in conns[s] \cup Attached(s)

-----------------------------------------------------------------------------
(* Calls *)

Idle == stack = <<>>
Top == Head(stack)

\* The frames of the calls. "up" and "down" are the device appearing and
\* going away, "data" is what it says.
Announce(up)    == [op |-> "announce", up |-> up]
Tell(s, msg)    == [op |-> "tell", s |-> s, msg |-> msg]
Cast(s, msg, l) == [op |-> "cast", s |-> s, msg |-> msg, left |-> l]
LetGo           == [op |-> "let_go"]
Connect         == [op |-> "connect"]
Release         == [op |-> "release"]
Retry           == [op |-> "retry"]
Reap(s)         == [op |-> "reap", s |-> s]
On(op, s, c)    == [op |-> op, s |-> s, c |-> c]
Rebuild(l)      == [op |-> "rebuild", layout |-> l]
Shut(s)         == [op |-> "shut", s |-> s]
CloseNext       == [op |-> "close_next"]

Msgs == {"up", "down", "data"}
WsOps == {"join", "hello", "reply", "remove", "removed", "serve"}
SocketOps == {"add", "handshake", "drop"}

Frames ==
  [op : {"announce"}, up : BOOLEAN]
    \cup [op : {"tell"}, s : Servers, msg : Msgs]
    \cup [op : {"reap", "shut"}, s : Servers]
    \cup [op : {"cast"}, s : WsServers, msg : Msgs, left : SUBSET WsClients]
    \cup [op : {"let_go", "connect", "release", "retry", "close_next"}]
    \cup [op : WsOps, s : WsServers, c : WsClients]
    \cup [op : SocketOps, s : SocketServers, c : SocketClients]
    \cup [op : {"rebuild"}, layout : Layouts]

\* The running call goes on as `frames`, or returns when there are none.
Call(frames) == stack' = frames \o Tail(stack)
Return == Call(<<>>)

\* A handler begins.
Start(frames) == Idle /\ stack' = frames

\* An exception nothing on the stack catches. The loop logs it; one that came
\* out of a request also costs the client that sent it its connection.
Raise ==
  /\ stack' = <<>>
  /\ LET last == stack[Len(stack)]
     IN  gone' = IF last.op = "serve" /\ last.c \in conns[last.s]
                   THEN gone \cup {last.c} ELSE gone

-----------------------------------------------------------------------------
(* SerialProxy: opening, announcing, closing *)

Running(op) == ~Idle /\ Top.op = op

\* connect(): the port opens if it is not open and can be, and says so.
ConnectStep ==
  /\ Running("connect")
  /\ IF device \/ ~plugged
       THEN Return /\ UNCHANGED <<device, readable>>
       ELSE device' = TRUE /\ readable' = TRUE /\ Call(<<Announce(TRUE)>>)
  /\ UNCHANGED <<clientVars, servers, down, announced, due, plugged>>

\* ... or it raises in the middle: _serial is set, and socketpair() fails.
ConnectRaises ==
  /\ PairFails /\ Running("connect") /\ ~device /\ plugged
  /\ device' = TRUE
  /\ Raise
  /\ UNCHANGED <<conns, attached, greeted, shaking, closed, told, servers, down,
                 readable, announced, due, plugged>>

\* What connect() will return when it is called on an empty stack.
\* (Mutant: what it returns is ignored.)
AnyPortOpens == TRUE

CanOpen == device \/ plugged

\* _announce_serial(): every transition, server by server.
\* (Mutant: that it was announced is not recorded.)
AnnounceUnrecorded ==
  /\ Running("announce")
  /\ UNCHANGED announced
  /\ IF announced = Top.up
       THEN Return
       ELSE Call([i \in DOMAIN servers |->
                    Tell(servers[i], IF Top.up THEN "up" ELSE "down")])
  /\ UNCHANGED <<clientVars, servers, down, device, readable, due, plugged>>

AnnounceStep ==
  /\ Running("announce")
  /\ announced' = Top.up
  /\ IF announced = Top.up
       THEN Return
       ELSE Call([i \in DOMAIN servers |->
                    Tell(servers[i], IF Top.up THEN "up" ELSE "down")])
  /\ UNCHANGED <<clientVars, servers, down, device, readable, due, plugged>>

\* disconnect(): nobody holds the port, so let go of it.
ReleaseStep ==
  /\ Running("release")
  /\ IF device /\ ~HasConnections
       THEN Call(<<Announce(FALSE), LetGo>>)
       ELSE Return
  /\ UNCHANGED <<clientVars, portVars, plugged>>

\* The rest of _close_device(), once everybody has been told. A nested call
\* may have got here first, and there is no port left to close.
LetGoStep ==
  /\ Running("let_go")
  /\ IF device
       THEN device' = FALSE /\ readable' = FALSE /\ Return /\ UNCHANGED gone
       ELSE Raise /\ UNCHANGED <<device, readable>>
  /\ UNCHANGED <<conns, attached, greeted, shaking, closed, told, servers, down,
                 announced, due, plugged>>

\* A read or a write failed, or the device took nothing for too long.
DeviceFails ==
  /\ device
  /\ Start(<<Announce(FALSE), LetGo>>)
  /\ UNCHANGED <<clientVars, portVars, plugged>>

\* The device says something.
DeviceData ==
  /\ readable
  /\ Start([i \in DOMAIN servers |-> Tell(servers[i], "data")])
  /\ UNCHANGED <<clientVars, portVars, plugged>>

-----------------------------------------------------------------------------
(* Telling the clients of one server *)

\* on_serial_lost() of a socket server closes its clients, on_serial_found()
\* does nothing, and a client too slow for the data closes itself.
TellSocket ==
  /\ Running("tell") /\ Top.s \in SocketServers
  /\ Return
  /\ IF Top.msg = "down"
       THEN /\ conns' = [conns EXCEPT ![Top.s] = {}]
            /\ shaking' = shaking \ conns[Top.s]
            /\ closed' = closed \ conns[Top.s]
       ELSE /\ \E slow \in SUBSET conns[Top.s] :
                 closed' = IF Top.msg = "data" THEN closed \cup slow ELSE closed
            /\ UNCHANGED <<conns, shaking>>
  /\ UNCHANGED <<attached, greeted, gone, told, portVars, plugged>>

\* Everybody connected hears about the device, the attached hear its data.
\* (Mutant: a detached client hears nothing.)
AttachedOnly(s, msg) == attached[s]

Audience(s, msg) == IF msg = "data" THEN attached[s] ELSE conns[s]

\* A WebSocket endpoint walks a copy of its list.
TellWs ==
  /\ Running("tell") /\ Top.s \in WsServers
  /\ Call(<<Cast(Top.s, Top.msg, Audience(Top.s, Top.msg))>>)
  /\ UNCHANGED <<clientVars, portVars, plugged>>

Heard(c, msg) == IF msg = "data" THEN told ELSE [told EXCEPT ![c] = msg]

\* ws_send() to a dead socket fails, or is swallowed.
SendFails(c) == SendRaises /\ c \in gone

\* One client of a broadcast. Only the greeted hear about the device; one
\* whose socket is dead is removed there and then.
CastStep ==
  /\ Running("cast")
  /\ \/ Top.left = {} /\ Return /\ UNCHANGED told
     \/ \E c \in Top.left :
          LET rest == Cast(Top.s, Top.msg, Top.left \ {c})
          IN  \/ /\ Top.msg # "data" /\ c \notin greeted
                 /\ Call(<<rest>>)
                 /\ UNCHANGED told
              \/ /\ Top.msg = "data" \/ c \in greeted
                 /\ Call(<<rest>>)
                 /\ told' = Heard(c, Top.msg)
              \/ /\ Top.msg = "data" \/ c \in greeted
                 /\ SendFails(c)
                 /\ Call(<<On("remove", Top.s, c), rest>>)
                 /\ UNCHANGED told
  /\ UNCHANGED <<conns, attached, greeted, shaking, closed, gone, portVars,
                 plugged>>

-----------------------------------------------------------------------------
(* ServerWebSocket: arriving, attaching, leaving *)

\* add_connection(): tracked first, then attached like anybody else. The
\* socket may die before the greeting reaches it.
WsArrives(s, c) ==
  /\ Listening(s) /\ ~Known(c)
  /\ HasRoom(s) /\ CanAddConnection
  /\ conns' = [conns EXCEPT ![s] = @ \cup {c}]
  /\ gone' \in {gone \ {c}, gone \cup {c}}
  /\ greeted' = greeted \ {c}
  /\ Start(<<Connect, On("join", s, c), On("hello", s, c), On("serve", s, c)>>)
  /\ UNCHANGED <<attached, shaking, closed, told, portVars, plugged>>

\* _request_attach(true): refused at the port's limit, the client is told.
WsAttaches(s, c) ==
  /\ c \in conns[s] \ attached[s]
  /\ Start(IF CanAddConnection
             THEN <<Connect, On("join", s, c), On("reply", s, c), On("serve", s, c)>>
             ELSE <<On("reply", s, c), On("serve", s, c)>>)
  /\ UNCHANGED <<clientVars, portVars, plugged>>

\* _request_attach(false): out of the list first, then the port may go.
WsDetaches(s, c) ==
  /\ c \in attached[s]
  /\ attached' = [attached EXCEPT ![s] = @ \ {c}]
  /\ Start(<<Release, On("reply", s, c), On("serve", s, c)>>)
  /\ UNCHANGED <<conns, greeted, shaking, closed, gone, told, portVars, plugged>>

\* The end of attach(), after connect() has returned.
JoinStep ==
  /\ Running("join")
  /\ attached' = [attached EXCEPT ![Top.s] = @ \cup {Top.c}]
  /\ Return
  /\ UNCHANGED <<conns, greeted, shaking, closed, gone, told, portVars, plugged>>

\* _send_hello(): greeted, then told how the device is.
HelloStep ==
  /\ Running("hello")
  /\ greeted' = greeted \cup {Top.c}
  /\ \/ Return /\ told' = [told EXCEPT ![Top.c] = IF device THEN "up" ELSE "down"]
     \/ /\ SendFails(Top.c)
        /\ Call(<<On("remove", Top.s, Top.c)>>)
        /\ UNCHANGED told
  /\ UNCHANGED <<conns, attached, shaking, closed, gone, portVars, plugged>>

\* _send_json(): any other answer to one client.
ReplyStep ==
  /\ Running("reply")
  /\ \/ Return
     \/ SendFails(Top.c) /\ Call(<<On("remove", Top.s, Top.c)>>)
  /\ UNCHANGED <<clientVars, portVars, plugged>>

\* remove_connection(), up to the end of detach(). It knows the connected only.
RemoveStep ==
  /\ Running("remove")
  /\ LET rest == On("removed", Top.s, Top.c)
     IN  IF Top.c \in conns[Top.s]
           THEN /\ Call(IF Top.c \in attached[Top.s] THEN <<Release, rest>> ELSE <<rest>>)
                /\ attached' = [attached EXCEPT ![Top.s] = @ \ {Top.c}]
           ELSE Return /\ UNCHANGED attached
  /\ UNCHANGED <<conns, greeted, shaking, closed, gone, told, portVars, plugged>>

\* The rest of remove_connection(). list.remove() raises if a nested call has
\* removed this client already. An attach() in progress still has the client,
\* and goes on to list it among the attached.
RemovedStep ==
  /\ Running("removed")
  /\ IF Top.c \in conns[Top.s]
       THEN /\ conns' = [conns EXCEPT ![Top.s] = @ \ {Top.c}]
            /\ greeted' = greeted \ {Top.c}
            /\ told' = [told EXCEPT ![Top.c] = "nothing"]
            /\ Return /\ UNCHANGED gone
       ELSE Raise /\ UNCHANGED <<conns, greeted, told>>
  /\ UNCHANGED <<attached, shaking, closed, portVars, plugged>>

ServeStep ==
  /\ Running("serve") /\ Return
  /\ UNCHANGED <<clientVars, portVars, plugged>>

\* disconnect_client(), asked for through the API.
WsDropped(s, c) ==
  /\ c \in conns[s]
  /\ gone' = gone \cup {c}
  /\ Start(<<On("remove", s, c)>>)
  /\ UNCHANGED <<conns, attached, greeted, shaking, closed, told, portVars, plugged>>

\* The peer of a WebSocket goes away; process_stale() or a send finds out.
WsDies(c) ==
  /\ Idle /\ c \notin gone /\ \E s \in WsServers : c \in conns[s]
  /\ gone' = gone \cup {c}
  /\ UNCHANGED <<conns, attached, greeted, shaking, closed, told, portVars, plugged,
                 stack>>

-----------------------------------------------------------------------------
(* Server: accepting, shaking hands, dropping *)

\* _client_connect() of a plain protocol: no device, no client.
SocketArrives(s, c) ==
  /\ s \notin TlsServers /\ Listening(s) /\ ~Known(c)
  /\ HasRoom(s) /\ CanAddConnection /\ CanOpen
  /\ Start(<<Connect, On("add", s, c)>>)
  /\ UNCHANGED <<clientVars, portVars, plugged>>

AddStep ==
  /\ Running("add")
  /\ conns' = [conns EXCEPT ![Top.s] = @ \cup {Top.c}]
  /\ Return
  /\ UNCHANGED <<attached, greeted, shaking, closed, gone, told, portVars, plugged>>

\* _client_connect() of a TLS server: tracked and watched without the device.
TlsArrives(s, c) ==
  /\ s \in TlsServers /\ Listening(s) /\ ~Known(c)
  /\ HasRoom(s) /\ CanAddConnection
  /\ conns' = [conns EXCEPT ![s] = @ \cup {c}]
  /\ shaking' = shaking \cup {c}
  /\ Start(<<On("handshake", s, c)>>)
  /\ UNCHANGED <<attached, greeted, closed, gone, told, portVars, plugged>>

\* ... unless the socket cannot be wrapped: if the server has nobody, the port
\* may go.
TlsRefused(s, c) ==
  /\ s \in TlsServers /\ Listening(s) /\ ~Known(c)
  /\ HasRoom(s) /\ CanAddConnection /\ conns[s] = {}
  /\ Start(<<Release>>)
  /\ UNCHANGED <<clientVars, portVars, plugged>>

\* The peer of an unfinished handshake has sent more.
TlsReady(s, c) ==
  /\ c \in (conns[s] \cap shaking) \ closed
  /\ Start(<<On("handshake", s, c)>>)
  /\ UNCHANGED <<clientVars, portVars, plugged>>

\* _handshake(): more to come, finished, or refused. Once it is finished the
\* client needs the device, and is dropped without it.
HandshakeStep ==
  /\ Running("handshake")
  /\ \/ Return /\ UNCHANGED shaking
     \/ /\ shaking' = shaking \ {Top.c}
        /\ Call(IF CanOpen THEN <<Connect>> ELSE <<On("drop", Top.s, Top.c)>>)
     \/ Call(<<On("drop", Top.s, Top.c)>>) /\ UNCHANGED shaking
  /\ UNCHANGED <<conns, attached, greeted, closed, gone, told, portVars, plugged>>

\* The peer closed, an I/O error, or the API: _remove_connection().
SocketLeaves(s, c) ==
  /\ s \in SocketServers /\ c \in conns[s]
  /\ Start(<<On("drop", s, c)>>)
  /\ UNCHANGED <<clientVars, portVars, plugged>>

\* _remove_connection(): the port may go when this server has nobody left.
DropStep ==
  /\ Running("drop")
  /\ conns' = [conns EXCEPT ![Top.s] = @ \ {Top.c}]
  /\ shaking' = shaking \ {Top.c}
  /\ closed' = closed \ {Top.c}
  /\ Call(IF conns[Top.s] \subseteq {Top.c} THEN <<Release>> ELSE <<>>)
  /\ UNCHANGED <<attached, greeted, gone, told, portVars, plugged>>

-----------------------------------------------------------------------------
(* Periodic work, reconfiguration, the end *)

\* process_stale(): every server reaps, then the port is tried again if
\* somebody waits for it.
\* (Mutants: only the one, only the other.)
TickWithoutRetry ==
  /\ servers # <<>>
  /\ Start([i \in DOMAIN servers |-> Reap(servers[i])])
  /\ UNCHANGED <<clientVars, portVars, plugged>>

TickWithoutReaping ==
  /\ servers # <<>>
  /\ Start(<<Retry>>)
  /\ UNCHANGED <<clientVars, portVars, plugged>>

Tick ==
  /\ servers # <<>>
  /\ Start([i \in DOMAIN servers |-> Reap(servers[i])] \o <<Retry>>)
  /\ UNCHANGED <<clientVars, portVars, plugged>>

\* A socket connection goes when it has closed itself or has been silent past
\* its timeout, a WebSocket when its socket is dead.
ReapStep ==
  /\ Running("reap")
  /\ \/ conns[Top.s] \cap (closed \cup gone) = {} /\ Return
     \/ \E c \in conns[Top.s] :
          \/ /\ Top.s \in SocketServers
             /\ Call(<<On("drop", Top.s, c), Top>>)
          \/ /\ c \in gone
             /\ Call(<<On("remove", Top.s, c), Top>>)
  /\ UNCHANGED <<clientVars, portVars, plugged>>

\* _reopen(), not more often than REOPEN_INTERVAL.
RetryStep ==
  /\ Running("retry")
  /\ IF ~device /\ HasConnections /\ due
       THEN due' = FALSE /\ Call(<<Connect>>)
       ELSE UNCHANGED due /\ Return
  /\ UNCHANGED <<clientVars, servers, down, device, readable, announced, plugged>>

IntervalPasses ==
  /\ Idle /\ ~due
  /\ due' = TRUE
  /\ UNCHANGED <<clientVars, servers, down, device, readable, announced, plugged, stack>>

\* The places in the list that are in `out`, in the order of the list.
InOrder(places, out) ==
  /\ \A m, n \in DOMAIN places : m < n => places[m] < places[n]
  /\ Range(places) = out

\* reconcile_servers(): those that go are shut first, then the new are built.
Reconcile(layout) ==
  /\ servers # <<>> /\ layout # servers
  /\ LET out == {i \in DOMAIN servers : servers[i] \notin Range(layout)}
     IN  \E n \in 0 .. Len(servers) : \E going \in [1 .. n -> out] :
           /\ InOrder(going, out)
           /\ Start([i \in 1 .. n |-> Shut(servers[going[i]])] \o <<Rebuild(layout)>>)
  /\ UNCHANGED <<clientVars, portVars, plugged>>

\* close() of one server. Only a WebSocket endpoint lets go of the device.
ShutStep ==
  /\ Running("shut")
  /\ conns' = [conns EXCEPT ![Top.s] = {}]
  /\ shaking' = shaking \ conns[Top.s]
  /\ closed' = closed \ conns[Top.s]
  /\ gone' = gone \cup (conns[Top.s] \cap WsClients)
  /\ greeted' = greeted \ (conns[Top.s] \cup Attached(Top.s))
  /\ told' = [c \in WsClients |-> IF c \in conns[Top.s] THEN "nothing" ELSE told[c]]
  /\ attached' = [s \in WsServers |-> IF s = Top.s THEN {} ELSE attached[s]]
  /\ Call(IF Top.s \in WsServers THEN <<Release>> ELSE <<>>)
  /\ UNCHANGED <<portVars, plugged>>

\* Every new server has started, or one has not and the old list is put back:
\* a removed socket server that does not start again stays in its place, closed.
RebuildStep ==
  /\ Running("rebuild")
  /\ LET going == Range(servers) \ Range(Top.layout)
         new   == Range(Top.layout) \ Range(servers)
     IN  \/ /\ servers' = Top.layout
            /\ down' = down \cap Range(Top.layout)
            /\ Call(IF going \cup new # {} THEN <<Release>> ELSE <<>>)
         \/ /\ RebuildFails /\ new # {}
            /\ UNCHANGED servers
            /\ \E lost \in SUBSET (going \cap SocketServers) :
                 down' = (down \ going) \cup lost
            /\ Return
  /\ UNCHANGED <<clientVars, device, readable, announced, due, plugged>>

\* SerialProxy.close(): the last server first, the device at the end.
Close ==
  /\ servers # <<>>
  /\ Start(<<CloseNext>>)
  /\ UNCHANGED <<clientVars, portVars, plugged>>

CloseStep ==
  /\ Running("close_next")
  /\ IF servers = <<>>
       THEN Call(<<Release>>) /\ UNCHANGED servers
       ELSE /\ servers' = SubSeq(servers, 1, Len(servers) - 1)
            /\ Call(<<Shut(servers[Len(servers)]), CloseNext>>)
  /\ UNCHANGED <<clientVars, down, device, readable, announced, due, plugged>>

\* The cable, between handlers: it is looked at once in a handler, in connect().
Plug ==
  /\ Idle
  /\ plugged' = ~plugged
  /\ UNCHANGED <<clientVars, portVars, stack>>

-----------------------------------------------------------------------------
Step ==
  \/ ConnectStep \/ ConnectRaises \/ AnnounceStep \/ ReleaseStep \/ LetGoStep
  \/ TellSocket \/ TellWs \/ CastStep
  \/ JoinStep \/ HelloStep \/ ReplyStep \/ RemoveStep \/ RemovedStep \/ ServeStep
  \/ AddStep \/ HandshakeStep \/ DropStep
  \/ ReapStep \/ RetryStep \/ ShutStep \/ RebuildStep \/ CloseStep

Event ==
  \/ \E s \in WsServers, c \in WsClients :
       WsArrives(s, c) \/ WsAttaches(s, c) \/ WsDetaches(s, c) \/ WsDropped(s, c)
  \/ \E s \in SocketServers, c \in SocketClients :
       \/ SocketArrives(s, c) \/ TlsArrives(s, c) \/ TlsRefused(s, c)
       \/ TlsReady(s, c) \/ SocketLeaves(s, c)
  \/ \E c \in WsClients : WsDies(c)
  \/ \E layout \in Layouts : Reconcile(layout)
  \/ DeviceFails \/ DeviceData \/ Plug \/ IntervalPasses \/ Close

Init ==
  /\ servers \in Layouts
  /\ down = {}
  /\ conns = [s \in Servers |-> {}]
  /\ attached = [s \in WsServers |-> {}]
  /\ greeted = {} /\ shaking = {} /\ closed = {} /\ gone = WsClients
  /\ told = [c \in WsClients |-> "nothing"]
  /\ device = FALSE /\ readable = FALSE /\ announced = FALSE /\ due = TRUE
  /\ plugged \in BOOLEAN
  /\ stack = <<>>

Next == Step \/ Tick \/ Event

Spec == Init /\ [][Next]_vars

\* A call that has begun goes on; the loop runs process_stale() after every
\* batch of events, so handlers cannot keep it from its turn; time passes.
FairSpec == Spec /\ WF_vars(Step) /\ SF_vars(Tick) /\ SF_vars(IntervalPasses)

-----------------------------------------------------------------------------
(* What should hold *)

\* The variables hold what the code's attributes can hold.
TypeOK ==
  /\ servers \in Seq(Servers)
  /\ down \subseteq SocketServers
  /\ conns \in [Servers -> SUBSET Clients]
  /\ \A s \in SocketServers : conns[s] \subseteq SocketClients
  /\ \A s \in WsServers : conns[s] \subseteq WsClients
  /\ attached \in [WsServers -> SUBSET WsClients]
  /\ greeted \subseteq WsClients
  /\ shaking \subseteq SocketClients
  /\ closed \subseteq SocketClients
  /\ gone \subseteq WsClients
  /\ told \in [WsClients -> {"nothing", "up", "down"}]
  /\ device \in BOOLEAN /\ readable \in BOOLEAN /\ announced \in BOOLEAN
  /\ due \in BOOLEAN /\ plugged \in BOOLEAN
  /\ stack \in Seq(Frames)

\* Between handlers an open device has a connected client holding it, however
\* the holders left: "Close the port once nobody is holding it open".
HeldWhileOpen ==
  Idle /\ device => \E s \in Range(servers) : Attached(s) \cap conns[s] # {}

\* Between handlers the flag that suppresses repeated announcements says whether
\* there is an open device to be read, so no transition of one goes unannounced,
\* also when a handler was cut short by an exception. (One that connect() could
\* open and not read is open, and has not been announced: _start_reader_thread.)
AnnouncementMatchesDevice == Idle => announced = (device /\ readable)

\* What connect() and the announcements say they do: whenever the device is
\* open, everybody has been told.
OpenIsAnnounced == Idle => announced = device

\* However clients of all servers arrive, attach and detach while the device
\* opens and closes under them, no more than max_connections share it.
PortLimitKept == PortLimit # 0 => TotalConnections <= PortLimit

\* Between handlers every WebSocket client that can be reached, attached or
\* not, has last been told the state the device is in.
ClientsKnowDevice ==
  Idle => \A c \in greeted \ gone : told[c] = IF device THEN "up" ELSE "down"

\* Between handlers a socket client that has finished connecting is on an open
\* device: there is no way to tell it otherwise (on_serial_lost() closes it).
SocketClientsHaveDevice ==
  Idle /\ ~device => \A s \in SocketServers : conns[s] \subseteq shaking \cup closed

\* Nobody is told what it knows already: every transition, not every call.
NewsOnly ==
  [][\A c \in greeted :
       Running("cast") /\ Top.msg # "data" /\ c \in Top.left
         /\ stack' = <<Cast(Top.s, Top.msg, Top.left \ {c})>> \o Tail(stack)
       => told[c] # Top.msg]_vars

\* The device is opened for clients, and an unfinished handshake is not one.
OpenedForClients ==
  [][~device /\ device' =>
       \/ \E s \in Range(servers) : Attached(s) \ shaking # {}
       \/ \E i \in DOMAIN stack : stack[i].op \in {"join", "add"}]_vars

\* Whoever waits for a device that is there gets it, or stops waiting.
WaitersGetDevice ==
  (HasConnections /\ ~device /\ plugged) ~> (device \/ ~HasConnections \/ ~plugged)

\* A WebSocket client whose socket is dead does not hold the device, or a
\* place under the port's limit, for ever.
DeadDoNotHold ==
  \A s \in WsServers, c \in WsClients :
    c \in gone \cap attached[s] ~> c \notin gone \cap attached[s]

=============================================================================
