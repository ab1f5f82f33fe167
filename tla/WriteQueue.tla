----------------------------- MODULE WriteQueue -----------------------------
(***************************************************************************)
(* The queue between the clients of one port and its device: what is       *)
(* buffered, when reading the clients stops and resumes, when data is      *)
(* dropped and when the device is given up on (serial_proxy.py), together  *)
(* with the read interest of every client (connection.py, server.py,       *)
(* server_websocket.py) and the loop that serves them (server_manager.py). *)
(*                                                                         *)
(* Reading a client is stopped only for the next select(): whoever is in   *)
(* the batch of events being served is still read, and one recv() may hand *)
(* over several messages, which are served one after another.              *)
(*                                                                         *)
(* A definition marked as a mutant stands for a bug in the one after it    *)
(* and is used by nothing: it shows that the properties notice.            *)
(***************************************************************************)
EXTENDS Naturals, FiniteSets

CONSTANTS
  Clients,    \* connection slots of the port
  Servers,    \* the servers of the port
  WsServers,  \* the WebSocket endpoints among them
  LowWater,   \* WRITE_LOW_WATER
  HighWater,  \* WRITE_HIGH_WATER
  Limit,      \* WRITE_BUFFER_LIMIT
  Chunk,      \* the most one recv() hands over
  WatchFails, \* whether the selector may refuse to watch the device, or a change
  Nobody, Serial

ASSUME WriteQueueAssumption ==
  /\ IsFiniteSet(Clients)
  /\ WsServers \subseteq Servers
  /\ LowWater \in Nat /\ HighWater \in Nat /\ Limit \in Nat /\ Chunk \in Nat
  /\ LowWater <= HighWater /\ HighWater < Limit
  /\ WatchFails \in BOOLEAN
  /\ Nobody \notin Clients \cup Servers /\ Serial \notin Clients

VARIABLES
  watched,   \* the device has a descriptor of its own for select() to watch, and
             \* needs no reader thread, whose socket says nothing about whether
             \* the device takes a write; settled by its configuration
  device,    \* SerialProxy._serial is open
  backlog,   \* len(SerialProxy._out_buffer)
  overdue,   \* WRITE_STALL_TIMEOUT has passed since _write_progress_at
  armed,     \* EVENT_WRITE is in _serial_interest
  paused,    \* SerialProxy._read_paused
  told,      \* each server's _read_paused
  home,      \* the server a client is connected to, or Nobody
  attached,  \* the WebSocket clients among every endpoint's _attached
  held,      \* clients whose socket is not being read
  loop,      \* where the event loop is: "select" or "events"
  batch,     \* the events of this pass that have not been served
  current,   \* the client being served, or Nobody
  budget     \* how much of what its recv() brought is still to be served

queueVars  == <<watched, device, backlog, overdue, armed, paused, told, held>>
clientVars == <<home, attached>>
loopVars   == <<loop, batch, current, budget>>
vars == <<queueVars, clientVars, loopVars>>

-----------------------------------------------------------------------------
Ws(c) == home[c] \in WsServers

Here == {c \in Clients : home[c] # Nobody}

\* Whom a server holds back, or lets go, on behalf of the device.
Feeding == {c \in Here : Ws(c) => c \in attached}

SocketClients == {c \in Here : ~Ws(c)}

\* set_read_paused() of every server. An endpoint that is in that state
\* already leaves its clients as they are.
Tell(p) ==
  LET meant == {c \in Feeding : Ws(c) => told[home[c]] # p}
  IN  /\ told' = [s \in Servers |-> p]
      /\ held' = IF p THEN held \cup meant ELSE held \ meant

\* Who joins while a server holds back waits like the others.
\* (Mutant: it does not.)
NobodyHeld(s, c) == held

HeldWith(s, c) == IF told[s] THEN held \cup {c} ELSE held

-----------------------------------------------------------------------------
(* The queue *)

\* Between the marks the port stays as it is.
Behind(b) == IF paused THEN b > LowWater ELSE b > HighWater

Kept(n) == IF n > Limit - backlog THEN Limit - backlog ELSE n

\* _close_device(): what is queued goes with the device.
\* (Mutant: the device's write interest and the servers stay as they are.)
CloseAndForget ==
  /\ device' = FALSE /\ backlog' = 0 /\ overdue' = FALSE /\ paused' = FALSE
  /\ UNCHANGED <<armed, told>>

CloseDevice ==
  /\ device' = FALSE /\ backlog' = 0 /\ overdue' = FALSE /\ armed' = FALSE
  /\ paused' = FALSE
  /\ told' = IF paused THEN [s \in Servers |-> FALSE] ELSE told

\* _serial_failed(): the socket clients are closed, the endpoints' clients wait
\* for the device and are not held back any longer.
Fail(rest) ==
  /\ CloseDevice
  /\ home' = [c \in Clients |-> IF c \in SocketClients THEN Nobody ELSE home[c]]
  /\ held' = (IF paused THEN held \ {c \in attached : told[home[c]]} ELSE held)
               \ SocketClients
  /\ batch' = rest \ ({Serial} \cup SocketClients)
  /\ UNCHANGED <<watched, attached>>

\* These clients leave their server, or the device; the last to hold the device
\* takes it away (disconnect()).
LetGo(leaving, gone) ==
  /\ home' = [c \in Clients |-> IF c \in gone THEN Nobody ELSE home[c]]
  /\ attached' = attached \ leaving
  /\ held' = held \ gone
  /\ UNCHANGED watched
  /\ IF device /\ Feeding \subseteq leaving
       THEN CloseDevice /\ batch' = batch \ ({Serial} \cup gone)
       ELSE /\ batch' = batch \ gone
            /\ UNCHANGED <<device, backlog, overdue, armed, paused, told>>

\* _update_serial_interest(), which leaves it as it was when the selector refuses,
\* as it always does once it has refused the device itself (_register_serial()).
Interest(b) == {b > 0} \cup (IF WatchFails THEN {armed} ELSE {})

\* _update_serial_interest() and _update_backpressure() with b bytes queued.
Settle(b) ==
  /\ backlog' = b
  /\ armed' \in Interest(b)
  /\ paused' = Behind(b)
  /\ IF paused' # paused THEN Tell(paused') ELSE UNCHANGED <<told, held>>
  /\ UNCHANGED <<watched, device, clientVars>>

\* flush_serial() with b bytes queued: the device fails, takes some, or takes
\* nothing - for too long, and it has failed.
\* (Mutant: however long it takes nothing.)
FlushPatiently(b, late, rest) ==
  \/ Fail(rest)
  \/ \E sent \in 1..b : overdue' = FALSE /\ Settle(b - sent) /\ batch' = rest
  \/ overdue' = late /\ Settle(b) /\ batch' = rest

Flush(b, late, rest) ==
  \/ Fail(rest)
  \/ \E sent \in 1..b : overdue' = FALSE /\ Settle(b - sent) /\ batch' = rest
  \/ ~late /\ overdue' = FALSE /\ Settle(b) /\ batch' = rest

\* send() of n bytes: what does not fit is dropped, and silence counts from
\* when there is something to be silent about.
Send(n) ==
  IF ~device \/ Kept(n) = 0
    THEN UNCHANGED <<queueVars, clientVars, batch>>
    ELSE Flush(backlog + Kept(n), overdue /\ backlog > 0, batch)

-----------------------------------------------------------------------------
(* One pass of the loop *)

\* select() reports clients that are read, and a device that is waited for.
Select ==
  /\ loop = "select"
  /\ loop' = "events"
  /\ batch' \in SUBSET ((Here \ held) \cup (IF armed THEN {Serial} ELSE {}))
  /\ UNCHANGED <<queueVars, clientVars, current, budget>>

Between == loop = "events" /\ current = Nobody

\* recv() for a ready client.
Serve(c) ==
  /\ Between /\ c \in batch
  /\ batch' = batch \ {c}
  /\ current' = c /\ budget' = Chunk
  /\ UNCHANGED <<queueVars, clientVars, loop>>

\* All it sent has been served, or it is gone.
Served ==
  /\ loop = "events" /\ current # Nobody
  /\ current' = Nobody /\ budget' = 0
  /\ UNCHANGED <<queueVars, clientVars, loop, batch>>

\* n bytes for the device; a detached client is refused.
Write(c, n) ==
  /\ current = c /\ c \in Feeding
  /\ n <= budget /\ budget' = budget - n
  /\ Send(n)
  /\ UNCHANGED <<loop, current>>

\* {"attach": false}
Detach(c) ==
  /\ current = c /\ c \in attached
  /\ budget > 0 /\ budget' = budget - 1
  /\ LetGo({c}, {})
  /\ UNCHANGED <<loop, current>>

\* {"attach": true}: the device opens if it can.
Attach(c) ==
  /\ current = c /\ c \in Here /\ Ws(c) /\ c \notin attached
  /\ budget > 0 /\ budget' = budget - 1
  /\ attached' = attached \cup {c}
  /\ held' = HeldWith(home[c], c)
  /\ device' \in {device, TRUE}
  /\ UNCHANGED <<watched, backlog, overdue, armed, paused, told, home, loop, batch, current>>

\* A client connects: to a socket server only if the device opens.
Join(s, c) ==
  /\ Between /\ home[c] = Nobody
  /\ device' \in {device, TRUE}
  /\ s \in WsServers \/ device'
  /\ home' = [home EXCEPT ![c] = s]
  /\ attached' = IF s \in WsServers THEN attached \cup {c} ELSE attached
  /\ held' = HeldWith(s, c)
  /\ UNCHANGED <<watched, backlog, overdue, armed, paused, told, loopVars>>

\* A client is dropped: it closed, failed, or was told to.
Leave(c) ==
  /\ Between /\ c \in Here
  /\ LetGo({c}, {c})
  /\ UNCHANGED <<loop, current, budget>>

\* reconcile_servers() replaces a changed server. The new one knows nothing of
\* the port's backlog.
Rebuild(s) ==
  /\ Between
  /\ LET clients == {c \in Here : home[c] = s}
     IN  /\ home' = [c \in Clients |-> IF c \in clients THEN Nobody ELSE home[c]]
         /\ attached' = attached \ clients
         /\ held' = held \ clients
         /\ IF device /\ Feeding \subseteq clients
              THEN /\ batch' = batch \ ({Serial} \cup clients)
                   /\ device' = FALSE /\ backlog' = 0 /\ overdue' = FALSE
                   /\ armed' = FALSE /\ paused' = FALSE
                   /\ told' = [x \in Servers |-> x # s /\ ~paused /\ told[x]]
              ELSE /\ batch' = batch \ clients
                   /\ told' = [told EXCEPT ![s] = FALSE]
                   /\ UNCHANGED <<device, backlog, overdue, armed, paused>>
  /\ UNCHANGED <<watched, loop, current, budget>>

\* EVENT_WRITE on the device, for which nothing may be left by now.
DeviceReady ==
  /\ Between /\ Serial \in batch
  /\ IF backlog = 0
       THEN batch' = batch \ {Serial} /\ UNCHANGED <<queueVars, clientVars>>
       ELSE Flush(backlog, overdue, batch \ {Serial})
  /\ UNCHANGED <<loop, current, budget>>

\* A read from the device fails.
DeviceLost ==
  /\ Between /\ device
  /\ Fail(batch)
  /\ UNCHANGED <<loop, current, budget>>

\* process_stale(): somebody waits for the device, or the device is not watched
\* itself and the queue is retried here.
ProcessStale ==
  /\ Between /\ batch = {}
  /\ loop' = "select"
  /\ \/ /\ ~device /\ Feeding # {}
        /\ device' = TRUE
        /\ UNCHANGED <<watched, backlog, overdue, armed, paused, told, held, clientVars, batch>>
     \/ /\ device /\ backlog > 0 /\ (watched => WatchFails /\ ~armed)
        /\ Flush(backlog, overdue, {})
     \/ /\ ~(device /\ backlog > 0 /\ ~watched)
        /\ UNCHANGED <<queueVars, clientVars, batch>>
  /\ UNCHANGED <<current, budget>>

\* WRITE_STALL_TIMEOUT passes and the device has taken nothing.
TimePasses ==
  /\ backlog > 0 /\ ~overdue
  /\ overdue' = TRUE
  /\ UNCHANGED <<watched, device, backlog, armed, paused, told, held, clientVars,
                 loopVars>>

-----------------------------------------------------------------------------
Init ==
  /\ watched \in BOOLEAN
  /\ device = FALSE /\ backlog = 0 /\ overdue = FALSE /\ armed = FALSE
  /\ paused = FALSE /\ told = [s \in Servers |-> FALSE]
  /\ home = [c \in Clients |-> Nobody] /\ attached = {} /\ held = {}
  /\ loop = "select" /\ batch = {} /\ current = Nobody /\ budget = 0

Next ==
  \/ Select \/ Served \/ DeviceReady \/ DeviceLost \/ ProcessStale \/ TimePasses
  \/ \E c \in Clients :
       \/ Serve(c) \/ Detach(c) \/ Attach(c) \/ Leave(c)
       \/ \E n \in 1..Chunk : Write(c, n)
       \/ \E s \in Servers : Join(s, c)
  \/ \E s \in Servers : Rebuild(s)

Spec == Init /\ [][Next]_vars

\* The loop turns: every event of a pass is served and the periodic work is done.
FairSpec ==
  /\ Spec
  /\ WF_vars(Select) /\ WF_vars(Served) /\ SF_vars(ProcessStale)
  /\ WF_vars(DeviceReady)
  /\ \A c \in Clients : WF_vars(Serve(c))

-----------------------------------------------------------------------------
(* What should hold *)

Flags ==
  /\ watched \in BOOLEAN /\ device \in BOOLEAN
  /\ overdue \in BOOLEAN /\ armed \in BOOLEAN /\ paused \in BOOLEAN

Places ==
  /\ backlog \in 0..Limit
  /\ told \in [Servers -> BOOLEAN]
  /\ home \in [Clients -> Servers \cup {Nobody}]
  /\ attached \subseteq Clients /\ held \subseteq Clients
  /\ loop \in {"select", "events"}
  /\ batch \subseteq Clients \cup {Serial}
  /\ current \in Clients \cup {Nobody}
  /\ budget \in 0..Chunk

\* The queue is within its limit, and everything else holds what it can hold.
TypeOK == Flags /\ Places

\* Reading stops above the high mark and resumes at the low one, and a port
\* that is closed holds nobody back and owes nothing.
WaterMarks ==
  /\ paused => backlog > LowWater
  /\ ~paused => backlog <= HighWater
  /\ ~device => backlog = 0 /\ ~paused

\* The device is watched for writing exactly while something is queued for it,
\* if the selector lets it: once it has refused, nothing tries again before the
\* queue changes.
ArmedWhileQueued == armed <=> backlog > 0

\* Whoever feeds a port that is behind is not read, on every server that has
\* been told: also who joined or attached in the meantime.
FeedersHeldBack == \A c \in Feeding : told[home[c]] => c \in held

\* A server that has not been told is one that was built while the port was
\* behind; no server holds back clients of a port that is not.
OnlyBehindHoldsBack == \A s \in Servers : told[s] => paused

\* While every server knows the state of the port, whatever the client being
\* served has still to say fits in the queue: holding the clients back from the
\* next select() on is soon enough for nothing to be dropped.
NothingDropped ==
  (\A s \in Servers : told[s] = paused) => backlog + budget <= Limit

\* No client of a port that is not behind is left unread.
NobodyStranded == ~paused => held = {}

\* A device that has taken nothing for WRITE_STALL_TIMEOUT while its clients are
\* held back is given up on, or takes something after all.
StallNoticed == overdue /\ paused ~> ~(overdue /\ paused)

\* A device read through a reader thread is.
ThreadStallNoticed == ~watched => StallNoticed

=============================================================================
