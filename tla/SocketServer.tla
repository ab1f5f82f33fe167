---------------------------- MODULE SocketServer ----------------------------
(***************************************************************************)
(* A socket server and its connections: who is accepted, what the event    *)
(* loop watches of each of them, what is owed to them, and how they go.    *)
(* Data is counted in units; the device is whoever calls Send, Pause and   *)
(* Lost, and connect() succeeds or not.                                    *)
(***************************************************************************)
EXTENDS Integers, FiniteSets

CONSTANTS
    Clients,        \* bound: each of them connects once
    Protocol,       \* "TCP", "TELNET", "TLS" or "SOCKET"
    Limit,          \* buffer_limit
    MaxConnections, \* max_connections, 0 for any number
    Backlog,        \* bound: what a client says ahead of being read
    RegisterFails   \* whether the selector may refuse a socket

ASSUME SocketServerAssumption ==
    /\ Protocol \in {"TCP", "TELNET", "TLS", "SOCKET"}
    /\ IsFiniteSet(Clients)
    /\ Limit \in Nat \ {0} /\ MaxConnections \in Nat /\ Backlog \in Nat \ {0}
    /\ RegisterFails \in BOOLEAN

VARIABLES
    listener,   \* the listening socket: see TypeOK
    scarce,     \* whether the process is out of descriptors
    behind,     \* the server's _read_paused
    con,        \* the connection of each client
    peer,       \* what the client does at its end
    tracked,    \* _connections
    known,      \* whose sockets _conn_by_socket leads from
    phase,      \* whether the loop selects, or serves what it was told
    batch,      \* what select() said of each connection, and is still to be served
    knock,      \* what it said of the listening socket
    reading     \* whose data is being passed on: nobody's, or one connection's

loopVars == <<phase, batch, knock, reading>>
vars == <<listener, scarce, behind, con, peer, tracked, known, loopVars>>

Events == {"r", "w"}

\* sock: "none" before connecting, "queued" until accepted, "shaking" and
\* "open" while served, "shut" once it has closed itself, "gone" once dropped;
\* mask is what the connection thinks it registered, watch what is registered.
Connection ==
    [sock : {"none", "queued", "shaking", "open", "shut", "gone"},
     mask : SUBSET Events, watch : SUBSET Events, want : SUBSET Events,
     paused : BOOLEAN, late : BOOLEAN,
     owed : 0 .. Limit, unseen : 0 .. Limit, inbox : 0 .. Backlog, tls : 0 .. Backlog]

Nothing ==
    [sock |-> "none", mask |-> {}, watch |-> {}, want |-> {}, paused |-> FALSE,
     late |-> FALSE, owed |-> 0, unseen |-> 0, inbox |-> 0, tls |-> 0]

Gone == [Nothing EXCEPT !.sock = "gone"]

Fail == IF RegisterFails THEN BOOLEAN ELSE {FALSE}

-----------------------------------------------------------------------------
(***************************************************************************)
(* One connection                                                          *)
(***************************************************************************)
WantedEvents(k) ==
    IF k.sock = "shaking" THEN k.want
    ELSE {e \in Events : IF e = "r" THEN ~k.paused ELSE k.owed > 0}

\* close() from within: the server does not know yet.
Shut(k) == [k EXCEPT !.sock = "shut", !.mask = {}, !.watch = {}, !.tls = 0]

\* update_interest(): a socket that cannot be re-armed is closed; one that was
\* never registered cannot be.
UpdateInterest(k, fails) ==
    LET want == WantedEvents(k) IN
    IF k.sock = "shut" \/ want = k.mask THEN k
    ELSE IF fails \/ k.mask # k.watch THEN Shut(k)
    ELSE [k EXCEPT !.mask = want, !.watch = want]

\* (Mutant: what does not fit is discarded.)
QueueWhatFits(k) ==
    IF k.sock = "shut" THEN k
    ELSE IF k.owed + 1 > Limit THEN [k EXCEPT !.unseen = @ + 1]
    ELSE [k EXCEPT !.owed = @ + 1, !.unseen = @ + 1,
                   !.late = @ /\ (k.owed > 0 \/ k.sock = "shaking")]

\* send(). unseen is what the client was meant to get and has not got.
Queue(k) ==
    IF k.sock = "shut" THEN k
    ELSE IF k.owed + 1 > Limit THEN Shut(k)
    ELSE [k EXCEPT !.owed = @ + 1, !.unseen = @ + 1,
                   !.late = @ /\ (k.owed > 0 \/ k.sock = "shaking")]

\* What Server.send() and send_signal_report() do with each connection.
Buffer(k, fails) == UpdateInterest(Queue(k), fails)

SetReadPaused(k, paused, fails) ==
    IF k.paused = paused THEN k
    ELSE UpdateInterest([k EXCEPT !.paused = paused], fails)

Keep(k) == [con |-> k, drop |-> FALSE]
Drop(k) == [con |-> k, drop |-> TRUE]

\* _flush(): some of it leaves, or none when the client takes nothing, or its
\* end is closed, which the first write need not notice.
Flush(c, k, fails) ==
    IF k.owed = 0 \/ k.sock = "shut" THEN {Keep(UpdateInterest(k, fails))}
    ELSE {Keep(UpdateInterest(
            IF n = 0 THEN k
            ELSE [k EXCEPT !.owed = @ - n, !.unseen = @ - n, !.late = FALSE], fails)) :
              n \in IF peer[c] = "slow" THEN {0} ELSE 1 .. k.owed}
         \cup {Drop(k) : x \in {peer[c]} \cap {"left"}}

\* What recv() leaves when it gives something: of a stream it takes a piece, of
\* TLS the first piece of a record, whose rest only pending() tells of.
Received(k) ==
    {[k EXCEPT !.inbox = @ - n, !.tls = n - 1] :
        n \in {m \in 1 .. k.inbox : k.sock = "open" /\ (Protocol = "TLS" \/ m = 1)}}

\* (Mutant: a connection that is held back is not read on.)
PendingUnlessPaused(k) == k.tls > 0 /\ ~k.paused

Pending(k) == k.tls > 0

\* _read() when recv() gives nothing, or the connection has ended or is lost.
NotReceived(c, k, fails) ==
    IF k.sock = "shut" THEN {Drop(k)}
    ELSE {Keep(UpdateInterest(k, fails)) : x \in {0} \cap {k.inbox}}
         \cup {Drop(k) : x \in {peer[c]} \cap {"left"}}

\* _handshake(): it needs to read, or to write, or is refused, or is done and
\* the device opens for it, or not. The send timeout takes over from the
\* handshake's.
Handshake(c, k, fails) ==
    LET heard == [k EXCEPT !.inbox = IF @ > 0 THEN @ - 1 ELSE 0]
        done == {UpdateInterest([heard EXCEPT !.sock = "open", !.want = {},
                                              !.late = late], fails) :
                   late \in {FALSE, k.late /\ k.owed > 0}}
    IN
    IF k.sock = "shut" THEN {Drop(k)}
    ELSE {Keep(UpdateInterest([heard EXCEPT !.want = {"r"}], fails))}
         \cup {Drop(k) : x \in {peer[c]} \cap {"left"}}
         \cup IF k.inbox = 0 /\ k.want = {"r"} THEN {}
              ELSE {Keep(UpdateInterest([heard EXCEPT !.want = {"w"}], fails)), Drop(k)}
                   \cup {Keep(r) : r \in done} \cup {Drop(r) : r \in done}

-----------------------------------------------------------------------------
(***************************************************************************)
(* The server                                                              *)
(***************************************************************************)
\* What became of a connection that was served; one that is dropped is
\* forgotten by its socket, which one that is shut has no more.
Put(c, out) ==
    /\ con' = [con EXCEPT ![c] = IF out.drop THEN Gone ELSE out.con]
    /\ tracked' = IF out.drop THEN tracked \ {c} ELSE tracked
    /\ known' = IF out.drop /\ out.con.sock # "shut" THEN known \ {c} ELSE known

\* All of these are dropped at once.
DropAll(who) ==
    /\ con' = [c \in Clients |-> IF c \in who THEN Gone ELSE con[c]]
    /\ tracked' = tracked \ who
    /\ known' = known \ {c \in who : con[c].sock # "shut"}

Ready(c) ==
    {e \in con[c].watch :
       IF e = "r" THEN con[c].inbox > 0 \/ peer[c] = "left" ELSE peer[c] # "slow"}

Queued == {c \in Clients : con[c].sock = "queued"}

Select ==
    /\ phase = "select" /\ reading = {}
    /\ phase' = "serve"
    /\ batch' = [c \in Clients |-> Ready(c)]
    /\ knock' = (listener = "watched" /\ Queued # {})
    /\ UNCHANGED <<listener, scarce, behind, con, peer, tracked, known, reading>>

\* handle_event() for a connection, which an earlier event of the same batch
\* may have closed.
Dispatch(c) ==
    /\ phase = "serve" /\ reading = {} /\ batch[c] # {}
    /\ batch' = [batch EXCEPT ![c] = {}]
    /\ \E fails \in Fail, again \in Fail :
         IF c \notin known THEN UNCHANGED <<con, tracked, known, reading>>
         ELSE IF con[c].sock \notin {"shaking", "open"} THEN
           Put(c, [con |-> con[c], drop |-> con[c].sock = "shut"]) /\ UNCHANGED reading
         ELSE IF con[c].sock = "shaking" THEN
           \E out \in Handshake(c, con[c], fails) : Put(c, out) /\ UNCHANGED reading
         ELSE
           \E flushed \in IF "w" \in batch[c] THEN Flush(c, con[c], fails) ELSE {Keep(con[c])} :
             IF "r" \in batch[c] /\ ~flushed.drop
               THEN \/ \E k \in Received(flushed.con) : Put(c, Keep(k)) /\ reading' = {c}
                    \/ \E out \in NotReceived(c, flushed.con, again) :
                         Put(c, out) /\ UNCHANGED reading
               ELSE Put(c, flushed) /\ UNCHANGED reading
    /\ UNCHANGED <<listener, scarce, behind, peer, phase, knock>>

\* _read() between two pieces: on_received() may have answered, or held the
\* server back, or lost the device. It goes on while pending() says so, and
\* then re-arms a connection that is still there.
ReadOn(c) ==
    /\ c \in reading
    /\ IF con[c].sock = "open" /\ Pending(con[c])
         THEN con' = [con EXCEPT ![c].tls = @ - 1] /\ UNCHANGED reading
         ELSE /\ reading' = {}
              /\ \/ /\ con[c].sock = "open"
                    /\ \E fails \in Fail : con' = [con EXCEPT ![c] = UpdateInterest(@, fails)]
                 \/ con[c].sock # "open" /\ UNCHANGED con
    /\ UNCHANGED <<listener, scarce, behind, peer, tracked, known, phase, batch, knock>>

\* on_received() answers a control command: its connection is not re-armed
\* before _read() is done.
Answer(c) ==
    /\ c \in reading /\ con[c].sock = "open"
    /\ con' = [con EXCEPT ![c] = Queue(@)]
    /\ UNCHANGED <<listener, scarce, behind, peer, tracked, known, loopVars>>

\* (Mutant: who joins a server that is held back is read at once.)
JoinReading(k, fails, again) ==
    [k EXCEPT !.mask = {"r"}, !.watch = IF fails THEN {} ELSE {"r"}]

\* _add_connection(): attach(), which raises when the selector refuses, and
\* what comes after it if it does not.
Join(k, fails, again) ==
    LET attached == [k EXCEPT !.mask = {"r"}, !.watch = IF fails THEN {} ELSE {"r"}] IN
    IF behind /\ ~fails THEN SetReadPaused(attached, TRUE, again) ELSE attached

\* What a new connection is like: a TELNET one has its negotiation to send.
Fresh(k) ==
    CASE Protocol = "TLS"    -> [k EXCEPT !.sock = "shaking", !.want = {"r"}]
      [] Protocol = "TELNET" -> [k EXCEPT !.sock = "open", !.owed = 1, !.unseen = 1]
      [] OTHER               -> [k EXCEPT !.sock = "open"]

HasRoom == MaxConnections = 0 \/ Cardinality(tracked) < MaxConnections

\* _client_connect(), of a client that is let in: the address is not filtered,
\* the limits leave room and the device opens, unless there is a handshake
\* first, of which the first step is made at once.
Admit(c) ==
    \E fails \in Fail, again \in Fail, more \in Fail :
      LET k == Join(Fresh(con[c]), fails, again) IN
      /\ HasRoom
      /\ \E out \in IF Protocol = "TLS" /\ ~fails THEN Handshake(c, k, more) ELSE {Keep(k)} :
           /\ con' = [con EXCEPT ![c] = IF out.drop THEN Gone ELSE out.con]
           /\ tracked' = IF out.drop THEN tracked ELSE tracked \cup {c}
           /\ known' = IF out.drop /\ out.con.sock # "shut" THEN known ELSE known \cup {c}
      /\ UNCHANGED listener

\* It is turned away: by the filter or the limit, because the device does not
\* open, or because the TLS connection can not be made (TlsHandshakeError: what
\* becomes of the device then is SerialPort's TlsRefused).
Refuse(c) ==
    /\ con' = [con EXCEPT ![c] = Gone]
    /\ UNCHANGED <<tracked, known, listener>>

\* The event of the listening socket. Without descriptors accept() fails, and
\* the socket is not watched for a while.
Accept ==
    /\ phase = "serve" /\ reading = {} /\ knock
    /\ knock' = FALSE
    /\ IF listener = "watched" /\ scarce
         THEN listener' = "cooling" /\ UNCHANGED <<con, tracked, known>>
         ELSE \/ listener # "closed" /\ \E c \in Queued : Admit(c) \/ Refuse(c)
              \/ Queued = {} /\ UNCHANGED <<con, tracked, known, listener>>
    /\ UNCHANGED <<scarce, behind, peer, phase, batch, reading>>

\* (Mutant: only a handshake can.)
StaleHandshake(c) == con[c].late /\ con[c].sock = "shaking"

Stale(c) == con[c].late /\ (con[c].sock = "shaking" \/ con[c].owed > 0)

\* process_stale(): the listening socket is watched again, those who closed
\* themselves and those who take too long are dropped.
Tick ==
    /\ phase = "serve" /\ reading = {} /\ ~knock /\ \A c \in Clients : batch[c] = {}
    /\ phase' = "select"
    /\ listener' \in IF listener = "cooled" THEN {"watched"} \cup {"deaf" : f \in Fail \ {FALSE}}
                     ELSE {listener}
    /\ DropAll({c \in tracked : con[c].sock = "shut" \/ Stale(c)})
    /\ UNCHANGED <<scarce, behind, peer, batch, knock, reading>>

\* send(): the device says something. Whether it is open is not this server's
\* business alone: clients of the port's other servers hold it open as well.
Send ==
    /\ phase = "serve" /\ tracked # {}
    /\ \E failing \in IF RegisterFails THEN SUBSET tracked ELSE {{}} :
         con' = [c \in Clients |->
                   IF c \in tracked THEN Buffer(con[c], c \in failing) ELSE con[c]]
    /\ UNCHANGED <<listener, scarce, behind, peer, tracked, known, loopVars>>

\* set_read_paused(): the device falls behind, or has caught up.
Pause ==
    /\ phase = "serve"
    /\ behind' = ~behind
    /\ \E failing \in IF RegisterFails THEN SUBSET tracked ELSE {{}} :
         con' = [c \in Clients |->
                   IF c \in tracked THEN SetReadPaused(con[c], behind', c \in failing)
                   ELSE con[c]]
    /\ UNCHANGED <<listener, scarce, peer, tracked, known, loopVars>>

\* on_serial_lost(): the device is gone, and its clients with it.
Lost ==
    /\ phase = "serve" /\ tracked # {}
    /\ DropAll(tracked)
    /\ UNCHANGED <<listener, scarce, behind, peer, loopVars>>

\* disconnect_client()
Disconnect(c) ==
    /\ phase = "serve" /\ reading = {} /\ c \in tracked
    /\ DropAll({c})
    /\ UNCHANGED <<listener, scarce, behind, peer, loopVars>>

\* close()
Close ==
    /\ phase = "serve" /\ reading = {} /\ listener # "closed"
    /\ listener' = "closed"
    /\ DropAll(tracked \cup Queued)
    /\ UNCHANGED <<scarce, behind, peer, loopVars>>

-----------------------------------------------------------------------------
(***************************************************************************)
(* The clients, the kernel and the clock                                   *)
(***************************************************************************)
serverVars == <<listener, scarce, behind, tracked, known, loopVars>>

Arrive(c) ==
    /\ con[c].sock = "none" /\ listener # "closed"
    /\ con' = [con EXCEPT ![c].sock = "queued"]
    /\ peer' = [peer EXCEPT ![c] = "there"]
    /\ UNCHANGED serverVars

Talk(c) ==
    /\ con[c].sock \in {"queued", "shaking", "open"} /\ peer[c] # "left"
    /\ con[c].inbox < Backlog
    /\ con' = [con EXCEPT ![c].inbox = @ + 1]
    /\ UNCHANGED <<peer, serverVars>>

\* It stops taking what it is sent, takes it again, or leaves.
Change(c) ==
    /\ con[c].sock \in {"queued", "shaking", "open"} /\ peer[c] # "left"
    /\ \E to \in {"there", "slow", "left"} \ {peer[c]} : peer' = [peer EXCEPT ![c] = to]
    /\ UNCHANGED <<con, serverVars>>

Descriptors ==
    /\ scarce' = ~scarce
    /\ UNCHANGED <<listener, behind, con, peer, tracked, known, loopVars>>

\* ACCEPT_COOLDOWN is over.
Cool ==
    /\ listener = "cooling"
    /\ listener' = "cooled"
    /\ UNCHANGED <<scarce, behind, con, peer, tracked, known, loopVars>>

\* A timeout passes: that of a handshake, or that of a client to whom nothing
\* was written for as long. The loop comes to those it is told of sooner.
Elapse(c) ==
    /\ c \in tracked \ reading /\ ~con[c].late
    /\ \/ con[c].sock = "shaking"
       \/ con[c].sock = "open" /\ con[c].owed > 0 /\ "w" \notin Ready(c) \cup batch[c]
    /\ con' = [con EXCEPT ![c].late = TRUE]
    /\ UNCHANGED <<peer, serverVars>>

Init ==
    /\ listener = "watched" /\ scarce = FALSE /\ behind = FALSE
    /\ con = [c \in Clients |-> Nothing]
    /\ peer = [c \in Clients |-> "there"]
    /\ tracked = {} /\ known = {}
    /\ phase = "select" /\ batch = [c \in Clients |-> {}] /\ knock = FALSE
    /\ reading = {}

Next ==
    \/ Select \/ Accept \/ Tick \/ Send \/ Pause \/ Lost \/ Close
    \/ Descriptors \/ Cool
    \/ \E c \in Clients :
         \/ Dispatch(c) \/ ReadOn(c) \/ Answer(c) \/ Disconnect(c)
         \/ Arrive(c) \/ Talk(c) \/ Change(c) \/ Elapse(c)

Spec == Init /\ [][Next]_vars

\* The loop goes on, and so does time.
FairSpec ==
    /\ Spec
    /\ WF_vars(Select) /\ WF_vars(Accept) /\ WF_vars(Tick) /\ WF_vars(Cool)
    /\ \A c \in Clients :
         WF_vars(Dispatch(c)) /\ WF_vars(ReadOn(c)) /\ SF_vars(Elapse(c))

-----------------------------------------------------------------------------
Served(c) == c \in tracked /\ con[c].sock \in {"shaking", "open"}

TypeOK ==
    /\ listener \in {"watched", "cooling", "cooled", "deaf", "closed"}
    /\ scarce \in BOOLEAN /\ behind \in BOOLEAN /\ knock \in BOOLEAN
    /\ con \in [Clients -> Connection]
    /\ peer \in [Clients -> {"there", "slow", "left"}]
    /\ tracked \subseteq {c \in Clients : con[c].sock \in {"shaking", "open", "shut"}}
    /\ known \subseteq Clients
    /\ phase \in {"select", "serve"}
    /\ batch \in [Clients -> SUBSET Events]
    /\ reading = {} \/ \E c \in Clients : reading = {c}

\* The selector watches each connection for exactly what there is to do: what
\* the handshake waits for, reading unless the server is held back, and writing
\* while something is owed (update_interest, attach, set_read_paused). That
\* holds as well for what a connection is owed in answer to what it said, once
\* that has been read.
InterestFollows ==
    \A c \in Clients \ reading : Served(c) =>
        con[c].watch =
          IF con[c].sock = "shaking" THEN con[c].want
          ELSE {e \in Events : IF e = "r" THEN ~behind ELSE con[c].owed > 0}

\* Who is still connected has got everything that was sent to it, or will: a
\* stream has no holes (send, flush).
NoHoles ==
    \A c \in Clients : Served(c) => con[c].unseen = con[c].owed

\* What has been read off a TLS connection is passed on before the loop turns
\* to anything else, whatever on_received() does in between: select() will not
\* say that there is more, and a connection that is held back is not read
\* (_read, pending).
NothingStranded ==
    \A c \in Clients \ reading : Served(c) => con[c].tls = 0

\* A client runs into the send timeout only if it does not take what it is sent
\* (is_stale).
OnlyTheSlowTimeOut ==
    [][\A c \in Clients :
         con[c].sock = "open" /\ ~con[c].late /\ con'[c].late => peer[c] # "there"]_vars

\* Who is on the list is watched, or held back with nothing to be told
\* (_add_connection).
TrackedAreWatched ==
    \A c \in Clients :
        Served(c) /\ con[c].watch = {} => con[c].paused /\ con[c].owed = 0

\* Whoever is dropped is forgotten (_remove_connection).
DroppedAreForgotten == known \subseteq tracked

\* Nothing is buffered while a handshake goes on (is_stale).
NothingOwedWhileShaking ==
    \A c \in Clients : con[c].sock = "shaking" => con[c].owed = 0

\* A server that could not accept listens again (_pause_accepting).
ListensAgain ==
    listener = "cooling" ~> listener \in {"watched", "closed"}

\* A client that takes nothing is dropped, however long it stays.
SlowAreDropped ==
    \A c \in Clients :
        ~<>[](Served(c) /\ con[c].owed > 0 /\ peer[c] = "slow")

\* A handshake that never finishes does not hold its slot (is_stale).
HandshakesEnd ==
    \A c \in Clients : con[c].sock = "shaking" ~> con[c].sock # "shaking"

\* A connection that closed itself leaves the list (process_stale).
ShutAreReaped ==
    \A c \in Clients : con[c].sock = "shut" ~> con[c].sock = "gone"

\* What a client says is read while the device keeps up.
SaidIsRead ==
    \A c \in Clients :
        ~<>[](con[c].sock = "open" /\ con[c].inbox = Backlog /\ ~behind)
=============================================================================
