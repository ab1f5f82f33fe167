---------------------------- MODULE StatusStream ----------------------------
(***************************************************************************)
(* The live status of the ports: HttpServerWrapper's NDJSON streams and    *)
(* what a page makes of their lines.                                       *)
(*                                                                         *)
(* The server compares the ports with what it last delivered to each       *)
(* stream and sends the difference; the page keeps a copy and applies it.  *)
(* Meanwhile ports are reconfigured, and the accounts behind the streams   *)
(* change: `right` is what SessionManager.session_state() would answer for *)
(* a credential (module Accounts says how that comes about).               *)
(***************************************************************************)
EXTENDS Naturals, Sequences, FiniteSets, SequencesExt

CONSTANTS
    Pages, Credentials,
    NoCredential,    \* a page opened while authentication was off
    PortIds, States, \* a port, and everything about it that changes
    MaxReported,     \* bound on the ports
    Watched,         \* the port (or endpoint) a filtered stream asks for
    Modes,           \* the kinds of stream: "all", "filter"
    Demotions        \* whether an account can be other than an admin

ASSUME StatusStreamAssumption ==
    /\ NoCredential \notin Credentials
    /\ Watched \in PortIds /\ MaxReported \in Nat
    /\ Modes \subseteq {"all", "filter"} /\ Demotions \in BOOLEAN

VARIABLES
    ports,    \* what _build_ports_payload() reports
    right,    \* what each credential grants
    open,     \* whether authentication is off
    stream,   \* _stream_clients, by page
    page      \* what each page holds

statusVars == <<ports, right, open, stream, page>>

Port == [id : PortIds, state : States]
Off == [on |-> FALSE]
Missing == [id |-> "missing"]    \* no port; nothing delivered yet
Everything == <<Missing>>        \* last_ports is None: send all of it

ListedIds(list) == [i \in DOMAIN list |-> list[i].id]
Streaming(p) == stream[p].on
View(list) ==    \* _find_port_by_filter()
    IF \E i \in DOMAIN list : list[i].id = Watched
      THEN list[CHOOSE i \in DOMAIN list : list[i].id = Watched] ELSE Missing

Rights == IF Demotions THEN {"none", "user", "admin"} ELSE {"none", "admin"}
Granted(c) == c \in Credentials /\ right[c] # "none"
Admin(c) == c \in Credentials /\ right[c] = "admin"

-----------------------------------------------------------------------------
(***************************************************************************)
(* Subscribing: a full snapshot is the first line.                         *)
(***************************************************************************)
Subscribe(p, mode, c) ==
    LET admin == open \/ Admin(c) IN
    /\ ~Streaming(p) /\ ~page[p].gone
    /\ open \/ Granted(c)
    /\ stream' = [stream EXCEPT ![p] =
          [on |-> TRUE, mode |-> mode, with |-> c, admin |-> admin, quiet |-> FALSE,
           last |-> IF mode = "all" THEN ports ELSE <<View(ports)>>]]
    /\ page' = [page EXCEPT ![p] =
          [gone |-> FALSE, admin |-> admin,
           shows |-> IF mode = "all" THEN ports ELSE <<View(ports)>>]]
    /\ UNCHANGED <<ports, right, open>>

-----------------------------------------------------------------------------
(***************************************************************************)
(* One pass of _broadcast_status()                                         *)
(***************************************************************************)
\* (Mutant: once let in, always let in.)
StillStreaming(s) == TRUE

StillAuthorised(s) == open \/ Granted(s.with)

\* A changed admin flag makes the next line a snapshot, which carries it.
Rechecked(s) ==
    IF open \/ Admin(s.with) = s.admin THEN s
    ELSE [s EXCEPT !.admin = Admin(s.with),
                   !.last = IF s.mode = "all" THEN Everything ELSE <<Missing>>]

\* (Mutant: the same ports will do, in whatever order.)
SamePortSet(last, now) == last # Everything /\ ToSet(ListedIds(last)) = ToSet(ListedIds(now))

SamePortIds(last, now) == last # Everything /\ ListedIds(last) = ListedIds(now)

\* The page applies a delta to the port of that id, one line for each.
Patched(shown, last, now) ==
    LET changed == {now[i] : i \in {j \in DOMAIN now : last[j] # now[j]}} IN
    [i \in DOMAIN shown |->
        IF \E q \in changed : q.id = shown[i].id
          THEN CHOOSE q \in changed : q.id = shown[i].id ELSE shown[i]]

\* What a stream is sent and what its page then shows; whether it is sent
\* anything, which is how a closed socket is noticed.
LinesForAll(s, p) ==
    IF ~SamePortIds(s.last, ports)
      THEN [sent |-> TRUE, page |-> [p EXCEPT !.shows = ports, !.admin = s.admin]]
      ELSE [sent |-> s.last # ports,
            page |-> [p EXCEPT !.shows = Patched(@, s.last, ports)]]

LinesForOne(s, p) ==
    LET last == s.last[1]
        now  == View(ports)
    IN  CASE now = Missing /\ last # Missing ->
               [sent |-> TRUE, page |-> [p EXCEPT !.shows = <<Missing>>]]
          [] now # Missing /\ last = Missing ->
               [sent |-> TRUE, page |-> [p EXCEPT !.shows = <<now>>, !.admin = s.admin]]
          [] now # Missing /\ last # Missing /\ now # last ->
               [sent |-> TRUE, page |-> [p EXCEPT !.shows = <<now>>]]
          [] OTHER -> [sent |-> FALSE, page |-> p]

Heartbeat(s) == s.quiet

Pass(p) ==
    LET s == Rechecked(stream[p])
        lines == IF s.mode = "all" THEN LinesForAll(s, page[p]) ELSE LinesForOne(s, page[p])
        sent == lines.sent \/ Heartbeat(s)
    IN
    IF ~StillAuthorised(stream[p]) \/ (sent /\ page[p].gone)
      THEN [stream |-> Off, page |-> page[p]]
      ELSE [stream |-> [s EXCEPT !.quiet = @ /\ ~sent,
                                 !.last = IF s.mode = "all" THEN ports ELSE <<View(ports)>>],
            page |-> IF page[p].gone THEN page[p] ELSE lines.page]

Broadcast ==
    /\ \E p \in Pages : Streaming(p)
    /\ stream' = [p \in Pages |-> IF Streaming(p) THEN Pass(p).stream ELSE stream[p]]
    /\ page' = [p \in Pages |-> IF Streaming(p) THEN Pass(p).page ELSE page[p]]
    /\ UNCHANGED <<ports, right, open>>

\* More than 30 seconds since the last line.
Quiet(p) ==
    /\ Streaming(p) /\ ~stream[p].quiet
    /\ stream' = [stream EXCEPT ![p].quiet = TRUE]
    /\ UNCHANGED <<ports, right, open, page>>

-----------------------------------------------------------------------------
(***************************************************************************)
(* What goes on around it                                                  *)
(***************************************************************************)
Report(i, state) ==       \* a port opens, fails, gains a client...
    /\ i \in DOMAIN ports /\ ports[i].state # state
    /\ ports' = [ports EXCEPT ![i].state = state]
    /\ UNCHANGED <<right, open, stream, page>>

FreeIds == PortIds \ ToSet(ListedIds(ports))

Reconfigure ==            \* a port is added, renamed, removed or moved
    /\ \/ \E id \in FreeIds, state \in States :
             \/ /\ Len(ports) < MaxReported
                /\ ports' = Append(ports, [id |-> id, state |-> state])
             \/ \E i \in DOMAIN ports : ports' = [ports EXCEPT ![i].id = id]
       \/ \E i \in DOMAIN ports :
             \/ ports' = RemoveAt(ports, i)
             \/ \E j \in 1 .. Len(ports) : ports' = InsertAt(RemoveAt(ports, i), j, ports[i])
    /\ UNCHANGED <<right, open, stream, page>>

ChangeRight(c, r) ==      \* a session ends, an account changes
    /\ ~open /\ right[c] # r
    /\ right' = [right EXCEPT ![c] = r]
    /\ UNCHANGED <<ports, open, stream, page>>

Switch ==                 \* the first account is added, the last one deleted
    /\ open' = ~open
    /\ right' \in IF open THEN [Credentials -> Rights] ELSE {[c \in Credentials |-> "none"]}
    /\ UNCHANGED <<ports, stream, page>>

Leave(p) ==               \* the page is closed; its socket is found out later
    /\ ~page[p].gone /\ Streaming(p)
    /\ page' = [page EXCEPT ![p].gone = TRUE]
    /\ UNCHANGED <<ports, right, open, stream>>

Return(p) ==
    /\ page[p].gone /\ ~Streaming(p)
    /\ page' = [page EXCEPT ![p].gone = FALSE]
    /\ UNCHANGED <<ports, right, open, stream>>

-----------------------------------------------------------------------------
StatusInit ==
    /\ ports = <<>>
    /\ right = [c \in Credentials |-> "none"]
    /\ open = TRUE
    /\ stream = [p \in Pages |-> Off]
    /\ page = [p \in Pages |-> [gone |-> FALSE, admin |-> FALSE, shows |-> <<>>]]

StatusNext ==
    \/ \E p \in Pages :
          \/ \E mode \in Modes, c \in Credentials \cup {NoCredential} : Subscribe(p, mode, c)
          \/ Quiet(p) \/ Leave(p) \/ Return(p)
    \/ Broadcast
    \/ \E i \in DOMAIN ports, state \in States : Report(i, state)
    \/ Reconfigure \/ Switch
    \/ \E c \in Credentials, r \in Rights : ChangeRight(c, r)

StatusSpec == StatusInit /\ [][StatusNext]_statusVars

\* The loop makes a pass at least every TIMEOUT, and time passes.
StatusFairSpec ==
    StatusSpec /\ WF_statusVars(Broadcast) /\ \A p \in Pages : WF_statusVars(Quiet(p))

-----------------------------------------------------------------------------
StatusTypeOK ==
    /\ ports \in Seq(Port) /\ Len(ports) <= MaxReported
    /\ Cardinality(ToSet(ListedIds(ports))) = Len(ports)
    /\ right \in [Credentials -> Rights]
    /\ open \in BOOLEAN
    /\ \A p \in Pages :
          /\ stream[p] = Off \/ stream[p] \in
                [on : {TRUE}, mode : Modes, with : Credentials \cup {NoCredential},
                 admin : BOOLEAN, quiet : BOOLEAN,
                 last : Seq(Port) \cup {<<Missing>>}]
          /\ page[p].shows \in Seq(Port) \cup {<<Missing>>}

\* What a page shows is what the server takes for delivered, if it takes
\* anything for delivered: the differences that are sent add up, whatever was
\* moved, renamed, removed or put back.
PagesHoldDelivered ==
    \A p \in Pages : Streaming(p) /\ ~page[p].gone =>
        page[p].shows = stream[p].last \/ stream[p].last = <<Missing>>

Present(p) == Streaming(p) /\ ~page[p].gone

\* What a comment says of a filtered stream: its page is told once that the
\* port is gone, and the server takes note of nothing it has not told.
RemovalsTold ==
    \A p \in Pages : Present(p) /\ stream[p].last = <<Missing>> =>
        page[p].shows = <<Missing>>

UpToDate(p) ==
    page[p].shows = IF stream[p].mode = "all" THEN ports ELSE <<View(ports)>>

\* A page that stays catches up with the ports again and again; one that is
\* shown a single port may miss that it is gone (see RemovalsTold).
PagesCatchUp ==
    \A p \in Pages : []<>(Present(p) =>
        UpToDate(p) \/ (stream[p].mode = "filter" /\ View(ports) = Missing))

\* A page that stays is told what its account may do now.
PagesKnowRights ==
    \A p \in Pages : []<>(Present(p) /\ stream[p].mode = "all" /\ ~open
                             => page[p].admin = Admin(stream[p].with))

\* Nobody goes on reading a stream with a credential that grants nothing.
RevokedStreamsEnd ==
    \A p \in Pages : []<>(~Streaming(p) \/ open \/ Granted(stream[p].with))

\* A stream whose page is gone is let go of, also when nothing happens.
DeadStreamsEnd == \A p \in Pages : []<>(~(Streaming(p) /\ page[p].gone))
=============================================================================
