------------------------------- MODULE Signals -------------------------------
(***************************************************************************)
(* The modem lines of a port and who is told about them: SerialProxy's     *)
(* polling, the reports of WebSocket endpoints and of the port's monitor,  *)
(* and what their pages make of the frames.                                *)
(*                                                                         *)
(* Everybody is handed the whole set on arrival and differences later, but *)
(* the differences are taken against what the endpoint, or the monitor,    *)
(* reported last, and the polling compares with what it read last.         *)
(***************************************************************************)
EXTENDS Functions, FiniteSets

CONSTANTS
    Lines, Endpoints, Clients, Watchers,
    Outputs,    \* the lines that are set, the others are read
    Reports,    \* the lines an endpoint's `control` reports
    At,         \* the endpoint of a client
    Debug,      \* whether the lines are sampled for the log
    Blips,      \* whether a line can change more than once between two samples
    Hasty       \* whether several clients come or go between two walks of the monitor

ASSUME SignalsAssumption ==
    /\ Reports \in [Endpoints -> SUBSET Lines] /\ At \in [Clients -> Endpoints]
    /\ Outputs \subseteq Lines /\ Debug \in BOOLEAN /\ Blips \in BOOLEAN /\ Hasty \in BOOLEAN
    /\ Clients \cap Watchers = {}

VARIABLES
    level,      \* the lines
    open,       \* whether the device is
    last,       \* _last_signals
    joined,     \* the clients that have been greeted
    reported,   \* ServerWebSocket._reported
    watching,   \* the monitor's connections
    told,       \* ServerMonitor._reported
    watched,    \* ServerMonitor._watched
    shown       \* the indicators on each page

vars == <<level, open, last, joined, reported, watching, told, watched, shown>>
audience == <<joined, watching>>

Nothing == <<>>    \* None, and a page without indicators

In(e) == {c \in joined : At[c] = e}

\* The lines reported where somebody is: _reported_signals(). As long as there
\* are any, the lines are polled: _signal_watchers().
LinesOf(clients) == UNION {Reports[At[c]] : c \in clients}
Watched == LinesOf(joined)
Polled == Watched # {}

\* (Mutant: the lines of a closed device are all off.)
CurrentAnyway(names) == IF open THEN Restrict(level, names) ELSE [l \in names |-> FALSE]

Current(names) == IF open THEN Restrict(level, names) ELSE Nothing

\* The lines that differ from what was said before, or were not said.
Difference(now, before) ==
    Restrict(now, {l \in DOMAIN now : l \notin DOMAIN before \/ before[l] # now[l]})

-----------------------------------------------------------------------------
(***************************************************************************)
(* Reports. A page merges what it is sent; a monitor's page takes an empty *)
(* set for the end of all indicators.                                      *)
(***************************************************************************)
Over(lines, before) ==
    [l \in DOMAIN lines \cup DOMAIN before |->
        IF l \in DOMAIN lines THEN lines[l] ELSE before[l]]

Merged(p, lines) == IF lines = Nothing THEN shown[p] ELSE Over(lines, shown[p])

Named(p) == IF p \in Watchers THEN Watched ELSE Reports[At[p]]

\* send_signal_report() of every endpoint and on_signals() of the monitor.
Report(signals) ==
    /\ reported' = [e \in Endpoints |-> Restrict(signals, Reports[e])]
    /\ told' = IF watching # {} /\ Watched # {} THEN Restrict(signals, Watched) ELSE told

\* What the pages make of it.
After(signals) ==
    [p \in Clients \cup Watchers |->
        IF p \in joined
          THEN Merged(p, Difference(Restrict(signals, Named(p)), reported[At[p]]))
        ELSE IF p \in watching
          THEN Merged(p, Difference(Restrict(signals, Named(p)), told))
        ELSE shown[p]]

Poll ==
    /\ open /\ (Polled \/ Debug)
    /\ last' = level
    /\ IF level # last /\ Polled THEN Report(level) /\ shown' = After(level)
       ELSE UNCHANGED <<reported, told, shown>>
    /\ UNCHANGED <<level, open, watched, audience>>

\* A line is set: set_rts(), set_dtr(). Everybody is told at once.
With(l, value) == [level EXCEPT ![l] = value]

SetLine(l, value) ==
    /\ open
    /\ level' = With(l, value) /\ last' = With(l, value)
    /\ Report(With(l, value))
    /\ UNCHANGED <<open, watched, audience>>

\* Of a line that its endpoint does not report a client hears what it asked for.
Answered(c, l, value, page) == Over([x \in {l} \ Reports[At[c]] |-> value], page)

Set(c, l, value) ==
    /\ c \in joined
    /\ SetLine(l, value)
    /\ shown' = [After(With(l, value)) EXCEPT ![c] = Answered(c, l, value, @)]

\* The device is closed or refuses, which the answer does not depend on.
SetInVain(c, l, value) ==
    /\ c \in joined
    /\ shown' = [shown EXCEPT ![c] = Answered(c, l, value, @)]
    /\ UNCHANGED <<level, open, last, reported, told, watched, audience>>

\* Over HTTP, by who need not be a client.
SetOverHttp(l, value) == SetLine(l, value) /\ shown' = After(With(l, value))

\* A line moves by itself; unless Blips, not twice between two samples.
Flip(l) ==
    /\ Blips \/ ~open \/ last = level \/ ~(Polled \/ Debug)
    /\ level' = [level EXCEPT ![l] = ~@]
    /\ UNCHANGED <<open, last, reported, told, watched, shown, audience>>

-----------------------------------------------------------------------------
(***************************************************************************)
(* The device                                                              *)
(***************************************************************************)
\* on_serial_found() and on_serial(): what everybody is told of a device that
\* was opened while the clients were there.
Found(clients) ==
    /\ open' = TRUE
    /\ reported' = [e \in Endpoints |-> Restrict(level, Reports[e])]
    /\ told' = IF watching # {} /\ LinesOf(clients) # {}
                 THEN Restrict(level, LinesOf(clients)) ELSE told

\* For a client of another kind.
Open ==
    /\ ~open
    /\ Found(joined)
    /\ shown' = [p \in Clients \cup Watchers |->
          IF p \in joined \cup watching THEN Merged(p, Restrict(level, Named(p))) ELSE shown[p]]
    /\ UNCHANGED <<level, last, watched, audience>>

Close ==
    /\ open
    /\ open' = FALSE
    /\ last' = Nothing
    /\ reported' = [e \in Endpoints |-> Nothing]
    /\ told' = IF watching # {} THEN Nothing ELSE told
    /\ shown' = [p \in Clients \cup Watchers |-> Nothing]
    /\ UNCHANGED <<level, watched, audience>>

-----------------------------------------------------------------------------
(***************************************************************************)
(* Those who are told                                                      *)
(***************************************************************************)
\* The monitor has seen who is there, or need not have.
Walked == Hasty \/ watching = {} \/ watched = Watched

\* Clients are attached on arrival, which opens the device if it can be.
JoinOpening(c) ==
    LET lines == LinesOf(joined \cup {c}) IN
    /\ c \notin joined /\ ~open /\ Walked
    /\ joined' = joined \cup {c}
    /\ Found(joined')
    /\ shown' = [p \in Clients \cup Watchers |->
          IF p \in watching THEN Merged(p, Restrict(level, lines))
          ELSE IF p \in joined' THEN Merged(p, Restrict(level, Reports[At[p]]))
          ELSE shown[p]]
    /\ UNCHANGED <<level, last, watching, watched>>

\* (Mutant: whoever joins sets what the others are supposed to know.)
JoinMoving(c) ==
    LET signals == Current(Reports[At[c]]) IN
    /\ c \notin joined /\ Walked
    /\ joined' = joined \cup {c}
    /\ reported' = [reported EXCEPT ![At[c]] = signals]
    /\ shown' = [shown EXCEPT ![c] = signals]
    /\ UNCHANGED <<level, open, last, watching, told, watched>>

Join(c) ==
    LET e == At[c]
        signals == Current(Reports[e])
    IN
    /\ c \notin joined /\ Walked
    /\ joined' = joined \cup {c}
    /\ reported' = [reported EXCEPT ![e] = IF @ = Nothing THEN signals ELSE @]
    /\ shown' = [shown EXCEPT ![c] = signals]
    /\ UNCHANGED <<level, open, last, watching, told, watched>>

Leave(c) ==
    /\ c \in joined /\ Walked
    /\ joined' = joined \ {c}
    /\ reported' = [reported EXCEPT ![At[c]] = IF In(At[c]) = {c} THEN Nothing ELSE @]
    /\ shown' = [shown EXCEPT ![c] = Nothing]
    /\ UNCHANGED <<level, open, last, watching, told, watched>>

Watch(w) ==
    LET signals == Current(Watched) IN
    /\ w \notin watching
    /\ watching' = watching \cup {w}
    /\ watched' = Watched
    /\ told' = IF told = Nothing THEN signals ELSE told
    /\ shown' = [shown EXCEPT ![w] = signals]
    /\ UNCHANGED <<level, open, last, joined, reported>>

Unwatch(w) ==
    /\ w \in watching
    /\ watching' = watching \ {w}
    /\ told' = IF watching = {w} THEN Nothing ELSE told
    /\ watched' = IF watching = {w} THEN {} ELSE watched
    /\ shown' = [shown EXCEPT ![w] = Nothing]
    /\ UNCHANGED <<level, open, last, joined, reported>>

\* The monitor follows the set of lines that is reported.
Refresh ==
    LET signals == Current(Watched) IN
    /\ watching # {}
    /\ watched' = Watched
    /\ told' = IF Watched = watched THEN told ELSE signals
    /\ shown' = [p \in Clients \cup Watchers |->
          IF p \notin watching \/ Watched = watched THEN shown[p]
          ELSE IF signals = Nothing THEN Nothing ELSE Merged(p, signals)]
    /\ UNCHANGED <<level, open, last, reported, audience>>

-----------------------------------------------------------------------------
Init ==
    /\ level \in [Lines -> BOOLEAN]
    /\ open = FALSE /\ last = Nothing
    /\ joined = {} /\ watching = {}
    /\ reported = [e \in Endpoints |-> Nothing]
    /\ told = Nothing /\ watched = {}
    /\ shown = [p \in Clients \cup Watchers |-> Nothing]

Next ==
    \/ Poll \/ Open \/ Close \/ Refresh
    \/ \E l \in Outputs, value \in BOOLEAN :
        \/ SetOverHttp(l, value)
        \/ \E c \in Clients : Set(c, l, value) \/ SetInVain(c, l, value)
    \/ \E l \in Lines \ Outputs : Flip(l)
    \/ \E c \in Clients : JoinOpening(c) \/ Join(c) \/ Leave(c)
    \/ \E w \in Watchers : Watch(w) \/ Unwatch(w)

Spec == Init /\ [][Next]_vars

-----------------------------------------------------------------------------
Readings == UNION {[D -> BOOLEAN] : D \in SUBSET Lines}

TypeOK ==
    /\ level \in [Lines -> BOOLEAN] /\ open \in BOOLEAN
    /\ last = Nothing \/ last \in [Lines -> BOOLEAN]
    /\ joined \subseteq Clients /\ watching \subseteq Watchers /\ watched \subseteq Lines
    /\ reported \in [Endpoints -> Readings]
    /\ \A e \in Endpoints : DOMAIN reported[e] \subseteq Reports[e]
    /\ told \in Readings
    /\ shown \in [Clients \cup Watchers -> Readings]

\* No page shows indicators for a device that is not open (on_serial_lost,
\* "the server answers with what it got", README_WS_API.md:241).
ClosedShowsNothing ==
    ~open => \A p \in Clients \cup Watchers : shown[p] = Nothing

\* The closing takes from every page the lines that are reported to it, and
\* nothing brings one back before the device is open again: not the greeting
\* of a newcomer, nor the walk of the monitor after the set of lines.
ClosedIsDark ==
    ~open => /\ \A w \in Watchers : shown[w] = Nothing
             /\ \A c \in Clients : DOMAIN shown[c] \cap Reports[At[c]] = {}

\* When a sample would find nothing new, every client shows every line of its
\* endpoint as it is: being told differences only, and only of what moved
\* since the last sample, is enough (process_signals, send_signal_report).
ClientsKnowLines ==
    open /\ last = level =>
        \A c \in joined : LET lines == Reports[At[c]] IN
            Restrict(shown[c], lines) = Restrict(level, lines)

\* Nor does a watcher then show a line other than it is, once the monitor has
\* followed the set of lines to those clients that come and go: if it is the only
\* one and they come and go one at a time (on_signals).
WatchersKnowLines ==
    open /\ last = level /\ watched = Watched =>
        \A w \in watching : \A l \in DOMAIN shown[w] \cap Watched : shown[w][l] = level[l]

\* When the monitor finds the set of lines as it told it, every watcher shows
\* those lines and no other: no indicator stays behind (_refresh_signals).
WatchersFollow ==
    watched = Watched =>
        \A w \in watching : DOMAIN shown[w] = IF open THEN Watched ELSE {}
=============================================================================
