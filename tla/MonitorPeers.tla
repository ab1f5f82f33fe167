---------------------------- MODULE MonitorPeers ----------------------------
(***************************************************************************)
(* ServerMonitor's list of who is on a port. Every binary frame names its  *)
(* writer by a slot, one byte; what a slot means is told beforehand, in    *)
(* text frames on the same connection.                                     *)
(*                                                                         *)
(* Nobody reports clients to a monitor: it walks the port when the loop    *)
(* comes by, when a watcher arrives and when somebody writes whom it does  *)
(* not know. Telling the watchers is part of the walk, and a watcher that  *)
(* cannot be told is removed in the middle of it; with the last one, all   *)
(* that was kept is forgotten, under the hands of the walk.                *)
(***************************************************************************)
EXTENDS Integers, FiniteSets, SequencesExt

CONSTANTS
    Peers,      \* the clients of the port, over all its servers
    Watchers,
    LastSlot,   \* LAST_SLOT: slots are 1..LastSlot
    Faults      \* whether sending to a watcher may raise: what is tried of it

ASSUME MonitorPeersAssumption ==
    /\ LastSlot \in Nat \ {0} /\ Faults \subseteq BOOLEAN
    /\ IsFiniteSet(Peers)

VARIABLES
    present,    \* the port's clients, in the order a walk finds them
    slots,      \* _slots
    watching,   \* _connections
    view,       \* the peers on each watcher's page, with their slots
    line,       \* the last binary frame: its writer and its first byte
    dropped,    \* the watchers whose arrival raised: _drop_client() closed them
    sendsFail   \* whether sending may raise in this behaviour

monitorVars == <<present, slots, watching, view, line, dropped, sendsFail>>

Overflow == LastSlot + 1
Nobody == <<>>      \* no peers, no slots, no frame

Here == Range(present)

-----------------------------------------------------------------------------
(***************************************************************************)
(* Slots                                                                   *)
(***************************************************************************)
\* _free_slot()
FreeSlot(taken) == Min(((1 .. LastSlot) \ Range(taken)) \cup {Overflow})

\* Who has no slot yet gets one.
Joined(taken, p) ==
    IF p \in DOMAIN taken THEN taken
    ELSE [q \in DOMAIN taken \cup {p} |-> IF q = p THEN FreeSlot(taken) ELSE taken[q]]

\* ... in the order of the walk.
Assigned(taken, walk) ==
    LET after[n \in 0 .. Len(walk)] ==
            IF n = 0 THEN taken ELSE Joined(after[n - 1], walk[n])
    IN  after[Len(walk)]

\* _peer_list(): everyone, whether or not the walk has come to them.
PeerList(taken) == [p \in Here |-> IF p \in DOMAIN taken THEN taken[p] ELSE Overflow]

-----------------------------------------------------------------------------
(***************************************************************************)
(* The walk. Its outcome: the slots, who is still watching, whether they   *)
(* were told anything, and whether it came to its end.                     *)
(***************************************************************************)
Outcome(taken, left, told, whole) ==
    [slots |-> taken, watching |-> left, told |-> told, whole |-> whole]

Departed == (DOMAIN slots) \ Here
Arrived == Here \ (DOMAIN slots)
Staying == Restrict(slots, Here \cap DOMAIN slots)

\* Some watchers, but not all of them, are removed on the way.
WalksWithWatchers ==
    {Outcome(Assigned(Staying, present), left, TRUE, TRUE) :
        left \in IF sendsFail THEN (SUBSET watching) \ {{}} ELSE {watching}}

\* The last watcher cannot be told of a departure: what is kept is forgotten.
\* The next departure is not found there any more, which is an error; after
\* the last departure, everyone is taken for somebody new.
WalksCutByDeparture ==
    IF Departed = {} THEN {}
    ELSE {Outcome(Assigned(Nobody, present), {}, TRUE, TRUE)}
         \cup IF Cardinality(Departed) > 1 THEN {Outcome(Nobody, {}, TRUE, FALSE)} ELSE {}

\* ... or of an arrival: who is still to come is taken for somebody new.
WalksCutByArrival ==
    {Outcome(Assigned(Nobody, SubSeq(present, i + 1, Len(present))), {}, TRUE, TRUE) :
        i \in {j \in DOMAIN present : present[j] \in Arrived}}

\* _refresh_peers()
Walks ==
    IF Departed \cup Arrived = {} THEN {Outcome(slots, watching, FALSE, TRUE)}
    ELSE IF watching = {} THEN {Outcome(Assigned(Staying, present), {}, FALSE, TRUE)}
    ELSE WalksWithWatchers
         \cup IF sendsFail THEN WalksCutByDeparture \cup WalksCutByArrival ELSE {}

\* The last frame of a walk lists everybody, and replaces what a page held.
ViewsAfter(walk) ==
    [w \in Watchers |-> IF w \notin walk.watching THEN Nobody
                        ELSE IF walk.told THEN PeerList(walk.slots) ELSE view[w]]

-----------------------------------------------------------------------------
(***************************************************************************)
(* The port's clients                                                      *)
(***************************************************************************)
\* A name stands for a connection, and for another one once it is forgotten.
Arrive(p) ==
    /\ p \notin Here \cup DOMAIN slots /\ \A w \in watching : p \notin DOMAIN view[w]
    /\ \E i \in 1 .. Len(present) + 1 : present' = InsertAt(present, i, p)
    /\ line' = Nobody
    /\ UNCHANGED <<slots, watching, view, dropped, sendsFail>>

Depart(p) ==
    /\ \E i \in DOMAIN present : present[i] = p /\ present' = RemoveAt(present, i)
    /\ line' = Nobody
    /\ UNCHANGED <<slots, watching, view, dropped, sendsFail>>

\* The frame itself; as before, the last watcher may go.
Tagged(walk, p) ==
    \E left \in IF sendsFail THEN SUBSET walk.watching ELSE {walk.watching} :
        /\ watching' = left
        /\ slots' = IF walk.watching # {} /\ left = {} THEN Nobody ELSE walk.slots
        /\ view' = [w \in Watchers |-> IF w \in left THEN ViewsAfter(walk)[w] ELSE Nobody]
        /\ line' = IF left = {} THEN Nobody
                   ELSE [by |-> p, tag |-> IF p \in DOMAIN walk.slots THEN walk.slots[p]
                                           ELSE Overflow]

\* (Mutant: who is not known yet is not announced first.)
WriteUnannounced(p) ==
    /\ p \in Here /\ watching # {}
    /\ Tagged(Outcome(slots, watching, FALSE, TRUE), p)
    /\ UNCHANGED <<present, dropped, sendsFail>>

\* on_data() for what a client writes.
Write(p) ==
    /\ p \in Here /\ watching # {}
    /\ \E walk \in IF p \in DOMAIN slots THEN {Outcome(slots, watching, FALSE, TRUE)} ELSE Walks :
          IF walk.whole THEN Tagged(walk, p)
          ELSE /\ slots' = walk.slots /\ watching' = walk.watching
               /\ view' = ViewsAfter(walk) /\ line' = Nobody
    /\ UNCHANGED <<present, dropped, sendsFail>>

-----------------------------------------------------------------------------
(***************************************************************************)
(* The watchers                                                            *)
(***************************************************************************)
\* (Mutant: the greeting comes before the walk.)
WatchUnwalked(w) ==
    /\ w \notin watching
    /\ watching' = watching \cup {w}
    /\ view' = [view EXCEPT ![w] = PeerList(slots)]
    /\ line' = Nobody
    /\ UNCHANGED <<slots, present, dropped, sendsFail>>

\* add_connection(): whoever is already watching hears of the newcomers, and
\* then the watcher is greeted, unless it cannot be, or the walk raised.
StartWatching(w) ==
    /\ w \notin watching
    /\ \E walk \in Walks, greeted \in IF sendsFail THEN BOOLEAN ELSE {TRUE} :
          IF walk.whole /\ greeted THEN
             /\ watching' = walk.watching \cup {w}
             /\ slots' = walk.slots
             /\ view' = [ViewsAfter(walk) EXCEPT ![w] = PeerList(walk.slots)]
             /\ dropped' = dropped \ {w}
          ELSE
             /\ watching' = walk.watching
             /\ slots' = IF walk.watching = {} THEN Nobody ELSE walk.slots
             /\ view' = ViewsAfter(walk)
             /\ dropped' = IF walk.whole THEN dropped ELSE dropped \cup {w}
    /\ line' = Nobody
    /\ UNCHANGED <<present, sendsFail>>

StopWatching(w) ==
    /\ w \in watching
    /\ watching' = watching \ {w}
    /\ slots' = IF watching = {w} THEN Nobody ELSE slots
    /\ view' = [view EXCEPT ![w] = Nobody]
    /\ line' = Nobody
    /\ UNCHANGED <<present, dropped, sendsFail>>

\* (Mutant: arrivals are left to the next walk that finds a departure.)
TickDepartures ==
    /\ watching # {} /\ Departed # {}
    /\ \E walk \in Walks :
          slots' = walk.slots /\ watching' = walk.watching /\ view' = ViewsAfter(walk)
    /\ line' = Nobody
    /\ UNCHANGED <<present, dropped, sendsFail>>

\* process_stale()
Tick ==
    /\ watching # {}
    /\ \E walk \in Walks :
          slots' = walk.slots /\ watching' = walk.watching /\ view' = ViewsAfter(walk)
    /\ line' = Nobody
    /\ UNCHANGED <<present, dropped, sendsFail>>

\* port_gone(): the port is deleted or rebuilt, with its clients.
PortGone ==
    /\ present' = <<>> /\ watching' = {} /\ slots' = Nobody
    /\ view' = [w \in Watchers |-> Nobody]
    /\ line' = Nobody
    /\ UNCHANGED <<dropped, sendsFail>>

-----------------------------------------------------------------------------
MonitorInit ==
    /\ present = <<>> /\ watching = {} /\ slots = Nobody /\ line = Nobody
    /\ dropped = {} /\ sendsFail \in Faults
    /\ view = [w \in Watchers |-> Nobody]

MonitorNext ==
    \/ Tick \/ PortGone
    \/ \E p \in Peers : Arrive(p) \/ Depart(p) \/ Write(p)
    \/ \E w \in Watchers : StartWatching(w) \/ StopWatching(w)

MonitorSpec == MonitorInit /\ [][MonitorNext]_monitorVars

\* The loop never waits longer than its TIMEOUT, and walks after every wait.
MonitorFairSpec == MonitorSpec /\ WF_monitorVars(Tick)

-----------------------------------------------------------------------------
Slots == 1 .. Overflow

MonitorTypeOK ==
    /\ present \in Seq(Peers) /\ IsInjective(present)
    /\ DOMAIN slots \subseteq Peers /\ Range(slots) \subseteq Slots
    /\ watching \subseteq Watchers /\ dropped \subseteq Watchers \ watching
    /\ \A w \in Watchers : DOMAIN view[w] \subseteq Peers /\ Range(view[w]) \subseteq Slots
    /\ sendsFail \in Faults
    /\ line = Nobody \/ (line.by \in Here /\ line.tag \in Slots)

\* No two peers write under one slot.
SlotsTellApart ==
    \A p, q \in DOMAIN slots : slots[p] = slots[q] /\ slots[p] # Overflow => p = q

\* Every watcher that receives a frame knows by then whose it is: exactly one
\* peer on its page has that slot, and wrote it. Only who came when no slot
\* was left goes without a name, and the page says so (on_data).
FramesNameTheirWriter ==
    line # Nobody => \A w \in watching :
        IF line.tag = Overflow
          THEN line.by \in DOMAIN view[w] /\ view[w][line.by] = Overflow
          ELSE {p \in DOMAIN view[w] : view[w][p] = line.tag} = {line.by}

\* As far as the monitor finds nobody new and nobody gone, every page shows
\* everybody and nobody else, unless a watcher failed in the middle of telling
\* (_refresh_peers).
PagesComplete ==
    ~sendsFail /\ DOMAIN slots = Here => \A w \in watching : view[w] = slots

\* Who watches the port is greeted or gone, whatever becomes of the other
\* watchers (add_connection).
NewcomersGreeted == dropped = {}

\* A client that stays is shown to a watcher that stays.
PeersAreShown ==
    \A p \in Peers, w \in Watchers :
        p \in Here /\ w \in watching ~>
            p \in DOMAIN view[w] \/ p \notin Here \/ w \notin watching
=============================================================================
