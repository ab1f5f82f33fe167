----------------------------- MODULE PortConfig -----------------------------
(***************************************************************************)
(* The configuration, what runs from it, and the file it is kept in:       *)
(* HttpServerWrapper's handlers for ports and HTTP servers, the ids of     *)
(* config_ids, and what main() makes of the file at the next start.        *)
(*                                                                         *)
(* The configuration and the running objects are two lists paired by       *)
(* position. The loop runs one request at a time, so a request is one      *)
(* action; what can go wrong inside it is that something does not start,   *)
(* that putting the old one back fails too, or that saving fails.          *)
(***************************************************************************)
EXTENDS Naturals, Sequences, FiniteSets, SequencesExt

CONSTANTS
    Cores,       \* what an entry is, apart from Rests; also its name, and its slug
    Rests,       \* WebSocket endpoints of a port, or the settings of an HTTP
                 \* server that do not make it listen elsewhere
    MaxPorts,    \* bound on the ports
    MaxHttp,     \* bound on the HTTP servers
    Requests,    \* what clients send for each kind of entry
    Files,       \* the files the process is first started with
    StartFails,  \* whether an address can be taken by somebody else
    SaveFails    \* whether writing the file can fail

Kinds == {"ports", "http"}
Ids == Cores \X Nat   \* <<"a", 0>> is "a", <<"a", 1>> is "a-1"
NoId == <<>>
Entry == [id : Ids, core : Cores, rest : SUBSET Rests]
Unidentified == [id : {NoId}, core : Cores, rest : SUBSET Rests]
Nothing == [id |-> NoId]
Broken == [broken |-> TRUE]

ASSUME PortConfigAssumption ==
    /\ MaxPorts \in Nat /\ MaxHttp \in Nat
    /\ StartFails \in BOOLEAN /\ SaveFails \in BOOLEAN
    /\ \A k \in Kinds :
          /\ Requests[k] \subseteq Entry \cup Unidentified
          /\ \A f \in Files : f # Broken /\ f[k] \in Seq(Entry \cup Unidentified)

VARIABLES
    alive,     \* the process runs
    config,    \* _configuration: its entries by kind
    running,   \* _serial_proxies and HttpServerWrapper._servers
    monitors,  \* _monitor_servers: the port each was built for, by name
    disk,      \* the file
    saved,     \* whether the last writing of the file went through
    held       \* the entry an editor has read and not yet saved

file == <<disk, saved>>
vars == <<alive, config, running, monitors, file, held>>

(***************************************************************************)
(* Ids                                                                     *)
(***************************************************************************)
IdsOf(entries) == {entries[i].id : i \in DOMAIN entries} \ {NoId}
TakenIds(c) == IdsOf(c.ports) \cup IdsOf(c.http)

\* The slug, or the slug with the first number nobody answers to.
UniqueId(base, taken) ==
    <<base, CHOOSE n \in 0 .. Cardinality(taken) :
        /\ <<base, n>> \notin taken
        /\ \A m \in 0 .. n - 1 : <<base, m>> \in taken>>

\* An id is kept by the first entry that has it; the others, and those
\* without, are given one in the order of the file.
Keeps(entries, i) ==
    /\ entries[i].id # NoId
    /\ \A j \in 1 .. i - 1 : entries[j].id # entries[i].id

Kept(entries) == {entries[i].id : i \in {j \in DOMAIN entries : Keeps(entries, j)}}

GivenIds(entries) ==
    LET id[i \in DOMAIN entries] ==
            IF Keeps(entries, i) THEN entries[i].id
            ELSE UniqueId(entries[i].core, Kept(entries) \cup {id[j] : j \in 1 .. i - 1})
    IN  id

AssignIds(c) ==
    LET all == c.ports \o c.http
        id == GivenIds(all)
        given == [i \in DOMAIN all |-> [all[i] EXCEPT !.id = id[i]]]
    IN  [ports |-> SubSeq(given, 1, Len(c.ports)),
         http  |-> SubSeq(given, Len(c.ports) + 1, Len(given))]

\* The id an entry is written under: the one asked for unless it is in use,
\* the one it has, or a fresh one.
Claimable(wanted, current) ==
    wanted \in {NoId, current} \/ wanted \notin TakenIds(config)

Claim(data, current) ==
    IF data.id \notin {NoId, current} THEN data.id
    ELSE IF current # NoId THEN current ELSE UniqueId(data.core, TakenIds(config))

-----------------------------------------------------------------------------
(***************************************************************************)
(* Running objects                                                         *)
(*                                                                         *)
(* What an object was built from, whether it serves, says why it does not  *)
(* ("failed": FailedProxy, FailedHttpServer) or was closed and is still in *)
(* the list, and whether ServersManager drives it. A port that serves      *)
(* "partly" has servers in its list that are closed. `tag` tells one       *)
(* object from another built from the same entry.                          *)
(***************************************************************************)
Tags == 0 .. MaxPorts + 1
Object == [entry : Entry, state : {"up", "partly", "failed", "closed"},
           driven : BOOLEAN, tag : Tags]

FreshTag == CHOOSE t \in Tags : \A i \in DOMAIN running.ports : running.ports[i].tag # t

Built(entry, tag)  == [entry |-> entry, state |-> "up", driven |-> TRUE, tag |-> tag]
Failed(entry, tag) == [entry |-> entry, state |-> "failed", driven |-> TRUE, tag |-> tag]
Stopped(object)    ==
    [object EXCEPT !.state = IF @ = "failed" THEN @ ELSE "closed", !.driven = FALSE]

Serving(object) == object.state \in {"up", "partly"}

\* Whether what is being built starts.
Starting == IF StartFails THEN BOOLEAN ELSE {TRUE}

\* Endpoints are looked up in what runs: a port that failed has none, a server
\* that was closed and not put back still has its own.
UsedEndpoints(but) ==
    UNION {running.ports[i].entry.rest :
           i \in {j \in DOMAIN running.ports : j # but /\ Serving(running.ports[j])}}

\* (Mutant: a monitor is kept for the port that takes the name.)
KeepMonitor(name) == monitors

DropMonitor(name) == {m \in monitors : m.name # name}

\* What writing the file can leave behind: the new content, the old one if it
\* could not be opened, or half of it.
Written(c) == {c} \cup (IF SaveFails THEN {disk, Broken} ELSE {})
Save ==
    /\ disk' \in Written(config')
    /\ saved' = (disk' = config')

InList(k, i) == alive /\ i \in DOMAIN config[k]

SetEntry(k, i, e) == config' = [config EXCEPT ![k][i] = e]
SetObject(k, i, o) == running' = [running EXCEPT ![k][i] = o]

-----------------------------------------------------------------------------
(***************************************************************************)
(* Requests for ports                                                      *)
(***************************************************************************)
PortsAdd(data) ==
    LET e == [data EXCEPT !.id = Claim(data, NoId)] IN
    /\ alive /\ Len(config.ports) < MaxPorts
    /\ data.rest \cap UsedEndpoints(0) = {}
    /\ Claimable(data.id, NoId)
    /\ running' = [running EXCEPT !.ports = Append(@, Built(e, FreshTag))]
    /\ config' = [config EXCEPT !.ports = Append(@, e)]
    /\ Save
    /\ UNCHANGED <<alive, monitors, held>>

\* Only the servers differ, and there is something running to keep: the
\* running port is made to match. A port that was closed has no servers to
\* pair the old configuration with, and the request fails on that.
ServersOnly(i, e) ==
    /\ running.ports[i].state # "failed"
    /\ e = [config.ports[i] EXCEPT !.rest = e.rest]

Removes(i, e) == config.ports[i].rest \ e.rest # {}
Adds(i, e) == e.rest \ config.ports[i].rest # {}

\* reconcile_servers(): a server that is kept stays as it is, closed or not.
Reconciled(i, e) ==
    IF running.ports[i].state = "up" THEN {"up"}
    ELSE {"partly"} \cup (IF Removes(i, e) THEN {"up"} ELSE {})

\* When a new server does not start those that were removed for it are built
\* again: nothing has changed then, or one of them is left closed where it was.
UpdateServers(i, e, starts) ==
    /\ Serving(running.ports[i]) /\ e # config.ports[i]
    /\ \/ /\ starts
          /\ \E state \in Reconciled(i, e) :
               SetObject("ports", i, [running.ports[i] EXCEPT !.entry = e, !.state = state])
          /\ SetEntry("ports", i, e)
          /\ Save
       \/ /\ ~starts /\ Removes(i, e) /\ Adds(i, e)
          /\ SetObject("ports", i, [running.ports[i] EXCEPT !.state = "partly"])
          /\ UNCHANGED <<config, file>>
    /\ UNCHANGED monitors

\* Anything else closes the port and builds it again; if it does not start,
\* the old one is built again, and if that does not start either, the closed
\* one stays where it was. One that had failed still says why.
RebuildPort(i, e, starts, restarts) ==
    LET old == running.ports[i] IN
    /\ monitors' = DropMonitor(old.entry.core)
    /\ \/ /\ old.driven /\ starts
          /\ SetObject("ports", i, Built(e, FreshTag))
          /\ SetEntry("ports", i, e)
          /\ Save
       \/ /\ old.driven /\ ~starts
          /\ SetObject("ports", i,
                IF restarts THEN Built(old.entry, FreshTag) ELSE Stopped(old))
          /\ UNCHANGED <<config, file>>
       \/ \* ServersManager.remove_server() raises: the loop does not know it
          /\ ~old.driven
          /\ UNCHANGED <<config, running, file>>

PortsUpdate(i, data) ==
    LET e == [data EXCEPT !.id = Claim(data, config.ports[i].id)] IN
    /\ InList("ports", i)
    /\ data.rest \cap UsedEndpoints(i) = {}
    /\ Claimable(data.id, config.ports[i].id)
    /\ \E starts, restarts \in Starting :
          IF ServersOnly(i, e) THEN UpdateServers(i, e, starts)
                               ELSE RebuildPort(i, e, starts, restarts)
    /\ UNCHANGED alive

PortsDelete(i) ==
    /\ InList("ports", i)
    /\ monitors' = DropMonitor(running.ports[i].entry.core)
    /\ IF running.ports[i].driven
         THEN /\ running' = [running EXCEPT !.ports = RemoveAt(@, i)]
              /\ config' = [config EXCEPT !.ports = RemoveAt(@, i)]
              /\ Save
         ELSE UNCHANGED <<running, config, file>>
    /\ UNCHANGED <<alive, held>>

\* The first port of that name; its monitor, if there is one already.
Watch(i) ==
    LET name == running.ports[i].entry.core IN
    /\ InList("ports", i)
    /\ \A j \in 1 .. i - 1 : running.ports[j].entry.core # name
    /\ \A m \in monitors : m.name # name
    /\ monitors' = monitors \cup {[name |-> name, tag |-> running.ports[i].tag]}
    /\ UNCHANGED <<alive, config, running, file, held>>

-----------------------------------------------------------------------------
(***************************************************************************)
(* Requests for HTTP servers                                               *)
(***************************************************************************)
HttpAdd(data) ==
    LET e == [data EXCEPT !.id = Claim(data, NoId)] IN
    /\ alive /\ Len(config.http) < MaxHttp
    /\ Claimable(data.id, NoId)
    /\ running' = [running EXCEPT !.http = Append(@, Built(e, 0))]
    /\ config' = [config EXCEPT !.http = Append(@, e)]
    /\ Save
    /\ UNCHANGED <<alive, monitors, held>>

\* It is built again only if it has to listen elsewhere or otherwise; if that
\* fails the old one is, or a placeholder stands in for it.
HttpUpdate(i, data) ==
    LET old == config.http[i]
        e == [data EXCEPT !.id = Claim(data, old.id)]
    IN
    /\ InList("http", i)
    /\ Claimable(data.id, old.id)
    /\ \/ /\ e.core = old.core
          /\ SetEntry("http", i, e) /\ Save
          /\ UNCHANGED running
       \/ /\ e.core # old.core
          /\ SetObject("http", i, Built(e, 0))
          /\ SetEntry("http", i, e) /\ Save
       \/ /\ e.core # old.core
          /\ FALSE \in Starting
          /\ \E o \in {Built(old, 0), Failed(old, 0)} : SetObject("http", i, o)
          /\ UNCHANGED <<config, file>>
    /\ UNCHANGED <<alive, monitors>>

HttpDelete(i) ==
    /\ InList("http", i)
    /\ Len(config.http) > 1
    /\ running' = [running EXCEPT !.http = RemoveAt(@, i)]
    /\ config' = [config EXCEPT !.http = RemoveAt(@, i)]
    /\ Save
    /\ UNCHANGED <<alive, monitors, held>>

-----------------------------------------------------------------------------
\* Entry i, and the object paired with it, before or after entry j.
Moved(list, i, j, after) ==
    LET rest == RemoveAt(list, i)
        at == (IF j > i THEN j - 1 ELSE j) + (IF after THEN 1 ELSE 0)
    IN  InsertAt(rest, at, list[i])

\* (Mutant: only the configuration is put in the new order.)
MoveEntry(k, i, j, after) ==
    /\ InList(k, i) /\ j \in DOMAIN config[k] /\ i # j
    /\ config' = [config EXCEPT ![k] = Moved(@, i, j, after)]
    /\ config' # config
    /\ Save
    /\ UNCHANGED <<alive, running, monitors, held>>

\* (Mutant: the new order is not written down.)
MoveUnsaved(k, i, j, after) ==
    /\ InList(k, i) /\ j \in DOMAIN config[k] /\ i # j
    /\ config' = [config EXCEPT ![k] = Moved(@, i, j, after)]
    /\ running' = [running EXCEPT ![k] = Moved(@, i, j, after)]
    /\ config' # config
    /\ UNCHANGED <<alive, file, monitors, held>>

Move(k, i, j, after) ==
    /\ InList(k, i) /\ j \in DOMAIN config[k] /\ i # j
    /\ config' = [config EXCEPT ![k] = Moved(@, i, j, after)]
    /\ running' = [running EXCEPT ![k] = Moved(@, i, j, after)]
    /\ config' # config
    /\ Save
    /\ UNCHANGED <<alive, monitors, held>>

(***************************************************************************)
(* Editors: an entry is read with its revision, and saved with it later.   *)
(***************************************************************************)
Open(k, i) ==
    /\ InList(k, i) /\ held = Nothing
    /\ held' = config[k][i]
    /\ UNCHANGED <<alive, config, running, monitors, file>>

\* (Mutant: it is enough that there is an entry of that id.)
NoConflict(entry) == FALSE

\* The entry is found by the id that was read, and must say what it said.
\* (The revision is a digest of the content: equal revisions, equal content.)
RevConflict(entry) == entry # held

Submit(k, i, data) ==
    /\ InList(k, i) /\ held # Nothing /\ config[k][i].id = held.id
    /\ ~RevConflict(config[k][i])
    /\ IF k = "ports" THEN PortsUpdate(i, data) ELSE HttpUpdate(i, data)
    /\ held' = Nothing

Put(k, i, data) ==      \* a script that read nothing sends no revision
    /\ IF k = "ports" THEN PortsUpdate(i, data) ELSE HttpUpdate(i, data)
    /\ UNCHANGED held

Abandon ==
    /\ held # Nothing
    /\ held' = Nothing
    /\ UNCHANGED <<alive, config, running, monitors, file>>

-----------------------------------------------------------------------------
(***************************************************************************)
(* Starting and stopping                                                   *)
(***************************************************************************)
\* main() gives every entry an id and builds it; what does not start keeps
\* its place. Nothing is written: by the time HttpServerWrapper looks for
\* entries without an id, there are none.
Start ==
    LET c == AssignIds(disk) IN
    /\ ~alive /\ disk # Broken
    /\ alive' = TRUE
    /\ config' = c
    /\ \E up \in [Kinds -> [1 .. MaxPorts + MaxHttp -> Starting]] :
          running' = [k \in Kinds |-> [i \in DOMAIN c[k] |->
              LET tag == IF k = "ports" THEN i - 1 ELSE 0 IN
              IF up[k][i] THEN Built(c[k][i], tag) ELSE Failed(c[k][i], tag)]]
    /\ saved' = TRUE
    /\ UNCHANGED <<monitors, disk, held>>

\* The process ends, orderly or not. (A crash while the file is written is a
\* failing save that is followed by this.)
Stop ==
    /\ alive
    /\ alive' = FALSE
    /\ config' = [k \in Kinds |-> <<>>]
    /\ running' = [k \in Kinds |-> <<>>]
    /\ monitors' = {} /\ saved' = TRUE
    /\ UNCHANGED <<disk, held>>

Restore ==     \* somebody puts the file back
    /\ ~alive /\ disk = Broken
    /\ disk' \in Files /\ saved' = TRUE
    /\ UNCHANGED <<alive, config, running, monitors, held>>

-----------------------------------------------------------------------------
Init ==
    /\ alive = FALSE
    /\ config = [k \in Kinds |-> <<>>]
    /\ running = [k \in Kinds |-> <<>>]
    /\ monitors = {}
    /\ disk \in Files /\ saved = TRUE
    /\ held = Nothing

Next ==
    \/ \E data \in Requests.ports : PortsAdd(data)
    \/ \E data \in Requests.http : HttpAdd(data)
    \/ \E k \in Kinds : \E i \in DOMAIN config[k] :
          \/ \E data \in Requests[k] : Submit(k, i, data) \/ Put(k, i, data)
          \/ \E j \in DOMAIN config[k], after \in BOOLEAN : Move(k, i, j, after)
          \/ Open(k, i)
    \/ \E i \in DOMAIN config.ports : PortsDelete(i) \/ Watch(i)
    \/ \E i \in DOMAIN config.http : HttpDelete(i)
    \/ Abandon \/ Start \/ Stop \/ Restore

Spec == Init /\ [][Next]_vars

-----------------------------------------------------------------------------
TypeOK ==
    /\ alive \in BOOLEAN
    /\ \A k \in Kinds : config[k] \in Seq(Entry) /\ running[k] \in Seq(Object)
    /\ \A m \in monitors : m.name \in Cores /\ m.tag \in Tags
    /\ disk = Broken \/ \A k \in Kinds : disk[k] \in Seq(Entry \cup Unidentified)
    /\ held \in Entry \cup {Nothing}

\* The i-th running object was built from the i-th entry, through every
\* request, failure and rollback: everything below the id lookup relies on it.
\* (What an HTTP server does not listen differently for is not compared.)
Paired ==
    alive => \A k \in Kinds :
        /\ Len(running[k]) = Len(config[k])
        /\ \A i \in DOMAIN config[k] :
              IF k = "ports" THEN running[k][i].entry = config[k][i]
                             ELSE running[k][i].entry.core = config[k][i].core

\* Ports and HTTP servers share one namespace and no two entries answer to
\* the same id, whatever the file said and whatever was asked for.
IdsDistinct ==
    alive => LET all == config.ports \o config.http IN
             \A i, j \in DOMAIN all : all[i].id # NoId /\ (i # j => all[i].id # all[j].id)

\* While writing the file works, a restart brings back the configuration that
\* runs, every entry under the id it has now.
RestartKeepsConfig == alive /\ saved => disk # Broken /\ AssignIds(disk) = config

\* A cached monitor watches a port that is in the list, never one that was
\* closed and replaced under the same name.
MonitorsWatchListed ==
    \A m \in monitors : \E i \in DOMAIN running.ports :
        running.ports[i].tag = m.tag /\ running.ports[i].entry.core = m.name

\* A save that says which version it edited replaces that version and no
\* other, whatever was moved, renamed, deleted or saved in between.
NoLostUpdate ==
    [][held # Nothing /\ held' = Nothing /\ config' # config =>
         \A k \in Kinds : \A i \in DOMAIN config[k] :
            config[k][i] \in ToSet(config'[k]) \/ config[k][i] = held]_vars

\* What the documentation says of an entry that does not run: it stays in the
\* list and says why.
NotServingSaysWhy ==
    \A k \in Kinds : \A i \in DOMAIN running[k] : running[k][i].state # "closed"

\* What the documentation says of endpoints: one port answers to each.
EndpointsUnique ==
    \A i, j \in DOMAIN running.ports :
        i # j /\ Serving(running.ports[i]) /\ Serving(running.ports[j]) =>
            running.ports[i].entry.rest \cap running.ports[j].entry.rest = {}

\* What the documentation says of HTTP servers: a change takes effect without
\* a restart.
HttpRunsAsConfigured ==
    alive => \A i \in DOMAIN config.http :
        running.http[i].state = "up" => running.http[i].entry.rest = config.http[i].rest

\* What the documentation says of an entry that would not start: a save that
\* succeeds starts it there and then.
SaveStarts ==
    [][\A i \in DOMAIN config.http : i \in DOMAIN config'.http =>
         LET old == config.http[i]
             new == config'.http[i]
         IN  old # new /\ old.id = new.id => running'.http[i].state = "up"]_vars

\* What a comment says of ids given at start: they are written back.
IdsWrittenBack == alive => disk = config
=============================================================================
