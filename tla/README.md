# ser2tcp in TLA+

ser2tcp shares serial ports over TCP, TELNET, TLS, Unix sockets and WebSockets.
One process, one selector loop, many clients per device, and an HTTP API that
changes all of it while it runs. This directory holds TLA+ models of the
program, the TLC runs that check them on small instances, and TLAPS proofs of
what holds for every instance.

    tlc -config SocketServer.cfg MCSocketServer
    tlapm SocketServer_proofs.tla

Paths below are relative to `src/ser2tcp/` of the repository.

Contents: [the system](#the-system) · [the modules](#the-modules) ·
[the runs](#the-runs) · [departures](#where-the-code-departs-from-what-it-says) ·
[the proofs](#the-proofs) · [plan](#plan) · [not modelled](#not-modelled)

## The system

| Component | State it keeps | Operations | Hard part |
|---|---|---|---|
| Port ownership (`serial_proxy.py`) | `_serial`, `_announced_connected`, `_servers`, `_last_reopen` | `connect`, `disconnect`, `_announce_serial`, `_serial_failed`, `_reopen`, `reconcile_servers`, `close` | telling clients can remove them, which can close the device, which tells clients |
| Write queue (`serial_proxy.py`) | `_out_buffer`, `_read_paused`, `_serial_interest`, `_write_progress_at` | `send`, `flush_serial`, `_stalled`, `_update_backpressure` | holding back works only from the next `select()`; a stuck device; clients that come and go while held back |
| Reader thread (`serial_proxy.py`) | `_reader_running`, the socketpair | `_start_reader_thread`, `_serial_reader_run`, `_stop_reader_thread` | the one real thread; a bounded wait for it |
| Modem lines (`serial_proxy.py`, `server_websocket.py`, `server_monitor.py`) | `_last_signals`, `_reported`, `_watched` | `process_signals`, `set_rts`, `set_dtr`, `send_signal_report` | reports are differences; who joins late |
| Socket servers (`server.py`) | `_connections`, `_conn_by_socket`, the listener | `_client_connect`, `_handshake`, `_read`, `_flush`, `_remove_connection`, `process_stale`, `_pause_accepting` | a TLS handshake is a connection that is not yet a client; running out of descriptors |
| WebSocket endpoints (`server_websocket.py`) | `_connections`, `_attached`, `_greeted`, `_read_paused` | `add_connection`, `attach`, `detach`, `remove_connection`, `_send_hello`, broadcasts | connected, attached, greeted and held back are four different things |
| Connections (`connection*.py`) | output buffer, selector interest, clocks | `send`, `flush`, `recv`, `update_interest`, `is_stale` | watching for exactly what there is to do; decrypted bytes `select()` does not see |
| Protocol filters (`connection_telnet.py`, `connection_control.py`) | decoder state | `on_received`, `send`, `send_signal_report` | input cut anywhere; one stream for data and commands |
| Event loop (`server_manager.py`) | the selector, the servers | `process`, `_dispatch`, `_drop_client` | events of a batch whose owner is gone; several messages in one `recv()` |
| Monitors (`server_monitor.py`) | subscribers, slots of the peers | `add_connection`, `remove_connection`, `on_data`, `_refresh_peers`, `port_gone` | peers are noticed by a walk, which talks while it walks |
| HTTP API: ports, listeners, failed ports (`http_server.py`, `config_ids.py`) | the configuration, its file, the running objects | add, update, move, delete, save, start | pairing by position, rollback, a file written in place |
| Status stream (`http_server.py`) | `_stream_clients`, what each was last sent | subscribing, `_broadcast`, heartbeat | differences; rights that change under an open stream |
| Sessions and tokens (`http_auth.py`) | users, tokens, sessions, the configuration's block | login, expiry, account changes, migration | who may still administer; sessions of accounts that change |
| Certificates (`cert_manager.py`) | bundles on disk, live contexts | create, upload, delete, `build_tls_context`, `reload_tls_context` | several files, one after another, that others write too |
| IP filter, start-up, installer, web UI | – | – | see "Not modelled" |

How they meet: the loop hands an event to its owner (`handle_event`), a server
asks its port for the device (`connect`, `disconnect`, `send`,
`can_add_connection`), the port calls every server back (`on_serial_found`,
`on_serial_lost`, `send`, `set_read_paused`, `has_connections`), and a server
that cannot reach a client removes it, which asks the port again. After every
batch of events the loop calls `process_stale()` of every port and
`_broadcast()` of the API, and polls the modem lines. The API replaces ports,
servers and listeners between two events. Nothing runs concurrently except the
reader threads: the hard orders are nested calls, the order of events in one
batch, messages that arrive together, failures in the middle of a handler, what
the selector watches between two batches, and what happened since somebody was
last told.

What makes each part correct:

- ownership: the device is open exactly for those who hold it, everybody knows
  whether it is open, limits are kept, who waits gets it, the dead let go;
- write queue: marks are kept, whoever feeds a port that is behind is not read
  and whoever does not is, nothing is dropped, a stuck device is given up on;
- reader thread: what is heard of a device is what it said, since it was opened,
  in order, from no other; stopping is bounded;
- modem lines: what a client believes is what was last sampled;
- servers and connections: each client is watched for exactly what there is to
  do, a stream has no holes, who takes nothing is dropped, and nobody else is;
- filters: what is understood does not depend on how the input is cut, and what
  is sent can be told apart;
- monitors: who stays is shown, and every frame's writer is known to the page;
- configuration: the i-th configuration is that of the i-th running object, also
  after a failure; a restart finds what was saved; a save undoes nobody else's;
- streams and sessions: differences add up; nobody keeps what was taken away,
  and somebody can always administer;
- certificates: a running server has the key of its certificate and verifies
  whom it is to verify, whatever fails.

## The modules

A module models whole handlers: one action per entry from the loop, with every
call it makes. `PROJECT.json` maps each definition to the lines it translates.
An `MC` module gives a module's constants their values for TLC.

| Module | Of | Its state, in the code's terms |
|---|---|---|
| `SerialPort` | ownership of one port, its servers and clients | `stack`: the calls in progress; `conns`, `attached`, `greeted`, `device`, `announced`, ... |
| `WriteQueue` | the queue to the device and who feeds it | `backlog`, `armed`, `paused`, `held`, and the pass of the loop: `batch`, `current`, `budget` |
| `Link` | what a device promises its listeners (abstract) | `device`, `said`, `heard` |
| `ReaderThread` | thread, socketpair and loop; implements `Link` | `pc`, `on`, `held` per thread; `pair`, `running`, `serial`, ... |
| `Signals` | modem lines, endpoints' reports, monitors' indicators | `last`, `reported`, `told`, `watched`, and what each page shows |
| `SocketServer` | one socket server with its connections and the selector | `con[c]`: a connection; `tracked`, `known`; `phase`, `batch`, `knock`: the loop |
| `FilterStream` | both byte protocols, decoders and encoders | `wire`, `escape`, `state`, `frame`; `effects`, `said`, `outgoing` |
| `MonitorPeers` | a monitor's peers, slots, frames and watchers | `present`, `slots`, `watching`, `view` |
| `PortConfig` | configured ports and HTTP listeners, running ones, the file | `config`, `running`, `monitors`, `disk`, `saved`, `held` |
| `Accounts` | users, tokens, sessions, the configuration's auth block | `users`, `tokens`, `sessions`, `file` |
| `StatusStream` | streams of the port list to pages | `ports`, `right`, `stream`, `page` |
| `CertBundle` | bundles on disk, contexts, reloads | `disk`, `configured`, `context`, `todo`, `next` |

**SerialPort.** The code is single-threaded, so a handler is not interrupted;
but handlers nest, and the nested orders are where it can go wrong. `stack`
holds the calls in progress as frames. A handler (`WsArrives`, `DeviceFails`,
`Tick`, ...) starts on an empty stack; each `...Step` action executes the frame
on top, which is one call up to its next call, or what is left of one after a
nested call has returned. `attach()` is the frames `Connect, On("join", ...)`:
all of `connect()` and what it causes comes before the append to `_attached`.
`SendRaises` is what `ws_send()` does on a dead socket: raise `OSError`, or
swallow it and leave the client to be reaped. `gone` are the clients whose
socket is dead: a slot's socket is dead until the client arrives, so one that
was removed and is listed all the same counts as dead, as in the code.
`RebuildFails` lets a server of a new configuration fail to start, and
`PairFails` lets `socketpair()` raise in the middle of `connect()`:
`ConnectRaises` leaves the device open, not announced and not `readable`, so
that nothing tells of its loss either. `TlsRefused` is a TLS socket that cannot
be wrapped, which asks the port to let go. An exception that nothing on the
stack catches empties the stack, as the loop does; one out of a request also
costs the client its socket (`_drop_client`).

**WriteQueue.** `batch` is what `select()` returned and has not been served,
`current` and `budget` the client whose `recv()` is being served and how much of
it is left: holding a client back empties neither. A WebSocket client's requests
and data come out of the same `recv()`, so `Write`, `Detach` and `Attach` of one
client follow each other in any order and take from one budget. What nests is
one action here; the nested orders are SerialPort's subject. With `WatchFails`
the selector may refuse the device, or a change of what it is watched for
(`Interest`).

**ReaderThread and Link.** Each opening of the device starts a thread with a
socketpair of its own, and all of them share `_reader_running` and `_serial`, as
in the code. A thread is at its test, in its read, in its send or at its end;
the loop opens, reads the pair, waits (`joining`) and closes. `IsLink` is the
refinement: under `device <- the announced opening`, `said` and `heard` as kept,
every step is a step of `Link` or none of its business.

**SocketServer.** `Select` takes what `select()` would report of every
connection, each event is served by `Dispatch`, `Accept` serves the listener,
`Tick` is `process_stale()`; what the device does (`Send`, `Pause`, `Lost`) and
the API does (`Disconnect`, `Close`) comes between events of one batch, so that
an event can find its connection gone. Reading is a loop of the code and one of
the model: `Dispatch` takes the first piece, `ReadOn` the others of the record,
as long as `pending()` says so (`Pending`), and re-arms the connection at the
end. Between two pieces `on_received()` may have answered (`Answer`), or the
port may have held its servers back or lost the device (`Pause`, `Lost`). In a
connection, `mask` is what it thinks it registered and `watch` what the selector
watches: `update_interest()` decides from the first. `unseen` is a history of
what the client was meant to get and has not got; `tls` what has been decrypted
and not been read.

**FilterStream.** `Step` is the decoder byte by byte, `Parse` a `recv()`; the
client encodes a `script` of tokens (`Encode` is what a client who knows the
protocol sends) and the wire is cut anywhere. `effects` is what came of it, in
the same tokens, so that the reference definition is the script itself. A line
that is asked for may be refused, and then nothing is reported (`Receive`). In
the other direction `said` is a script of data and reports and `outgoing` the
bytes.

**PortConfig.** One definition serves ports and HTTP listeners where the code
repeats itself; they differ in what an edit restarts and what is rolled back.
An entry is an id, a core (what makes it start: device or address) and rests
(endpoints, or settings that need no restart). Of a running port only that it runs
is kept, that it failed with an error, or that some of its servers are closed
("partly"): an update of the servers that fails, and whose rollback does, leaves
the latter (`UpdateServers`). `Save` writes in place: with
`SaveFails` it may leave a broken file, and `saved` remembers that; `Start` reads
it or does not start. `held` is an edit that was begun at some revision.

**Accounts.** `SaveAccounts` is every path by which accounts reach the file,
`Restart` reads the file, with the migration from its old place. Sessions carry
the password of their opening as history. **StatusStream** compares, in
`Broadcast`, what a page was last sent with what is, and sends the difference
the code would; `page` adds up what arrived. **MonitorPeers** makes a walk one
action whose sends succeed or fail one by one, with the code's cut at the first
failure that removes the last watcher. **Signals** keeps the two caches of the
code and what each client holds; a line is set by a client (`Set`), over HTTP
(`SetOverHttp`), or in vain (`SetInVain`), and a client that asks for a line its
endpoint does not report is answered all the same (`Answered`). **CertBundle**
reloads in the code's steps, `Rehearse` and `Install`, between which others may
write if `Racing`; a file that is a symbolic link is removed before it is written,
so a write that fails may lose it (`SaveFiles`).

### Mutants

A definition whose comment says "Mutant" is a plausible bug in the definition
after it: a forgotten reset, a wrong comparison, a missing call. Nothing uses
it. Put in place of that definition it makes the property named in
`PROJECT.json` fail, which shows that the property is about the code.

## The runs

| Run | Instance | Shows |
|---|---|---|
| `SerialPort_quiet` | TCP and TLS server, two endpoints, one socket and three WebSocket clients, limits of 2 | `HeldWhileOpen`, `ClientsKnowDevice`, `SocketClientsHaveDevice`, `NewsOnly`, `DeadDoNotHold` |
| `SerialPort_failing` | a TLS server, two endpoints, sends, rebuilds and `socketpair()` that fail | `AnnouncementMatchesDevice`, `PortLimitKept`, `WaitersGetDevice` |
| `WriteQueue` | three clients, a socket server and an endpoint, marks at 1 and 2 | `ArmedWhileQueued`, `FeedersHeldBack`, `OnlyBehindHoldsBack`, `NothingDropped`, `ThreadStallNoticed` |
| `ReaderThread` | three openings, three units each, a socketpair for one | `OwnDevice`, `IsLink`, `LossNoticed` |
| `Signals` | two lines, two endpoints with a set each, three clients, two watchers | `ClientsKnowLines`, `ClosedIsDark` |
| `SocketServer` | two TLS clients, room for one, a buffer of two | `InterestFollows`, `NoHoles`, `NothingStranded`, `SlowAreDropped` |
| `FilterStream` | scripts of three tokens, four servers | `StreamUnderstood`, `CommandsFirst`, `OutputUnderstood` |
| `MonitorPeers` | three clients, two slots, two watchers | `FramesNameTheirWriter`, `PagesComplete`, `PeersAreShown` |
| `PortConfig` | two ports, two listeners, a file with a missing and a doubled id | `Paired`, `RestartKeepsConfig`, `MonitorsWatchListed`, `NoLostUpdate` |
| `Accounts` | two users, two tokens, two sessions | `SessionsOfThisPassword`, `AdminRemains`, `OffOnlyByLastDeletion` |
| `StatusStream` | one page, three port ids, two ports at a time | `PagesHoldDelivered`, `PagesCatchUp`, `RevokedStreamsEnd` |
| `CertBundle` | two bundles, two pairs, two servers on one bundle | `ServesWithItsKey`, `ClientsAreVerified` |

### Bounds, and why they are enough

*SerialPort.* In `SerialPort_quiet` both limits refuse and differ by server, and
a broadcast meets clients that are attached, detached and joining. The layouts
put an endpoint before and after a socket server, which is the order
announcements are made in; changing between them keeps one server and replaces
the others. `SerialPort_failing` has two WebSocket clients, which is what a
removal inside a broadcast to another client needs, and a layout change that
keeps an endpoint. A client is a slot and can be used again.

*WriteQueue.* A `recv()` of two units makes a client able to cross a mark and
then do something else in the same `recv()`; three clients make the limit a sum.
The limit is exactly `HighWater + 3 * Chunk`; with one less `NothingDropped`
fails. In the code the numbers are 64 KiB, 4 KiB and 1 MiB: room for 240
clients.

*ReaderThread.* Three openings let a thread outlive two others; a pair for one
of three units makes `sendall()` block. The run ends when the openings are used
up: hence `CHECK_DEADLOCK FALSE`.

*Signals.* Two clients of one endpoint and one of another: who joins first, who
joins late, and who is elsewhere. A line that is set and one that is read; the
endpoints report different sets, so the set the monitor tells grows and shrinks.
Two watchers, of whom one can be told what the other is not, and any number of
arrivals and departures between two walks (`Hasty`).

*SocketServer.* With room for one of two clients the second is refused, waits
for the first to go, or finds the listener not listening. Two units of buffer
and of backlog: some of it leaves, all of it does, it overflows; a TLS record
with one piece and one with two, so that something can happen between the pieces.
Every event of a batch can find its connection
closed by what came before it.

*FilterStream.* Three tokens are a command or an option between two others, cut
anywhere; the data bytes are the ones that mean something behind an escape, and
the escape. What is understood is compared kind by kind (`StreamUnderstood`), and
between the kinds `CommandsFirst` says that no byte overtakes a command that was
said before it. The four servers may do all or little. A script ends, hence
`CHECK_DEADLOCK FALSE`.

*MonitorPeers.* Three clients for two slots use the overflow slot; two watchers
let a send fail for one or for the last.

*PortConfig.* Two entries of each kind are what moving, and pairing by position,
can go wrong with. Both kinds compete for ids; the file is one written by hand.
The port that is asked for differs from one of the file in its endpoint only,
which reconciles a running port, and from the other in its name, which rebuilds
it. Starting, reconciling, rolling back and writing may fail at each step.

*Accounts.* Two of each, so that the last one, and the last administrator, is
one of several. Time passes in ticks: a session lapses and slides.

*StatusStream.* Three ids over two places: ports go, move and come back under
another id between two passes. Both kinds of stream.

*CertBundle.* Two servers on one bundle, one with client certificates: a reload
that changes one and fails on the other. Two pairs: files that match, do not, are
junk, or were lost.

### Fairness

Each liveness property is checked under what the code's own scheduling gives and
assumes nothing of clients, devices or pages.

- `SerialPort`: weak fairness of `Step`, because a call that has begun goes on;
  strong fairness of `Tick`, because `ServersManager.process()` runs
  `process_stale()` after every batch, so no sequence of events can keep it from
  its turn, though each is taken on an empty stack and disables it for a while;
  strong fairness of `IntervalPasses`, because time passes whatever the loop
  does. `WaitersGetDevice` is about a device that stays plugged.
- `WriteQueue`: the loop turns. `select()` returns, each event it reported is
  served, a served client is finished with, and `process_stale()` runs at the
  end of the pass. The device's own progress is not assumed, nor that `select()`
  ever reports it: that a stuck device is noticed all the same is the question.
- `ReaderThread`: threads run, the loop comes back to a readable pair and
  returns from a `join()`. A device need not say anything nor be pulled out.
- `SocketServer`: `select()` returns at least every `TIMEOUT`, what it reported
  is served, a connection is read to the end of its record (`ReadOn`),
  `process_stale()` follows; time passes (`Cool`, and strong fairness of
  `Elapse`, for whoever takes nothing again and again without being written to
  for a whole timeout).
- `StatusStream`, `MonitorPeers`: the pass that compares, or walks, comes at
  least every `TIMEOUT`, and the heartbeat's time passes.

### Other properties

Each module states its type invariant, and some state more than a run checks all
the time. Of these hold, under the constants of the module's run: every `TypeOK`
(`StatusTypeOK`, `MonitorTypeOK`); `IdsDistinct` (PortConfig);
`RestartKeepsAccounts`, `LapsedStayLapsed` (Accounts); `PagesKnowRights`,
`DeadStreamsEnd` (StatusStream); `WaterMarks` (WriteQueue); `WatchersKnowLines`
(Signals, with `Watchers = {w1}` and `Hasty = FALSE`: more watchers, and changes
between two walks, break it as they break `WatchersFollow`); `SlotsTellApart`
(MonitorPeers); `SaidIsHeard`, `ThreadsEnd` (ReaderThread); `NamedBundlesExist`
(CertBundle); `HandshakesEnd`, `ShutAreReaped`, `SaidIsRead`,
`OnlyTheSlowTimeOut` (SocketServer). They can be given to TLC in place of the
properties of the run's `.cfg`.

## Where the code departs from what it says

Modelling met places where the code does not do what its comments, its tests or
the repository's README say of it. Each is a property of the module, stated
after that text, which TLC refutes: put it in the run's `.cfg` in place of the
run's properties, with the constants of the last column. The runs above check
what holds, so their instances leave out what refutes them where it would.

| Property | What happens | What the code says | See it with |
|---|---|---|---|
| `HeldWhileOpen` | `attach()` calls `connect()`, which announces the device to the attaching client itself. If that send fails the client is removed, and then appended to `_attached` (`server_websocket.py:179`): nothing removes it again, the device stays open and a place under the limit is lost | "Close the port once nobody is holding it open" (`serial_proxy.py:642`) | `SerialPort_quiet`, `SendRaises = TRUE` |
| `HeldWhileOpen` | a `reconcile_servers()` that cannot finish has closed servers and does not call `disconnect()` (`serial_proxy.py:317`) | "Whoever held the device open may have left with their server" (`serial_proxy.py:328`) | `SerialPort_quiet`, `RebuildFails = TRUE` |
| `DeadDoNotHold` | the first of these again: the client that is appended to `_attached` after it was removed is dead, and `process_stale()` reaps the connected only (`server_websocket.py:178`, `server_websocket.py:404`), so that it holds the device for good | "reap the ones it has closed" (`server_websocket.py:400`) | `SerialPort_failing` |
| `OpenIsAnnounced` | `socketpair()` raises after `_serial` is set: the device is open, nobody was told, and from then on `connect()` answers True without telling (`serial_proxy.py:445`, `serial_proxy.py:581`). Where it does not raise `AnnouncementMatchesDevice` says the same | "Every transition, not every call" (`serial_proxy.py:589`) | `SerialPort_failing` |
| `ClientsKnowDevice` | the device opens and is announced; a send fails, its client was the last holder, and the removal closes the device and announces that, inside the first announcement. That one then goes on and tells the rest it is open (`serial_proxy.py:602`) | "a client watching this port ... learns about it either way" (`serial_proxy.py:594`) | `SerialPort_quiet`, `SendRaises = TRUE` |
| `NewsOnly` | the same: whoever is late in the first announcement and has heard the nested one hears what is already over | "Announcing what was already announced would just repeat itself" (`serial_proxy.py:595`) | `SerialPort_failing` |
| `SocketClientsHaveDevice` | the same, while `_client_connect()` waits for `connect()`, which answers True for the device that is closed by then: the client is added to it (`server.py:314`) | "there is no way to tell a client the device went away, so holding it open would only feed it silence" (`server.py:422`) | `SerialPort_quiet`, `SendRaises = TRUE` |
| `OpenedForClients` | `process_stale()` opens the device for a TLS connection that has not finished its handshake (`serial_proxy.py:777`) | "an unfinished TLS connection is not a client" (`server.py:309`) | `SerialPort_quiet` |
| `StallNoticed` | with a descriptor nobody asks a stuck device's clock: its clients are held back and `select()` does not report it (`serial_proxy.py:994`) | "clients paused for backpressure are not being watched, so nothing would ever reap them" (`serial_proxy.py:188`) | `WriteQueue` |
| `NobodyStranded` | held back while attached, detached when that ends, attached again: nothing resumes it (`server_websocket.py:243`) | "reading starts again below the low mark" (`serial_proxy.py:178`) | `WriteQueue` |
| `OwnDevice` | a thread that outlives the `join()` is revived by the next start, takes what the new device says and loses it (`serial_proxy.py:446`) | "letting it run on would risk a read against a descriptor that has been closed and perhaps reused" (`serial_proxy.py:456`) | `ReaderThread`, `Stuck = TRUE` |
| `JoinNotHeldUp` | the loop waits, up to `READER_JOIN_TIMEOUT`, for a thread in `sendall()` on a full pair only the loop would empty (`serial_proxy.py:470`) | "this normally returns without waiting" (`serial_proxy.py:458`) | `ReaderThread` |
| `OpenIsWatched` | the same, seen from the reader: nobody reads the device, and its loss is not noticed (`serial_proxy.py:445`) | "Start reader thread with socketpair for select() compatibility" (`serial_proxy.py:444`) | `ReaderThread` |
| `ArmedWhileQueued` | the selector refuses the device, or to watch it for writing as well: that is logged, and nothing tries again until the queue changes (`serial_proxy.py:1026`) | "never armed the backlog never leaves" (`serial_proxy.py:1015`) | `WriteQueue`, `WatchFails = TRUE` |
| `ClientsKnowLines` | a client that joins between a change and its change back was greeted with a value that is in neither sample (`serial_proxy.py:896`) | "Only the difference: a client is handed the whole set when it arrives" (`server_websocket.py:467`) | `Signals`, `Blips = TRUE` |
| `ClientsKnowLines` | what was reported is recorded also when nobody is on the endpoint, so the first greeting does not set it (`server_websocket.py:454`) | "First client on an empty endpoint: what it was just handed is what the audience knows" (`server_websocket.py:531`) | `Signals`, `Debug = TRUE` |
| `WatchersFollow` | a second watcher's greeting sets `_watched`, and the first is not told of the change it hides (`server_monitor.py:323`) | "a watcher left holding indicators for a set nobody reports would show them frozen for ever" (`server_monitor.py:220`) | `Signals`, `Reports <- SameLines`, `Hasty = FALSE` |
| `WatchersFollow` | when the set of lines shrinks the rest is sent, and the page merges it into what it has (`server_monitor.py:232`, `html/monitor.html:249`) | the same | `Signals`, `Watchers = {w1}`, `Hasty = FALSE` |
| `WatchersFollow` | a device opens, its client leaves, and the walk between has not happened: the lines stay (`server_monitor.py:110`) | "An empty object says 'no lines are reported now'" (`server_monitor.py:230`) | `Signals`, `Watchers = {w1}`, `Reports <- SameLines` |
| `ClosedShowsNothing` | a client asks a closed port for a line its endpoint does not report, or the port refuses it: the answer carries what was asked for, and the page shows it (`server_websocket.py:374`). Of the lines that are reported none is shown, which is `ClosedIsDark` | "the server answers with what it got" (`src/README_WS_API.md:241`) | `Signals` |
| `OnlyTheSlowTimeOut` | TELNET's negotiation is queued before `attach()`, which registers for reading only: on a quiet line it is not sent, and the client is dropped after `send_timeout` (`connection.py:102`) | "never armed, buffered data never leaves" (`connection.py:150`) | `SocketServer`, `Protocol = "TELNET"` |
| `NothingOwedWhileShaking` | `Server.send()` queues for connections that still shake hands (`server.py:588`) | "Nothing is buffered while handshaking" (`connection_tls.py:118`) | `SocketServer` |
| `TrackedAreWatched` | when the selector refuses a new socket it is on the list and never served (`server.py:334`) | "Track a connection and start watching its socket" (`server.py:331`) | `SocketServer`, `Protocol = "TCP"`, `RegisterFails = TRUE` |
| `DroppedAreForgotten` | a connection that closed itself has no socket, by which it would be removed from `_conn_by_socket` (`server.py:492`) | "its socket is already None. Reap it instead of reading it" (`server.py:513`) | `SocketServer` |
| `ListensAgain` | `_resume_accepting()` forgets the pause before it registers the listener, which may be refused (`server.py:407`) | "until the cooldown ends" (`server.py:392`) | `SocketServer`, one client, `Protocol = "TCP"`, `RegisterFails = TRUE` |
| – | TELNET's negotiation leaves through the escaping meant for data: `FF FF FD 22` (`connection_telnet.py:41`). `OutputUnderstood` is about what comes behind that `Greeting` | "Should contain IAC DO 0x22 and IAC WILL 0x01" (`src/tests/test_connection_telnet.py:201`) | `Greeting` in `FilterStream` |
| `PagesComplete` | an arrival that cannot be told to the last watcher clears the slots in the middle of the walk; a client announced before is not in them, and its departure is not noticed (`server_monitor.py:209`) | "Notice who joined or left the port, and say so" (`server_monitor.py:178`) | `MonitorPeers`, without its `~sendsFail` |
| `NewcomersGreeted` | the first of two departures removes the last watcher and clears the slots; the second raises `KeyError`, and the newcomer is cut off (`server_monitor.py:197`) | "the newcomer gets the whole list in its greeting instead" (`server_monitor.py:54`) | `MonitorPeers` |
| `NotServingSaysWhy` | a port whose update and whose rollback fail stays as a closed `SerialProxy` without an error, and can be neither updated nor deleted (`http_server.py:1702`) | "carries an `error` saying why" (`src/README.md:1004`) | `PortConfig` |
| `EndpointsUnique` | the endpoints of a port that failed to start are free for others (`http_server.py:1537`) | "must be unique" (`src/README.md:187`) | `PortConfig` |
| `HttpRunsAsConfigured` | a change of `trusted_proxies` alone waits for the next start (`http_server.py:2385`) | "added/removed/modified via web UI without restart" (`src/README.md:731`) | `PortConfig`, `Requests <- AskedSettings` |
| `SaveStarts` | saving a listener that could not bind, with nothing changed that needs a restart, leaves the placeholder (`http_server.py:2385`) | "a save that succeeds starts it there and then" (`src/README.md:1014`) | the same |
| `IdsWrittenBack` | `main()` assigns ids before the wrapper looks for missing ones, so they are not written (`main.py:178`) | "Written back so they survive a restart" (`http_server.py:159`) | `PortConfig` |
| `NobodyLockedOut` | the first account of all may be a token without admin (`http_auth.py:383`) | "the same state add_token() refuses to create from the other end" (`http_auth.py:25`) | `Accounts` |
| `OffOnlyByLastDeletion` | setting a timeout while the accounts are in the old place hides them at the next start (`http_server.py:2189`) | "Deleting the very last account ... turns authentication off" (`src/README.md:758`) | `Accounts`, `Files <- OldFiles` |
| `RemovalsTold` | a port that goes in the pass that notices a changed admin flag is not reported as removed (`http_server.py:1101`) | "Filtered port disappeared ... let the client know once" (`http_server.py:1175`) | `StatusStream` |
| `ServesWithItsKey` | the files are read twice; replaced between the two readings, the live context has the new certificate and the old key (`cert_manager.py:547`) | "A reload that cannot finish changes nothing" (`src/README.md:597`) | `CertBundle`, `Racing = TRUE` |

## The proofs

What TLC shows of an instance, TLAPS shows for all: any number of clients,
servers, openings, users, any size of a buffer, a mark or a timeout. A proof
module `EXTENDS` the module it is about. Two are about several, because the
proofs share a theory of lists, or of sequences put together of others:
`PortConfig_proofs` also proves what is proved of `StatusStream` and
`MonitorPeers`, and `SocketServer_proofs` what is of `FilterStream`. The names of
those modules are kept apart for it (`StatusSpec`, `MonitorSpec`, `FilterSpec`).
The assumptions are the constants' own
(`ASSUME` of each module) and those the theorem states, which are the conditions
under which the table above says that the code keeps the property.

| Module | Theorem | Of | Under |
|---|---|---|---|
| `SerialPort_proofs` | `TypeCorrect`, `AnnouncementFollows`, `LimitKept` | `TypeOK`, `AnnouncementMatchesDevice`, `PortLimitKept` | – |
| | `ClientsAreTold`, `SocketClientsAreServed`, `NobodyIsToldTwice` | `ClientsKnowDevice`, `SocketClientsHaveDevice`, `NewsOnly` | no send raises, and there are socketpairs (`~SendRaises`, `~PairFails`) |
| | `OpenIsHeld` | `HeldWhileOpen` | and new servers start (`~RebuildFails`) |
| `WriteQueue_proofs` | `TypeCorrect`, `MarksAreKept`, `FeedersAreHeldBack`, `OnlyTheBehindHoldBack` | `TypeOK`, `WaterMarks`, `FeedersHeldBack`, `OnlyBehindHoldsBack` | – |
| | `ArmedExactlyWhileQueued` | `ArmedWhileQueued` | the selector takes the device and its changes (`~WatchFails`) |
| | `NothingIsDropped` | `NothingDropped` | the limit has room for the high mark and one `recv()` per client |
| `ReaderThread_proofs` | `TypeCorrect`, `ThreadsKeepTheirDevice`, `ImplementsLink` | `TypeOK`, `OwnDevice`, `IsLink` | reads end within the wait (`~Stuck`) |
| `SocketServer_proofs` | `TypeCorrect`, `StreamsHaveNoHoles`, `NoneIsStranded` | `TypeOK`, `NoHoles`, `NothingStranded` | – |
| | `InterestIsFollowed`, `TheSlowTimeOut` | `InterestFollows`, `OnlyTheSlowTimeOut` | registering succeeds, and not TELNET (`Friendly`) |
| | `StreamIsUnderstood`, `OutputIsUnderstood` | `StreamUnderstood`, `OutputUnderstood` of `FilterStream` | – |
| `CertBundle_proofs` | `TypeCorrect`, `NamedBundlesStay`, `ClientsStayVerified` | `TypeOK`, `NamedBundlesExist`, `ClientsAreVerified` | – |
| | `ServersKeepTheirKey` | `ServesWithItsKey` | nobody replaces files between the two readings (`~Racing`) |
| | `UploadsMatch` | `HalvesMatch` | only the API writes, and its writes succeed |
| `Accounts_proofs` | `TypeCorrect`, `SessionsStay`, `LapsedStay` | `TypeOK`, `SessionsOfThisPassword`, `LapsedStayLapsed` | files that can be read (`TypedFiles`) |
| | `AccountsAreKept`, `AdminsRemain`, `OffByLastDeletion` | `RestartKeepsAccounts`, `AdminRemains`, `OffOnlyByLastDeletion` | and files of the present format |
| `PortConfig_proofs` | `StaysPaired`, `MonitorsAreListed`, `NothingLost` | `Paired`, `MonitorsWatchListed`, `NoLostUpdate` | – |
| | `OneNamespace`, `RestartBringsBack` | `IdsDistinct`, `RestartKeepsConfig` | – |
| | `StreamsTyped`, `PageShowsWhatWasDelivered` | `StatusTypeOK`, `PagesHoldDelivered` of `StatusStream` | – |
| | `MonitorTyped`, `SlotsStayApart` | `MonitorTypeOK`, `SlotsTellApart` of `MonitorPeers` | – |
| | `WritersAreNamed`, `PagesAreComplete` | `FramesNameTheirWriter`, `PagesComplete` of `MonitorPeers` | – |
| `Signals_proofs` | `TypeCorrect`, `Dark` | `TypeOK`, `ClosedIsDark` | – |
| | `ClientsAreRight` | `ClientsKnowLines` | lines are sampled for somebody only, and do not go and return between two samples (`~Debug`, `~Blips`) |

**SerialPort.** A call in progress has read state that the calls above it may
have changed, so the invariants speak of the whole stack, of any depth. `Shape`
says which calls can be above which others: nothing a broadcast or a removal
causes starts a handler's own work again, nobody is attached above a shutdown,
and directly above the rest of a removal is only the `detach()` it waits for.
`Sync` builds on it: the flag of the last announcement is never up over a closed
device, and down over an open one that can be read only while the opening is
being announced or `let_go`, which closes the device, is still on the stack. An
exception could cut that off, and does not: an opening that raises leaves a
device that cannot be read, and of the two other calls that can raise `let_go`
does so only over a closed device, and so does the end of a removal, because over
an open one its client is still there (`Guarded`). With that, an
empty stack leaves `announced = (device /\ readable)`, which is
`AnnouncementFollows`: an opening that is cut short for want of a socketpair
leaves the flag down and nothing to read. `LimitKept` needs more, since the
check of the limit and the client's taking its place are calls apart: `Roomy`
says that while somebody is entering there is a free place, which rests on
`Shape` (nobody else enters meanwhile), and counts holders of servers that are
leaving too; that none of those keeps a holder is `Parting` and `Leaving`, which
follow the list of servers through a change of the configuration and through the
closing of the port.

The other four theorems assume what the table of departures says is needed: that
no send raises and there are socketpairs, and for one of them that rebuilding
succeeds. Then a broadcast starts nothing, and `Nested` says, of any two calls
in progress, how: over a broadcast there is only a broadcast to another server,
over a client who is coming in only the opening of the device, over `let_go` and
a removal only the closing. That two broadcasts in progress are to two servers
rests on the list having each server once (`Once`), which is why `Layouts` is
assumed so: `reconcile_servers()` takes each running server out of its table as
it uses it, and makes the others anew. `Knowing` is the invariant behind
`ClientsKnowDevice`: a client that has not heard the last announcement is in a
broadcast that has still to reach it, no broadcast says anything but the last
announcement, and nobody is greeted who is not connected, so that a new
announcement reaches all. It is where a raising send fails: a broadcast would go
on under one that is newer. A greeting is right because nothing is being
announced under it (`OuterAgrees`). `Sparing` is the other half and gives
`NewsOnly`: whoever has heard the last announcement is in no broadcast still to
come, because a client is on one endpoint and each has one broadcast. `Serving`
says that a client being added, and any that has finished connecting, has a
device that is open and announced or is about to be, or is itself on the way
out; a TLS client that ends its handshake is covered by `connect()` being called
there and then. `Holding` says of an open device that a connected client holds
it, or that somebody is coming in, or that a call is in progress that will look:
a `disconnect()`, the closing, or the change of a configuration that leaves a
server out. Each way out puts such a call on the stack in the step that takes
the holder away (`StepRelieved`), and such a call gives up only where it finds a
holder. A rebuild that fails does not look, which is the departure above.

**WriteQueue.** None of the properties is inductive alone. `Safety` is all of
them together with the types: `FeedersHeldBack` survives the crossing of a mark
only because a server that has been told already holds its own feeders back;
that nobody is told anything after the device has closed needs
`OnlyBehindHoldsBack` before. The room in the queue needs a count: above the
high mark no client is read again, but the events of the pass are already
collected and each is one more `recv()`. `Room` says that while the port is
behind and every server knows it, what is queued, what is left of the `recv()`
being served and one `recv()` for every client that may still be read are no
more than the high mark and one `recv()` per client. Each step takes from one
term what it adds to another (`RoomTaken`), or adds nothing (`RoomKept`);
`Turn` says where in the pass the loop is, so that nobody is counted twice. The
cardinalities come from the library's theorems about finite sets.

**ReaderThread.** `Inv` has five parts: `Flags` and `Tables` are the types;
`Shape` says that only the open device has a thread and only that thread's pair
is open; `Alone` that no other thread reads, and that one its own device;
`Stream` that what was heard, what is in the pair and what the thread holds is,
in this order, what it has read. `~Stuck` is needed where a thread reads and
where the loop returns from its wait, and is where `Alone` fails without. The
refinement then maps each step to a step of `Link` or to a stutter: what happens
between a read and a `recv()` only moves the middle of `Stream`.

**SocketServer.** `IInv` says of every connection that it is `Sound` (its types,
and that what the client has not got yet is what is queued for it), that it is
idle unless it is live, and, if `Friendly`, of whoever is tracked that it is
`Settled`: what it thinks it registered is what the selector watches, and both
are what `WantedEvents` asks for. `update_interest()` trusts the first of these
three, which is why they have to go together. `TheSlowTimeOut` follows from it:
whoever runs into the timeout had something queued, was watched for writing, and
was not reported ready. A connection whose data is being passed on is exempt
from `Settled`, because an answer to what it said is queued without re-arming
it; it is re-armed when it has been read. For `NothingStranded` it is the one
that may have a rest inside TLS: only reading makes a rest, every step of
reading leaves the connection being read or without one, holding back changes
neither, a connection that is dropped in between loses it with the socket, and
the loop turns to nothing else meanwhile.

**CertBundle.** `NamedBundlesExist` and `ClientsAreVerified` are inductive over
the types. A reload is spread over several steps between which the files may
change, so that `ServesWithItsKey` needs `Keyed`: of every server in the middle
of one, that what was rehearsed is still what will be installed.

**Accounts.** `IInv` is the types and `Follow`, which says of any set of
sessions and accounts that the one is of the other, so that it can be said of
what a request makes of them before the request is done (`Renewed`,
`DropSessions`). `Written` says that the file is what is in force and nothing
else; it is what makes a restart harmless, and it does not hold of a file of the
old format, which is the departure above. That somebody goes on administering is
one lemma per request: either the request leaves another administrator, by its
own guard (`AnotherThanUser`, `AnotherThanToken`), or it leaves this one.

**PortConfig.** `IInv` says `Paired` of a process that does not run too, where
both lists are empty, and of the file that it holds lists of entries whatever
was written last, so that `Start` pairs what it makes of it; monitors go with
it because a request that closes a port drops its monitor by the port's name.
Below the invariant is a small theory of the lists themselves: what appending,
replacing, removing and moving make of two lists in pairs (`PairsAppend` to
`PairsMove`), and of a list somebody points into (`WatchedAppend` to
`WatchedMove`). A move is a permutation of the places, the same for both lists
because it depends on their length alone (`IsMove`). That is the argument why
handlers that index two lists by one number keep them together: each of them
does one of these to both, or rebuilds the one from the other's entry.
`RestartKeepsConfig` needs that giving ids is idempotent: `RInv` adds to `IInv`
that no two entries have the same id (`Distinct`), of ports and listeners
together, and then `AssignIds` of what was written is what was written
(`AssignedAgain`). `Distinct` survives a request because an id that is kept is
nobody else's and one that is made up is free. That there always is a free one is
the pigeonhole in `UniqueId`: among one more numbers than are taken, one is not.
The ids of a file are given one after the other, each to differ from those before
it; the function they are given by has no induction theorem here that can be
used, so the proof takes the first place at which it would go wrong (`Smallest`).

**StatusStream.** `SInv` is the types and, of every stream and its page, what
`PagesHoldDelivered` says of them (`Holds`), for any number of pages and ports.
What is hard in a pass is the delta: a page is sent one line per port that
changed, and applies it to the port of that id. `PatchedIsNow` says that this
turns what was delivered into what is reported, which needs that no two ports of
a report have one id (`Listing`; `OneNamespace` proves it of the
configuration) and that the ids are the same in the same order, which is why the
code compares the order and not the set. `PassHolds` is a pass over one stream,
with the right that was looked up again; the rest is that everything done to
the ports leaves a listing.

**MonitorPeers.** `MInv` says of the slots that no two clients have one, unless
it is the overflow's (`Slotted`), and of every page that it `Fits` them: whoever
is in the monitor's list is shown, with his slot; somebody who is not may still
be shown, as overflow, and only where sends fail. `Walked` collects what is true
of the outcome of a walk, however it was cut: all clients have been met, unless
the last watcher is gone, and who is still watching was told, unless there was
nothing to tell. A walk assigns slots one client after another (`After`), so
that these are inductions over the list of clients. A walk that was told of ends
with the list of everybody, which fits (`PeerListFits`); one with nothing to
tell leaves slots and pages as they were. So a frame's slot is on every page
that gets the frame, with its writer (`Names`), and without failures a page
shows nobody who is not in the list, which is `PagesComplete`.

**FilterStream.** The decoder is a function over the bytes of a piece that ends
anywhere, with a state kept from piece to piece, and the property speaks of
whole tokens. `FInv` says where a decoder is (`At`): there are `k` tokens of the
script all of whose meaning has come about (`Done`), and either the rest of the
wire is what says the other tokens and the decoder waits for one, or it is
`Within` the next, with a `tail` of that one still to come. `Reads` says what
state each tail leaves it in: behind the escape, in a command, in a
subnegotiation with the frame so far, behind an escape in a frame. One byte leads
from one such place to the next (one lemma for each kind of token), which a
`recv()` does as often as it has bytes. What remains is that `k` is `Complete`:
the tokens received to their end are those whose bytes have come, since every
token has at least one. Data are collected over a piece and handed on at its
end, so `Done` is said of each kind of thing by itself: that is also what the
code gives, since data of a piece reach the device after its commands.

`OInv` is the other direction: behind the greeting is a `body` that brings a
client who listens from nothing heard to all that was said, and not in the
middle of an escape (`Hears`, `Clear`). Every send keeps it: a doubled escape is
heard as one byte, and a report as its lines. For the latter a report of six
lines is six sums of different weights, of which each line is one bit.

**Signals.** Clients and watchers are sent differences, so a page is right only
if what was said before is what it shows. `Said` places the difference: of a
client, that it shows a line as it is or the next sample will find the line
changed and its endpoint was told otherwise; of an endpoint, that what was
reported to it is the last sample, or, where a client came in between, the lines
as they are. The last is what keeps a difference from being computed against
what nobody was told. A line that is set is told at once, against the same
record. A line that goes and returns between two samples makes the next one find
nothing, and an endpoint sampled without clients records what nobody heard:
these are `~Blips` and `~Debug`. `ClosedIsDark` is inductive: all that brings a
line to a page of a closed device is the answer to who asked for one that is not
reported to it. What watchers show while it is open is not proved: the one
record of what they were told (`watched`) cannot be right for each of them,
which is in the table of departures.

The decoders, the lists of ids and the walks are recursive functions. The
library's theorems about induction take an operator as their parameter, which
the provers installed cannot instantiate; so induction is done by sets (`UpTo`):
of the set of places up to which a statement holds, or by the first place at
which it does not (`Smallest`, from `WellFoundedInduction`). Every invariant the
runs check is proved in this way, or in one of the ways above.

Only model-checked: liveness under fairness (`WaitersGetDevice`,
`DeadDoNotHold`, `ThreadStallNoticed`, `LossNoticed`, `SlowAreDropped`,
`PagesCatchUp`, `RevokedStreamsEnd`, `PeersAreShown`), which is beyond this
prover, and of "Other properties" those that no theorem names.

## Plan

Done in this order: the queue and ownership of a port, the reader thread and its
refinement, certificates, the configuration, accounts, streams, monitors, modem
lines, the filters, the socket servers with the selector. Next:

1. an abstract bounded queue that `WriteQueue` implements, as `Link` is for the
   reader thread;
2. the page's side of reconnecting (`html/ws-retry.js`) composed with
   `StatusStream`;
3. stopping the process by a signal, in the middle of each handler.

## Not modelled

- What data say: a byte is modelled where it means something (`FilterStream`)
  and is a unit everywhere else. Logging, wording, layout of messages.
- The IP filter: a predicate of an address, without state. Servers refuse whom
  it refuses as one of their refusals.
- Finding a device by `match`, and the parameters of the line: questions to the
  operating system, whose answer is that a device opens or does not.
- Start-up, argument parsing and service installation: sequential, run once.
  What a start makes of the configuration is in `PortConfig` and `Accounts`.
- That saving the configuration file fails is in `PortConfig`; `Accounts` takes
  its saves to succeed.
- The web UI, but for what a page makes of the frames it is sent.
- `uhttp` and `pyserial` are external: a send that succeeds, fails or is
  swallowed, a read that ends, fails or blocks. The buffers of the HTTP
  library's WebSockets are not in the repository.
- The handlers of process signals, which set a flag and close everything.
