------------------------ MODULE SocketServer_proofs ------------------------
(***************************************************************************)
(* What a socket server promises for any number of clients, any protocol   *)
(* and any limits. Whatever is done to one connection keeps its types and  *)
(* its account of what is owed; and if the selector takes every socket,    *)
(* it leaves the selector with what the connection wants.                  *)
(*                                                                         *)
(* And what its filters promise, for any stream and wherever it is cut:    *)
(* they need what is proved here about sequences put together of others.   *)
(***************************************************************************)
EXTENDS SocketServer, FilterStream, SequenceTheorems, WellFoundedInduction, TLAPS

USE SocketServerAssumption DEF SocketServerAssumption

Live == {"shaking", "open", "shut"}

\* Its types; what it has not got is what is queued for it, and TLS holds
\* something back of an open connection only.
Sound(k) ==
  /\ k \in Connection /\ k.unseen = k.owed
  /\ k.sock # "open" => k.tls = 0

\* What it thinks it registered is registered.
Armed(k) == k.sock \in {"shaking", "open"} => k.mask = k.watch

\* What the selector watches is what the connection wants.
Settled(k) ==
  k.sock \in {"shaking", "open"} => k.mask = k.watch /\ k.watch = WantedEvents(k)

\* What an operation makes of a connection.
Follows(k, r) ==
  /\ Sound(r) /\ r.sock \in Live
  /\ r.paused = k.paused
  /\ r.late => k.late
  /\ r.tls \in {0, k.tls}
  /\ r.sock = "shaking" => k.sock = "shaking"

Serves(k, fails, out) ==
  /\ Follows(k, out.con)
  /\ out.drop \in BOOLEAN
  /\ ~fails /\ Armed(k) => Armed(out.con)
  /\ ~fails /\ Settled(k) => Settled(out.con)

LEMMA WantedAreEvents ==
  ASSUME NEW k, Sound(k)
  PROVE  WantedEvents(k) \subseteq Events
BY DEF WantedEvents, Sound, Connection

LEMMA ShutFollows ==
  ASSUME NEW k, Sound(k), k.sock \in Live
  PROVE  Follows(k, Shut(k)) /\ Shut(k).sock = "shut"
<1>1. 0 \in 0 .. Backlog
  BY DEF Connection
<1>2. Shut(k) \in Connection
  BY <1>1 DEF Shut, Sound, Connection
<1>3. /\ Shut(k).sock = "shut" /\ Shut(k).tls = 0
      /\ Shut(k).unseen = k.unseen /\ Shut(k).owed = k.owed
      /\ Shut(k).paused = k.paused /\ Shut(k).late = k.late
  BY DEF Shut, Sound, Connection
<1> QED
  BY <1>2, <1>3 DEF Follows, Sound, Live

\* Re-arming keeps everything but what is watched.
LEMMA UpdateInterestFollows ==
  ASSUME NEW k, Sound(k), k.sock \in Live, NEW fails \in BOOLEAN
  PROVE  Follows(k, UpdateInterest(k, fails))
<1> DEFINE want == WantedEvents(k)
<1>1. want \subseteq Events
  BY WantedAreEvents
<1> HIDE DEF want
<1>2. Follows(k, k)
  BY DEF Follows
<1>3. Follows(k, Shut(k))
  BY ShutFollows
<1>4. Follows(k, [k EXCEPT !.mask = want, !.watch = want])
  BY <1>1 DEF Follows, Sound, Live, Connection
<1> QED
  BY <1>2, <1>3, <1>4 DEF UpdateInterest, want

\* And if the selector takes it, what is watched is what is wanted.
LEMMA UpdateInterestSettles ==
  ASSUME NEW k, Sound(k), k.sock \in Live,
         k.sock # "shut" => k.mask = k.watch
  PROVE  Settled(UpdateInterest(k, FALSE))
<1> DEFINE want == WantedEvents(k)
           new == [k EXCEPT !.mask = want, !.watch = want]
<1>1. CASE k.sock = "shut"
  BY <1>1 DEF UpdateInterest, Settled
<1>2. CASE k.sock # "shut" /\ want = k.mask
  BY <1>2 DEF UpdateInterest, Settled
<1>3. CASE k.sock # "shut" /\ want # k.mask
  <2>1. UpdateInterest(k, FALSE) = new
    BY <1>3 DEF UpdateInterest
  <2>2. new.mask = want /\ new.watch = want
    BY DEF Sound, Connection
  <2>3. WantedEvents(new) = want
    BY DEF WantedEvents, Sound, Connection
  <2> QED
    BY <2>1, <2>2, <2>3 DEF Settled
<1> QED
  BY <1>1, <1>2, <1>3

\* The two together, for an operation that changes a connection and re-arms it.
LEMMA RearmedServes ==
  ASSUME NEW k, NEW new, NEW fails \in BOOLEAN,
         Follows(k, new), new.sock # "shut" => new.mask = new.watch
  PROVE  ~fails => Settled(UpdateInterest(new, fails))
BY UpdateInterestSettles DEF Follows

LEMMA FollowsTwice ==
  ASSUME NEW k, NEW r, NEW q, Follows(k, r), Follows(r, q)
  PROVE  Follows(k, q)
BY DEF Follows

\* The same where only one result is asked for.
LEMMA KeepServes ==
  ASSUME NEW k, NEW new, NEW fails \in BOOLEAN,
         Follows(k, new),
         Armed(k) => (new.sock # "shut" => new.mask = new.watch)
  PROVE  Serves(k, fails, Keep(UpdateInterest(new, fails)))
<1> DEFINE r == UpdateInterest(new, fails)
<1>1. Follows(new, r)
  BY UpdateInterestFollows DEF Follows
<1>2. Follows(k, r)
  BY <1>1, FollowsTwice
<1>3. ~fails /\ Armed(k) => Settled(r)
  BY RearmedServes
<1>4. Keep(r).con = r /\ Keep(r).drop = FALSE
  BY DEF Keep
<1> HIDE DEF r
<1>5. Serves(k, fails, Keep(r))
  BY <1>2, <1>3, <1>4 DEF Serves, Armed, Settled
<1> QED
  BY <1>5 DEF r

LEMMA DropServes ==
  ASSUME NEW k, Sound(k), k.sock \in Live, NEW fails
  PROVE  Serves(k, fails, Drop(k))
BY DEF Serves, Follows, Drop

\* One that could be kept may be dropped.
LEMMA DropAfter ==
  ASSUME NEW k, NEW fails, NEW r, Serves(k, fails, Keep(r))
  PROVE  Serves(k, fails, Drop(r))
BY DEF Serves, Keep, Drop

LEMMA FlushServes ==
  ASSUME NEW c \in Clients, NEW k, Sound(k), k.sock \in Live, NEW fails \in BOOLEAN,
         NEW out \in Flush(c, k, fails)
  PROVE  Serves(k, fails, out)
<1> DEFINE some(n) == IF n = 0 THEN k
                      ELSE [k EXCEPT !.owed = @ - n, !.unseen = @ - n, !.late = FALSE]
<1>0. Follows(k, k)
  BY DEF Follows
<1>1. ASSUME NEW n \in 0 .. k.owed
      PROVE  Follows(k, some(n)) /\ some(n).sock = k.sock
             /\ some(n).mask = k.mask /\ some(n).watch = k.watch
  <2>1. CASE n = 0
    BY <2>1, <1>0
  <2>2. CASE n # 0
    <3>1. k.owed - n \in 0 .. Limit /\ k.owed \in 0 .. Limit
      BY DEF Sound, Connection
    <3>2. some(n) = [k EXCEPT !.owed = k.owed - n, !.unseen = k.owed - n, !.late = FALSE]
      BY <2>2 DEF Sound
    <3>3. some(n) \in Connection
      BY <3>1, <3>2 DEF Sound, Connection
    <3>4. /\ some(n).unseen = some(n).owed /\ some(n).tls = k.tls /\ some(n).sock = k.sock
          /\ some(n).paused = k.paused /\ some(n).late = FALSE
          /\ some(n).mask = k.mask /\ some(n).watch = k.watch
      BY <3>2 DEF Sound, Connection
    <3> HIDE DEF some
    <3> QED
      BY <3>3, <3>4 DEF Follows, Sound
  <2> QED
    BY <2>1, <2>2
<1>2. CASE k.owed = 0 \/ k.sock = "shut"
  <2>1. out = Keep(UpdateInterest(k, fails))
    BY <1>2 DEF Flush
  <2> QED
    BY <2>1, <1>0, KeepServes DEF Armed, Live
<1>3. CASE ~(k.owed = 0 \/ k.sock = "shut")
  <2>1. \/ \E n \in 0 .. k.owed : out = Keep(UpdateInterest(some(n), fails))
        \/ out = Drop(k)
    <3>1. k.owed \in Nat
      BY DEF Sound, Connection
    <3>2. out \in {Keep(UpdateInterest(some(n), fails)) :
                    n \in IF peer[c] = "slow" THEN {0} ELSE 1 .. k.owed}
          \/ out = Drop(k)
      BY <1>3 DEF Flush
    <3>3. (IF peer[c] = "slow" THEN {0} ELSE 1 .. k.owed) \subseteq 0 .. k.owed
      BY <3>1
    <3> HIDE DEF some
    <3> QED
      BY <3>2, <3>3
  <2>2. CASE out = Drop(k)
    BY <2>2, DropServes
  <2>3. ASSUME NEW n \in 0 .. k.owed, out = Keep(UpdateInterest(some(n), fails))
        PROVE  Serves(k, fails, out)
    <3>1. Armed(k) => (some(n).sock # "shut" => some(n).mask = some(n).watch)
      BY <1>1 DEF Armed, Live
    <3>2. Follows(k, some(n))
      BY <1>1
    <3> HIDE DEF some
    <3> QED
      BY <2>3, <3>1, <3>2, KeepServes
  <2> QED
    BY <2>1, <2>2, <2>3
<1> QED
  BY <1>2, <1>3

LEMMA NotReceivedServes ==
  ASSUME NEW c \in Clients, NEW k, Sound(k), k.sock \in Live, NEW fails \in BOOLEAN,
         NEW out \in NotReceived(c, k, fails)
  PROVE  Serves(k, fails, out)
<1>0. Follows(k, k)
  BY DEF Follows
<1>1. out = Keep(UpdateInterest(k, fails)) \/ out = Drop(k)
  BY DEF NotReceived
<1>2. CASE out = Drop(k)
  BY <1>2, DropServes
<1>3. CASE out = Keep(UpdateInterest(k, fails))
  BY <1>3, <1>0, KeepServes DEF Armed, Live
<1> QED
  BY <1>1, <1>2, <1>3

\* What recv() takes changes nothing of what is watched, and wanted.
LEMMA ReceivedFits ==
  ASSUME NEW k, Sound(k), NEW r \in Received(k)
  PROVE  /\ Sound(r) /\ r.sock = "open" /\ k.sock = "open"
         /\ r.paused = k.paused /\ r.late = k.late
         /\ Armed(k) => Armed(r)
<1>1. PICK n \in 1 .. k.inbox :
        k.sock = "open" /\ r = [k EXCEPT !.inbox = @ - n, !.tls = n - 1]
  BY DEF Received
<1>2. k.inbox - n \in 0 .. Backlog /\ n - 1 \in 0 .. Backlog
  BY DEF Sound, Connection
<1>3. r \in Connection
  BY <1>1, <1>2 DEF Sound, Connection
<1>4. /\ r.unseen = k.unseen /\ r.owed = k.owed /\ r.sock = k.sock
      /\ r.paused = k.paused /\ r.late = k.late
      /\ r.mask = k.mask /\ r.watch = k.watch
  BY <1>1 DEF Sound, Connection
<1> QED
  BY <1>1, <1>3, <1>4 DEF Sound, Armed

LEMMA HandshakeServes ==
  ASSUME NEW c \in Clients, NEW k, Sound(k), k.sock \in {"shaking", "open", "shut"},
         NEW fails \in BOOLEAN, NEW out \in Handshake(c, k, fails)
  PROVE  Serves(k, fails, out)
<1> DEFINE n == IF k.inbox > 0 THEN k.inbox - 1 ELSE 0
           heard == [k EXCEPT !.inbox = n]
           waits(w) == [heard EXCEPT !.want = w]
           done(late) == [heard EXCEPT !.sock = "open", !.want = {}, !.late = late]
<1>0. k.sock \in Live /\ Follows(k, k)
  BY DEF Follows, Live
<1>1. n \in 0 .. Backlog /\ k.late \in BOOLEAN
  BY DEF Sound, Connection
<1> HIDE DEF n
<1>2. ASSUME NEW w \in SUBSET Events
      PROVE  Follows(k, waits(w)) /\ waits(w).sock = k.sock
             /\ waits(w).mask = k.mask /\ waits(w).watch = k.watch
  <2>1. waits(w) \in Connection
    BY <1>1 DEF Sound, Connection
  <2>2. /\ waits(w).tls = k.tls /\ waits(w).unseen = k.unseen /\ waits(w).owed = k.owed /\ waits(w).sock = k.sock
        /\ waits(w).paused = k.paused /\ waits(w).late = k.late
        /\ waits(w).mask = k.mask /\ waits(w).watch = k.watch
    BY DEF Sound, Connection
  <2> HIDE DEF waits, heard
  <2> QED
    BY <1>0, <2>1, <2>2 DEF Follows, Sound
<1>3. ASSUME NEW late \in BOOLEAN, late => k.late
      PROVE  Follows(k, done(late)) /\ done(late).sock = "open"
             /\ done(late).mask = k.mask /\ done(late).watch = k.watch
  <2>1. done(late) \in Connection
    BY <1>1 DEF Sound, Connection
  <2>2. /\ done(late).tls = k.tls /\ done(late).unseen = k.unseen /\ done(late).owed = k.owed
        /\ done(late).sock = "open" /\ done(late).paused = k.paused
        /\ done(late).late = late
        /\ done(late).mask = k.mask /\ done(late).watch = k.watch
    BY DEF Sound, Connection
  <2> HIDE DEF done, heard
  <2> QED
    BY <1>3, <2>1, <2>2 DEF Follows, Sound, Live
<1> DEFINE ends == {UpdateInterest(done(late), fails) : late \in {FALSE, k.late /\ k.owed > 0}}
<1>4. \/ out = Drop(k)
      \/ \E w \in {{"r"}, {"w"}} : out = Keep(UpdateInterest(waits(w), fails))
      \/ k.sock # "shut" /\ \E r \in ends : out = Keep(r) \/ out = Drop(r)
  BY DEF Handshake, n
<1>5. CASE out = Drop(k)
  BY <1>0, <1>5, DropServes
<1>6. ASSUME NEW w \in {{"r"}, {"w"}}, out = Keep(UpdateInterest(waits(w), fails))
      PROVE  Serves(k, fails, out)
  <2>1. w \in SUBSET Events
    BY DEF Events
  <2>2. Follows(k, waits(w))
    BY <1>2, <2>1
  <2>3. Armed(k) => (waits(w).sock # "shut" => waits(w).mask = waits(w).watch)
    BY <1>0, <1>2, <2>1 DEF Armed, Live
  <2> HIDE DEF waits
  <2> QED
    BY <1>6, <2>2, <2>3, KeepServes
<1>7. ASSUME k.sock # "shut", NEW r \in ends, out = Keep(r) \/ out = Drop(r)
      PROVE  Serves(k, fails, out)
  <2>1. PICK late \in {FALSE, k.late /\ k.owed > 0} : r = UpdateInterest(done(late), fails)
    BY <1>7
  <2>2. late \in BOOLEAN /\ (late => k.late)
    BY <1>1, <2>1
  <2>3. Follows(k, done(late))
    BY <1>3, <2>2
  <2>4. Armed(k) => (done(late).sock # "shut" => done(late).mask = done(late).watch)
    BY <1>0, <1>3, <1>7, <2>2 DEF Armed, Live
  <2> HIDE DEF done
  <2>5. Serves(k, fails, Keep(r))
    BY <2>1, <2>3, <2>4, KeepServes
  <2>6. Serves(k, fails, Drop(r))
    BY <2>5, DropAfter
  <2> HIDE DEF ends
  <2> QED
    BY <1>7, <2>5, <2>6
<1> QED
  BY <1>4, <1>5, <1>6, <1>7

\* send() leaves what is watched as it is.
LEMMA QueueFollows ==
  ASSUME NEW k, Sound(k), k.sock \in Live
  PROVE  Follows(k, Queue(k)) /\ (Armed(k) => Armed(Queue(k)))
<1> DEFINE more == [k EXCEPT !.owed = @ + 1, !.unseen = @ + 1,
                             !.late = @ /\ (k.owed > 0 \/ k.sock = "shaking")]
<1>1. CASE k.sock = "shut"
  BY <1>1 DEF Queue, Follows
<1>2. CASE k.sock # "shut" /\ k.owed + 1 > Limit
  <2>1. Queue(k) = Shut(k)
    BY <1>2 DEF Queue
  <2>2. Follows(k, Shut(k)) /\ Shut(k).sock = "shut"
    BY ShutFollows
  <2> QED
    BY <2>1, <2>2 DEF Armed
<1>3. CASE k.sock # "shut" /\ ~(k.owed + 1 > Limit)
  <2>1. k.owed + 1 \in 0 .. Limit
    BY <1>3 DEF Sound, Connection
  <2>2. /\ more.tls = k.tls /\ more.owed = k.owed + 1 /\ more.unseen = k.owed + 1
        /\ more.sock = k.sock /\ more.paused = k.paused /\ (more.late => k.late)
        /\ more.mask = k.mask /\ more.watch = k.watch
    BY DEF Sound, Connection
  <2>3. more \in Connection
    BY <2>1 DEF Sound, Connection
  <2>4. Queue(k) = more
    BY <1>3 DEF Queue
  <2> HIDE DEF more
  <2> QED
    BY <2>2, <2>3, <2>4 DEF Follows, Sound, Armed
<1> QED
  BY <1>1, <1>2, <1>3

LEMMA BufferServes ==
  ASSUME NEW k, Sound(k), k.sock \in Live, NEW fails \in BOOLEAN
  PROVE  Serves(k, fails, Keep(Buffer(k, fails)))
<1>1. Follows(k, Queue(k)) /\ (Armed(k) => Armed(Queue(k)))
  BY QueueFollows
<1>2. Armed(k) => (Queue(k).sock # "shut" => Queue(k).mask = Queue(k).watch)
  BY <1>1 DEF Armed, Follows, Live
<1> QED
  BY <1>1, <1>2, KeepServes DEF Buffer

LEMMA SetReadPausedSettles ==
  ASSUME NEW k, Sound(k), k.sock \in Live, NEW paused \in BOOLEAN, NEW fails \in BOOLEAN
  PROVE  LET r == SetReadPaused(k, paused, fails) IN
         /\ Sound(r) /\ r.sock \in Live /\ r.paused = paused /\ (r.late => k.late)
         /\ r.tls \in {0, k.tls} /\ (r.sock = "shaking" => k.sock = "shaking")
         /\ ~fails /\ Armed(k) => Armed(r)
         /\ ~fails /\ Settled(k) => Settled(r)
<1> DEFINE new == [k EXCEPT !.paused = paused]
<1>1. CASE k.paused = paused
  BY <1>1 DEF SetReadPaused
<1>2. CASE k.paused # paused
  <2>1. /\ new \in Connection /\ new.unseen = new.owed /\ new.tls = k.tls /\ new.sock = k.sock
        /\ new.paused = paused /\ new.late = k.late
        /\ new.mask = k.mask /\ new.watch = k.watch
    BY DEF Sound, Connection
  <2>2. SetReadPaused(k, paused, fails) = UpdateInterest(new, fails)
    BY <1>2 DEF SetReadPaused
  <2> HIDE DEF new
  <2>3. Sound(new)
    BY <2>1 DEF Sound
  <2>4. Follows(new, UpdateInterest(new, fails))
    BY <2>1, <2>3, UpdateInterestFollows
  <2>5. ~fails /\ Armed(k) => Settled(UpdateInterest(new, fails))
    BY <2>1, <2>3, UpdateInterestSettles DEF Armed, Live
  <2> QED
    BY <2>1, <2>2, <2>4, <2>5 DEF Follows, Armed, Settled
<1> QED
  BY <1>1, <1>2

-----------------------------------------------------------------------------
(***************************************************************************)
(* The server                                                              *)
(***************************************************************************)
\* The selector takes every socket; a TELNET connection has its negotiation to
\* send before it is first watched for writing.
Friendly == ~RegisterFails /\ Protocol # "TELNET"

\* Of a client that is not being served nothing is kept.
Idle(k) == k.sock \notin Live => k.paused = FALSE /\ k.owed = 0

\* A queued client that is let in.
LEMMA JoinSettles ==
  ASSUME NEW k, Sound(k), k.sock = "queued", Idle(k), behind \in BOOLEAN,
         NEW fails \in BOOLEAN, NEW again \in BOOLEAN
  PROVE  LET j == Join(Fresh(k), fails, again) IN
         /\ Sound(j) /\ j.sock \in Live /\ j.tls = 0
         /\ ~fails /\ ~again /\ Protocol # "TELNET" => Settled(j) /\ j.paused = behind
<1> DEFINE f == Fresh(k)
           w == IF fails THEN {} ELSE {"r"}
           a == [f EXCEPT !.mask = {"r"}, !.watch = w]
<1>1. k.paused = FALSE /\ k.owed = 0 /\ k.unseen = 0 /\ k.tls = 0 /\ 1 \in 0 .. Limit
  BY DEF Idle, Live, Sound
<1>2. /\ f \in Connection /\ f.unseen = f.owed /\ f.tls = 0 /\ f.paused = FALSE
      /\ f.sock \in {"shaking", "open"} /\ (f.sock = "shaking" => f.want = {"r"})
      /\ Protocol # "TELNET" => f.owed = 0
  <2>1. CASE Protocol = "TLS"
    BY <1>1, <2>1 DEF Fresh, Sound, Connection, Events
  <2>2. CASE Protocol = "TELNET"
    BY <1>1, <2>2 DEF Fresh, Sound, Connection, Events
  <2>3. CASE Protocol \notin {"TLS", "TELNET"}
    BY <1>1, <2>3 DEF Fresh, Sound, Connection, Events
  <2> QED
    BY <2>1, <2>2, <2>3
<1>3. w \in SUBSET Events /\ (~fails => w = {"r"}) /\ {"r"} \in SUBSET Events
  BY DEF Events
<1> HIDE DEF f, w
<1>4. /\ a \in Connection /\ a.tls = f.tls /\ a.unseen = f.unseen /\ a.owed = f.owed /\ a.sock = f.sock
      /\ a.paused = FALSE /\ a.want = f.want /\ a.mask = {"r"} /\ a.watch = w
  BY <1>2, <1>3 DEF Connection
<1>5. Join(f, fails, again) = IF behind /\ ~fails THEN SetReadPaused(a, TRUE, again) ELSE a
  BY DEF Join, w
<1> HIDE DEF a
<1>6. Sound(a) /\ a.sock \in Live /\ a.tls = 0
  BY <1>2, <1>4 DEF Sound, Live
<1>7. ~fails /\ Protocol # "TELNET" => Settled(a)
  <2>1. SUFFICES ASSUME ~fails, Protocol # "TELNET" PROVE WantedEvents(a) = {"r"}
    BY <1>3, <1>4 DEF Settled
  <2>2. a.owed = 0
    BY <1>2, <1>4, <2>1
  <2> QED
    BY <1>2, <1>4, <2>2 DEF WantedEvents, Events
<1>8. LET p == SetReadPaused(a, TRUE, again) IN
      /\ Sound(p) /\ p.sock \in Live /\ p.paused = TRUE /\ p.tls \in {0, a.tls}
      /\ ~again /\ Settled(a) => Settled(p)
  BY <1>6, SetReadPausedSettles
<1> QED
  BY <1>4, <1>5, <1>6, <1>7, <1>8 DEF f

Clocks ==
  /\ listener \in {"watched", "cooling", "cooled", "deaf", "closed"}
  /\ scarce \in BOOLEAN /\ behind \in BOOLEAN /\ knock \in BOOLEAN
  /\ peer \in [Clients -> {"there", "slow", "left"}]
  /\ phase \in {"select", "serve"}
  /\ batch \in [Clients -> SUBSET Events]
  /\ reading = {} \/ \E c \in Clients : reading = {c}

\* TLS holds something back only of the connection that is being read.
Sockets ==
  /\ con \in [Clients -> Connection]
  /\ \A c \in Clients : Sound(con[c]) /\ Idle(con[c])
  /\ \A c \in Clients \ reading : con[c].tls = 0
  /\ \A c \in reading : con[c].sock # "shaking"
  /\ tracked \subseteq {c \in Clients : con[c].sock \in Live}
  /\ known \subseteq Clients

\* Whoever is on the list is watched for what it wants, and read unless the
\* server is held back; the one that is being read may have got an answer.
Watched ==
  \A c \in tracked :
    /\ con[c].paused = behind
    /\ Armed(con[c])
    /\ c \notin reading => Settled(con[c])

IInv == Clocks /\ Sockets /\ (Friendly => Watched)

\* Nobody who was in time is late after the step.
NoneLater ==
  \A c \in Clients : con[c].sock = "open" /\ con'[c].late => con[c].late

LEMMA GoneIsIdle ==
  /\ Gone \in Connection /\ Sound(Gone) /\ Idle(Gone) /\ Gone.late = FALSE
  /\ Gone.tls = 0 /\ Gone.sock = "gone"
<1>1. 0 \in 0 .. Limit /\ 0 \in 0 .. Backlog
  OBVIOUS
<1>2. Nothing \in Connection
  BY <1>1 DEF Nothing, Connection
<1>3. /\ Nothing.paused = FALSE /\ Nothing.owed = 0 /\ Nothing.unseen = 0 /\ Nothing.tls = 0
      /\ Nothing.late = FALSE
  BY DEF Nothing
<1>4. Gone \in Connection
  BY <1>2 DEF Gone, Connection
<1>5. /\ Gone.paused = FALSE /\ Gone.owed = 0 /\ Gone.unseen = 0 /\ Gone.tls = 0
      /\ Gone.late = FALSE
      /\ Gone.sock = "gone"
  BY <1>2, <1>3 DEF Gone, Connection
<1> QED
  BY <1>4, <1>5 DEF Sound, Idle, Live

\* One connection is replaced by what it has become.
LEMMA OneChanges ==
  ASSUME IInv, NEW c \in Clients, NEW r, Sound(r), Idle(r),
         con' = [con EXCEPT ![c] = r],
         tracked' \subseteq tracked \cup {c}, c \in tracked' => r.sock \in Live,
         known' \subseteq known \cup {c}, behind' = behind,
         Friendly /\ c \in tracked' => r.paused = behind /\ Armed(r),
         Friendly /\ c \in tracked' => (c \notin reading' => Settled(r)),
         c \notin reading' => r.tls = 0, c \in reading' => r.sock # "shaking",
         reading \subseteq reading' \cup {c}, reading' \subseteq reading \cup {c},
         con[c].sock = "open" /\ r.late => con[c].late
  PROVE  Sockets' /\ (Friendly => Watched') /\ NoneLater
<1>1. con' \in [Clients -> Connection]
  BY DEF IInv, Sockets, Sound
<1>2. \A d \in Clients : con'[d] = IF d = c THEN r ELSE con[d]
  BY DEF IInv, Sockets
<1>3. Sockets'
  BY <1>1, <1>2 DEF IInv, Sockets
<1>4. Friendly => Watched'
  BY <1>2 DEF IInv, Sockets, Watched
<1>5. NoneLater
  BY <1>2 DEF NoneLater
<1> QED
  BY <1>3, <1>4, <1>5

\* Some of the connections are dropped.
LEMMA SomeAreDropped ==
  ASSUME IInv, NEW who \in SUBSET Clients, DropAll(who), UNCHANGED <<behind, reading>>
  PROVE  Sockets' /\ (Friendly => Watched') /\ NoneLater
<1>1. \A d \in Clients : con'[d] = IF d \in who THEN Gone ELSE con[d]
  BY DEF DropAll
<1>2. con' \in [Clients -> Connection]
  BY GoneIsIdle DEF DropAll, IInv, Sockets
<1>3. tracked' = tracked \ who /\ known' \subseteq known
  BY DEF DropAll
<1>4. Sockets'
  <2>1. \A d \in Clients : Sound(con'[d]) /\ Idle(con'[d])
    BY <1>1, GoneIsIdle DEF IInv, Sockets
  <2>2. \A d \in Clients \ reading' : con'[d].tls = 0
    BY <1>1, GoneIsIdle DEF IInv, Sockets
  <2>3. \A d \in reading' : con'[d].sock # "shaking"
    <3>1. reading \subseteq Clients
      BY DEF IInv, Clocks
    <3> QED
      BY <1>1, <3>1, GoneIsIdle DEF IInv, Sockets
  <2>4. tracked' \subseteq {d \in Clients : con'[d].sock \in Live} /\ known' \subseteq Clients
    BY <1>1, <1>3 DEF IInv, Sockets
  <2> QED
    BY <1>2, <2>1, <2>2, <2>3, <2>4 DEF Sockets
<1>5. Friendly => Watched'
  BY <1>1, <1>3 DEF IInv, Sockets, Watched
<1>6. NoneLater
  BY <1>1, GoneIsIdle DEF NoneLater
<1> QED
  BY <1>4, <1>5, <1>6

\* Everybody on the list is told something.
LEMMA AllAreTold ==
  ASSUME IInv, con' = [c \in Clients |-> con'[c]],
         \A c \in Clients \ tracked : con'[c] = con[c],
         \A c \in tracked :
            /\ Sound(con'[c]) /\ con'[c].sock \in Live
            /\ con'[c].tls \in {0, con[c].tls}
            /\ con'[c].sock = "shaking" => con[c].sock = "shaking"
            /\ Friendly => con'[c].paused = behind' /\ Armed(con'[c])
            /\ Friendly => (c \notin reading => Settled(con'[c]))
            /\ con'[c].late => con[c].late,
         UNCHANGED <<tracked, known, reading>>
  PROVE  Sockets' /\ (Friendly => Watched') /\ NoneLater
<1>1. \A c \in Clients : con'[c] \in Connection /\ Sound(con'[c]) /\ Idle(con'[c])
  BY DEF IInv, Sockets, Sound, Idle
<1>2. con' \in [Clients -> Connection]
  BY <1>1
<1>3. Sockets'
  <2>1. \A c \in Clients \ reading' : con'[c].tls = 0
    BY DEF IInv, Sockets
  <2>2. \A c \in reading' : con'[c].sock # "shaking"
    <3>1. reading \subseteq Clients
      BY DEF IInv, Clocks
    <3> QED
      BY <3>1 DEF IInv, Sockets
  <2>3. tracked' \subseteq {c \in Clients : con'[c].sock \in Live} /\ known' \subseteq Clients
    BY DEF IInv, Sockets
  <2> QED
    BY <1>1, <1>2, <2>1, <2>2, <2>3 DEF Sockets
<1>4. Friendly => Watched'
  BY DEF Watched
<1>5. NoneLater
  BY DEF NoneLater
<1> QED
  BY <1>3, <1>4, <1>5

\* What became of a connection that was served.
LEMMA PutKeeps ==
  ASSUME IInv, NEW c \in Clients, con[c].sock \in Live, NEW fails \in BOOLEAN,
         Friendly => ~fails, NEW out, Serves(con[c], fails, out), Put(c, out),
         UNCHANGED <<behind, reading>>
  PROVE  Sockets' /\ (Friendly => Watched') /\ NoneLater
<1> DEFINE r == IF out.drop THEN Gone ELSE out.con
<1>1. Sound(r) /\ Idle(r)
  BY GoneIsIdle DEF Serves, Follows, Idle
<1>2. c \in tracked' => r = out.con /\ c \in tracked
  BY DEF Put, Serves
<1>3. c \in tracked' => r.sock \in Live /\ r.paused = con[c].paused
  BY <1>2 DEF Serves, Follows
<1>4. Friendly /\ c \in tracked' =>
        r.paused = behind /\ Armed(r) /\ (c \notin reading' => Settled(r))
  BY <1>2, <1>3 DEF IInv, Watched, Serves
<1>5. con' = [con EXCEPT ![c] = r] /\ tracked' \subseteq tracked \cup {c}
      /\ known' \subseteq known \cup {c}
  BY DEF Put
<1>6. r.late => con[c].late
  BY GoneIsIdle DEF Serves, Follows
<1>7. /\ c \notin reading' => r.tls = 0
      /\ c \in reading' => r.sock # "shaking"
  BY GoneIsIdle DEF Serves, Follows, IInv, Sockets
<1> HIDE DEF r
<1> QED
  BY <1>1, <1>3, <1>4, <1>5, <1>6, <1>7, OneChanges

-----------------------------------------------------------------------------
(***************************************************************************)
(* The steps that serve connections, or change them                        *)
(***************************************************************************)
LEMMA FailIsBoolean ==
  ASSUME NEW fails \in Fail
  PROVE  fails \in BOOLEAN /\ (Friendly => ~fails)
BY DEF Fail, Friendly

\* Writing, and then reading from what writing has left.
LEMMA FlushAndReadServe ==
  ASSUME NEW c \in Clients, NEW k, Sound(k), k.sock \in Live,
         NEW fails \in BOOLEAN, NEW again \in BOOLEAN,
         NEW flushed, flushed = Keep(k) \/ flushed \in Flush(c, k, fails),
         NEW out, out = flushed \/ out \in NotReceived(c, flushed.con, again)
  PROVE  Serves(k, fails \/ again, out)
<1>1. Serves(k, fails, flushed)
  <2>1. Serves(k, fails, Keep(k))
    BY DEF Serves, Follows, Keep
  <2> QED
    BY <2>1, FlushServes
<1>2. CASE out = flushed
  BY <1>1, <1>2 DEF Serves
<1>3. CASE out \in NotReceived(c, flushed.con, again)
  <2>1. Sound(flushed.con) /\ flushed.con.sock \in Live
    BY <1>1 DEF Serves, Follows
  <2>2. Serves(flushed.con, again, out)
    BY <1>3, <2>1, NotReceivedServes
  <2>3. Follows(k, out.con)
    BY <1>1, <2>2, FollowsTwice DEF Serves
  <2> QED
    BY <1>1, <2>2, <2>3 DEF Serves
<1> QED
  BY <1>2, <1>3

LEMMA DispatchKeeps ==
  ASSUME IInv, NEW c \in Clients, Dispatch(c)
  PROVE  Sockets' /\ (Friendly => Watched') /\ NoneLater
<1> DEFINE k == con[c]
<1>0. Sound(k) /\ behind' = behind /\ reading = {}
  BY DEF IInv, Sockets, Dispatch
<1>1. PICK fails \in Fail, again \in Fail :
         IF c \notin known THEN UNCHANGED <<con, tracked, known, reading>>
         ELSE IF k.sock \notin {"shaking", "open"} THEN
           Put(c, [con |-> k, drop |-> k.sock = "shut"]) /\ UNCHANGED reading
         ELSE IF k.sock = "shaking" THEN
           \E out \in Handshake(c, k, fails) : Put(c, out) /\ UNCHANGED reading
         ELSE
           \E flushed \in IF "w" \in batch[c] THEN Flush(c, k, fails) ELSE {Keep(k)} :
             IF "r" \in batch[c] /\ ~flushed.drop
               THEN \/ \E r \in Received(flushed.con) : Put(c, Keep(r)) /\ reading' = {c}
                    \/ \E out \in NotReceived(c, flushed.con, again) :
                         Put(c, out) /\ UNCHANGED reading
               ELSE Put(c, flushed) /\ UNCHANGED reading
  BY Zenon DEF Dispatch
<1>2. /\ fails \in BOOLEAN /\ again \in BOOLEAN
      /\ Friendly => ~fails /\ ~again
  BY FailIsBoolean
<1>3. CASE c \notin known
  BY <1>0, <1>1, <1>3 DEF IInv, Sockets, Watched, NoneLater
<1>4. CASE c \in known /\ k.sock \notin {"shaking", "open"}
  <2> DEFINE out == [con |-> k, drop |-> k.sock = "shut"]
  <2>0. out.con = k /\ out.drop = (k.sock = "shut")
    OBVIOUS
  <2>1. Put(c, out) /\ UNCHANGED reading
    BY <1>1, <1>4
  <2> HIDE DEF out
  <2>2. CASE k.sock = "shut"
    <3>1. Serves(k, fails, out)
      BY <1>0, <2>0, <2>2 DEF Serves, Follows, Live
    <3> QED
      BY <1>0, <1>2, <2>1, <2>2, <3>1, PutKeeps DEF Live
  <2>3. CASE k.sock # "shut"
    <3>1. con' = [con EXCEPT ![c] = k] /\ tracked' = tracked /\ known' = known
      BY <2>0, <2>1, <2>3 DEF Put
    <3>2. con' = con
      BY <3>1 DEF IInv, Sockets
    <3> QED
      BY <1>0, <2>1, <3>1, <3>2 DEF IInv, Sockets, Watched, NoneLater
  <2> QED
    BY <2>2, <2>3
<1>5. CASE c \in known /\ k.sock = "shaking"
  <2>1. PICK out \in Handshake(c, k, fails) : Put(c, out) /\ UNCHANGED reading
    BY <1>1, <1>5, Zenon
  <2>2. Serves(k, fails, out)
    BY <1>0, <1>2, <1>5, HandshakeServes
  <2> QED
    BY <1>0, <1>2, <1>5, <2>1, <2>2, PutKeeps DEF Live
<1>6. CASE c \in known /\ k.sock = "open"
  <2>1. PICK flushed \in IF "w" \in batch[c] THEN Flush(c, k, fails) ELSE {Keep(k)} :
             IF "r" \in batch[c] /\ ~flushed.drop
               THEN \/ \E r \in Received(flushed.con) : Put(c, Keep(r)) /\ reading' = {c}
                    \/ \E out \in NotReceived(c, flushed.con, again) :
                         Put(c, out) /\ UNCHANGED reading
               ELSE Put(c, flushed) /\ UNCHANGED reading
    BY <1>1, <1>6, Zenon
  <2>2. flushed = Keep(k) \/ flushed \in Flush(c, k, fails)
    BY <2>1
  <2>3. CASE \E out : /\ Put(c, out) /\ UNCHANGED reading
                      /\ out = flushed \/ out \in NotReceived(c, flushed.con, again)
    <3>1. PICK out : /\ Put(c, out) /\ UNCHANGED reading
                     /\ out = flushed \/ out \in NotReceived(c, flushed.con, again)
      BY <2>3
    <3>2. Serves(k, fails \/ again, out)
      BY <1>0, <1>2, <1>6, <2>2, <3>1, FlushAndReadServe DEF Live
    <3>3. (fails \/ again) \in BOOLEAN /\ (Friendly => ~(fails \/ again))
      BY <1>2
    <3> QED
      BY <1>0, <1>6, <3>1, <3>2, <3>3, PutKeeps DEF Live
  <2>4. CASE \E r \in Received(flushed.con) : Put(c, Keep(r)) /\ reading' = {c}
    <3>1. PICK r \in Received(flushed.con) : Put(c, Keep(r)) /\ reading' = {c}
      BY <2>4
    <3>2. Serves(k, fails, flushed)
      <4>1. Serves(k, fails, Keep(k))
        BY <1>0, <1>6 DEF Serves, Follows, Keep, Live
      <4> QED
        BY <1>0, <1>2, <1>6, <2>2, <4>1, FlushServes DEF Live
    <3>3. /\ Sound(r) /\ r.sock = "open"
          /\ r.paused = k.paused /\ (r.late => k.late)
          /\ ~fails /\ Armed(k) => Armed(r)
      BY <3>2, ReceivedFits DEF Serves, Follows
    <3>4. con' = [con EXCEPT ![c] = r] /\ tracked' = tracked /\ known' = known
      BY <3>1 DEF Put, Keep
    <3>5. Friendly /\ c \in tracked' => r.paused = behind /\ Armed(r)
      BY <1>2, <3>3, <3>4 DEF IInv, Watched
    <3> QED
      BY <1>0, <3>1, <3>3, <3>4, <3>5, OneChanges DEF Idle, Live
  <2> QED
    BY <2>1, <2>3, <2>4, Zenon
<1> QED
  BY <1>3, <1>4, <1>5, <1>6

\* Reading on, or being done with it.
LEMMA ReadOnKeeps ==
  ASSUME IInv, NEW c \in Clients, ReadOn(c)
  PROVE  Sockets' /\ (Friendly => Watched') /\ NoneLater
<1> DEFINE k == con[c]
<1>0. /\ Sound(k) /\ Idle(k) /\ reading = {c} /\ k.sock # "shaking"
      /\ UNCHANGED <<behind, tracked, known>>
  BY DEF IInv, Clocks, Sockets, ReadOn
<1>1. CASE k.sock = "open" /\ Pending(k)
  <2> DEFINE r == [k EXCEPT !.tls = @ - 1]
  <2>1. con' = [con EXCEPT ![c] = r] /\ reading' = reading
    BY <1>1 DEF ReadOn, IInv, Sockets
  <2>2. k.tls - 1 \in 0 .. Backlog
    BY <1>0, <1>1 DEF Pending, Sound, Connection
  <2>3. /\ r \in Connection /\ r.unseen = k.unseen /\ r.owed = k.owed /\ r.sock = k.sock
        /\ r.paused = k.paused /\ r.late = k.late /\ r.mask = k.mask /\ r.watch = k.watch
    BY <1>0, <2>2 DEF Sound, Connection
  <2> HIDE DEF r
  <2>4. Sound(r) /\ Idle(r) /\ r.sock \in Live
    BY <1>0, <1>1, <2>3 DEF Sound, Idle, Live
  <2>5. Friendly /\ c \in tracked' => r.paused = behind /\ Armed(r)
    BY <1>0, <2>3 DEF IInv, Watched, Armed
  <2> QED
    BY <1>0, <1>1, <2>1, <2>3, <2>4, <2>5, OneChanges
<1>2. CASE k.sock = "open" /\ ~Pending(k)
  <2>1. PICK fails \in Fail : con' = [con EXCEPT ![c] = UpdateInterest(@, fails)]
    BY <1>2 DEF ReadOn
  <2> DEFINE r == UpdateInterest(k, fails)
  <2>2. con' = [con EXCEPT ![c] = r] /\ reading' = {}
    BY <1>2, <2>1 DEF ReadOn, IInv, Sockets
  <2>3. fails \in BOOLEAN /\ (Friendly => ~fails)
    BY FailIsBoolean
  <2>4. k.tls = 0
    BY <1>0, <1>2 DEF Pending, Sound, Connection
  <2>5. Follows(k, r)
    BY <1>0, <1>2, <2>3, UpdateInterestFollows DEF Live
  <2>6. Friendly /\ c \in tracked' => r.paused = behind /\ Settled(r)
    <3>1. Friendly /\ c \in tracked' => k.paused = behind /\ k.mask = k.watch
      BY <1>0, <1>2 DEF IInv, Watched, Armed
    <3>2. ~fails /\ k.mask = k.watch => Settled(r)
      <4>1. ASSUME fails = FALSE, k.mask = k.watch
            PROVE  Settled(UpdateInterest(k, FALSE))
        BY <1>0, <1>2, <4>1, UpdateInterestSettles DEF Live
      <4> QED
        BY <2>3, <4>1
    <3> QED
      BY <2>3, <2>5, <3>1, <3>2 DEF Follows
  <2> HIDE DEF r
  <2>7. Sound(r) /\ Idle(r) /\ r.sock \in Live /\ r.tls = 0 /\ (r.late => k.late)
    BY <2>4, <2>5 DEF Follows, Idle
  <2> QED
    BY <1>0, <2>2, <2>6, <2>7, OneChanges DEF Armed, Settled
<1>3. CASE k.sock # "open"
  <2>1. con' = con /\ reading' = {}
    BY <1>3 DEF ReadOn
  <2>2. k.tls = 0 /\ Settled(k)
    BY <1>0, <1>3 DEF Sound, Settled
  <2> QED
    BY <1>0, <2>1, <2>2 DEF IInv, Sockets, Watched, NoneLater
<1> QED
  BY <1>1, <1>2, <1>3

\* An answer is queued, and no more.
LEMMA AnswerKeeps ==
  ASSUME IInv, NEW c \in Clients, Answer(c)
  PROVE  Sockets' /\ (Friendly => Watched') /\ NoneLater
<1> DEFINE k == con[c]
           r == Queue(k)
<1>0. /\ Sound(k) /\ k.sock = "open" /\ c \in reading
      /\ UNCHANGED <<behind, tracked, known, reading>>
  BY DEF IInv, Sockets, Answer, loopVars
<1>1. con' = [con EXCEPT ![c] = r]
  BY DEF Answer, IInv, Sockets
<1>2. Follows(k, r) /\ (Armed(k) => Armed(r))
  BY <1>0, QueueFollows DEF Live
<1> HIDE DEF r
<1>3. Sound(r) /\ Idle(r) /\ r.sock \in Live /\ r.sock # "shaking" /\ (r.late => k.late)
  BY <1>0, <1>2 DEF Follows, Idle
<1>4. Friendly /\ c \in tracked' => r.paused = behind /\ Armed(r)
  BY <1>0, <1>2 DEF Follows, IInv, Watched
<1> QED
  BY <1>0, <1>1, <1>3, <1>4, OneChanges

LEMMA AdmitKeeps ==
  ASSUME IInv, NEW c \in Clients, con[c].sock = "queued", Admit(c), behind' = behind,
         reading = {}, reading' = {}
  PROVE  Sockets' /\ (Friendly => Watched') /\ NoneLater
<1>1. PICK fails \in Fail, again \in Fail, more \in Fail :
        \E out \in IF Protocol = "TLS" /\ ~fails
                     THEN Handshake(c, Join(Fresh(con[c]), fails, again), more)
                     ELSE {Keep(Join(Fresh(con[c]), fails, again))} :
           /\ con' = [con EXCEPT ![c] = IF out.drop THEN Gone ELSE out.con]
           /\ tracked' = IF out.drop THEN tracked ELSE tracked \cup {c}
           /\ known' = IF out.drop /\ out.con.sock # "shut" THEN known ELSE known \cup {c}
  BY Zenon DEF Admit
<1> DEFINE k == Join(Fresh(con[c]), fails, again)
<1>2. /\ fails \in BOOLEAN /\ again \in BOOLEAN /\ more \in BOOLEAN
      /\ Friendly => ~fails /\ ~again /\ ~more
  BY FailIsBoolean
<1>3. /\ Sound(k) /\ k.sock \in Live /\ k.tls = 0
      /\ Friendly => Settled(k) /\ k.paused = behind
  <2>1. Sound(con[c]) /\ Idle(con[c]) /\ behind \in BOOLEAN
    BY DEF IInv, Clocks, Sockets
  <2> QED
    BY <1>2, <2>1, JoinSettles DEF Friendly
<1> HIDE DEF k
<1>4. PICK out \in IF Protocol = "TLS" /\ ~fails THEN Handshake(c, k, more) ELSE {Keep(k)} :
           /\ con' = [con EXCEPT ![c] = IF out.drop THEN Gone ELSE out.con]
           /\ tracked' = IF out.drop THEN tracked ELSE tracked \cup {c}
           /\ known' = IF out.drop /\ out.con.sock # "shut" THEN known ELSE known \cup {c}
  BY <1>1, Zenon DEF k
<1>5. Serves(k, more, out)
  <2>1. CASE out = Keep(k)
    BY <1>3, <2>1 DEF Serves, Follows, Keep
  <2>2. CASE out \in Handshake(c, k, more)
    BY <1>2, <1>3, <2>2, HandshakeServes DEF Live
  <2> QED
    BY <1>4, <2>1, <2>2
<1> DEFINE r == IF out.drop THEN Gone ELSE out.con
<1>6. Sound(r) /\ Idle(r) /\ r.tls = 0
  BY <1>3, <1>5, GoneIsIdle DEF Serves, Follows, Idle
<1>7. c \notin tracked
  BY DEF IInv, Sockets, Live
<1>8. c \in tracked' => r = out.con
  BY <1>4, <1>5, <1>7 DEF Serves
<1>9. c \in tracked' => r.sock \in Live /\ (Friendly => Settled(r) /\ r.paused = behind)
  BY <1>2, <1>3, <1>5, <1>8 DEF Serves, Follows
<1>10. con' = [con EXCEPT ![c] = r] /\ tracked' \subseteq tracked \cup {c}
       /\ known' \subseteq known \cup {c}
  BY <1>4
<1> HIDE DEF r
<1> QED
  BY <1>6, <1>9, <1>10, OneChanges DEF Armed, Settled

LEMMA AcceptKeeps ==
  ASSUME IInv, Accept
  PROVE  Sockets' /\ (Friendly => Watched') /\ NoneLater
<1>0. behind' = behind /\ reading = {} /\ reading' = {}
  BY DEF Accept
<1>1. CASE UNCHANGED <<con, tracked, known>>
  BY <1>0, <1>1 DEF IInv, Sockets, Watched, NoneLater
<1>2. ASSUME NEW c \in Queued, Admit(c)
      PROVE  Sockets' /\ (Friendly => Watched') /\ NoneLater
  BY <1>0, <1>2, AdmitKeeps DEF Queued
<1>3. ASSUME NEW c \in Queued, Refuse(c)
      PROVE  Sockets' /\ (Friendly => Watched') /\ NoneLater
  <2>1. c \in Clients /\ con[c].sock = "queued" /\ c \notin tracked
    BY DEF IInv, Sockets, Queued, Live
  <2>2. con' = [con EXCEPT ![c] = Gone] /\ tracked' = tracked /\ known' = known
    BY <1>3 DEF Refuse
  <2> QED
    BY <1>0, <2>1, <2>2, GoneIsIdle, OneChanges
<1> QED
  BY <1>1, <1>2, <1>3 DEF Accept

LEMMA SendKeeps ==
  ASSUME IInv, Send
  PROVE  Sockets' /\ (Friendly => Watched') /\ NoneLater
<1>1. PICK failing \in IF RegisterFails THEN SUBSET tracked ELSE {{}} :
         con' = [c \in Clients |->
                   IF c \in tracked THEN Buffer(con[c], c \in failing) ELSE con[c]]
  BY DEF Send
<1>2. UNCHANGED <<behind, tracked, known, reading>> /\ (Friendly => failing = {})
  BY <1>1 DEF Send, Friendly, loopVars
<1>3. ASSUME NEW c \in tracked
      PROVE  /\ Sound(con'[c]) /\ con'[c].sock \in Live
             /\ con'[c].tls \in {0, con[c].tls}
             /\ con'[c].sock = "shaking" => con[c].sock = "shaking"
             /\ Friendly => con'[c].paused = behind' /\ Armed(con'[c])
             /\ Friendly => (c \notin reading => Settled(con'[c]))
             /\ con'[c].late => con[c].late
  <2> DEFINE fails == c \in failing
             r == Buffer(con[c], fails)
  <2>1. c \in Clients /\ Sound(con[c]) /\ con[c].sock \in Live
        /\ (Friendly => con[c].paused = behind /\ Armed(con[c])
                        /\ (c \notin reading => Settled(con[c])))
    BY DEF IInv, Sockets, Watched
  <2>2. con'[c] = r
    BY <1>1, <2>1
  <2>3. fails \in BOOLEAN /\ (Friendly => ~fails)
    BY <1>2
  <2>4. Keep(r).con = r
    BY DEF Keep
  <2> HIDE DEF fails
  <2>5. Serves(con[c], fails, Keep(r))
    BY <2>1, <2>3, BufferServes
  <2> HIDE DEF r
  <2> QED
    BY <1>2, <2>1, <2>2, <2>3, <2>4, <2>5 DEF Serves, Follows
<1>4. con' = [c \in Clients |-> con'[c]] /\ \A c \in Clients \ tracked : con'[c] = con[c]
  BY <1>1
<1> QED
  BY <1>2, <1>3, <1>4, AllAreTold

LEMMA PauseKeeps ==
  ASSUME IInv, Pause
  PROVE  Sockets' /\ (Friendly => Watched') /\ NoneLater
<1>1. PICK failing \in IF RegisterFails THEN SUBSET tracked ELSE {{}} :
         con' = [c \in Clients |->
                   IF c \in tracked THEN SetReadPaused(con[c], behind', c \in failing)
                   ELSE con[c]]
  BY DEF Pause
<1>2. /\ UNCHANGED <<tracked, known, reading>> /\ behind' \in BOOLEAN
      /\ Friendly => failing = {}
  BY <1>1 DEF Pause, Friendly, loopVars
<1>3. ASSUME NEW c \in tracked
      PROVE  /\ Sound(con'[c]) /\ con'[c].sock \in Live
             /\ con'[c].tls \in {0, con[c].tls}
             /\ con'[c].sock = "shaking" => con[c].sock = "shaking"
             /\ Friendly => con'[c].paused = behind' /\ Armed(con'[c])
             /\ Friendly => (c \notin reading => Settled(con'[c]))
             /\ con'[c].late => con[c].late
  <2> DEFINE fails == c \in failing
             r == SetReadPaused(con[c], behind', fails)
  <2>1. c \in Clients /\ Sound(con[c]) /\ con[c].sock \in Live
        /\ (Friendly => con[c].paused = behind /\ Armed(con[c])
                        /\ (c \notin reading => Settled(con[c])))
    BY DEF IInv, Sockets, Watched
  <2>2. con'[c] = r
    BY <1>1, <2>1
  <2>3. fails \in BOOLEAN /\ (Friendly => ~fails)
    BY <1>2
  <2> HIDE DEF fails
  <2>4. /\ Sound(r) /\ r.sock \in Live /\ r.paused = behind' /\ (r.late => con[c].late)
        /\ r.tls \in {0, con[c].tls} /\ (r.sock = "shaking" => con[c].sock = "shaking")
        /\ ~fails /\ Armed(con[c]) => Armed(r)
        /\ ~fails /\ Settled(con[c]) => Settled(r)
    BY <1>2, <2>1, <2>3, SetReadPausedSettles
  <2> HIDE DEF r
  <2> QED
    BY <2>1, <2>2, <2>3, <2>4
<1>4. con' = [c \in Clients |-> con'[c]] /\ \A c \in Clients \ tracked : con'[c] = con[c]
  BY <1>1
<1> QED
  BY <1>2, <1>3, <1>4, AllAreTold

\* What the client says, the clock, and coming to the door leave what is
\* watched, and what should be, as they are.
LEMMA ClientKeeps ==
  ASSUME IInv, NEW c \in Clients, Arrive(c) \/ Talk(c) \/ Elapse(c)
  PROVE  /\ Sockets' /\ (Friendly => Watched')
         /\ Arrive(c) \/ Talk(c) => NoneLater
<1> DEFINE k == con[c]
<1>0. /\ Sound(k) /\ Idle(k) /\ k \in Connection
      /\ UNCHANGED <<tracked, known, behind, reading>>
      /\ (c \notin reading => k.tls = 0) /\ (c \in reading => k.sock # "shaking")
  BY DEF IInv, Sockets, Sound, Arrive, Talk, Elapse, serverVars, loopVars
<1>1. CASE Arrive(c)
  <2> DEFINE r == [k EXCEPT !.sock = "queued"]
  <2>1. con' = [con EXCEPT ![c] = r] /\ c \notin tracked
    BY <1>1 DEF Arrive, IInv, Sockets, Live
  <2>2. r \in Connection /\ r.tls = k.tls /\ r.unseen = k.unseen /\ r.owed = k.owed /\ r.paused = k.paused
        /\ r.late = k.late
    BY <1>0 DEF Connection
  <2>3. k.sock = "none"
    BY <1>1 DEF Arrive
  <2> HIDE DEF r
  <2>4. Sound(r) /\ Idle(r) /\ r.sock = "queued"
    BY <1>0, <2>2, <2>3 DEF Sound, Idle, Live, r, Connection
  <2> QED
    BY <1>0, <2>1, <2>2, <2>4, OneChanges
<1>2. CASE Talk(c)
  <2> DEFINE r == [k EXCEPT !.inbox = @ + 1]
  <2>1. con' = [con EXCEPT ![c] = r]
    BY <1>2 DEF Talk, IInv, Sockets
  <2>2. k.inbox + 1 \in 0 .. Backlog
    BY <1>0, <1>2 DEF Talk, Connection
  <2>3. /\ r \in Connection /\ r.tls = k.tls /\ r.unseen = k.unseen /\ r.owed = k.owed
        /\ r.paused = k.paused /\ r.late = k.late /\ r.sock = k.sock
        /\ r.mask = k.mask /\ r.watch = k.watch /\ r.want = k.want
    BY <1>0, <2>2 DEF Connection
  <2> HIDE DEF r
  <2>4. Sound(r) /\ Idle(r) /\ (c \in tracked => r.sock \in Live)
    BY <1>0, <2>3 DEF Sound, Idle, IInv, Sockets
  <2>5. (Settled(k) => Settled(r)) /\ (Armed(k) => Armed(r))
    BY <2>3 DEF Settled, Armed, WantedEvents
  <2>6. Friendly /\ c \in tracked =>
          r.paused = behind /\ Armed(r) /\ (c \notin reading => Settled(r))
    BY <2>3, <2>5 DEF IInv, Watched
  <2> QED
    BY <1>0, <2>1, <2>3, <2>4, <2>6, OneChanges
<1>3. CASE Elapse(c)
  <2> DEFINE r == [k EXCEPT !.late = TRUE]
  <2>1. con' = [con EXCEPT ![c] = r]
    BY <1>3 DEF Elapse, IInv, Sockets
  <2>3. /\ r \in Connection /\ r.tls = k.tls /\ r.unseen = k.unseen /\ r.owed = k.owed
        /\ r.paused = k.paused /\ r.sock = k.sock
        /\ r.mask = k.mask /\ r.watch = k.watch /\ r.want = k.want
    BY <1>0 DEF Connection
  <2> HIDE DEF r
  <2>4. Sound(r) /\ Idle(r)
    BY <1>0, <2>3 DEF Sound, Idle
  <2>5. (Settled(k) => Settled(r)) /\ (Armed(k) => Armed(r))
    BY <2>3 DEF Settled, Armed, WantedEvents
  <2>6. \A d \in Clients : con'[d] = IF d = c THEN r ELSE con[d]
    BY <2>1 DEF IInv, Sockets
  <2>7. Sockets'
    <3>1. con' \in [Clients -> Connection]
      BY <2>1, <2>3 DEF IInv, Sockets
    <3>2. \A d \in Clients : Sound(con'[d]) /\ Idle(con'[d])
      BY <2>4, <2>6 DEF IInv, Sockets
    <3>3. \A d \in Clients \ reading' : con'[d].tls = 0
      BY <1>0, <2>3, <2>6 DEF IInv, Sockets
    <3>4. \A d \in reading' : con'[d].sock # "shaking"
      <4>1. reading \subseteq Clients
        BY DEF IInv, Clocks
      <4> QED
        BY <1>0, <2>3, <2>6, <4>1 DEF IInv, Sockets
    <3>5. tracked' \subseteq {d \in Clients : con'[d].sock \in Live} /\ known' \subseteq Clients
      BY <1>0, <2>3, <2>6 DEF IInv, Sockets
    <3> QED
      BY <3>1, <3>2, <3>3, <3>4, <3>5 DEF Sockets
  <2>8. Friendly => Watched'
    BY <1>0, <2>3, <2>5, <2>6 DEF IInv, Sockets, Watched
  <2>9. ~(Arrive(c) \/ Talk(c)) \/ NoneLater
    <3>1. ~Arrive(c)
      BY <1>3 DEF Arrive, Elapse, IInv, Sockets, Live
    <3>2. ~Talk(c)
      <4>1. SUFFICES ASSUME Talk(c) PROVE FALSE
        OBVIOUS
      <4>2. con' = [con EXCEPT ![c] = [k EXCEPT !.inbox = @ + 1]]
        BY <4>1 DEF Talk, IInv, Sockets
      <4>3. con'[c].late = k.late /\ con'[c].late = TRUE
        BY <1>0, <2>1, <4>2 DEF r, Connection, IInv, Sockets
      <4> QED
        BY <1>3, <4>3 DEF Elapse
    <3> QED
      BY <3>1, <3>2
  <2> QED
    BY <2>7, <2>8, <2>9
<1> QED
  BY <1>1, <1>2, <1>3

LEMMA ClocksKeep ==
  ASSUME IInv, [Next]_vars
  PROVE  Clocks'
<1> USE DEF IInv, Clocks, vars, serverVars, loopVars
<1>1. CASE UNCHANGED vars
  BY <1>1
<1>2. CASE Select
  BY <1>2 DEF Select, Ready, Sockets, Connection
<1>3. CASE Accept
  <2>1. listener' \in {listener, "cooling"}
    BY <1>3 DEF Accept, Admit, Refuse
  <2> QED
    BY <1>3, <2>1 DEF Accept
<1>4. CASE Tick
  <2>1. listener' \in {listener, "watched", "deaf"}
    BY <1>4 DEF Tick
  <2> QED
    BY <1>4, <2>1 DEF Tick
<1>5. CASE Send \/ Pause \/ Lost \/ Close
  BY <1>5 DEF Send, Pause, Lost, Close
<1>6. CASE Descriptors \/ Cool
  BY <1>6 DEF Descriptors, Cool
<1>7. ASSUME NEW c \in Clients,
             \/ Dispatch(c) \/ ReadOn(c) \/ Answer(c) \/ Disconnect(c)
             \/ Arrive(c) \/ Talk(c) \/ Change(c) \/ Elapse(c)
      PROVE  Clocks'
  <2>1. reading' \in {{}, {c}, reading}
    BY <1>7 DEF Dispatch, ReadOn, Answer, Disconnect, Arrive, Talk, Change, Elapse
  <2> QED
    BY <1>7, <2>1 DEF Dispatch, ReadOn, Answer, Disconnect, Arrive, Talk, Change, Elapse
<1> QED
  BY <1>1, <1>2, <1>3, <1>4, <1>5, <1>6, <1>7 DEF Next

\* Every step keeps the invariant, and only the clock makes anybody late.
LEMMA StepKeeps ==
  ASSUME IInv, [Next]_vars
  PROVE  IInv' /\ (NoneLater \/ \E c \in Clients : Elapse(c))
<1> DEFINE Fine == Sockets' /\ (Friendly => Watched') /\ NoneLater
<1>1. CASE UNCHANGED vars \/ Select \/ Descriptors \/ Cool
  <2>1. UNCHANGED <<behind, con, tracked, known, reading>>
    BY <1>1 DEF vars, loopVars, Select, Descriptors, Cool
  <2>2. Fine
    BY <2>1 DEF IInv, Sockets, Watched, NoneLater
  <2> QED
    BY <2>2, ClocksKeep DEF IInv
<1>2. CASE Tick
  <2> DEFINE who == {c \in tracked : con[c].sock = "shut" \/ Stale(c)}
  <2>1. DropAll(who) /\ UNCHANGED <<behind, reading>>
    BY <1>2 DEF Tick
  <2>2. who \in SUBSET Clients
    BY DEF IInv, Sockets
  <2> HIDE DEF who
  <2> QED
    BY <2>1, <2>2, SomeAreDropped, ClocksKeep DEF IInv
<1>3. CASE Lost
  <2>1. tracked \in SUBSET Clients
    BY DEF IInv, Sockets
  <2> QED
    BY <1>3, <2>1, SomeAreDropped, ClocksKeep DEF IInv, Lost, loopVars
<1>4. CASE Close
  <2>1. tracked \cup Queued \in SUBSET Clients
    BY DEF IInv, Sockets, Queued
  <2> QED
    BY <1>4, <2>1, SomeAreDropped, ClocksKeep DEF IInv, Close, loopVars
<1>5. CASE Accept \/ Send \/ Pause
  BY <1>5, AcceptKeeps, SendKeeps, PauseKeeps, ClocksKeep DEF IInv
<1>6. ASSUME NEW c \in Clients, Disconnect(c)
      PROVE  Fine
  BY <1>6, SomeAreDropped DEF Disconnect, loopVars
<1>7. ASSUME NEW c \in Clients, Change(c)
      PROVE  Fine
  BY <1>7 DEF Change, serverVars, loopVars, IInv, Sockets, Watched, NoneLater
<1>8. ASSUME NEW c \in Clients,
             \/ Dispatch(c) \/ ReadOn(c) \/ Answer(c) \/ Disconnect(c)
             \/ Arrive(c) \/ Talk(c) \/ Change(c) \/ Elapse(c)
      PROVE  IInv' /\ (NoneLater \/ \E d \in Clients : Elapse(d))
  BY <1>6, <1>7, <1>8, DispatchKeeps, ReadOnKeeps, AnswerKeeps, ClientKeeps, ClocksKeep
     DEF IInv
<1> QED
  BY <1>1, <1>2, <1>3, <1>4, <1>5, <1>8, ClocksKeep DEF Next, IInv

-----------------------------------------------------------------------------
(***************************************************************************)
(* The theorems                                                            *)
(***************************************************************************)
LEMMA InitKeeps == Init => IInv
<1> SUFFICES ASSUME Init PROVE IInv
  OBVIOUS
<1>1. Nothing \in Connection /\ Nothing.paused = FALSE /\ Nothing.owed = 0
      /\ Nothing.unseen = 0 /\ Nothing.tls = 0
  <2>1. 0 \in 0 .. Limit /\ 0 \in 0 .. Backlog
    OBVIOUS
  <2> QED
    BY <2>1 DEF Nothing, Connection
<1>2. \A c \in Clients : con[c] = Nothing
  BY DEF Init
<1>3. Sockets
  BY <1>1, <1>2 DEF Init, Sockets, Sound, Idle
<1>4. Clocks
  BY DEF Init, Clocks
<1> QED
  BY <1>3, <1>4 DEF Init, IInv, Watched

LEMMA Inductive == Spec => []IInv
<1>1. IInv /\ [Next]_vars => IInv'
  BY StepKeeps
<1> QED
  BY <1>1, InitKeeps, PTL DEF Spec

\* Whatever the clients do and the selector refuses, the server's state is what
\* its code takes it for.
THEOREM TypeCorrect == Spec => []TypeOK
<1>1. IInv => TypeOK
  BY DEF IInv, Clocks, Sockets, TypeOK, Live
<1> QED
  BY <1>1, Inductive, PTL

\* A connected client has been given everything but what is queued for it:
\* what the limit refuses, and what is being written when something fails, ends
\* the connection (send, _flush).
THEOREM StreamsHaveNoHoles == Spec => []NoHoles
<1>1. IInv => NoHoles
  BY DEF IInv, Sockets, Sound, NoHoles, Served
<1> QED
  BY <1>1, Inductive, PTL

\* When the loop turns to anything else, nothing of a record is left inside TLS,
\* where select() would not see it: whatever on_received() does between two
\* pieces, be it to answer, to hold the server back or to lose the device, the
\* event reads on while pending() says so, or the connection is gone (_read).
THEOREM NoneIsStranded == Spec => []NothingStranded
<1>1. IInv => NothingStranded
  BY DEF IInv, Sockets, Sound, NothingStranded, Served
<1> QED
  BY <1>1, Inductive, PTL

\* As long as the selector takes every socket, each client of a server that
\* does not negotiate is watched for exactly what there is to do (attach,
\* update_interest, set_read_paused).
THEOREM InterestIsFollowed ==
  ASSUME Friendly
  PROVE  Spec => []InterestFollows
<1>1. IInv => InterestFollows
  <2>1. SUFFICES ASSUME IInv, NEW c \in Clients \ reading, Served(c)
                 PROVE  con[c].watch =
                          IF con[c].sock = "shaking" THEN con[c].want
                          ELSE {e \in Events : IF e = "r" THEN ~behind ELSE con[c].owed > 0}
    BY DEF InterestFollows
  <2>2. con[c].watch = WantedEvents(con[c]) /\ con[c].paused = behind
    BY <2>1 DEF IInv, Watched, Served, Settled
  <2> QED
    BY <2>2 DEF WantedEvents
<1> QED
  BY <1>1, Inductive, PTL

\* And only a client that takes nothing runs into the send timeout (is_stale).
THEOREM TheSlowTimeOut ==
  ASSUME Friendly
  PROVE  Spec => OnlyTheSlowTimeOut
<1> DEFINE Prompt == \A c \in Clients :
             con[c].sock = "open" /\ ~con[c].late /\ con'[c].late => peer[c] # "there"
<1>1. IInv /\ [Next]_vars => [Prompt]_vars
  <2> SUFFICES ASSUME IInv, [Next]_vars PROVE Prompt
    OBVIOUS
  <2>1. CASE NoneLater
    BY <2>1 DEF NoneLater
  <2>2. ASSUME NEW d \in Clients, Elapse(d)
        PROVE  Prompt
    <3>1. SUFFICES ASSUME con[d].sock = "open" PROVE peer[d] # "there"
      <4>1. \A c \in Clients \ {d} : con'[c] = con[c]
        BY <2>2 DEF Elapse, IInv, Sockets
      <4> QED
        BY <4>1
    <3>2. d \in tracked \ reading /\ con[d].owed > 0 /\ "w" \notin Ready(d)
      BY <2>2, <3>1 DEF Elapse
    <3>3. "w" \in con[d].watch
      BY <3>1, <3>2 DEF IInv, Watched, Settled, WantedEvents, Events
    <3> QED
      BY <3>2, <3>3 DEF Ready
  <2> QED
    BY <2>1, <2>2, StepKeeps
<1> QED
  BY <1>1, Inductive, PTL DEF Spec, OnlyTheSlowTimeOut


-----------------------------------------------------------------------------
(***************************************************************************)
(* What a filter makes of a client's stream, and a client of a filter's.   *)
(* First what every sequence does: its pieces, put one behind the other.   *)
(***************************************************************************)
HIDE SocketServerAssumption DEF SocketServerAssumption

LEMMA NumbersDescend == IsWellFoundedOn({ss \in Nat \X Nat : ss[1] < ss[2]}, Nat)
<1>1. OpToRel(<, Nat) = {ss \in Nat \X Nat : ss[1] < ss[2]}
  BY DEF OpToRel
<1> QED
  BY <1>1, NatLessThanWellFounded, Zenon

\* The smallest of some numbers.
LEMMA Smallest ==
  ASSUME NEW T \in SUBSET Nat, T # {}
  PROVE  \E x \in T : \A y \in T : x <= y
<1> DEFINE R == {ss \in Nat \X Nat : ss[1] < ss[2]}
<1>1. IsWellFoundedOn(R, Nat)
  BY NumbersDescend
<1>2. \A x, y \in Nat : <<y, x>> \notin R => x <= y
  OBVIOUS
<1> HIDE DEF R
<1>3. PICK x \in T : \A y \in T : <<y, x>> \notin R
  BY <1>1, WFMin
<1> QED
  BY <1>2, <1>3

\* A set of numbers that 0 is in, and with each that is below n the next.
LEMMA UpTo ==
  ASSUME NEW n \in Nat, NEW T, 0 \in T,
         \A k \in 0 .. n - 1 : k \in T => k + 1 \in T
  PROVE  \A k \in 0 .. n : k \in T
<1> DEFINE wrong == {k \in 0 .. n : k \notin T}
<1>1. SUFFICES ASSUME wrong # {} PROVE FALSE
  OBVIOUS
<1>2. PICK k \in wrong : \A y \in wrong : k <= y
  <2>1. wrong \in SUBSET Nat
    OBVIOUS
  <2> HIDE DEF wrong
  <2> QED
    BY <1>1, <2>1, Smallest
<1>3. k \in 0 .. n /\ k \notin T /\ k # 0
  BY <1>2
<1>4. k - 1 \in 0 .. n - 1 /\ k - 1 \in 0 .. n /\ ~(k <= k - 1) /\ (k - 1) + 1 = k
  BY <1>3
<1>5. k - 1 \in T
  BY <1>2, <1>4
<1> QED
  BY <1>3, <1>4, <1>5

-----------------------------------------------------------------------------
\* Sequences put one behind the other.
LEMMA JoinTyped ==
  ASSUME NEW S, NEW s \in Seq(S), NEW t \in Seq(S)
  PROVE  /\ s \o t \in Seq(S) /\ Len(s \o t) = Len(s) + Len(t)
         /\ s \o <<>> = s /\ <<>> \o s = s
BY ConcatProperties, ConcatEmptySeq

LEMMA JoinJoin ==
  ASSUME NEW S, NEW s \in Seq(S), NEW t \in Seq(S), NEW u \in Seq(S)
  PROVE  (s \o t) \o u = s \o (t \o u)
BY ConcatAssociative

LEMMA JoinOne ==
  ASSUME NEW S, NEW s \in Seq(S), NEW e \in S
  PROVE  Append(s, e) = s \o <<e>>
BY AppendIsConcat

\* What is behind the first.
LEMMA Behind ==
  ASSUME NEW S, NEW b \in S, NEW u \in Seq(S)
  PROVE  /\ (<<b>> \o u)[1] = b /\ Len(<<b>> \o u) = Len(u) + 1
         /\ SubSeq(<<b>> \o u, 2, Len(<<b>> \o u)) = u
<1> DEFINE w == <<b>> \o u
<1>1. <<b>> \in Seq(S) /\ Len(<<b>>) = 1 /\ Len(u) \in Nat /\ DOMAIN u = 1 .. Len(u)
  BY LenProperties
<1>2. /\ w \in Seq(S) /\ Len(w) = Len(u) + 1 /\ w[1] = b
      /\ \A i \in 1 .. Len(u) : w[i + 1] = u[i]
  BY <1>1
<1>3. PICK x : x = w
  OBVIOUS
<1> HIDE DEF w
<1>4. x \in Seq(S) /\ Len(x) = Len(u) + 1 /\ \A i \in 1 .. Len(u) : x[i + 1] = u[i]
  BY <1>2, <1>3
<1>5. PICK y : y = SubSeq(x, 2, Len(x))
  OBVIOUS
<1>6. y \in Seq(S) /\ Len(y) = Len(u) /\ \A i \in 1 .. Len(u) : y[i] = x[i + 1]
  BY <1>1, <1>4, <1>5
<1>7. y = u
  BY <1>1, <1>4, <1>6, SeqEqual
<1> QED
  BY <1>2, <1>3, <1>5, <1>7 DEF w

\* What n of the sequences make up, one after another.
Flat(ss, n, f) ==
    f = [i \in 1 .. n |-> IF i = 1 THEN ss[i] ELSE f[i - 1] \o ss[i]]

LEMMA OneMoreFlat ==
  ASSUME NEW ss, NEW n \in Nat, NEW f, Flat(ss, n, f)
  PROVE  \E g : Flat(ss, n + 1, g)
<1> DEFINE g == [i \in 1 .. n + 1 |->
                   IF i <= n THEN f[i] ELSE IF i = 1 THEN ss[i] ELSE f[n] \o ss[i]]
<1>1. ASSUME NEW i \in 1 .. n + 1
      PROVE  g[i] = IF i = 1 THEN ss[i] ELSE g[i - 1] \o ss[i]
  <2>1. CASE i = n + 1
    <3>1. i # 1 => i - 1 = n /\ n \in 1 .. n + 1 /\ g[n] = f[n]
      BY <2>1
    <3> QED
      BY <2>1, <3>1
  <2>2. CASE i # n + 1
    <3>1. i \in 1 .. n /\ g[i] = f[i]
      BY <2>2
    <3>2. f[i] = IF i = 1 THEN ss[i] ELSE f[i - 1] \o ss[i]
      BY <3>1 DEF Flat
    <3>3. i # 1 => g[i - 1] = f[i - 1]
      BY <3>1
    <3> HIDE DEF g
    <3> QED
      BY <3>1, <3>2, <3>3
  <2> QED
    BY <2>1, <2>2
<1>2. g = [i \in 1 .. n + 1 |-> g[i]]
  OBVIOUS
<1> HIDE DEF g
<1>3. Flat(ss, n + 1, g)
  BY <1>1, <1>2 DEF Flat
<1> QED
  BY <1>3

LEMMA FlatExists ==
  ASSUME NEW ss, NEW n \in Nat
  PROVE  \E f : Flat(ss, n, f)
<1> DEFINE T == {k \in Nat : \E f : Flat(ss, k, f)}
<1>1. 0 \in T
  <2> DEFINE f == [i \in 1 .. 0 |-> ss[i]]
  <2>1. f = [i \in 1 .. 0 |-> IF i = 1 THEN ss[i] ELSE f[i - 1] \o ss[i]]
    OBVIOUS
  <2>2. Flat(ss, 0, f)
    BY <2>1 DEF Flat
  <2> QED
    BY <2>2
<1>2. \A k \in 0 .. n - 1 : k \in T => k + 1 \in T
  BY OneMoreFlat
<1> HIDE DEF T
<1>3. \A k \in 0 .. n : k \in T
  BY <1>1, <1>2, UpTo
<1> QED
  BY <1>3 DEF T

LEMMA FlattenIsFlat ==
  ASSUME NEW ss, Len(ss) \in Nat
  PROVE  \E f : /\ Flat(ss, Len(ss), f)
                /\ FlattenSeq(ss) = IF Len(ss) = 0 THEN ss ELSE f[Len(ss)]
<1>1. PICK n : n = Len(ss)
  OBVIOUS
<1>2. PICK f : f = CHOOSE g : Flat(ss, n, g)
  OBVIOUS
<1>3. Flat(ss, n, f)
  BY <1>1, <1>2, FlatExists
<1>4. FlattenSeq(ss) = IF n = 0 THEN ss ELSE f[n]
  BY <1>1, <1>2 DEF Flat, FlattenSeq
<1> QED
  BY <1>1, <1>3, <1>4

LEMMA FlattenNone ==
  FlattenSeq(<<>>) = <<>>
BY EmptySeq DEF FlattenSeq

LEMMA FlatTyped ==
  ASSUME NEW S, NEW n \in Nat, NEW ss, \A i \in 1 .. n : ss[i] \in Seq(S),
         NEW f, Flat(ss, n, f)
  PROVE  \A i \in 1 .. n : f[i] \in Seq(S)
<1> DEFINE T == {k \in 0 .. n : k = 0 \/ f[k] \in Seq(S)}
<1>1. 0 \in T
  OBVIOUS
<1>2. ASSUME NEW k \in 0 .. n - 1, k \in T
      PROVE  k + 1 \in T
  <2>0. /\ k + 1 \in 1 .. n /\ k + 1 \in 0 .. n /\ (k + 1) - 1 = k
        /\ ss[k + 1] \in Seq(S)
    OBVIOUS
  <2>1. f[k + 1] = IF k + 1 = 1 THEN ss[k + 1] ELSE f[k] \o ss[k + 1]
    BY <2>0 DEF Flat
  <2>2. CASE k = 0
    BY <2>0, <2>1, <2>2
  <2>3. CASE k # 0
    <3>1. f[k] \in Seq(S)
      BY <1>2, <2>3
    <3>2. f[k] \o ss[k + 1] \in Seq(S)
      BY <2>0, <3>1, JoinTyped
    <3>3. k + 1 # 1
      BY <2>3
    <3> QED
      BY <2>0, <2>1, <3>2, <3>3
  <2> QED
    BY <2>2, <2>3
<1> HIDE DEF T
<1>3. \A k \in 0 .. n : k \in T
  BY <1>1, <1>2, UpTo
<1> QED
  BY <1>3 DEF T

LEMMA FlattenTyped ==
  ASSUME NEW S, NEW ss \in Seq(Seq(S))
  PROVE  FlattenSeq(ss) \in Seq(S)
<1>1. Len(ss) \in Nat /\ \A i \in 1 .. Len(ss) : ss[i] \in Seq(S)
  OBVIOUS
<1>2. PICK f : /\ Flat(ss, Len(ss), f)
               /\ FlattenSeq(ss) = IF Len(ss) = 0 THEN ss ELSE f[Len(ss)]
  BY <1>1, FlattenIsFlat
<1>3. \A i \in 1 .. Len(ss) : f[i] \in Seq(S)
  BY <1>1, <1>2, FlatTyped
<1>4. CASE Len(ss) = 0
  <2>1. ss = <<>>
    BY <1>4, EmptySeq
  <2> QED
    BY <1>2, <1>4, <2>1, EmptySeq
<1>5. CASE Len(ss) # 0
  BY <1>1, <1>2, <1>3, <1>5
<1> QED
  BY <1>4, <1>5

LEMMA FlattenAppend ==
  ASSUME NEW S, NEW ss \in Seq(Seq(S)), NEW e \in Seq(S)
  PROVE  FlattenSeq(Append(ss, e)) = FlattenSeq(ss) \o e
<1>1. PICK n \in Nat : n = Len(ss)
  OBVIOUS
<1>2. PICK tt : tt = Append(ss, e)
  OBVIOUS
<1>3. /\ tt \in Seq(Seq(S)) /\ Len(tt) = n + 1 /\ tt[n + 1] = e
      /\ \A i \in 1 .. n : tt[i] = ss[i] /\ ss[i] \in Seq(S)
  BY <1>1, <1>2, AppendProperties
<1>4. PICK f : /\ Flat(ss, n, f)
               /\ FlattenSeq(ss) = IF n = 0 THEN ss ELSE f[n]
  BY <1>1, FlattenIsFlat
<1>5. PICK g : /\ Flat(tt, n + 1, g)
               /\ FlattenSeq(tt) = IF n + 1 = 0 THEN tt ELSE g[n + 1]
  <2>1. Len(tt) \in Nat
    BY <1>3
  <2> QED
    BY <1>3, <2>1, FlattenIsFlat
<1>6. FlattenSeq(tt) = g[n + 1] /\ g[n + 1] = IF n = 0 THEN e ELSE g[n] \o e
  <2>1. n + 1 # 0 /\ n + 1 \in 1 .. n + 1 /\ (n + 1) - 1 = n /\ (n + 1 = 1 <=> n = 0)
    OBVIOUS
  <2>2. g[n + 1] = IF n + 1 = 1 THEN tt[n + 1] ELSE g[(n + 1) - 1] \o tt[n + 1]
    BY <1>5, <2>1 DEF Flat
  <2> QED
    BY <1>3, <1>5, <2>1, <2>2
<1>7. CASE n = 0
  <2>1. ss = <<>>
    BY <1>1, <1>7, EmptySeq
  <2>2. <<>> \o e = e
    BY JoinTyped
  <2> QED
    BY <1>2, <1>6, <1>7, <2>1, <2>2, FlattenNone
<1>8. CASE n # 0
  <2> DEFINE T == {k \in 0 .. n : k = 0 \/ g[k] = f[k]}
  <2>1. 0 \in T
    OBVIOUS
  <2>2. ASSUME NEW k \in 0 .. n - 1, k \in T
        PROVE  k + 1 \in T
    <3>1. k + 1 \in 1 .. n /\ k + 1 \in 1 .. n + 1 /\ (k + 1) - 1 = k
      OBVIOUS
    <3>2. /\ g[k + 1] = IF k + 1 = 1 THEN tt[k + 1] ELSE g[k] \o tt[k + 1]
          /\ f[k + 1] = IF k + 1 = 1 THEN ss[k + 1] ELSE f[k] \o ss[k + 1]
      BY <1>4, <1>5, <3>1, ZenonT(60) DEF Flat
    <3>3. k # 0 => g[k] = f[k]
      BY <2>2
    <3>4. k + 1 = 1 <=> k = 0
      OBVIOUS
    <3>5. g[k + 1] = f[k + 1]
      BY <1>3, <3>1, <3>2, <3>3, <3>4
    <3> QED
      BY <3>1, <3>5
  <2> HIDE DEF T
  <2>3. \A k \in 0 .. n : k \in T
    BY <2>1, <2>2, UpTo
  <2>4. g[n] = f[n]
    BY <1>8, <2>3 DEF T
  <2> QED
    BY <1>2, <1>4, <1>6, <1>8, <2>4
<1> QED
  BY <1>7, <1>8

LEMMA JoinAll ==
  ASSUME NEW S
  PROVE  \A x, y, z \in Seq(S) : (x \o y) \o z = x \o (y \o z)
BY JoinJoin

LEMMA FlattenJoin ==
  ASSUME NEW S, NEW ss \in Seq(Seq(S)), NEW tt \in Seq(Seq(S))
  PROVE  FlattenSeq(ss \o tt) = FlattenSeq(ss) \o FlattenSeq(tt)
<1> DEFINE Flatten(x) == FlattenSeq(x)
           T == {k \in Nat : \A t \in Seq(Seq(S)) :
                               Len(t) = k => Flatten(ss \o t) = Flatten(ss) \o Flatten(t)}
<1>0. \A x, y, z \in Seq(S) : (x \o y) \o z = x \o (y \o z)
  BY JoinAll, SMTT(40)
<1>1. PICK n \in Nat : n = Len(tt)
  OBVIOUS
<1>2. 0 \in T
  <2>1. ASSUME NEW t \in Seq(Seq(S)), Len(t) = 0
        PROVE  Flatten(ss \o t) = Flatten(ss) \o Flatten(t)
    <3>1. t = <<>>
      BY <2>1, EmptySeq
    <3>2. ss \o <<>> = ss
      BY JoinTyped
    <3>3. Flatten(ss) \o <<>> = Flatten(ss)
      BY FlattenTyped, JoinTyped
    <3> QED
      BY <3>1, <3>2, <3>3, FlattenNone
  <2> QED
    BY <2>1
<1>3. ASSUME NEW k \in 0 .. n - 1, k \in T
      PROVE  k + 1 \in T
  <2>1. ASSUME NEW t \in Seq(Seq(S)), Len(t) = k + 1
        PROVE  Flatten(ss \o t) = Flatten(ss) \o Flatten(t)
    <3>1. t # <<>>
      BY <2>1
    <3>2. PICK u \in Seq(Seq(S)), e \in Seq(S) : t = Append(u, e)
      BY <3>1, SequenceEmptyOrAppend
    <3>3. Len(u) = k
      BY <2>1, <3>2, AppendProperties
    <3>4. Flatten(ss \o u) = Flatten(ss) \o Flatten(u)
      BY <1>3, <3>3
    <3>5. ss \o u \in Seq(Seq(S)) /\ ss \o Append(u, e) = Append(ss \o u, e)
      <4>1. ss \o u \in Seq(Seq(S)) /\ <<e>> \in Seq(Seq(S))
        BY JoinTyped
      <4>2. Append(u, e) = u \o <<e>> /\ Append(ss \o u, e) = (ss \o u) \o <<e>>
        BY <4>1, JoinOne
      <4> QED
        BY <4>1, <4>2, JoinJoin
    <3>6. Flatten(ss \o t) = (Flatten(ss) \o Flatten(u)) \o e
      BY <3>2, <3>4, <3>5, FlattenAppend
    <3>7. Flatten(t) = Flatten(u) \o e
      BY <3>2, FlattenAppend
    <3>8. Flatten(ss) \in Seq(S) /\ Flatten(u) \in Seq(S)
      BY FlattenTyped
    <3>9. PICK x, y, z : x = Flatten(ss) /\ y = Flatten(u) /\ z = Flatten(t)
      OBVIOUS
    <3>10. (x \o y) \o e = x \o (y \o e)
      BY <1>0, <3>8, <3>9
    <3> QED
      BY <3>6, <3>7, <3>9, <3>10
  <2> HIDE DEF Flatten
  <2> QED
    BY <2>1
<1> HIDE DEF T
<1>4. \A k \in 0 .. n : k \in T
  BY <1>2, <1>3, UpTo
<1> QED
  BY <1>1, <1>4 DEF T

-----------------------------------------------------------------------------
(***************************************************************************)
(* What is drawn from each of a sequence, one after another: the bytes of  *)
(* a frame, each 0xFF of them twice; the bytes of tokens; the tokens of a  *)
(* kind.                                                                   *)
(***************************************************************************)
\* What m makes of each, one after another.
Drawn(m, s) == FlattenSeq([i \in 1 .. Len(s) |-> m[s[i]]])

\* What it makes is of S, of what is of A.
Draws(m, A, S) == m \in [A -> Seq(S)]

LEMMA MappedTyped ==
  ASSUME NEW A, NEW S, NEW m, Draws(m, A, S), NEW s \in Seq(A)
  PROVE  /\ [i \in 1 .. Len(s) |-> m[s[i]]] \in Seq(Seq(S))
         /\ Len([i \in 1 .. Len(s) |-> m[s[i]]]) = Len(s)
<1>1. PICK n \in Nat : n = Len(s)
  OBVIOUS
<1>2. \A i \in 1 .. n : m[s[i]] \in Seq(S)
  BY <1>1 DEF Draws
<1>3. [i \in 1 .. n |-> m[s[i]]] \in [1 .. n -> Seq(S)]
  BY <1>2
<1> QED
  BY <1>1, <1>3

LEMMA DrawnTyped ==
  ASSUME NEW A, NEW S, NEW m, Draws(m, A, S), NEW s \in Seq(A)
  PROVE  Drawn(m, s) \in Seq(S)
BY MappedTyped, FlattenTyped DEF Drawn

LEMMA DrawnNone ==
  ASSUME NEW m
  PROVE  Drawn(m, <<>>) = <<>>
<1>1. [i \in 1 .. Len(<<>>) |-> m[<<>>[i]]] = <<>>
  OBVIOUS
<1> QED
  BY <1>1, FlattenNone DEF Drawn

LEMMA DrawnOne ==
  ASSUME NEW A, NEW S, NEW m, Draws(m, A, S), NEW x \in A
  PROVE  Drawn(m, <<x>>) = m[x]
<1>1. PICK e : e = m[x]
  OBVIOUS
<1>2. e \in Seq(S)
  BY <1>1 DEF Draws
<1>3. [i \in 1 .. Len(<<x>>) |-> m[<<x>>[i]]] = <<e>>
  BY <1>1
<1>4. <<>> \in Seq(Seq(S)) /\ <<e>> = Append(<<>>, e)
  OBVIOUS
<1>5. FlattenSeq(<<e>>) = FlattenSeq(<<>>) \o e
  BY <1>2, <1>4, FlattenAppend
<1>6. <<>> \o e = e
  BY <1>2, JoinTyped
<1> QED
  BY <1>1, <1>3, <1>5, <1>6, FlattenNone DEF Drawn

LEMMA DrawnJoin ==
  ASSUME NEW A, NEW S, NEW m, Draws(m, A, S), NEW s \in Seq(A), NEW t \in Seq(A)
  PROVE  Drawn(m, s \o t) = Drawn(m, s) \o Drawn(m, t)
<1>1. PICK j, k \in Nat : j = Len(s) /\ k = Len(t)
  OBVIOUS
<1>2. PICK u : u = s \o t
  OBVIOUS
<1>3. /\ u \in Seq(A) /\ Len(u) = j + k
      /\ \A i \in 1 .. j + k : u[i] = IF i <= j THEN s[i] ELSE t[i - j]
  BY <1>1, <1>2, ConcatProperties
<1>4. PICK x : x = [i \in 1 .. j |-> m[s[i]]]
  OBVIOUS
<1>5. PICK y : y = [i \in 1 .. k |-> m[t[i]]]
  OBVIOUS
<1>6. PICK z : z = [i \in 1 .. j + k |-> m[u[i]]]
  OBVIOUS
<1>7. x \in Seq(Seq(S)) /\ Len(x) = j /\ y \in Seq(Seq(S)) /\ Len(y) = k
  <2>1. /\ x = [i \in 1 .. Len(s) |-> m[s[i]]]
        /\ y = [i \in 1 .. Len(t) |-> m[t[i]]]
    BY <1>1, <1>4, <1>5
  <2>2. x \in Seq(Seq(S)) /\ Len(x) = Len(s)
    BY <2>1, MappedTyped
  <2>3. y \in Seq(Seq(S)) /\ Len(y) = Len(t)
    BY <2>1, MappedTyped
  <2> QED
    BY <1>1, <2>2, <2>3
<1>8. z \in Seq(Seq(S)) /\ Len(z) = j + k
  <2>1. z = [i \in 1 .. Len(u) |-> m[u[i]]]
    BY <1>3, <1>6
  <2> QED
    BY <1>3, <2>1, MappedTyped
<1>9. PICK w : w = x \o y
  OBVIOUS
<1>10. /\ w \in Seq(Seq(S)) /\ Len(w) = j + k
       /\ \A i \in 1 .. j + k : w[i] = IF i <= j THEN x[i] ELSE y[i - j]
  BY <1>7, <1>9, ConcatProperties
<1>11. ASSUME NEW i \in 1 .. j + k
       PROVE  z[i] = w[i]
  <2>1. CASE i <= j
    <3>1. i \in 1 .. j
      BY <2>1
    <3>2. z[i] = m[u[i]] /\ u[i] = s[i] /\ w[i] = x[i] /\ x[i] = m[s[i]]
      BY <1>3, <1>4, <1>6, <1>10, <2>1, <3>1
    <3> QED
      BY <3>2
  <2>2. CASE ~(i <= j)
    <3>1. i - j \in 1 .. k
      BY <2>2
    <3>2. z[i] = m[u[i]] /\ u[i] = t[i - j] /\ w[i] = y[i - j] /\ y[i - j] = m[t[i - j]]
      BY <1>3, <1>5, <1>6, <1>10, <2>2, <3>1
    <3> QED
      BY <3>2
  <2> QED
    BY <2>1, <2>2
<1>12. z = w
  BY <1>8, <1>10, <1>11, SeqEqual
<1>13. FlattenSeq(x \o y) = FlattenSeq(x) \o FlattenSeq(y)
  BY <1>7, FlattenJoin
<1> QED
  BY <1>1, <1>2, <1>3, <1>4, <1>5, <1>6, <1>9, <1>12, <1>13 DEF Drawn

\* One more behind the rest, and one more in front.
LEMMA DrawnAppend ==
  ASSUME NEW A, NEW S, NEW m, Draws(m, A, S), NEW s \in Seq(A), NEW x \in A
  PROVE  Drawn(m, Append(s, x)) = Drawn(m, s) \o m[x]
<1>1. PICK o : o = <<x>>
  OBVIOUS
<1>2. o \in Seq(A) /\ Append(s, x) = s \o o
  BY <1>1, JoinOne
<1>3. Drawn(m, s \o o) = Drawn(m, s) \o Drawn(m, o)
  BY <1>2, DrawnJoin
<1>4. Drawn(m, o) = m[x]
  BY <1>1, DrawnOne
<1> QED
  BY <1>2, <1>3, <1>4

-----------------------------------------------------------------------------
Doubling == [b \in Int |-> IF b = IAC THEN <<IAC, IAC>> ELSE <<b>>]

LEMMA DoubledIsDrawn ==
  ASSUME NEW p \in Seq(Int)
  PROVE  Doubled(p) = Drawn(Doubling, p) /\ Draws(Doubling, Int, Int)
<1>1. Len(p) \in Nat /\ \A i \in 1 .. Len(p) : p[i] \in Int
  OBVIOUS
<1>2. \A i \in 1 .. Len(p) :
         Doubling[p[i]] = IF p[i] = IAC THEN <<IAC, IAC>> ELSE <<p[i]>>
  BY <1>1 DEF Doubling
<1>3. [i \in 1 .. Len(p) |-> Doubling[p[i]]]
        = [i \in 1 .. Len(p) |->
              IF p[i] = IAC THEN <<IAC, IAC>> ELSE <<p[i]>>]
  BY <1>2
<1>4. Draws(Doubling, Int, Int)
  BY DEF Draws, Doubling, IAC
<1> QED
  BY <1>3, <1>4 DEF Drawn, Doubled

LEMMA DoubledTyped ==
  ASSUME NEW p \in Seq(Int)
  PROVE  Doubled(p) \in Seq(Int)
<1>1. PICK m : m = Doubling
  OBVIOUS
<1>2. Draws(m, Int, Int) /\ Doubled(p) = Drawn(m, p)
  BY <1>1, DoubledIsDrawn
<1> QED
  BY <1>2, DrawnTyped

LEMMA DoubledNone == Doubled(<<>>) = <<>>
<1>1. <<>> \in Seq(Int)
  OBVIOUS
<1> QED
  BY <1>1, DoubledIsDrawn, DrawnNone

LEMMA DoubledOne ==
  ASSUME NEW b \in Int
  PROVE  Doubled(<<b>>) = IF b = 255 THEN <<255, 255>> ELSE <<b>>
<1>1. <<b>> \in Seq(Int)
  OBVIOUS
<1>2. PICK m : m = Doubling
  OBVIOUS
<1>3. Draws(m, Int, Int) /\ Doubled(<<b>>) = Drawn(m, <<b>>)
  BY <1>1, <1>2, DoubledIsDrawn
<1>4. Drawn(m, <<b>>) = m[b]
  BY <1>3, DrawnOne
<1> QED
  BY <1>2, <1>3, <1>4 DEF Doubling, IAC

LEMMA DoubledFirst ==
  ASSUME NEW b \in Int, NEW p \in Seq(Int)
  PROVE  Doubled(<<b>> \o p)
            = (IF b = 255 THEN <<255, 255>> ELSE <<b>>) \o Doubled(p)
<1>1. PICK o, q : o = <<b>> /\ q = <<b>> \o p
  OBVIOUS
<1>2. o \in Seq(Int) /\ q \in Seq(Int) /\ q = o \o p
  BY <1>1, JoinTyped
<1>3. PICK m : m = Doubling
  OBVIOUS
<1>4. /\ Draws(m, Int, Int) /\ Doubled(q) = Drawn(m, q)
      /\ Doubled(o) = Drawn(m, o) /\ Doubled(p) = Drawn(m, p)
  BY <1>2, <1>3, DoubledIsDrawn
<1>5. Drawn(m, o \o p) = Drawn(m, o) \o Drawn(m, p)
  <2>1. Draws(m, Int, Int) /\ o \in Seq(Int) /\ p \in Seq(Int)
    BY <1>2, <1>4
  <2> QED
    BY <2>1, DrawnJoin
<1>6. Doubled(q) = Doubled(o) \o Doubled(p)
  BY <1>2, <1>4, <1>5
<1>7. Doubled(o) = IF b = 255 THEN <<255, 255>> ELSE <<b>>
  BY <1>1, DoubledOne
<1> QED
  BY <1>1, <1>6, <1>7

-----------------------------------------------------------------------------
(***************************************************************************)
(* A decoder, and the tokens a client may send to it.                      *)
(***************************************************************************)
Tokens == TokensOf(server.protocol)

\* A decoder, e escapes and o frames of which are open, and what it has put
\* aside and carried out.
Decoder(e, s, f, o, clean, done) ==
    [escape |-> e = 1, state |-> s, frame |-> f, open |-> o = 1,
     clean |-> clean, done |-> done]

Being(d, e, s, f, o) == d = Decoder(e, s, f, o, d.clean, d.done)

Between(d) == Being(d, 0, 0, <<>>, 0)

LEMMA SettingIs ==
  ASSUME server \in Settings
  PROVE  /\ server.protocol \in {"control", "telnet"}
         /\ server.rts \in BOOLEAN /\ server.dtr \in BOOLEAN /\ server.canWrite \in BOOLEAN
         /\ server.canRead \in BOOLEAN /\ server.signals \subseteq 0 .. 5
         /\ Data \subseteq Int /\ Frames \subseteq Seq(Int)
<1>1. server \in Setting
  BY FilterStreamAssumption
<1>2. ASSUME NEW s \in Seq(0 .. 255)
      PROVE  s \in Seq(Int)
  <2>1. 0 .. 255 \subseteq Int
    OBVIOUS
  <2> QED
    BY <2>1, SeqMonotonic
<1> QED
  BY <1>1, <1>2, FilterStreamAssumption DEF Setting

LEMMA TokenKinds ==
  ASSUME server \in Settings, NEW token \in Tokens
  PROVE  \/ token.kind = "data" /\ token.byte \in Data /\ token.byte \in Int
            /\ token = Byte("data", token.byte)
         \/ token.kind = "command" /\ token.byte \in Int /\ token.byte # 255
            /\ token = Byte("command", token.byte)
            /\ (server.protocol = "telnet" => token.byte = 241)
         \/ token.kind = "option" /\ server.protocol = "telnet"
            /\ token.verb \in 251 .. 254 /\ token.option \in Int
            /\ token = Option(token.verb, token.option)
         \/ token.kind = "frame" /\ server.protocol = "telnet"
            /\ token.payload \in Seq(Int)
            /\ token = Frame(token.payload)
<1>1. /\ server.protocol \in {"control", "telnet"}
      /\ Data \subseteq Int /\ Frames \subseteq Seq(Int)
  BY SettingIs
<1>2. CASE token \in {Byte("data", b) : b \in Data}
  BY <1>1, <1>2 DEF Byte
<1>3. CASE server.protocol = "control" /\ token \notin {Byte("data", b) : b \in Data}
  <2>1. token \in {Byte("command", b) :
                   b \in {RTS_LOW, RTS_HIGH, DTR_LOW, DTR_HIGH,
                          GET_SIGNALS, 153}}
    BY <1>3 DEF Tokens, TokensOf
  <2>2. PICK b \in {0, 1, 16, 17, 192, 153} : token = Byte("command", b)
    BY <2>1 DEF RTS_LOW, RTS_HIGH, DTR_LOW, DTR_HIGH,
                GET_SIGNALS
  <2> QED
    BY <1>3, <2>2 DEF Byte
<1>4. CASE server.protocol = "telnet" /\ token \notin {Byte("data", b) : b \in Data}
  <2>1. \/ token \in {Option(252 - 1, 34), Option(254, 1),
                      Byte("command", 241)}
        \/ \E p \in Frames : token = Frame(p)
    <3>1. server.protocol # "control"
      BY <1>4
    <3> QED
      BY <1>4, <3>1 DEF Tokens, TokensOf, WILL, LINEMODE, DONT,
                 ECHO, NOP
  <2>2. CASE token = Option(252 - 1, 34) \/ token = Option(254, 1)
    BY <1>4, <2>2 DEF Option
  <2>3. CASE token = Byte("command", 241)
    BY <1>4, <2>3 DEF Byte
  <2>4. CASE \E p \in Frames : token = Frame(p)
    BY <1>1, <1>4, <2>4 DEF Frame
  <2> QED
    BY <2>1, <2>2, <2>3, <2>4
<1> QED
  BY <1>1, <1>2, <1>3, <1>4

-----------------------------------------------------------------------------
\* What a byte does to a decoder, by where that is.
LEMMA IsVerb ==
  ASSUME NEW s
  PROVE  s \in OptionCodes <=> s \in 251 .. 254
BY DEF OptionCodes, WILL, WONT, DO, DONT

LEMMA FieldsOf ==
  ASSUME NEW e, NEW s, NEW f, NEW o, NEW c, NEW d, NEW r, r = Decoder(e, s, f, o, c, d)
  PROVE  r.state = s /\ r.frame = f /\ r.clean = c /\ r.done = d
BY DEF Decoder

LEMMA EscapeSet ==
  ASSUME NEW e, NEW s, NEW f, NEW o, NEW c, NEW d, NEW r, r = Decoder(e, s, f, o, c, d),
         NEW x, NEW v \in BOOLEAN, v <=> (x = 1)
  PROVE  [r EXCEPT !.escape = v] = Decoder(x, s, f, o, c, d)
BY DEF Decoder

LEMMA EscapeIs ==
  ASSUME NEW e, NEW s, NEW f, NEW o, NEW c, NEW d, NEW r, r = Decoder(e, s, f, o, c, d)
  PROVE  r.escape <=> (e = 1)
BY DEF Decoder

LEMMA OpenSet ==
  ASSUME NEW e, NEW s, NEW f, NEW o, NEW c, NEW d, NEW r, r = Decoder(e, s, f, o, c, d),
         NEW x, NEW v \in BOOLEAN, v <=> (x = 1)
  PROVE  [r EXCEPT !.open = v] = Decoder(e, s, f, x, c, d)
BY DEF Decoder

LEMMA OpenIs ==
  ASSUME NEW e, NEW s, NEW f, NEW o, NEW c, NEW d, NEW r, r = Decoder(e, s, f, o, c, d)
  PROVE  r.open <=> (o = 1)
BY DEF Decoder

LEMMA Escaping ==
  ASSUME NEW s, NEW f, NEW o, NEW c, NEW d, NEW r, r = Decoder(1, s, f, o, c, d)
  PROVE  r.escape /\ [r EXCEPT !.escape = FALSE] = Decoder(0, s, f, o, c, d)
<1>1. PICK x \in Nat, v \in BOOLEAN : x = 0 /\ v = FALSE
  OBVIOUS
<1>2. v \in BOOLEAN /\ (v <=> (x = 1))
  BY <1>1
<1>4. r.escape
  BY EscapeIs
<1>3. [r EXCEPT !.escape = v] = Decoder(x, s, f, o, c, d)
  BY <1>2, EscapeSet
<1> QED
  BY <1>1, <1>3, <1>4

LEMMA NotEscaping ==
  ASSUME NEW s, NEW f, NEW o, NEW c, NEW d, NEW r, r = Decoder(0, s, f, o, c, d)
  PROVE  ~r.escape /\ [r EXCEPT !.escape = TRUE] = Decoder(1, s, f, o, c, d)
<1>1. PICK x \in Nat, v \in BOOLEAN : x = 1 /\ v = TRUE
  OBVIOUS
<1>2. v \in BOOLEAN /\ (v <=> (x = 1))
  BY <1>1
<1>4. ~r.escape
  BY EscapeIs
<1>3. [r EXCEPT !.escape = v] = Decoder(x, s, f, o, c, d)
  BY <1>2, EscapeSet
<1> QED
  BY <1>1, <1>3, <1>4

LEMMA Opening ==
  ASSUME NEW e, NEW s, NEW f, NEW o, NEW c, NEW d, NEW r, r = Decoder(e, s, f, o, c, d)
  PROVE  [r EXCEPT !.open = TRUE] = Decoder(e, s, f, 1, c, d)
<1>1. PICK x \in Nat, v \in BOOLEAN : x = 1 /\ v = TRUE
  OBVIOUS
<1>2. v \in BOOLEAN /\ (v <=> (x = 1))
  BY <1>1
<1>3. [r EXCEPT !.open = v] = Decoder(e, s, f, x, c, d)
  BY <1>2, OpenSet
<1> QED
  BY <1>1, <1>3

LEMMA Closing ==
  ASSUME NEW e, NEW s, NEW f, NEW c, NEW d, NEW r, r = Decoder(e, s, f, 1, c, d)
  PROVE  r.open /\ [r EXCEPT !.open = FALSE] = Decoder(e, s, f, 0, c, d)
<1>1. PICK x \in Nat, v \in BOOLEAN : x = 0 /\ v = FALSE
  OBVIOUS
<1>2. v \in BOOLEAN /\ (v <=> (x = 1))
  BY <1>1
<1>4. r.open
  BY OpenIs
<1>3. [r EXCEPT !.open = v] = Decoder(e, s, f, x, c, d)
  BY <1>2, OpenSet
<1> QED
  BY <1>1, <1>3, <1>4

LEMMA StateSet ==
  ASSUME NEW e, NEW s, NEW f, NEW o, NEW c, NEW d, NEW r, r = Decoder(e, s, f, o, c, d), NEW x
  PROVE  [r EXCEPT !.state = x] = Decoder(e, x, f, o, c, d)
BY DEF Decoder

LEMMA FrameSet ==
  ASSUME NEW e, NEW s, NEW f, NEW o, NEW c, NEW d, NEW r, r = Decoder(e, s, f, o, c, d), NEW x
  PROVE  [r EXCEPT !.frame = x] = Decoder(e, s, x, o, c, d)
BY DEF Decoder

LEMMA CleanSet ==
  ASSUME NEW e, NEW s, NEW f, NEW o, NEW c, NEW d, NEW r, r = Decoder(e, s, f, o, c, d), NEW x
  PROVE  [r EXCEPT !.clean = x] = Decoder(e, s, f, o, x, d)
BY DEF Decoder

LEMMA DoneSet ==
  ASSUME NEW e, NEW s, NEW f, NEW o, NEW c, NEW d, NEW r, r = Decoder(e, s, f, o, c, d), NEW x
  PROVE  [r EXCEPT !.done = x] = Decoder(e, s, f, o, c, x)
BY DEF Decoder

LEMMA TelnetEscaped ==
  ASSUME server.protocol = "telnet", NEW b, NEW s, NEW f, NEW o, NEW c, NEW d
  PROVE  Step(Decoder(1, s, f, o, c, d), b)
            = ProcessIac(Decoder(0, s, f, o, c, d), b)
<1>1. PICK r : r = Decoder(1, s, f, o, c, d)
  OBVIOUS
<1>2. r.escape /\ [r EXCEPT !.escape = FALSE] = Decoder(0, s, f, o, c, d)
  BY <1>1, Escaping
<1>3. Step(r, b) = TelnetStep(r, b)
  BY DEF Step
<1>4. TelnetStep(r, b) = ProcessIac([r EXCEPT !.escape = FALSE], b)
  BY <1>2 DEF TelnetStep
<1> QED
  BY <1>1, <1>2, <1>3, <1>4

LEMMA TelnetPlain ==
  ASSUME server.protocol = "telnet", NEW b, NEW s, s \notin 251 .. 254,
         NEW f, NEW o, NEW c, NEW d
  PROVE  Step(Decoder(0, s, f, o, c, d), b)
            = IF b = 255 THEN Decoder(1, s, f, o, c, d)
              ELSE SendData(Decoder(0, s, f, o, c, d), b)
<1>1. PICK r : r = Decoder(0, s, f, o, c, d)
  OBVIOUS
<1>2. /\ ~r.escape /\ r.state = s
      /\ [r EXCEPT !.escape = TRUE] = Decoder(1, s, f, o, c, d)
  BY <1>1, FieldsOf, NotEscaping
<1>3. Step(r, b) = TelnetStep(r, b)
  BY DEF Step
<1>4. TelnetStep(r, b)
        = IF b = 255 THEN [r EXCEPT !.escape = TRUE] ELSE SendData(r, b)
  BY <1>2, IsVerb DEF TelnetStep, IAC
<1> QED
  BY <1>1, <1>2, <1>3, <1>4

LEMMA SendDataIs ==
  ASSUME NEW b, NEW f, NEW o, NEW c, NEW d, NEW e
  PROVE  /\ SendData(Decoder(e, 0, f, o, c, d), b) = Decoder(e, 0, f, o, Append(c, b), d)
         /\ SendData(Decoder(e, 250, f, o, c, d), b)
               = Decoder(e, 250, Append(f, b), o, c, d)
<1>1. PICK r : r = Decoder(e, 0, f, o, c, d)
  OBVIOUS
<1>2. PICK x, y : x = Append(c, b) /\ y = Append(f, b)
  OBVIOUS
<1>0. /\ r.state = 0 /\ r.clean = c
      /\ [r EXCEPT !.clean = x] = Decoder(e, 0, f, o, x, d)
  BY <1>1, FieldsOf, CleanSet
<1>3. SendData(r, b) = [r EXCEPT !.clean = x]
  BY <1>0, <1>2 DEF SendData, SB
<1>4. PICK q : q = Decoder(e, 250, f, o, c, d)
  OBVIOUS
<1>5. /\ q.state = 250 /\ q.frame = f
      /\ [q EXCEPT !.frame = y] = Decoder(e, 250, y, o, c, d)
  BY <1>4, FieldsOf, FrameSet
<1>6. SendData(q, b) = [q EXCEPT !.frame = y]
  BY <1>2, <1>5 DEF SendData, SB
<1>7. SendData(r, b) = Decoder(e, 0, f, o, Append(c, b), d)
  BY <1>0, <1>2, <1>3
<1>8. SendData(q, b) = Decoder(e, 250, Append(f, b), o, c, d)
  BY <1>2, <1>5, <1>6
<1> QED
  BY <1>1, <1>4, <1>7, <1>8

LEMMA ControlEscaped ==
  ASSUME server.protocol = "control", NEW b, NEW s, NEW f, NEW o, NEW c, NEW d
  PROVE  Step(Decoder(1, s, f, o, c, d), b)
            = IF b = 255 THEN Decoder(0, s, f, o, Append(c, b), d)
              ELSE Decoder(0, s, f, o, c,
                     IF Allowed(b) THEN Append(d, Byte("command", b)) ELSE d)
<1>1. PICK r : r = Decoder(1, s, f, o, c, d)
  OBVIOUS
<1>2. PICK q : q = [r EXCEPT !.escape = FALSE]
  OBVIOUS
<1>3. r.escape /\ r.clean = c /\ r.done = d /\ q = Decoder(0, s, f, o, c, d)
  BY <1>1, <1>2, Escaping, FieldsOf
<1>4. PICK x, y : /\ x = Append(c, b)
                  /\ y = IF Allowed(b) THEN Append(d, Byte("command", b)) ELSE d
  OBVIOUS
<1>5. Step(r, b) = ControlStep(r, b)
  BY DEF Step
<1>6. ControlStep(r, b) = IF b = 255 THEN [r EXCEPT !.escape = FALSE, !.clean = x]
                                 ELSE [r EXCEPT !.escape = FALSE, !.done = y]
  BY <1>3, <1>4 DEF ControlStep, ESCAPE
<1>7. /\ [q EXCEPT !.clean = x] = Decoder(0, s, f, o, x, d)
      /\ [q EXCEPT !.done = y] = Decoder(0, s, f, o, c, y)
  BY <1>3, CleanSet, DoneSet
<1>8. /\ [r EXCEPT !.escape = FALSE, !.clean = x] = [q EXCEPT !.clean = x]
      /\ [r EXCEPT !.escape = FALSE, !.done = y] = [q EXCEPT !.done = y]
  BY <1>2
<1> QED
  BY <1>1, <1>4, <1>5, <1>6, <1>7, <1>8

LEMMA ControlPlain ==
  ASSUME server.protocol = "control", server.canWrite \in BOOLEAN,
         NEW b, NEW s, NEW f, NEW o, NEW c, NEW d
  PROVE  Step(Decoder(0, s, f, o, c, d), b)
            = IF b = 255 THEN Decoder(1, s, f, o, c, d)
              ELSE Decoder(0, s, f, o, IF server.canWrite THEN Append(c, b) ELSE c, d)
<1>1. PICK r : r = Decoder(0, s, f, o, c, d)
  OBVIOUS
<1>2. PICK x : x = Append(c, b)
  OBVIOUS
<1>3. /\ ~r.escape /\ r.clean = c
      /\ [r EXCEPT !.escape = TRUE] = Decoder(1, s, f, o, c, d)
      /\ [r EXCEPT !.clean = x] = Decoder(0, s, f, o, x, d)
  BY <1>1, NotEscaping, FieldsOf, CleanSet
<1>4. Step(r, b) = ControlStep(r, b)
  BY DEF Step
<1>5. ControlStep(r, b) = IF b = 255 THEN [r EXCEPT !.escape = TRUE]
                                 ELSE IF server.canWrite THEN [r EXCEPT !.clean = x] ELSE r
  BY <1>2, <1>3 DEF ControlStep, ESCAPE
<1> QED
  BY <1>1, <1>2, <1>3, <1>4, <1>5

LEMMA EscapeBegins ==
  ASSUME server.protocol \in {"control", "telnet"}, server.canWrite \in BOOLEAN,
         NEW s, s = 0 \/ s = 250, NEW f, NEW o, NEW c, NEW d
  PROVE  Step(Decoder(0, s, f, o, c, d), 255) = Decoder(1, s, f, o, c, d)
<1>1. s \notin 251 .. 254
  OBVIOUS
<1> QED
  BY <1>1, TelnetPlain, ControlEscaped, ControlPlain

LEMMA DataPasses ==
  ASSUME server.protocol \in {"control", "telnet"}, server.canWrite \in BOOLEAN,
         NEW b \in Int, b # 255, NEW f, NEW o, NEW c, NEW d
  PROVE  Step(Decoder(0, 0, f, o, c, d), b)
            = Decoder(0, 0, f, o,
                      IF server.protocol = "telnet" \/ server.canWrite THEN Append(c, b) ELSE c, d)
<1>1. 0 \notin 251 .. 254
  OBVIOUS
<1>2. CASE server.protocol = "telnet"
  BY <1>1, <1>2, TelnetPlain, SendDataIs
<1>3. CASE server.protocol = "control"
  BY <1>3, ControlEscaped, ControlPlain
<1> QED
  BY <1>2, <1>3

LEMMA EscapedPasses ==
  ASSUME server.protocol \in {"control", "telnet"}, server.canWrite \in BOOLEAN,
         NEW f, NEW o, NEW c, NEW d
  PROVE  Step(Decoder(1, 0, f, o, c, d), 255)
            = Decoder(0, 0, f, o, Append(c, 255), d)
<1>1. CASE server.protocol = "telnet"
  <2>1. \A x : ProcessIac(x, 255) = SendData(x, 255)
    BY IsVerb DEF ProcessIac, SB, SE, IAC
  <2> QED
    BY <1>1, <2>1, TelnetEscaped, SendDataIs
<1>2. CASE server.protocol = "control"
  BY <1>2, ControlEscaped, ControlPlain
<1> QED
  BY <1>1, <1>2

LEMMA CommandCarriedOut ==
  ASSUME server.protocol = "control", server.canWrite \in BOOLEAN,
         NEW b, b # 255, NEW f, NEW o, NEW c, NEW d
  PROVE  Step(Decoder(1, 0, f, o, c, d), b)
            = Decoder(0, 0, f, o, c,
                      IF Allowed(b) THEN Append(d, Byte("command", b)) ELSE d)
BY ControlEscaped, ControlPlain

LEMMA NopIsNothing ==
  ASSUME server.protocol = "telnet", NEW f, NEW o, NEW c, NEW d
  PROVE  Step(Decoder(1, 0, f, o, c, d), 241) = Decoder(0, 0, f, o, c, d)
<1>1. \A x : ProcessIac(x, 241) = x
  BY IsVerb DEF ProcessIac, SB, SE, IAC
<1> QED
  BY <1>1, TelnetEscaped

LEMMA OptionBegins ==
  ASSUME server.protocol = "telnet", NEW v \in 251 .. 254, NEW f, NEW o, NEW c, NEW d
  PROVE  Step(Decoder(1, 0, f, o, c, d), v) = Decoder(0, v, f, o, c, d)
<1>1. PICK r : r = Decoder(0, 0, f, o, c, d)
  OBVIOUS
<1>2. ProcessIac(r, v) = [r EXCEPT !.state = v]
  BY IsVerb DEF ProcessIac, SB, SE, IAC
<1>3. [r EXCEPT !.state = v] = Decoder(0, v, f, o, c, d)
  BY <1>1, StateSet
<1> QED
  BY <1>1, <1>2, <1>3, TelnetEscaped

LEMMA OptionEnds ==
  ASSUME server.protocol = "telnet", NEW v \in 251 .. 254, NEW b, NEW f, NEW o, NEW c, NEW d
  PROVE  Step(Decoder(0, v, f, o, c, d), b)
            = Decoder(0, 0, f, o, c, Append(d, Option(v, b)))
<1>1. PICK r : r = Decoder(0, v, f, o, c, d)
  OBVIOUS
<1>2. ~r.escape /\ r.state = v /\ r.done = d
  BY <1>1, FieldsOf, NotEscaping
<1>3. Step(r, b) = TelnetStep(r, b)
  BY DEF Step
<1>5. PICK y : y = Append(d, Option(v, b))
  OBVIOUS
<1>4. TelnetStep(r, b) = [r EXCEPT !.state = 0, !.done = y]
  BY <1>2, <1>5, IsVerb DEF TelnetStep
<1>6. PICK q : q = [r EXCEPT !.state = 0]
  OBVIOUS
<1>7. q = Decoder(0, 0, f, o, c, d)
  BY <1>1, <1>6, StateSet
<1>8. [q EXCEPT !.done = y] = Decoder(0, 0, f, o, c, y)
  BY <1>7, DoneSet
<1>9. [r EXCEPT !.state = 0, !.done = y] = [q EXCEPT !.done = y]
  BY <1>6
<1> QED
  BY <1>1, <1>3, <1>4, <1>5, <1>8, <1>9

LEMMA FrameBegins ==
  ASSUME server.protocol = "telnet", NEW f, NEW o, NEW c, NEW d
  PROVE  Step(Decoder(1, 0, f, o, c, d), 250) = Decoder(0, 250, <<>>, 1, c, d)
<1>1. PICK r : r = Decoder(0, 0, f, o, c, d)
  OBVIOUS
<1>2. ProcessIac(r, 250) = [r EXCEPT !.state = 250, !.frame = <<>>, !.open = TRUE]
  <2>1. ProcessIac(r, 250) = FrameBegun(r)
    BY IsVerb DEF ProcessIac, SB, SE, IAC
  <2>2. FrameBegun(r) = [r EXCEPT !.state = SB, !.frame = <<>>, !.open = TRUE]
    BY Zenon DEF FrameBegun
  <2>3. SB = 250
    BY DEF SB
  <2> QED
    BY <2>1, <2>2, <2>3, Zenon
<1>3. PICK q : q = [r EXCEPT !.state = 250]
  OBVIOUS
<1>4. q = Decoder(0, 250, f, o, c, d)
  BY <1>1, <1>3, StateSet
<1>5. PICK p : p = [q EXCEPT !.frame = <<>>]
  OBVIOUS
<1>6. p = Decoder(0, 250, <<>>, o, c, d)
  BY <1>4, <1>5, FrameSet
<1>7. [p EXCEPT !.open = TRUE] = Decoder(0, 250, <<>>, 1, c, d)
  BY <1>6, Opening
<1>8. [r EXCEPT !.state = 250, !.frame = <<>>, !.open = TRUE] = [p EXCEPT !.open = TRUE]
  <2>1. \A v : [r EXCEPT !.state = 250, !.frame = <<>>, !.open = v] = [p EXCEPT !.open = v]
    BY <1>3, <1>5
  <2> QED
    BY <2>1, Zenon
<1>9. ProcessIac(r, 250) = Decoder(0, 250, <<>>, 1, c, d)
  BY <1>2, <1>7, <1>8, Zenon
<1> QED
  BY <1>1, <1>9, TelnetEscaped

LEMMA FrameGoesOn ==
  ASSUME server.protocol = "telnet", NEW b \in Int, b # 255, NEW f, NEW o, NEW c, NEW d
  PROVE  Step(Decoder(0, 250, f, o, c, d), b)
            = Decoder(0, 250, Append(f, b), o, c, d)
<1>1. 250 \notin 251 .. 254
  OBVIOUS
<1> QED
  BY <1>1, TelnetPlain, SendDataIs

LEMMA FrameGoesOnEscaped ==
  ASSUME server.protocol = "telnet", NEW f, NEW o, NEW c, NEW d
  PROVE  Step(Decoder(1, 250, f, o, c, d), 255)
            = Decoder(0, 250, Append(f, 255), o, c, d)
<1>1. \A x : ProcessIac(x, 255) = SendData(x, 255)
  BY IsVerb DEF ProcessIac, SB, SE, IAC
<1> QED
  BY <1>1, TelnetEscaped, SendDataIs

LEMMA FrameEnds ==
  ASSUME server.protocol = "telnet", NEW f, NEW c, NEW d
  PROVE  Step(Decoder(1, 250, f, 1, c, d), 240)
            = Decoder(0, 0, <<>>, 0, c, Append(d, Frame(f)))
<1>1. PICK r : r = Decoder(0, 250, f, 1, c, d)
  OBVIOUS
<1>2. r.open /\ r.frame = f /\ r.done = d
  BY <1>1, FieldsOf, Closing
<1>3. PICK y : y = Append(d, Frame(f))
  OBVIOUS
<1>4. ProcessIac(r, 240)
        = [r EXCEPT !.state = 0, !.frame = <<>>, !.open = FALSE, !.done = y]
  <2>1. ProcessIac(r, 240) = FrameEnded(r)
    BY IsVerb DEF ProcessIac, SB, SE, IAC
  <2>3. FrameEnded(r)
          = [r EXCEPT !.state = 0, !.frame = <<>>, !.open = FALSE,
                      !.done = IF r.open THEN Append(r.done, Frame(r.frame)) ELSE r.done]
    BY Zenon DEF FrameEnded
  <2>2. y = IF r.open THEN Append(r.done, Frame(r.frame)) ELSE r.done
    BY <1>2, <1>3
  <2> QED
    BY <2>1, <2>2, <2>3, Zenon
<1>5. PICK q : q = [r EXCEPT !.state = 0]
  OBVIOUS
<1>6. q = Decoder(0, 0, f, 1, c, d)
  BY <1>1, <1>5, StateSet
<1>7. PICK p : p = [q EXCEPT !.frame = <<>>]
  OBVIOUS
<1>8. p = Decoder(0, 0, <<>>, 1, c, d)
  BY <1>6, <1>7, FrameSet
<1>9. PICK n : n = [p EXCEPT !.open = FALSE]
  OBVIOUS
<1>10. n = Decoder(0, 0, <<>>, 0, c, d)
  BY <1>8, <1>9, Closing
<1>11. [n EXCEPT !.done = y] = Decoder(0, 0, <<>>, 0, c, y)
  BY <1>10, DoneSet
<1>12. [r EXCEPT !.state = 0, !.frame = <<>>, !.open = FALSE, !.done = y]
         = [n EXCEPT !.done = y]
  <2>1. ASSUME NEW v, NEW z, z = [p EXCEPT !.open = v]
        PROVE  [r EXCEPT !.state = 0, !.frame = <<>>, !.open = v, !.done = y]
                 = [z EXCEPT !.done = y]
    BY <1>5, <1>7, <2>1
  <2> QED
    BY <1>9, <2>1, Zenon
<1> QED
  BY <1>1, <1>3, <1>4, <1>11, <1>12, TelnetEscaped

-----------------------------------------------------------------------------
(***************************************************************************)
(* How a token is read, byte by byte: what is left of it, and where that   *)
(* finds the decoder.                                                      *)
(***************************************************************************)
LEMMA JoinBytes ==
  ASSUME NEW s \in Seq(Int), NEW t \in Seq(Int), NEW u \in Seq(Int)
  PROVE  (s \o t) \o u = s \o (t \o u) /\ t \o u \in Seq(Int)
BY JoinJoin, JoinTyped, SMTT(40)

LEMMA OneByte ==
  ASSUME NEW b \in Int
  PROVE  <<b>> \in Seq(Int) /\ <<b>> # <<>>
OBVIOUS

LEMMA ByteBehind ==
  ASSUME NEW s \in Seq(Int), NEW b \in Int
  PROVE  Append(s, b) = s \o <<b>>
BY JoinOne

LEMMA AppendByte ==
  ASSUME NEW s \in Seq(Int), NEW b \in Int
  PROVE  /\ Append(s, b) \in Seq(Int) /\ Len(Append(s, b)) = Len(s) + 1
         /\ \A i \in 1 .. Len(s) : Append(s, b)[i] = s[i]
         /\ Append(s, b)[Len(s) + 1] = b
BY AppendProperties

LEMMA Pair ==
  ASSUME NEW a \in Int, NEW b \in Int
  PROVE  <<a, b>> = <<a>> \o <<b>> /\ <<b>> \in Seq(Int) /\ <<b>> # <<>>
<1>1. PICK x : x = <<a>>
  OBVIOUS
<1>2. x \in Seq(Int) /\ Append(x, b) = <<a, b>>
  <2>1. x \in Seq(Int) /\ Len(x) = 1 /\ x[1] = a
    BY <1>1
  <2>2. PICK y : y = Append(x, b)
    OBVIOUS
  <2>3. y \in Seq(Int) /\ Len(y) = 2 /\ y[1] = a /\ y[2] = b
    <3>1. /\ y \in Seq(Int) /\ Len(y) = Len(x) + 1 /\ y[Len(x) + 1] = b
          /\ \A i \in 1 .. Len(x) : y[i] = x[i]
      BY <2>1, <2>2, AppendByte
    <3> QED
      BY <2>1, <3>1
  <2>4. PICK z : z = <<a, b>>
    OBVIOUS
  <2>5. z \in Seq(Int) /\ Len(z) = 2 /\ z[1] = a /\ z[2] = b
    BY <2>4
  <2>6. \A i \in 1 .. 2 : y[i] = z[i]
    BY <2>3, <2>5
  <2>7. y = z
    BY <2>3, <2>5, <2>6, SeqEqual
  <2> QED
    BY <2>1, <2>2, <2>4, <2>7
<1>3. Append(x, b) = x \o <<b>>
  BY <1>2, ByteBehind
<1>4. <<b>> \in Seq(Int) /\ <<b>> # <<>>
  OBVIOUS
<1> QED
  BY <1>1, <1>2, <1>3, <1>4, Zenon

LEMMA Triple ==
  ASSUME NEW a \in Int, NEW b \in Int, NEW c \in Int
  PROVE  <<a, b, c>> = <<a>> \o <<b, c>> /\ <<b, c>> \in Seq(Int) /\ <<b, c>> # <<>>
<1>1. PICK x, y, z : x = <<a>> /\ y = <<b>> /\ z = <<a, b>>
  OBVIOUS
<1>2. x \in Seq(Int) /\ y \in Seq(Int) /\ z \in Seq(Int) /\ <<c>> \in Seq(Int)
  BY <1>1
<1>3. Append(z, c) = <<a, b, c>>
  <2>1. z \in Seq(Int) /\ Len(z) = 2 /\ z[1] = a /\ z[2] = b
    BY <1>1
  <2>2. PICK p : p = Append(z, c)
    OBVIOUS
  <2>3. p \in Seq(Int) /\ Len(p) = 3 /\ p[1] = a /\ p[2] = b /\ p[3] = c
    <3>1. /\ p \in Seq(Int) /\ Len(p) = Len(z) + 1 /\ p[Len(z) + 1] = c
          /\ \A i \in 1 .. Len(z) : p[i] = z[i]
      BY <2>1, <2>2, AppendByte
    <3> QED
      BY <2>1, <3>1
  <2>4. PICK q : q = <<a, b, c>>
    OBVIOUS
  <2>5. q \in Seq(Int) /\ Len(q) = 3 /\ q[1] = a /\ q[2] = b /\ q[3] = c
    BY <2>4
  <2>6. \A i \in 1 .. 3 : p[i] = q[i]
    BY <2>3, <2>5
  <2>7. p = q
    BY <2>3, <2>5, <2>6, SeqEqual
  <2> QED
    BY <2>2, <2>4, <2>7
<1>4. Append(z, c) = z \o <<c>>
  BY <1>2, ByteBehind
<1>5. z = x \o y /\ <<b, c>> = y \o <<c>>
  BY <1>1, Pair
<1>6. (x \o y) \o <<c>> = x \o (y \o <<c>>)
  BY <1>2, JoinBytes
<1>7. <<b, c>> \in Seq(Int) /\ <<b, c>> # <<>>
  OBVIOUS
<1> QED
  BY <1>1, <1>3, <1>4, <1>5, <1>6, <1>7, Zenon

LEMMA Nonempty ==
  ASSUME NEW S, NEW s \in Seq(S), NEW t \in Seq(S), s # <<>> \/ t # <<>>
  PROVE  s \o t # <<>>
<1>1. Len(s) > 0 \/ Len(t) > 0
  BY EmptySeq, LenProperties
<1>2. Len(s \o t) > 0
  BY <1>1, JoinTyped, LenProperties
<1> QED
  BY <1>2, EmptySeq

\* What a frame's token looks like behind its first byte, and behind its second.
FrameTail(p) == Doubled(p) \o <<255, 240>>

LEMMA FrameTailTyped ==
  ASSUME NEW p \in Seq(Int)
  PROVE  FrameTail(p) \in Seq(Int) /\ FrameTail(p) # <<>>
<1>1. <<255, 240>> \in Seq(Int) /\ <<255, 240>> # <<>>
  OBVIOUS
<1> QED
  BY <1>1, DoubledTyped, JoinTyped, Nonempty DEF FrameTail

LEMMA FrameTailFirst ==
  ASSUME NEW b \in Int, NEW p \in Seq(Int)
  PROVE  FrameTail(<<b>> \o p)
            = IF b = 255 THEN << 255 >> \o (<< 255 >> \o FrameTail(p)) ELSE <<b>> \o FrameTail(p)
<1>1. PICK e, u, v : e = <<255, 240>> /\ u = Doubled(p) /\ v = << 255 >>
  OBVIOUS
<1>2. e \in Seq(Int) /\ u \in Seq(Int) /\ v \in Seq(Int) /\ <<b>> \in Seq(Int)
  BY <1>1, DoubledTyped
<1>3. CASE b = 255
  <2>1. Doubled(<<b>> \o p) = <<255, 255>> \o u
    BY <1>1, <1>3, DoubledFirst, ZenonT(60)
  <2>2. <<255, 255>> = v \o v
    BY <1>1, Pair
  <2>3. PICK w : w = v \o u
    OBVIOUS
  <2>4. (v \o v) \o u = v \o w /\ w \in Seq(Int)
    BY <1>2, <2>3, JoinBytes, ZenonT(60)
  <2>5. (v \o w) \o e = v \o (w \o e)
    BY <1>2, <2>4, JoinBytes, SMTT(40)
  <2>6. w \o e = v \o (u \o e)
    BY <1>2, <2>3, JoinBytes, SMTT(40)
  <2>7. Doubled(<<b>> \o p) = v \o w
    BY <2>1, <2>2, <2>4
  <2>8. FrameTail(<<b>> \o p) = (v \o w) \o e
    BY <1>1, <2>7, Zenon DEF FrameTail
  <2>9. FrameTail(p) = u \o e
    BY <1>1, Zenon DEF FrameTail
  <2>10. FrameTail(<<b>> \o p) = v \o (v \o FrameTail(p))
    BY <2>5, <2>6, <2>8, <2>9
  <2> QED
    BY <1>1, <1>3, <2>10
<1>4. CASE b # 255
  <2>1. PICK o : o = <<b>>
    OBVIOUS
  <2>2. Doubled(<<b>> \o p) = o \o u
    BY <1>1, <1>4, <2>1, DoubledFirst
  <2>4. o \in Seq(Int)
    BY <1>2, <2>1
  <2>3. (o \o u) \o e = o \o (u \o e)
    BY <1>2, <2>4, JoinBytes, ZenonT(60)
  <2>8. FrameTail(<<b>> \o p) = (o \o u) \o e
    BY <1>1, <2>2, Zenon DEF FrameTail
  <2>9. FrameTail(p) = u \o e
    BY <1>1, Zenon DEF FrameTail
  <2>10. FrameTail(<<b>> \o p) = o \o FrameTail(p)
    BY <2>3, <2>8, <2>9
  <2> QED
    BY <1>4, <2>1, <2>10
<1> QED
  BY <1>3, <1>4

LEMMA EncodeIs ==
  ASSUME server \in Settings, NEW token \in Tokens
  PROVE  /\ token.kind = "data" =>
              Encode(token) = IF token.byte = 255 THEN <<255, 255>> ELSE <<token.byte>>
         /\ token.kind = "command" => Encode(token) = <<255, token.byte>>
         /\ token.kind = "option" => Encode(token) = <<255, token.verb, token.option>>
         /\ token.kind = "frame" =>
              Encode(token) = << 255 >> \o (<< 250 >> \o FrameTail(token.payload))
<1>1. CASE token.kind = "data"
  <2>1. Encode(token) = Doubled(<<token.byte>>)
    BY <1>1 DEF Encode
  <2>2. token.byte \in Int
    BY <1>1, TokenKinds
  <2> QED
    BY <1>1, <2>1, <2>2, DoubledOne
<1>2. CASE token.kind = "command"
  BY <1>2 DEF Encode, ESCAPE
<1>3. CASE token.kind = "option"
  BY <1>3 DEF Encode, IAC
<1>4. CASE token.kind = "frame"
  <2>1. token.payload \in Seq(Int)
    BY <1>4, TokenKinds
  <2>2. PICK u, e, a, b : /\ u = Doubled(token.payload) /\ e = <<255, 240>>
                          /\ a = << 255 >> /\ b = << 250 >>
    OBVIOUS
  <2>3. u \in Seq(Int) /\ e \in Seq(Int) /\ a \in Seq(Int) /\ b \in Seq(Int)
    BY <2>1, <2>2, DoubledTyped
  <2>4. Encode(token) = (<<255, 250>> \o u) \o e
    BY <1>4, <2>2 DEF Encode, IAC, SB, SE
  <2>5. <<255, 250>> = a \o b
    BY <2>2, Pair
  <2>8. PICK c : c = b \o u
    OBVIOUS
  <2>6. (a \o b) \o u = a \o c /\ c \in Seq(Int)
    BY <2>3, <2>8, JoinBytes, ZenonT(60)
  <2>9. (a \o c) \o e = a \o (c \o e)
    BY <2>3, <2>6, JoinBytes, ZenonT(60)
  <2>7. c \o e = b \o (u \o e)
    BY <2>3, <2>8, JoinBytes
  <2>10. FrameTail(token.payload) = u \o e
    BY <2>2, Zenon DEF FrameTail
  <2>11. Encode(token) = a \o (b \o FrameTail(token.payload))
    <3>1. Encode(token) = (a \o c) \o e
      BY <2>4, <2>5, <2>6
    <3> QED
      BY <3>1, <2>7, <2>9, <2>10
  <2> QED
    BY <1>4, <2>2, <2>11
<1> QED
  BY <1>1, <1>2, <1>3, <1>4, TokenKinds

-----------------------------------------------------------------------------
\* How far a token has been read when tail is what is left of it.
ReadsFrame(p, tail, x) ==
    \/ tail = << 250 >> \o FrameTail(p) /\ Being(x, 1, 0, <<>>, 0)
    \/ \E g, h \in Seq(Int) : p = g \o h /\ tail = FrameTail(h) /\ Being(x, 0, 250, g, 1)
    \/ \E g, h \in Seq(Int) :
          p = g \o (<< 255 >> \o h) /\ tail = << 255 >> \o FrameTail(h) /\ Being(x, 1, 250, g, 1)
    \/ tail = << 240 >> /\ Being(x, 1, 250, p, 1)

Reads(token, tail, x) ==
    \/ tail = Encode(token) /\ Between(x)
    \/ /\ token.kind \in {"data", "command"} /\ (token.kind = "data" => token.byte = 255)
       /\ tail = <<token.byte>> /\ Being(x, 1, 0, <<>>, 0)
    \/ token.kind = "option" /\ tail = <<token.verb, token.option>> /\ Being(x, 1, 0, <<>>, 0)
    \/ token.kind = "option" /\ tail = <<token.option>> /\ Being(x, 0, token.verb, <<>>, 0)
    \/ token.kind = "frame" /\ ReadsFrame(token.payload, tail, x)

\* What a token has brought about when it has been read to its end.
Brings(token, x, y) ==
    /\ Between(y)
    /\ IF token.kind = "data"
         THEN /\ y.done = x.done
              /\ \/ y.clean = Append(x.clean, token.byte)
                 \/ ~server.canWrite /\ y.clean = x.clean
         ELSE /\ y.clean = x.clean
              /\ y.done = IF Meant(token) THEN Append(x.done, token) ELSE x.done

ReadsOn(token, tail, x) ==
    \E b \in Int, rest \in Seq(Int) :
       /\ tail = <<b>> \o rest
       /\ \/ /\ rest # <<>> /\ Reads(token, rest, Step(x, b))
             /\ Step(x, b).clean = x.clean /\ Step(x, b).done = x.done
          \/ rest = <<>> /\ Brings(token, x, Step(x, b))

LEMMA NowBeing ==
  ASSUME NEW e, NEW s, NEW f, NEW o, NEW c, NEW d, NEW y, y = Decoder(e, s, f, o, c, d)
  PROVE  Being(y, e, s, f, o) /\ y.clean = c /\ y.done = d
<1>1. y.clean = c /\ y.done = d
  BY FieldsOf
<1> QED
  BY <1>1 DEF Being

LEMMA GoesOn ==
  ASSUME NEW token, NEW tail, NEW x, NEW b \in Int, NEW rest \in Seq(Int), rest # <<>>,
         tail = <<b>> \o rest, NEW y, y = Step(x, b),
         y.clean = x.clean, y.done = x.done, Reads(token, rest, y)
  PROVE  ReadsOn(token, tail, x)
BY DEF ReadsOn

LEMMA GoesOnEscaped ==
  ASSUME NEW token, NEW tail, NEW x, NEW rest \in Seq(Int), rest # <<>>,
         tail = << 255 >> \o rest, NEW y, y = Step(x, 255),
         y.clean = x.clean, y.done = x.done, Reads(token, rest, y)
  PROVE  ReadsOn(token, tail, x)
<1>1. PICK b \in Int : b = 255
  OBVIOUS
<1>2. tail = <<b>> \o rest /\ y = Step(x, b)
  BY <1>1
<1> QED
  BY <1>2, GoesOn

LEMMA Ends ==
  ASSUME NEW token, NEW tail, NEW x, NEW b \in Int, tail = <<b>>, NEW c, NEW d,
         Step(x, b) = Decoder(0, 0, <<>>, 0, c, d),
         IF token.kind = "data"
           THEN d = x.done /\ (c = Append(x.clean, token.byte) \/ (~server.canWrite /\ c = x.clean))
           ELSE /\ c = x.clean
                /\ d = IF Meant(token) THEN Append(x.done, token) ELSE x.done
  PROVE  ReadsOn(token, tail, x)
<1>1. PICK y : y = Step(x, b)
  OBVIOUS
<1>2. y.clean = c /\ y.done = d
  BY <1>1, FieldsOf
<1>3. Between(y)
  BY <1>1, <1>2 DEF Between, Being
<1>4. Brings(token, x, y)
  BY <1>2, <1>3 DEF Brings
<1>5. <<b>> = <<b>> \o <<>> /\ <<>> \in Seq(Int)
  BY OneByte, JoinTyped
<1> QED
  BY <1>1, <1>4, <1>5 DEF ReadsOn

LEMMA FromHere ==
  ASSUME NEW S, NEW w \in Seq(S), NEW i \in 1 .. Len(w)
  PROVE  /\ w[i] \in S /\ SubSeq(w, i + 1, Len(w)) \in Seq(S)
         /\ SubSeq(w, i, Len(w)) = <<w[i]>> \o SubSeq(w, i + 1, Len(w))
<1>1. PICK n \in Nat : n = Len(w)
  BY LenProperties
<1>2. \A j \in 1 .. n : w[j] \in S
  BY <1>1, ElementOfSeq
<1>3. i \in 1 .. n
  BY <1>1
<1>4. PICK x : x = SubSeq(w, i, n)
  OBVIOUS
<1>5. PICK y : y = SubSeq(w, i + 1, n)
  OBVIOUS
<1>6. /\ x \in Seq(S) /\ Len(x) = n - i + 1
      /\ \A j \in 1 .. n - i + 1 : x[j] = w[i + j - 1]
  BY <1>2, <1>3, <1>4, SubSeqProperties
<1>7. /\ y \in Seq(S) /\ Len(y) = n - i
      /\ \A j \in 1 .. n - i : y[j] = w[i + j]
  <2>1. \A j \in i + 1 .. n : w[j] \in S
    BY <1>2, <1>3
  <2> QED
    BY <1>3, <1>5, <2>1, SubSeqProperties
<1>8. PICK o : o = <<w[i]>>
  OBVIOUS
<1>9. o \in Seq(S) /\ Len(o) = 1 /\ o[1] = w[i]
  BY <1>2, <1>3, <1>8
<1>10. PICK z : z = o \o y
  OBVIOUS
<1>11. /\ z \in Seq(S) /\ Len(z) = n - i + 1 /\ z[1] = w[i]
       /\ \A j \in 2 .. n - i + 1 : z[j] = y[j - 1]
  <2>1. /\ z \in Seq(S) /\ Len(z) = Len(o) + Len(y)
        /\ \A j \in 1 .. Len(o) + Len(y) : z[j] = IF j <= Len(o) THEN o[j] ELSE y[j - Len(o)]
    BY <1>7, <1>9, <1>10, ConcatProperties
  <2>2. Len(o) = 1 /\ Len(y) = n - i /\ n - i \in Nat
    BY <1>3, <1>7, <1>9
  <2>3. \A j \in 1 .. 1 + (n - i) : z[j] = IF j <= 1 THEN o[j] ELSE y[j - 1]
    BY <2>1, <2>2
  <2> QED
    BY <1>9, <2>1, <2>2, <2>3
<1>12. ASSUME NEW j \in 1 .. n - i + 1
       PROVE  x[j] = z[j]
  <2>1. CASE j = 1
    BY <1>3, <1>6, <1>11, <2>1
  <2>2. CASE j # 1
    <3>1. j \in 2 .. n - i + 1 /\ j - 1 \in 1 .. n - i /\ i + (j - 1) = i + j - 1
      BY <1>3, <2>2
    <3>2. z[j] = y[j - 1] /\ y[j - 1] = w[i + (j - 1)] /\ x[j] = w[i + j - 1]
      BY <1>6, <1>7, <1>11, <3>1
    <3> QED
      BY <3>1, <3>2
  <2> QED
    BY <2>1, <2>2
<1>13. x = z
  BY <1>6, <1>11, <1>12, SeqEqual
<1> QED
  BY <1>1, <1>2, <1>3, <1>4, <1>5, <1>7, <1>8, <1>10, <1>13

LEMMA FirstByte ==
  ASSUME NEW h \in Seq(Int), h # <<>>
  PROVE  \E b \in Int, u \in Seq(Int) : h = <<b>> \o u
<1>1. Len(h) \in Nat /\ Len(h) # 0
  BY EmptySeq, LenProperties
<1>2. 1 \in 1 .. Len(h)
  BY <1>1
<1>3. SubSeq(h, 1, Len(h)) = h
  BY SubSeqFull
<1>4. PICK b, u : b = h[1] /\ u = SubSeq(h, 1 + 1, Len(h))
  OBVIOUS
<1>5. b \in Int /\ u \in Seq(Int) /\ SubSeq(h, 1, Len(h)) = <<b>> \o u
  BY <1>2, <1>4, FromHere
<1> QED
  BY <1>3, <1>5

-----------------------------------------------------------------------------
\* A token, byte by byte.
LEMMA DataRead ==
  ASSUME server \in Settings, NEW token \in Tokens, token.kind = "data",
         NEW tail, NEW x, Reads(token, tail, x)
  PROVE  ReadsOn(token, tail, x)
<1>1. /\ server.protocol \in {"control", "telnet"} /\ server.canWrite \in BOOLEAN
      /\ token.byte \in Int
  BY SettingIs, TokenKinds
<1>2. PICK c, d, b : c = x.clean /\ d = x.done /\ b = token.byte
  OBVIOUS
<1>3. CASE tail = Encode(token) /\ Between(x) /\ b = 255
  <2>1. tail = <<255, 255>>
    <3>1. Encode(token) = IF token.byte = 255 THEN <<255, 255>> ELSE <<token.byte>>
      BY EncodeIs
    <3> QED
      BY <1>2, <1>3, <3>1, Zenon
  <2>2. tail = << 255 >> \o << 255 >> /\ << 255 >> \in Seq(Int) /\ << 255 >> # <<>>
    BY <2>1, Pair
  <2>3. Step(x, 255) = Decoder(1, 0, <<>>, 0, x.clean, x.done)
    BY <1>1, <1>3, EscapeBegins DEF Between, Being
  <2>4. PICK y : y = Step(x, 255)
    OBVIOUS
  <2>5. Being(y, 1, 0, <<>>, 0) /\ y.clean = x.clean /\ y.done = x.done
    BY <2>3, <2>4, NowBeing
  <2>10. Reads(token, << 255 >>, y)
    BY <1>2, <1>3, <2>5 DEF Reads
  <2> QED
    BY <2>2, <2>4, <2>5, <2>10, GoesOnEscaped, ZenonT(60)
<1>4. CASE tail = Encode(token) /\ Between(x) /\ b # 255
  <2>1. tail = <<b>>
    BY <1>2, <1>4, EncodeIs
  <2>2. PICK e : e = IF server.protocol = "telnet" \/ server.canWrite THEN Append(c, b) ELSE c
    OBVIOUS
  <2>3. Step(x, b) = Decoder(0, 0, <<>>, 0, e, d)
    <3>1. x = Decoder(0, 0, <<>>, 0, c, d) /\ b \in Int /\ b # 255
      BY <1>1, <1>2, <1>4 DEF Between, Being
    <3>2. Step(Decoder(0, 0, <<>>, 0, c, d), b)
            = Decoder(0, 0, <<>>, 0,
                IF server.protocol = "telnet" \/ server.canWrite THEN Append(c, b) ELSE c, d)
      BY <1>1, <3>1, DataPasses
    <3> QED
      BY <2>2, <3>1, <3>2, Zenon
  <2>4. d = x.done /\ (e = Append(x.clean, token.byte) \/ (~server.canWrite /\ e = x.clean))
    BY <1>2, <2>2
  <2>5. b \in Int
    BY <1>1, <1>2
  <2> QED
    BY <2>1, <2>3, <2>4, <2>5, Ends
<1>5. CASE b = 255 /\ tail = <<b>> /\ Being(x, 1, 0, <<>>, 0)
  <2>1. Step(x, 255) = Decoder(0, 0, <<>>, 0, Append(c, 255), d)
    BY <1>1, <1>2, <1>5, EscapedPasses DEF Being
  <2>2. PICK e : e = Append(c, 255)
    OBVIOUS
  <2>3. d = x.done /\ e = Append(x.clean, token.byte)
    BY <1>2, <1>5, <2>2
  <2> QED
    <3>1. b \in Int
      BY <1>5
    <3>2. Step(x, b) = Decoder(0, 0, <<>>, 0, e, d)
      BY <1>5, <2>1, <2>2
    <3> QED
      BY <1>5, <2>3, <3>1, <3>2, Ends
<1> QED
  BY <1>2, <1>3, <1>4, <1>5 DEF Reads

LEMMA CommandRead ==
  ASSUME server \in Settings, NEW token \in Tokens, token.kind = "command",
         NEW tail, NEW x, Reads(token, tail, x)
  PROVE  ReadsOn(token, tail, x)
<1>1. /\ server.protocol \in {"control", "telnet"} /\ server.canWrite \in BOOLEAN
      /\ token.byte \in Int /\ token.byte # 255 /\ token = Byte("command", token.byte)
      /\ (server.protocol = "telnet" => token.byte = 241)
  BY SettingIs, TokenKinds
<1>2. PICK c, d, b : c = x.clean /\ d = x.done /\ b = token.byte
  OBVIOUS
<1>3. CASE tail = Encode(token) /\ Between(x)
  <2>1. tail = <<255, b>>
    BY <1>2, <1>3, EncodeIs
  <2>2. b \in Int
    BY <1>1, <1>2
  <2>3. tail = << 255 >> \o <<b>> /\ <<b>> \in Seq(Int) /\ <<b>> # <<>>
    BY <2>1, <2>2, Pair
  <2>4. Step(x, 255) = Decoder(1, 0, <<>>, 0, x.clean, x.done)
    BY <1>1, <1>3, EscapeBegins DEF Between, Being
  <2>5. PICK y : y = Step(x, 255)
    OBVIOUS
  <2>6. Being(y, 1, 0, <<>>, 0) /\ y.clean = x.clean /\ y.done = x.done
    BY <2>4, <2>5, NowBeing
  <2>10. Reads(token, <<b>>, y)
    BY <1>2, <1>3, <2>6 DEF Reads
  <2> QED
    BY <2>3, <2>5, <2>6, <2>10, GoesOnEscaped
<1>4. CASE tail = <<b>> /\ Being(x, 1, 0, <<>>, 0)
  <2>1. b \in Int /\ b # 255
    BY <1>1, <1>2
  <2>2. CASE server.protocol = "control"
    <3>1. PICK e : e = IF Allowed(b) THEN Append(d, Byte("command", b)) ELSE d
      OBVIOUS
    <3>2. Step(x, b) = Decoder(0, 0, <<>>, 0, c, e)
      BY <1>1, <1>2, <1>4, <2>1, <2>2, <3>1, CommandCarriedOut DEF Being
    <3>3. Meant(token) <=> Allowed(b)
      BY <1>2, <2>2 DEF Meant
    <3>4. e = IF Meant(token) THEN Append(x.done, token) ELSE x.done
      BY <1>1, <1>2, <3>1, <3>3
    <3> QED
      BY <1>2, <1>4, <2>1, <3>2, <3>4, Ends
  <2>3. CASE server.protocol = "telnet"
    <3>1. b = 241
      BY <1>1, <1>2, <2>3
    <3>2. Step(x, b) = Decoder(0, 0, <<>>, 0, c, d)
      BY <1>2, <1>4, <2>3, <3>1, NopIsNothing DEF Being
    <3>3. ~Meant(token)
      BY <2>3 DEF Meant
    <3> QED
      BY <1>2, <1>4, <2>1, <3>2, <3>3, Ends
  <2> QED
    BY <1>1, <2>2, <2>3
<1> QED
  BY <1>2, <1>3, <1>4 DEF Reads

LEMMA OptionRead ==
  ASSUME server \in Settings, NEW token \in Tokens, token.kind = "option",
         NEW tail, NEW x, Reads(token, tail, x)
  PROVE  ReadsOn(token, tail, x)
<1>1. /\ server.protocol = "telnet" /\ server.canWrite \in BOOLEAN
      /\ token.verb \in 251 .. 254 /\ token.option \in Int
      /\ token = Option(token.verb, token.option)
  BY SettingIs, TokenKinds
<1>2. PICK v, n : v = token.verb /\ n = token.option
  OBVIOUS
<1>3. v \in 251 .. 254 /\ v \in Int /\ n \in Int
  BY <1>1, <1>2
<1>4. CASE tail = Encode(token) /\ Between(x)
  <2>1. tail = <<255, v, n>>
    BY <1>2, <1>4, EncodeIs
  <2>3. tail = << 255 >> \o <<v, n>> /\ <<v, n>> \in Seq(Int) /\ <<v, n>> # <<>>
    <3>1. PICK i \in Int : i = 255
      OBVIOUS
    <3>2. <<i, v, n>> = <<i>> \o <<v, n>> /\ <<v, n>> \in Seq(Int) /\ <<v, n>> # <<>>
      BY <1>3, Triple
    <3> QED
      BY <2>1, <3>1, <3>2, Zenon
  <2>4. Step(x, 255) = Decoder(1, 0, <<>>, 0, x.clean, x.done)
    BY <1>1, <1>4, EscapeBegins DEF Between, Being
  <2>5. PICK y : y = Step(x, 255)
    OBVIOUS
  <2>6. Being(y, 1, 0, <<>>, 0) /\ y.clean = x.clean /\ y.done = x.done
    BY <2>4, <2>5, NowBeing
  <2>10. Reads(token, <<v, n>>, y)
    BY <1>2, <2>6 DEF Reads
  <2> QED
    BY <2>3, <2>5, <2>6, <2>10, GoesOnEscaped
<1>5. CASE tail = <<v, n>> /\ Being(x, 1, 0, <<>>, 0)
  <2>1. tail = <<v>> \o <<n>> /\ <<n>> \in Seq(Int) /\ <<n>> # <<>>
    BY <1>3, <1>5, Pair
  <2>2. Step(x, v) = Decoder(0, v, <<>>, 0, x.clean, x.done)
    BY <1>1, <1>3, <1>5, OptionBegins DEF Being
  <2>3. PICK y : y = Step(x, v)
    OBVIOUS
  <2>4. Being(y, 0, v, <<>>, 0) /\ y.clean = x.clean /\ y.done = x.done
    BY <2>2, <2>3, NowBeing
  <2>10. Reads(token, <<n>>, y)
    BY <1>2, <2>4 DEF Reads
  <2> QED
    BY <1>3, <2>1, <2>3, <2>4, <2>10, GoesOn
<1>6. CASE tail = <<n>> /\ Being(x, 0, v, <<>>, 0)
  <2>1. PICK e : e = Append(x.done, Option(v, n))
    OBVIOUS
  <2>2. Step(x, n) = Decoder(0, 0, <<>>, 0, x.clean, e)
    BY <1>1, <1>3, <1>6, <2>1, OptionEnds DEF Being
  <2>3. Meant(token)
    BY DEF Meant
  <2>4. e = Append(x.done, token)
    BY <1>1, <1>2, <2>1
  <2> QED
    BY <1>3, <1>6, <2>2, <2>3, <2>4, Ends
<1> QED
  BY <1>2, <1>4, <1>5, <1>6 DEF Reads

LEMMA FrameRead ==
  ASSUME server \in Settings, NEW token \in Tokens, token.kind = "frame",
         NEW tail, NEW x, Reads(token, tail, x)
  PROVE  ReadsOn(token, tail, x)
<1>1. /\ server.protocol = "telnet" /\ server.canWrite \in BOOLEAN
      /\ token.payload \in Seq(Int) /\ token = Frame(token.payload)
  BY SettingIs, TokenKinds
<1>2. PICK p : p = token.payload
  OBVIOUS
<1>3. p \in Seq(Int) /\ FrameTail(p) \in Seq(Int)
  BY <1>1, <1>2, FrameTailTyped
<1>4. \A rest, y : ReadsFrame(p, rest, y) => Reads(token, rest, y)
  BY <1>2 DEF Reads
<1>5. CASE tail = Encode(token) /\ Between(x)
  <2>1. PICK u : u = << 250 >> \o FrameTail(p)
    OBVIOUS
  <2>2. tail = << 255 >> \o u
    BY <1>2, <1>5, <2>1, EncodeIs
  <2>3. u \in Seq(Int) /\ u # <<>>
    <3>1. PICK o : o = << 250 >>
      OBVIOUS
    <3>2. o \in Seq(Int) /\ o # <<>>
      BY <3>1
    <3> QED
      BY <1>3, <2>1, <3>1, <3>2, JoinTyped, Nonempty
  <2>4. Step(x, 255) = Decoder(1, 0, <<>>, 0, x.clean, x.done)
    BY <1>1, <1>5, EscapeBegins DEF Between, Being
  <2>5. PICK y : y = Step(x, 255)
    OBVIOUS
  <2>6. Being(y, 1, 0, <<>>, 0) /\ y.clean = x.clean /\ y.done = x.done
    BY <2>4, <2>5, NowBeing
  <2>10. Reads(token, u, y)
    <3>1. ReadsFrame(p, u, y)
      BY <2>1, <2>6 DEF ReadsFrame
    <3> QED
      BY <1>4, <3>1
  <2> QED
    BY <2>2, <2>3, <2>5, <2>6, <2>10, GoesOnEscaped
<1>6. CASE tail = << 250 >> \o FrameTail(p) /\ Being(x, 1, 0, <<>>, 0)
  <2>1. PICK u : u = FrameTail(p)
    OBVIOUS
  <2>2. u \in Seq(Int) /\ u # <<>>
    BY <1>3, <2>1, FrameTailTyped
  <2>3. Step(x, 250) = Decoder(0, 250, <<>>, 1, x.clean, x.done)
    BY <1>1, <1>6, FrameBegins DEF Being
  <2>4. PICK y : y = Step(x, 250)
    OBVIOUS
  <2>5. p = <<>> \o p /\ <<>> \in Seq(Int)
    BY <1>3, JoinTyped
  <2>6. Being(y, 0, 250, <<>>, 1) /\ y.clean = x.clean /\ y.done = x.done
    BY <2>3, <2>4, NowBeing
  <2>10. Reads(token, u, y)
    <3>1. ReadsFrame(p, u, y)
      BY <1>3, <2>1, <2>5, <2>6 DEF ReadsFrame
    <3> QED
      BY <1>4, <3>1
  <2> QED
    <3>1. PICK b \in Int : b = 250
      OBVIOUS
    <3>2. tail = <<b>> \o u /\ y = Step(x, b)
      BY <1>6, <2>1, <2>4, <3>1
    <3> QED
      BY <2>2, <2>6, <2>10, <3>2, GoesOn
<1>7. ASSUME NEW g \in Seq(Int), NEW h \in Seq(Int), p = g \o h, tail = FrameTail(h),
             Being(x, 0, 250, g, 1)
      PROVE  ReadsOn(token, tail, x)
  <2>1. CASE h = <<>>
    <3>1. tail = <<255, 240>>
      <4>1. PICK e : e = <<255, 240>>
        OBVIOUS
      <4>2. e \in Seq(Int)
        BY <4>1
      <4>3. <<>> \o e = e
        BY <4>2, JoinTyped
      <4> QED
        BY <1>7, <2>1, <4>1, <4>3, DoubledNone DEF FrameTail
    <3>2. tail = << 255 >> \o << 240 >> /\ << 240 >> \in Seq(Int) /\ << 240 >> # <<>>
      BY <3>1, Pair
    <3>3. p = g
      BY <1>7, <2>1, JoinTyped
    <3>4. Step(x, 255) = Decoder(1, 250, g, 1, x.clean, x.done)
      BY <1>1, <1>7, EscapeBegins DEF Being
    <3>5. PICK y : y = Step(x, 255)
      OBVIOUS
    <3>6. Being(y, 1, 250, g, 1) /\ y.clean = x.clean /\ y.done = x.done
      BY <3>4, <3>5, NowBeing
    <3>10. Reads(token, << 240 >>, y)
      <4>1. ReadsFrame(p, << 240 >>, y)
        BY <3>3, <3>6 DEF ReadsFrame
      <4> QED
        BY <1>4, <4>1
    <3> QED
      BY <3>2, <3>5, <3>6, <3>10, GoesOnEscaped, ZenonT(60)
  <2>2. CASE h # <<>>
    <3>1. PICK b \in Int, k \in Seq(Int) : h = <<b>> \o k
      BY <2>2, FirstByte
    <3>2. PICK u : u = FrameTail(k)
      OBVIOUS
    <3>3. u \in Seq(Int) /\ u # <<>>
      BY <3>2, FrameTailTyped
    <3>4. CASE b = 255
      <4>1. PICK o, v : o = << 255 >> /\ v = << 255 >> \o u
        OBVIOUS
      <4>2. tail = << 255 >> \o v
        BY <1>7, <3>1, <3>2, <3>4, <4>1, FrameTailFirst, ZenonT(60)
      <4>3. v \in Seq(Int) /\ v # <<>>
        <5>1. o \in Seq(Int)
          BY <4>1
        <5> QED
          BY <3>3, <4>1, <5>1, JoinTyped, Nonempty
      <4>4. Step(x, 255) = Decoder(1, 250, g, 1, x.clean, x.done)
        BY <1>1, <1>7, EscapeBegins DEF Being
      <4>5. PICK y : y = Step(x, 255)
        OBVIOUS
      <4>6. Being(y, 1, 250, g, 1) /\ y.clean = x.clean /\ y.done = x.done
        BY <4>4, <4>5, NowBeing
      <4>10. Reads(token, v, y)
        <5>1. ReadsFrame(p, v, y)
          BY <1>7, <3>1, <3>2, <3>4, <4>1, <4>6 DEF ReadsFrame
        <5> QED
          BY <1>4, <5>1
      <4> QED
        BY <4>2, <4>3, <4>5, <4>6, <4>10, GoesOnEscaped
    <3>5. CASE b # 255
      <4>1. tail = <<b>> \o u
        BY <1>7, <3>1, <3>2, <3>5, FrameTailFirst
      <4>2. PICK q : q = Append(g, b)
        OBVIOUS
      <4>3. q \in Seq(Int) /\ p = q \o k
        <5>1. PICK o : o = <<b>>
          OBVIOUS
        <5>2. o \in Seq(Int) /\ q = g \o o
          BY <4>2, <5>1, ByteBehind
        <5>3. (g \o o) \o k = g \o (o \o k)
          BY <5>2, JoinBytes, SMTT(40)
        <5>4. q \in Seq(Int)
          BY <4>2, AppendByte
        <5> QED
          BY <1>7, <3>1, <5>1, <5>2, <5>3, <5>4
      <4>4. Step(x, b) = Decoder(0, 250, q, 1, x.clean, x.done)
        BY <1>1, <1>7, <3>5, <4>2, FrameGoesOn DEF Being
      <4>5. PICK y : y = Step(x, b)
        OBVIOUS
      <4>6. Being(y, 0, 250, q, 1) /\ y.clean = x.clean /\ y.done = x.done
        BY <4>4, <4>5, NowBeing
      <4>10. Reads(token, u, y)
        <5>1. ReadsFrame(p, u, y)
          BY <3>2, <4>3, <4>6 DEF ReadsFrame
        <5> QED
          BY <1>4, <5>1
      <4> QED
        BY <3>3, <4>1, <4>5, <4>6, <4>10, GoesOn
    <3> QED
      BY <3>4, <3>5
  <2> QED
    BY <2>1, <2>2
<1>8. ASSUME NEW g \in Seq(Int), NEW h \in Seq(Int), p = g \o (<< 255 >> \o h),
             tail = << 255 >> \o FrameTail(h), Being(x, 1, 250, g, 1)
      PROVE  ReadsOn(token, tail, x)
  <2>1. PICK u : u = FrameTail(h)
    OBVIOUS
  <2>2. u \in Seq(Int) /\ u # <<>>
    BY <2>1, FrameTailTyped
  <2>3. PICK q : q = Append(g, 255)
    OBVIOUS
  <2>4. q \in Seq(Int) /\ p = q \o h
    <3>1. PICK o : o = << 255 >>
      OBVIOUS
    <3>2. o \in Seq(Int) /\ q = g \o o
      BY <2>3, <3>1, ByteBehind
    <3>3. (g \o o) \o h = g \o (o \o h)
      BY <3>2, JoinBytes
    <3>4. q \in Seq(Int)
      BY <2>3, AppendByte
    <3> QED
      BY <1>8, <3>1, <3>2, <3>3, <3>4
  <2>5. Step(x, 255) = Decoder(0, 250, q, 1, x.clean, x.done)
    BY <1>1, <1>8, <2>3, FrameGoesOnEscaped DEF Being
  <2>6. PICK y : y = Step(x, 255)
    OBVIOUS
  <2>7. Being(y, 0, 250, q, 1) /\ y.clean = x.clean /\ y.done = x.done
    BY <2>5, <2>6, NowBeing
  <2>10. Reads(token, u, y)
    <3>1. ReadsFrame(p, u, y)
      BY <2>1, <2>4, <2>7 DEF ReadsFrame
    <3> QED
      BY <1>4, <3>1
  <2> QED
    BY <1>8, <2>1, <2>2, <2>6, <2>7, <2>10, GoesOnEscaped
<1>9. CASE tail = << 240 >> /\ Being(x, 1, 250, p, 1)
  <2>1. PICK e : e = Append(x.done, Frame(p))
    OBVIOUS
  <2>2. Step(x, 240) = Decoder(0, 0, <<>>, 0, x.clean, e)
    BY <1>1, <1>9, <2>1, FrameEnds DEF Being
  <2>3. Meant(token)
    BY DEF Meant
  <2>4. e = Append(x.done, token)
    BY <1>1, <1>2, <2>1
  <2> QED
    <3>1. PICK b \in Int : b = 240
      OBVIOUS
    <3>2. tail = <<b>> /\ Step(x, b) = Decoder(0, 0, <<>>, 0, x.clean, e)
      BY <1>9, <2>2, <3>1
    <3> QED
      BY <2>3, <2>4, <3>2, Ends
<1> QED
  BY <1>2, <1>5, <1>6, <1>7, <1>8, <1>9, ZenonT(60) DEF Reads, ReadsFrame

LEMMA ReadsOneByte ==
  ASSUME server \in Settings, NEW token \in Tokens, NEW tail, NEW x, Reads(token, tail, x)
  PROVE  ReadsOn(token, tail, x)
BY DataRead, CommandRead, OptionRead, FrameRead, TokenKinds

-----------------------------------------------------------------------------
(***************************************************************************)
(* What came of the stream, by kind.                                       *)
(***************************************************************************)
\* What is drawn from nothing but what makes nothing is nothing.
LEMMA DrawnNothing ==
  ASSUME NEW A, NEW S, NEW m, Draws(m, A, S), \A x \in A : m[x] = <<>>, NEW s \in Seq(A)
  PROVE  Drawn(m, s) = <<>>
<1> DEFINE T == {k \in Nat : \A t \in Seq(A) : Len(t) = k => Drawn(m, t) = <<>>}
<1>1. PICK n \in Nat : n = Len(s)
  BY LenProperties
<1>2. 0 \in T
  <2>1. ASSUME NEW t \in Seq(A), Len(t) = 0
        PROVE  Drawn(m, t) = <<>>
    <3>1. t = <<>>
      BY <2>1, EmptySeq
    <3> QED
      BY <3>1, DrawnNone
  <2> QED
    BY <2>1
<1>3. ASSUME NEW k \in 0 .. n - 1, k \in T
      PROVE  k + 1 \in T
  <2>1. ASSUME NEW t \in Seq(A), Len(t) = k + 1
        PROVE  Drawn(m, t) = <<>>
    <3>1. t # <<>>
      BY <2>1
    <3>2. PICK u \in Seq(A), e \in A : t = Append(u, e)
      BY <3>1, SequenceEmptyOrAppend
    <3>3. Len(u) = k
      BY <2>1, <3>2, AppendProperties
    <3>4. Drawn(m, u) = <<>>
      BY <1>3, <3>3
    <3>5. Drawn(m, t) = Drawn(m, u) \o m[e]
      BY <3>2, DrawnAppend
    <3>6. <<>> \o <<>> = <<>>
      OBVIOUS
    <3> QED
      BY <3>4, <3>5, <3>6
  <2> QED
    BY <2>1
<1> HIDE DEF T
<1>4. \A k \in 0 .. n : k \in T
  BY <1>2, <1>3, UpTo
<1> QED
  BY <1>1, <1>4 DEF T

-----------------------------------------------------------------------------
\* The tokens of a kind, those that are meant, and the bytes of some tokens,
\* each drawn from one after the other.
Sorting(kind) == [t \in Tokens |-> IF t.kind = kind THEN <<t>> ELSE <<>>]
Sifting == [t \in Tokens |-> IF Meant(t) THEN <<t>> ELSE <<>>]
Encoding == [t \in Tokens |-> Encode(t)]

LEMMA OfKindIsDrawn ==
  ASSUME NEW kind, NEW s \in Seq(Tokens)
  PROVE  OfKind(s, kind) = Drawn(Sorting(kind), s) /\ Draws(Sorting(kind), Tokens, Tokens)
<1>1. \A i \in 1 .. Len(s) : s[i] \in Tokens
  BY ElementOfSeq
<1>2. [i \in 1 .. Len(s) |-> IF s[i].kind = kind THEN <<s[i]>> ELSE <<>>]
        = [i \in 1 .. Len(s) |-> Sorting(kind)[s[i]]]
  BY <1>1 DEF Sorting
<1>3. OfKind(s, kind) = Drawn(Sorting(kind), s)
  BY <1>2, Zenon DEF OfKind, Drawn
<1>4. Draws(Sorting(kind), Tokens, Tokens)
  BY DEF Draws, Sorting
<1> QED
  BY <1>3, <1>4

LEMMA MeantIsDrawn ==
  ASSUME NEW s \in Seq(Tokens)
  PROVE  MeantOf(s) = Drawn(Sifting, s) /\ Draws(Sifting, Tokens, Tokens)
<1>1. \A i \in 1 .. Len(s) : s[i] \in Tokens
  BY ElementOfSeq
<1>2. [i \in 1 .. Len(s) |-> IF Meant(s[i]) THEN <<s[i]>> ELSE <<>>]
        = [i \in 1 .. Len(s) |-> Sifting[s[i]]]
  BY <1>1 DEF Sifting
<1>3. MeantOf(s) = Drawn(Sifting, s)
  BY <1>2, Zenon DEF MeantOf, Drawn
<1>4. Draws(Sifting, Tokens, Tokens)
  BY DEF Draws, Sifting
<1> QED
  BY <1>3, <1>4

LEMMA EncodeTyped ==
  ASSUME server \in Settings, NEW t \in Tokens
  PROVE  Encode(t) \in Seq(Int) /\ Encode(t) # <<>>
<1>1. CASE t.kind = "data"
  <2>1. t.byte \in Int
    BY <1>1, TokenKinds
  <2>2. /\ <<t.byte>> \in Seq(Int) /\ <<t.byte>> # <<>>
        /\ <<255, 255>> \in Seq(Int) /\ <<255, 255>> # <<>>
    BY <2>1
  <2>3. Encode(t) = IF t.byte = 255 THEN <<255, 255>> ELSE <<t.byte>>
    BY <1>1, EncodeIs
  <2> QED
    BY <2>2, <2>3, Zenon
<1>2. CASE t.kind = "command"
  <2>1. t.byte \in Int
    BY <1>2, TokenKinds
  <2>2. <<255, t.byte>> \in Seq(Int) /\ <<255, t.byte>> # <<>>
    BY <2>1
  <2> QED
    BY <1>2, <2>2, EncodeIs, ZenonT(60)
<1>3. CASE t.kind = "option"
  <2>1. t.verb \in Int /\ t.option \in Int
    BY <1>3, TokenKinds
  <2>2. <<255, t.verb, t.option>> \in Seq(Int) /\ <<255, t.verb, t.option>> # <<>>
    BY <2>1
  <2> QED
    BY <1>3, <2>2, EncodeIs, ZenonT(60)
<1>4. CASE t.kind = "frame"
  <2>1. t.payload \in Seq(Int)
    BY <1>4, TokenKinds
  <2>2. PICK u, v : u = FrameTail(t.payload) /\ v = << 250 >> \o u
    OBVIOUS
  <2>3. u \in Seq(Int) /\ u # <<>>
    BY <2>1, <2>2, FrameTailTyped
  <2>4. << 250 >> \in Seq(Int) /\ << 255 >> \in Seq(Int) /\ << 255 >> # <<>>
    OBVIOUS
  <2>5. v \in Seq(Int)
    BY <2>2, <2>3, <2>4, JoinTyped
  <2>6. << 255 >> \o v \in Seq(Int) /\ << 255 >> \o v # <<>>
    BY <2>4, <2>5, JoinTyped, Nonempty
  <2>7. Encode(t) = << 255 >> \o v
    <3>1. Encode(t) = << 255 >> \o (<< 250 >> \o FrameTail(t.payload))
      BY <1>4, EncodeIs
    <3> QED
      BY <2>2, <3>1, Zenon
  <2> QED
    BY <2>6, <2>7, Zenon
<1> QED
  BY <1>1, <1>2, <1>3, <1>4, TokenKinds

LEMMA EncodeIsDrawn ==
  ASSUME server \in Settings, NEW s \in Seq(Tokens)
  PROVE  EncodeAll(s) = Drawn(Encoding, s) /\ Draws(Encoding, Tokens, Int)
<1>1. \A i \in 1 .. Len(s) : s[i] \in Tokens
  BY ElementOfSeq
<1>2. [i \in 1 .. Len(s) |-> Encode(s[i])] = [i \in 1 .. Len(s) |-> Encoding[s[i]]]
  BY <1>1 DEF Encoding
<1>3. Draws(Encoding, Tokens, Int)
  BY EncodeTyped DEF Draws, Encoding
<1> QED
  BY <1>2, <1>3 DEF EncodeAll, Drawn

\* So all of them are typed, and distribute.
LEMMA OfKindJoins ==
  ASSUME NEW kind, NEW s \in Seq(Tokens), NEW t \in Seq(Tokens)
  PROVE  /\ OfKind(s, kind) \in Seq(Tokens)
         /\ OfKind(s \o t, kind) = OfKind(s, kind) \o OfKind(t, kind)
         /\ OfKind(<<>>, kind) = <<>>
<1>1. PICK m : m = Sorting(kind)
  OBVIOUS
<1>2. \A x \in Seq(Tokens) : OfKind(x, kind) = Drawn(m, x)
  BY <1>1, OfKindIsDrawn
<1>3. Draws(m, Tokens, Tokens)
  BY <1>1, OfKindIsDrawn
<1>4. s \o t \in Seq(Tokens) /\ <<>> \in Seq(Tokens)
  BY JoinTyped
<1>5. Drawn(m, s) \in Seq(Tokens)
  BY <1>3, DrawnTyped
<1>7. Drawn(m, s \o t) = Drawn(m, s) \o Drawn(m, t)
  BY <1>3, DrawnJoin
<1>6. Drawn(m, <<>>) = <<>>
  BY DrawnNone
<1> QED
  BY <1>2, <1>4, <1>5, <1>6, <1>7

LEMMA OfKindOne ==
  ASSUME NEW kind, NEW s \in Seq(Tokens), NEW token \in Tokens
  PROVE  OfKind(Append(s, token), kind)
           = OfKind(s, kind) \o (IF token.kind = kind THEN <<token>> ELSE <<>>)
<1>1. PICK m : m = Sorting(kind)
  OBVIOUS
<1>2. \A x \in Seq(Tokens) : OfKind(x, kind) = Drawn(m, x)
  BY <1>1, OfKindIsDrawn
<1>3. Draws(m, Tokens, Tokens)
  BY <1>1, OfKindIsDrawn
<1>4. Append(s, token) \in Seq(Tokens)
  BY AppendProperties
<1>5. Drawn(m, Append(s, token)) = Drawn(m, s) \o m[token]
  BY <1>3, DrawnAppend
<1>6. m[token] = IF token.kind = kind THEN <<token>> ELSE <<>>
  BY <1>1 DEF Sorting
<1> QED
  BY <1>2, <1>4, <1>5, <1>6

LEMMA MeantOne ==
  ASSUME NEW s \in Seq(Tokens), NEW token \in Tokens
  PROVE  /\ MeantOf(s) \in Seq(Tokens) /\ MeantOf(<<>>) = <<>>
         /\ MeantOf(Append(s, token)) = MeantOf(s) \o (IF Meant(token) THEN <<token>> ELSE <<>>)
<1>1. PICK m : m = Sifting
  OBVIOUS
<1>2. \A x \in Seq(Tokens) : MeantOf(x) = Drawn(m, x)
  BY <1>1, MeantIsDrawn
<1>3. Draws(m, Tokens, Tokens)
  BY <1>1, MeantIsDrawn
<1>4. Append(s, token) \in Seq(Tokens) /\ <<>> \in Seq(Tokens)
  BY AppendProperties
<1>5. /\ Drawn(m, s) \in Seq(Tokens) /\ Drawn(m, <<>>) = <<>>
      /\ Drawn(m, Append(s, token)) = Drawn(m, s) \o m[token]
  BY <1>3, DrawnAppend, DrawnTyped, DrawnNone
<1>6. m[token] = IF Meant(token) THEN <<token>> ELSE <<>>
  BY <1>1 DEF Sifting
<1> QED
  BY <1>2, <1>4, <1>5, <1>6

LEMMA EncodeJoins ==
  ASSUME server \in Settings, NEW s \in Seq(Tokens), NEW t \in Seq(Tokens)
  PROVE  /\ EncodeAll(s) \in Seq(Int) /\ EncodeAll(s \o t) = EncodeAll(s) \o EncodeAll(t)
         /\ EncodeAll(<<>>) = <<>>
<1>1. PICK m : m = Encoding
  OBVIOUS
<1>2. \A x \in Seq(Tokens) : EncodeAll(x) = Drawn(m, x)
  BY <1>1, EncodeIsDrawn
<1>3. Draws(m, Tokens, Int)
  BY <1>1, EncodeIsDrawn
<1>4. s \o t \in Seq(Tokens) /\ <<>> \in Seq(Tokens)
  BY JoinTyped
<1>5. Drawn(m, s) \in Seq(Int) /\ Drawn(m, s \o t) = Drawn(m, s) \o Drawn(m, t)
  BY <1>3, DrawnTyped, DrawnJoin
<1>6. Drawn(m, <<>>) = <<>>
  BY DrawnNone
<1> QED
  BY <1>2, <1>4, <1>5, <1>6

LEMMA EncodeOne ==
  ASSUME server \in Settings, NEW token \in Tokens
  PROVE  EncodeAll(<<token>>) = Encode(token)
<1>1. PICK m : m = Encoding
  OBVIOUS
<1>2. \A x \in Seq(Tokens) : EncodeAll(x) = Drawn(m, x)
  BY <1>1, EncodeIsDrawn
<1>3. Draws(m, Tokens, Int)
  <2>1. <<token>> \in Seq(Tokens)
    OBVIOUS
  <2> QED
    BY <1>1, <2>1, EncodeIsDrawn
<1>4. Drawn(m, <<token>>) = m[token]
  BY <1>3, DrawnOne
<1>5. <<token>> \in Seq(Tokens) /\ m[token] = Encode(token)
  BY <1>1 DEF Encoding
<1> QED
  BY <1>2, <1>4, <1>5

\* What is put aside for the device, by kind.
Serial(kind) == [b \in Data |-> IF "data" = kind THEN <<Byte("data", b)>> ELSE <<>>]

LEMMA DataAreTokens ==
  ASSUME NEW b \in Data
  PROVE  Byte("data", b) \in Tokens /\ Byte("data", b).kind = "data"
<1>1. Byte("data", b) \in {Byte("data", a) : a \in Data}
  OBVIOUS
<1>2. Byte("data", b) \in Tokens
  BY <1>1 DEF Tokens, TokensOf
<1>3. Byte("data", b).kind = "data"
  BY DEF Byte
<1> QED
  BY <1>2, <1>3

LEMMA SerialDraws ==
  ASSUME NEW kind
  PROVE  /\ Draws(Serial(kind), Data, Tokens)
         /\ kind # "data" => \A b \in Data : Serial(kind)[b] = <<>>
<1>1. \A b \in Data : (IF "data" = kind THEN <<Byte("data", b)>> ELSE <<>>) \in Seq(Tokens)
  BY DataAreTokens
<1>2. Draws(Serial(kind), Data, Tokens)
  BY <1>1 DEF Draws, Serial
<1>3. kind # "data" => \A b \in Data : Serial(kind)[b] = <<>>
  BY DEF Serial
<1> QED
  BY <1>2, <1>3

LEMMA ToSerialIs ==
  ASSUME server.canWrite \in BOOLEAN, NEW c \in Seq(Data), NEW kind
  PROVE  /\ ToSerial(c) \in Seq(Tokens)
         /\ OfKind(ToSerial(c), kind) = IF server.canWrite THEN Drawn(Serial(kind), c) ELSE <<>>
<1>1. CASE ~server.canWrite
  <2>1. ToSerial(c) = <<>>
    BY <1>1 DEF ToSerial
  <2>2. <<>> \in Seq(Tokens)
    OBVIOUS
  <2>3. OfKind(<<>>, kind) = <<>>
    BY <2>2, OfKindJoins
  <2> QED
    BY <1>1, <2>1, <2>2, <2>3
<1>2. CASE server.canWrite
  <2>1. PICK n \in Nat : n = Len(c)
    BY LenProperties
  <2>2. PICK z : z = [i \in 1 .. n |-> Byte("data", c[i])]
    OBVIOUS
  <2>3. ToSerial(c) = z
    BY <1>2, <2>1, <2>2 DEF ToSerial
  <2>4. \A i \in 1 .. n : c[i] \in Data
    BY <2>1, ElementOfSeq
  <2>5. \A i \in 1 .. n : z[i] \in Tokens /\ z[i].kind = "data" /\ z[i] = Byte("data", c[i])
    BY <2>2, <2>4, DataAreTokens
  <2>6. z = [i \in 1 .. n |-> z[i]]
    BY <2>2
  <2>7. z \in Seq(Tokens) /\ Len(z) = n
    BY <2>1, <2>5, <2>6
  <2>8. \A i \in 1 .. n : (IF z[i].kind = kind THEN <<z[i]>> ELSE <<>>) = Serial(kind)[c[i]]
    BY <2>4, <2>5 DEF Serial
  <2>9. [i \in 1 .. Len(z) |-> IF z[i].kind = kind THEN <<z[i]>> ELSE <<>>]
          = [i \in 1 .. Len(c) |-> Serial(kind)[c[i]]]
    BY <2>1, <2>7, <2>8
  <2>10. OfKind(z, kind) = Drawn(Serial(kind), c)
    BY <2>9, Zenon DEF OfKind, Drawn
  <2> QED
    BY <1>2, <2>3, <2>7, <2>10
<1> QED
  BY <1>1, <1>2

LEMMA ToSerialOther ==
  ASSUME server.canWrite \in BOOLEAN, NEW c \in Seq(Data), NEW kind, kind # "data"
  PROVE  OfKind(ToSerial(c), kind) = <<>>
<1>1. PICK m : m = Serial(kind)
  OBVIOUS
<1>2. Draws(m, Data, Tokens) /\ \A b \in Data : m[b] = <<>>
  BY <1>1, SerialDraws
<1>3. Drawn(m, c) = <<>>
  BY <1>2, DrawnNothing
<1> QED
  BY <1>1, <1>3, ToSerialIs

LEMMA ToSerialOne ==
  ASSUME server.canWrite \in BOOLEAN, NEW c \in Seq(Data), NEW b \in Data
  PROVE  OfKind(ToSerial(Append(c, b)), "data")
           = OfKind(ToSerial(c), "data")
               \o (IF server.canWrite THEN <<Byte("data", b)>> ELSE <<>>)
<1>1. PICK kind : kind = "data"
  OBVIOUS
<1>2. PICK m : m = Serial(kind)
  OBVIOUS
<1>3. Draws(m, Data, Tokens)
  BY <1>2, SerialDraws
<1>4. Append(c, b) \in Seq(Data)
  BY AppendProperties
<1>5. Drawn(m, Append(c, b)) = Drawn(m, c) \o m[b]
  BY <1>3, DrawnAppend
<1>6. m[b] = <<Byte("data", b)>>
  BY <1>1, <1>2 DEF Serial
<1>7. OfKind(ToSerial(Append(c, b)), kind) = IF server.canWrite THEN Drawn(m, Append(c, b)) ELSE <<>>
  BY <1>2, <1>4, ToSerialIs
<1>8. OfKind(ToSerial(c), kind) = IF server.canWrite THEN Drawn(m, c) ELSE <<>>
  BY <1>2, ToSerialIs
<1>9. <<>> \o <<>> = <<>>
  OBVIOUS
<1> QED
  BY <1>1, <1>5, <1>6, <1>7, <1>8, <1>9

-----------------------------------------------------------------------------
\* What a token adds to what came of those before it, by kind.
Adds(token, kind) == IF Meant(token) /\ token.kind = kind THEN <<token>> ELSE <<>>

Kept(d) == d.clean \in Seq(Data) /\ d.done \in Seq(Tokens)

\* What came of the stream by kind: what was carried out before this piece, what
\* has been in it, and the data of it, which follow.
LEMMA OutcomeIs ==
  ASSUME server.canWrite \in BOOLEAN, NEW past \in Seq(Tokens), NEW d, Kept(d), NEW kind
  PROVE  /\ past \o Outcome(d) \in Seq(Tokens)
         /\ OfKind(past \o Outcome(d), kind)
              = (OfKind(past, kind) \o OfKind(d.done, kind)) \o OfKind(ToSerial(d.clean), kind)
<1>1. PICK u, v, w : u = d.done /\ v = ToSerial(d.clean) /\ w = Outcome(d)
  OBVIOUS
<1>2. u \in Seq(Tokens) /\ v \in Seq(Tokens) /\ w = u \o v
  BY <1>1, ToSerialIs DEF Kept, Outcome
<1>3. w \in Seq(Tokens) /\ past \o w \in Seq(Tokens)
  BY <1>2, JoinTyped
<1>4. OfKind(past \o w, kind) = OfKind(past, kind) \o OfKind(w, kind)
  BY <1>3, OfKindJoins
<1>5. OfKind(w, kind) = OfKind(u, kind) \o OfKind(v, kind)
  BY <1>2, OfKindJoins
<1>6. PICK p, q, r : p = OfKind(past, kind) /\ q = OfKind(u, kind) /\ r = OfKind(v, kind)
  OBVIOUS
<1>7. p \in Seq(Tokens) /\ q \in Seq(Tokens) /\ r \in Seq(Tokens)
  BY <1>2, <1>6, OfKindJoins
<1>8. (p \o q) \o r = p \o (q \o r)
  BY <1>7, JoinJoin
<1> QED
  BY <1>1, <1>3, <1>4, <1>5, <1>6, <1>8

LEMMA BringsAdds ==
  ASSUME server \in Settings, NEW token \in Tokens, NEW past \in Seq(Tokens),
         NEW x, Kept(x), NEW y, Brings(token, x, y), NEW kind
  PROVE  /\ Kept(y)
         /\ OfKind(past \o Outcome(y), kind) = OfKind(past \o Outcome(x), kind) \o Adds(token, kind)
<1>0. server.canWrite \in BOOLEAN
  BY SettingIs
<1>1. x.clean \in Seq(Data) /\ x.done \in Seq(Tokens)
  BY DEF Kept
<1>2. PICK p, q, r : /\ p = OfKind(past, kind) /\ q = OfKind(x.done, kind)
                     /\ r = OfKind(ToSerial(x.clean), kind)
  OBVIOUS
<1>3. p \in Seq(Tokens) /\ q \in Seq(Tokens) /\ r \in Seq(Tokens)
  BY <1>0, <1>1, <1>2, OfKindJoins, ToSerialIs
<1>4. PICK a : a = Adds(token, kind)
  OBVIOUS
<1>5. a \in Seq(Tokens)
  BY <1>4 DEF Adds
<1>6. OfKind(past \o Outcome(x), kind) = (p \o q) \o r
  BY <1>0, <1>2, OutcomeIs
<1>7. p \o q \in Seq(Tokens) /\ ((p \o q) \o r) \o a = (p \o q) \o (r \o a)
  <2>1. PICK z : z = p \o q
    OBVIOUS
  <2>2. z \in Seq(Tokens)
    BY <1>3, <2>1, JoinTyped
  <2>3. (z \o r) \o a = z \o (r \o a)
    BY <1>3, <1>5, <2>2, JoinJoin, SMTT(40)
  <2> QED
    BY <2>1, <2>2, <2>3
<1>8. CASE token.kind = "data"
  <2>1. token.byte \in Data /\ token = Byte("data", token.byte) /\ (Meant(token) <=> server.canWrite)
    BY <1>8, TokenKinds DEF Meant
  <2>2. /\ y.done = x.done
        /\ y.clean = Append(x.clean, token.byte) \/ (~server.canWrite /\ y.clean = x.clean)
    BY <1>8 DEF Brings
  <2>3. Append(x.clean, token.byte) \in Seq(Data)
    BY <1>1, <2>1, AppendProperties
  <2>4. Kept(y)
    BY <1>1, <2>2, <2>3 DEF Kept
  <2>5. OfKind(past \o Outcome(y), kind) = (p \o q) \o OfKind(ToSerial(y.clean), kind)
    BY <1>0, <1>2, <2>2, <2>4, OutcomeIs, ZenonT(60)
  <2>6. OfKind(ToSerial(y.clean), kind) = r \o a
    <3>1. CASE kind # "data"
      <4>1. a = <<>>
        BY <1>4, <1>8, <3>1 DEF Adds
      <4>2. r = <<>> /\ OfKind(ToSerial(y.clean), kind) = <<>>
        BY <1>0, <1>1, <1>2, <2>4, <3>1, ToSerialOther DEF Kept
      <4>3. <<>> \o <<>> = <<>>
        OBVIOUS
      <4> QED
        BY <4>1, <4>2, <4>3
    <3>2. CASE kind = "data"
      <4>1. a = IF server.canWrite THEN <<Byte("data", token.byte)>> ELSE <<>>
        BY <1>4, <1>8, <2>1, <3>2 DEF Adds
      <4>2. CASE y.clean = Append(x.clean, token.byte)
        BY <1>0, <1>1, <1>2, <2>1, <3>2, <4>1, <4>2, ToSerialOne
      <4>3. CASE ~server.canWrite /\ y.clean = x.clean
        BY <1>2, <1>3, <4>1, <4>3, JoinTyped
      <4> QED
        BY <2>2, <4>2, <4>3
    <3> QED
      BY <3>1, <3>2
  <2> QED
    BY <1>4, <1>6, <1>7, <2>4, <2>5, <2>6
<1>9. CASE token.kind # "data"
  <2>1. /\ y.clean = x.clean
        /\ y.done = IF Meant(token) THEN Append(x.done, token) ELSE x.done
    BY <1>9 DEF Brings
  <2>2. Append(x.done, token) \in Seq(Tokens)
    BY <1>1, AppendProperties
  <2>3. Kept(y)
    BY <1>1, <2>1, <2>2 DEF Kept
  <2>4. OfKind(past \o Outcome(y), kind) = (p \o OfKind(y.done, kind)) \o r
    <3>1. OfKind(past \o Outcome(y), kind)
            = (OfKind(past, kind) \o OfKind(y.done, kind)) \o OfKind(ToSerial(y.clean), kind)
      BY <1>0, <2>3, OutcomeIs
    <3>2. OfKind(ToSerial(y.clean), kind) = r
      BY <1>2, <2>1
    <3> QED
      BY <1>2, <3>1, <3>2
  <2>5. OfKind(y.done, kind) = q \o a
    <3>1. CASE Meant(token)
      <4>1. OfKind(Append(x.done, token), kind)
              = q \o (IF token.kind = kind THEN <<token>> ELSE <<>>)
        BY <1>1, <1>2, OfKindOne
      <4> QED
        BY <1>4, <2>1, <3>1, <4>1 DEF Adds
    <3>2. CASE ~Meant(token)
      <4>1. a = <<>>
        BY <1>4, <3>2 DEF Adds
      <4> QED
        BY <1>2, <1>3, <2>1, <3>2, <4>1, JoinTyped
    <3> QED
      BY <3>1, <3>2
  <2>6. (p \o (q \o a)) \o r = (p \o q) \o (r \o a)
    <3>1. CASE kind = "data"
      <4>1. a = <<>>
        BY <1>4, <1>9, <3>1 DEF Adds
      <4>2. q \o a = q /\ r \o a = r
        BY <1>3, <4>1, JoinTyped
      <4> QED
        BY <4>2
    <3>2. CASE kind # "data"
      <4>1. r = <<>>
        BY <1>0, <1>1, <1>2, <3>2, ToSerialOther
      <4>2. r \o a = a
        BY <1>5, <4>1, JoinTyped
      <4>3. (p \o q) \o a = p \o (q \o a)
        BY <1>3, <1>5, JoinJoin, SMTT(40)
      <4>4. p \o (q \o a) \in Seq(Tokens)
        <5>1. q \o a \in Seq(Tokens)
          BY <1>3, <1>5, JoinTyped
        <5> QED
          BY <1>3, <5>1, JoinTyped
      <4>5. (p \o (q \o a)) \o <<>> = p \o (q \o a)
        BY <4>4, JoinTyped
      <4> QED
        BY <4>1, <4>2, <4>3, <4>5
    <3> QED
      BY <3>1, <3>2
  <2> QED
    BY <1>4, <1>6, <1>7, <2>3, <2>4, <2>5, <2>6
<1> QED
  BY <1>8, <1>9

LEMMA MeantAdds ==
  ASSUME NEW s \in Seq(Tokens), NEW token \in Tokens, NEW kind
  PROVE  OfKind(MeantOf(Append(s, token)), kind) = OfKind(MeantOf(s), kind) \o Adds(token, kind)
<1>1. PICK u : u = MeantOf(s)
  OBVIOUS
<1>2. /\ u \in Seq(Tokens)
      /\ MeantOf(Append(s, token)) = u \o (IF Meant(token) THEN <<token>> ELSE <<>>)
  BY <1>1, MeantOne
<1>3. CASE Meant(token)
  <2>1. MeantOf(Append(s, token)) = Append(u, token)
    BY <1>2, <1>3, JoinOne
  <2>2. OfKind(Append(u, token), kind)
          = OfKind(u, kind) \o (IF token.kind = kind THEN <<token>> ELSE <<>>)
    BY <1>2, OfKindOne
  <2> QED
    BY <1>1, <1>3, <2>1, <2>2 DEF Adds
<1>4. CASE ~Meant(token)
  <2>1. MeantOf(Append(s, token)) = u
    BY <1>2, <1>4, JoinTyped
  <2>2. OfKind(u, kind) \in Seq(Tokens)
    BY <1>2, OfKindJoins
  <2>3. OfKind(u, kind) \o <<>> = OfKind(u, kind)
    BY <2>2, JoinTyped
  <2> QED
    BY <1>1, <1>4, <2>1, <2>3 DEF Adds
<1> QED
  BY <1>3, <1>4

-----------------------------------------------------------------------------
(***************************************************************************)
(* Where a decoder is in the stream: behind some tokens, all of which have *)
(* brought about what they mean, and within the next.                      *)
(***************************************************************************)
\* What is said behind the first k tokens.
Behindhand(k) == EncodeAll(SubSeq(script, k + 1, Len(script)))

\* The decoder is between the first k tokens and the others, or within the next.
Within(d, rest, k) ==
    \/ k = Len(script) /\ rest = <<>> /\ Between(d)
    \/ /\ k < Len(script)
       /\ \E tail \in Seq(Int) :
             /\ tail # <<>> /\ Len(tail) <= Len(Encode(script[k + 1]))
             /\ rest = tail \o Behindhand(k + 1)
             /\ Reads(script[k + 1], tail, d)

\* What came of the stream is what its first k tokens mean.
Done(d, past, k) ==
    \A kind \in {"data", "command", "option", "frame"} :
       OfKind(past \o Outcome(d), kind) = OfKind(MeantOf(SubSeq(script, 1, k)), kind)

At(d, past, rest) ==
    Kept(d) /\ \E k \in 0 .. Len(script) : Done(d, past, k) /\ Within(d, rest, k)

\* The next of the tokens.
LEMMA NextToken ==
  ASSUME server \in Settings, script \in Seq(Tokens), NEW k \in 0 .. Len(script) - 1
  PROVE  /\ k + 1 \in 1 .. Len(script) /\ script[k + 1] \in Tokens
         /\ SubSeq(script, 1, k) \in Seq(Tokens)
         /\ SubSeq(script, 1, k + 1) = Append(SubSeq(script, 1, k), script[k + 1])
         /\ Behindhand(k) = Encode(script[k + 1]) \o Behindhand(k + 1)
         /\ Behindhand(k) \in Seq(Int) /\ Behindhand(k + 1) \in Seq(Int)
<1>1. k + 1 \in 1 .. Len(script) /\ k \in Nat /\ k + 1 <= Len(script)
  BY LenProperties
<1>2. script[k + 1] \in Tokens
  BY <1>1, ElementOfSeq
<1>3. /\ SubSeq(script, 1, k) \in Seq(Tokens)
      /\ SubSeq(script, 1, k + 1) = Append(SubSeq(script, 1, k), script[k + 1])
  <2>1. \A i \in 1 .. k + 1 : script[i] \in Tokens
    BY <1>1, ElementOfSeq
  <2>2. PICK x : x = SubSeq(script, 1, k)
    OBVIOUS
  <2>3. PICK y : y = SubSeq(script, 1, k + 1)
    OBVIOUS
  <2>4. x \in Seq(Tokens) /\ Len(x) = k /\ \A i \in 1 .. k : x[i] = script[i]
    BY <1>1, <2>1, <2>2
  <2>5. y \in Seq(Tokens) /\ Len(y) = k + 1 /\ \A i \in 1 .. k + 1 : y[i] = script[i]
    BY <1>1, <2>1, <2>3
  <2>6. PICK z : z = Append(x, script[k + 1])
    OBVIOUS
  <2>7. /\ z \in Seq(Tokens) /\ Len(z) = k + 1 /\ z[k + 1] = script[k + 1]
        /\ \A i \in 1 .. k : z[i] = x[i]
    BY <1>2, <2>4, <2>6, AppendProperties
  <2>8. \A i \in 1 .. k + 1 : y[i] = z[i]
    BY <1>1, <2>4, <2>5, <2>7
  <2>9. y = z
    BY <2>5, <2>7, <2>8, SeqEqual
  <2> QED
    BY <2>2, <2>3, <2>4, <2>6, <2>9
<1>4. PICK t, o, r : /\ t = script[k + 1] /\ o = <<script[k + 1]>>
                     /\ r = SubSeq(script, (k + 1) + 1, Len(script))
  OBVIOUS
<1>5. /\ r \in Seq(Tokens) /\ SubSeq(script, k + 1, Len(script)) = o \o r
  BY <1>1, <1>4, FromHere
<1>6. o \in Seq(Tokens) /\ EncodeAll(o) = Encode(t)
  BY <1>2, <1>4, EncodeOne
<1>7. EncodeAll(o \o r) = EncodeAll(o) \o EncodeAll(r) /\ EncodeAll(r) \in Seq(Int)
  BY <1>5, <1>6, EncodeJoins
<1>8. EncodeAll(o) \in Seq(Int)
  BY <1>6, EncodeJoins
<1>9. EncodeAll(o \o r) \in Seq(Int)
  BY <1>7, <1>8, JoinTyped
<1>10. Behindhand(k) = EncodeAll(o \o r) /\ Behindhand(k + 1) = EncodeAll(r)
  BY <1>4, <1>5 DEF Behindhand
<1> QED
  BY <1>1, <1>2, <1>3, <1>4, <1>6, <1>7, <1>9, <1>10

\* Behind the last byte of a token the next begins.
LEMMA TokenBegins ==
  ASSUME server \in Settings, script \in Seq(Tokens), NEW k \in 0 .. Len(script),
         NEW d, Between(d)
  PROVE  Within(d, Behindhand(k), k)
<1>1. CASE k = Len(script)
  <2>1. SubSeq(script, k + 1, Len(script)) = <<>>
    BY <1>1, LenProperties
  <2>2. EncodeAll(<<>>) = <<>>
    <3>1. <<>> \in Seq(Tokens)
      OBVIOUS
    <3> QED
      BY <3>1, EncodeJoins
  <2>3. Behindhand(k) = <<>>
    BY <2>1, <2>2 DEF Behindhand
  <2> QED
    BY <1>1, <2>3 DEF Within
<1>2. CASE k # Len(script)
  <2>1. k \in 0 .. Len(script) - 1 /\ k < Len(script)
    BY <1>2, LenProperties
  <2>2. PICK t : t = script[k + 1]
    OBVIOUS
  <2>3. t \in Tokens /\ Behindhand(k) = Encode(t) \o Behindhand(k + 1)
    BY <2>1, <2>2, NextToken
  <2>4. PICK tail : tail = Encode(t)
    OBVIOUS
  <2>5. tail \in Seq(Int) /\ tail # <<>> /\ Len(tail) <= Len(Encode(t))
    <3>1. tail \in Seq(Int) /\ tail # <<>>
      BY <2>3, <2>4, EncodeTyped
    <3>2. Len(tail) \in Nat
      BY <3>1, LenProperties
    <3> QED
      BY <2>4, <3>1, <3>2
  <2>6. Reads(t, tail, d)
    BY <2>4 DEF Reads
  <2> QED
    BY <2>1, <2>2, <2>3, <2>4, <2>5, <2>6 DEF Within
<1> QED
  BY <1>1, <1>2

\* A byte brings the decoder on by one.
LEMMA AtByte ==
  ASSUME server \in Settings, script \in Seq(Tokens), NEW past \in Seq(Tokens),
         NEW b \in Int, NEW rest \in Seq(Int), NEW d, At(d, past, <<b>> \o rest)
  PROVE  At(Step(d, b), past, rest)
<1>1. PICK k \in 0 .. Len(script) : Done(d, past, k) /\ Within(d, <<b>> \o rest, k)
  BY DEF At
<1>2. Kept(d)
  BY DEF At
<1>3. /\ (<<b>> \o rest)[1] = b /\ SubSeq(<<b>> \o rest, 2, Len(<<b>> \o rest)) = rest
      /\ Len(<<b>> \o rest) = Len(rest) + 1
  BY Behind
<1>4. PICK all : all = <<b>> \o rest
  OBVIOUS
<1>5. all # <<>>
  <2>1. Len(all) = Len(rest) + 1 /\ Len(rest) \in Nat
    BY <1>3, <1>4, LenProperties
  <2> QED
    BY <2>1
<1>6. k < Len(script) /\ k \in 0 .. Len(script) - 1
  <2>1. k < Len(script)
    BY <1>1, <1>4, <1>5 DEF Within
  <2> QED
    BY <2>1, LenProperties
<1>7. PICK t : t = script[k + 1]
  OBVIOUS
<1>8. PICK more : more = Behindhand(k + 1)
  OBVIOUS
<1>9. PICK tail \in Seq(Int) :
         /\ tail # <<>> /\ Len(tail) <= Len(Encode(t))
         /\ all = tail \o more /\ Reads(t, tail, d)
  <2>1. ~(k = Len(script))
    BY <1>6
  <2> QED
    BY <1>1, <1>4, <1>7, <1>8, <2>1 DEF Within
<1>10. t \in Tokens /\ more \in Seq(Int) /\ Encode(t) \in Seq(Int)
  <2>1. t \in Tokens /\ more \in Seq(Int)
    BY <1>6, <1>7, <1>8, NextToken
  <2> QED
    BY <2>1, EncodeTyped
<1>11. ReadsOn(t, tail, d)
  BY <1>9, <1>10, ReadsOneByte
<1>12. PICK a \in Int, left \in Seq(Int) :
          /\ tail = <<a>> \o left
          /\ \/ /\ left # <<>> /\ Reads(t, left, Step(d, a))
                /\ Step(d, a).clean = d.clean /\ Step(d, a).done = d.done
             \/ left = <<>> /\ Brings(t, d, Step(d, a))
  BY <1>11 DEF ReadsOn
<1>13. a = b /\ rest = left \o more
  <2>1. PICK u, o : u = left \o more /\ o = <<a>>
    OBVIOUS
  <2>2. o \in Seq(Int)
    BY <2>1
  <2>3. (o \o left) \o more = o \o u /\ u \in Seq(Int)
    BY <1>10, <2>1, <2>2, JoinBytes, ZenonT(60)
  <2>4. all = <<a>> \o u
    BY <1>9, <1>12, <2>1, <2>3
  <2>5. (<<a>> \o u)[1] = a /\ SubSeq(<<a>> \o u, 2, Len(<<a>> \o u)) = u
    BY <2>3, Behind
  <2>6. all[1] = a /\ SubSeq(all, 2, Len(all)) = u
    BY <2>4, <2>5
  <2>7. all[1] = b /\ SubSeq(all, 2, Len(all)) = rest
    BY <1>3, <1>4
  <2> QED
    BY <2>1, <2>6, <2>7
<1>14. PICK y : y = Step(d, b)
  OBVIOUS
<1>15. CASE left # <<>>
  <2>1. Reads(t, left, y) /\ y.clean = d.clean /\ y.done = d.done
    BY <1>12, <1>13, <1>14, <1>15
  <2>2. Kept(y) /\ Outcome(y) = Outcome(d)
    BY <1>2, <2>1 DEF Kept, Outcome
  <2>3. Done(y, past, k)
    BY <1>1, <2>2 DEF Done
  <2>4. Len(left) <= Len(Encode(t))
    <3>1. Len(<<a>> \o left) = Len(left) + 1
      BY Behind
    <3>2. Len(left) \in Nat /\ Len(tail) \in Nat /\ Len(Encode(t)) \in Nat
      BY <1>10, LenProperties
    <3>3. Len(tail) = Len(left) + 1
      BY <1>12, <3>1
    <3> QED
      BY <1>9, <3>2, <3>3
  <2>5. Within(y, rest, k)
    BY <1>6, <1>7, <1>8, <1>13, <1>15, <2>1, <2>4 DEF Within
  <2>6. At(y, past, rest)
    BY <2>2, <2>3, <2>5 DEF At
  <2> QED
    BY <1>14, <2>6
<1>16. CASE left = <<>>
  <2>1. Brings(t, d, y)
    BY <1>12, <1>13, <1>14, <1>16
  <2>2. rest = more
    BY <1>10, <1>13, <1>16, JoinTyped
  <2>3. Between(y)
    BY <2>1 DEF Brings
  <2>4. Kept(y) /\ \A kind : OfKind(past \o Outcome(y), kind)
                                = OfKind(past \o Outcome(d), kind) \o Adds(t, kind)
    BY <1>2, <1>10, <2>1, BringsAdds
  <2>5. PICK head : head = SubSeq(script, 1, k)
    OBVIOUS
  <2>6. head \in Seq(Tokens) /\ SubSeq(script, 1, k + 1) = Append(head, t)
    BY <1>6, <1>7, <2>5, NextToken
  <2>7. \A kind : OfKind(MeantOf(Append(head, t)), kind)
                    = OfKind(MeantOf(head), kind) \o Adds(t, kind)
    BY <1>10, <2>6, MeantAdds
  <2>8. Done(y, past, k + 1)
    BY <1>1, <2>4, <2>5, <2>6, <2>7 DEF Done
  <2>9. k + 1 \in 0 .. Len(script)
    BY <1>6, LenProperties
  <2>10. Within(y, Behindhand(k + 1), k + 1)
    BY <2>3, <2>9, TokenBegins
  <2>11. At(y, past, rest)
    BY <1>8, <2>2, <2>4, <2>8, <2>9, <2>10 DEF At
  <2> QED
    BY <1>14, <2>11
<1> QED
  BY <1>15, <1>16

\* A run, byte by byte.
Running(s, piece, n, f) ==
    f = [k \in 0 .. n |-> IF k = 0 THEN s ELSE Step(f[k - 1], piece[k])]

LEMMA OneMoreByte ==
  ASSUME NEW s, NEW piece, NEW n \in Nat, NEW f, Running(s, piece, n, f)
  PROVE  \E g : Running(s, piece, n + 1, g)
<1> DEFINE g == [k \in 0 .. n + 1 |-> IF k <= n THEN f[k] ELSE Step(f[n], piece[k])]
<1>1. ASSUME NEW k \in 0 .. n + 1
      PROVE  g[k] = IF k = 0 THEN s ELSE Step(g[k - 1], piece[k])
  <2>1. CASE k = n + 1
    <3>1. k # 0 /\ k - 1 = n /\ n \in 0 .. n + 1 /\ ~(k <= n)
      BY <2>1
    <3>2. g[n] = f[n] /\ g[k] = Step(f[n], piece[k])
      BY <3>1
    <3> HIDE DEF g
    <3> QED
      BY <3>1, <3>2
  <2>2. CASE k # n + 1
    <3>1. k \in 0 .. n /\ g[k] = f[k]
      BY <2>2
    <3>2. f[k] = IF k = 0 THEN s ELSE Step(f[k - 1], piece[k])
      BY <3>1 DEF Running
    <3>3. k # 0 => g[k - 1] = f[k - 1]
      BY <3>1
    <3> HIDE DEF g
    <3> QED
      BY <3>1, <3>2, <3>3
  <2> QED
    BY <2>1, <2>2
<1>2. g = [k \in 0 .. n + 1 |-> g[k]]
  OBVIOUS
<1> HIDE DEF g
<1>3. Running(s, piece, n + 1, g)
  BY <1>1, <1>2 DEF Running
<1> QED
  BY <1>3

LEMMA RunningExists ==
  ASSUME NEW s, NEW piece, NEW n \in Nat
  PROVE  \E f : Running(s, piece, n, f)
<1> DEFINE T == {k \in Nat : \E f : Running(s, piece, k, f)}
<1>1. 0 \in T
  <2> DEFINE f == [k \in 0 .. 0 |-> s]
  <2>1. f = [k \in 0 .. 0 |-> IF k = 0 THEN s ELSE Step(f[k - 1], piece[k])]
    OBVIOUS
  <2>2. Running(s, piece, 0, f)
    BY <2>1 DEF Running
  <2> QED
    BY <2>2
<1>2. \A k \in 0 .. n - 1 : k \in T => k + 1 \in T
  BY OneMoreByte
<1> HIDE DEF T
<1>3. \A k \in 0 .. n : k \in T
  BY <1>1, <1>2, UpTo
<1> QED
  BY <1>3 DEF T

LEMMA RunIs ==
  ASSUME NEW s, NEW piece, NEW n \in Nat, n = Len(piece)
  PROVE  \E f : Running(s, piece, n, f) /\ Run(s, piece) = f[n]
<1>1. PICK f : f = CHOOSE g : Running(s, piece, n, g)
  OBVIOUS
<1>2. Running(s, piece, n, f)
  BY <1>1, RunningExists
<1>3. Run(s, piece) = f[n]
  BY <1>1, Zenon DEF Running, Run
<1> QED
  BY <1>2, <1>3

LEMMA AtPiece ==
  ASSUME server \in Settings, script \in Seq(Tokens), NEW past \in Seq(Tokens),
         NEW all \in Seq(Int), NEW n \in 0 .. Len(all), NEW s, At(s, past, all)
  PROVE  At(Run(s, SubSeq(all, 1, n)), past, SubSeq(all, n + 1, Len(all)))
<1>1. PICK m \in Nat : m = Len(all)
  BY LenProperties
<1>2. PICK piece : piece = SubSeq(all, 1, n)
  OBVIOUS
<1>3. n \in Nat /\ n <= m /\ \A i \in 1 .. m : all[i] \in Int
  BY <1>1, ElementOfSeq
<1>4. n = Len(piece) /\ \A i \in 1 .. n : piece[i] = all[i]
  BY <1>1, <1>2, <1>3
<1>5. PICK f : Running(s, piece, n, f) /\ Run(s, piece) = f[n]
  BY <1>3, <1>4, RunIs, ZenonT(60)
<1> DEFINE T == {k \in 0 .. n : At(f[k], past, SubSeq(all, k + 1, m))}
<1>6. 0 \in T
  <2>1. SubSeq(all, 0 + 1, m) = all
    BY <1>1, SubSeqFull
  <2>2. f[0] = s
    BY <1>3, <1>5 DEF Running
  <2>3. At(f[0], past, SubSeq(all, 0 + 1, m))
    BY <2>1, <2>2, Zenon
  <2>4. 0 \in 0 .. n
    BY <1>3
  <2> QED
    BY <2>3, <2>4, Zenon
<1>7. ASSUME NEW k \in 0 .. n - 1, k \in T
      PROVE  k + 1 \in T
  <2>1. k + 1 \in 1 .. m /\ k + 1 \in 0 .. n /\ (k + 1) - 1 = k /\ k + 1 # 0 /\ k + 1 \in 1 .. n
    BY <1>3
  <2>2. PICK b, rest : b = all[k + 1] /\ rest = SubSeq(all, (k + 1) + 1, m)
    OBVIOUS
  <2>3. b \in Int /\ rest \in Seq(Int) /\ SubSeq(all, k + 1, m) = <<b>> \o rest
    BY <1>1, <2>1, <2>2, FromHere
  <2>4. PICK d : d = f[k]
    OBVIOUS
  <2>5. At(d, past, <<b>> \o rest)
    BY <1>7, <2>3, <2>4
  <2>6. At(Step(d, b), past, rest)
    BY <2>3, <2>5, AtByte
  <2>7. f[k + 1] = Step(d, b)
    <3>1. f[k + 1] = IF k + 1 = 0 THEN s ELSE Step(f[(k + 1) - 1], piece[k + 1])
      BY <1>5, <2>1 DEF Running
    <3>2. piece[k + 1] = b
      BY <1>4, <2>1, <2>2
    <3> QED
      BY <2>1, <2>4, <3>1, <3>2
  <2> QED
    BY <2>1, <2>2, <2>6, <2>7
<1> HIDE DEF T
<1>8. \A k \in 0 .. n : k \in T
  BY <1>3, <1>6, <1>7, UpTo
<1>9. n \in T
  BY <1>3, <1>8
<1> QED
  BY <1>1, <1>2, <1>5, <1>9 DEF T

-----------------------------------------------------------------------------
\* A decoder whose piece has been dealt with.
Emptied(s) ==
    [escape |-> s.escape, state |-> s.state, frame |-> s.frame, open |-> s.open,
     clean |-> <<>>, done |-> <<>>]

LEMMA FreshIsBeing ==
  ASSUME NEW s, NEW e, NEW st, NEW f, NEW o, Being(s, e, st, f, o)
  PROVE  Being(Emptied(s), e, st, f, o)
<1>1. /\ s.escape = (e = 1) /\ s.state = st /\ s.frame = f /\ s.open = (o = 1)
  BY DEF Being, Decoder
<1>2. Emptied(s).clean = <<>> /\ Emptied(s).done = <<>>
  BY DEF Emptied
<1>3. Emptied(s) = Decoder(e, st, f, o, <<>>, <<>>)
  BY <1>1 DEF Emptied, Decoder
<1> QED
  BY <1>2, <1>3 DEF Being

LEMMA FreshReads ==
  ASSUME NEW token, NEW tail, NEW s, Reads(token, tail, s)
  PROVE  Reads(token, tail, Emptied(s))
<1>1. \A e, st, f, o : Being(s, e, st, f, o) => Being(Emptied(s), e, st, f, o)
  BY FreshIsBeing
<1>2. PICK y : y = Emptied(s)
  OBVIOUS
<1>3. \A e, st, f, o : Being(s, e, st, f, o) => Being(y, e, st, f, o)
  BY <1>1, <1>2
<1>4. ASSUME NEW p, ReadsFrame(p, tail, s)
      PROVE  ReadsFrame(p, tail, y)
  <2>1. PICK u : u = << 250 >> \o FrameTail(p)
    OBVIOUS
  <2>2. PICK z : z = << 240 >>
    OBVIOUS
  <2>3. CASE tail = u /\ Being(s, 1, 0, <<>>, 0)
    BY <1>3, <2>1, <2>3 DEF ReadsFrame
  <2>4. CASE \E g, h \in Seq(Int) : p = g \o h /\ tail = FrameTail(h) /\ Being(s, 0, 250, g, 1)
    <3>1. PICK g, h \in Seq(Int) : p = g \o h /\ tail = FrameTail(h) /\ Being(s, 0, 250, g, 1)
      BY <2>4
    <3>2. Being(y, 0, 250, g, 1)
      BY <1>3, <3>1
    <3> QED
      BY <3>1, <3>2 DEF ReadsFrame
  <2>5. CASE \E g, h \in Seq(Int) :
               p = g \o (<< 255 >> \o h) /\ tail = << 255 >> \o FrameTail(h) /\ Being(s, 1, 250, g, 1)
    <3>1. PICK g, h \in Seq(Int) :
             p = g \o (<< 255 >> \o h) /\ tail = << 255 >> \o FrameTail(h) /\ Being(s, 1, 250, g, 1)
      BY <2>5
    <3>2. Being(y, 1, 250, g, 1)
      BY <1>3, <3>1
    <3> QED
      BY <3>1, <3>2 DEF ReadsFrame
  <2>6. CASE tail = z /\ Being(s, 1, 250, p, 1)
    BY <1>3, <2>2, <2>6 DEF ReadsFrame
  <2> QED
    BY <1>4, <2>1, <2>2, <2>3, <2>4, <2>5, <2>6 DEF ReadsFrame
<1>5. Reads(token, tail, y)
  BY <1>3, <1>4, Zenon DEF Reads, Between
<1> QED
  BY <1>2, <1>5

LEMMA AtFresh ==
  ASSUME server \in Settings, script \in Seq(Tokens), NEW past \in Seq(Tokens),
         NEW rest, NEW s, At(s, past, rest)
  PROVE  past \o Outcome(s) \in Seq(Tokens) /\ At(Emptied(s), past \o Outcome(s), rest)
<1>1. PICK now : now = past \o Outcome(s)
  OBVIOUS
<1>2. server.canWrite \in BOOLEAN
  BY SettingIs
<1>3. now \in Seq(Tokens)
  BY <1>1, <1>2, OutcomeIs DEF At
<1>4. PICK x : x = Emptied(s)
  OBVIOUS
<1>5. x.clean = <<>> /\ x.done = <<>>
  BY <1>4 DEF Emptied
<1>6. Kept(x)
  BY <1>5 DEF Kept
<1>7. now \o Outcome(x) = now
  <2>1. ToSerial(<<>>) = <<>>
    <3>1. [i \in 1 .. Len(<<>>) |-> Byte("data", <<>>[i])] = <<>>
      OBVIOUS
    <3> QED
      BY <3>1 DEF ToSerial
  <2>2. Outcome(x) = <<>> \o <<>>
    BY <1>5, <2>1 DEF Outcome
  <2>3. <<>> \o <<>> = <<>>
    OBVIOUS
  <2> QED
    BY <1>3, <2>2, <2>3, JoinTyped
<1>8. PICK k \in 0 .. Len(script) : Done(s, past, k) /\ Within(s, rest, k)
  BY DEF At
<1>9. Done(x, now, k)
  BY <1>1, <1>7, <1>8 DEF Done
<1>10. Within(x, rest, k)
  <2>1. \A token, tail : Reads(token, tail, s) => Reads(token, tail, x)
    BY <1>4, FreshReads
  <2>2. Between(s) => Between(x)
    BY <1>4, FreshIsBeing DEF Between
  <2> QED
    BY <1>8, <2>1, <2>2 DEF Within
<1> QED
  BY <1>1, <1>3, <1>4, <1>6, <1>8, <1>9, <1>10 DEF At

-----------------------------------------------------------------------------
\* A sequence is what is before a place in it, and what is behind.
LEMMA SplitAt ==
  ASSUME NEW S, NEW s \in Seq(S), NEW i \in 0 .. Len(s), NEW j \in i .. Len(s)
  PROVE  /\ SubSeq(s, 1, i) \in Seq(S) /\ SubSeq(s, i + 1, j) \in Seq(S)
         /\ SubSeq(s, 1, j) = SubSeq(s, 1, i) \o SubSeq(s, i + 1, j)
<1>1. PICK n \in Nat : n = Len(s)
  BY LenProperties
<1>2. \A h \in 1 .. n : s[h] \in S
  BY <1>1, ElementOfSeq
<1>3. PICK x, y, z : x = SubSeq(s, 1, i) /\ y = SubSeq(s, i + 1, j) /\ z = SubSeq(s, 1, j)
  OBVIOUS
<1>4. i \in 0 .. n /\ j \in i .. n /\ j \in Nat /\ i \in Nat
  BY <1>1
<1>5. x \in Seq(S) /\ Len(x) = i /\ \A h \in 1 .. i : x[h] = s[h]
  BY <1>2, <1>3, <1>4
<1>6. y \in Seq(S) /\ Len(y) = j - i /\ \A h \in 1 .. j - i : y[h] = s[i + h]
  BY <1>2, <1>3, <1>4
<1>7. z \in Seq(S) /\ Len(z) = j /\ \A h \in 1 .. j : z[h] = s[h]
  BY <1>2, <1>3, <1>4
<1>8. PICK w : w = x \o y
  OBVIOUS
<1>9. /\ w \in Seq(S) /\ Len(w) = j
      /\ \A h \in 1 .. j : w[h] = IF h <= i THEN x[h] ELSE y[h - i]
  <2>1. /\ w \in Seq(S) /\ Len(w) = Len(x) + Len(y)
        /\ \A h \in 1 .. Len(x) + Len(y) : w[h] = IF h <= Len(x) THEN x[h] ELSE y[h - Len(x)]
    BY <1>5, <1>6, <1>8, ConcatProperties, ZenonT(60)
  <2>2. Len(x) + Len(y) = j
    BY <1>4, <1>5, <1>6
  <2> QED
    BY <1>5, <2>1, <2>2
<1>10. ASSUME NEW h \in 1 .. j
       PROVE  w[h] = z[h]
  <2>1. CASE h <= i
    BY <1>4, <1>5, <1>7, <1>9, <2>1
  <2>2. CASE ~(h <= i)
    <3>1. h - i \in 1 .. j - i /\ i + (h - i) = h
      BY <1>4, <2>2
    <3> QED
      BY <1>6, <1>7, <1>9, <2>2, <3>1
  <2> QED
    BY <2>1, <2>2
<1>11. w = z
  BY <1>7, <1>9, <1>10, SeqEqual
<1> QED
  BY <1>3, <1>5, <1>6, <1>8, <1>11

\* What has been received to the end: the first k tokens, when the decoder is
\* behind them and not yet behind the next.
LEMMA CompleteIs ==
  ASSUME server \in Settings, script \in Seq(Tokens), wire \in Seq(Int),
         NEW d, NEW k \in 0 .. Len(script), Within(d, wire, k)
  PROVE  Complete = SubSeq(script, 1, k)
<1> DEFINE Before(j) == EncodeAll(SubSeq(script, 1, j))
           bytes == Len(EncodeAll(script)) - Len(wire)
           whole == {j \in 0 .. Len(script) : Len(Before(j)) <= bytes}
<1>1. Len(script) \in Nat
  BY LenProperties
<1>2. ASSUME NEW i \in 0 .. Len(script), NEW j \in i .. Len(script)
      PROVE  /\ Len(Before(i)) \in Nat /\ Len(Before(j)) \in Nat
             /\ Len(Before(i)) <= Len(Before(j))
  <2>1. PICK x, y, z : /\ x = SubSeq(script, 1, i) /\ y = SubSeq(script, i + 1, j)
                       /\ z = SubSeq(script, 1, j)
    OBVIOUS
  <2>2. x \in Seq(Tokens) /\ y \in Seq(Tokens) /\ z = x \o y
    BY <2>1, SplitAt
  <2>12. /\ EncodeAll(z) = EncodeAll(x) \o EncodeAll(y)
         /\ EncodeAll(x) \in Seq(Int) /\ EncodeAll(y) \in Seq(Int)
    BY <2>2, EncodeJoins
  <2>13. Len(EncodeAll(z)) = Len(EncodeAll(x)) + Len(EncodeAll(y))
    BY <2>12, JoinTyped
  <2>14. Len(EncodeAll(x)) \in Nat /\ Len(EncodeAll(y)) \in Nat
    BY <2>12, LenProperties
  <2>15. Len(EncodeAll(x)) <= Len(EncodeAll(z)) /\ Len(EncodeAll(z)) \in Nat
    BY <2>13, <2>14
  <2> QED
    BY <2>1, <2>14, <2>15
<1>3. /\ Len(EncodeAll(script)) = Len(Before(k)) + Len(Behindhand(k))
      /\ Len(Behindhand(k)) \in Nat
  <2>1. PICK x, y : x = SubSeq(script, 1, k) /\ y = SubSeq(script, k + 1, Len(script))
    OBVIOUS
  <2>2. SubSeq(script, 1, Len(script)) = script /\ Len(script) \in k .. Len(script)
    BY <1>1, SubSeqFull
  <2>3. x \in Seq(Tokens) /\ y \in Seq(Tokens) /\ script = x \o y
    BY <2>1, <2>2, SplitAt
  <2>10. /\ EncodeAll(script) = EncodeAll(x) \o EncodeAll(y)
         /\ EncodeAll(x) \in Seq(Int) /\ EncodeAll(y) \in Seq(Int)
    BY <2>3, EncodeJoins
  <2>11. Len(EncodeAll(script)) = Len(EncodeAll(x)) + Len(EncodeAll(y)) /\ Len(EncodeAll(y)) \in Nat
    <3>1. Len(EncodeAll(x) \o EncodeAll(y)) = Len(EncodeAll(x)) + Len(EncodeAll(y))
      BY <2>10, JoinTyped
    <3> QED
      BY <2>10, <3>1, LenProperties
  <2> QED
    BY <2>1, <2>11 DEF Behindhand
<1>4. Len(wire) \in Nat
  BY LenProperties
<1>5. k \in whole /\ \A j \in whole : j <= k
  <2>1. CASE k = Len(script) /\ wire = <<>>
    <3>1. Len(Behindhand(k)) = 0
      <4>1. SubSeq(script, k + 1, Len(script)) = <<>>
        BY <1>1, <2>1
      <4>2. EncodeAll(<<>>) = <<>>
        <5>1. <<>> \in Seq(Tokens)
          OBVIOUS
        <5> QED
          BY <5>1, EncodeJoins
      <4>3. Behindhand(k) = <<>>
        BY <4>1, <4>2, Zenon DEF Behindhand
      <4> QED
        BY <4>3
    <3>2. Len(wire) = 0
      BY <2>1
    <3>3. Len(Before(k)) <= bytes
      BY <1>2, <1>3, <3>1, <3>2
    <3> QED
      BY <1>1, <2>1, <3>3
  <2>2. CASE k < Len(script) /\ ~(k = Len(script))
    <3>1. PICK t : t = script[k + 1]
      OBVIOUS
    <3>2. PICK tail \in Seq(Int) :
             /\ tail # <<>> /\ Len(tail) <= Len(Encode(t))
             /\ wire = tail \o Behindhand(k + 1)
      BY <2>2, <3>1 DEF Within
    <3>3. k \in 0 .. Len(script) - 1 /\ k + 1 \in 0 .. Len(script)
      BY <1>1, <2>2
    <3>4. /\ t \in Tokens /\ Behindhand(k) = Encode(t) \o Behindhand(k + 1)
          /\ Behindhand(k + 1) \in Seq(Int)
      BY <3>1, <3>3, NextToken
    <3>5. Encode(t) \in Seq(Int)
      BY <3>4, EncodeTyped
    <3>6. PICK x, y : x = Encode(t) /\ y = Behindhand(k + 1)
      OBVIOUS
    <3>7. Len(wire) = Len(tail) + Len(y) /\ Len(Behindhand(k)) = Len(x) + Len(y)
      BY <3>2, <3>4, <3>5, <3>6, JoinTyped
    <3>8. Len(x) \in Nat /\ Len(y) \in Nat /\ Len(tail) \in Nat /\ Len(tail) # 0
      BY <3>2, <3>4, <3>5, <3>6, LenProperties, EmptySeq
    <3>9. k \in whole
      <4>1. Len(tail) <= Len(x)
        BY <3>2, <3>6
      <4> QED
        BY <1>2, <1>3, <1>4, <3>7, <3>8, <4>1
    <3>10. ASSUME NEW j \in whole
           PROVE  j <= k
      <4>1. SUFFICES ASSUME ~(j <= k) PROVE FALSE
        OBVIOUS
      <4>2. j \in k + 1 .. Len(script)
        BY <1>1, <3>3, <4>1
      <4>3. Len(Before(k + 1)) <= Len(Before(j)) /\ Len(Before(k + 1)) \in Nat /\ Len(Before(j)) \in Nat
        BY <1>2, <3>3, <4>2
      <4>4. Len(Before(k + 1)) = Len(Before(k)) + Len(x)
        <5>1. PICK head, o : head = SubSeq(script, 1, k) /\ o = <<t>>
          OBVIOUS
        <5>2. head \in Seq(Tokens) /\ SubSeq(script, 1, k + 1) = Append(head, t)
          BY <3>1, <3>3, <5>1, NextToken
        <5>3. o \in Seq(Tokens) /\ Append(head, t) = head \o o
          BY <3>4, <5>1, <5>2, JoinOne
        <5>4. EncodeAll(o) = x
          BY <3>4, <3>6, <5>1, EncodeOne
        <5>5. EncodeAll(head \o o) = EncodeAll(head) \o EncodeAll(o) /\ EncodeAll(head) \in Seq(Int)
          BY <5>2, <5>3, EncodeJoins
        <5>6. Len(EncodeAll(head) \o x) = Len(EncodeAll(head)) + Len(x)
          BY <3>5, <3>6, <5>5, JoinTyped
        <5> QED
          BY <5>1, <5>2, <5>3, <5>4, <5>5, <5>6
      <4>5. Len(Before(j)) <= Len(EncodeAll(script)) - Len(wire)
        OBVIOUS
      <4>6. Len(Before(k)) \in Nat
        BY <1>2
      <4> HIDE DEF Before
      <4> QED
        BY <1>3, <1>4, <3>7, <3>8, <4>3, <4>4, <4>5, <4>6
    <3> QED
      BY <3>9, <3>10
  <2> QED
    BY <2>1, <2>2 DEF Within
<1>6. \A j \in whole : (\A h \in whole : h <= j) => j = k
  BY <1>1, <1>5
<1>7. (CHOOSE j \in whole : \A h \in whole : h <= j) = k
  <2> HIDE DEF whole
  <2> QED
    BY <1>5, <1>6
<1> QED
  BY <1>7, Zenon DEF Complete

-----------------------------------------------------------------------------
(***************************************************************************)
(* So it is after every step, and what was said to the end was understood. *)
(***************************************************************************)
\* Where the decoder of a connection is between two pieces.
Now ==
    [escape |-> escape, state |-> state, frame |-> frame, open |-> open,
     clean |-> <<>>, done |-> <<>>]

Met == server \in Settings /\ script \in Seq(Tokens)

FInv == Met /\ wire \in Seq(Int) /\ effects \in Seq(Tokens) /\ At(Now, effects, wire)

LEMMA AtNext ==
  ASSUME server' = server, script' = script, NEW d, NEW past, NEW rest,
         d = Now', past = effects', rest = wire', At(d, past, rest)
  PROVE  At(Now, effects, wire)'
<1>1. Tokens' = Tokens
  BY DEF Tokens
<1>2. ASSUME NEW x
      PROVE  MeantOf(x)' = MeantOf(x) /\ ToSerial(x)' = ToSerial(x)
  BY DEF MeantOf, Meant, Allowed, ToSerial
<1>3. Outcome(Now)' = Outcome(d)
  BY DEF Outcome, ToSerial
<1>4. Kept(Now)'
  BY <1>1 DEF At, Kept
<1>5. PICK k \in 0 .. Len(script) : Done(d, past, k) /\ Within(d, rest, k)
  BY DEF At
<1>6. Done(Now, effects, k)'
  BY <1>2, <1>3, <1>5 DEF Done
<1>7. Within(Now, wire, k)'
  BY <1>5 DEF Within, Behindhand
<1> QED
  BY <1>4, <1>5, <1>6, <1>7 DEF At

LEMMA FInvStarts ==
  ASSUME FilterInit
  PROVE  FInv
<1>1. server \in Settings
  BY DEF FilterInit
<1>2. script \in Seq(Tokens)
  <2>1. PICK n \in 0 .. MaxTokens : script \in [1 .. n -> TokensOf(server.protocol)]
    BY DEF FilterInit
  <2>2. n \in Nat
    BY FilterStreamAssumption
  <2> QED
    BY <2>1, <2>2 DEF Tokens
<1>3. wire = EncodeAll(script) /\ wire \in Seq(Int)
  <2>1. wire = EncodeAll(script)
    BY DEF FilterInit
  <2> QED
    BY <1>1, <1>2, <2>1, EncodeJoins
<1>4. effects = <<>> /\ effects \in Seq(Tokens)
  BY DEF FilterInit
<1>5. PICK d : d = Now
  OBVIOUS
<1>6. Between(d) /\ d.clean = <<>> /\ d.done = <<>>
  <2>1. d.clean = <<>> /\ d.done = <<>>
    BY <1>5 DEF Now
  <2>2. d = Decoder(0, 0, <<>>, 0, <<>>, <<>>)
    <3>1. PICK e \in Nat : e = 0
      OBVIOUS
    <3>2. escape = (e = 1) /\ open = (e = 1) /\ state = 0 /\ frame = <<>>
      <4>1. escape = FALSE /\ open = FALSE /\ state = 0 /\ frame = <<>>
        BY Zenon DEF FilterInit
      <4>2. (e = 1) = FALSE
        BY <3>1
      <4> QED
        BY <4>1, <4>2, Zenon
    <3>3. d = Decoder(e, 0, <<>>, e, <<>>, <<>>)
      BY <1>5, <3>2 DEF Now, Decoder
    <3> QED
      BY <3>1, <3>3, Zenon
  <2> QED
    BY <2>1, <2>2 DEF Between, Being
<1>7. Kept(d)
  BY <1>6 DEF Kept
<1>8. Len(script) \in Nat /\ 0 \in 0 .. Len(script)
  BY <1>2, LenProperties
<1>9. Behindhand(0) = wire
  <2>1. SubSeq(script, 0 + 1, Len(script)) = script
    BY <1>2, SubSeqFull
  <2> QED
    BY <1>3, <2>1, Zenon DEF Behindhand
<1>10. Within(d, Behindhand(0), 0)
  BY <1>1, <1>2, <1>6, <1>8, TokenBegins
<1>11. Done(d, effects, 0)
  <2>1. SubSeq(script, 1, 0) = <<>>
    BY <1>2
  <2>2. MeantOf(<<>>) = <<>> /\ \A kind : OfKind(<<>>, kind) = <<>>
    <3>1. <<>> \in Seq(Tokens)
      OBVIOUS
    <3>2. \A kind : OfKind(<<>>, kind) = <<>>
      BY <3>1, OfKindJoins
    <3>3. MeantOf(<<>>) = <<>>
      BY <3>1 DEF MeantOf, FlattenSeq
    <3> QED
      BY <3>2, <3>3
  <2>3. effects \o Outcome(d) = <<>>
    <3>1. ToSerial(<<>>) = <<>>
      <4>1. [i \in 1 .. Len(<<>>) |-> Byte("data", <<>>[i])] = <<>>
        OBVIOUS
      <4> QED
        BY <4>1 DEF ToSerial
    <3>2. Outcome(d) = <<>> \o <<>>
      BY <1>6, <3>1 DEF Outcome
    <3>3. <<>> \o <<>> = <<>>
      OBVIOUS
    <3> QED
      BY <1>4, <3>2, <3>3
  <2>4. MeantOf(SubSeq(script, 1, 0)) = <<>>
    BY <2>1, <2>2, Zenon
  <2> QED
    BY <2>2, <2>3, <2>4, Zenon DEF Done
<1>12. At(d, effects, wire)
  BY <1>7, <1>8, <1>9, <1>10, <1>11 DEF At
<1> QED
  BY <1>1, <1>2, <1>3, <1>4, <1>5, <1>12 DEF FInv, Met

LEMMA FInvKept ==
  ASSUME FInv, FilterNext
  PROVE  FInv'
<1>0. Met /\ wire \in Seq(Int) /\ effects \in Seq(Tokens) /\ At(Now, effects, wire)
  BY SMTT(40) DEF FInv
<1>1. server' = server /\ script' = script
  BY DEF FilterNext, Receive, SendToClient, Poll
<1>2. Met' /\ Tokens' = Tokens
  BY <1>0, <1>1 DEF Met, Tokens
<1>3. ASSUME Receive
      PROVE  FInv'
  <2>1. PICK n \in 1 .. Len(wire) :
           /\ wire' = SubSeq(wire, n + 1, Len(wire))
           /\ escape' = Parse(SubSeq(wire, 1, n)).escape
           /\ state' = Parse(SubSeq(wire, 1, n)).state
           /\ frame' = Parse(SubSeq(wire, 1, n)).frame
           /\ open' = Parse(SubSeq(wire, 1, n)).open
           /\ effects' = effects \o Outcome(Parse(SubSeq(wire, 1, n)))
    BY <1>3, Zenon DEF Receive
  <2>2. PICK s : s = Parse(SubSeq(wire, 1, n))
    OBVIOUS
  <2>3. s = Run(Now, SubSeq(wire, 1, n))
    BY <2>2, Zenon DEF Parse, Now
  <2>4. n \in 0 .. Len(wire)
    OBVIOUS
  <2>5. PICK rest : rest = SubSeq(wire, n + 1, Len(wire))
    OBVIOUS
  <2>6. At(s, effects, rest)
    <3>1. PICK d : d = Now
      OBVIOUS
    <3>2. server \in Settings /\ script \in Seq(Tokens)
      BY <1>0 DEF Met
    <3>3. At(Run(d, SubSeq(wire, 1, n)), effects, SubSeq(wire, n + 1, Len(wire)))
      BY <1>0, <2>4, <3>1, <3>2, AtPiece
    <3> QED
      BY <2>3, <2>5, <3>1, <3>3
  <2>7. effects \o Outcome(s) \in Seq(Tokens) /\ At(Emptied(s), effects \o Outcome(s), rest)
    BY <1>0, <2>6, AtFresh DEF Met
  <2>8. PICK d, past : d = Emptied(s) /\ past = effects \o Outcome(s)
    OBVIOUS
  <2>9. d = Now'
    BY <2>1, <2>2, <2>8 DEF Now, Emptied
  <2>10. past = effects' /\ rest = wire'
    BY <2>1, <2>2, <2>5, <2>8
  <2>11. At(Now, effects, wire)'
    BY <1>1, <2>7, <2>8, <2>9, <2>10, AtNext
  <2>12. wire' \in Seq(Int)
    <3>1. n \in 1 .. Len(wire)
      OBVIOUS
    <3>2. SubSeq(wire, n + 1, Len(wire)) \in Seq(Int)
      BY <1>0, <3>1, FromHere
    <3> QED
      BY <2>1, <3>2
  <2>13. (effects \in Seq(Tokens))'
    BY <1>2, <2>7, <2>8, <2>10
  <2> QED
    BY <1>2, <2>11, <2>12, <2>13 DEF FInv
<1>4. ASSUME UNCHANGED <<wire, decoder>>
      PROVE  FInv'
  <2>1. /\ wire' = wire /\ effects' = effects
        /\ escape' = escape /\ state' = state /\ frame' = frame /\ open' = open
    BY <1>4 DEF decoder
  <2>2. PICK d, past, rest : d = Now /\ past = effects /\ rest = wire
    OBVIOUS
  <2>3. d = Now' /\ past = effects' /\ rest = wire'
    BY <2>1, <2>2 DEF Now
  <2>4. At(Now, effects, wire)'
    BY <1>0, <1>1, <2>2, <2>3, AtNext
  <2>5. (effects \in Seq(Tokens))'
    BY <1>0, <1>2, <2>1
  <2> QED
    BY <1>0, <1>2, <2>1, <2>4, <2>5 DEF FInv
<1> QED
  BY <1>3, <1>4 DEF FilterNext, SendToClient, Poll

LEMMA FInvStutters ==
  ASSUME FInv, UNCHANGED filterVars
  PROVE  FInv'
<1>1. /\ server' = server /\ script' = script /\ wire' = wire /\ effects' = effects
      /\ escape' = escape /\ state' = state /\ frame' = frame /\ open' = open
  BY DEF filterVars, decoder
<1>2. PICK d, past, rest : d = Now /\ past = effects /\ rest = wire
  OBVIOUS
<1>3. d = Now' /\ past = effects' /\ rest = wire'
  BY <1>1, <1>2 DEF Now
<1>4. At(Now, effects, wire)'
  BY <1>1, <1>2, <1>3, AtNext DEF FInv
<1>5. Met' /\ Tokens' = Tokens
  BY <1>1 DEF FInv, Met, Tokens
<1>6. (effects \in Seq(Tokens))'
  BY <1>1, <1>5 DEF FInv
<1> QED
  BY <1>1, <1>4, <1>5, <1>6 DEF FInv

LEMMA FInvHolds == FilterSpec => []FInv
<1>1. FilterInit => FInv
  BY FInvStarts
<1>2. FInv /\ [FilterNext]_filterVars => FInv'
  BY FInvKept, FInvStutters
<1> QED
  BY <1>1, <1>2, PTL DEF FilterSpec

LEMMA FInvUnderstands ==
  ASSUME FInv
  PROVE  StreamUnderstood
<1>1. PICK k \in 0 .. Len(script) : Done(Now, effects, k) /\ Within(Now, wire, k)
  BY DEF FInv, At
<1>2. PICK d : d = Now
  OBVIOUS
<1>3. d.clean = <<>> /\ d.done = <<>>
  BY <1>2 DEF Now
<1>4. effects \o Outcome(d) = effects
  <2>1. ToSerial(<<>>) = <<>>
    <3>1. [i \in 1 .. Len(<<>>) |-> Byte("data", <<>>[i])] = <<>>
      OBVIOUS
    <3> QED
      BY <3>1 DEF ToSerial
  <2>2. Outcome(d) = <<>> \o <<>>
    BY <1>3, <2>1 DEF Outcome
  <2>3. <<>> \o <<>> = <<>>
    OBVIOUS
  <2>4. effects \in Seq(Tokens)
    BY DEF FInv
  <2> QED
    BY <2>2, <2>3, <2>4, JoinTyped
<1>5. Complete = SubSeq(script, 1, k)
  BY <1>1, <1>2, CompleteIs DEF FInv, Met
<1> QED
  BY <1>1, <1>2, <1>4, <1>5 DEF Done, StreamUnderstood

\* However a client's stream is cut into pieces, what it said to the end has
\* been understood: the data are with the device, each command it may give was
\* carried out once, options and subnegotiations were heard whole (on_received,
\* _process_control_cmd, _process_iac, to_serial).
THEOREM StreamIsUnderstood == FilterSpec => []StreamUnderstood
BY FInvHolds, FInvUnderstands, PTL

-----------------------------------------------------------------------------
(***************************************************************************)
(* The other way: what a client hears of what it is sent.                  *)
(***************************************************************************)
\* A client that hears n bytes.
Listening(bytes, n, f) ==
    f = [k \in 0 .. n |-> IF k = 0 THEN [escape |-> FALSE, items |-> <<>>]
                          ELSE Hear(f[k - 1], bytes[k])]

Hears(bytes, x) == \E f : Listening(bytes, Len(bytes), f) /\ f[Len(bytes)] = x

LEMMA SameListening ==
  ASSUME NEW bytes, NEW n \in Nat, NEW f, Listening(bytes, n, f), NEW g, Listening(bytes, n, g)
  PROVE  f[n] = g[n]
<1> DEFINE T == {k \in 0 .. n : f[k] = g[k]}
<1>1. 0 \in T
  <2>1. 0 \in 0 .. n
    OBVIOUS
  <2>2. f[0] = g[0]
    BY <2>1 DEF Listening
  <2> QED
    BY <2>1, <2>2
<1>2. ASSUME NEW k \in 0 .. n - 1, k \in T
      PROVE  k + 1 \in T
  <2>1. k + 1 \in 0 .. n /\ k + 1 # 0 /\ (k + 1) - 1 = k
    OBVIOUS
  <2>2. f[k + 1] = Hear(f[k], bytes[k + 1]) /\ g[k + 1] = Hear(g[k], bytes[k + 1])
    BY <2>1 DEF Listening
  <2>3. f[k] = g[k]
    BY <1>2
  <2> QED
    BY <2>1, <2>2, <2>3
<1> HIDE DEF T
<1>3. \A k \in 0 .. n : k \in T
  BY <1>1, <1>2, UpTo
<1> QED
  BY <1>3 DEF T

\* What is understood of bytes is what was heard of them.
LEMMA HearsIs ==
  ASSUME NEW bytes \in Seq(Int), NEW x, Hears(bytes, x)
  PROVE  Understand(bytes) = x.items
<1>1. PICK n \in Nat : n = Len(bytes)
  BY LenProperties
<1>2. PICK f : Listening(bytes, n, f) /\ f[n] = x
  BY <1>1 DEF Hears
<1>3. PICK g : g = CHOOSE h : Listening(bytes, n, h)
  OBVIOUS
<1>4. Listening(bytes, n, g)
  BY <1>2, <1>3
<1>5. Understand(bytes) = g[n].items
  BY <1>1, <1>3, Zenon DEF Understand, Listening
<1>6. g[n] = x
  BY <1>2, <1>4, SameListening
<1> QED
  BY <1>5, <1>6

LEMMA HearsNothing == Hears(<<>>, [escape |-> FALSE, items |-> <<>>])
<1>1. PICK x : x = [escape |-> FALSE, items |-> <<>>]
  OBVIOUS
<1>2. PICK n \in Nat : n = 0
  OBVIOUS
<1>3. PICK f : f = [k \in 0 .. n |-> x]
  OBVIOUS
<1>4. f = [k \in 0 .. n |-> IF k = 0 THEN x ELSE Hear(f[k - 1], <<>>[k])]
  BY <1>2, <1>3
<1>5. Listening(<<>>, n, f)
  BY <1>1, <1>4, Zenon DEF Listening
<1>6. n = Len(<<>>) /\ f[n] = x
  BY <1>2, <1>3
<1> QED
  BY <1>1, <1>5, <1>6, Zenon DEF Hears

LEMMA HearsMore ==
  ASSUME NEW bytes \in Seq(Int), NEW x, Hears(bytes, x), NEW b \in Int
  PROVE  Hears(bytes \o <<b>>, Hear(x, b))
<1>1. PICK n \in Nat : n = Len(bytes)
  BY LenProperties
<1>2. PICK f : Listening(bytes, n, f) /\ f[n] = x
  BY <1>1 DEF Hears
<1>3. PICK w : w = Append(bytes, b)
  OBVIOUS
<1>4. w = bytes \o <<b>> /\ Len(w) = n + 1 /\ w[n + 1] = b /\ \A i \in 1 .. n : w[i] = bytes[i]
  BY <1>1, <1>3, AppendByte, ByteBehind
<1>5. PICK none : none = [escape |-> FALSE, items |-> <<>>]
  OBVIOUS
<1>6. PICK g : g = [k \in 0 .. n + 1 |-> IF k <= n THEN f[k] ELSE Hear(f[n], b)]
  OBVIOUS
<1>7. ASSUME NEW k \in 0 .. n + 1
      PROVE  g[k] = IF k = 0 THEN none ELSE Hear(g[k - 1], w[k])
  <2>1. CASE k = n + 1
    <3>1. k # 0 /\ k - 1 = n /\ n \in 0 .. n + 1 /\ ~(k <= n)
      BY <2>1
    <3>2. g[n] = f[n] /\ g[k] = Hear(f[n], b)
      BY <1>6, <3>1
    <3> QED
      BY <1>4, <2>1, <3>1, <3>2
  <2>2. CASE k # n + 1
    <3>1. k \in 0 .. n /\ g[k] = f[k]
      BY <1>6, <2>2
    <3>2. f[k] = IF k = 0 THEN none ELSE Hear(f[k - 1], bytes[k])
      BY <1>2, <1>5, <3>1 DEF Listening
    <3>3. k # 0 => k \in 1 .. n /\ k - 1 \in 0 .. n + 1 /\ k - 1 <= n
      BY <3>1
    <3>4. k # 0 => g[k - 1] = f[k - 1] /\ w[k] = bytes[k]
      BY <1>4, <1>6, <3>3
    <3> QED
      BY <3>1, <3>2, <3>4
  <2> QED
    BY <2>1, <2>2
<1>8. g = [k \in 0 .. n + 1 |-> g[k]]
  BY <1>6
<1>9. g = [k \in 0 .. n + 1 |-> IF k = 0 THEN none ELSE Hear(g[k - 1], w[k])]
  BY <1>7, <1>8
<1>10. Listening(w, n + 1, g)
  BY <1>5, <1>9, Zenon DEF Listening
<1>11. g[n + 1] = Hear(x, b)
  BY <1>2, <1>6
<1>12. Hears(w, Hear(x, b))
  BY <1>4, <1>10, <1>11 DEF Hears
<1> QED
  BY <1>4, <1>12

-----------------------------------------------------------------------------
\* A client that has heard some things, and no half of another.
Clear(items) == [escape |-> FALSE, items |-> items]

Midway(items) == [escape |-> TRUE, items |-> items]

LEMMA HearIs ==
  ASSUME NEW items, NEW b \in Int
  PROVE  /\ b # 255 => Hear(Clear(items), b) = Clear(Append(items, Byte("data", b)))
         /\ b = 255 => Hear(Clear(items), b) = Midway(items)
         /\ b = 255 => Hear(Midway(items), b) = Clear(Append(items, Byte("data", b)))
         /\ b # 255 => Hear(Midway(items), b)
                         = Clear(Append(items, [kind |-> "report", lines |-> LinesOf(b)]))
<1>1. PICK c : c = Clear(items)
  OBVIOUS
<1>2. PICK m : m = Midway(items)
  OBVIOUS
<1>3. PICK x : x = Append(items, Byte("data", b))
  OBVIOUS
<1>4. c.escape = FALSE /\ c.items = items /\ m.escape = TRUE /\ m.items = items
  BY <1>1, <1>2 DEF Clear, Midway
<1>5. [c EXCEPT !.escape = TRUE] = Midway(items) /\ [c EXCEPT !.items = x] = Clear(x)
  <2>1. ASSUME NEW v
        PROVE  [c EXCEPT !.escape = v] = [escape |-> v, items |-> items]
    BY <1>1 DEF Clear
  <2>2. [c EXCEPT !.escape = TRUE] = Midway(items)
    BY <2>1, Zenon DEF Midway
  <2>3. [c EXCEPT !.items = x] = Clear(x)
    <3>1. ASSUME NEW v, NEW z, z = [escape |-> v, items |-> items]
          PROVE  [z EXCEPT !.items = x] = [escape |-> v, items |-> x]
      BY <3>1
    <3>2. c = [escape |-> FALSE, items |-> items]
      BY <1>1, Zenon DEF Clear
    <3> QED
      BY <3>1, <3>2, Zenon DEF Clear
  <2> QED
    BY <2>2, <2>3
<1>6. b # 255 => Hear(c, b) = Clear(x)
  BY <1>3, <1>4, <1>5 DEF Hear, ESCAPE
<1>7. b = 255 => Hear(c, b) = Midway(items)
  BY <1>4, <1>5 DEF Hear, ESCAPE
<1>8. b = 255 => Hear(m, b) = Clear(x)
  BY <1>3, <1>4 DEF Hear, ESCAPE, Clear
<1>9. b # 255 => Hear(m, b) = Clear(Append(items, [kind |-> "report", lines |-> LinesOf(b)]))
  BY <1>4 DEF Hear, ESCAPE, Clear
<1> QED
  BY <1>1, <1>2, <1>3, <1>6, <1>7, <1>8, <1>9

\* What the device says is heard as data, 0xFF too.
LEMMA HearsData ==
  ASSUME NEW bytes \in Seq(Int), NEW items, Hears(bytes, Clear(items)), NEW b \in Int
  PROVE  Hears(bytes \o Escaped(<<b>>), Clear(Append(items, Byte("data", b))))
<1>1. PICK o : o = <<b>>
  OBVIOUS
<1>2. o \in Seq(Int)
  BY <1>1
<1>3. PICK x, y : x = Clear(items) /\ y = Hear(x, b)
  OBVIOUS
<1>4. Hears(bytes \o o, y)
  BY <1>1, <1>3, HearsMore
<1>5. CASE b = 255
  <2>1. Escaped(<<b>>) = o \o o
    <3>1. Doubled(<<b>>) = <<255, 255>>
      BY <1>5, DoubledOne
    <3>2. <<b, b>> = <<b>> \o <<b>>
      BY Pair
    <3> QED
      BY <1>1, <1>5, <3>1, <3>2 DEF Escaped
  <2>2. PICK u : u = bytes \o o
    OBVIOUS
  <2>3. u \in Seq(Int) /\ u \o o = bytes \o (o \o o)
    BY <1>2, <2>2, JoinTyped, JoinBytes
  <2>4. Hears(u \o o, Hear(y, b))
    BY <1>1, <1>4, <2>2, <2>3, HearsMore
  <2>5. Hear(y, b) = Clear(Append(items, Byte("data", b)))
    <3>1. y = Midway(items)
      BY <1>3, <1>5, HearIs, ZenonT(60)
    <3>2. Hear(Midway(items), b) = Clear(Append(items, Byte("data", b)))
      BY <1>5, HearIs, ZenonT(60)
    <3> QED
      BY <3>1, <3>2, Zenon
  <2> QED
    BY <2>1, <2>3, <2>4, <2>5
<1>6. CASE b # 255
  <2>1. Escaped(<<b>>) = o
    BY <1>1, <1>6, DoubledOne DEF Escaped
  <2>2. y = Clear(Append(items, Byte("data", b)))
    BY <1>3, <1>6, HearIs
  <2> QED
    BY <1>4, <2>1, <2>2
<1> QED
  BY <1>5, <1>6

-----------------------------------------------------------------------------
\* What a line adds to a report, of those that are configured and on.
Adding(on, bit) == IF bit \in on \cap server.signals THEN Weight(bit) ELSE 0

LEMMA Weights ==
  Weight(0) = 1 /\ Weight(1) = 2 /\ Weight(2) = 4 /\ Weight(3) = 8 /\ Weight(4) = 16 /\ Weight(5) = 32
<1>1. PICK w : w = <<1, 2, 4, 8, 16, 32>>
  OBVIOUS
<1>2. w[1] = 1 /\ w[2] = 2 /\ w[3] = 4 /\ w[4] = 8 /\ w[5] = 16 /\ w[6] = 32
  BY <1>1
<1>3. \A i : Weight(i) = w[i + 1]
  BY <1>1, Zenon DEF Weight
<1> QED
  BY <1>2, <1>3

\* Six bits and their sum.
LEMMA BitsOfSum ==
  ASSUME NEW a \in {0, 1}, NEW b \in {0, 2}, NEW c \in {0, 4}, NEW d \in {0, 8},
         NEW e \in {0, 16}, NEW f \in {0, 32}, NEW r, r = 128 + a + b + c + d + e + f
  PROVE  /\ r \in 128 .. 191
         /\ ((r - 128) \div 1) % 2 = 1 <=> a # 0
         /\ ((r - 128) \div 2) % 2 = 1 <=> b # 0
         /\ ((r - 128) \div 4) % 2 = 1 <=> c # 0
         /\ ((r - 128) \div 8) % 2 = 1 <=> d # 0
         /\ ((r - 128) \div 16) % 2 = 1 <=> e # 0
         /\ ((r - 128) \div 32) % 2 = 1 <=> f # 0
<1>1. r - 128 = a + b + c + d + e + f /\ r \in 128 .. 191
  OBVIOUS
<1>2. PICK s \in Int : s = r - 128
  OBVIOUS
<1>3. s = a + b + c + d + e + f
  BY <1>1, <1>2
<1>4. (s \div 1) % 2 = 1 <=> a # 0
  BY <1>3
<1>5. (s \div 2) % 2 = 1 <=> b # 0
  BY <1>3
<1>6. (s \div 4) % 2 = 1 <=> c # 0
  BY <1>3
<1>7. (s \div 8) % 2 = 1 <=> d # 0
  BY <1>3
<1>8. (s \div 16) % 2 = 1 <=> e # 0
  BY <1>3
<1>9. (s \div 32) % 2 = 1 <=> f # 0
  BY <1>3
<1> QED
  BY <1>1, <1>2, <1>4, <1>5, <1>6, <1>7, <1>8, <1>9

\* A report says which of the configured lines are on, and is no escape.
LEMMA ReportIs ==
  ASSUME server \in Settings, NEW on
  PROVE  \E r \in Int : /\ ReportBytes(on) = <<255, r>> /\ r # 255
                        /\ LinesOf(r) = on \cap server.signals
<1>1. PICK a, b, c, d, e, f :
         /\ a = Adding(on, 0) /\ b = Adding(on, 1) /\ c = Adding(on, 2)
         /\ d = Adding(on, 3) /\ e = Adding(on, 4) /\ f = Adding(on, 5)
  OBVIOUS
<1>2. PICK s : s = on \cap server.signals
  OBVIOUS
<1>3. /\ a \in {0, 1} /\ b \in {0, 2} /\ c \in {0, 4} /\ d \in {0, 8} /\ e \in {0, 16} /\ f \in {0, 32}
      /\ (0 \in s <=> a # 0) /\ (1 \in s <=> b # 0) /\ (2 \in s <=> c # 0)
      /\ (3 \in s <=> d # 0) /\ (4 \in s <=> e # 0) /\ (5 \in s <=> f # 0)
  BY <1>1, <1>2, Weights DEF Adding
<1>4. PICK r : r = 128 + a + b + c + d + e + f
  OBVIOUS
<1>5. ReportBytes(on) = <<255, r>>
  BY <1>1, <1>4 DEF ReportBytes, Adding, ESCAPE, REPORT_BASE
<1>6. /\ r \in 128 .. 191
      /\ ((r - 128) \div 1) % 2 = 1 <=> a # 0
      /\ ((r - 128) \div 2) % 2 = 1 <=> b # 0
      /\ ((r - 128) \div 4) % 2 = 1 <=> c # 0
      /\ ((r - 128) \div 8) % 2 = 1 <=> d # 0
      /\ ((r - 128) \div 16) % 2 = 1 <=> e # 0
      /\ ((r - 128) \div 32) % 2 = 1 <=> f # 0
  BY <1>3, <1>4, BitsOfSum
<1>7. s \subseteq 0 .. 5
  BY <1>2, SettingIs
<1>8. ASSUME NEW bit \in 0 .. 5
      PROVE  ((r - 128) \div Weight(bit)) % 2 = 1 <=> bit \in s
  <2>1. bit = 0 \/ bit = 1 \/ bit = 2 \/ bit = 3 \/ bit = 4 \/ bit = 5
    OBVIOUS
  <2>2. CASE bit = 0
    BY <1>3, <1>6, <2>2, Weights
  <2>3. CASE bit = 1
    BY <1>3, <1>6, <2>3, Weights
  <2>4. CASE bit = 2
    BY <1>3, <1>6, <2>4, Weights
  <2>5. CASE bit = 3
    BY <1>3, <1>6, <2>5, Weights
  <2>6. CASE bit = 4
    BY <1>3, <1>6, <2>6, Weights
  <2>7. CASE bit = 5
    BY <1>3, <1>6, <2>7, Weights
  <2> QED
    BY <2>1, <2>2, <2>3, <2>4, <2>5, <2>6, <2>7
<1>9. LinesOf(r) = {bit \in 0 .. 5 : bit \in s}
  <2>1. LinesOf(r) = {bit \in 0 .. 5 : ((r - 128) \div Weight(bit)) % 2 = 1}
    BY Zenon DEF LinesOf, REPORT_BASE
  <2> QED
    BY <1>8, <2>1
<1>10. LinesOf(r) = s
  BY <1>7, <1>9
<1> QED
  BY <1>2, <1>5, <1>6, <1>10

LEMMA HearsReport ==
  ASSUME server \in Settings, NEW bytes \in Seq(Int), NEW items, Hears(bytes, Clear(items)), NEW on
  PROVE  /\ Hears(bytes \o ReportBytes(on), Clear(Append(items, Report(on))))
         /\ ReportBytes(on) \in Seq(Int)
<1>1. PICK r \in Int : /\ ReportBytes(on) = <<255, r>> /\ r # 255
                       /\ LinesOf(r) = on \cap server.signals
  BY ReportIs
<1>2. PICK a \in Int : a = 255
  OBVIOUS
<1>3. PICK o, p : o = <<a>> /\ p = <<r>>
  OBVIOUS
<1>4. o \in Seq(Int) /\ p \in Seq(Int) /\ <<a, r>> = o \o p
  BY <1>3, OneByte, Pair
<1>5. PICK x, y : x = Clear(items) /\ y = Hear(x, a)
  OBVIOUS
<1>6. PICK u : u = bytes \o o
  OBVIOUS
<1>7. Hears(u, y)
  BY <1>3, <1>5, <1>6, HearsMore
<1>8. u \in Seq(Int) /\ u \o p = bytes \o (o \o p) /\ o \o p \in Seq(Int)
  BY <1>4, <1>6, JoinTyped, JoinBytes
<1>9. Hears(u \o p, Hear(y, r))
  BY <1>3, <1>7, <1>8, HearsMore
<1>10. Hear(y, r) = Clear(Append(items, Report(on)))
  <2>1. y = Midway(items)
    BY <1>2, <1>5, HearIs
  <2>2. Hear(Midway(items), r) = Clear(Append(items, [kind |-> "report", lines |-> LinesOf(r)]))
    BY <1>1, HearIs
  <2>3. Report(on) = [kind |-> "report", lines |-> LinesOf(r)]
    BY <1>1, Zenon DEF Report
  <2> QED
    BY <2>1, <2>2, <2>3, Zenon
<1>11. ReportBytes(on) = o \o p
  BY <1>1, <1>2, <1>4, Zenon
<1> QED
  BY <1>8, <1>9, <1>10, <1>11

\* What a client may be sent.
Items ==
    {Byte("data", b) : b \in Int}
      \cup [kind : {"report"}, lines : SUBSET (0 .. 5)]

LEMMA ItemsAre ==
  ASSUME server \in Settings, NEW on, NEW b \in Int
  PROVE  Report(on) \in Items /\ Byte("data", b) \in Items
<1>1. server.signals \subseteq 0 .. 5
  BY SettingIs
<1>2. Report(on) \in [kind : {"report"}, lines : SUBSET (0 .. 5)]
  BY <1>1 DEF Report
<1> QED
  BY <1>2 DEF Items

\* Several reports, one after another.
ReportsOf(h, n) == [i \in 1 .. n |-> Report(h[i])]
BytesOf(h, n) == FlattenSeq([i \in 1 .. n |-> ReportBytes(h[i])])

LEMMA HearsReports ==
  ASSUME server \in Settings, NEW bytes \in Seq(Int), NEW items \in Seq(Items),
         Hears(bytes, Clear(items)), NEW n \in Nat, NEW h
  PROVE  /\ BytesOf(h, n) \in Seq(Int) /\ ReportsOf(h, n) \in Seq(Items)
         /\ Hears(bytes \o BytesOf(h, n), Clear(items \o ReportsOf(h, n)))
<1> DEFINE Pieces(k) == [i \in 1 .. k |-> ReportBytes(h[i])]
           Sent(k) == FlattenSeq(Pieces(k))
           Reports(k) == [i \in 1 .. k |-> Report(h[i])]
           T == {k \in 0 .. n : /\ Sent(k) \in Seq(Int) /\ Reports(k) \in Seq(Items)
                                /\ Hears(bytes \o Sent(k), Clear(items \o Reports(k)))}
<1>1. 0 \in T
  <2>1. Pieces(0) = <<>> /\ Reports(0) = <<>>
    OBVIOUS
  <2>2. Sent(0) = <<>>
    BY <2>1, FlattenNone, Zenon
  <2>3. bytes \o <<>> = bytes /\ items \o <<>> = items /\ <<>> \in Seq(Int) /\ <<>> \in Seq(Items)
    BY JoinTyped
  <2>4. 0 \in 0 .. n
    OBVIOUS
  <2> HIDE DEF Sent, Reports
  <2> QED
    BY <2>1, <2>2, <2>3, <2>4, Zenon DEF Reports
<1>2. ASSUME NEW k \in 0 .. n - 1, k \in T
      PROVE  k + 1 \in T
  <2>1. k \in Nat /\ k + 1 \in 0 .. n
    OBVIOUS
  <2>2. PICK on : on = h[k + 1]
    OBVIOUS
  <2>3. PICK last, report : last = ReportBytes(on) /\ report = Report(on)
    OBVIOUS
  <2>4. last \in Seq(Int) /\ report \in Items
    BY <2>3, HearsReport, ItemsAre
  <2>5. \A i \in 1 .. k : ReportBytes(h[i]) \in Seq(Int) /\ Report(h[i]) \in Items
    BY HearsReport, ItemsAre
  <2>6. PICK ps : ps = Pieces(k)
    OBVIOUS
  <2>7. PICK rs : rs = Reports(k)
    OBVIOUS
  <2>8. ps \in Seq(Seq(Int)) /\ Len(ps) = k
    BY <2>1, <2>5, <2>6
  <2>9. rs \in Seq(Items) /\ Len(rs) = k
    BY <2>1, <2>5, <2>7
  <2>10. Pieces(k + 1) = Append(ps, last)
    BY <2>1, <2>2, <2>3, <2>6, <2>8
  <2>11. Reports(k + 1) = Append(rs, report)
    BY <2>1, <2>2, <2>3, <2>7, <2>9
  <2>12. PICK sent : sent = Sent(k)
    OBVIOUS
  <2>13. Sent(k + 1) = sent \o last
    <3>1. FlattenSeq(Append(ps, last)) = FlattenSeq(ps) \o last
      BY <2>4, <2>8, FlattenAppend
    <3> QED
      BY <2>6, <2>10, <2>12, <3>1, Zenon
  <2>14. sent \in Seq(Int) /\ Hears(bytes \o sent, Clear(items \o rs))
    BY <1>2, <2>7, <2>12
  <2>15. PICK u, all : u = bytes \o sent /\ all = items \o rs
    OBVIOUS
  <2>16. u \in Seq(Int) /\ u \o last = bytes \o (sent \o last) /\ sent \o last \in Seq(Int)
    BY <2>4, <2>14, <2>15, JoinTyped, JoinBytes
  <2>17. /\ all \in Seq(Items) /\ Append(rs, report) \in Seq(Items)
         /\ Append(all, report) = items \o Append(rs, report)
    <3>1. PICK o : o = <<report>>
      OBVIOUS
    <3>2. o \in Seq(Items)
      BY <2>4, <3>1
    <3>3. all \in Seq(Items)
      BY <2>9, <2>15, JoinTyped
    <3>4. Append(all, report) = all \o o /\ Append(rs, report) = rs \o o
      BY <2>4, <2>9, <3>1, <3>3, JoinOne
    <3>5. (items \o rs) \o o = items \o (rs \o o)
      BY <2>9, <3>2, JoinJoin
    <3>6. Append(rs, report) \in Seq(Items)
      BY <2>4, <2>9, AppendProperties
    <3> QED
      BY <2>15, <3>3, <3>4, <3>5, <3>6
  <2>18. Hears(u \o last, Clear(Append(all, report)))
    BY <2>3, <2>14, <2>15, <2>16, HearsReport
  <2> HIDE DEF Sent, Reports
  <2> QED
    BY <2>1, <2>11, <2>13, <2>16, <2>17, <2>18
<1> HIDE DEF T
<1>3. \A k \in 0 .. n : k \in T
  BY <1>1, <1>2, UpTo
<1>4. n \in T
  BY <1>3
<1> QED
  BY <1>4, Zenon DEF T, BytesOf, ReportsOf

-----------------------------------------------------------------------------
\* Behind the greeting, what was heard is what was said.
OInv ==
    /\ said \in Seq(Items)
    /\ \E body \in Seq(Int) :
          outgoing = Greeting(server.protocol) \o body /\ Hears(body, Clear(said))

LEMMA GreetingTyped ==
  ASSUME NEW protocol
  PROVE  Greeting(protocol) \in Seq(Int)
<1>1. PICK a, b : a = <<IAC, DO, LINEMODE>> /\ b = <<IAC, WILL, ECHO>>
  OBVIOUS
<1>2. a \in Seq(Int) /\ b \in Seq(Int)
  BY <1>1 DEF IAC, DO, LINEMODE, WILL, ECHO
<1>3. PICK x, y : x = Doubled(a) /\ y = Doubled(b)
  OBVIOUS
<1>4. x \in Seq(Int) /\ y \in Seq(Int)
  BY <1>2, <1>3, DoubledTyped
<1>5. x \o y \in Seq(Int) /\ <<>> \in Seq(Int)
  BY <1>4, JoinTyped
<1>6. Greeting(protocol) = IF protocol = "telnet" THEN x \o y ELSE <<>>
  BY <1>1, <1>3, Zenon DEF Greeting, Escaped
<1> QED
  BY <1>5, <1>6

LEMMA OInvStarts ==
  ASSUME FilterInit
  PROVE  OInv
<1>1. said = <<>> /\ outgoing = Greeting(server.protocol)
  BY DEF FilterInit
<1>2. PICK g : g = Greeting(server.protocol)
  OBVIOUS
<1>3. g \in Seq(Int)
  BY <1>2, GreetingTyped
<1>4. g \o <<>> = g /\ <<>> \in Seq(Int) /\ <<>> \in Seq(Items)
  BY <1>3, JoinTyped
<1>5. Hears(<<>>, Clear(<<>>))
  BY HearsNothing, Zenon DEF Clear
<1> QED
  BY <1>1, <1>2, <1>4, <1>5, Zenon DEF OInv

\* What is sent goes behind what was.
LEMMA SaysMore ==
  ASSUME server' = server, NEW body \in Seq(Int), outgoing = Greeting(server.protocol) \o body,
         NEW sent \in Seq(Int), outgoing' = outgoing \o sent,
         said' \in Seq(Items), Hears(body \o sent, Clear(said'))
  PROVE  OInv'
<1>1. PICK g : g = Greeting(server.protocol)
  OBVIOUS
<1>2. g \in Seq(Int)
  BY <1>1, GreetingTyped
<1>3. (g \o body) \o sent = g \o (body \o sent) /\ body \o sent \in Seq(Int)
  BY <1>2, JoinBytes
<1>4. PICK more : more = body \o sent
  OBVIOUS
<1>5. outgoing' = g \o more /\ g = Greeting(server'.protocol)
  BY <1>1, <1>3, <1>4
<1>6. (said \in Seq(Items))'
  BY DEF Items, Byte
<1> QED
  BY <1>3, <1>4, <1>5, <1>6 DEF OInv

\* What is told of commands is a sequence.
LEMMA ToldCounts ==
  ASSUME NEW commands, NEW m \in Nat, m = Len(commands), NEW refused
  PROVE  Len(Told(commands, refused)) \in Nat
<1>1. PICK after : after = LinesOver(commands, refused)
  OBVIOUS
<1> DEFINE S == {after[i] : i \in 1 .. m}
           pieces == [i \in 1 .. m |-> IF i \in refused THEN <<>> ELSE <<after[i]>>]
<1>2. ASSUME NEW i \in 1 .. m
      PROVE  (IF i \in refused THEN <<>> ELSE <<after[i]>>) \in Seq(S)
  <2>1. PICK x : x = after[i]
    OBVIOUS
  <2>2. x \in S
    BY <2>1
  <2>3. <<>> \in Seq(S) /\ <<x>> \in Seq(S)
    BY <2>2
  <2> QED
    BY <2>1, <2>3
<1>3. pieces \in Seq(Seq(S))
  BY <1>2, SMTT(40)
<1>4. Told(commands, refused) = FlattenSeq(pieces)
  BY <1>1, Zenon DEF Told
<1> HIDE DEF S, pieces
<1>5. FlattenSeq(pieces) \in Seq(S)
  BY <1>3, FlattenTyped
<1> QED
  BY <1>4, <1>5, LenProperties

CommandsIn(n) == OfKind(Parse(SubSeq(wire, 1, n)).done, "command")

LEMMA OInvKept ==
  ASSUME FInv, OInv, FilterNext
  PROVE  OInv'
<1>0. PICK body \in Seq(Int) :
         outgoing = Greeting(server.protocol) \o body /\ Hears(body, Clear(said))
  BY DEF OInv
<1>1. server' = server /\ server \in Settings /\ said \in Seq(Items)
  BY DEF FilterNext, Receive, SendToClient, Poll, FInv, Met, OInv
<1>2. CASE Receive
  <2>0. PICK n \in 1 .. Len(wire) : \E refused :
           /\ said' = said \o Reporting(Told(CommandsIn(n), refused))
           /\ outgoing' = outgoing \o ReportedIn(Told(CommandsIn(n), refused))
    BY <1>2, Zenon DEF Receive, CommandsIn
  <2>1. PICK refused :
           /\ said' = said \o Reporting(Told(CommandsIn(n), refused))
           /\ outgoing' = outgoing \o ReportedIn(Told(CommandsIn(n), refused))
    BY <2>0
  <2>2. PICK s : s = Parse(SubSeq(wire, 1, n))
    OBVIOUS
  <2>3. s.done \in Seq(Tokens)
    <3>1. PICK d : d = Now
      OBVIOUS
    <3>2. s = Run(d, SubSeq(wire, 1, n))
      BY <2>2, <3>1, Zenon DEF Parse, Now
    <3>3. n \in 0 .. Len(wire)
      OBVIOUS
    <3>4. At(Run(d, SubSeq(wire, 1, n)), effects, SubSeq(wire, n + 1, Len(wire)))
      BY <3>1, <3>3, AtPiece DEF FInv, Met
    <3> QED
      BY <3>2, <3>4 DEF At, Kept
  <2>4. PICK commands : commands = CommandsIn(n)
    OBVIOUS
  <2>12. commands = OfKind(s.done, "command")
    BY <2>2, <2>4 DEF CommandsIn
  <2>5. PICK m \in Nat : m = Len(commands)
    BY <2>3, <2>12, OfKindJoins, LenProperties
  <2>6. PICK told : told = Told(CommandsIn(n), refused)
    OBVIOUS
  <2>13. Len(told) \in Nat
    BY <2>4, <2>5, <2>6, ToldCounts
  <2>11. PICK sent, reports : /\ sent = BytesOf(told, Len(told))
                              /\ reports = ReportsOf(told, Len(told))
    OBVIOUS
  <2>14. sent = ReportedIn(told) /\ reports = Reporting(told)
    BY <2>11, Zenon DEF BytesOf, ReportsOf, ReportedIn, Reporting
  <2>7. sent \in Seq(Int) /\ reports \in Seq(Items) /\ Hears(body \o sent, Clear(said \o reports))
    BY <1>0, <1>1, <2>13, <2>11, HearsReports
  <2>8. said' = said \o reports /\ outgoing' = outgoing \o sent
    BY <2>1, <2>6, <2>14
  <2>9. said' \in Seq(Items)
    BY <1>1, <2>7, <2>8, JoinTyped
  <2>10. Hears(body \o sent, Clear(said'))
    BY <2>7, <2>8
  <2> QED
    BY <1>0, <1>1, <2>7, <2>8, <2>9, <2>10, SaysMore
<1>3. CASE SendToClient
  <2>1. PICK b \in Data : said' = Append(said, Byte("data", b)) /\ outgoing' = outgoing \o Escaped(<<b>>)
    BY <1>3 DEF SendToClient
  <2>2. b \in Int
    BY <1>1, SettingIs
  <2>3. PICK sent : sent = Escaped(<<b>>)
    OBVIOUS
  <2>4. sent \in Seq(Int)
    BY <2>2, <2>3, OneByte, DoubledTyped DEF Escaped
  <2>5. Hears(body \o sent, Clear(said'))
    BY <1>0, <2>1, <2>2, <2>3, HearsData
  <2>6. said' \in Seq(Items)
    BY <1>1, <2>1, <2>2, ItemsAre, AppendProperties
  <2> QED
    BY <1>0, <1>1, <2>1, <2>3, <2>4, <2>5, <2>6, SaysMore
<1>4. CASE Poll
  <2>1. PICK on : said' = Append(said, Report(on)) /\ outgoing' = outgoing \o ReportBytes(on)
    BY <1>4 DEF Poll
  <2>2. PICK sent : sent = ReportBytes(on)
    OBVIOUS
  <2>3. sent \in Seq(Int) /\ Hears(body \o sent, Clear(said'))
    BY <1>0, <1>1, <2>1, <2>2, HearsReport
  <2>4. said' \in Seq(Items)
    <3>1. Report(on) \in Items
      BY <1>1, ItemsAre
    <3> QED
      BY <1>1, <2>1, <3>1, AppendProperties
  <2> QED
    BY <1>0, <1>1, <2>1, <2>2, <2>3, <2>4, SaysMore
<1> QED
  BY <1>2, <1>3, <1>4 DEF FilterNext

LEMMA OInvUnderstands ==
  ASSUME OInv
  PROVE  OutputUnderstood
<1>1. PICK body \in Seq(Int) :
         outgoing = Greeting(server.protocol) \o body /\ Hears(body, Clear(said))
  BY DEF OInv
<1>2. PICK g : g = Greeting(server.protocol)
  OBVIOUS
<1>3. g \in Seq(Int)
  BY <1>2, GreetingTyped
<1>4. PICK j, k \in Nat : j = Len(g) /\ k = Len(body)
  BY <1>3, LenProperties
<1>5. PICK w : w = g \o body
  OBVIOUS
<1>6. /\ w \in Seq(Int) /\ Len(w) = j + k
      /\ \A i \in 1 .. j + k : w[i] = IF i <= j THEN g[i] ELSE body[i - j]
  BY <1>3, <1>4, <1>5, ConcatProperties
<1>7. PICK x : x = SubSeq(w, j + 1, j + k)
  OBVIOUS
<1>8. x \in Seq(Int) /\ Len(x) = k /\ \A i \in 1 .. k : x[i] = w[j + i]
  <2>1. \A i \in j + 1 .. j + k : w[i] \in Int
    BY <1>4, <1>6, ElementOfSeq
  <2> QED
    BY <1>4, <1>7, <2>1
<1>9. ASSUME NEW i \in 1 .. k
      PROVE  x[i] = body[i]
  <2>1. j + i \in 1 .. j + k /\ ~(j + i <= j) /\ (j + i) - j = i
    BY <1>4
  <2> QED
    BY <1>6, <1>8, <2>1
<1>10. x = body
  BY <1>4, <1>8, <1>9, SeqEqual
<1>11. Understand(body) = said
  <2>1. PICK c : c = Clear(said)
    OBVIOUS
  <2>2. Understand(body) = c.items
    BY <1>1, <2>1, HearsIs
  <2> QED
    BY <2>1, <2>2 DEF Clear
<1>12. SubSeq(outgoing, Len(Greeting(server.protocol)) + 1, Len(outgoing)) = body
  BY <1>1, <1>2, <1>4, <1>5, <1>6, <1>7, <1>10
<1> QED
  BY <1>11, <1>12, Zenon DEF OutputUnderstood

\* Behind the greeting a client can tell data from reports, whatever the device
\* says, and a report tells the configured lines only: what it understands is
\* what it was sent (send, send_signal_report).
THEOREM OutputIsUnderstood == FilterSpec => []OutputUnderstood
<1>1. FilterInit => OInv
  BY OInvStarts
<1>2. FInv /\ OInv /\ [FilterNext]_filterVars => OInv'
  <2>1. ASSUME OInv, UNCHANGED filterVars
        PROVE  OInv'
    <3>1. server' = server /\ said' = said /\ outgoing' = outgoing
      BY <2>1 DEF filterVars
    <3> QED
      BY <2>1, <3>1 DEF OInv, Items, Byte
  <2> QED
    BY <2>1, OInvKept
<1> QED
  BY <1>1, <1>2, FInvHolds, OInvUnderstands, PTL DEF FilterSpec
=============================================================================
