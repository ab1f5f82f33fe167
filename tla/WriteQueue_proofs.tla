-------------------------- MODULE WriteQueue_proofs --------------------------
(***************************************************************************)
(* What the write queue promises for any number of clients and servers and *)
(* any marks. One inductive invariant carries the marks, the write         *)
(* interest and the read interest; a second one, on top of it, carries the *)
(* bound that keeps the port from dropping data.                           *)
(***************************************************************************)
EXTENDS WriteQueue, FiniteSetTheorems, TLAPS

USE WriteQueueAssumption DEF WriteQueueAssumption

\* The write interest, as far as the selector lets it.
Interested == WatchFails \/ ArmedWhileQueued

\* The invariants that only hold together: who is held back depends on what the
\* servers were told, that on the marks, and those on the type of the queue.
Safety ==
  /\ Flags
  /\ Places
  /\ WaterMarks
  /\ Interested
  /\ FeedersHeldBack
  /\ OnlyBehindHoldsBack

\* Nothing of the queue has been written yet.
LEMMA SafetyInit == Init => Safety
<1> SUFFICES ASSUME Init PROVE Safety
  OBVIOUS
<1>1. Flags
  BY DEF Init, Flags
<1>2. Places
  BY DEF Init, Places
<1>3. WaterMarks
  BY DEF Init, WaterMarks
<1>4. Interested
  BY DEF Init, Interested, ArmedWhileQueued
<1>5. FeedersHeldBack
  BY DEF Init, FeedersHeldBack, Feeding, Here
<1>6. OnlyBehindHoldsBack
  BY DEF Init, OnlyBehindHoldsBack
<1> QED
  BY <1>1, <1>2, <1>3, <1>4, <1>5, <1>6 DEF Safety

\* The loop's own variables, whatever a step does with them.
LoopTyped ==
  /\ loop \in {"select", "events"}
  /\ batch \subseteq Clients \cup {Serial}
  /\ current \in Clients \cup {Nobody}
  /\ budget \in 0..Chunk

\* The state of a port whose device is closed.
Closed ==
  /\ device = FALSE /\ backlog = 0 /\ overdue = FALSE /\ armed = FALSE
  /\ paused = FALSE
  /\ told = [s \in Servers |-> FALSE]

\* A device that is closed, by failing or for want of holders, leaves no server
\* holding anybody back.
LEMMA CloseDeviceLetsGo == Safety /\ CloseDevice => Closed'
  BY DEF Safety, Places, OnlyBehindHoldsBack, CloseDevice, Closed

\* A step that closes the port is safe, whoever it leaves connected.
LEMMA ClosingIsSafe ==
  ASSUME Closed', watched' \in BOOLEAN,
         home' \in [Clients -> Servers \cup {Nobody}],
         attached' \subseteq Clients, held' \subseteq Clients, LoopTyped'
  PROVE  Safety'
<1>1. Flags'
  BY DEF Closed, Flags
<1>2. Places'
  BY DEF Closed, Places, LoopTyped
<1>3. WaterMarks'
  BY DEF Closed, WaterMarks
<1>4. Interested'
  BY DEF Closed, Interested, ArmedWhileQueued
<1>5. FeedersHeldBack'
  BY DEF Closed, FeedersHeldBack, Feeding, Here, Ws
<1>6. OnlyBehindHoldsBack'
  BY DEF Closed, OnlyBehindHoldsBack
<1> QED
  BY <1>1, <1>2, <1>3, <1>4, <1>5, <1>6 DEF Safety

\* A step that leaves the queue and what the servers know as they are, and does
\* not close the device, is safe if whoever feeds the port is still held back.
LEMMA QueueUntouchedIsSafe ==
  ASSUME Safety, UNCHANGED <<watched, backlog, overdue, armed, paused, told>>,
         device' \in {device, TRUE},
         home' \in [Clients -> Servers \cup {Nobody}],
         attached' \subseteq Clients, held' \subseteq Clients, LoopTyped',
         FeedersHeldBack'
  PROVE  Safety'
<1>1. Flags'
  BY DEF Safety, Flags
<1>2. Places'
  BY DEF Safety, Places, LoopTyped
<1>3. WaterMarks'
  BY DEF Safety, Flags, WaterMarks
<1>4. Interested'
  BY DEF Safety, Interested, ArmedWhileQueued
<1>5. OnlyBehindHoldsBack'
  BY DEF Safety, OnlyBehindHoldsBack
<1> QED
  BY <1>1, <1>2, <1>3, <1>4, <1>5 DEF Safety

-----------------------------------------------------------------------------
(* The parts the actions share *)

LEMMA FailKeepsSafety ==
  ASSUME Safety, NEW rest, Fail(rest), LoopTyped'
  PROVE  Safety'
<1>1. Closed'
  BY CloseDeviceLetsGo DEF Fail
<1>2. watched' \in BOOLEAN
  BY DEF Fail, Safety, Flags
<1>3. /\ home' \in [Clients -> Servers \cup {Nobody}]
      /\ attached' \subseteq Clients /\ held' \subseteq Clients
  BY DEF Fail, Safety, Places
<1> QED
  BY <1>1, <1>2, <1>3, ClosingIsSafe

LEMMA LetGoKeepsSafety ==
  ASSUME Safety, NEW leaving, NEW gone, gone \subseteq leaving,
         LetGo(leaving, gone), LoopTyped'
  PROVE  Safety'
<1>1. /\ watched' \in BOOLEAN
      /\ home' \in [Clients -> Servers \cup {Nobody}]
      /\ attached' \subseteq Clients /\ held' \subseteq Clients
  <2>1. watched' \in BOOLEAN
    BY DEF LetGo, Safety, Flags
  <2> QED
    BY <2>1 DEF LetGo, Safety, Places
<1>2. CASE device /\ Feeding \subseteq leaving
  <2>1. Closed'
    BY <1>2, CloseDeviceLetsGo DEF LetGo
  <2> QED
    BY <1>1, <2>1, ClosingIsSafe
<1>3. CASE ~(device /\ Feeding \subseteq leaving)
  <2>1. UNCHANGED <<watched, device, backlog, overdue, armed, paused, told>>
    BY <1>3 DEF LetGo
  <2>2. FeedersHeldBack'
    BY <1>3, <2>1
    DEF LetGo, Safety, Places, FeedersHeldBack, Feeding, Here, Ws
  <2> QED
    BY <1>1, <2>1, <2>2, QueueUntouchedIsSafe
<1> QED
  BY <1>2, <1>3

\* The marks are kept, and crossing one tells everybody it should.
LEMMA SettleKeepsSafety ==
  ASSUME Safety, NEW b \in 0..Limit, device \/ b = 0, Settle(b),
         overdue' \in BOOLEAN, LoopTyped'
  PROVE  Safety'
<1>1. /\ backlog' = b /\ armed' \in {b > 0} \cup (IF WatchFails THEN {armed} ELSE {})
      /\ paused' = (IF paused THEN b > LowWater ELSE b > HighWater)
      /\ UNCHANGED <<watched, device, home, attached>>
  BY Zenon DEF Settle, Interest, Behind, clientVars
<1>2. Flags'
  <2>1. armed' \in BOOLEAN
    <3>1. armed \in BOOLEAN /\ (b > 0) \in BOOLEAN
      BY DEF Safety, Flags
    <3> QED
      BY <1>1, <3>1, Zenon
  <2>2. paused' \in BOOLEAN
    <3>1. CASE paused
      BY <1>1, <3>1
    <3>2. CASE ~paused
      BY <1>1, <3>2
    <3> QED
      BY <3>1, <3>2
  <2> QED
    BY <1>1, <2>1, <2>2 DEF Safety, Flags
<1>3. WaterMarks'
  <2>1. /\ paused' => backlog' > LowWater
        /\ ~paused' => backlog' <= HighWater
    <3>1. CASE paused
      <4>1. paused' <=> b > LowWater
        BY <1>1, <3>1
      <4> QED
        BY <1>1, <4>1
    <3>2. CASE ~paused
      <4>1. paused' <=> b > HighWater
        BY <1>1, <3>2
      <4> QED
        BY <1>1, <4>1
    <3> QED
      BY <3>1, <3>2
  <2>2. ~device' => backlog' = 0 /\ ~paused'
    <3> SUFFICES ASSUME ~device' PROVE backlog' = 0 /\ ~paused'
      OBVIOUS
    <3>1. b = 0
      BY <1>1
    <3>2. ~(b > LowWater) /\ ~(b > HighWater)
      BY <3>1
    <3> QED
      BY <1>1, <3>1, <3>2
  <2> QED
    BY <2>1, <2>2 DEF WaterMarks
<1>4. Interested'
  BY <1>1 DEF Interested, ArmedWhileQueued
<1>5. CASE paused' # paused
  <2>1. /\ told' = [s \in Servers |-> paused']
        /\ held' = IF paused'
                     THEN held \cup {c \in Feeding : Ws(c) => told[home[c]] # paused'}
                     ELSE held \ {c \in Feeding : Ws(c) => told[home[c]] # paused'}
    BY <1>5 DEF Settle, Tell
  <2>2. Places'
    <3>1. told' \in [Servers -> BOOLEAN]
      BY <1>2, <2>1 DEF Flags
    <3>2. held' \subseteq Clients
      BY <2>1 DEF Safety, Places, Feeding, Here
    <3> QED
      BY <1>1, <3>1, <3>2 DEF Safety, Places, LoopTyped
  <2>3. OnlyBehindHoldsBack'
    BY <2>1 DEF OnlyBehindHoldsBack
  <2>4. FeedersHeldBack'
    <3> SUFFICES ASSUME NEW c \in Feeding', told'[home'[c]]
                 PROVE  c \in held'
      BY DEF FeedersHeldBack
    <3>1. c \in Feeding /\ home'[c] = home[c] /\ home[c] \in Servers
      BY <1>1 DEF Safety, Places, Feeding, Here, Ws
    <3>2. paused'
      BY <2>1, <3>1
    <3>3. CASE Ws(c) => told[home[c]] # paused'
      BY <2>1, <3>1, <3>2, <3>3
    <3>4. CASE Ws(c) /\ told[home[c]] = paused'
      <4>1. c \in held
        BY <3>1, <3>2, <3>4 DEF Safety, FeedersHeldBack
      <4> QED
        BY <2>1, <3>2, <4>1
    <3> QED
      BY <3>3, <3>4
  <2> QED
    BY <1>2, <1>3, <1>4, <2>2, <2>3, <2>4 DEF Safety
<1>6. CASE paused' = paused
  <2>1. UNCHANGED <<told, held>>
    BY <1>6 DEF Settle
  <2>2. Places'
    BY <1>1, <2>1 DEF Safety, Places, LoopTyped
  <2>3. OnlyBehindHoldsBack'
    BY <1>6, <2>1 DEF Safety, OnlyBehindHoldsBack
  <2>4. FeedersHeldBack'
    BY <1>1, <2>1 DEF Safety, FeedersHeldBack, Feeding, Here, Ws
  <2> QED
    BY <1>2, <1>3, <1>4, <2>2, <2>3, <2>4 DEF Safety
<1> QED
  BY <1>5, <1>6

LEMMA FlushKeepsSafety ==
  ASSUME Safety, NEW b \in 0..Limit, device \/ b = 0, NEW late, NEW rest,
         Flush(b, late, rest), LoopTyped'
  PROVE  Safety'
<1>1. CASE Fail(rest)
  BY <1>1, FailKeepsSafety
<1>2. ASSUME NEW sent \in 1..b, overdue' = FALSE, Settle(b - sent)
      PROVE  Safety'
  <2>1. b - sent \in 0..Limit /\ (device \/ b - sent = 0)
    OBVIOUS
  <2> QED
    BY <1>2, <2>1, SettleKeepsSafety
<1>3. CASE overdue' = FALSE /\ Settle(b)
  BY <1>3, SettleKeepsSafety
<1> QED
  BY <1>1, <1>2, <1>3 DEF Flush


\* Whatever becomes of the queue, no event is added to the pass.
LEMMA FlushTakesEvents ==
  ASSUME NEW b, NEW late, NEW rest, Flush(b, late, rest)
  PROVE  batch' \subseteq rest
BY DEF Flush, Fail

-----------------------------------------------------------------------------
(* The actions *)

LEMMA WriteKeepsSafety ==
  ASSUME Safety, NEW c \in Clients, NEW n \in 1..Chunk, Write(c, n)
  PROVE  Safety'
<1>1. budget \in 0..Chunk /\ budget' \in 0..Chunk
  BY DEF Write, Safety, Places
<1>2. CASE ~device \/ Kept(n) = 0
  <2>1. /\ UNCHANGED <<watched, device, backlog, overdue, armed, paused, told,
                       held, home, attached, batch, loop, current>>
    BY <1>2 DEF Write, Send, queueVars, clientVars
  <2>2. LoopTyped'
    BY <1>1, <2>1 DEF LoopTyped, Safety, Places
  <2>3. FeedersHeldBack'
    BY <2>1 DEF Safety, FeedersHeldBack, Feeding, Here, Ws
  <2> QED
    BY <2>1, <2>2, <2>3, QueueUntouchedIsSafe DEF Safety, Places
<1>3. CASE device /\ Kept(n) # 0
  <2>1. backlog + Kept(n) \in 0..Limit
    BY DEF Kept, Safety, Places
  <2>2. Flush(backlog + Kept(n), overdue /\ backlog > 0, batch)
    BY <1>3 DEF Write, Send
  <2>3. LoopTyped'
    BY <1>1, <2>2, FlushTakesEvents DEF LoopTyped, Write, Safety, Places
  <2> QED
    BY <1>3, <2>1, <2>2, <2>3, FlushKeepsSafety
<1> QED
  BY <1>2, <1>3

\* The current client lets go of the device, or leaves.
LEMMA DetachKeepsSafety ==
  ASSUME Safety, NEW c \in Clients, Detach(c) \/ Leave(c)
  PROVE  Safety'
<1>1. PICK gone \in SUBSET {c} : LetGo({c}, gone)
  BY DEF Detach, Leave
<1>2. batch' \subseteq batch
  BY <1>1 DEF LetGo
<1>3. LoopTyped'
  BY <1>2 DEF LoopTyped, Detach, Leave, Safety, Places
<1> QED
  BY <1>1, <1>3, LetGoKeepsSafety

LEMMA AttachKeepsSafety ==
  ASSUME Safety, NEW c \in Clients, Attach(c)
  PROVE  Safety'
<1>1. LoopTyped'
  BY DEF LoopTyped, Attach, Safety, Places
<1>2. home[c] \in Servers /\ held' = (IF told[home[c]] THEN held \cup {c} ELSE held)
  BY DEF Attach, HeldWith, Here, Safety, Places
<1>3. FeedersHeldBack'
  BY <1>2 DEF Attach, Safety, Places, FeedersHeldBack, Feeding, Here, Ws
<1>4. attached' \subseteq Clients /\ held' \subseteq Clients
  BY <1>2 DEF Attach, Safety, Places
<1> QED
  BY <1>1, <1>3, <1>4, QueueUntouchedIsSafe DEF Attach, Safety, Places

LEMMA JoinKeepsSafety ==
  ASSUME Safety, NEW s \in Servers, NEW c \in Clients, Join(s, c)
  PROVE  Safety'
<1>1. LoopTyped'
  BY DEF LoopTyped, Join, loopVars, Safety, Places
<1>2. held' = (IF told[s] THEN held \cup {c} ELSE held)
  BY DEF Join, HeldWith
<1>3. FeedersHeldBack'
  BY <1>2 DEF Join, Safety, Places, FeedersHeldBack, Feeding, Here, Ws
<1>4. attached' \subseteq Clients /\ held' \subseteq Clients
  BY <1>2 DEF Join, Safety, Places
<1>5. home' \in [Clients -> Servers \cup {Nobody}]
  BY DEF Join, Safety, Places
<1> QED
  BY <1>1, <1>3, <1>4, <1>5, QueueUntouchedIsSafe DEF Join


LEMMA RebuildKeepsSafety ==
  ASSUME Safety, NEW s \in Servers, Rebuild(s)
  PROVE  Safety'
<1> DEFINE clients == {c \in Here : home[c] = s}
<1>1. /\ home' = [c \in Clients |-> IF c \in clients THEN Nobody ELSE home[c]]
      /\ attached' = attached \ clients
      /\ held' = held \ clients
      /\ UNCHANGED <<watched, loop, current, budget>>
      /\ batch' \subseteq batch
  BY DEF Rebuild
<1>2. /\ watched' \in BOOLEAN
      /\ home' \in [Clients -> Servers \cup {Nobody}]
      /\ attached' \subseteq Clients /\ held' \subseteq Clients
  <2>1. watched' \in BOOLEAN
    BY <1>1 DEF Safety, Flags
  <2> QED
    BY <1>1, <2>1 DEF Safety, Places
<1>3. LoopTyped'
  BY <1>1 DEF LoopTyped, Safety, Places
<1>4. CASE device /\ Feeding \subseteq clients
  <2>1. told' = [x \in Servers |-> x # s /\ ~paused /\ told[x]]
    BY <1>4 DEF Rebuild
  <2>2. \A x \in Servers : ~(~paused /\ told[x])
    BY DEF Safety, OnlyBehindHoldsBack
  <2>3. told' = [x \in Servers |-> FALSE]
    BY <2>1, <2>2
  <2>4. Closed'
    BY <1>4, <2>3 DEF Rebuild, Closed
  <2> QED
    BY <1>2, <1>3, <2>4, ClosingIsSafe
<1>5. CASE ~(device /\ Feeding \subseteq clients)
  <2>1. /\ told' = [told EXCEPT ![s] = FALSE]
        /\ UNCHANGED <<watched, device, backlog, overdue, armed, paused>>
    BY <1>5 DEF Rebuild
  <2>2. Flags'
    BY <2>1 DEF Safety, Flags
  <2>3. Places'
    <3>1. told' \in [Servers -> BOOLEAN]
      BY <2>1 DEF Safety, Places
    <3> QED
      BY <1>2, <1>3, <2>1, <3>1 DEF Safety, Places, LoopTyped
  <2>4. WaterMarks' /\ Interested'
    BY <2>1 DEF Safety, WaterMarks, Interested, ArmedWhileQueued
  <2>5. OnlyBehindHoldsBack'
    BY <2>1 DEF Safety, Places, OnlyBehindHoldsBack
  <2>6. FeedersHeldBack'
    <3> SUFFICES ASSUME NEW c \in Feeding', told'[home'[c]]
                 PROVE  c \in held'
      BY DEF FeedersHeldBack
    <3>1. c \notin clients /\ home'[c] = home[c] /\ home[c] \in Servers
      BY <1>1 DEF Safety, Places, Feeding, Here
    <3>2. c \in Feeding /\ told[home[c]]
      BY <1>1, <2>1, <3>1 DEF Safety, Places, Feeding, Here, Ws
    <3> QED
      BY <1>1, <3>1, <3>2 DEF Safety, FeedersHeldBack
  <2> QED
    BY <2>2, <2>3, <2>4, <2>5, <2>6 DEF Safety
<1> QED
  BY <1>4, <1>5

\* The steps of the loop itself, and time: nothing is queued, nobody moves.
LEMMA LoopKeepsSafety ==
  ASSUME Safety,
         \/ Select \/ Served \/ TimePasses
         \/ \E c \in Clients : Serve(c)
  PROVE  Safety'
<1>1. CASE TimePasses
  <2>1. /\ UNCHANGED <<watched, device, backlog, armed, paused, told, held, home,
                       attached, loop, batch, current, budget>>
        /\ overdue' = TRUE
    BY <1>1 DEF TimePasses, clientVars, loopVars
  <2>2. Flags'
    BY <2>1 DEF Safety, Flags
  <2>3. Places'
    BY <2>1 DEF Safety, Places
  <2>4. WaterMarks' /\ Interested' /\ FeedersHeldBack' /\ OnlyBehindHoldsBack'
    BY <2>1 DEF Safety, WaterMarks, Interested, ArmedWhileQueued, FeedersHeldBack,
                OnlyBehindHoldsBack, Feeding, Here, Ws
  <2> QED
    BY <2>2, <2>3, <2>4 DEF Safety
<1>2. CASE Select \/ Served \/ \E c \in Clients : Serve(c)
  <2>1. /\ UNCHANGED <<watched, device, backlog, overdue, armed, paused, told,
                       held, home, attached>>
        /\ LoopTyped'
    <3>1. CASE Select
      BY <3>1 DEF Select, LoopTyped, queueVars, clientVars, Safety, Places, Here
    <3>2. CASE Served
      BY <3>2 DEF Served, LoopTyped, queueVars, clientVars, Safety, Places
    <3>3. ASSUME NEW c \in Clients, Serve(c)
          PROVE  /\ UNCHANGED <<watched, device, backlog, overdue, armed, paused,
                                 told, held, home, attached>>
                 /\ LoopTyped'
      BY <3>3 DEF Serve, LoopTyped, queueVars, clientVars, Safety, Places
    <3> QED
      BY <1>2, <3>1, <3>2, <3>3
  <2>2. FeedersHeldBack'
    BY <2>1 DEF Safety, FeedersHeldBack, Feeding, Here, Ws
  <2> QED
    BY <2>1, <2>2, QueueUntouchedIsSafe DEF Safety, Places
<1> QED
  BY <1>1, <1>2

LEMMA DeviceKeepsSafety ==
  ASSUME Safety, DeviceReady \/ DeviceLost
  PROVE  Safety'
<1>1. CASE DeviceReady
  <2>1. backlog \in 0..Limit /\ (device \/ backlog = 0)
    BY DEF Safety, Places, WaterMarks
  <2>2. CASE backlog = 0
    <3>1. UNCHANGED <<watched, device, backlog, overdue, armed, paused, told, held,
                      home, attached>> /\ LoopTyped'
      BY <1>1, <2>2 DEF DeviceReady, queueVars, clientVars, LoopTyped, Safety, Places
    <3>2. FeedersHeldBack'
      BY <3>1 DEF Safety, FeedersHeldBack, Feeding, Here, Ws
    <3> QED
      BY <3>1, <3>2, QueueUntouchedIsSafe DEF Safety, Places
  <2>3. CASE backlog # 0
    <3>1. Flush(backlog, overdue, batch \ {Serial})
      BY <1>1, <2>3 DEF DeviceReady
    <3>2. LoopTyped'
      BY <1>1, <3>1, FlushTakesEvents DEF DeviceReady, LoopTyped, Safety, Places
    <3> QED
      BY <2>1, <3>1, <3>2, FlushKeepsSafety
  <2> QED
    BY <2>2, <2>3
<1>2. CASE DeviceLost
  <2>1. LoopTyped'
    BY <1>2 DEF DeviceLost, Fail, LoopTyped, Safety, Places
  <2> QED
    BY <1>2, <2>1, FailKeepsSafety DEF DeviceLost
<1> QED
  BY <1>1, <1>2

LEMMA ProcessStaleKeepsSafety ==
  ASSUME Safety, ProcessStale
  PROVE  Safety'
<1>1. CASE device /\ backlog > 0 /\ Flush(backlog, overdue, {})
  <2>1. backlog \in 0..Limit /\ Flush(backlog, overdue, {})
    BY <1>1 DEF Safety, Places
  <2>2. LoopTyped'
    BY <2>1, FlushTakesEvents DEF ProcessStale, LoopTyped, Safety, Places
  <2> QED
    BY <1>1, <2>1, <2>2, FlushKeepsSafety
<1>2. CASE ~(device /\ backlog > 0 /\ Flush(backlog, overdue, {}))
  <2>1. /\ UNCHANGED <<watched, backlog, overdue, armed, paused, told, held,
                       home, attached, batch>>
        /\ device' \in {device, TRUE}
    BY <1>2 DEF ProcessStale, queueVars, clientVars
  <2>2. LoopTyped'
    BY <2>1 DEF ProcessStale, LoopTyped, Safety, Places
  <2>3. FeedersHeldBack'
    BY <2>1 DEF Safety, FeedersHeldBack, Feeding, Here, Ws
  <2> QED
    BY <2>1, <2>2, <2>3, QueueUntouchedIsSafe DEF Safety, Places
<1> QED
  BY <1>1, <1>2

\* Every step keeps the invariant.
LEMMA NextKeepsSafety == Safety /\ [Next]_vars => Safety'
<1> SUFFICES ASSUME Safety, [Next]_vars PROVE Safety'
  OBVIOUS
<1>1. CASE UNCHANGED vars
  <2>1. UNCHANGED <<watched, device, backlog, overdue, armed, paused, told, held,
                    home, attached, loop, batch, current, budget>>
    BY <1>1 DEF vars, queueVars, clientVars, loopVars
  <2>2. LoopTyped'
    BY <2>1 DEF LoopTyped, Safety, Places
  <2>3. FeedersHeldBack'
    BY <2>1 DEF Safety, FeedersHeldBack, Feeding, Here, Ws
  <2> QED
    BY <2>1, <2>2, <2>3, QueueUntouchedIsSafe DEF Safety, Places
<1>2. CASE Select \/ Served \/ TimePasses \/ \E c \in Clients : Serve(c)
  BY <1>2, LoopKeepsSafety
<1>3. CASE DeviceReady \/ DeviceLost
  BY <1>3, DeviceKeepsSafety
<1>4. CASE ProcessStale
  BY <1>4, ProcessStaleKeepsSafety
<1>5. CASE \E c \in Clients : Detach(c) \/ Leave(c)
  BY <1>5, DetachKeepsSafety
<1>6. CASE \E c \in Clients : Attach(c)
  BY <1>6, AttachKeepsSafety
<1>7. CASE \E c \in Clients : \E n \in 1..Chunk : Write(c, n)
  BY <1>7, WriteKeepsSafety
<1>8. CASE \E c \in Clients : \E s \in Servers : Join(s, c)
  BY <1>8, JoinKeepsSafety
<1>9. CASE \E s \in Servers : Rebuild(s)
  BY <1>9, RebuildKeepsSafety
<1> QED
  BY <1>1, <1>2, <1>3, <1>4, <1>5, <1>6, <1>7, <1>8, <1>9 DEF Next

LEMMA SafetyHolds == Spec => []Safety
  BY SafetyInit, NextKeepsSafety, PTL DEF Spec

-----------------------------------------------------------------------------
(* The theorems *)

\* The queue stays within WRITE_BUFFER_LIMIT, and everything else in its type
\* (SerialProxy.send() truncates what it is given).
THEOREM TypeCorrect == Spec => []TypeOK
<1>1. Safety => TypeOK
  BY DEF Safety, TypeOK
<1> QED
  BY <1>1, SafetyHolds, PTL

\* Reading stops above the high mark and resumes at the low one, and a closed
\* port holds nobody back (_update_backpressure(), _close_device()).
THEOREM MarksAreKept == Spec => []WaterMarks
<1>1. Safety => WaterMarks
  BY DEF Safety
<1> QED
  BY <1>1, SafetyHolds, PTL

\* The device is watched for writing exactly while something is queued
\* (_update_serial_interest()).
THEOREM ArmedExactlyWhileQueued ==
  ASSUME ~WatchFails
  PROVE  Spec => []ArmedWhileQueued
<1>1. Safety => ArmedWhileQueued
  BY DEF Safety, Interested
<1> QED
  BY <1>1, SafetyHolds, PTL

\* Whoever feeds a port that is behind is not read, however it came to feed it
\* (set_read_paused(), _add_connection(), attach(), detach()).
THEOREM FeedersAreHeldBack == Spec => []FeedersHeldBack
<1>1. Safety => FeedersHeldBack
  BY DEF Safety
<1> QED
  BY <1>1, SafetyHolds, PTL

\* No server holds its clients back for a port that is not behind, also when
\* the device was closed with something queued (_close_device()).
THEOREM OnlyTheBehindHoldBack == Spec => []OnlyBehindHoldsBack
<1>1. Safety => OnlyBehindHoldsBack
  BY DEF Safety
<1> QED
  BY <1>1, SafetyHolds, PTL

-----------------------------------------------------------------------------
(***************************************************************************)
(* The queue has room for what its clients may still say.                  *)
(*                                                                         *)
(* Above the high mark no client is read again, but the events of the pass *)
(* are already collected and each of them is one more recv(). Counting     *)
(* those, and the clients that are not held back because they do not feed  *)
(* the port yet, bounds the queue by the high mark and one recv() of every *)
(* client.                                                                 *)
(***************************************************************************)

AllTold == \A s \in Servers : told[s] = paused

\* The clients that may be read once more.
Pending == {c \in Clients : c \in batch \/ (c \in Here /\ c \notin held)}

\* What the client being served has left to say, unless it is counted already.
Saying == IF current \in Pending THEN 0 ELSE budget

\* Where the loop is in its pass.
Turn ==
  /\ loop = "select" => batch = {} /\ current = Nobody
  /\ current = Nobody => budget = 0
  /\ current \in Clients => current \notin batch

\* While the port is behind and every server knows, what is queued and what may
\* still be said stay below the high mark and one recv() of every client.
Room ==
  paused /\ AllTold =>
    backlog + Saying + Chunk * Cardinality(Pending)
      <= HighWater + Chunk * Cardinality(Clients)

RoomSafety == Safety /\ Turn /\ Room

LEMMA RoomInit == Init => Turn /\ Room
  BY DEF Init, Turn, Room

-----------------------------------------------------------------------------
(* Counting *)

LEMMA Products ==
  /\ \A k, m \in Nat : k <= m => Chunk * k <= Chunk * m
  /\ \A m \in Nat : Chunk * m \in Nat
  /\ \A k, m \in Nat : k + 1 <= m => Chunk * k + Chunk <= Chunk * m
<1>1. \A m \in Nat : Chunk * m \in Nat
  OBVIOUS
<1>2. ASSUME NEW k \in Nat, NEW m \in Nat, k <= m
      PROVE  Chunk * k <= Chunk * m
  <2>1. PICK d \in Nat : m = k + d
    BY <1>2
  <2>2. Chunk * m = Chunk * k + Chunk * d
    BY <2>1
  <2>3. Chunk * k \in Nat /\ Chunk * d \in Nat
    BY <1>1
  <2> QED
    BY <2>2, <2>3
<1>3. ASSUME NEW k \in Nat, NEW m \in Nat, k + 1 <= m
      PROVE  Chunk * k + Chunk <= Chunk * m
  <2>1. Chunk * (k + 1) <= Chunk * m
    BY <1>2, <1>3
  <2>2. Chunk * (k + 1) = Chunk * k + Chunk
    OBVIOUS
  <2> QED
    BY <2>1, <2>2
<1> QED
  BY <1>1, <1>2, <1>3

LEMMA Sums ==
  ASSUME NEW a \in Nat, NEW b \in Nat, NEW c \in Nat, NEW d \in Nat,
         NEW q \in Nat, NEW r \in Nat, NEW h \in Nat, NEW n \in Nat,
         c + d <= a + b, r <= q, a + b + q <= h + n
  PROVE  c + d + r <= h + n
OBVIOUS

\* The clients that may be read count no more when there are fewer of them, and
\* leave room for one recv() when one of them is known not to be among them.
LEMMA Fewer ==
  ASSUME NEW S \in SUBSET Clients, NEW T \in SUBSET S
  PROVE  /\ Chunk * Cardinality(S) \in Nat
         /\ Chunk * Cardinality(T) \in Nat
         /\ Chunk * Cardinality(T) <= Chunk * Cardinality(S)
         /\ \A c \in S \ T :
              Chunk * Cardinality(T) + Chunk <= Chunk * Cardinality(S)
<1>1. IsFiniteSet(S) /\ IsFiniteSet(T) /\ Cardinality(T) <= Cardinality(S)
  BY FS_Subset
<1>2. Cardinality(S) \in Nat /\ Cardinality(T) \in Nat
  BY <1>1, FS_CardinalityType
<1>3. ASSUME NEW c \in S \ T
      PROVE  Cardinality(T) + 1 <= Cardinality(S)
  <2>1. T \in SUBSET (S \ {c}) /\ IsFiniteSet(S \ {c})
    BY <1>1, <1>3, FS_RemoveElement
  <2>2. Cardinality(T) <= Cardinality(S \ {c})
    BY <2>1, FS_Subset
  <2>3. Cardinality(S \ {c}) = Cardinality(S) - 1
    BY <1>1, <1>3, FS_RemoveElement
  <2> QED
    BY <1>2, <2>2, <2>3
<1> QED
  BY <1>1, <1>2, <1>3, Products


LEMMA Sizes ==
  ASSUME Safety
  PROVE  /\ backlog \in Nat /\ budget \in Nat /\ budget <= Chunk
         /\ Saying \in Nat /\ Saying <= budget
         /\ Pending \subseteq Clients
  BY DEF Safety, Places, Saying, Pending

\* Nobody new may be read, and no more is queued than had been counted.
LEMMA RoomKept ==
  ASSUME Safety, Safety', Room, paused, AllTold,
         Pending' \subseteq Pending, backlog' + Saying' <= backlog + Saying
  PROVE  Room'
<1>1. PICK b \in Nat, s \in Nat : b = backlog /\ s = Saying
  BY Sizes
<1>2. PICK b1 \in Nat, s1 \in Nat : b1 = backlog' /\ s1 = Saying'
  BY DEF Safety, Places, Saying
<1>3. PICK q \in Nat, q1 \in Nat :
        /\ q = Chunk * Cardinality(Pending)
        /\ q1 = Chunk * Cardinality(Pending')
        /\ q1 <= q
  BY Fewer, Sizes
<1>4. PICK n \in Nat : n = Chunk * Cardinality(Clients)
  BY Fewer
<1>5. b + s + q <= HighWater + n
  BY <1>1, <1>3, <1>4 DEF Room
<1>6. b1 + s1 <= b + s
  BY <1>1, <1>2
<1>7. b1 + s1 + q1 <= HighWater + n
  BY <1>3, <1>5, <1>6, Sums
<1> QED
  BY <1>2, <1>3, <1>4, <1>7 DEF Room

\* One client fewer may be read, and what it says takes the place it had.
LEMMA RoomTaken ==
  ASSUME Safety, Safety', Room, paused, AllTold,
         Pending' \subseteq Pending, NEW c \in Pending, c \notin Pending',
         backlog' <= backlog
  PROVE  Room'
<1>1. PICK b \in Nat, s \in Nat : b = backlog /\ s = Saying
  BY Sizes
<1>2. PICK b1 \in Nat, s1 \in Nat : b1 = backlog' /\ s1 = Saying' /\ s1 <= Chunk
  BY DEF Safety, Places, Saying
<1>3. PICK q \in Nat, q1 \in Nat :
        /\ q = Chunk * Cardinality(Pending)
        /\ q1 = Chunk * Cardinality(Pending')
        /\ q1 + Chunk <= q
  BY Fewer, Sizes
<1>4. PICK n \in Nat : n = Chunk * Cardinality(Clients)
  BY Fewer
<1>5. b + s + q <= HighWater + n
  BY <1>1, <1>3, <1>4 DEF Room
<1>6. b1 <= b
  BY <1>1, <1>2
<1>7. b1 + s1 + q1 <= HighWater + n
  BY <1>2, <1>3, <1>5, <1>6
<1> QED
  BY <1>2, <1>3, <1>4, <1>7 DEF Room

\* What a flush leaves behind when the port is behind after it.
LEMMA FlushOutcome ==
  ASSUME Safety, NEW b \in 0..Limit, NEW late, NEW rest, Flush(b, late, rest),
         paused'
  PROVE  /\ backlog' \in Nat /\ backlog' <= b
         /\ batch' = rest /\ UNCHANGED <<home, attached>>
         /\ paused => UNCHANGED <<told, held>>
         /\ ~paused => backlog' > HighWater /\ Feeding \subseteq held' /\ held \subseteq held'
<1>1. ~Fail(rest)
  BY DEF Fail, CloseDevice
<1>2. PICK left \in 0..b : Settle(left) /\ batch' = rest
  <2>1. ASSUME NEW sent \in 1..b, Settle(b - sent)
        PROVE  b - sent \in 0..b
    OBVIOUS
  <2> QED
    BY <1>1, <2>1 DEF Flush
<1>3. backlog' = left /\ UNCHANGED <<home, attached>>
  BY <1>2 DEF Settle, clientVars
<1>4. ASSUME paused
      PROVE  UNCHANGED <<told, held>>
  <2>1. paused' = paused
    BY <1>4 DEF Safety, Flags
  <2> QED
    BY <1>2, <2>1 DEF Settle
<1>5. ASSUME ~paused
      PROVE  backlog' > HighWater /\ Feeding \subseteq held' /\ held \subseteq held'
  <2>1. paused' = (left > HighWater)
    BY <1>2, <1>5 DEF Settle, Behind
  <2>2. held' = held \cup {c \in Feeding : Ws(c) => told[home[c]] # paused'}
    BY <1>2, <1>5 DEF Settle, Tell
  <2>3. ASSUME NEW c \in Feeding
        PROVE  Ws(c) => told[home[c]] # paused'
    BY <1>5 DEF Safety, Places, OnlyBehindHoldsBack, Feeding, Here
  <2> QED
    BY <1>3, <2>1, <2>2, <2>3
<1> QED
  BY <1>2, <1>3, <1>4, <1>5

-----------------------------------------------------------------------------
(* The actions *)

LEMMA NextKeepsTurn == Safety /\ Turn /\ [Next]_vars => Turn'
<1> SUFFICES ASSUME Safety, Turn, [Next]_vars PROVE Turn'
  OBVIOUS
<1> USE DEF Turn
<1>1. CASE UNCHANGED vars
  BY <1>1 DEF vars, loopVars
<1>2. CASE Select
  BY <1>2 DEF Select
<1>3. CASE Served
  BY <1>3 DEF Served
<1>4. CASE TimePasses
  BY <1>4 DEF TimePasses, loopVars
<1>5. ASSUME NEW c \in Clients, Serve(c)
      PROVE  Turn'
  BY <1>5 DEF Serve, Between
<1>6. CASE DeviceReady \/ DeviceLost
  <2>1. batch' \subseteq batch
    BY <1>6, FlushTakesEvents DEF DeviceReady, DeviceLost, Fail
  <2> QED
    BY <1>6, <2>1 DEF DeviceReady, DeviceLost, Between
<1>7. CASE ProcessStale
  <2>1. batch' = {}
    BY <1>7, FlushTakesEvents DEF ProcessStale, Between
  <2> QED
    BY <1>7, <2>1 DEF ProcessStale, Between
<1>8. ASSUME NEW c \in Clients, Detach(c) \/ Leave(c)
      PROVE  Turn'
  <2>1. batch' \subseteq batch
    BY <1>8 DEF Detach, Leave, LetGo
  <2> QED
    BY <1>8, <2>1 DEF Detach, Leave, Between
<1>9. ASSUME NEW c \in Clients, Attach(c)
      PROVE  Turn'
  BY <1>9 DEF Attach
<1>10. ASSUME NEW c \in Clients, NEW n \in 1..Chunk, Write(c, n)
       PROVE  Turn'
  <2>1. batch' \subseteq batch
    BY <1>10, FlushTakesEvents DEF Write, Send
  <2>2. current # Nobody
    BY <1>10 DEF Write
  <2> QED
    BY <1>10, <2>1, <2>2 DEF Write
<1>11. ASSUME NEW c \in Clients, NEW s \in Servers, Join(s, c)
       PROVE  Turn'
  BY <1>11 DEF Join, loopVars
<1>12. ASSUME NEW s \in Servers, Rebuild(s)
       PROVE  Turn'
  BY <1>12 DEF Rebuild, Between
<1> QED
  BY <1>1, <1>2, <1>3, <1>4, <1>5, <1>6, <1>7, <1>8, <1>9, <1>10, <1>11, <1>12
  DEF Next


\* A step that leaves the marks alone and lets nobody else speak.
LEMMA QuietStep ==
  ASSUME Safety, Safety', Room, paused', AllTold', UNCHANGED <<paused, told>>,
         Pending' \subseteq Pending, backlog' <= backlog, Saying' <= Saying
  PROVE  Room'
<1>1. paused /\ AllTold
  BY DEF AllTold
<1>2. backlog' + Saying' <= backlog + Saying
  <2>1. PICK b \in Nat, b1 \in Nat, s \in Nat, s1 \in Nat :
          b = backlog /\ b1 = backlog' /\ s = Saying /\ s1 = Saying'
    BY Sizes DEF Safety, Places, Saying
  <2>2. b1 <= b
    BY <2>1
  <2>3. s1 <= s
    BY <2>1
  <2>4. b1 + s1 <= b + s
    BY <2>2, <2>3
  <2> QED
    BY <2>1, <2>4
<1> QED
  BY <1>1, <1>2, RoomKept

\* Between two events nobody has anything left to say.
LEMMA NothingLeftToSay ==
  ASSUME Turn, current = Nobody
  PROVE  Saying = 0
BY DEF Turn, Saying, Pending

\* The steps of the loop, and time.
LEMMA LoopKeepsRoom ==
  ASSUME Safety, Turn, Room, Safety', Turn', paused', AllTold',
         \/ Select \/ Served \/ TimePasses \/ UNCHANGED vars
         \/ \E c \in Clients : Serve(c)
  PROVE  Room'
<1>1. UNCHANGED <<paused, told, backlog, home, held>>
  BY DEF Select, Served, TimePasses, Serve, vars, queueVars, clientVars, loopVars
<1>2. backlog' <= backlog
  BY <1>1 DEF Safety, Places
<1>3. CASE TimePasses \/ UNCHANGED vars
  <2>1. UNCHANGED <<batch, current, budget>>
    BY <1>3 DEF TimePasses, vars, loopVars
  <2>2. Pending' = Pending
    BY <1>1, <2>1 DEF Pending, Here
  <2>3. Saying' = Saying
    BY <2>1, <2>2 DEF Saying
  <2>4. Saying' <= Saying
    BY <2>3, Sizes
  <2> QED
    BY <1>1, <1>2, <2>2, <2>4, QuietStep
<1>4. CASE Select
  <2>1. Pending' \subseteq Pending
    BY <1>1, <1>4 DEF Select, Pending, Here
  <2>2. Saying = 0 /\ Saying' = 0
    BY <1>4, NothingLeftToSay DEF Select, Turn, Saying
  <2>3. Saying' <= Saying
    BY <2>2
  <2> QED
    BY <1>1, <1>2, <2>1, <2>3, QuietStep
<1>5. CASE Served
  <2>1. Pending' \subseteq Pending
    BY <1>1, <1>5 DEF Served, Pending, Here
  <2>2. Saying' = 0
    BY <1>5 DEF Served, Saying
  <2>3. Saying' <= Saying
    BY <2>2, Sizes
  <2> QED
    BY <1>1, <1>2, <2>1, <2>3, QuietStep
<1>6. ASSUME NEW c \in Clients, Serve(c)
      PROVE  Room'
  <2>1. Pending' \subseteq Pending /\ c \in Pending
    BY <1>1, <1>6 DEF Serve, Pending, Here
  <2>2. CASE c \in Pending'
    <3>1. Saying' = 0
      BY <1>6, <2>2 DEF Serve, Saying
    <3>2. Saying' <= Saying
      BY <3>1, Sizes
    <3> QED
      BY <1>1, <1>2, <2>1, <3>2, QuietStep
  <2>3. CASE c \notin Pending'
    <3>1. paused /\ AllTold
      BY <1>1 DEF AllTold
    <3> QED
      BY <1>2, <2>1, <2>3, <3>1, RoomTaken
  <2> QED
    BY <2>2, <2>3
<1> QED
  BY <1>3, <1>4, <1>5, <1>6

\* A flush between two events adds nothing.
LEMMA DeviceKeepsRoom ==
  ASSUME Safety, Turn, Room, Safety', Turn', paused', AllTold',
         DeviceReady \/ DeviceLost \/ ProcessStale
  PROVE  Room'
<1>1. ~DeviceLost
  BY DEF DeviceLost, Fail, CloseDevice
<1>2. current = Nobody /\ UNCHANGED <<current, budget>>
  BY <1>1 DEF DeviceReady, ProcessStale, Between
<1>3. Saying' <= Saying
  <2>1. Saying = 0 /\ Saying' = 0
    BY <1>2, NothingLeftToSay DEF Turn, Saying
  <2> QED
    BY <2>1
<1>4. ASSUME NEW rest, Flush(backlog, overdue, rest), rest \subseteq batch
      PROVE  Room'
  <2>1. backlog \in 0..Limit
    BY DEF Safety, Places
  <2>2. /\ backlog' \in Nat /\ backlog' <= backlog
        /\ batch' = rest /\ UNCHANGED home
        /\ paused => UNCHANGED <<told, held>>
        /\ ~paused => backlog' > HighWater
    BY <1>4, <2>1, FlushOutcome
  <2>3. paused
    BY <2>1, <2>2 DEF Safety, WaterMarks
  <2>4. Pending' \subseteq Pending
    BY <1>4, <2>2, <2>3 DEF Pending, Here
  <2>5. UNCHANGED <<paused, told>>
    BY <2>2, <2>3 DEF Safety, Flags
  <2> QED
    BY <1>3, <2>2, <2>4, <2>5, QuietStep
<1>5. CASE DeviceReady
  <2>1. CASE backlog = 0
    <3>1. UNCHANGED <<backlog, paused, told, held, home>> /\ batch' \subseteq batch
      BY <1>5, <2>1 DEF DeviceReady, queueVars, clientVars
    <3>2. Pending' \subseteq Pending /\ backlog' <= backlog
      BY <3>1 DEF Pending, Here, Safety, Places
    <3> QED
      BY <1>3, <3>1, <3>2, QuietStep
  <2>2. CASE backlog # 0
    <3>1. Flush(backlog, overdue, batch \ {Serial})
      BY <1>5, <2>2 DEF DeviceReady
    <3> QED
      BY <1>4, <3>1
  <2> QED
    BY <2>1, <2>2
<1>6. CASE ProcessStale /\ device /\ backlog > 0 /\ Flush(backlog, overdue, {})
  BY <1>4, <1>6 DEF ProcessStale
<1>7. CASE ProcessStale /\ ~(device /\ backlog > 0 /\ Flush(backlog, overdue, {}))
  <2>1. UNCHANGED <<backlog, paused, told, held, home, batch>>
    BY <1>7 DEF ProcessStale, queueVars, clientVars
  <2>2. Pending' \subseteq Pending /\ backlog' <= backlog
    BY <2>1 DEF Pending, Here, Safety, Places
  <2> QED
    BY <1>3, <2>1, <2>2, QuietStep
<1> QED
  BY <1>1, <1>5, <1>6, <1>7

\* Whoever leaves says no more; a server that is replaced does not know that
\* the port is behind.
LEMMA LeavingKeepsRoom ==
  ASSUME Safety, Turn, Room, Safety', Turn', paused', AllTold',
         \/ \E c \in Clients : Detach(c) \/ Leave(c)
         \/ \E s \in Servers : Rebuild(s)
  PROVE  Room'
<1>1. ASSUME NEW s \in Servers, Rebuild(s)
      PROVE  FALSE
  <2>1. told' = [told EXCEPT ![s] = FALSE]
    BY <1>1 DEF Rebuild
  <2>2. told'[s] = FALSE
    BY <2>1 DEF Safety, Places
  <2> QED
    BY <2>2 DEF AllTold
<1>2. ASSUME NEW c \in Clients, NEW gone \in SUBSET {c}, LetGo({c}, gone)
      PROVE  /\ UNCHANGED <<backlog, paused, told>>
             /\ Pending' \subseteq Pending
  <2>1. UNCHANGED <<backlog, paused, told>> /\ batch' = batch \ gone
    BY <1>2 DEF LetGo, CloseDevice
  <2> QED
    BY <1>2, <2>1 DEF LetGo, Pending, Here, Safety, Places
<1>3. ASSUME NEW c \in Clients, Leave(c)
      PROVE  Room'
  <2>1. /\ UNCHANGED <<backlog, paused, told, current>>
        /\ Pending' \subseteq Pending /\ current = Nobody
    BY <1>2, <1>3 DEF Leave, Between
  <2>2. Saying = 0 /\ Saying' = 0
    BY <2>1, NothingLeftToSay DEF Turn, Saying
  <2>3. Saying' <= Saying /\ backlog' <= backlog
    BY <2>1, <2>2 DEF Safety, Places
  <2> QED
    BY <2>1, <2>3, QuietStep
<1>4. ASSUME NEW c \in Clients, Detach(c)
      PROVE  Room'
  <2>1. /\ UNCHANGED <<backlog, paused, told, current>>
        /\ Pending' \subseteq Pending
    BY <1>2, <1>4 DEF Detach
  <2>2. UNCHANGED <<home, held, batch>>
    BY <1>4, <2>1 DEF Detach, LetGo, CloseDevice, Safety, Places
  <2>3. Pending' = Pending
    BY <2>2 DEF Pending, Here
  <2>4. budget \in Nat /\ budget' <= budget
    BY <1>4 DEF Detach, Safety, Places
  <2>5. CASE current \in Pending
    <3>1. Saying = 0 /\ Saying' = 0
      BY <2>1, <2>3, <2>5 DEF Saying
    <3>2. Saying' <= Saying /\ backlog' <= backlog
      BY <2>1, <3>1 DEF Safety, Places
    <3> QED
      BY <2>1, <3>2, QuietStep
  <2>6. CASE current \notin Pending
    <3>1. Saying = budget /\ Saying' = budget'
      BY <2>1, <2>3, <2>6 DEF Saying
    <3>2. Saying' <= Saying /\ backlog' <= backlog
      BY <2>1, <2>4, <3>1 DEF Safety, Places
    <3> QED
      BY <2>1, <3>2, QuietStep
  <2> QED
    BY <2>5, <2>6
<1> QED
  BY <1>1, <1>3, <1>4


\* Who arrives at a port that is behind is held back from the start.
LEMMA ArrivingKeepsRoom ==
  ASSUME Safety, Turn, Room, Safety', Turn', paused', AllTold', NEW c \in Clients,
         Attach(c) \/ \E s \in Servers : Join(s, c)
  PROVE  Room'
<1>1. /\ UNCHANGED <<paused, told, backlog, batch, current>>
      /\ paused /\ AllTold
  BY DEF Attach, Join, loopVars, AllTold
<1>2. backlog' <= backlog
  BY <1>1 DEF Safety, Places
<1>3. ASSUME NEW s \in Servers, Join(s, c)
      PROVE  Room'
  <2>1. held' = held \cup {c} /\ \A x \in Clients \ {c} : home'[x] = home[x]
    BY <1>1, <1>3 DEF Join, HeldWith, AllTold, Safety, Places
  <2>2. Pending' \subseteq Pending
    BY <1>1, <2>1 DEF Pending, Here
  <2>3. Saying = 0 /\ Saying' = 0
    BY <1>1, <1>3, NothingLeftToSay DEF Join, Between, Turn, Saying
  <2>4. Saying' <= Saying
    BY <2>3
  <2> QED
    BY <1>1, <1>2, <2>2, <2>4, QuietStep
<1>4. CASE Attach(c)
  <2>1. UNCHANGED home /\ held' = held \cup {c}
    BY <1>1, <1>4 DEF Attach, HeldWith, AllTold, Here, Safety, Places
  <2>2. c \notin batch /\ c = current
    BY <1>4 DEF Attach, Turn
  <2>3. Pending' \subseteq Pending /\ c \notin Pending'
    BY <1>1, <2>1, <2>2 DEF Pending, Here
  <2>4. CASE c \in Pending
    BY <1>1, <1>2, <2>3, <2>4, RoomTaken
  <2>5. CASE c \notin Pending
    <3>1. Saying = budget /\ Saying' = budget'
      BY <1>1, <2>2, <2>3, <2>5 DEF Saying
    <3>2. budget' <= budget
      BY <1>4 DEF Attach, Safety, Places
    <3>3. Saying' <= Saying
      BY <3>1, <3>2
    <3> QED
      BY <1>1, <1>2, <2>3, <3>3, QuietStep
  <2> QED
    BY <2>4, <2>5
<1> QED
  BY <1>3, <1>4

\* The client being served writes n bytes: they were counted. Or they are what
\* puts the port behind, and then it was not behind before.
LEMMA WriteKeepsRoom ==
  ASSUME Safety, Turn, Room, Safety', Turn', paused', AllTold',
         NEW c \in Clients, NEW n \in 1..Chunk, Write(c, n)
  PROVE  Room'
<1>1. /\ current = c /\ c \in Feeding /\ UNCHANGED current
      /\ c \notin batch /\ home[c] \in Servers
      /\ n \in Nat /\ budget \in Nat /\ budget <= Chunk
      /\ budget' = budget - n /\ budget' \in Nat
      /\ backlog \in Nat
  BY DEF Write, Turn, Feeding, Here, Safety, Places
<1>2. Saying' \in {0, budget - n}
  BY <1>1 DEF Saying
<1>3. CASE ~device \/ Kept(n) = 0
  <2>1. UNCHANGED <<paused, told, held, home, backlog, batch>>
    BY <1>3 DEF Write, Send, queueVars, clientVars
  <2>2. paused /\ told[home[c]]
    BY <1>1, <2>1 DEF AllTold
  <2>3. c \in held /\ c \notin Pending
    BY <1>1, <2>2 DEF Safety, FeedersHeldBack, Pending
  <2>4. Pending' \subseteq Pending
    BY <2>1 DEF Pending, Here
  <2>5. Saying = budget
    BY <1>1, <2>3 DEF Saying
  <2>6. Saying' <= Saying /\ backlog' <= backlog
    BY <1>1, <1>2, <2>1, <2>5
  <2> QED
    BY <2>1, <2>4, <2>6, QuietStep
<1>4. CASE device /\ Kept(n) # 0
  <2>1. /\ Kept(n) \in Nat /\ Kept(n) <= n
        /\ backlog + Kept(n) \in 0..Limit
    BY DEF Kept, Safety, Places
  <2>2. Flush(backlog + Kept(n), overdue /\ backlog > 0, batch)
    BY <1>4 DEF Write, Send
  <2>3. /\ backlog' \in Nat /\ backlog' <= backlog + Kept(n)
        /\ batch' = batch /\ UNCHANGED home
        /\ paused => UNCHANGED <<told, held>>
        /\ ~paused => Feeding \subseteq held'
    BY <2>1, <2>2, FlushOutcome
  <2>4. CASE paused
    <3>1. AllTold
      BY <2>3, <2>4 DEF AllTold, Safety, Flags
    <3>2. c \in held /\ c \notin Pending
      BY <1>1, <2>4, <3>1 DEF AllTold, Safety, FeedersHeldBack, Pending
    <3>3. Pending' \subseteq Pending
      BY <2>3, <2>4 DEF Pending, Here
    <3>4. Saying = budget
      BY <1>1, <3>2 DEF Saying
    <3>5. backlog' + Saying' <= backlog + Saying
      <4>1. PICK b \in Nat, b1 \in Nat, d \in Nat, s1 \in Nat, k \in Nat :
              /\ b = backlog /\ b1 = backlog' /\ d = budget /\ s1 = Saying'
              /\ k = Kept(n)
        BY <1>1, <1>2, <2>1, <2>3
      <4>2. b1 <= b + k /\ k <= n /\ s1 \in {0, d - n} /\ n <= d
        BY <1>1, <1>2, <2>1, <2>3, <4>1
      <4>3. b1 + s1 <= b + d
        BY <4>2
      <4> QED
        BY <3>4, <4>1, <4>3
    <3> QED
      BY <2>4, <3>1, <3>3, <3>5, RoomKept
  <2>5. CASE ~paused
    <3>1. c \notin Pending' /\ Pending' \subseteq Clients
      BY <1>1, <2>3, <2>5 DEF Pending
    <3>2. PICK q \in Nat, q1 \in Nat :
            /\ q = Chunk * Cardinality(Clients)
            /\ q1 = Chunk * Cardinality(Pending')
            /\ q1 + Chunk <= q
      BY <3>1, Fewer
    <3>3. PICK b \in Nat, b1 \in Nat, d \in Nat, s1 \in Nat, k \in Nat :
            /\ b = backlog /\ b1 = backlog' /\ d = budget /\ s1 = Saying'
            /\ k = Kept(n)
      BY <1>1, <1>2, <2>1, <2>3
    <3>4. /\ b <= HighWater
          /\ b1 <= b + k /\ k <= n /\ s1 \in {0, d - n} /\ n <= d /\ d <= Chunk
      BY <1>1, <1>2, <2>1, <2>3, <2>5, <3>3 DEF Safety, WaterMarks
    <3>5. b1 + s1 <= HighWater + Chunk
      BY <3>4
    <3>6. b1 + s1 + q1 <= HighWater + q
      BY <3>2, <3>5
    <3> QED
      BY <3>2, <3>3, <3>6 DEF Room
  <2> QED
    BY <2>4, <2>5
<1> QED
  BY <1>3, <1>4

-----------------------------------------------------------------------------

LEMMA NextKeepsRoom == RoomSafety /\ [Next]_vars => RoomSafety'
<1> SUFFICES ASSUME RoomSafety, [Next]_vars PROVE RoomSafety'
  OBVIOUS
<1>1. Safety /\ Turn /\ Room /\ Safety' /\ Turn'
  BY NextKeepsSafety, NextKeepsTurn DEF RoomSafety
<1>2. ASSUME paused', AllTold'
      PROVE  Room'
  <2>1. CASE \/ Select \/ Served \/ TimePasses \/ UNCHANGED vars
             \/ \E c \in Clients : Serve(c)
    BY <1>1, <1>2, <2>1, LoopKeepsRoom
  <2>2. CASE DeviceReady \/ DeviceLost \/ ProcessStale
    BY <1>1, <1>2, <2>2, DeviceKeepsRoom
  <2>3. CASE \/ \E c \in Clients : Detach(c) \/ Leave(c)
             \/ \E s \in Servers : Rebuild(s)
    BY <1>1, <1>2, <2>3, LeavingKeepsRoom
  <2>4. CASE \E c \in Clients : Attach(c) \/ \E s \in Servers : Join(s, c)
    BY <1>1, <1>2, <2>4, ArrivingKeepsRoom
  <2>5. CASE \E c \in Clients : \E n \in 1..Chunk : Write(c, n)
    BY <1>1, <1>2, <2>5, WriteKeepsRoom
  <2> QED
    BY <2>1, <2>2, <2>3, <2>4, <2>5 DEF Next
<1>3. Room'
  BY <1>2 DEF Room
<1> QED
  BY <1>1, <1>3 DEF RoomSafety

\* The bound is what the run checks: with a limit of at least the high mark and
\* one recv() of every client, nothing a client says is dropped.
LEMMA RoomIsEnough ==
  ASSUME HighWater + Chunk * Cardinality(Clients) <= Limit, RoomSafety, AllTold
  PROVE  backlog + budget <= Limit
<1>1. PICK b \in Nat, d \in Nat, s \in Nat :
        /\ b = backlog /\ d = budget /\ s = Saying
        /\ d <= Chunk
  BY Sizes DEF RoomSafety
<1>2. Pending \in SUBSET Clients /\ Clients \in SUBSET Clients /\ {} \in SUBSET Clients
  BY Sizes DEF RoomSafety
<1>3. PICK q \in Nat, n \in Nat :
        /\ q = Chunk * Cardinality(Pending) /\ n = Chunk * Cardinality(Clients)
        /\ \A c \in Pending : Chunk <= q
        /\ \A c \in Clients : Chunk <= n
  <2>1. Chunk * Cardinality({}) \in Nat
    BY <1>2, Fewer
  <2>2. \A c \in Pending : Chunk * Cardinality({}) + Chunk <= Chunk * Cardinality(Pending)
    BY <1>2, Fewer
  <2>3. \A c \in Clients : Chunk * Cardinality({}) + Chunk <= Chunk * Cardinality(Clients)
    BY <1>2, Fewer
  <2>4. PICK q \in Nat, n \in Nat, e \in Nat :
          /\ q = Chunk * Cardinality(Pending) /\ n = Chunk * Cardinality(Clients)
          /\ e = Chunk * Cardinality({})
    BY <1>2, <2>1, Fewer
  <2>5. /\ \A c \in Pending : e + Chunk <= q
        /\ \A c \in Clients : e + Chunk <= n
    BY <2>2, <2>3, <2>4
  <2> QED
    BY <2>4, <2>5
<1>4. CASE paused
  <2>1. b + s + q <= HighWater + n
    BY <1>1, <1>3, <1>4 DEF RoomSafety, Room
  <2>2. d <= s + q
    <3>1. CASE current \in Pending
      BY <1>1, <1>3, <3>1
    <3>2. CASE current \notin Pending
      BY <1>1, <3>2 DEF Saying
    <3> QED
      BY <3>1, <3>2
  <2>3. b + d <= HighWater + n
    BY <2>1, <2>2
  <2> QED
    BY <1>1, <1>3, <2>3
<1>5. CASE ~paused
  <2>1. b <= HighWater
    BY <1>1, <1>5 DEF RoomSafety, Safety, WaterMarks
  <2>2. d <= n
    <3>1. CASE current \in Clients
      BY <1>1, <1>3, <3>1
    <3>2. CASE current \notin Clients
      BY <1>1, <3>2 DEF RoomSafety, Turn, Safety, Places
    <3> QED
      BY <3>1, <3>2
  <2>3. b + d <= HighWater + n
    BY <2>1, <2>2
  <2> QED
    BY <1>1, <1>3, <2>3
<1> QED
  BY <1>4, <1>5


\* Nothing that reaches the queue is dropped (send(), the truncation at
\* WRITE_BUFFER_LIMIT) while every server knows the state of the port, if the
\* limit leaves room for one recv() of every client above the high mark.
THEOREM NothingIsDropped ==
  ASSUME HighWater + Chunk * Cardinality(Clients) <= Limit
  PROVE  Spec => []NothingDropped
<1>1. Init => RoomSafety
  BY SafetyInit, RoomInit DEF RoomSafety
<1>2. RoomSafety /\ [Next]_vars => RoomSafety'
  BY NextKeepsRoom
<1>3. RoomSafety => NothingDropped
  BY RoomIsEnough DEF NothingDropped, AllTold
<1> QED
  BY <1>1, <1>2, <1>3, PTL DEF Spec

=============================================================================
