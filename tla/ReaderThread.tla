---------------------------- MODULE ReaderThread ----------------------------
(***************************************************************************)
(* A port whose device has no descriptor that select() could watch. A      *)
(* thread reads it and forwards what it says over a socketpair, whose      *)
(* other end the loop watches; closing the device stops the thread first,  *)
(* and waits for it, but not for long.                                     *)
(*                                                                         *)
(* The threads and the sockets are numbered after the opening of the       *)
(* device they were made for. What a device says is numbered per opening.  *)
(***************************************************************************)
EXTENDS Integers, Sequences

CONSTANTS
    MaxOpens,   \* bound: how often the device is opened
    MaxSaid,    \* bound: how much a device says
    PairSize,   \* what fits into a socketpair
    Stuck,      \* whether a read may outlast READER_JOIN_TIMEOUT
    PairFails   \* whether socketpair() may fail

ASSUME ReaderThreadAssumption ==
    /\ MaxOpens \in Nat \ {0} /\ MaxSaid \in Nat \ {0} /\ PairSize \in Nat \ {0}
    /\ Stuck \in BOOLEAN /\ PairFails \in BOOLEAN

Opens == 1 .. MaxOpens

VARIABLES
    opens,      \* how often the device was opened
    serial,     \* the opening _serial stands for, 0 for None
    announced,  \* _announced_connected
    source,     \* the opening whose socket the loop watches, or 0
    reader,     \* _reader_thread, or 0
    running,    \* _reader_running
    joining,    \* whether the loop waits for the thread
    pc,         \* where each thread is
    on,         \* the opening each thread reads
    held,       \* what each thread has read and not sent
    pair,       \* what is in each socketpair
    listening,  \* the socketpairs whose reading end is open
    said,       \* how much each opened device has said
    taken,      \* how much of it has been read
    pulled,     \* whether the device was pulled out
    heard       \* what the clients were sent since the device was opened

loopVars == <<serial, announced, source, reader, running, joining, listening>>
deviceVars == <<opens, said, pulled>>
vars == <<loopVars, deviceVars, pc, on, held, pair, taken, heard>>

Live(t) == pc[t] \in {"test", "read", "send"}
Gone(d) == d # serial \/ pulled     \* closed, or pulled out: reading it raises

-----------------------------------------------------------------------------
(***************************************************************************)
(* The thread: _serial_reader_run()                                        *)
(***************************************************************************)
End(t) == pc' = [pc EXCEPT ![t] = "end"]    \* its own end of the pair is closed

\* The loop's test. A device that is gone already is an AttributeError, which
\* ends the thread as well.
Test(t) ==
    /\ pc[t] = "test"
    /\ IF running /\ serial # 0
         THEN pc' = [pc EXCEPT ![t] = "read"] /\ on' = [on EXCEPT ![t] = serial]
         ELSE End(t) /\ UNCHANGED on
    /\ UNCHANGED <<loopVars, deviceVars, held, pair, taken, heard>>

\* A read brings something, or nothing within its timeout or when it is
\* cancelled; from a device that is gone it raises, though a read that was
\* stuck when the device was closed may still come back with nothing.
Read(t) ==
    /\ pc[t] = "read"
    /\ \/ /\ ~Gone(on[t]) /\ taken[on[t]] < said[on[t]]
          /\ taken' = [taken EXCEPT ![on[t]] = @ + 1]
          /\ held' = [held EXCEPT ![t] = <<on[t], taken[on[t]] + 1>>]
          /\ pc' = [pc EXCEPT ![t] = "send"]
       \/ /\ IF Gone(on[t]) THEN Stuck ELSE taken[on[t]] = said[on[t]]
          /\ pc' = [pc EXCEPT ![t] = "test"]
          /\ UNCHANGED <<taken, held>>
       \/ /\ Gone(on[t]) /\ End(t)
          /\ UNCHANGED <<taken, held>>
    /\ UNCHANGED <<loopVars, deviceVars, on, pair, heard>>

\* (Mutant: what does not fit is left out.)
SendWhatFits(t) ==
    /\ pc[t] = "send"
    /\ IF t \in listening
         THEN /\ pair' = IF Len(pair[t]) < PairSize THEN [pair EXCEPT ![t] = Append(@, held[t])]
                        ELSE pair
              /\ pc' = [pc EXCEPT ![t] = "test"]
         ELSE End(t) /\ UNCHANGED pair
    /\ UNCHANGED <<loopVars, deviceVars, on, held, taken, heard>>

\* sendall() waits for room, and raises when nobody listens any more.
Send(t) ==
    /\ pc[t] = "send"
    /\ IF t \in listening
         THEN /\ Len(pair[t]) < PairSize
              /\ pair' = [pair EXCEPT ![t] = Append(@, held[t])]
              /\ pc' = [pc EXCEPT ![t] = "test"]
         ELSE End(t) /\ UNCHANGED pair
    /\ UNCHANGED <<loopVars, deviceVars, on, held, taken, heard>>

Thread(t) == Test(t) \/ Read(t) \/ Send(t)

-----------------------------------------------------------------------------
(***************************************************************************)
(* The loop                                                                *)
(***************************************************************************)
\* connect(). When there is no socketpair, it raises half-way.
Open ==
    /\ serial = 0 /\ ~joining /\ opens < MaxOpens
    /\ opens' = opens + 1 /\ serial' = opens + 1
    /\ pulled' = FALSE /\ heard' = <<>>
    /\ \/ /\ reader' = serial' /\ running' = TRUE
          /\ pc' = [pc EXCEPT ![serial'] = "test"]
          /\ listening' = listening \cup {serial'}
          /\ source' = serial' /\ announced' = TRUE
       \/ /\ PairFails
          /\ UNCHANGED <<reader, running, pc, listening, source, announced>>
    /\ UNCHANGED <<joining, said, on, held, pair, taken>>

\* (Mutant: the thread is not waited for at all.)
CloseAtOnce ==
    /\ serial # 0 /\ ~joining
    /\ announced' = FALSE /\ source' = 0 /\ serial' = 0
    /\ reader' = 0 /\ listening' = listening \ {reader}
    /\ UNCHANGED <<running, joining, deviceVars, pc, on, held, pair, taken, heard>>

\* _close_device(), until it waits; without a thread it does not.
Close ==
    /\ serial # 0 /\ ~joining
    /\ announced' = FALSE /\ source' = 0
    /\ IF reader # 0 THEN running' = FALSE /\ joining' = TRUE /\ UNCHANGED serial
       ELSE serial' = 0 /\ UNCHANGED <<running, joining>>
    /\ UNCHANGED <<reader, listening, deviceVars, pc, on, held, pair, taken, heard>>

\* A client or the administrator lets go of the device.
LetGo == Close

\* (Mutant: a closed pair is not news.)
ReceiveData ==
    /\ ~joining /\ source # 0
    /\ pair[source] # <<>>
    /\ heard' = Append(heard, Head(pair[source]))
    /\ pair' = [pair EXCEPT ![source] = Tail(@)]
    /\ UNCHANGED <<loopVars, deviceVars, pc, on, held, taken>>

\* _process_serial_data(): a closed pair means that the device is gone.
Receive ==
    /\ ~joining /\ source # 0
    /\ \/ /\ pair[source] # <<>>
          /\ heard' = Append(heard, Head(pair[source]))
          /\ pair' = [pair EXCEPT ![source] = Tail(@)]
          /\ UNCHANGED <<loopVars, deviceVars, pc, on, held, taken>>
       \/ /\ pair[source] = <<>> /\ pc[source] = "end"
          /\ Close

\* join() returns when the thread has ended, or gives up: on one that waits
\* for room in a pair that nobody empties now, and on a read that is stuck.
Joined ==
    LET t == reader IN
    /\ joining
    /\ \/ pc[t] = "end"
       \/ pc[t] = "send" /\ Len(pair[t]) = PairSize
       \/ Stuck /\ pc[t] = "read"
    /\ listening' = listening \ {t}
    /\ reader' = 0 /\ joining' = FALSE /\ serial' = 0
    /\ pair' = [pair EXCEPT ![t] = <<>>]
    /\ UNCHANGED <<announced, source, running, deviceVars, pc, on, held, taken, heard>>

-----------------------------------------------------------------------------
\* The device says something, or is pulled out.
Say ==
    /\ serial # 0 /\ ~pulled /\ said[serial] < MaxSaid
    /\ said' = [said EXCEPT ![serial] = @ + 1]
    /\ UNCHANGED <<loopVars, opens, pulled, pc, on, held, pair, taken, heard>>

Pull ==
    /\ serial # 0 /\ ~pulled
    /\ pulled' = TRUE
    /\ UNCHANGED <<loopVars, opens, said, pc, on, held, pair, taken, heard>>

Init ==
    /\ opens = 0 /\ serial = 0 /\ source = 0 /\ reader = 0
    /\ announced = FALSE /\ running = FALSE /\ joining = FALSE /\ pulled = FALSE
    /\ pc = [t \in Opens |-> "none"]
    /\ on = [t \in Opens |-> 0]
    /\ held = [t \in Opens |-> <<>>]
    /\ pair = [t \in Opens |-> <<>>]
    /\ listening = {}
    /\ said = [d \in Opens |-> 0] /\ taken = [d \in Opens |-> 0]
    /\ heard = <<>>

Next ==
    \/ Open \/ LetGo \/ Receive \/ Joined \/ Say \/ Pull
    \/ \E t \in Opens : Thread(t)

Spec == Init /\ [][Next]_vars

\* Threads run, and the loop comes back to what select() reports.
FairSpec ==
    /\ Spec
    /\ \A t \in Opens : WF_vars(Thread(t))
    /\ WF_vars(Receive) /\ WF_vars(Joined)

-----------------------------------------------------------------------------
TypeOK ==
    /\ opens \in 0 .. MaxOpens /\ serial \in 0 .. opens
    /\ source \in {0, serial} /\ reader \in {0, serial}
    /\ announced \in BOOLEAN /\ running \in BOOLEAN /\ joining \in BOOLEAN /\ pulled \in BOOLEAN
    /\ pc \in [Opens -> {"none", "test", "read", "send", "end"}]
    /\ on \in [Opens -> 0 .. MaxOpens]
    /\ listening \subseteq Opens
    /\ said \in [Opens -> 0 .. MaxSaid] /\ taken \in [Opens -> 0 .. MaxSaid]
    /\ \A t \in Opens : Len(pair[t]) <= PairSize /\ taken[t] <= said[t]

\* To those who listen, the thread, its socketpair and the loop are a link to
\* the device that is open: what they hear is what it said, in order, without a
\* gap, and nothing of what an earlier opening said (_serial_reader_run,
\* _process_serial_data).
Connected == serial # 0 /\ ~joining

L == INSTANCE Link WITH
       device <- IF Connected THEN serial ELSE 0,
       said <- IF Connected THEN [i \in 1 .. said[serial] |-> <<serial, i>>] ELSE <<>>,
       heard <- IF Connected THEN heard ELSE <<>>

IsLink == L!Spec

\* A thread reads no other device than the one it was started for, however
\* soon the port is opened again (_stop_reader_thread).
OwnDevice ==
    \A t \in Opens : pc[t] = "read" => on[t] = t

\* Stopping never has to wait for a thread that cannot get rid of what it
\* read: the timeout of join() is for reads alone (_stop_reader_thread).
JoinNotHeldUp ==
    joining => ~(pc[reader] = "send" /\ Len(pair[reader]) = PairSize)

\* An open device is known to be open, and watched (connect).
OpenIsWatched ==
    serial # 0 /\ ~joining => announced /\ source = serial

\* A device that was pulled out is closed, if it was ever watched
\* (_process_serial_data, _serial_failed).
LossNoticed ==
    \A d \in Opens : serial = d /\ announced /\ pulled ~> serial # d

\* What a device says is read and passed on, as long as it is there.
SaidIsHeard ==
    \A d \in Opens, n \in 1 .. MaxSaid :
        serial = d /\ announced /\ said[d] >= n ~> serial # d \/ pulled \/ joining \/ Len(heard) >= n

\* A thread does not outlive its device for good, nor its end of the pair.
ThreadsEnd ==
    \A t \in Opens : Live(t) /\ serial # t ~> pc[t] = "end"
=============================================================================
