------------------------- MODULE ReaderThread_proofs -------------------------
(***************************************************************************)
(* The reader thread is a link, however often the device is opened and     *)
(* however much it says, as long as no read outlasts the wait for its      *)
(* thread.                                                                 *)
(*                                                                         *)
(* One invariant carries it: of the threads that still read there is at    *)
(* most one, that of the open device, and what was heard, what is in its   *)
(* socketpair and what it holds are what it has read, one after the other. *)
(***************************************************************************)
EXTENDS ReaderThread, SequenceTheorems, TLAPS

USE ReaderThreadAssumption DEF ReaderThreadAssumption

Item == Nat \X Nat

\* The first n items of a device.
Upto(d, n) == [i \in 1 .. n |-> <<d, i>>]

LEMMA UptoSeq ==
  ASSUME NEW d \in Nat, NEW n \in Nat
  PROVE  Upto(d, n) \in Seq(Item) /\ Len(Upto(d, n)) = n
BY DEF Upto, Item

\* One more of them, at the end.
LEMMA UptoAppend ==
  ASSUME NEW d \in Nat, NEW n \in Nat
  PROVE  Append(Upto(d, n), <<d, n + 1>>) = Upto(d, n + 1)
<1> DEFINE s == Append(Upto(d, n), <<d, n + 1>>)
           t == Upto(d, n + 1)
<1>1. Upto(d, n) \in Seq(Item) /\ Len(Upto(d, n)) = n
  BY UptoSeq
<1>2. t \in Seq(Item) /\ Len(t) = n + 1
  BY UptoSeq
<1>3. <<d, n + 1>> \in Item
  BY DEF Item
<1>4. /\ s \in Seq(Item) /\ Len(s) = n + 1
      /\ \A i \in 1 .. n : s[i] = Upto(d, n)[i]
      /\ s[n + 1] = <<d, n + 1>>
  BY <1>1, <1>3, AppendProperties
<1>5. \A i \in 1 .. n + 1 : s[i] = t[i]
  BY <1>4 DEF Upto
<1> HIDE DEF s, t
<1>6. s = t
  BY <1>2, <1>4, <1>5, SeqEqual
<1> QED
  BY <1>6 DEF s, t

-----------------------------------------------------------------------------
(***************************************************************************)
(* The invariant                                                           *)
(***************************************************************************)
Flags ==
  /\ announced \in BOOLEAN /\ running \in BOOLEAN
  /\ joining \in BOOLEAN /\ pulled \in BOOLEAN

\* Only the open device has a thread, and only that thread's pair is open.
Shape ==
  /\ opens \in 0 .. MaxOpens /\ serial \in 0 .. opens
  /\ reader \in {0, serial} /\ source \in {0, reader}
  /\ listening = {reader} \ {0}
  /\ joining => reader # 0 /\ source = 0

Tables ==
  /\ pc \in [Opens -> {"none", "test", "read", "send", "end"}]
  /\ on \in [Opens -> 0 .. MaxOpens]
  /\ said \in [Opens -> 0 .. MaxSaid] /\ taken \in [Opens -> 0 .. MaxSaid]
  /\ pair \in [Opens -> Seq(Item)]
  /\ DOMAIN held = Opens /\ held = [t \in Opens |-> held[t]]
  /\ heard \in Seq(Item)
  /\ \A t \in Opens : Len(pair[t]) <= PairSize /\ taken[t] <= said[t]

\* Who still reads is the thread of the open device, and reads it; the threads
\* to come have done nothing.
Alone ==
  \A t \in Opens :
    /\ pc[t] \in {"test", "read"} => t = reader
    /\ pc[t] = "read" => on[t] = t
    /\ t > opens => pc[t] = "none" /\ said[t] = 0 /\ taken[t] = 0 /\ pair[t] = <<>>

\* What was heard, what is in the pair and what the thread holds is what it has
\* read.
Passed(d, out, queue, where, item, count) ==
  /\ out = Upto(d, Len(out))
  /\ \A i \in 1 .. Len(queue) : queue[i] = <<d, Len(out) + i>>
  /\ where = "send" => item = <<d, Len(out) + Len(queue) + 1>>
  /\ count = Len(out) + Len(queue) + (IF where = "send" THEN 1 ELSE 0)

Stream ==
  /\ reader # 0 => Passed(reader, heard, pair[reader], pc[reader], held[reader], taken[reader])
  /\ serial # 0 /\ reader = 0 => heard = <<>>

Inv == Flags /\ Shape /\ Tables /\ Alone /\ Stream

\* It reads one more,
LEMMA PassedRead ==
  ASSUME NEW d, NEW out \in Seq(Item), NEW queue \in Seq(Item), NEW item, NEW count,
         Passed(d, out, queue, "read", item, count)
  PROVE  Passed(d, out, queue, "send", <<d, count + 1>>, count + 1)
<1>1. Len(out) \in Nat /\ Len(queue) \in Nat
  BY LenProperties
<1>2. count = Len(out) + Len(queue)
  BY <1>1 DEF Passed
<1> QED
  BY <1>1, <1>2 DEF Passed

\* puts it into the pair,
LEMMA PassedSend ==
  ASSUME NEW d \in Nat, NEW out \in Seq(Item), NEW queue \in Seq(Item), NEW item, NEW count,
         Passed(d, out, queue, "send", item, count)
  PROVE  /\ Passed(d, out, Append(queue, item), "test", item, count)
         /\ Append(queue, item) \in Seq(Item)
         /\ Len(Append(queue, item)) = Len(queue) + 1
<1> DEFINE more == Append(queue, item)
<1>1. Len(out) \in Nat /\ Len(queue) \in Nat
  BY LenProperties
<1>2. item = <<d, Len(out) + (Len(queue) + 1)>> /\ item \in Item
  BY <1>1 DEF Passed, Item
<1>3. /\ more \in Seq(Item) /\ Len(more) = Len(queue) + 1
      /\ \A i \in 1 .. Len(queue) : more[i] = queue[i]
      /\ more[Len(queue) + 1] = item
  BY <1>2, AppendProperties
<1> HIDE DEF more
<1>4. ASSUME NEW i \in 1 .. Len(more) PROVE more[i] = <<d, Len(out) + i>>
  <2>1. CASE i = Len(queue) + 1
    BY <1>2, <1>3, <2>1
  <2>2. CASE i # Len(queue) + 1
    <3>1. i \in 1 .. Len(queue)
      BY <1>1, <1>3, <2>2
    <3> QED
      BY <1>3, <3>1 DEF Passed
  <2> QED
    BY <2>1, <2>2
<1>5. count = Len(out) + Len(more)
  BY <1>1, <1>3 DEF Passed
<1>6. out = Upto(d, Len(out))
  BY DEF Passed
<1>7. Passed(d, out, more, "test", item, count)
  BY <1>1, <1>3, <1>4, <1>5, <1>6 DEF Passed
<1> QED
  BY <1>3, <1>7 DEF more

\* and the loop passes it on.
LEMMA PassedHear ==
  ASSUME NEW d \in Nat, NEW out \in Seq(Item), NEW queue \in Seq(Item), NEW where, NEW item, NEW count,
         Passed(d, out, queue, where, item, count), queue # <<>>
  PROVE  /\ Head(queue) = <<d, Len(out) + 1>>
         /\ Len(out) + 1 <= count
         /\ Append(out, Head(queue)) \in Seq(Item)
         /\ Tail(queue) \in Seq(Item) /\ Len(Tail(queue)) <= Len(queue)
         /\ Passed(d, Append(out, Head(queue)), Tail(queue), where, item, count)
<1> DEFINE rest == Tail(queue)
           n == Len(out)
           outs == Append(out, Head(queue))
<1>1. n \in Nat /\ Len(queue) \in Nat
  BY LenProperties
<1>2. rest \in Seq(Item) /\ Len(rest) = Len(queue) - 1 /\ (\A i \in 1 .. Len(rest) : rest[i] = queue[i + 1])
  BY HeadTailProperties
<1>3. Len(queue) >= 1
  BY <1>1, EmptySeq
<1>4. Head(queue) = queue[1]
  OBVIOUS
<1>5. Head(queue) = <<d, n + 1>>
  BY <1>1, <1>3, <1>4 DEF Passed
<1>6. outs = Upto(d, n + 1)
  BY <1>1, <1>5, UptoAppend DEF Passed
<1>7. outs \in Seq(Item) /\ Len(outs) = n + 1
  BY <1>1, <1>6, UptoSeq
<1> HIDE DEF rest, outs
<1>8. ASSUME NEW i \in 1 .. Len(rest) PROVE rest[i] = <<d, (n + 1) + i>>
  <2>1. i + 1 \in 1 .. Len(queue) /\ n + (i + 1) = (n + 1) + i
    BY <1>1, <1>2
  <2> QED
    BY <1>2, <2>1 DEF Passed
<1>9. n + Len(queue) = (n + 1) + Len(rest)
  BY <1>1, <1>2
<1> HIDE DEF n
<1>10. Passed(d, outs, rest, where, item, count)
  <2>1. where = "send" => item = <<d, (n + 1) + Len(rest) + 1>>
    BY <1>9 DEF Passed, n
  <2>2. count = (n + 1) + Len(rest) + (IF where = "send" THEN 1 ELSE 0)
    BY <1>9 DEF Passed, n
  <2> QED
    BY <1>6, <1>7, <1>8, <2>1, <2>2 DEF Passed
<1>11. n + 1 <= count
  BY <1>1, <1>3 DEF Passed, n
<1> QED
  BY <1>1, <1>2, <1>5, <1>7, <1>10, <1>11 DEF n, rest, outs

LEMMA InvInit == Init => Inv
<1> SUFFICES ASSUME Init PROVE Inv
  OBVIOUS
<1>1. Flags
  BY DEF Init, Flags
<1>5. Shape
  BY DEF Init, Shape
<1>2. <<>> \in Seq(Item) /\ Len(<<>>) = 0
  BY EmptySeq
<1>3. Tables
  BY <1>2 DEF Init, Tables
<1>4. Alone /\ Stream
  BY DEF Init, Alone, Stream
<1> QED
  BY <1>1, <1>3, <1>4, <1>5 DEF Inv

\* A step of a thread that goes on: only it and what it has read change.
LEMMA InvTest == ASSUME Inv, NEW t \in Opens, Test(t) PROVE Inv'
<1> USE DEF Inv, loopVars, deviceVars
<1>1. Flags' /\ Shape'
  BY DEF Test, Flags, Shape
<1>2. t = reader /\ t # 0
  BY DEF Test, Alone, Opens
<1>3. serial # 0 => serial = t
  BY <1>2 DEF Shape
<1>4. Tables'
  <2>1. serial \in 0 .. MaxOpens
    BY DEF Shape
  <2> QED
    BY <2>1 DEF Test, End, Tables
<1>5. Alone'
  BY <1>2, <1>3 DEF Test, End, Tables, Alone
<1>6. Stream'
  BY <1>2 DEF Test, End, Tables, Stream, Passed
<1> QED
  BY <1>1, <1>4, <1>5, <1>6

LEMMA InvRead == ASSUME Inv, ~Stuck, NEW t \in Opens, Read(t) PROVE Inv'
<1> USE DEF Inv, loopVars, deviceVars
<1>1. Flags' /\ Shape'
  BY DEF Read, Flags, Shape
<1>2. t = reader /\ on[t] = t /\ t # 0 /\ pc[t] = "read"
  BY DEF Read, Alone, Opens
<1>3. CASE /\ taken[t] < said[t]
           /\ taken' = [taken EXCEPT ![t] = @ + 1]
           /\ held' = [held EXCEPT ![t] = <<t, taken[t] + 1>>]
           /\ pc' = [pc EXCEPT ![t] = "send"]
  <2>1. taken[t] + 1 \in 0 .. MaxSaid /\ taken[t] + 1 <= said[t]
    BY <1>3 DEF Tables
  <2>2. Tables'
    BY <1>3, <2>1 DEF Read, Tables
  <2>3. Alone'
    BY <1>2, <1>3 DEF Read, Tables, Alone, Shape
  <2>4. Passed(t, heard, pair[t], "send", <<t, taken[t] + 1>>, taken[t] + 1)
    BY <1>2, PassedRead DEF Tables, Stream
  <2>5. Stream'
    BY <1>2, <1>3, <2>4 DEF Read, Tables, Stream
  <2> QED
    BY <1>1, <2>2, <2>3, <2>5
<1>4. CASE /\ \E where \in {"test", "end"} : pc' = [pc EXCEPT ![t] = where]
           /\ UNCHANGED <<taken, held>>
  <2>1. Tables'
    BY <1>4 DEF Read, Tables
  <2>2. Alone'
    BY <1>2, <1>4 DEF Read, Tables, Alone
  <2>3. Stream'
    BY <1>2, <1>4 DEF Read, Tables, Stream, Passed
  <2> QED
    BY <1>1, <2>1, <2>2, <2>3
<1> QED
  BY <1>2, <1>3, <1>4 DEF Read, End

LEMMA InvSend == ASSUME Inv, NEW t \in Opens, Send(t) PROVE Inv'
<1> USE DEF Inv, loopVars, deviceVars
<1>1. Flags' /\ Shape'
  BY DEF Send, Flags, Shape
<1>2. CASE t \in listening
  <2> DEFINE more == Append(pair[t], held[t])
  <2>1. t = reader /\ t # 0 /\ pc[t] = "send" /\ t \in Nat
    BY <1>2 DEF Send, Shape, Opens
  <2>2. Passed(t, heard, pair[t], "send", held[t], taken[t])
    BY <2>1 DEF Stream
  <2>3. pair[t] \in Seq(Item) /\ Len(pair[t]) \in Nat
    BY LenProperties DEF Tables
  <2>4. /\ Passed(t, heard, more, "test", held[t], taken[t])
        /\ more \in Seq(Item) /\ Len(more) = Len(pair[t]) + 1
    BY <2>1, <2>2, <2>3, PassedSend DEF Tables
  <2>5. pair' = [pair EXCEPT ![t] = more] /\ pc' = [pc EXCEPT ![t] = "test"]
    BY <1>2 DEF Send
  <2> HIDE DEF more
  <2>6. Tables'
    BY <1>2, <2>3, <2>4, <2>5 DEF Send, Tables
  <2>7. Alone'
    BY <2>1, <2>5 DEF Send, Tables, Alone, Shape
  <2>8. Stream'
    BY <2>1, <2>4, <2>5 DEF Send, Tables, Stream
  <2> QED
    BY <1>1, <2>6, <2>7, <2>8
<1>3. CASE t \notin listening
  <2>1. t # reader
    BY <1>3 DEF Shape, Opens
  <2>2. pc' = [pc EXCEPT ![t] = "end"] /\ UNCHANGED pair
    BY <1>3 DEF Send, End
  <2>3. Tables'
    BY <2>2 DEF Send, Tables
  <2>4. Alone'
    BY <2>1, <2>2 DEF Send, Tables, Alone
  <2>5. Stream'
    BY <2>1, <2>2 DEF Send, Tables, Stream
  <2> QED
    BY <1>1, <2>3, <2>4, <2>5
<1> QED
  BY <1>2, <1>3

LEMMA InvOpen == ASSUME Inv, Open PROVE Inv'
<1> USE DEF Inv
<1> DEFINE d == opens + 1
<1>1. d \in Opens /\ d > opens /\ d # 0 /\ d \in Nat
  BY DEF Open, Shape, Opens
<1>2. Flags'
  BY DEF Open, Flags
<1>3. reader = 0 /\ source = 0 /\ serial = 0 /\ ~joining
  BY DEF Open, Shape
<1>4. Shape'
  BY <1>1, <1>3 DEF Open, Shape
<1>5. <<>> \in Seq(Item) /\ Len(<<>>) = 0
  BY EmptySeq
<1>6. Tables'
  BY <1>1, <1>5 DEF Open, Tables
<1>7. pc[d] = "none" /\ said[d] = 0 /\ taken[d] = 0 /\ pair[d] = <<>>
  BY <1>1 DEF Alone
<1>8. \A t \in Opens : pc[t] \notin {"test", "read"}
  BY <1>3 DEF Alone, Opens
<1>9. Alone'
  <2>1. (pc' = [pc EXCEPT ![d] = "test"] /\ reader' = d) \/ UNCHANGED pc
    BY DEF Open
  <2>2. UNCHANGED <<said, taken, pair>> /\ opens' = d
    BY DEF Open
  <2>3. pc \in [Opens -> {"none", "test", "read", "send", "end"}]
    BY DEF Tables
  <2>4. ASSUME NEW t \in Opens
        PROVE  /\ pc'[t] \in {"test", "read"} => t = reader'
               /\ pc'[t] # "read"
               /\ t > d => pc'[t] = pc[t]
    <3> HIDE DEF d
    <3> QED
      BY <1>1, <1>8, <2>1, <2>3
  <2>5. \A t \in Opens : t > d => t > opens
    BY <1>1 DEF Opens, Shape
  <2> QED
    BY <2>2, <2>4, <2>5 DEF Alone
<1>10. Upto(d, 0) = <<>>
  BY DEF Upto
<1>11. Passed(d, <<>>, <<>>, "test", held[d], 0)
  BY <1>5, <1>10 DEF Passed
<1>12. Stream'
  <2>1. CASE reader' = d
    <3>1. /\ heard' = <<>> /\ pair'[d] = <<>> /\ taken'[d] = 0 /\ held'[d] = held[d]
          /\ pc' = [pc EXCEPT ![d] = "test"]
      BY <1>3, <1>7, <1>1, <2>1 DEF Open
    <3>2. pc'[d] = "test"
      BY <1>1, <3>1 DEF Tables
    <3> HIDE DEF d
    <3> QED
      BY <1>1, <1>11, <2>1, <3>1, <3>2 DEF Stream
  <2>2. CASE reader' = 0
    BY <2>2 DEF Open, Stream
  <2> QED
    BY <1>3, <2>1, <2>2 DEF Open
<1> QED
  BY <1>2, <1>4, <1>6, <1>9, <1>12

LEMMA InvClose == ASSUME Inv, Close PROVE Inv'
<1> USE DEF Inv, deviceVars
<1>1. Flags'
  BY DEF Close, Flags
<1>2. Shape'
  BY DEF Close, Shape
<1>3. Tables'
  BY DEF Close, Tables
<1>4. Alone'
  BY DEF Close, Alone
<1>5. Stream'
  BY DEF Close, Stream, Shape
<1> QED
  BY <1>1, <1>2, <1>3, <1>4, <1>5

LEMMA InvReceive == ASSUME Inv, Receive PROVE Inv'
<1> USE DEF Inv, loopVars, deviceVars
<1>1. CASE /\ source # 0 /\ pair[source] # <<>>
           /\ heard' = Append(heard, Head(pair[source]))
           /\ pair' = [pair EXCEPT ![source] = Tail(@)]
           /\ UNCHANGED <<loopVars, deviceVars, pc, on, held, taken>>
  <2> DEFINE d == source
             rest == Tail(pair[d])
             outs == Append(heard, Head(pair[d]))
  <2>1. d = reader /\ d \in Opens /\ d \in Nat /\ d <= opens
    BY <1>1 DEF Shape, Opens
  <2>2. pair[d] \in Seq(Item) /\ heard \in Seq(Item)
    BY <2>1 DEF Tables
  <2>3. Passed(d, heard, pair[d], pc[d], held[d], taken[d])
    BY <1>1, <2>1 DEF Stream
  <2>4. /\ outs \in Seq(Item) /\ rest \in Seq(Item) /\ Len(rest) <= Len(pair[d])
        /\ Passed(d, outs, rest, pc[d], held[d], taken[d])
    BY <1>1, <2>1, <2>2, <2>3, PassedHear
  <2> HIDE DEF rest, outs
  <2>5. pair' = [pair EXCEPT ![d] = rest] /\ heard' = outs
    BY <1>1 DEF rest, outs
  <2>6. Flags' /\ Shape'
    BY <1>1 DEF Flags, Shape
  <2>7. Len(rest) \in Nat /\ Len(pair[d]) \in Nat
    BY <2>2, <2>4, LenProperties
  <2>8. Tables'
    BY <1>1, <2>1, <2>4, <2>5, <2>7 DEF Tables
  <2>9. Alone'
    BY <1>1, <2>1, <2>5 DEF Alone, Tables
  <2>10. Stream'
    BY <1>1, <2>1, <2>4, <2>5 DEF Stream, Tables, Shape
  <2> QED
    BY <2>6, <2>8, <2>9, <2>10
<1> QED
  BY <1>1, InvClose DEF Receive

LEMMA InvJoined == ASSUME Inv, ~Stuck, Joined PROVE Inv'
<1> USE DEF Inv, deviceVars
<1>1. reader # 0 /\ reader \in Opens /\ source = 0
  BY DEF Joined, Shape, Opens
<1>2. Flags'
  BY DEF Joined, Flags
<1>3. Shape'
  BY DEF Joined, Shape
<1>4. <<>> \in Seq(Item) /\ Len(<<>>) = 0
  BY EmptySeq
<1>5. Tables'
  <2>1. pair' = [pair EXCEPT ![reader] = <<>>]
        /\ UNCHANGED <<pc, on, said, taken, held, heard>>
    BY DEF Joined
  <2>2. /\ pair' \in [Opens -> Seq(Item)]
        /\ \A t \in Opens : Len(pair'[t]) <= PairSize
    BY <1>1, <1>4, <2>1 DEF Tables
  <2> QED
    BY <2>1, <2>2 DEF Tables
<1>6. pc[reader] \in {"end", "send"}
  BY DEF Joined
<1>7. Alone'
  BY <1>6 DEF Joined, Alone, Tables
<1>8. Stream'
  BY DEF Joined, Stream
<1> QED
  BY <1>2, <1>3, <1>5, <1>7, <1>8

LEMMA InvSay == ASSUME Inv, Say PROVE Inv'
<1> USE DEF Inv, loopVars
<1>1. serial \in Opens /\ serial <= opens
  BY DEF Say, Shape, Opens
<1>2. Flags' /\ Shape'
  BY DEF Say, Flags, Shape
<1>3. said[serial] + 1 \in 0 .. MaxSaid
  BY <1>1 DEF Say, Tables
<1>4. Tables'
  BY <1>1, <1>3 DEF Say, Tables
<1>5. Alone'
  BY <1>1 DEF Say, Alone, Tables, Shape
<1>6. Stream'
  BY DEF Say, Stream
<1> QED
  BY <1>2, <1>4, <1>5, <1>6

LEMMA InvStep == ASSUME ~Stuck PROVE Inv /\ [Next]_vars => Inv'
<1> SUFFICES ASSUME Inv, [Next]_vars PROVE Inv'
  OBVIOUS
<1>1. CASE Open
  BY <1>1, InvOpen
<1>2. CASE LetGo
  BY <1>2, InvClose DEF LetGo
<1>3. CASE Receive
  BY <1>3, InvReceive
<1>4. CASE Joined
  BY <1>4, InvJoined
<1>5. CASE Say
  BY <1>5, InvSay
<1>6. CASE Pull
  BY <1>6 DEF Pull, loopVars, Inv, Flags, Shape, Tables, Alone, Stream
<1>7. ASSUME NEW t \in Opens, Thread(t) PROVE Inv'
  BY <1>7, InvTest, InvRead, InvSend DEF Thread
<1>8. CASE UNCHANGED vars
  BY <1>8 DEF vars, loopVars, deviceVars, Inv, Flags, Shape, Tables, Alone, Stream
<1> QED
  BY <1>1, <1>2, <1>3, <1>4, <1>5, <1>6, <1>7, <1>8 DEF Next

LEMMA Invariant == ASSUME ~Stuck PROVE Spec => []Inv
BY InvInit, InvStep, PTL DEF Spec

-----------------------------------------------------------------------------
(***************************************************************************)
(* What follows from it                                                    *)
(***************************************************************************)
\* Threads, sockets and pairs are what they should be (_start_reader_thread,
\* _stop_reader_thread).
THEOREM TypeCorrect == ASSUME ~Stuck PROVE Spec => []TypeOK
<1>1. Inv => TypeOK
  <2> SUFFICES ASSUME Inv PROVE TypeOK
    OBVIOUS
  <2>1. listening \subseteq Opens
    BY DEF Inv, Shape, Opens
  <2> QED
    BY <2>1 DEF Inv, Flags, Shape, Tables, TypeOK
<1> QED
  BY <1>1, Invariant, PTL

\* No thread ever reads another device than the one it was started for, if no
\* read outlasts the wait for its thread (_stop_reader_thread).
THEOREM ThreadsKeepTheirDevice == ASSUME ~Stuck PROVE Spec => []OwnDevice
<1>1. Inv => OwnDevice
  BY DEF Inv, Alone, OwnDevice
<1> QED
  BY <1>1, Invariant, PTL

-----------------------------------------------------------------------------
(***************************************************************************)
(* Refinement                                                              *)
(***************************************************************************)
LEMMA LinkInit == Init => L!Init
BY DEF Init, L!Init, L!Silent, Connected

\* Opening, saying, hearing and closing are the link's; the thread's own steps
\* are not seen.
LEMMA LinkStep == ASSUME ~Stuck PROVE Inv /\ [Next]_vars => [L!Next]_(L!link)
<1> SUFFICES ASSUME Inv, [Next]_vars PROVE [L!Next]_(L!link)
  OBVIOUS
<1> USE DEF Inv
<1>1. CASE Open
  <2>1. /\ serial = 0 /\ serial' = opens + 1 /\ serial' \in Nat \ {0} /\ serial' \in Opens
        /\ ~joining /\ ~joining' /\ serial' > opens
    BY <1>1 DEF Open, Shape, Opens
  <2>2. said'[serial'] = 0
    BY <1>1, <2>1 DEF Open, Alone
  <2>3. [i \in 1 .. said[serial] |-> <<serial, i>>]' = <<>> /\ heard' = <<>>
    BY <1>1, <2>2 DEF Open
  <2>4. ~Connected /\ Connected'
    BY <2>1 DEF Connected
  <2>5. L!Open
    BY <2>1, <2>3, <2>4 DEF L!Open
  <2> QED
    BY <2>5 DEF L!Next
<1>2. CASE Close
  <2>1. Connected /\ ~Connected'
    BY <1>2 DEF Close, Connected, Shape
  <2>2. serial # 0
    BY <1>2 DEF Close
  <2>3. L!Close
    BY <2>1, <2>2 DEF L!Close, L!Silent
  <2> QED
    BY <2>3 DEF L!Next
<1>3. CASE /\ ~joining /\ source # 0 /\ pair[source] # <<>>
           /\ heard' = Append(heard, Head(pair[source]))
           /\ UNCHANGED <<loopVars, deviceVars, taken>>
  <2> DEFINE n == Len(heard)
             all == [i \in 1 .. said[serial] |-> <<serial, i>>]
  <2>1. serial = source /\ serial = reader /\ serial \in Opens /\ serial \in Nat /\ serial # 0
    BY <1>3 DEF Shape, Opens
  <2>2. pair[serial] \in Seq(Item) /\ heard \in Seq(Item) /\ taken[serial] <= said[serial]
        /\ said[serial] \in Nat /\ taken[serial] \in Nat
    BY <2>1 DEF Tables
  <2>3. Passed(serial, heard, pair[serial], pc[serial], held[serial], taken[serial])
    BY <2>1 DEF Stream
  <2>4. Head(pair[serial]) = <<serial, n + 1>> /\ n + 1 <= taken[serial]
    BY <1>3, <2>1, <2>2, <2>3, PassedHear
  <2>5. n \in Nat
    BY <2>2, LenProperties
  <2>6. Len(all) = said[serial] /\ all[n + 1] = <<serial, n + 1>> /\ n < Len(all)
    BY <2>2, <2>4, <2>5
  <2>7. Connected /\ Connected' /\ serial' = serial /\ all' = all
    BY <1>3, <2>1 DEF Connected, loopVars, deviceVars
  <2>8. heard' = Append(heard, all[n + 1])
    BY <1>3, <2>1, <2>4, <2>6
  <2> HIDE DEF all
  <2>9. L!Hear
    BY <2>1, <2>6, <2>7, <2>8 DEF L!Hear, all
  <2> QED
    BY <2>9 DEF L!Next
<1>4. CASE Say
  <2>1. UNCHANGED <<serial, joining, heard>> /\ said' = [said EXCEPT ![serial] = @ + 1]
    BY <1>4 DEF Say, loopVars
  <2>2. serial \in Opens /\ serial \in Nat /\ serial # 0 /\ said[serial] \in Nat
    BY <1>4 DEF Say, Shape, Opens, Tables
  <2>3. said'[serial] = said[serial] + 1
    BY <2>1, <2>2 DEF Tables
  <2>4. CASE Connected
    <3>1. Connected'
      BY <2>1, <2>4 DEF Connected
    <3>2. Len(Upto(serial, said[serial])) = said[serial]
      BY <2>2, UptoSeq
    <3>3. Append(Upto(serial, said[serial]), <<serial, said[serial] + 1>>)
            = Upto(serial, said[serial] + 1)
      BY <2>2, UptoAppend
    <3>4. (IF Connected THEN serial ELSE 0) = serial
      BY <2>4
    <3>5. (IF Connected THEN [i \in 1 .. said[serial] |-> <<serial, i>>] ELSE <<>>)
            = Upto(serial, said[serial])
      BY <2>4 DEF Upto
    <3>6. Len(IF Connected THEN [i \in 1 .. said[serial] |-> <<serial, i>>] ELSE <<>>)
            = said[serial]
      BY <3>2, <3>5
    <3>7. L!Say(<<IF Connected THEN serial ELSE 0,
                  Len(IF Connected THEN [i \in 1 .. said[serial] |-> <<serial, i>>]
                                   ELSE <<>>) + 1>>)
      BY <2>1, <2>2, <2>3, <2>4, <3>1, <3>3, <3>4, <3>5, <3>6 DEF L!Say, Upto
    <3> QED
      BY <3>7 DEF L!Next
  <2>5. CASE ~Connected
    BY <2>1, <2>5 DEF L!link, Connected
  <2> QED
    BY <2>4, <2>5
<1>5. CASE UNCHANGED <<serial, joining, said, heard>>
  BY <1>5 DEF L!link, Connected
<1>6. CASE Joined
  <2>1. ~Connected /\ ~Connected'
    BY <1>6 DEF Joined, Connected
  <2> QED
    BY <2>1 DEF L!link
<1>7. ASSUME NEW t \in Opens, Thread(t) PROVE UNCHANGED <<serial, joining, said, heard>>
  BY <1>7 DEF Thread, Test, Read, Send, loopVars, deviceVars
<1>8. Pull \/ UNCHANGED vars => UNCHANGED <<serial, joining, said, heard>>
  BY DEF Pull, vars, loopVars, deviceVars
<1> QED
  BY <1>1, <1>2, <1>3, <1>4, <1>5, <1>6, <1>7, <1>8 DEF Next, LetGo, Receive

\* The thread, its socketpair and the loop implement a link: what is heard of a
\* device is what it said, in order and without a gap, however often it is
\* opened, if no read outlasts the wait for its thread (_serial_reader_run,
\* _process_serial_data).
THEOREM ImplementsLink == ASSUME ~Stuck PROVE Spec => IsLink
<1>1. L!Spec <=> L!Init /\ [][L!Next]_(L!link)
  BY DEF L!Spec
<1> QED
  BY <1>1, LinkInit, LinkStep, Invariant, PTL DEF Spec, IsLink
=============================================================================
