-------------------------- MODULE SerialPort_proofs --------------------------
(***************************************************************************)
(* What one serial port promises for any number of servers, clients and    *)
(* configurations, and calls nested to any depth.                          *)
(*                                                                         *)
(* The difficulty is the stack. A call in the middle of it has read state  *)
(* that the calls above it change, so a statement about a call must say    *)
(* what may be running above it. Shape says it: which calls can be in      *)
(* progress over which others. It is proved with Sync, which places the    *)
(* flag of the last announcement: where it differs from a device that is   *)
(* open and can be read, a call that will make them agree is on the stack, *)
(* at a place nothing can cut off. Places does the same for the limit of   *)
(* the port.                                                               *)
(*                                                                         *)
(* The last four parts are about the properties an exception out of a      *)
(* broadcast or of connect() breaks, and assume that neither raises. Then  *)
(* far less can nest (Nested), and four more invariants carry the          *)
(* properties: Knowing, that whoever has not heard the last announcement   *)
(* is still to be told it; Serving, that a socket client has a device that *)
(* is open or opening; Holding, that an open device is held, or somebody   *)
(* will look at it; and Sparing, that whoever has heard the last           *)
(* announcement is not to be told it again.                                *)
(***************************************************************************)
EXTENDS SerialPort, SequenceTheorems, FiniteSetTheorems, TLAPS

-----------------------------------------------------------------------------
(* Lists *)

IsList(s) == \E S : s \in Seq(S)

LEMMA ListLength ==
  ASSUME NEW s, IsList(s)
  PROVE  Len(s) \in Nat /\ DOMAIN s = 1 .. Len(s)
BY LenProperties DEF IsList

LEMMA ListConcat ==
  ASSUME NEW s, IsList(s), NEW t, IsList(t)
  PROVE  /\ IsList(s \o t)
         /\ Len(s \o t) = Len(s) + Len(t)
         /\ \A i \in 1 .. Len(s) + Len(t) :
               (s \o t)[i] = IF i <= Len(s) THEN s[i] ELSE t[i - Len(s)]
<1>1. PICK S, T : s \in Seq(S) /\ t \in Seq(T)
  BY DEF IsList
<1>2. s \in Seq(S \cup T) /\ t \in Seq(S \cup T)
  BY <1>1, SeqMonotonic
<1> QED
  BY <1>2, ConcatProperties DEF IsList

LEMMA ListTail ==
  ASSUME NEW s, IsList(s), s # <<>>
  PROVE  /\ IsList(Tail(s)) /\ Len(s) >= 1
         /\ Len(Tail(s)) = Len(s) - 1
         /\ \A i \in 1 .. Len(s) - 1 : Tail(s)[i] = s[i + 1]
         /\ Head(s) = s[1]
<1>1. PICK S : s \in Seq(S)
  BY DEF IsList
<1> QED
  BY <1>1, HeadTailProperties, LenProperties, EmptySeq DEF IsList

\* Another list of that length.
LEMMA ListOf ==
  ASSUME NEW n \in Nat, NEW f, f = [i \in 1 .. n |-> f[i]]
  PROVE  IsList(f) /\ Len(f) = n
<1> DEFINE S == {f[i] : i \in 1 .. n}
<1>1. f \in [1 .. n -> S]
  OBVIOUS
<1> HIDE DEF S
<1>2. f \in Seq(S) /\ Len(f) = n
  BY <1>1
<1> QED
  BY <1>2 DEF IsList

LEMMA ListTuples ==
  /\ IsList(<<>>) /\ Len(<<>>) = 0
  /\ \A a : IsList(<<a>>) /\ Len(<<a>>) = 1 /\ <<a>>[1] = a
  /\ \A a, b : IsList(<<a, b>>) /\ Len(<<a, b>>) = 2 /\ <<a, b>>[1] = a /\ <<a, b>>[2] = b
  /\ \A a, b, c : /\ IsList(<<a, b, c>>) /\ Len(<<a, b, c>>) = 3
                  /\ <<a, b, c>>[1] = a /\ <<a, b, c>>[2] = b /\ <<a, b, c>>[3] = c
  /\ \A a, b, c, d : 
       /\ IsList(<<a, b, c, d>>) /\ Len(<<a, b, c, d>>) = 4
       /\ <<a, b, c, d>>[1] = a /\ <<a, b, c, d>>[2] = b /\ <<a, b, c, d>>[3] = c
       /\ <<a, b, c, d>>[4] = d
<1>1. /\ \A a : <<a>> \in Seq({a})
      /\ \A a, b : <<a, b>> \in Seq({a, b})
      /\ \A a, b, c : <<a, b, c>> \in Seq({a, b, c})
      /\ \A a, b, c, d : <<a, b, c, d>> \in Seq({a, b, c, d})
  OBVIOUS
<1>2. <<>> \in Seq({})
  OBVIOUS
<1> QED
  BY <1>1, <1>2 DEF IsList

-----------------------------------------------------------------------------
(* Which calls can be in progress over which others *)

\* Calls that only a handler makes: no broadcast or removal leads to one.
Outer == {"connect", "retry", "handshake", "join", "hello", "reply", "serve",
          "add", "reap", "shut", "rebuild", "close_next"}
\* A client is about to be put where it holds the device.
Entering == {"join", "add"}
\* The calls that change the list of servers.
Plan == {"shut", "rebuild", "close_next"}
\* The last call of its handler.
Final == {"rebuild", "close_next", "retry"}

\* Call f may be in progress above call g.
Fits(f, g) ==
  /\ f.op \in Outer => g.op \in Outer
  /\ f.op \notin Final
  /\ g.op \notin {"announce", "release"}
  /\ f.op \in Entering => g.op \notin Entering \cup Plan
  /\ f.op \in Plan => g.op \notin Entering

\* Directly above the rest of a removal there is only the detach() it waits for.
Touches(f, g) == g.op = "removed" => f.op \in {"release", "let_go"}

\* Every stack of the port is one of these.
Shape(s) ==
  /\ \A i, j \in 1 .. Len(s) : i < j => Fits(s[i], s[j])
  /\ \A i \in 1 .. Len(s) : i + 1 <= Len(s) => Touches(s[i], s[i + 1])

\* A call f that takes the place of g fits wherever g did.
StandsIn(f, g) ==
  \A ops \in {Outer, Entering, Plan, Final} : f.op \in ops => g.op \in ops

Has(s, op) == \E i \in 1 .. Len(s) : s[i].op = op

LEMMA ConcatShape ==
  ASSUME NEW a, IsList(a), Shape(a), NEW t, IsList(t), Shape(t),
         \A i \in 1 .. Len(a), j \in 1 .. Len(t) : Fits(a[i], t[j]),
         a # <<>> /\ t # <<>> => Touches(a[Len(a)], t[1])
  PROVE  IsList(a \o t) /\ Shape(a \o t)
<1> DEFINE s == a \o t
           n == Len(a)
           m == Len(t)
<1>1. n \in Nat /\ m \in Nat
  BY ListLength
<1>2. /\ IsList(s) /\ Len(s) = n + m
      /\ \A i \in 1 .. n + m : s[i] = IF i <= n THEN a[i] ELSE t[i - n]
  BY ListConcat
<1> HIDE DEF s
<1>3. \A i \in 1 .. n : i \in 1 .. n + m /\ s[i] = a[i]
  BY <1>1, <1>2
<1>4. ASSUME NEW i \in 1 .. n + m, i > n
      PROVE  i - n \in 1 .. m /\ s[i] = t[i - n]
  BY <1>1, <1>2, <1>4
<1>5. ASSUME NEW i \in 1 .. n + m, NEW j \in 1 .. n + m, i < j
      PROVE  Fits(s[i], s[j])
  <2>1. CASE j <= n
    <3>1. i \in 1 .. n /\ j \in 1 .. n
      BY <2>1, <1>1, <1>5
    <3> QED
      BY <3>1, <1>3, <1>5 DEF Shape
  <2>2. CASE i <= n /\ j > n
    <3>1. i \in 1 .. n
      BY <2>2, <1>1
    <3> QED
      BY <2>2, <3>1, <1>3, <1>4
  <2>3. CASE i > n
    <3>1. /\ i - n \in 1 .. m /\ s[i] = t[i - n]
          /\ j - n \in 1 .. m /\ s[j] = t[j - n]
          /\ i - n < j - n
      BY <2>3, <1>1, <1>4, <1>5
    <3> QED
      BY <3>1 DEF Shape
  <2> QED
    BY <2>1, <2>2, <2>3, <1>1
<1>6. ASSUME NEW i \in 1 .. n + m, i + 1 <= n + m
      PROVE  Touches(s[i], s[i + 1])
  <2>1. CASE i < n
    <3>1. i \in 1 .. n /\ i + 1 \in 1 .. n
      BY <2>1, <1>1
    <3> QED
      BY <3>1, <1>3 DEF Shape
  <2>2. CASE i = n
    <3>1. i \in 1 .. n /\ i + 1 \in 1 .. n + m /\ i + 1 > n /\ (i + 1) - n = 1
      BY <2>2, <1>1, <1>6
    <3>2. s[i] = a[n] /\ s[i + 1] = t[1] /\ 1 \in 1 .. m
      BY <2>2, <3>1, <1>3, <1>4
    <3>3. a # <<>> /\ t # <<>>
      BY <3>1, <3>2, <1>1, ListTuples
    <3> QED
      BY <3>2, <3>3
  <2>3. CASE i > n
    <3>1. /\ i - n \in 1 .. m /\ s[i] = t[i - n]
          /\ i + 1 \in 1 .. n + m /\ i + 1 > n
      BY <2>3, <1>1, <1>4, <1>6
    <3>2. (i + 1) - n \in 1 .. m /\ s[i + 1] = t[(i + 1) - n] /\ (i + 1) - n = (i - n) + 1
      BY <3>1, <1>1, <1>4
    <3> QED
      BY <3>1, <3>2 DEF Shape
  <2> QED
    BY <2>1, <2>2, <2>3, <1>1
<1> QED
  BY <1>2, <1>5, <1>6 DEF Shape, s

LEMMA TailShape ==
  ASSUME NEW s, IsList(s), s # <<>>, Shape(s)
  PROVE  Shape(Tail(s))
<1>1. Len(s) \in Nat
  BY ListLength
<1>2. /\ Len(s) >= 1 /\ Len(Tail(s)) = Len(s) - 1
      /\ \A i \in 1 .. Len(s) - 1 : Tail(s)[i] = s[i + 1]
  BY ListTail
<1>3. ASSUME NEW i \in 1 .. Len(s) - 1, NEW j \in 1 .. Len(s) - 1, i < j
      PROVE  Fits(Tail(s)[i], Tail(s)[j])
  <2>1. i + 1 \in 1 .. Len(s) /\ j + 1 \in 1 .. Len(s) /\ i + 1 < j + 1
    BY <1>1, <1>3
  <2> QED
    BY <2>1, <1>2 DEF Shape
<1>4. ASSUME NEW i \in 1 .. Len(s) - 1, i + 1 <= Len(s) - 1
      PROVE  Touches(Tail(s)[i], Tail(s)[i + 1])
  <2>1. i + 1 \in 1 .. Len(s) - 1 /\ i + 1 \in 1 .. Len(s) /\ (i + 1) + 1 <= Len(s)
    BY <1>1, <1>4
  <2> QED
    BY <2>1, <1>2 DEF Shape
<1> QED
  BY <1>2, <1>3, <1>4 DEF Shape

\* The stack `s` when its first call goes on as `a`.
GoesOn(s, a) == a \o Tail(s)

LEMMA CallShape ==
  ASSUME NEW s, IsList(s), s # <<>>, Shape(s), NEW a, IsList(a), Shape(a),
         \A i \in 1 .. Len(a) : StandsIn(a[i], s[1]),
         \/ a = <<>>
         \/ s[1].op \notin {"release", "let_go"}
         \/ a[Len(a)].op = "let_go"
  PROVE  IsList(GoesOn(s, a)) /\ Shape(GoesOn(s, a))
<1>1. Len(s) \in Nat /\ Len(a) \in Nat
  BY ListLength
<1>2. /\ IsList(Tail(s)) /\ Len(s) >= 1 /\ Len(Tail(s)) = Len(s) - 1
      /\ \A i \in 1 .. Len(s) - 1 : Tail(s)[i] = s[i + 1]
  BY ListTail
<1>3. ASSUME NEW i \in 1 .. Len(a), NEW j \in 1 .. Len(s) - 1
      PROVE  Fits(a[i], Tail(s)[j])
  <2>1. 1 \in 1 .. Len(s) /\ j + 1 \in 1 .. Len(s) /\ 1 < j + 1
    BY <1>1
  <2>2. Fits(s[1], s[j + 1])
    BY <2>1 DEF Shape
  <2>3. /\ a[i].op \in Outer => s[1].op \in Outer
        /\ a[i].op \in Entering => s[1].op \in Entering
        /\ a[i].op \in Plan => s[1].op \in Plan
        /\ a[i].op \in Final => s[1].op \in Final
    BY DEF StandsIn
  <2> QED
    BY <1>2, <2>2, <2>3 DEF Fits
<1>4. ASSUME a # <<>>, Tail(s) # <<>>
      PROVE  Touches(a[Len(a)], Tail(s)[1])
  <2>1. Len(Tail(s)) # 0
    BY <1>2, <1>4, EmptySeq DEF IsList
  <2>2. 1 \in 1 .. Len(s) /\ 1 + 1 <= Len(s) /\ Tail(s)[1] = s[1 + 1]
    BY <2>1, <1>1, <1>2
  <2>3. Touches(s[1], s[1 + 1])
    BY <2>2 DEF Shape
  <2> QED
    BY <1>4, <2>2, <2>3 DEF Touches
<1> QED
  BY <1>2, <1>3, <1>4, TailShape, ConcatShape DEF GoesOn

LEMMA ConcatRange ==
  ASSUME NEW a, IsList(a), NEW t, IsList(t)
  PROVE  Range(a \o t) = Range(a) \cup Range(t)
<1>1. Len(a) \in Nat /\ Len(t) \in Nat
  BY ListLength
<1>2. /\ IsList(a \o t) /\ Len(a \o t) = Len(a) + Len(t)
      /\ \A i \in 1 .. Len(a) + Len(t) :
            (a \o t)[i] = IF i <= Len(a) THEN a[i] ELSE t[i - Len(a)]
  BY ListConcat
<1>3. /\ DOMAIN a = 1 .. Len(a) /\ DOMAIN t = 1 .. Len(t)
      /\ DOMAIN (a \o t) = 1 .. Len(a) + Len(t)
  BY <1>2, ListLength
<1>4. ASSUME NEW i \in 1 .. Len(a) + Len(t)
      PROVE  (a \o t)[i] \in Range(a) \cup Range(t)
  <2>1. CASE i <= Len(a)
    <3>1. i \in 1 .. Len(a)
      BY <2>1, <1>1
    <3> QED
      BY <2>1, <3>1, <1>2, <1>3 DEF Range
  <2>2. CASE ~(i <= Len(a))
    <3>1. i - Len(a) \in 1 .. Len(t) /\ (a \o t)[i] = t[i - Len(a)]
      BY <2>2, <1>1, <1>2
    <3> QED
      BY <3>1, <1>3 DEF Range
  <2> QED
    BY <2>1, <2>2
<1>5. ASSUME NEW i \in 1 .. Len(a)
      PROVE  a[i] \in Range(a \o t)
  <2>1. i \in 1 .. Len(a) + Len(t) /\ (a \o t)[i] = a[i]
    BY <1>1, <1>2
  <2> QED
    BY <2>1, <1>3 DEF Range
<1>6. ASSUME NEW i \in 1 .. Len(t)
      PROVE  t[i] \in Range(a \o t)
  <2>1. Len(a) + i \in 1 .. Len(a) + Len(t) /\ ~(Len(a) + i <= Len(a))
        /\ (Len(a) + i) - Len(a) = i
    BY <1>1
  <2>2. (a \o t)[Len(a) + i] = t[i]
    BY <2>1, <1>2
  <2> QED
    BY <2>1, <2>2, <1>3 DEF Range
<1>7. Range(a \o t) \subseteq Range(a) \cup Range(t)
  BY <1>3, <1>4 DEF Range
<1>8. Range(a) \subseteq Range(a \o t) /\ Range(t) \subseteq Range(a \o t)
  <2>1. ASSUME NEW x \in Range(a) PROVE x \in Range(a \o t)
    <3>1. PICK i \in 1 .. Len(a) : x = a[i]
      BY <1>3 DEF Range
    <3> QED
      BY <3>1, <1>5
  <2>2. ASSUME NEW x \in Range(t) PROVE x \in Range(a \o t)
    <3>1. PICK i \in 1 .. Len(t) : x = t[i]
      BY <1>3 DEF Range
    <3> QED
      BY <3>1, <1>6
  <2> QED
    BY <2>1, <2>2
<1> QED
  BY <1>7, <1>8

LEMMA TailRange ==
  ASSUME NEW s, IsList(s), s # <<>>
  PROVE  Range(s) = {s[1]} \cup Range(Tail(s))
<1>1. Len(s) \in Nat /\ DOMAIN s = 1 .. Len(s)
  BY ListLength
<1>2. /\ IsList(Tail(s)) /\ Len(s) >= 1 /\ Len(Tail(s)) = Len(s) - 1
      /\ \A i \in 1 .. Len(s) - 1 : Tail(s)[i] = s[i + 1]
  BY ListTail
<1>3. DOMAIN Tail(s) = 1 .. Len(s) - 1
  BY <1>2, ListLength
<1>4. ASSUME NEW i \in 1 .. Len(s)
      PROVE  s[i] \in {s[1]} \cup Range(Tail(s))
  <2>1. CASE i = 1
    BY <2>1
  <2>2. CASE i # 1
    <3>1. i - 1 \in 1 .. Len(s) - 1 /\ (i - 1) + 1 = i
      BY <2>2, <1>1
    <3>2. Tail(s)[i - 1] = s[i]
      BY <3>1, <1>2
    <3> QED
      BY <3>1, <3>2, <1>3 DEF Range
  <2> QED
    BY <2>1, <2>2
<1>5. ASSUME NEW x \in Range(Tail(s))
      PROVE  x \in Range(s)
  <2>1. PICK i \in 1 .. Len(s) - 1 : x = Tail(s)[i]
    BY <1>3 DEF Range
  <2>2. i + 1 \in 1 .. Len(s) /\ x = s[i + 1]
    BY <2>1, <1>1, <1>2
  <2> QED
    BY <2>2, <1>1 DEF Range
<1>6. s[1] \in Range(s)
  BY <1>1, <1>2 DEF Range
<1> QED
  BY <1>1, <1>4, <1>5, <1>6 DEF Range

LEMMA HasRange ==
  ASSUME NEW s, IsList(s), NEW op
  PROVE  Has(s, op) <=> \E f \in Range(s) : f.op = op
BY ListLength DEF Has, Range

LEMMA ConcatHas ==
  ASSUME NEW a, IsList(a), NEW t, IsList(t), NEW op
  PROVE  Has(a \o t, op) <=> Has(a, op) \/ Has(t, op)
<1>1. IsList(a \o t)
  BY ListConcat
<1>2. Range(a \o t) = Range(a) \cup Range(t)
  BY ConcatRange
<1> QED
  BY <1>1, <1>2, HasRange

LEMMA TailHas ==
  ASSUME NEW s, IsList(s), s # <<>>, NEW op
  PROVE  Has(s, op) <=> s[1].op = op \/ Has(Tail(s), op)
<1>1. IsList(Tail(s))
  BY ListTail
<1>2. Range(s) = {s[1]} \cup Range(Tail(s))
  BY TailRange
<1> QED
  BY <1>1, <1>2, HasRange

-----------------------------------------------------------------------------
(* Calls are typed *)

LEMMA FrameOfTell ==
  ASSUME NEW f \in Frames, f.op = "tell"
  PROVE  f.s \in Servers /\ f.msg \in Msgs
BY DEF Frames, WsOps, SocketOps

LEMMA FrameOfCast ==
  ASSUME NEW f \in Frames, f.op = "cast"
  PROVE  f.s \in WsServers /\ f.msg \in Msgs /\ f.left \in SUBSET WsClients
BY DEF Frames, WsOps, SocketOps

LEMMA FrameOfServer ==
  ASSUME NEW f \in Frames, f.op \in {"reap", "shut"}
  PROVE  f.s \in Servers
BY DEF Frames, WsOps, SocketOps

LEMMA FrameOfWs ==
  ASSUME NEW f \in Frames, f.op \in WsOps
  PROVE  f.s \in WsServers /\ f.c \in WsClients
BY DEF Frames, WsOps, SocketOps

LEMMA FrameOfSocket ==
  ASSUME NEW f \in Frames, f.op \in SocketOps
  PROVE  f.s \in SocketServers /\ f.c \in SocketClients
BY DEF Frames, WsOps, SocketOps

LEMMA FrameOfRebuild ==
  ASSUME NEW f \in Frames, f.op = "rebuild"
  PROVE  f.layout \in Layouts
BY DEF Frames, WsOps, SocketOps

LEMMA FrameOfAnnounce ==
  ASSUME NEW f \in Frames, f.op = "announce"
  PROVE  f.up \in BOOLEAN
BY DEF Frames, WsOps, SocketOps

LEMMA CallsAreFrames ==
  /\ \A up \in BOOLEAN : Announce(up) \in Frames
  /\ \A s \in Servers, msg \in Msgs : Tell(s, msg) \in Frames
  /\ \A s \in WsServers, msg \in Msgs, l \in SUBSET WsClients : Cast(s, msg, l) \in Frames
  /\ \A s \in Servers : Reap(s) \in Frames /\ Shut(s) \in Frames
  /\ LetGo \in Frames /\ Connect \in Frames /\ Release \in Frames
  /\ Retry \in Frames /\ CloseNext \in Frames
  /\ \A op \in WsOps, s \in WsServers, c \in WsClients : On(op, s, c) \in Frames
  /\ \A op \in SocketOps, s \in SocketServers, c \in SocketClients : On(op, s, c) \in Frames
  /\ \A l \in Layouts : Rebuild(l) \in Frames
<1> USE DEF Frames
<1>1. \A up \in BOOLEAN : Announce(up) \in Frames
  BY DEF Announce
<1>2. \A s \in Servers, msg \in Msgs : Tell(s, msg) \in Frames
  BY DEF Tell
<1>3. \A s \in WsServers, msg \in Msgs, l \in SUBSET WsClients : Cast(s, msg, l) \in Frames
  BY DEF Cast
<1>4. \A s \in Servers : Reap(s) \in Frames /\ Shut(s) \in Frames
  BY DEF Reap, Shut
<1>5. /\ LetGo \in Frames /\ Connect \in Frames /\ Release \in Frames
      /\ Retry \in Frames /\ CloseNext \in Frames
  BY DEF LetGo, Connect, Release, Retry, CloseNext
<1>6. \A op \in WsOps, s \in WsServers, c \in WsClients : On(op, s, c) \in Frames
  BY DEF On
<1>7. \A op \in SocketOps, s \in SocketServers, c \in SocketClients : On(op, s, c) \in Frames
  BY DEF On
<1>8. \A l \in Layouts : Rebuild(l) \in Frames
  BY DEF Rebuild
<1> QED
  BY <1>1, <1>2, <1>3, <1>4, <1>5, <1>6, <1>7, <1>8

LEMMA TuplesOfFrames ==
  \A f, g, h, k \in Frames :
    /\ <<f>> \in Seq(Frames) /\ <<f, g>> \in Seq(Frames)
    /\ <<f, g, h>> \in Seq(Frames) /\ <<f, g, h, k>> \in Seq(Frames)
OBVIOUS

LEMMA TopFrame ==
  ASSUME stack \in Seq(Frames), ~Idle
  PROVE  Top \in Frames /\ Tail(stack) \in Seq(Frames) /\ Top = stack[1]
BY HeadTailProperties DEF Idle, Top

LEMMA CallTyped ==
  ASSUME stack \in Seq(Frames), ~Idle, NEW frames \in Seq(Frames), Call(frames)
  PROVE  stack' \in Seq(Frames)
<1>1. Tail(stack) \in Seq(Frames)
  BY TopFrame
<1> QED
  BY <1>1, ConcatProperties DEF Call

LEMMA ReturnTyped ==
  ASSUME stack \in Seq(Frames), ~Idle, Return
  PROVE  stack' \in Seq(Frames)
<1>1. <<>> \in Seq(Frames)
  BY EmptySeq
<1> QED
  BY <1>1, CallTyped DEF Return

LEMMA RaiseTyped ==
  ASSUME stack \in Seq(Frames), ~Idle, gone \subseteq WsClients, Raise
  PROVE  stack' \in Seq(Frames) /\ (gone \subseteq WsClients)'
<1> DEFINE last == stack[Len(stack)]
<1>1. Len(stack) \in 1 .. Len(stack)
  BY EmptySeq, LenProperties DEF Idle
<1>2. last \in Frames
  BY <1>1, ElementOfSeq
<1>3. last.op = "serve" => last.c \in WsClients
  BY <1>2, FrameOfWs DEF WsOps
<1> QED
  BY <1>3, EmptySeq DEF Raise

-----------------------------------------------------------------------------
(* Each step of a call keeps the types *)

LEMMA ConnectTyped ==
  ASSUME TypeOK, ConnectStep
  PROVE  TypeOK'
<1>1. <<Announce(TRUE)>> \in Seq(Frames)
  BY CallsAreFrames, TuplesOfFrames
<1>2. stack' \in Seq(Frames)
  BY <1>1, CallTyped, ReturnTyped DEF TypeOK, ConnectStep, Running
<1> QED
  BY <1>2 DEF TypeOK, ConnectStep, clientVars

LEMMA ConnectRaisesTyped ==
  ASSUME TypeOK, ConnectRaises
  PROVE  TypeOK'
<1>1. stack' \in Seq(Frames) /\ (gone \subseteq WsClients)'
  BY RaiseTyped DEF TypeOK, ConnectRaises, Running
<1> QED
  BY <1>1 DEF TypeOK, ConnectRaises

LEMMA AnnounceTyped ==
  ASSUME TypeOK, AnnounceStep
  PROVE  TypeOK'
<1>1. Top.up \in BOOLEAN
  BY TopFrame, FrameOfAnnounce DEF TypeOK, AnnounceStep, Running
<1> DEFINE tells == [i \in DOMAIN servers |-> Tell(servers[i], IF Top.up THEN "up" ELSE "down")]
<1>2. tells \in Seq(Frames)
  <2>1. Len(servers) \in Nat /\ DOMAIN servers = 1 .. Len(servers)
    BY LenProperties DEF TypeOK
  <2>2. \A i \in 1 .. Len(servers) : servers[i] \in Servers
    BY ElementOfSeq DEF TypeOK
  <2>3. \A i \in 1 .. Len(servers) : Tell(servers[i], IF Top.up THEN "up" ELSE "down") \in Frames
    BY <2>2, CallsAreFrames DEF Msgs
  <2> QED
    BY <2>1, <2>3
<1>3. stack' \in Seq(Frames)
  BY <1>2, CallTyped, ReturnTyped DEF TypeOK, AnnounceStep, Running
<1> QED
  BY <1>1, <1>3 DEF TypeOK, AnnounceStep, clientVars

LEMMA ReleaseTyped ==
  ASSUME TypeOK, ReleaseStep
  PROVE  TypeOK'
<1>1. <<Announce(FALSE), LetGo>> \in Seq(Frames)
  BY CallsAreFrames, TuplesOfFrames
<1>2. stack' \in Seq(Frames)
  BY <1>1, CallTyped, ReturnTyped DEF TypeOK, ReleaseStep, Running
<1> QED
  BY <1>2 DEF TypeOK, ReleaseStep, clientVars, portVars

LEMMA LetGoTyped ==
  ASSUME TypeOK, LetGoStep
  PROVE  TypeOK'
<1>1. stack' \in Seq(Frames) /\ (gone \subseteq WsClients)'
  BY RaiseTyped, ReturnTyped DEF TypeOK, LetGoStep, Running
<1> QED
  BY <1>1 DEF TypeOK, LetGoStep

LEMMA TellSocketTyped ==
  ASSUME TypeOK, TellSocket
  PROVE  TypeOK'
<1>1. stack' \in Seq(Frames)
  BY ReturnTyped DEF TypeOK, TellSocket, Running
<1>2. conns[Top.s] \subseteq SocketClients
  BY DEF TypeOK, TellSocket
<1>3. CASE Top.msg = "down"
  <2>1. conns' = [conns EXCEPT ![Top.s] = {}] /\ shaking' \subseteq shaking /\ closed' \subseteq closed
    BY <1>3 DEF TellSocket
  <2>2. /\ conns' \in [Servers -> SUBSET Clients]
        /\ \A s \in Servers : conns'[s] \subseteq conns[s]
    BY <2>1 DEF TypeOK
  <2> QED
    BY <1>1, <2>1, <2>2 DEF TypeOK, TellSocket, portVars, Servers
<1>4. CASE Top.msg # "down"
  <2>1. closed' \subseteq SocketClients /\ conns' = conns /\ shaking' = shaking
    BY <1>2, <1>4 DEF TypeOK, TellSocket
  <2> QED
    BY <1>1, <2>1 DEF TypeOK, TellSocket, portVars
<1> QED
  BY <1>3, <1>4

LEMMA TellWsTyped ==
  ASSUME TypeOK, TellWs
  PROVE  TypeOK'
<1>1. Top \in Frames /\ ~Idle
  BY TopFrame DEF TypeOK, TellWs, Running
<1>2. Top.s \in WsServers /\ Top.msg \in Msgs
  BY <1>1, FrameOfTell DEF TellWs, Running
<1>3. Audience(Top.s, Top.msg) \in SUBSET WsClients
  BY <1>2 DEF TypeOK, Audience
<1>4. Cast(Top.s, Top.msg, Audience(Top.s, Top.msg)) \in Frames
  BY <1>2, <1>3, CallsAreFrames
<1>5. <<Cast(Top.s, Top.msg, Audience(Top.s, Top.msg))>> \in Seq(Frames)
  BY <1>4, TuplesOfFrames
<1>6. stack' \in Seq(Frames)
  BY <1>1, <1>5, CallTyped DEF TypeOK, TellWs
<1> QED
  BY <1>6 DEF TypeOK, TellWs, clientVars, portVars

LEMMA CastTyped ==
  ASSUME TypeOK, CastStep
  PROVE  TypeOK'
<1>1. Top \in Frames /\ ~Idle
  BY TopFrame DEF TypeOK, CastStep, Running
<1>2. Top.s \in WsServers /\ Top.msg \in Msgs /\ Top.left \in SUBSET WsClients
  BY <1>1, FrameOfCast DEF CastStep, Running
<1>3. CASE Top.left = {} /\ Return /\ UNCHANGED told
  <2>1. stack' \in Seq(Frames)
    BY <1>1, <1>3, ReturnTyped DEF TypeOK
  <2> QED
    BY <1>3, <2>1 DEF TypeOK, CastStep, portVars
<1>4. ASSUME NEW c \in Top.left,
             LET rest == Cast(Top.s, Top.msg, Top.left \ {c})
             IN  \/ Call(<<rest>>)
                 \/ Call(<<On("remove", Top.s, c), rest>>),
             told' = told \/ told' = Heard(c, Top.msg)
      PROVE  stack' \in Seq(Frames) /\ told' \in [WsClients -> {"nothing", "up", "down"}]
  <2> DEFINE rest == Cast(Top.s, Top.msg, Top.left \ {c})
  <2>1. c \in WsClients /\ Top.left \ {c} \in SUBSET WsClients
    BY <1>2
  <2>2. rest \in Frames /\ On("remove", Top.s, c) \in Frames
    BY <1>2, <2>1, CallsAreFrames DEF WsOps
  <2> HIDE DEF rest
  <2>3. <<rest>> \in Seq(Frames) /\ <<On("remove", Top.s, c), rest>> \in Seq(Frames)
    BY <2>2, TuplesOfFrames
  <2>4. stack' \in Seq(Frames)
    BY <1>1, <1>4, <2>3, CallTyped DEF TypeOK, rest
  <2>5. told' \in [WsClients -> {"nothing", "up", "down"}]
    BY <1>2, <1>4, <2>1 DEF TypeOK, Heard, Msgs
  <2> QED
    BY <2>4, <2>5
<1>5. CASE ~(Top.left = {} /\ Return /\ UNCHANGED told)
  <2>1. PICK c \in Top.left :
           /\ LET rest == Cast(Top.s, Top.msg, Top.left \ {c})
              IN  \/ Call(<<rest>>)
                  \/ Call(<<On("remove", Top.s, c), rest>>)
           /\ told' = told \/ told' = Heard(c, Top.msg)
    BY <1>5 DEF CastStep
  <2>2. stack' \in Seq(Frames) /\ told' \in [WsClients -> {"nothing", "up", "down"}]
    BY <1>4, <2>1
  <2> QED
    BY <2>2 DEF TypeOK, CastStep, portVars
<1> QED
  BY <1>3, <1>5

LEMMA JoinTyped ==
  ASSUME TypeOK, JoinStep
  PROVE  TypeOK'
<1>1. Top \in Frames /\ ~Idle
  BY TopFrame DEF TypeOK, JoinStep, Running
<1>2. Top.s \in WsServers /\ Top.c \in WsClients
  BY <1>1, FrameOfWs DEF JoinStep, Running, WsOps
<1>3. stack' \in Seq(Frames)
  BY <1>1, ReturnTyped DEF TypeOK, JoinStep
<1>4. attached' \in [WsServers -> SUBSET WsClients]
  BY <1>2 DEF TypeOK, JoinStep
<1> QED
  BY <1>3, <1>4 DEF TypeOK, JoinStep, portVars

LEMMA HelloTyped ==
  ASSUME TypeOK, HelloStep
  PROVE  TypeOK'
<1>1. Top \in Frames /\ ~Idle
  BY TopFrame DEF TypeOK, HelloStep, Running
<1>2. Top.s \in WsServers /\ Top.c \in WsClients
  BY <1>1, FrameOfWs DEF HelloStep, Running, WsOps
<1>3. <<On("remove", Top.s, Top.c)>> \in Seq(Frames)
  BY <1>2, CallsAreFrames, TuplesOfFrames DEF WsOps
<1>4. stack' \in Seq(Frames)
  BY <1>1, <1>3, CallTyped, ReturnTyped DEF TypeOK, HelloStep
<1>5. told' \in [WsClients -> {"nothing", "up", "down"}] /\ greeted' \subseteq WsClients
  BY <1>2 DEF TypeOK, HelloStep
<1> QED
  BY <1>4, <1>5 DEF TypeOK, HelloStep, portVars

LEMMA ReplyTyped ==
  ASSUME TypeOK, ReplyStep
  PROVE  TypeOK'
<1>1. Top \in Frames /\ ~Idle
  BY TopFrame DEF TypeOK, ReplyStep, Running
<1>2. Top.s \in WsServers /\ Top.c \in WsClients
  BY <1>1, FrameOfWs DEF ReplyStep, Running, WsOps
<1>3. <<On("remove", Top.s, Top.c)>> \in Seq(Frames)
  BY <1>2, CallsAreFrames, TuplesOfFrames DEF WsOps
<1>4. stack' \in Seq(Frames)
  BY <1>1, <1>3, CallTyped, ReturnTyped DEF TypeOK, ReplyStep
<1> QED
  BY <1>4 DEF TypeOK, ReplyStep, clientVars, portVars

LEMMA RemoveTyped ==
  ASSUME TypeOK, RemoveStep
  PROVE  TypeOK'
<1>1. Top \in Frames /\ ~Idle
  BY TopFrame DEF TypeOK, RemoveStep, Running
<1>2. Top.s \in WsServers /\ Top.c \in WsClients
  BY <1>1, FrameOfWs DEF RemoveStep, Running, WsOps
<1> DEFINE rest == On("removed", Top.s, Top.c)
<1>3. rest \in Frames
  BY <1>2, CallsAreFrames DEF WsOps
<1>4. <<Release, rest>> \in Seq(Frames) /\ <<rest>> \in Seq(Frames)
  BY <1>3, CallsAreFrames, TuplesOfFrames
<1>5. Call(<<Release, rest>>) \/ Call(<<rest>>) \/ Return
  BY DEF RemoveStep
<1> HIDE DEF rest
<1>6. stack' \in Seq(Frames)
  BY <1>1, <1>4, <1>5, CallTyped, ReturnTyped DEF TypeOK
<1>7. attached' \in [WsServers -> SUBSET WsClients]
  BY <1>2 DEF TypeOK, RemoveStep
<1> QED
  BY <1>6, <1>7 DEF TypeOK, RemoveStep, portVars

LEMMA RemovedTyped ==
  ASSUME TypeOK, RemovedStep
  PROVE  TypeOK'
<1>1. Top \in Frames /\ ~Idle
  BY TopFrame DEF TypeOK, RemovedStep, Running
<1>2. Top.s \in WsServers /\ Top.c \in WsClients
  BY <1>1, FrameOfWs DEF RemovedStep, Running, WsOps
<1>3. CASE Top.c \in conns[Top.s]
  <2>1. stack' \in Seq(Frames)
    BY <1>1, <1>3, ReturnTyped DEF TypeOK, RemovedStep
  <2>2. /\ conns' = [conns EXCEPT ![Top.s] = @ \ {Top.c}]
        /\ greeted' \subseteq greeted /\ gone' = gone
        /\ told' = [told EXCEPT ![Top.c] = "nothing"]
    BY <1>3 DEF RemovedStep
  <2>3. /\ conns' \in [Servers -> SUBSET Clients]
        /\ \A s \in Servers : conns'[s] \subseteq conns[s]
    BY <1>2, <2>2 DEF TypeOK, Servers
  <2>4. told' \in [WsClients -> {"nothing", "up", "down"}]
    BY <1>2, <2>2 DEF TypeOK
  <2> QED
    BY <2>1, <2>2, <2>3, <2>4 DEF TypeOK, RemovedStep, portVars, Servers
<1>4. CASE Top.c \notin conns[Top.s]
  <2>1. stack' \in Seq(Frames) /\ (gone \subseteq WsClients)'
    BY <1>1, <1>4, RaiseTyped DEF TypeOK, RemovedStep
  <2> QED
    BY <1>4, <2>1 DEF TypeOK, RemovedStep, portVars
<1> QED
  BY <1>3, <1>4

LEMMA ServeTyped ==
  ASSUME TypeOK, ServeStep
  PROVE  TypeOK'
<1>1. stack' \in Seq(Frames)
  BY ReturnTyped DEF TypeOK, ServeStep, Running
<1> QED
  BY <1>1 DEF TypeOK, ServeStep, clientVars, portVars

LEMMA AddTyped ==
  ASSUME TypeOK, AddStep
  PROVE  TypeOK'
<1>1. Top \in Frames /\ ~Idle
  BY TopFrame DEF TypeOK, AddStep, Running
<1>2. Top.s \in SocketServers /\ Top.c \in SocketClients
  BY <1>1, FrameOfSocket DEF AddStep, Running, SocketOps
<1>3. stack' \in Seq(Frames)
  BY <1>1, ReturnTyped DEF TypeOK, AddStep
<1>4. /\ conns' \in [Servers -> SUBSET Clients]
      /\ conns'[Top.s] = conns[Top.s] \cup {Top.c}
      /\ \A s \in Servers : s # Top.s => conns'[s] = conns[s]
  BY <1>2 DEF TypeOK, AddStep, Servers, Clients
<1> QED
  BY <1>2, <1>3, <1>4, SerialPortAssumption
  DEF TypeOK, AddStep, portVars, Servers, SerialPortAssumption

LEMMA HandshakeTyped ==
  ASSUME TypeOK, HandshakeStep
  PROVE  TypeOK'
<1>1. Top \in Frames /\ ~Idle
  BY TopFrame DEF TypeOK, HandshakeStep, Running
<1>2. Top.s \in SocketServers /\ Top.c \in SocketClients
  BY <1>1, FrameOfSocket DEF HandshakeStep, Running, SocketOps
<1>3. <<On("drop", Top.s, Top.c)>> \in Seq(Frames) /\ <<Connect>> \in Seq(Frames)
  BY <1>2, CallsAreFrames, TuplesOfFrames DEF SocketOps
<1>4. stack' \in Seq(Frames)
  BY <1>1, <1>3, CallTyped, ReturnTyped DEF TypeOK, HandshakeStep
<1> QED
  BY <1>4 DEF TypeOK, HandshakeStep, portVars

LEMMA DropTyped ==
  ASSUME TypeOK, DropStep
  PROVE  TypeOK'
<1>1. Top \in Frames /\ ~Idle
  BY TopFrame DEF TypeOK, DropStep, Running
<1>2. <<Release>> \in Seq(Frames) /\ <<>> \in Seq(Frames)
  BY CallsAreFrames, TuplesOfFrames, EmptySeq
<1>3. stack' \in Seq(Frames)
  BY <1>1, <1>2, CallTyped DEF TypeOK, DropStep
<1>4. /\ conns' \in [Servers -> SUBSET Clients]
      /\ \A s \in Servers : conns'[s] \subseteq conns[s]
  BY DEF TypeOK, DropStep
<1> QED
  BY <1>3, <1>4 DEF TypeOK, DropStep, portVars, Servers

LEMMA ReapTyped ==
  ASSUME TypeOK, ReapStep
  PROVE  TypeOK'
<1>1. Top \in Frames /\ ~Idle /\ Top.s \in Servers
  BY TopFrame, FrameOfServer DEF TypeOK, ReapStep, Running
<1>2. CASE Return
  BY <1>1, <1>2, ReturnTyped DEF TypeOK, ReapStep, clientVars, portVars
<1>3. ASSUME NEW c \in conns[Top.s], Top.s \in SocketServers,
             Call(<<On("drop", Top.s, c), Top>>)
      PROVE  stack' \in Seq(Frames)
  <2>1. c \in SocketClients
    BY <1>3 DEF TypeOK
  <2>2. <<On("drop", Top.s, c), Top>> \in Seq(Frames)
    BY <1>1, <1>3, <2>1, CallsAreFrames, TuplesOfFrames DEF SocketOps
  <2> QED
    BY <1>1, <1>3, <2>2, CallTyped DEF TypeOK
<1>4. ASSUME NEW c \in conns[Top.s], c \in gone,
             Call(<<On("remove", Top.s, c), Top>>)
      PROVE  stack' \in Seq(Frames)
  <2>1. c \in WsClients
    BY <1>4 DEF TypeOK
  <2>2. Top.s \in WsServers
    BY <1>1, <2>1, SerialPortAssumption DEF TypeOK, Servers, SerialPortAssumption
  <2>3. <<On("remove", Top.s, c), Top>> \in Seq(Frames)
    BY <1>1, <2>1, <2>2, CallsAreFrames, TuplesOfFrames DEF WsOps
  <2> QED
    BY <1>1, <1>4, <2>3, CallTyped DEF TypeOK
<1>5. CASE ~Return
  <2>1. stack' \in Seq(Frames)
    BY <1>3, <1>4, <1>5 DEF ReapStep
  <2> QED
    BY <2>1 DEF TypeOK, ReapStep, clientVars, portVars
<1> QED
  BY <1>2, <1>5

LEMMA RetryTyped ==
  ASSUME TypeOK, RetryStep
  PROVE  TypeOK'
<1>1. <<Connect>> \in Seq(Frames)
  BY CallsAreFrames, TuplesOfFrames
<1>2. stack' \in Seq(Frames)
  BY <1>1, CallTyped, ReturnTyped DEF TypeOK, RetryStep, Running
<1> QED
  BY <1>2 DEF TypeOK, RetryStep, clientVars

LEMMA ShutTyped ==
  ASSUME TypeOK, ShutStep
  PROVE  TypeOK'
<1>1. Top \in Frames /\ ~Idle
  BY TopFrame DEF TypeOK, ShutStep, Running
<1>2. <<Release>> \in Seq(Frames) /\ <<>> \in Seq(Frames)
  BY CallsAreFrames, TuplesOfFrames, EmptySeq
<1>3. stack' \in Seq(Frames)
  BY <1>1, <1>2, CallTyped DEF TypeOK, ShutStep
<1>4. /\ conns' \in [Servers -> SUBSET Clients]
      /\ \A s \in Servers : conns'[s] \subseteq conns[s]
  BY DEF TypeOK, ShutStep
<1>5. attached' \in [WsServers -> SUBSET WsClients]
  BY DEF TypeOK, ShutStep
<1>6. /\ told' \in [WsClients -> {"nothing", "up", "down"}]
      /\ greeted' \subseteq greeted /\ gone' \subseteq WsClients
  BY DEF TypeOK, ShutStep
<1> QED
  BY <1>3, <1>4, <1>5, <1>6 DEF TypeOK, ShutStep, portVars, Servers

LEMMA RebuildTyped ==
  ASSUME TypeOK, RebuildStep
  PROVE  TypeOK'
<1>1. Top \in Frames /\ ~Idle
  BY TopFrame DEF TypeOK, RebuildStep, Running
<1>2. Top.layout \in Seq(Servers)
  BY <1>1, FrameOfRebuild, SerialPortAssumption DEF RebuildStep, Running, SerialPortAssumption
<1>3. <<Release>> \in Seq(Frames) /\ <<>> \in Seq(Frames)
  BY CallsAreFrames, TuplesOfFrames, EmptySeq
<1>4. stack' \in Seq(Frames)
  BY <1>1, <1>3, CallTyped, ReturnTyped DEF TypeOK, RebuildStep
<1>5. servers' \in Seq(Servers) /\ down' \subseteq SocketServers
  BY <1>2 DEF TypeOK, RebuildStep
<1> QED
  BY <1>4, <1>5 DEF TypeOK, RebuildStep, clientVars

\* The list without its last server.
LEMMA WithoutLast ==
  ASSUME servers \in Seq(Servers), servers # <<>>
  PROVE  /\ SubSeq(servers, 1, Len(servers) - 1) \in Seq(Servers)
         /\ servers[Len(servers)] \in Servers
<1>1. Len(servers) \in Nat \ {0}
  BY EmptySeq
<1>2. \A i \in 1 .. Len(servers) : servers[i] \in Servers
  BY ElementOfSeq
<1> QED
  BY <1>1, <1>2, SubSeqProperties

LEMMA CloseTyped ==
  ASSUME TypeOK, CloseStep
  PROVE  TypeOK'
<1>1. CASE servers = <<>>
  <2>1. <<Release>> \in Seq(Frames)
    BY CallsAreFrames, TuplesOfFrames
  <2>2. stack' \in Seq(Frames)
    BY <1>1, <2>1, CallTyped DEF TypeOK, CloseStep, Running
  <2> QED
    BY <1>1, <2>2 DEF TypeOK, CloseStep, clientVars
<1>2. CASE servers # <<>>
  <2>1. SubSeq(servers, 1, Len(servers) - 1) \in Seq(Servers) /\ servers[Len(servers)] \in Servers
    BY <1>2, WithoutLast DEF TypeOK
  <2>2. <<Shut(servers[Len(servers)]), CloseNext>> \in Seq(Frames)
    BY <2>1, CallsAreFrames, TuplesOfFrames
  <2>3. stack' \in Seq(Frames)
    BY <1>2, <2>2, CallTyped DEF TypeOK, CloseStep, Running
  <2> QED
    BY <1>2, <2>1, <2>3 DEF TypeOK, CloseStep, clientVars
<1> QED
  BY <1>1, <1>2

-----------------------------------------------------------------------------
(* And so does each handler that begins *)

\* One call for every server in the list.
LEMMA ServerCalls ==
  ASSUME servers \in Seq(Servers)
  PROVE  /\ \A msg \in Msgs : [i \in DOMAIN servers |-> Tell(servers[i], msg)] \in Seq(Frames)
         /\ [i \in DOMAIN servers |-> Reap(servers[i])] \in Seq(Frames)
<1>1. Len(servers) \in Nat /\ DOMAIN servers = 1 .. Len(servers)
  BY LenProperties
<1>2. \A i \in 1 .. Len(servers) : servers[i] \in Servers
  BY ElementOfSeq
<1>3. ASSUME NEW msg \in Msgs
      PROVE  [i \in DOMAIN servers |-> Tell(servers[i], msg)] \in Seq(Frames)
  <2>1. \A i \in 1 .. Len(servers) : Tell(servers[i], msg) \in Frames
    BY <1>2, CallsAreFrames
  <2> QED
    BY <1>1, <2>1
<1>4. [i \in DOMAIN servers |-> Reap(servers[i])] \in Seq(Frames)
  <2>1. \A i \in 1 .. Len(servers) : Reap(servers[i]) \in Frames
    BY <1>2, CallsAreFrames
  <2> QED
    BY <1>1, <2>1
<1> QED
  BY <1>3, <1>4

LEMMA WsEventTyped ==
  ASSUME TypeOK, NEW s \in WsServers, NEW c \in WsClients,
         WsArrives(s, c) \/ WsAttaches(s, c) \/ WsDetaches(s, c) \/ WsDropped(s, c)
  PROVE  TypeOK'
<1>1. /\ Connect \in Frames /\ Release \in Frames
      /\ On("join", s, c) \in Frames /\ On("hello", s, c) \in Frames
      /\ On("reply", s, c) \in Frames /\ On("serve", s, c) \in Frames
      /\ On("remove", s, c) \in Frames
  BY CallsAreFrames DEF WsOps
<1>2. CASE WsArrives(s, c)
  <2>1. stack' \in Seq(Frames)
    BY <1>1, <1>2, TuplesOfFrames DEF WsArrives, Start
  <2>2. /\ conns' \in [Servers -> SUBSET Clients]
        /\ conns'[s] = conns[s] \cup {c}
        /\ \A z \in Servers : z # s => conns'[z] = conns[z]
    BY <1>2 DEF TypeOK, WsArrives, Servers, Clients
  <2>3. /\ \A z \in SocketServers : conns'[z] \subseteq SocketClients
        /\ \A z \in WsServers : conns'[z] \subseteq WsClients
    BY <2>2, SerialPortAssumption DEF TypeOK, Servers, SerialPortAssumption
  <2> QED
    BY <1>2, <2>1, <2>2, <2>3 DEF TypeOK, WsArrives, portVars
<1>3. CASE WsAttaches(s, c)
  <2>1. stack' \in Seq(Frames)
    BY <1>1, <1>3, TuplesOfFrames DEF WsAttaches, Start
  <2> QED
    BY <1>3, <2>1 DEF TypeOK, WsAttaches, clientVars, portVars
<1>4. CASE WsDetaches(s, c)
  <2>1. stack' \in Seq(Frames)
    BY <1>1, <1>4, TuplesOfFrames DEF WsDetaches, Start
  <2>2. attached' \in [WsServers -> SUBSET WsClients]
    BY <1>4 DEF TypeOK, WsDetaches
  <2> QED
    BY <1>4, <2>1, <2>2 DEF TypeOK, WsDetaches, portVars
<1>5. CASE WsDropped(s, c)
  <2>1. stack' \in Seq(Frames)
    BY <1>1, <1>5, TuplesOfFrames DEF WsDropped, Start
  <2> QED
    BY <1>5, <2>1 DEF TypeOK, WsDropped, portVars
<1> QED
  BY <1>2, <1>3, <1>4, <1>5

LEMMA SocketEventTyped ==
  ASSUME TypeOK, NEW s \in SocketServers, NEW c \in SocketClients,
         SocketArrives(s, c) \/ TlsArrives(s, c) \/ TlsRefused(s, c) \/ TlsReady(s, c)
         \/ SocketLeaves(s, c)
  PROVE  TypeOK'
<1>1. /\ Connect \in Frames /\ On("add", s, c) \in Frames
      /\ On("handshake", s, c) \in Frames /\ On("drop", s, c) \in Frames
      /\ Release \in Frames
  BY CallsAreFrames DEF SocketOps
<1>2. stack' \in Seq(Frames)
  BY <1>1, TuplesOfFrames DEF SocketArrives, TlsArrives, TlsReady, SocketLeaves, TlsRefused, Start
<1>3. CASE TlsArrives(s, c)
  <2>1. /\ conns' \in [Servers -> SUBSET Clients]
        /\ conns'[s] = conns[s] \cup {c}
        /\ \A z \in Servers : z # s => conns'[z] = conns[z]
    BY <1>3 DEF TypeOK, TlsArrives, Servers, Clients
  <2>2. /\ \A z \in SocketServers : conns'[z] \subseteq SocketClients
        /\ \A z \in WsServers : conns'[z] \subseteq WsClients
    BY <2>1, SerialPortAssumption DEF TypeOK, Servers, SerialPortAssumption
  <2> QED
    BY <1>2, <1>3, <2>1, <2>2 DEF TypeOK, TlsArrives, portVars
<1> QED
  BY <1>2, <1>3 DEF TypeOK, SocketArrives, TlsReady, SocketLeaves, TlsRefused, clientVars, portVars

LEMMA ReconcileTyped ==
  ASSUME TypeOK, NEW layout \in Layouts, Reconcile(layout)
  PROVE  TypeOK'
<1> DEFINE out == {i \in DOMAIN servers : servers[i] \notin Range(layout)}
<1>1. PICK n \in 0 .. Len(servers) : \E going \in [1 .. n -> out] :
        Start([i \in 1 .. n |-> Shut(servers[going[i]])] \o <<Rebuild(layout)>>)
  BY DEF Reconcile
<1>2. PICK going \in [1 .. n -> out] :
        Start([i \in 1 .. n |-> Shut(servers[going[i]])] \o <<Rebuild(layout)>>)
  BY <1>1
<1>3. \A i \in 1 .. n : servers[going[i]] \in Servers
  BY ElementOfSeq, LenProperties DEF TypeOK
<1>4. \A i \in 1 .. n : Shut(servers[going[i]]) \in Frames
  BY <1>3, CallsAreFrames
<1>5. n \in Nat
  BY LenProperties DEF TypeOK
<1>6. [i \in 1 .. n |-> Shut(servers[going[i]])] \in Seq(Frames)
  BY <1>4, <1>5
<1>7. <<Rebuild(layout)>> \in Seq(Frames)
  BY CallsAreFrames, TuplesOfFrames
<1>8. stack' \in Seq(Frames)
  BY <1>2, <1>6, <1>7, ConcatProperties DEF Start
<1> QED
  BY <1>8 DEF TypeOK, Reconcile, clientVars, portVars

LEMMA OtherEventTyped ==
  ASSUME TypeOK,
         \/ \E c \in WsClients : WsDies(c)
         \/ Tick \/ DeviceFails \/ DeviceData \/ Plug \/ IntervalPasses \/ Close
  PROVE  TypeOK'
<1>1. CASE \E c \in WsClients : WsDies(c)
  BY <1>1 DEF TypeOK, WsDies, portVars
<1>2. CASE Tick
  <2>1. /\ [i \in DOMAIN servers |-> Reap(servers[i])] \in Seq(Frames)
        /\ <<Retry>> \in Seq(Frames)
    BY ServerCalls, CallsAreFrames, TuplesOfFrames DEF TypeOK
  <2>2. [i \in DOMAIN servers |-> Reap(servers[i])] \o <<Retry>> \in Seq(Frames)
    BY <2>1, ConcatProperties
  <2> QED
    BY <1>2, <2>2 DEF TypeOK, Tick, Start, clientVars, portVars
<1>3. CASE DeviceFails
  <2>1. <<Announce(FALSE), LetGo>> \in Seq(Frames)
    BY CallsAreFrames, TuplesOfFrames
  <2> QED
    BY <1>3, <2>1 DEF TypeOK, DeviceFails, Start, clientVars, portVars
<1>4. CASE DeviceData
  <2>1. [i \in DOMAIN servers |-> Tell(servers[i], "data")] \in Seq(Frames)
    BY ServerCalls DEF TypeOK, Msgs
  <2> QED
    BY <1>4, <2>1 DEF TypeOK, DeviceData, Start, clientVars, portVars
<1>5. CASE Plug
  BY <1>5 DEF TypeOK, Plug, clientVars, portVars
<1>6. CASE IntervalPasses
  BY <1>6 DEF TypeOK, IntervalPasses, clientVars
<1>7. CASE Close
  <2>1. <<CloseNext>> \in Seq(Frames)
    BY CallsAreFrames, TuplesOfFrames
  <2> QED
    BY <1>7, <2>1 DEF TypeOK, Close, Start, clientVars, portVars
<1> QED
  BY <1>1, <1>2, <1>3, <1>4, <1>5, <1>6, <1>7

LEMMA NextTyped ==
  ASSUME TypeOK, [Next]_vars
  PROVE  TypeOK'
<1>1. CASE Step
  BY <1>1, ConnectTyped, ConnectRaisesTyped, AnnounceTyped, ReleaseTyped, LetGoTyped,
     TellSocketTyped,
     TellWsTyped, CastTyped, JoinTyped, HelloTyped, ReplyTyped, RemoveTyped,
     RemovedTyped, ServeTyped, AddTyped, HandshakeTyped, DropTyped, ReapTyped,
     RetryTyped, ShutTyped, RebuildTyped, CloseTyped DEF Step
<1>2. CASE Tick \/ Event
  BY <1>2, WsEventTyped, SocketEventTyped, ReconcileTyped, OtherEventTyped DEF Event
<1>3. CASE UNCHANGED vars
  BY <1>3 DEF TypeOK, vars, clientVars, portVars
<1> QED
  BY <1>1, <1>2, <1>3 DEF Next

LEMMA InitTyped ==
  ASSUME Init
  PROVE  TypeOK
<1>1. servers \in Seq(Servers)
  BY SerialPortAssumption DEF Init, SerialPortAssumption
<1>2. stack \in Seq(Frames)
  BY EmptySeq DEF Init
<1> QED
  BY <1>1, <1>2 DEF Init, TypeOK, Servers

\* The attributes of the port, its servers and its clients hold what they can
\* hold, and the stack only calls with the arguments they take.
THEOREM TypeCorrect == Spec => []TypeOK
<1> QED
  BY InitTyped, NextTyped, PTL DEF Spec

-----------------------------------------------------------------------------
(* The flag of the last announcement and the device *)

\* The calls that read the device or the flag and act on it.
Hinge == {"announce", "release", "let_go"}

\* A removal about to be finished finds its client.
Guarded(s, cs) ==
  /\ Len(s) >= 1 /\ s[1].op = "removed" => s[1].c \in cs[s[1].s]
  /\ Len(s) >= 2 /\ s[1].op = "release" /\ s[2].op = "removed" => s[2].c \in cs[s[2].s]

\* The device has just opened, or is about to be announced as closing.
Rises(s) == Len(s) >= 1 /\ s[1].op = "announce" /\ s[1].up
Falls(s) == Len(s) >= 1 /\ s[1].op = "announce" /\ ~s[1].up

\* With dev a device that is open and can be read: the flag is never up without
\* one. It is down over one only while the opening is being announced, or the
\* closing has been and let_go, which closes it, is still to come; and no removal
\* can fail before it does.
Sync(s, dev, ann, cs) ==
  /\ IsList(s) /\ Shape(s)
  /\ ann => dev
  /\ Rises(s) => dev /\ ~ann /\ ~Has(s, "let_go")
  /\ Falls(s) => Len(s) >= 2 /\ s[2].op = "let_go"
  /\ Has(s, "let_go") => ~ann \/ Falls(s)
  /\ dev /\ ~ann => Has(s, "let_go") \/ Rises(s)
  /\ dev => Guarded(s, cs)

Plain(a) == \A i \in 1 .. Len(a) : a[i].op \notin {"announce", "let_go"}

LEMMA CallTop ==
  ASSUME NEW s, IsList(s), s # <<>>, NEW a, IsList(a)
  PROVE  /\ IsList(GoesOn(s, a)) /\ Len(GoesOn(s, a)) = Len(a) + Len(s) - 1
         /\ Len(GoesOn(s, a)) \in Nat /\ Len(a) \in Nat /\ Len(s) \in Nat /\ Len(s) >= 1
         /\ Len(a) >= 1 => GoesOn(s, a)[1] = a[1]
         /\ Len(a) >= 2 => GoesOn(s, a)[2] = a[2]
         /\ Len(a) = 1 /\ Len(s) >= 2 => GoesOn(s, a)[2] = s[2]
         /\ Len(a) = 0 /\ Len(s) >= 2 => GoesOn(s, a)[1] = s[2]
<1>1. Len(s) \in Nat /\ Len(a) \in Nat
  BY ListLength
<1>2. /\ IsList(Tail(s)) /\ Len(s) >= 1 /\ Len(Tail(s)) = Len(s) - 1
      /\ \A i \in 1 .. Len(s) - 1 : Tail(s)[i] = s[i + 1]
  BY ListTail
<1>3. /\ IsList(GoesOn(s, a)) /\ Len(GoesOn(s, a)) = Len(a) + (Len(s) - 1)
      /\ \A i \in 1 .. Len(a) + (Len(s) - 1) :
            GoesOn(s, a)[i] = IF i <= Len(a) THEN a[i] ELSE Tail(s)[i - Len(a)]
  BY <1>2, ListConcat DEF GoesOn
<1>4. Len(a) >= 1 => GoesOn(s, a)[1] = a[1]
  <2>1. Len(a) >= 1 => 1 \in 1 .. Len(a) + (Len(s) - 1)
    BY <1>1, <1>2
  <2> QED
    BY <2>1, <1>3
<1>5. Len(a) >= 2 => GoesOn(s, a)[2] = a[2]
  <2>1. Len(a) >= 2 => 2 \in 1 .. Len(a) + (Len(s) - 1)
    BY <1>1, <1>2
  <2> QED
    BY <2>1, <1>3
<1>6. Len(a) = 1 /\ Len(s) >= 2 => GoesOn(s, a)[2] = s[2]
  <2>1. Len(a) = 1 /\ Len(s) >= 2 =>
          2 \in 1 .. Len(a) + (Len(s) - 1) /\ 1 \in 1 .. Len(s) - 1 /\ ~(2 <= Len(a)) /\ 2 - Len(a) = 1
    BY <1>1
  <2>2. Len(a) = 1 /\ Len(s) >= 2 => GoesOn(s, a)[2] = Tail(s)[1] /\ Tail(s)[1] = s[1 + 1]
    BY <2>1, <1>2, <1>3
  <2>3. 1 + 1 = 2
    OBVIOUS
  <2> QED
    BY <2>2, <2>3
<1>7. Len(a) = 0 /\ Len(s) >= 2 => GoesOn(s, a)[1] = s[2]
  <2>1. Len(a) = 0 /\ Len(s) >= 2 =>
          1 \in 1 .. Len(a) + (Len(s) - 1) /\ 1 \in 1 .. Len(s) - 1 /\ ~(1 <= Len(a)) /\ 1 - Len(a) = 1
    BY <1>1
  <2>2. Len(a) = 0 /\ Len(s) >= 2 => GoesOn(s, a)[1] = Tail(s)[1] /\ Tail(s)[1] = s[1 + 1]
    BY <2>1, <1>2, <1>3
  <2>3. 1 + 1 = 2
    OBVIOUS
  <2> QED
    BY <2>2, <2>3
<1>8. Len(GoesOn(s, a)) = Len(a) + Len(s) - 1 /\ Len(GoesOn(s, a)) \in Nat
  BY <1>1, <1>2, <1>3
<1> QED
  BY <1>1, <1>2, <1>3, <1>4, <1>5, <1>6, <1>7, <1>8

LEMMA CallFirst ==
  ASSUME NEW s, IsList(s), s # <<>>, NEW a, IsList(a), Len(a) >= 1
  PROVE  GoesOn(s, a)[1] = a[1]
<1>1. Len(a) >= 1 => GoesOn(s, a)[1] = a[1]
  BY CallTop
<1> QED
  BY <1>1

LEMMA CallSecond ==
  ASSUME NEW s, IsList(s), s # <<>>, NEW a, IsList(a), Len(a) >= 2
  PROVE  GoesOn(s, a)[2] = a[2]
<1>1. Len(a) >= 2 => GoesOn(s, a)[2] = a[2]
  BY CallTop
<1> QED
  BY <1>1

\* What lies under the running call.
LEMMA SecondFits ==
  ASSUME NEW s, IsList(s), Shape(s), Len(s) >= 2
  PROVE  Fits(s[1], s[2]) /\ Touches(s[1], s[2])
<1>1. 1 \in 1 .. Len(s) /\ 2 \in 1 .. Len(s) /\ 1 < 2 /\ 1 + 1 <= Len(s) /\ 1 + 1 = 2
  BY ListLength
<1> QED
  BY <1>1 DEF Shape

LEMMA CallHas ==
  ASSUME NEW s, IsList(s), s # <<>>, NEW a, IsList(a), NEW op
  PROVE  /\ Has(GoesOn(s, a), op) <=> Has(a, op) \/ Has(Tail(s), op)
         /\ Has(s, op) <=> s[1].op = op \/ Has(Tail(s), op)
BY ListTail, ConcatHas, TailHas DEF GoesOn

LEMMA PlainHas ==
  ASSUME NEW a, Plain(a)
  PROVE  ~Has(a, "let_go")
BY DEF Plain, Has

\* The call goes on without touching the device or its announcement.
LEMMA QuietCall ==
  ASSUME NEW s, s # <<>>, NEW dev \in BOOLEAN, NEW ann \in BOOLEAN, NEW cs,
         Sync(s, dev, ann, cs), s[1].op \notin Hinge,
         NEW a, IsList(a), Shape(a), Plain(a), NEW cs2, Guarded(a, cs2),
         \A i \in 1 .. Len(a) : StandsIn(a[i], s[1])
  PROVE  Sync(GoesOn(s, a), dev, ann, cs2)
<1>1. IsList(s) /\ Shape(s)
  BY DEF Sync
<1>2. IsList(GoesOn(s, a)) /\ Shape(GoesOn(s, a))
  BY <1>1, CallShape DEF Hinge
<1>4. Has(GoesOn(s, a), "let_go") <=> Has(s, "let_go")
  BY <1>1, CallHas, PlainHas DEF Hinge
<1>3. Len(a) \in Nat /\ Len(s) \in Nat /\ Len(s) >= 1
  BY <1>1, CallTop
<1>10. Len(GoesOn(s, a)) = Len(a) + Len(s) - 1
  BY <1>1, CallTop
<1>11. Len(a) >= 1 => GoesOn(s, a)[1] = a[1]
  BY <1>1, CallTop
<1>12. Len(a) >= 2 => GoesOn(s, a)[2] = a[2]
  BY <1>1, CallTop
<1>13. Len(a) = 1 /\ Len(s) >= 2 => GoesOn(s, a)[2] = s[2]
  BY <1>1, CallTop
<1>14. Len(a) = 0 /\ Len(s) >= 2 => GoesOn(s, a)[1] = s[2]
  BY <1>1, CallTop
<1>5. Len(s) >= 2 => s[2].op \notin {"announce", "release", "removed"}
  BY <1>1, SecondFits DEF Fits, Touches, Hinge
<1>6. Len(GoesOn(s, a)) >= 1 => GoesOn(s, a)[1].op # "announce"
  <2>1. CASE Len(a) = 0
    BY <2>1, <1>3, <1>5, <1>10, <1>14
  <2>2. CASE Len(a) >= 1
    <3>1. 1 \in 1 .. Len(a)
      BY <2>2, <1>3
    <3> QED
      BY <2>2, <3>1, <1>11 DEF Plain
  <2>3. Len(a) = 0 \/ Len(a) >= 1
    BY <1>3
  <2> QED
    BY <2>1, <2>2, <2>3
<1>7. Guarded(GoesOn(s, a), cs2)
  <2>1. CASE Len(a) = 0
    BY <2>1, <1>3, <1>5, <1>10, <1>14 DEF Guarded
  <2>2. CASE Len(a) = 1
    BY <2>2, <1>3, <1>5, <1>10, <1>11, <1>13 DEF Guarded
  <2>3. CASE Len(a) >= 2
    <3>1. /\ a[1].op = "removed" => a[1].c \in cs2[a[1].s]
          /\ a[1].op = "release" /\ a[2].op = "removed" => a[2].c \in cs2[a[2].s]
      BY <2>3, <1>3 DEF Guarded
    <3>2. GoesOn(s, a)[1] = a[1] /\ GoesOn(s, a)[2] = a[2]
      BY <2>3, <1>3, <1>11, <1>12
    <3> QED
      BY <3>1, <3>2 DEF Guarded
  <2>4. Len(a) = 0 \/ Len(a) = 1 \/ Len(a) >= 2
    <3>1. \A n \in Nat : n = 0 \/ n = 1 \/ n >= 2
      OBVIOUS
    <3> QED
      BY <3>1, <1>3
  <2> QED
    BY <2>1, <2>2, <2>3, <2>4
<1>8. ~Rises(GoesOn(s, a)) /\ ~Falls(GoesOn(s, a))
  BY <1>6 DEF Rises, Falls
<1>9. ~Rises(s) /\ ~Falls(s)
  BY DEF Rises, Falls, Hinge
<1> QED
  BY <1>2, <1>4, <1>7, <1>8, <1>9 DEF Sync

\* A handler begins, and so far leaves the device alone.
LEMMA QuietStart ==
  ASSUME NEW dev \in BOOLEAN, NEW ann \in BOOLEAN, NEW cs, Sync(<<>>, dev, ann, cs),
         NEW a, IsList(a), Shape(a), Plain(a), NEW cs2, Guarded(a, cs2)
  PROVE  Sync(a, dev, ann, cs2)
<1>1. ~Has(<<>>, "let_go") /\ ~Rises(<<>>) /\ ~Falls(<<>>)
  BY ListTuples DEF Has, Rises, Falls
<1>2. ann = dev
  BY <1>1 DEF Sync
<1>3. ~Has(a, "let_go")
  BY PlainHas
<1>4. ~Rises(a) /\ ~Falls(a)
  BY ListLength DEF Plain, Rises, Falls
<1> QED
  BY <1>2, <1>3, <1>4 DEF Sync

LEMMA NothingRuns ==
  ASSUME NEW dev \in BOOLEAN, NEW ann \in BOOLEAN, NEW cs, ann = dev
  PROVE  Sync(<<>>, dev, ann, cs)
<1>1. /\ IsList(<<>>) /\ Len(<<>>) = 0
      /\ ~Has(<<>>, "let_go") /\ ~Rises(<<>>) /\ ~Falls(<<>>)
  BY ListTuples DEF Has, Rises, Falls
<1>2. Shape(<<>>) /\ Guarded(<<>>, cs)
  BY <1>1 DEF Shape, Guarded
<1> QED
  BY <1>1, <1>2 DEF Sync

\* Calls all of one kind, as one for every server, fit on each other.
LEMMA UniformShape ==
  ASSUME NEW a, IsList(a), NEW op \in {"tell", "reap", "shut"},
         \A i \in 1 .. Len(a) : a[i].op = op
  PROVE  Shape(a) /\ Plain(a) /\ \A cs : Guarded(a, cs)
<1>1. \A i, j \in 1 .. Len(a) : Fits(a[i], a[j]) /\ Touches(a[i], a[j])
  BY DEF Fits, Touches, Outer, Final, Entering, Plan
<1>2. Len(a) \in Nat
  BY ListLength
<1>3. \A i \in 1 .. Len(a) : i + 1 <= Len(a) => i + 1 \in 1 .. Len(a)
  BY <1>2
<1>4. Shape(a)
  BY <1>1, <1>3 DEF Shape
<1>5. Plain(a)
  BY DEF Plain
<1>6. Len(a) >= 1 => a[1].op = op
  BY <1>2
<1> QED
  BY <1>4, <1>5, <1>6 DEF Guarded

\* Short lists of calls.
LEMMA NoneShape ==
  Shape(<<>>) /\ Plain(<<>>) /\ \A cs : Guarded(<<>>, cs)
BY ListTuples DEF Shape, Plain, Guarded

LEMMA OneShape ==
  ASSUME NEW f
  PROVE  /\ Shape(<<f>>)
         /\ f.op \notin {"announce", "let_go"} => Plain(<<f>>)
         /\ \A cs : (f.op = "removed" => f.c \in cs[f.s]) => Guarded(<<f>>, cs)
BY ListTuples DEF Shape, Plain, Guarded

LEMMA TwoShape ==
  ASSUME NEW f, NEW g, Fits(f, g), Touches(f, g)
  PROVE  /\ Shape(<<f, g>>)
         /\ f.op \notin {"announce", "let_go"} /\ g.op \notin {"announce", "let_go"} =>
              Plain(<<f, g>>)
         /\ \A cs : /\ f.op = "removed" => f.c \in cs[f.s]
                    /\ g.op = "removed" => g.c \in cs[g.s]
                    => Guarded(<<f, g>>, cs)
<1>1. /\ IsList(<<f, g>>) /\ Len(<<f, g>>) = 2
      /\ <<f, g>>[1] = f /\ <<f, g>>[2] = g
  BY ListTuples
<1>2. \A i \in 1 .. 2 : i = 1 \/ i = 2
  OBVIOUS
<1>3. \A i, j \in 1 .. 2 : i < j => i = 1 /\ j = 2
  OBVIOUS
<1>4. \A i \in 1 .. 2 : i + 1 <= 2 => i = 1 /\ i + 1 = 2
  OBVIOUS
<1>5. Shape(<<f, g>>)
  BY <1>1, <1>3, <1>4 DEF Shape
<1> QED
  BY <1>1, <1>2, <1>5 DEF Plain, Guarded

-----------------------------------------------------------------------------
(* The calls that turn on the device *)

LEMMA ConnectSync ==
  ASSUME NEW s, s # <<>>, s[1].op = "connect", NEW ann \in BOOLEAN, NEW cs,
         Sync(s, FALSE, ann, cs)
  PROVE  Sync(GoesOn(s, <<Announce(TRUE)>>), TRUE, ann, cs)
<1> DEFINE f == Announce(TRUE)
           a == <<f>>
<1>1. IsList(s) /\ Shape(s) /\ ~ann
  BY DEF Sync
<1>2. f.op = "announce" /\ f.up = TRUE
  BY DEF Announce
<1> HIDE DEF f
<1>3. IsList(a) /\ Len(a) = 1 /\ a[1] = f
  BY ListTuples
<1>4. Shape(a)
  BY OneShape
<1>5. StandsIn(f, s[1])
  BY <1>2 DEF StandsIn, Outer, Entering, Plan, Final
<1> HIDE DEF a
<1>6. \A i \in 1 .. Len(a) : StandsIn(a[i], s[1])
  BY <1>3, <1>5
<1>7. IsList(GoesOn(s, a)) /\ Shape(GoesOn(s, a))
  BY <1>1, <1>3, <1>4, <1>6, CallShape
<1>8. GoesOn(s, a)[1] = f
  <2>1. GoesOn(s, a)[1] = a[1]
    BY <1>1, <1>3, CallFirst
  <2> QED
    BY <2>1, <1>3
<1>9. Len(GoesOn(s, a)) >= 1
  <2>1. Len(GoesOn(s, a)) = Len(a) + Len(s) - 1
    BY <1>1, <1>3, CallTop
  <2>2. Len(s) \in Nat /\ Len(s) >= 1
    BY <1>1, <1>3, CallTop
  <2> QED
    BY <2>1, <2>2, <1>3
<1>10. ~Has(GoesOn(s, a), "let_go")
  <2>1. \A j \in 1 .. Len(s) : s[j].op # "let_go"
    <3>1. 1 \in 1 .. Len(s)
      BY <1>1, ListTail, ListLength
    <3>2. ASSUME NEW j \in 1 .. Len(s), j # 1
          PROVE  s[j].op # "let_go"
      <4>1. 1 < j
        BY <3>2, <1>1, ListLength
      <4>2. Fits(s[1], s[j])
        BY <3>1, <4>1, <1>1 DEF Shape
      <4> QED
        BY <4>2 DEF Fits, Outer
    <3> QED
      BY <3>2
  <2>2. ~Has(s, "let_go")
    BY <2>1 DEF Has
  <2>3. ~Has(a, "let_go")
    BY <1>2, <1>3 DEF Has
  <2> QED
    BY <2>2, <2>3, <1>1, <1>3, CallHas
<1>11. Rises(GoesOn(s, a)) /\ ~Falls(GoesOn(s, a))
  BY <1>2, <1>8, <1>9 DEF Rises, Falls
<1>12. Guarded(GoesOn(s, a), cs)
  BY <1>2, <1>8 DEF Guarded
<1>13. Sync(GoesOn(s, a), TRUE, ann, cs)
  BY <1>1, <1>7, <1>10, <1>11, <1>12 DEF Sync
<1> QED
  BY <1>13 DEF a, f

\* A call that returns uncovers one that neither announces nor releases.
\* What is left when a call returns.
LEMMA Uncovered ==
  ASSUME NEW s, IsList(s), Shape(s), s # <<>>
  PROVE  /\ IsList(GoesOn(s, <<>>)) /\ Shape(GoesOn(s, <<>>))
         /\ ~Rises(GoesOn(s, <<>>)) /\ ~Falls(GoesOn(s, <<>>))
         /\ \A cs : (Len(s) >= 2 /\ s[2].op = "removed" => s[2].c \in cs[s[2].s]) =>
                       Guarded(GoesOn(s, <<>>), cs)
<1> DEFINE a == <<>>
<1>1. IsList(a) /\ Len(a) = 0 /\ Shape(a)
  BY ListTuples, NoneShape
<1>2. a = <<>>
  OBVIOUS
<1> HIDE DEF a
<1>3. \A i \in 1 .. Len(a) : StandsIn(a[i], s[1])
  BY <1>1
<1>4. IsList(GoesOn(s, a)) /\ Shape(GoesOn(s, a))
  BY <1>1, <1>2, <1>3, CallShape
<1>5. Len(GoesOn(s, a)) = Len(a) + Len(s) - 1
  BY <1>1, CallTop
<1>6. Len(s) \in Nat /\ Len(s) >= 1
  BY <1>1, CallTop
<1>7. Len(a) = 0 /\ Len(s) >= 2 => GoesOn(s, a)[1] = s[2]
  BY <1>1, CallTop
<1>8. Len(s) >= 2 => s[2].op \notin {"announce", "release"}
  BY SecondFits DEF Fits
<1>9. Len(GoesOn(s, a)) >= 1 => Len(s) >= 2 /\ GoesOn(s, a)[1] = s[2]
  BY <1>1, <1>5, <1>6, <1>7
<1>10. Len(GoesOn(s, a)) \in Nat
  BY <1>4, ListLength
<1>11. ~Rises(GoesOn(s, a)) /\ ~Falls(GoesOn(s, a))
  BY <1>8, <1>9 DEF Rises, Falls
<1>12. ASSUME NEW cs, Len(s) >= 2 /\ s[2].op = "removed" => s[2].c \in cs[s[2].s]
       PROVE  Guarded(GoesOn(s, a), cs)
  <2>1. Len(GoesOn(s, a)) >= 1 /\ GoesOn(s, a)[1].op = "removed" =>
          GoesOn(s, a)[1].c \in cs[GoesOn(s, a)[1].s]
    BY <1>9, <1>12
  <2>2. Len(GoesOn(s, a)) >= 2 => GoesOn(s, a)[1].op # "release"
    BY <1>8, <1>9, <1>10
  <2> QED
    BY <2>1, <2>2 DEF Guarded
<1> QED
  BY <1>2, <1>4, <1>11, <1>12

LEMMA ReturnHas ==
  ASSUME NEW s, IsList(s), s # <<>>, NEW op
  PROVE  Has(s, op) <=> s[1].op = op \/ Has(GoesOn(s, <<>>), op)
<1>1. IsList(<<>>) /\ ~Has(<<>>, op)
  BY ListTuples DEF Has
<1> QED
  BY <1>1, CallHas

LEMMA AnnouncedSync ==
  ASSUME NEW s, s # <<>>, s[1].op = "announce", s[1].up \in BOOLEAN,
         NEW dev \in BOOLEAN, NEW ann \in BOOLEAN, NEW cs,
         Sync(s, dev, ann, cs), ann = s[1].up
  PROVE  Sync(GoesOn(s, <<>>), dev, ann, cs)
<1>1. IsList(s) /\ Shape(s)
  BY DEF Sync
<1>2. Len(s) >= 1
  BY <1>1, ListTail
<1>3. Falls(s) /\ ~ann
  BY <1>2 DEF Sync, Rises, Falls
<1>4. Len(s) >= 2 /\ s[2].op = "let_go"
  BY <1>3 DEF Sync
<1>5. Has(s, "let_go")
  <2>1. 2 \in 1 .. Len(s)
    BY <1>1, <1>4, ListLength
  <2> QED
    BY <1>4, <2>1 DEF Has
<1>6. Has(GoesOn(s, <<>>), "let_go")
  BY <1>1, <1>5, ReturnHas
<1>7. /\ IsList(GoesOn(s, <<>>)) /\ Shape(GoesOn(s, <<>>))
      /\ ~Rises(GoesOn(s, <<>>)) /\ ~Falls(GoesOn(s, <<>>))
      /\ Guarded(GoesOn(s, <<>>), cs)
  BY <1>1, <1>4, Uncovered
<1> QED
  BY <1>3, <1>6, <1>7 DEF Sync

LEMMA AnnounceSync ==
  ASSUME NEW s, s # <<>>, s[1].op = "announce", s[1].up \in BOOLEAN,
         NEW dev \in BOOLEAN, NEW ann \in BOOLEAN, NEW cs,
         Sync(s, dev, ann, cs),
         NEW a, IsList(a), \A i \in 1 .. Len(a) : a[i].op = "tell"
  PROVE  Sync(GoesOn(s, a), dev, s[1].up, cs)
<1>1. IsList(s) /\ Shape(s)
  BY DEF Sync
<1>2. Shape(a) /\ Plain(a) /\ Guarded(a, cs)
  BY UniformShape
<1>3. \A i \in 1 .. Len(a) : StandsIn(a[i], s[1])
  BY DEF StandsIn, Outer, Entering, Plan, Final
<1>4. IsList(GoesOn(s, a)) /\ Shape(GoesOn(s, a))
  BY <1>1, <1>2, <1>3, CallShape
<1>5. Len(s) \in Nat /\ Len(s) >= 1 /\ Len(a) \in Nat
  BY <1>1, CallTop
<1>6. Len(GoesOn(s, a)) = Len(a) + Len(s) - 1
  BY <1>1, CallTop
<1>7. Len(a) >= 1 => GoesOn(s, a)[1] = a[1]
  BY <1>1, CallTop
<1>8. Len(a) = 0 /\ Len(s) >= 2 => GoesOn(s, a)[1] = s[2]
  BY <1>1, CallTop
<1>9. Len(s) >= 2 => s[2].op \notin {"announce", "release", "removed"}
  BY <1>1, SecondFits DEF Fits, Touches
<1>10. Len(GoesOn(s, a)) >= 1 => GoesOn(s, a)[1].op \notin {"announce", "release", "removed"}
  <2>1. CASE Len(a) = 0
    BY <2>1, <1>5, <1>6, <1>8, <1>9
  <2>2. CASE Len(a) >= 1
    <3>1. 1 \in 1 .. Len(a)
      BY <2>2, <1>5
    <3> QED
      BY <2>2, <3>1, <1>7
  <2>3. Len(a) = 0 \/ Len(a) >= 1
    BY <1>5
  <2> QED
    BY <2>1, <2>2, <2>3
<1>11. Len(GoesOn(s, a)) \in Nat
  BY <1>4, ListLength
<1>12. ~Rises(GoesOn(s, a)) /\ ~Falls(GoesOn(s, a))
  BY <1>10 DEF Rises, Falls
<1>13. Guarded(GoesOn(s, a), cs)
  BY <1>10, <1>11 DEF Guarded
<1>14. Has(GoesOn(s, a), "let_go") <=> Has(s, "let_go")
  BY <1>1, <1>2, CallHas, PlainHas
<1>15. CASE s[1].up = TRUE
  <2>1. Rises(s)
    BY <1>5, <1>15 DEF Rises
  <2> QED
    BY <1>4, <1>12, <1>13, <1>14, <1>15, <2>1 DEF Sync
<1>16. CASE s[1].up = FALSE
  <2>1. Falls(s)
    BY <1>5, <1>16 DEF Falls
  <2>2. Len(s) >= 2 /\ s[2].op = "let_go"
    BY <2>1 DEF Sync
  <2>3. 2 \in 1 .. Len(s)
    BY <2>2, <1>5
  <2>4. Has(s, "let_go")
    BY <2>2, <2>3 DEF Has
  <2> QED
    BY <1>4, <1>12, <1>13, <1>14, <1>16, <2>4 DEF Sync
<1> QED
  BY <1>15, <1>16

LEMMA ReleaseSync ==
  ASSUME NEW s, s # <<>>, s[1].op = "release",
         NEW dev \in BOOLEAN, NEW ann \in BOOLEAN, NEW cs, Sync(s, dev, ann, cs)
  PROVE  /\ Sync(GoesOn(s, <<Announce(FALSE), LetGo>>), dev, ann, cs)
         /\ Sync(GoesOn(s, <<>>), dev, ann, cs)
<1>1. IsList(s) /\ Shape(s)
  BY DEF Sync
<1>2. ~Rises(s) /\ ~Falls(s)
  BY DEF Rises, Falls
<1>3. Sync(GoesOn(s, <<>>), dev, ann, cs)
  <2>1. /\ IsList(GoesOn(s, <<>>)) /\ Shape(GoesOn(s, <<>>))
        /\ ~Rises(GoesOn(s, <<>>)) /\ ~Falls(GoesOn(s, <<>>))
    BY <1>1, Uncovered
  <2>2. dev => Guarded(GoesOn(s, <<>>), cs)
    <3>1. dev => (Len(s) >= 2 /\ s[2].op = "removed" => s[2].c \in cs[s[2].s])
      BY DEF Sync, Guarded
    <3> QED
      BY <3>1, <1>1, Uncovered
  <2>3. Has(GoesOn(s, <<>>), "let_go") <=> Has(s, "let_go")
    BY <1>1, ReturnHas
  <2> QED
    BY <1>2, <2>1, <2>2, <2>3 DEF Sync
<1>4. Sync(GoesOn(s, <<Announce(FALSE), LetGo>>), dev, ann, cs)
  <2> DEFINE f == Announce(FALSE)
             g == LetGo
             a == <<f, g>>
  <2>1. f.op = "announce" /\ f.up = FALSE /\ g.op = "let_go"
    BY DEF Announce, LetGo
  <2> HIDE DEF f, g
  <2>2. IsList(a) /\ Len(a) = 2 /\ a[1] = f /\ a[2] = g
    BY ListTuples
  <2>3. Fits(f, g) /\ Touches(f, g)
    BY <2>1 DEF Fits, Touches, Outer, Final, Entering, Plan
  <2>4. Shape(a)
    BY <2>3, TwoShape
  <2> HIDE DEF a
  <2>5. \A i \in 1 .. Len(a) : a[i] = f \/ a[i] = g
    BY <2>2
  <2>6. \A i \in 1 .. Len(a) : StandsIn(a[i], s[1])
    BY <2>1, <2>5 DEF StandsIn, Outer, Entering, Plan, Final
  <2>7. a[Len(a)].op = "let_go"
    BY <2>1, <2>2
  <2>8. IsList(GoesOn(s, a)) /\ Shape(GoesOn(s, a))
    BY <1>1, <2>2, <2>4, <2>6, <2>7, CallShape
  <2>9. GoesOn(s, a)[1] = f
    <3>1. GoesOn(s, a)[1] = a[1]
      BY <1>1, <2>2, CallFirst
    <3> QED
      BY <3>1, <2>2
  <2>10. GoesOn(s, a)[2] = g
    <3>1. GoesOn(s, a)[2] = a[2]
      BY <1>1, <2>2, CallSecond
    <3> QED
      BY <3>1, <2>2
  <2>11. Len(GoesOn(s, a)) = Len(a) + Len(s) - 1
    BY <1>1, <2>2, CallTop
  <2>12. Len(s) \in Nat /\ Len(s) >= 1
    BY <1>1, <2>2, CallTop
  <2>13. Len(GoesOn(s, a)) >= 2
    BY <2>2, <2>11, <2>12
  <2>14. 2 \in 1 .. Len(GoesOn(s, a))
    BY <2>2, <2>11, <2>12
  <2>15. Has(GoesOn(s, a), "let_go")
    BY <2>1, <2>10, <2>14 DEF Has
  <2>16. Falls(GoesOn(s, a)) /\ ~Rises(GoesOn(s, a))
    BY <2>1, <2>9, <2>14 DEF Falls, Rises
  <2>17. Guarded(GoesOn(s, a), cs)
    BY <2>1, <2>9 DEF Guarded
  <2>18. Sync(GoesOn(s, a), dev, ann, cs)
    BY <2>1, <2>8, <2>10, <2>13, <2>15, <2>16, <2>17 DEF Sync
  <2> QED
    BY <2>18 DEF a, f, g
<1> QED
  BY <1>3, <1>4

LEMMA LetGoSync ==
  ASSUME NEW s, s # <<>>, s[1].op = "let_go",
         NEW dev \in BOOLEAN, NEW ann \in BOOLEAN, NEW cs, Sync(s, dev, ann, cs)
  PROVE  ~ann /\ Sync(GoesOn(s, <<>>), FALSE, ann, cs)
<1>1. IsList(s) /\ Shape(s)
  BY DEF Sync
<1>2. Has(s, "let_go")
  BY <1>1, ReturnHas
<1>3. ~Falls(s)
  BY DEF Falls
<1>4. ~ann
  BY <1>2, <1>3 DEF Sync
<1>5. /\ IsList(GoesOn(s, <<>>)) /\ Shape(GoesOn(s, <<>>))
      /\ ~Rises(GoesOn(s, <<>>)) /\ ~Falls(GoesOn(s, <<>>))
  BY <1>1, Uncovered
<1> QED
  BY <1>4, <1>5 DEF Sync

\* A device that fails between handlers had been announced.
LEMMA FailureSync ==
  ASSUME NEW dev \in BOOLEAN, NEW ann \in BOOLEAN, NEW cs, Sync(<<>>, dev, ann, cs)
  PROVE  Sync(<<Announce(FALSE), LetGo>>, dev, ann, cs)
<1> DEFINE f == Announce(FALSE)
           g == LetGo
           a == <<f, g>>
<1>1. f.op = "announce" /\ f.up = FALSE /\ g.op = "let_go"
  BY DEF Announce, LetGo
<1> HIDE DEF f, g
<1>2. IsList(a) /\ Len(a) = 2 /\ a[1] = f /\ a[2] = g
  BY ListTuples
<1>3. Fits(f, g) /\ Touches(f, g)
  BY <1>1 DEF Fits, Touches, Outer, Final, Entering, Plan
<1>4. Shape(a)
  BY <1>3, TwoShape
<1> HIDE DEF a
<1>5. Falls(a) /\ ~Rises(a)
  BY <1>1, <1>2 DEF Falls, Rises
<1>6. Has(a, "let_go")
  BY <1>1, <1>2 DEF Has
<1>7. Guarded(a, cs)
  BY <1>1, <1>2 DEF Guarded
<1>8. Sync(a, dev, ann, cs)
  BY <1>1, <1>2, <1>4, <1>5, <1>6, <1>7 DEF Sync
<1> QED
  BY <1>8 DEF a, f, g

-----------------------------------------------------------------------------
(* The steps *)

\* The inductive invariant of the port.
Inv ==
  /\ TypeOK
  /\ Sync(stack, readable, announced, conns)
  /\ readable => device
  /\ device /\ ~readable => PairFails

SameDevice == UNCHANGED <<readable, announced>>

LEMMA RunningStack ==
  ASSUME TypeOK, ~Idle
  PROVE  /\ IsList(stack) /\ stack # <<>> /\ Top = stack[1] /\ Top \in Frames
         /\ readable \in BOOLEAN /\ announced \in BOOLEAN
BY TopFrame DEF TypeOK, Idle, IsList

LEMMA GoOn ==
  ASSUME Inv, ~Idle, Top.op \notin Hinge, SameDevice,
         NEW a, IsList(a), Shape(a), Plain(a), Guarded(a, conns'),
         \A i \in 1 .. Len(a) : StandsIn(a[i], Top), Call(a)
  PROVE  Sync(stack, readable, announced, conns)'
<1>1. /\ stack # <<>> /\ Top = stack[1]
      /\ readable \in BOOLEAN /\ announced \in BOOLEAN
  BY RunningStack DEF Inv
<1>2. stack' = GoesOn(stack, a)
  BY DEF Call, GoesOn
<1>3. Sync(stack, readable, announced, conns)
  BY DEF Inv
<1>4. Sync(GoesOn(stack, a), readable, announced, conns')
  BY <1>1, <1>3, QuietCall
<1> QED
  BY <1>2, <1>4 DEF SameDevice

LEMMA ReturnGoesOn ==
  ASSUME Inv, ~Idle, Top.op \notin Hinge, SameDevice, Return
  PROVE  Sync(stack, readable, announced, conns)'
<1> DEFINE a == <<>>
<1>1. /\ IsList(a) /\ Shape(a) /\ Plain(a) /\ Guarded(a, conns')
      /\ Len(a) = 0 /\ Call(a)
  BY ListTuples, NoneShape DEF Return
<1> HIDE DEF a
<1>2. \A i \in 1 .. Len(a) : StandsIn(a[i], Top)
  BY <1>1
<1> QED
  BY <1>1, <1>2, GoOn

LEMMA OneGoesOn ==
  ASSUME Inv, ~Idle, Top.op \notin Hinge, SameDevice,
         NEW f, f.op \notin {"announce", "let_go"}, StandsIn(f, Top),
         f.op = "removed" => f.c \in conns'[f.s], Call(<<f>>)
  PROVE  Sync(stack, readable, announced, conns)'
<1> DEFINE a == <<f>>
<1>1. Shape(a) /\ Plain(a) /\ Guarded(a, conns') /\ Call(a)
  BY OneShape
<1>2. IsList(a) /\ \A i \in 1 .. Len(a) : a[i] = f
  BY ListTuples
<1> HIDE DEF a
<1> QED
  BY <1>1, <1>2, GoOn

LEMMA TwoGoOn ==
  ASSUME Inv, ~Idle, Top.op \notin Hinge, SameDevice,
         NEW f, f.op \notin {"announce", "let_go"}, StandsIn(f, Top),
         f.op = "removed" => f.c \in conns'[f.s],
         NEW g, g.op \notin {"announce", "let_go"}, StandsIn(g, Top),
         g.op = "removed" => g.c \in conns'[g.s],
         Fits(f, g), Touches(f, g), Call(<<f, g>>)
  PROVE  Sync(stack, readable, announced, conns)'
<1> DEFINE a == <<f, g>>
<1>1. Shape(a) /\ Plain(a) /\ Guarded(a, conns') /\ Call(a)
  BY TwoShape
<1>2. IsList(a) /\ \A i \in 1 .. Len(a) : a[i] = f \/ a[i] = g
  BY ListTuples
<1> HIDE DEF a
<1>3. \A i \in 1 .. Len(a) : StandsIn(a[i], Top)
  BY <1>2
<1> QED
  BY <1>1, <1>2, <1>3, GoOn

LEMMA ConnectInv ==
  ASSUME Inv, ConnectStep
  PROVE  Sync(stack, readable, announced, conns)'
<1>1. ~Idle /\ Top.op = "connect"
  BY DEF ConnectStep, Running
<1>2. CASE device \/ ~plugged
  BY <1>1, <1>2, ReturnGoesOn DEF ConnectStep, SameDevice, Hinge
<1>3. CASE ~(device \/ ~plugged)
  <2>1. /\ stack' = GoesOn(stack, <<Announce(TRUE)>>)
        /\ readable = FALSE /\ readable' = TRUE /\ announced' = announced /\ conns' = conns
    BY <1>3 DEF ConnectStep, Call, GoesOn, clientVars, Inv, TypeOK
  <2>2. stack # <<>> /\ stack[1].op = "connect" /\ announced \in BOOLEAN
    BY <1>1, RunningStack DEF Inv
  <2>3. Sync(stack, FALSE, announced, conns)
    BY <2>1 DEF Inv
  <2>4. Sync(GoesOn(stack, <<Announce(TRUE)>>), TRUE, announced, conns)
    BY <2>2, <2>3, ConnectSync
  <2> QED
    BY <2>1, <2>4
<1> QED
  BY <1>2, <1>3

LEMMA ConnectRaisesInv ==
  ASSUME Inv, ConnectRaises
  PROVE  Sync(stack, readable, announced, conns)'
<1>1. stack' = <<>> /\ readable = FALSE /\ readable' = FALSE /\ announced' = announced
  BY DEF ConnectRaises, Raise, Inv, TypeOK
<1>2. announced = FALSE
  BY <1>1 DEF Inv, Sync, TypeOK
<1> QED
  BY <1>1, <1>2, NothingRuns

LEMMA AnnounceInv ==
  ASSUME Inv, AnnounceStep
  PROVE  Sync(stack, readable, announced, conns)'
<1>1. ~Idle /\ Top.op = "announce"
  BY DEF AnnounceStep, Running
<1>2. /\ stack # <<>> /\ stack[1].op = "announce" /\ stack[1].up \in BOOLEAN
      /\ Top = stack[1] /\ readable \in BOOLEAN /\ announced \in BOOLEAN
  BY <1>1, RunningStack, FrameOfAnnounce DEF Inv
<1>3. Sync(stack, readable, announced, conns)
  BY DEF Inv
<1>4. readable' = readable /\ announced' = stack[1].up /\ conns' = conns
  BY <1>2 DEF AnnounceStep, clientVars
<1>5. CASE announced = Top.up
  <2>1. stack' = GoesOn(stack, <<>>)
    BY <1>5 DEF AnnounceStep, Return, Call, GoesOn
  <2>2. Sync(GoesOn(stack, <<>>), readable, announced, conns)
    BY <1>2, <1>3, <1>5, AnnouncedSync
  <2> QED
    BY <1>2, <1>4, <1>5, <2>1, <2>2
<1>6. CASE announced # Top.up
  <2> DEFINE msg == IF Top.up THEN "up" ELSE "down"
             a == [i \in DOMAIN servers |-> Tell(servers[i], msg)]
  <2>1. stack' = GoesOn(stack, a)
    BY <1>6 DEF AnnounceStep, Call, GoesOn
  <2>2. a \in Seq(Frames)
    <3>1. msg \in Msgs
      BY DEF Msgs
    <3> HIDE DEF msg
    <3> QED
      BY <3>1, ServerCalls DEF Inv, TypeOK
  <2>3. DOMAIN a = 1 .. Len(a)
    BY <2>2, LenProperties
  <2>4. \A i \in DOMAIN a : a[i].op = "tell"
    BY DEF Tell
  <2> HIDE DEF a
  <2>5. IsList(a) /\ \A i \in 1 .. Len(a) : a[i].op = "tell"
    BY <2>2, <2>3, <2>4 DEF IsList
  <2>6. Sync(GoesOn(stack, a), readable, stack[1].up, conns)
    BY <1>2, <1>3, <2>5, AnnounceSync
  <2> QED
    BY <1>4, <2>1, <2>6
<1> QED
  BY <1>5, <1>6

LEMMA ReleaseInv ==
  ASSUME Inv, ReleaseStep
  PROVE  Sync(stack, readable, announced, conns)'
<1>1. ~Idle /\ Top.op = "release"
  BY DEF ReleaseStep, Running
<1>2. /\ stack # <<>> /\ stack[1].op = "release"
      /\ readable \in BOOLEAN /\ announced \in BOOLEAN
  BY <1>1, RunningStack DEF Inv
<1>3. Sync(stack, readable, announced, conns)
  BY DEF Inv
<1>4. readable' = readable /\ announced' = announced /\ conns' = conns
  BY DEF ReleaseStep, clientVars, portVars
<1>5. \/ stack' = GoesOn(stack, <<Announce(FALSE), LetGo>>)
      \/ stack' = GoesOn(stack, <<>>)
  BY DEF ReleaseStep, Call, Return, GoesOn
<1> QED
  BY <1>2, <1>3, <1>4, <1>5, ReleaseSync

LEMMA LetGoInv ==
  ASSUME Inv, LetGoStep
  PROVE  Sync(stack, readable, announced, conns)'
<1>1. ~Idle /\ Top.op = "let_go"
  BY DEF LetGoStep, Running
<1>2. /\ stack # <<>> /\ stack[1].op = "let_go"
      /\ readable \in BOOLEAN /\ announced \in BOOLEAN
  BY <1>1, RunningStack DEF Inv
<1>3. Sync(stack, readable, announced, conns)
  BY DEF Inv
<1>4. ~announced /\ Sync(GoesOn(stack, <<>>), FALSE, announced, conns)
  BY <1>2, <1>3, LetGoSync
<1>5. announced' = announced /\ conns' = conns
  BY DEF LetGoStep
<1>6. CASE device
  <2>1. stack' = GoesOn(stack, <<>>) /\ readable' = FALSE
    BY <1>6 DEF LetGoStep, Return, Call, GoesOn
  <2> QED
    BY <1>4, <1>5, <2>1
<1>7. CASE ~device
  <2>1. stack' = <<>> /\ readable' = FALSE
    BY <1>2, <1>7 DEF LetGoStep, Raise, Inv
  <2>2. Sync(<<>>, FALSE, announced, conns)
    BY <1>2, <1>4, NothingRuns
  <2> QED
    BY <1>5, <2>1, <2>2
<1> QED
  BY <1>6, <1>7

LEMMA TellInv ==
  ASSUME Inv, TellSocket \/ TellWs
  PROVE  Sync(stack, readable, announced, conns)'
<1>1. ~Idle /\ Top.op = "tell" /\ SameDevice
  BY DEF TellSocket, TellWs, Running, SameDevice, portVars
<1>2. CASE TellSocket
  BY <1>1, <1>2, ReturnGoesOn DEF TellSocket, Hinge
<1>3. CASE TellWs
  <2> DEFINE f == Cast(Top.s, Top.msg, Audience(Top.s, Top.msg))
  <2>1. Call(<<f>>)
    BY <1>3 DEF TellWs
  <2>2. f.op = "cast"
    BY DEF Cast
  <2> HIDE DEF f
  <2>3. StandsIn(f, Top)
    BY <2>2 DEF StandsIn, Outer, Entering, Plan, Final
  <2> QED
    BY <1>1, <2>1, <2>2, <2>3, OneGoesOn DEF Hinge
<1> QED
  BY <1>2, <1>3

LEMMA CastInv ==
  ASSUME Inv, CastStep
  PROVE  Sync(stack, readable, announced, conns)'
<1>1. ~Idle /\ Top.op = "cast" /\ SameDevice
  BY DEF CastStep, Running, SameDevice, portVars
<1>2. CASE Return
  BY <1>1, <1>2, ReturnGoesOn DEF Hinge
<1>3. ASSUME NEW c \in Top.left,
             \/ Call(<<Cast(Top.s, Top.msg, Top.left \ {c})>>)
             \/ Call(<<On("remove", Top.s, c), Cast(Top.s, Top.msg, Top.left \ {c})>>)
      PROVE  Sync(stack, readable, announced, conns)'
  <2> DEFINE f == On("remove", Top.s, c)
             g == Cast(Top.s, Top.msg, Top.left \ {c})
  <2>1. Call(<<g>>) \/ Call(<<f, g>>)
    BY <1>3
  <2>2. f.op = "remove" /\ g.op = "cast"
    BY DEF Cast, On
  <2> HIDE DEF f, g
  <2>3. StandsIn(f, Top) /\ StandsIn(g, Top) /\ Fits(f, g) /\ Touches(f, g)
    BY <2>2 DEF StandsIn, Fits, Touches, Outer, Entering, Plan, Final
  <2>4. CASE Call(<<g>>)
    BY <1>1, <2>2, <2>3, <2>4, OneGoesOn DEF Hinge
  <2>5. CASE Call(<<f, g>>)
    BY <1>1, <2>2, <2>3, <2>5, TwoGoOn DEF Hinge
  <2> QED
    BY <2>1, <2>4, <2>5
<1>4. CASE ~Return
  BY <1>3, <1>4 DEF CastStep
<1> QED
  BY <1>2, <1>4

LEMMA RemoveInv ==
  ASSUME Inv, RemoveStep
  PROVE  Sync(stack, readable, announced, conns)'
<1>1. ~Idle /\ Top.op = "remove" /\ SameDevice /\ conns' = conns
  BY DEF RemoveStep, Running, SameDevice, portVars
<1>2. CASE Top.c \notin conns[Top.s]
  BY <1>1, <1>2, ReturnGoesOn DEF RemoveStep, Hinge
<1>3. CASE Top.c \in conns[Top.s]
  <2> DEFINE g == On("removed", Top.s, Top.c)
  <2>1. Call(<<Release, g>>) \/ Call(<<g>>)
    BY <1>3 DEF RemoveStep
  <2>2. g.op = "removed" /\ g.c = Top.c /\ g.s = Top.s /\ Release.op = "release"
    BY DEF On, Release
  <2> HIDE DEF g
  <2>4. /\ StandsIn(Release, Top) /\ StandsIn(g, Top)
        /\ Fits(Release, g) /\ Touches(Release, g)
    BY <2>2 DEF StandsIn, Fits, Touches, Outer, Entering, Plan, Final
  <2>5. g.c \in conns'[g.s]
    BY <1>1, <1>3, <2>2
  <2>6. CASE Call(<<g>>)
    BY <1>1, <2>2, <2>4, <2>5, <2>6, OneGoesOn DEF Hinge
  <2>7. CASE Call(<<Release, g>>)
    <3> DEFINE f == Release
    <3>1. f.op = "release" /\ StandsIn(f, Top) /\ Fits(f, g) /\ Touches(f, g) /\ Call(<<f, g>>)
      BY <2>2, <2>4, <2>7
    <3> HIDE DEF f
    <3> QED
      BY <1>1, <2>2, <2>4, <2>5, <3>1, TwoGoOn DEF Hinge
  <2> QED
    BY <2>1, <2>6, <2>7
<1> QED
  BY <1>2, <1>3

LEMMA RemovedInv ==
  ASSUME Inv, RemovedStep
  PROVE  Sync(stack, readable, announced, conns)'
<1>1. ~Idle /\ Top.op = "removed" /\ SameDevice
  BY DEF RemovedStep, Running, SameDevice, portVars
<1>2. CASE Top.c \in conns[Top.s]
  BY <1>1, <1>2, ReturnGoesOn DEF RemovedStep, Hinge
<1>3. CASE Top.c \notin conns[Top.s]
  <2>1. /\ IsList(stack) /\ stack # <<>> /\ Top = stack[1]
        /\ readable \in BOOLEAN /\ announced \in BOOLEAN
    BY <1>1, RunningStack DEF Inv
  <2>2. Len(stack) >= 1
    BY <2>1, ListTail
  <2>3. readable = FALSE /\ announced = FALSE
    BY <1>1, <1>3, <2>1, <2>2 DEF Inv, Sync, Guarded
  <2>4. stack' = <<>> /\ readable' = FALSE /\ announced' = FALSE
    BY <1>1, <1>3, <2>3 DEF RemovedStep, Raise, SameDevice
  <2> QED
    BY <2>4, NothingRuns
<1> QED
  BY <1>2, <1>3

LEMMA ReapInv ==
  ASSUME Inv, ReapStep
  PROVE  Sync(stack, readable, announced, conns)'
<1>1. ~Idle /\ Top.op = "reap" /\ SameDevice
  BY DEF ReapStep, Running, SameDevice, portVars
<1>2. CASE Return
  BY <1>1, <1>2, ReturnGoesOn DEF Hinge
<1>3. ASSUME NEW c \in conns[Top.s], NEW op \in {"drop", "remove"},
             Call(<<On(op, Top.s, c), Top>>)
      PROVE  Sync(stack, readable, announced, conns)'
  <2> DEFINE f == On(op, Top.s, c)
  <2>1. Call(<<f, Top>>)
    BY <1>3
  <2>2. f.op = op
    BY DEF On
  <2> HIDE DEF f
  <2>3. StandsIn(f, Top) /\ StandsIn(Top, Top) /\ Fits(f, Top) /\ Touches(f, Top)
    BY <1>1, <2>2 DEF StandsIn, Fits, Touches, Outer, Entering, Plan, Final
  <2> QED
    BY <1>1, <2>1, <2>2, <2>3, TwoGoOn DEF Hinge
<1>4. CASE ~Return
  BY <1>3, <1>4 DEF ReapStep
<1> QED
  BY <1>2, <1>4

LEMMA CloseInv ==
  ASSUME Inv, CloseStep
  PROVE  Sync(stack, readable, announced, conns)'
<1>1. ~Idle /\ Top.op = "close_next" /\ SameDevice
  BY DEF CloseStep, Running, SameDevice
<1>2. CASE servers = <<>>
  <2> DEFINE f == Release
  <2>1. f.op = "release" /\ Call(<<f>>)
    BY <1>2 DEF Release, CloseStep
  <2> HIDE DEF f
  <2>2. StandsIn(f, Top)
    BY <2>1 DEF StandsIn, Outer, Entering, Plan, Final
  <2> QED
    BY <1>1, <2>1, <2>2, OneGoesOn DEF Hinge
<1>3. CASE servers # <<>>
  <2> DEFINE f == Shut(servers[Len(servers)])
             g == CloseNext
  <2>1. f.op = "shut" /\ g.op = "close_next" /\ Call(<<f, g>>)
    BY <1>3 DEF Shut, CloseNext, CloseStep
  <2> HIDE DEF f, g
  <2>2. StandsIn(f, Top) /\ StandsIn(g, Top) /\ Fits(f, g) /\ Touches(f, g)
    BY <1>1, <2>1 DEF StandsIn, Fits, Touches, Outer, Entering, Plan, Final
  <2> QED
    BY <1>1, <2>1, <2>2, TwoGoOn DEF Hinge
<1> QED
  BY <1>2, <1>3

\* The others return, or call one thing.
LEMMA OneCallInv ==
  ASSUME Inv, NEW f, SameDevice, ~Idle, Call(<<f>>) \/ Return,
         \/ f.op = "remove" /\ Top.op \in {"hello", "reply"}
         \/ f.op = "drop" /\ Top.op = "handshake"
         \/ f.op = "connect" /\ Top.op \in {"handshake", "retry"}
         \/ f.op = "release" /\ Top.op \in {"drop", "shut", "rebuild"}
  PROVE  Sync(stack, readable, announced, conns)'
<1>1. Top.op \notin Hinge /\ f.op \notin {"announce", "let_go", "removed"}
  BY DEF Hinge
<1>2. StandsIn(f, Top)
  BY DEF StandsIn, Outer, Entering, Plan, Final
<1> QED
  BY <1>1, <1>2, ReturnGoesOn, OneGoesOn

LEMMA OtherStepInv ==
  ASSUME Inv,
         \/ JoinStep \/ HelloStep \/ ReplyStep \/ ServeStep \/ AddStep
         \/ HandshakeStep \/ DropStep \/ RetryStep \/ ShutStep \/ RebuildStep
  PROVE  Sync(stack, readable, announced, conns)'
<1>1. ~Idle /\ SameDevice
  BY DEF JoinStep, HelloStep, ReplyStep, ServeStep, AddStep, HandshakeStep,
         DropStep, RetryStep, ShutStep, RebuildStep, Running, SameDevice, portVars
<1>2. CASE JoinStep \/ ServeStep \/ AddStep
  BY <1>1, <1>2, ReturnGoesOn DEF JoinStep, ServeStep, AddStep, Running, Hinge
<1>3. CASE HelloStep \/ ReplyStep
  <2> DEFINE f == On("remove", Top.s, Top.c)
  <2>1. /\ f.op = "remove" /\ Top.op \in {"hello", "reply"}
        /\ Call(<<f>>) \/ Return
    BY <1>3 DEF On, HelloStep, ReplyStep, Running
  <2> HIDE DEF f
  <2> QED
    BY <1>1, <2>1, OneCallInv
<1>4. CASE HandshakeStep
  <2> DEFINE f == On("drop", Top.s, Top.c)
             g == Connect
  <2>1. /\ f.op = "drop" /\ g.op = "connect" /\ Top.op = "handshake"
        /\ Call(<<f>>) \/ Call(<<g>>) \/ Return
    BY <1>4 DEF On, Connect, HandshakeStep, Running
  <2> HIDE DEF f, g
  <2> QED
    BY <1>1, <2>1, OneCallInv
<1>5. CASE RetryStep
  <2> DEFINE g == Connect
  <2>1. /\ g.op = "connect" /\ Top.op = "retry"
        /\ Call(<<g>>) \/ Return
    BY <1>5 DEF Connect, RetryStep, Running
  <2> HIDE DEF g
  <2> QED
    BY <1>1, <2>1, OneCallInv
<1>6. CASE DropStep \/ ShutStep \/ RebuildStep
  <2> DEFINE g == Release
  <2>1. /\ g.op = "release" /\ Top.op \in {"drop", "shut", "rebuild"}
        /\ Call(<<g>>) \/ Return
    BY <1>6 DEF Release, DropStep, ShutStep, RebuildStep, Running, Return
  <2> HIDE DEF g
  <2> QED
    BY <1>1, <2>1, OneCallInv
<1> QED
  BY <1>2, <1>3, <1>4, <1>5, <1>6

-----------------------------------------------------------------------------
(* The handlers that begin *)

\* No handler begins with an announcement, but for a device that fails.
Fresh(a) == \A i \in 1 .. Len(a) : a[i].op \notin {"announce", "let_go", "removed"}

LEMMA FreshStart ==
  ASSUME Inv, NEW a, IsList(a), Shape(a), Fresh(a), Start(a), SameDevice
  PROVE  Sync(stack, readable, announced, conns)'
<1>1. Plain(a)
  BY DEF Fresh, Plain
<1>2. Guarded(a, conns')
  <2>1. Len(a) \in Nat
    BY ListLength
  <2>2. /\ Len(a) >= 1 => a[1].op # "removed"
        /\ Len(a) >= 2 => a[2].op # "removed"
    BY <2>1 DEF Fresh
  <2> QED
    BY <2>2 DEF Guarded
<1>3. Sync(<<>>, readable, announced, conns) /\ readable \in BOOLEAN /\ announced \in BOOLEAN
  BY DEF Inv, TypeOK, Start, Idle
<1>4. Sync(a, readable, announced, conns')
  BY <1>1, <1>2, <1>3, QuietStart
<1> QED
  BY <1>4 DEF Start, SameDevice

LEMMA OneStart ==
  ASSUME Inv, NEW f, f.op \notin {"announce", "let_go", "removed"}, Start(<<f>>), SameDevice
  PROVE  Sync(stack, readable, announced, conns)'
<1> DEFINE a == <<f>>
<1>1. Shape(a) /\ Start(a)
  BY OneShape
<1>2. IsList(a) /\ \A i \in 1 .. Len(a) : a[i] = f
  BY ListTuples
<1> HIDE DEF a
<1>3. Fresh(a)
  BY <1>2 DEF Fresh
<1> QED
  BY <1>1, <1>2, <1>3, FreshStart

LEMMA TwoStart ==
  ASSUME Inv, NEW f, f.op \notin {"announce", "let_go", "removed"},
         NEW g, g.op \notin {"announce", "let_go", "removed"},
         Fits(f, g), Start(<<f, g>>), SameDevice
  PROVE  Sync(stack, readable, announced, conns)'
<1> DEFINE a == <<f, g>>
<1>1. Touches(f, g)
  BY DEF Touches
<1>2. Shape(a) /\ Start(a)
  BY <1>1, TwoShape
<1>3. IsList(a) /\ \A i \in 1 .. Len(a) : a[i] = f \/ a[i] = g
  BY ListTuples
<1> HIDE DEF a
<1>4. Fresh(a)
  BY <1>3 DEF Fresh
<1> QED
  BY <1>2, <1>3, <1>4, FreshStart

LEMMA ThreeStart ==
  ASSUME Inv, NEW f, f.op \notin {"announce", "let_go", "removed"},
         NEW g, g.op \notin {"announce", "let_go", "removed"},
         NEW h, h.op \notin {"announce", "let_go", "removed"},
         Fits(f, g), Fits(f, h), Fits(g, h), Start(<<f, g, h>>), SameDevice
  PROVE  Sync(stack, readable, announced, conns)'
<1> DEFINE a == <<f, g, h>>
<1>1. IsList(a) /\ Len(a) = 3 /\ a[1] = f /\ a[2] = g /\ a[3] = h /\ Start(a)
  BY ListTuples
<1> HIDE DEF a
<1>2. \A i, j \in 1 .. 3 : i < j => (i = 1 /\ j = 2) \/ (i = 1 /\ j = 3) \/ (i = 2 /\ j = 3)
  OBVIOUS
<1>3. \A i \in 1 .. 3 : a[i] \in {f, g, h}
  <2>1. \A i \in 1 .. 3 : i = 1 \/ i = 2 \/ i = 3
    OBVIOUS
  <2> QED
    BY <1>1, <2>1
<1>4. Fresh(a)
  BY <1>1, <1>3 DEF Fresh
<1>5. \A i, j \in 1 .. 3 : i < j => Fits(a[i], a[j])
  BY <1>1, <1>2
<1>6. \A i \in 1 .. 3 : i + 1 <= 3 => Touches(a[i], a[i + 1])
  BY <1>3 DEF Touches
<1>7. Shape(a)
  BY <1>1, <1>5, <1>6 DEF Shape
<1> QED
  BY <1>1, <1>4, <1>7, FreshStart

LEMMA FourStart ==
  ASSUME Inv, NEW f, f.op \notin {"announce", "let_go", "removed"},
         NEW g, g.op \notin {"announce", "let_go", "removed"},
         NEW h, h.op \notin {"announce", "let_go", "removed"},
         NEW k, k.op \notin {"announce", "let_go", "removed"},
         Fits(f, g), Fits(f, h), Fits(f, k), Fits(g, h), Fits(g, k), Fits(h, k),
         Start(<<f, g, h, k>>), SameDevice
  PROVE  Sync(stack, readable, announced, conns)'
<1> DEFINE a == <<f, g, h, k>>
<1>1. /\ IsList(a) /\ Len(a) = 4 /\ a[1] = f /\ a[2] = g /\ a[3] = h /\ a[4] = k
      /\ Start(a)
  BY ListTuples
<1> HIDE DEF a
<1>2. \A i, j \in 1 .. 4 : i < j =>
        \/ i = 1 /\ j \in {2, 3, 4}
        \/ i = 2 /\ j \in {3, 4}
        \/ i = 3 /\ j = 4
  OBVIOUS
<1>3. \A i \in 1 .. 4 : a[i] \in {f, g, h, k}
  <2>1. \A i \in 1 .. 4 : i = 1 \/ i = 2 \/ i = 3 \/ i = 4
    OBVIOUS
  <2> QED
    BY <1>1, <2>1
<1>4. Fresh(a)
  BY <1>1, <1>3 DEF Fresh
<1>5. \A i, j \in 1 .. 4 : i < j => Fits(a[i], a[j])
  BY <1>1, <1>2
<1>6. \A i \in 1 .. 4 : i + 1 <= 4 => Touches(a[i], a[i + 1])
  BY <1>3 DEF Touches
<1>7. Shape(a)
  BY <1>1, <1>5, <1>6 DEF Shape
<1> QED
  BY <1>1, <1>4, <1>7, FreshStart

\* One call for every server, and one more.
LEMMA ManyStart ==
  ASSUME Inv, NEW op \in {"reap", "shut"}, NEW a, IsList(a),
         \A i \in 1 .. Len(a) : a[i].op = op,
         NEW f, f.op \in {"retry", "rebuild"}, Start(a \o <<f>>), SameDevice
  PROVE  Sync(stack, readable, announced, conns)'
<1> DEFINE b == <<f>>
<1>1. IsList(b) /\ Len(b) = 1 /\ b[1] = f /\ Shape(b) /\ Start(a \o b)
  BY ListTuples, OneShape
<1> HIDE DEF b
<1>2. Shape(a) /\ Plain(a)
  BY UniformShape
<1>3. Len(a) \in Nat
  BY ListLength
<1>4. \A i \in 1 .. Len(a), j \in 1 .. Len(b) : Fits(a[i], b[j])
  BY <1>1 DEF Fits, Outer, Entering, Plan, Final
<1>5. Touches(a[Len(a)], b[1])
  BY <1>1 DEF Touches
<1>6. IsList(a \o b) /\ Shape(a \o b)
  BY <1>1, <1>2, <1>4, <1>5, ConcatShape
<1>7. /\ Len(a \o b) = Len(a) + Len(b)
      /\ \A i \in 1 .. Len(a) + Len(b) : (a \o b)[i] = IF i <= Len(a) THEN a[i] ELSE b[i - Len(a)]
  BY <1>1, ListConcat
<1>8. ASSUME NEW i \in 1 .. Len(a) + Len(b)
      PROVE  (a \o b)[i].op \in {"reap", "shut", "retry", "rebuild"}
  <2>1. CASE i <= Len(a)
    <3>1. i \in 1 .. Len(a)
      BY <2>1, <1>3
    <3> QED
      BY <2>1, <3>1, <1>7
  <2>2. CASE ~(i <= Len(a))
    <3>1. i - Len(a) = 1
      BY <2>2, <1>1, <1>3
    <3> QED
      BY <2>2, <3>1, <1>1, <1>7
  <2> QED
    BY <2>1, <2>2
<1>9. Fresh(a \o b)
  BY <1>7, <1>8 DEF Fresh
<1> QED
  BY <1>1, <1>6, <1>9, FreshStart

LEMMA WsEventInv ==
  ASSUME Inv, NEW s \in WsServers, NEW c \in WsClients,
         WsArrives(s, c) \/ WsAttaches(s, c) \/ WsDetaches(s, c) \/ WsDropped(s, c)
  PROVE  Sync(stack, readable, announced, conns)'
<1> DEFINE conn == Connect
           rel  == Release
           join == On("join", s, c)
           hi   == On("hello", s, c)
           rep  == On("reply", s, c)
           srv  == On("serve", s, c)
           rem  == On("remove", s, c)
<1>1. SameDevice
  BY DEF WsArrives, WsAttaches, WsDetaches, WsDropped, SameDevice, portVars
<1>2. \/ Start(<<conn, join, hi, srv>>)
      \/ Start(<<conn, join, rep, srv>>)
      \/ Start(<<rep, srv>>)
      \/ Start(<<rel, rep, srv>>)
      \/ Start(<<rem>>)
  BY DEF WsArrives, WsAttaches, WsDetaches, WsDropped
<1>3. /\ conn.op = "connect" /\ rel.op = "release" /\ join.op = "join" /\ hi.op = "hello"
      /\ rep.op = "reply" /\ srv.op = "serve" /\ rem.op = "remove"
  BY DEF On, Connect, Release
<1> HIDE DEF conn, rel, join, hi, rep, srv, rem
<1>4. /\ Fits(conn, join) /\ Fits(conn, hi) /\ Fits(conn, rep) /\ Fits(conn, srv)
      /\ Fits(join, hi) /\ Fits(join, rep) /\ Fits(join, srv)
      /\ Fits(hi, srv) /\ Fits(rep, srv) /\ Fits(rel, rep) /\ Fits(rel, srv)
  BY <1>3 DEF Fits, Outer, Entering, Plan, Final
<1>5. CASE Start(<<conn, join, hi, srv>>)
  BY <1>1, <1>3, <1>4, <1>5, FourStart
<1>6. CASE Start(<<conn, join, rep, srv>>)
  BY <1>1, <1>3, <1>4, <1>6, FourStart
<1>7. CASE Start(<<rep, srv>>)
  BY <1>1, <1>3, <1>4, <1>7, TwoStart
<1>8. CASE Start(<<rel, rep, srv>>)
  BY <1>1, <1>3, <1>4, <1>8, ThreeStart
<1>9. CASE Start(<<rem>>)
  BY <1>1, <1>3, <1>9, OneStart
<1> QED
  BY <1>2, <1>5, <1>6, <1>7, <1>8, <1>9

LEMMA SocketEventInv ==
  ASSUME Inv, NEW s \in SocketServers, NEW c \in SocketClients,
         SocketArrives(s, c) \/ TlsArrives(s, c) \/ TlsRefused(s, c) \/ TlsReady(s, c)
         \/ SocketLeaves(s, c)
  PROVE  Sync(stack, readable, announced, conns)'
<1> DEFINE conn == Connect
           add  == On("add", s, c)
           hs   == On("handshake", s, c)
           drop == On("drop", s, c)
           rel  == Release
<1>1. SameDevice
  BY DEF SocketArrives, TlsArrives, TlsReady, SocketLeaves, TlsRefused, SameDevice, portVars
<1>2. Start(<<conn, add>>) \/ Start(<<hs>>) \/ Start(<<drop>>) \/ Start(<<rel>>)
  BY DEF SocketArrives, TlsArrives, TlsReady, SocketLeaves, TlsRefused
<1>3. /\ conn.op = "connect" /\ add.op = "add" /\ hs.op = "handshake" /\ drop.op = "drop"
      /\ rel.op = "release"
  BY DEF On, Connect, Release
<1> HIDE DEF conn, add, hs, drop, rel
<1>4. Fits(conn, add)
  BY <1>3 DEF Fits, Outer, Entering, Plan, Final
<1>5. CASE Start(<<conn, add>>)
  BY <1>1, <1>3, <1>4, <1>5, TwoStart
<1>6. CASE Start(<<hs>>) \/ Start(<<drop>>) \/ Start(<<rel>>)
  BY <1>1, <1>3, <1>6, OneStart
<1> QED
  BY <1>2, <1>5, <1>6

LEMMA ReconcileInv ==
  ASSUME Inv, NEW layout \in Layouts, Reconcile(layout)
  PROVE  Sync(stack, readable, announced, conns)'
<1> DEFINE out == {i \in DOMAIN servers : servers[i] \notin Range(layout)}
           f == Rebuild(layout)
<1>1. PICK n \in 0 .. Len(servers) : \E going \in [1 .. n -> out] :
        Start([i \in 1 .. n |-> Shut(servers[going[i]])] \o <<f>>)
  BY DEF Reconcile
<1>2. PICK going \in [1 .. n -> out] :
        Start([i \in 1 .. n |-> Shut(servers[going[i]])] \o <<f>>)
  BY <1>1
<1> DEFINE a == [i \in 1 .. n |-> Shut(servers[going[i]])]
<1>3. Start(a \o <<f>>)
  BY <1>2
<1>4. SameDevice /\ f.op = "rebuild"
  BY DEF Reconcile, SameDevice, portVars, Rebuild
<1>5. n \in Nat
  BY LenProperties DEF Inv, TypeOK
<1>6. \A i \in 1 .. n : a[i].op = "shut"
  BY DEF Shut
<1>7. a = [i \in 1 .. n |-> a[i]]
  OBVIOUS
<1> HIDE DEF a, f
<1>8. IsList(a) /\ Len(a) = n
  BY <1>5, <1>7, ListOf
<1>9. \A i \in 1 .. Len(a) : a[i].op = "shut"
  BY <1>6, <1>8
<1> QED
  BY <1>3, <1>4, <1>8, <1>9, ManyStart

LEMMA TickInv ==
  ASSUME Inv, Tick
  PROVE  Sync(stack, readable, announced, conns)'
<1> DEFINE a == [i \in DOMAIN servers |-> Reap(servers[i])]
           f == Retry
<1>1. Start(a \o <<f>>) /\ SameDevice /\ f.op = "retry"
  BY DEF Tick, SameDevice, portVars, Retry
<1>2. a \in Seq(Frames)
  BY ServerCalls DEF Inv, TypeOK
<1>3. \A i \in DOMAIN a : a[i].op = "reap"
  BY DEF Reap
<1> HIDE DEF a, f
<1>4. IsList(a) /\ \A i \in 1 .. Len(a) : a[i].op = "reap"
  BY <1>2, <1>3, LenProperties DEF IsList
<1> QED
  BY <1>1, <1>4, ManyStart

LEMMA DeviceEventInv ==
  ASSUME Inv, DeviceFails \/ DeviceData
  PROVE  Sync(stack, readable, announced, conns)'
<1>1. CASE DeviceFails
  <2>1. /\ stack = <<>> /\ stack' = <<Announce(FALSE), LetGo>> /\ readable \in BOOLEAN
        /\ announced \in BOOLEAN /\ Sync(stack, readable, announced, conns)
        /\ readable' = readable /\ announced' = announced /\ conns' = conns
    BY <1>1 DEF DeviceFails, Start, Idle, Inv, TypeOK, clientVars, portVars
  <2>2. Sync(<<Announce(FALSE), LetGo>>, readable, announced, conns)
    BY <2>1, FailureSync
  <2> QED
    BY <2>1, <2>2
<1>2. CASE DeviceData
  <2> DEFINE a == [i \in DOMAIN servers |-> Tell(servers[i], "data")]
  <2>1. Start(a) /\ SameDevice
    BY <1>2 DEF DeviceData, SameDevice, portVars
  <2>2. a \in Seq(Frames)
    BY ServerCalls DEF Inv, TypeOK, Msgs
  <2>3. \A i \in DOMAIN a : a[i].op = "tell"
    BY DEF Tell
  <2> HIDE DEF a
  <2>4. IsList(a) /\ \A i \in 1 .. Len(a) : a[i].op = "tell"
    BY <2>2, <2>3, LenProperties DEF IsList
  <2>5. Shape(a)
    BY <2>4, UniformShape
  <2>6. Fresh(a)
    BY <2>4 DEF Fresh
  <2> QED
    BY <2>1, <2>4, <2>5, <2>6, FreshStart
<1> QED
  BY <1>1, <1>2

\* Between handlers it does not matter who is connected.
LEMMA IdleInv ==
  ASSUME Inv, stack = <<>>, stack' = <<>>, SameDevice
  PROVE  Sync(stack, readable, announced, conns)'
<1>1. /\ Sync(<<>>, readable, announced, conns)
      /\ readable \in BOOLEAN /\ announced \in BOOLEAN
  BY DEF Inv, TypeOK
<1>2. Shape(<<>>) /\ Plain(<<>>) /\ Guarded(<<>>, conns') /\ IsList(<<>>)
  BY NoneShape, ListTuples
<1>3. Sync(<<>>, readable, announced, conns')
  BY <1>1, <1>2, QuietStart
<1> QED
  BY <1>3 DEF SameDevice

LEMMA OtherEventInv ==
  ASSUME Inv,
         (\E c \in WsClients : WsDies(c)) \/ Plug \/ IntervalPasses \/ Close
  PROVE  Sync(stack, readable, announced, conns)'
<1>1. CASE (\E c \in WsClients : WsDies(c)) \/ Plug \/ IntervalPasses
  <2>1. stack = <<>> /\ stack' = <<>> /\ SameDevice
    BY <1>1 DEF WsDies, Plug, IntervalPasses, Idle, SameDevice, portVars
  <2> QED
    BY <2>1, IdleInv
<1>2. CASE Close
  <2> DEFINE f == CloseNext
  <2>1. Start(<<f>>) /\ SameDevice /\ f.op = "close_next"
    BY <1>2 DEF Close, SameDevice, portVars, CloseNext
  <2> HIDE DEF f
  <2> QED
    BY <2>1, OneStart
<1> QED
  BY <1>1, <1>2

\* Only a connect() that has no socketpair leaves a device open that is not read.
LEMMA NextReadable ==
  ASSUME Inv, [Next]_vars
  PROVE  (readable' => device') /\ (device' /\ ~readable' => PairFails)
<1>1. readable \in BOOLEAN /\ device \in BOOLEAN
  BY DEF Inv, TypeOK
<1>2. CASE ConnectStep \/ ConnectRaises \/ LetGoStep
  BY <1>1, <1>2 DEF Inv, ConnectStep, ConnectRaises, LetGoStep
<1>3. CASE UNCHANGED <<device, readable>>
  BY <1>3 DEF Inv
<1>4. CASE Step
  <2>1. ConnectStep \/ ConnectRaises \/ LetGoStep \/ UNCHANGED <<device, readable>>
    BY <1>4 DEF Step, AnnounceStep, ReleaseStep, TellSocket, TellWs, CastStep, JoinStep,
       HelloStep, ReplyStep, RemoveStep, RemovedStep, ServeStep, AddStep, HandshakeStep,
       DropStep, ReapStep, RetryStep, ShutStep, RebuildStep, CloseStep, portVars
  <2> QED
    BY <1>2, <1>3, <2>1
<1>5. CASE Tick \/ Event \/ UNCHANGED vars
  <2>1. UNCHANGED <<device, readable>>
    BY <1>5 DEF Tick, Event, WsArrives, WsAttaches, WsDetaches, WsDropped, SocketArrives,
       TlsArrives, TlsReady, SocketLeaves, TlsRefused, WsDies, Reconcile, DeviceFails, DeviceData,
       Plug, IntervalPasses, Close, portVars, vars
  <2> QED
    BY <1>3, <2>1
<1> QED
  BY <1>4, <1>5 DEF Next

LEMMA NextInv ==
  ASSUME Inv, [Next]_vars
  PROVE  Inv'
<1>1. TypeOK' /\ (readable' => device') /\ (device' /\ ~readable' => PairFails)
  BY NextTyped, NextReadable DEF Inv
<1>2. CASE Step
  <2>1. Sync(stack, readable, announced, conns)'
    BY <1>2, ConnectInv, ConnectRaisesInv, AnnounceInv, ReleaseInv, LetGoInv, TellInv,
       CastInv, RemoveInv,
       RemovedInv, ReapInv, CloseInv, OtherStepInv DEF Step
  <2> QED
    BY <1>1, <2>1 DEF Inv
<1>3. CASE Tick \/ Event
  <2>1. Sync(stack, readable, announced, conns)'
    BY <1>3, TickInv, WsEventInv, SocketEventInv, ReconcileInv, DeviceEventInv,
       OtherEventInv DEF Event
  <2> QED
    BY <1>1, <2>1 DEF Inv
<1>4. CASE UNCHANGED vars
  BY <1>1, <1>4 DEF Inv, vars, clientVars, portVars
<1> QED
  BY <1>2, <1>3, <1>4 DEF Next

LEMMA InitInv ==
  ASSUME Init
  PROVE  Inv
<1>1. TypeOK
  BY InitTyped
<1>2. Sync(<<>>, FALSE, FALSE, conns)
  BY NothingRuns
<1> QED
  BY <1>1, <1>2 DEF Init, Inv

\* While calls nest, the flag of the last announcement and a device that can be
\* read differ only where a call that makes them agree is in progress; and only a
\* connect() that raises leaves a device open that cannot be read.
THEOREM Invariant == Spec => []Inv
<1> QED
  BY InitInv, NextInv, PTL DEF Spec

\* Between handlers the flag that suppresses repeated announcements says whether
\* there is an open device to be read, whatever exception cut the last handler
\* short: one out of a removal, of _close_device() or of connect() itself.
THEOREM AnnouncementFollows == Spec => []AnnouncementMatchesDevice
<1>1. ASSUME Inv
      PROVE  AnnouncementMatchesDevice
  <2>1. ASSUME stack = <<>>
        PROVE  announced = (device /\ readable)
    <3>1. ~Has(<<>>, "let_go") /\ ~Rises(<<>>)
      BY ListTuples DEF Has, Rises
    <3>2. announced => device /\ readable
      BY <1>1 DEF Inv, Sync
    <3>3. readable => announced
      BY <1>1, <2>1, <3>1 DEF Inv, Sync
    <3> QED
      BY <1>1, <3>2, <3>3 DEF Inv, TypeOK
  <2> QED
    BY <2>1 DEF AnnouncementMatchesDevice, Idle
<1> QED
  BY <1>1, Invariant, PTL

-----------------------------------------------------------------------------
(* The limit of the port *)

\* Everybody who holds the device, in the list of servers or not.
Holders == UNION {Attached(s) : s \in Servers}
Vacant(s) == conns[s] = {} /\ Attached(s) = {}
SomeoneEnters == \E f \in Range(stack) : f.op \in Entering

\* Whoever is not in the list any more has nobody, or is just being shut.
Parting ==
  \A s \in Servers : s \in Range(servers) \/ Vacant(s) \/ (~Idle /\ Top = Shut(s))

\* A change of the list first shuts whoever is going to leave.
Leaving ==
  \A l \in Layouts : Rebuild(l) \in Range(stack) =>
    \A s \in Range(servers) \ Range(l) : Vacant(s) \/ Shut(s) \in Range(stack)

\* A client enters only a server of the list.
EnteringListed == \A f \in Range(stack) : f.op \in Entering => f.s \in Range(servers)

\* There is room for the one that is entering.
Roomy ==
  PortLimit # 0 =>
    /\ IsFiniteSet(Holders)
    /\ Cardinality(Holders) <= PortLimit
    /\ SomeoneEnters => Cardinality(Holders) < PortLimit

Places == Parting /\ Leaving /\ EnteringListed /\ Roomy

LEMMA ServersTyped ==
  ASSUME servers \in Seq(Servers)
  PROVE  Range(servers) \subseteq Servers
BY LenProperties, ElementOfSeq DEF Range

LEMMA LayoutTyped ==
  ASSUME NEW l \in Layouts
  PROVE  Range(l) \subseteq Servers
<1>1. l \in Seq(Servers)
  BY SerialPortAssumption DEF SerialPortAssumption
<1> QED
  BY <1>1, LenProperties, ElementOfSeq DEF Range

LEMMA FewerHolders ==
  ASSUME IsFiniteSet(Holders), Holders' \subseteq Holders
  PROVE  /\ IsFiniteSet(Holders') /\ Cardinality(Holders') \in Nat
         /\ Cardinality(Holders) \in Nat
         /\ Cardinality(Holders') <= Cardinality(Holders)
<1>1. /\ IsFiniteSet(Holders') /\ Cardinality(Holders') <= Cardinality(Holders)
  BY FS_Subset
<1> QED
  BY <1>1, FS_CardinalityType

LEMMA OneMoreHolder ==
  ASSUME IsFiniteSet(Holders), NEW c, Holders' \subseteq Holders \cup {c},
         PortLimit \in Nat, Cardinality(Holders) < PortLimit
  PROVE  IsFiniteSet(Holders') /\ Cardinality(Holders') <= PortLimit
<1> DEFINE H == Holders \cup {c}
<1>1. /\ IsFiniteSet(H)
      /\ Cardinality(H) = Cardinality(Holders) \/ Cardinality(H) = Cardinality(Holders) + 1
  BY FS_AddElement
<1>2. Cardinality(Holders) \in Nat /\ Cardinality(H) \in Nat
  BY <1>1, FS_CardinalityType
<1>3. IsFiniteSet(Holders') /\ Cardinality(Holders') <= Cardinality(H)
  BY <1>1, FS_Subset
<1>4. Cardinality(Holders') \in Nat
  BY <1>3, FS_CardinalityType
<1> HIDE DEF H
<1>5. Cardinality(H) <= PortLimit
  BY <1>1, <1>2
<1> QED
  BY <1>2, <1>3, <1>4, <1>5

\* Nobody arrives anywhere.
Narrows ==
  \A s \in Servers : conns'[s] \subseteq conns[s] /\ Attached(s)' \subseteq Attached(s)

LEMMA NarrowedHolders ==
  ASSUME Narrows
  PROVE  Holders' \subseteq Holders
<1>1. ASSUME NEW x \in Holders'
      PROVE  x \in Holders
  <2>1. PICK s \in Servers : x \in Attached(s)'
    BY <1>1 DEF Holders
  <2> QED
    BY <2>1 DEF Narrows, Holders
<1> QED
  BY <1>1

LEMMA NarrowedRoom ==
  ASSUME Roomy, Narrows, SomeoneEnters' => SomeoneEnters
  PROVE  Roomy'
<1>1. PortLimit \in Nat
  BY SerialPortAssumption DEF SerialPortAssumption
<1>2. ASSUME PortLimit # 0
      PROVE  /\ IsFiniteSet(Holders')
             /\ Cardinality(Holders') <= PortLimit
             /\ SomeoneEnters' => Cardinality(Holders') < PortLimit
  <2>1. IsFiniteSet(Holders) /\ Holders' \subseteq Holders
    BY <1>2, NarrowedHolders DEF Roomy
  <2>2. /\ IsFiniteSet(Holders') /\ Cardinality(Holders') \in Nat
        /\ Cardinality(Holders) \in Nat
        /\ Cardinality(Holders') <= Cardinality(Holders)
    BY <2>1, FewerHolders
  <2> QED
    BY <1>1, <1>2, <2>2 DEF Roomy
<1> QED
  BY <1>2 DEF Roomy

\* A step on which nobody arrives, the list stays, and nobody is shut.
LEMMA NarrowStep ==
  ASSUME Places, Narrows, servers \in Seq(Servers), UNCHANGED servers,
         \A s \in Servers : ~Idle => Top # Shut(s),
         \A f \in Range(stack)' : f \in Range(stack) \/ f.op \notin Entering \cup {"rebuild"},
         Range(stack)' = {} \/ \A s \in Servers : Shut(s) \in Range(stack) => Shut(s) \in Range(stack)'
  PROVE  Places'
<1>1. \A s \in Servers : Vacant(s) => Vacant(s)'
  BY DEF Narrows, Vacant
<1>2. Parting'
  <2>1. \A s \in Servers : s \in Range(servers) \/ Vacant(s)
    BY DEF Places, Parting
  <2> QED
    BY <1>1, <2>1 DEF Parting
<1>3. Leaving'
  <2>1. ASSUME NEW l \in Layouts, Rebuild(l) \in Range(stack)', NEW s \in Servers,
               s \in Range(servers) \ Range(l)
        PROVE  Vacant(s)' \/ Shut(s) \in Range(stack)'
    <3>1. Rebuild(l).op = "rebuild"
      BY DEF Rebuild
    <3>2. Rebuild(l) \in Range(stack)
      BY <2>1, <3>1
    <3>3. Vacant(s) \/ Shut(s) \in Range(stack)
      BY <2>1, <3>2 DEF Places, Leaving
    <3> QED
      BY <1>1, <2>1, <3>3
  <2>2. Range(servers)' = Range(servers) /\ Range(servers) \subseteq Servers
    BY ServersTyped
  <2> QED
    BY <2>1, <2>2 DEF Leaving
<1>4. EnteringListed'
  BY DEF Places, EnteringListed
<1>5. SomeoneEnters' => SomeoneEnters
  BY DEF SomeoneEnters
<1>6. Roomy'
  BY <1>5, NarrowedRoom DEF Places
<1> QED
  BY <1>2, <1>3, <1>4, <1>6 DEF Places

LEMMA TupleRanges ==
  /\ Range(<<>>) = {}
  /\ \A f : Range(<<f>>) = {f}
  /\ \A f, g : Range(<<f, g>>) = {f, g}
  /\ \A f, g, h : Range(<<f, g, h>>) = {f, g, h}
  /\ \A f, g, h, k : Range(<<f, g, h, k>>) = {f, g, h, k}
<1>1. Range(<<>>) = {}
  BY DEF Range
<1>2. \A f : Range(<<f>>) = {f}
  BY DEF Range
<1>3. \A f, g : Range(<<f, g>>) = {f, g}
  BY DEF Range
<1>4. \A f, g, h : Range(<<f, g, h>>) = {f, g, h}
  BY DEF Range
<1>5. \A f, g, h, k : Range(<<f, g, h, k>>) = {f, g, h, k}
  BY DEF Range
<1> QED
  BY <1>1, <1>2, <1>3, <1>4, <1>5

LEMMA CallRange ==
  ASSUME TypeOK, ~Idle, NEW a, IsList(a), Call(a)
  PROVE  /\ Range(stack)' = Range(a) \cup Range(Tail(stack))
         /\ Range(stack) = {Top} \cup Range(Tail(stack))
<1>1. IsList(stack) /\ stack # <<>> /\ Top = stack[1]
  BY RunningStack
<1>2. IsList(Tail(stack))
  BY <1>1, ListTail
<1>3. stack' = a \o Tail(stack)
  BY DEF Call
<1>4. Range(a \o Tail(stack)) = Range(a) \cup Range(Tail(stack))
  BY <1>2, ConcatRange
<1> QED
  BY <1>1, <1>3, <1>4, TailRange

LEMMA UnderTop ==
  ASSUME Inv, ~Idle
  PROVE  \A f \in Range(Tail(stack)) : Fits(Top, f)
<1>1. IsList(stack) /\ stack # <<>> /\ Top = stack[1] /\ Shape(stack)
  BY RunningStack DEF Inv, Sync
<1>2. /\ IsList(Tail(stack)) /\ Len(stack) >= 1 /\ Len(Tail(stack)) = Len(stack) - 1
      /\ \A i \in 1 .. Len(stack) - 1 : Tail(stack)[i] = stack[i + 1]
  BY <1>1, ListTail
<1>3. Len(stack) \in Nat /\ DOMAIN Tail(stack) = 1 .. Len(stack) - 1
  BY <1>1, <1>2, ListLength
<1>4. ASSUME NEW i \in 1 .. Len(stack) - 1
      PROVE  Fits(Top, Tail(stack)[i])
  <2>1. 1 \in 1 .. Len(stack) /\ i + 1 \in 1 .. Len(stack) /\ 1 < i + 1
    BY <1>3
  <2>2. Fits(stack[1], stack[i + 1])
    BY <1>1, <2>1 DEF Shape
  <2> QED
    BY <1>1, <1>2, <2>2
<1> QED
  BY <1>3, <1>4 DEF Range

LEMMA FinalIsLast ==
  ASSUME Inv, ~Idle, Top.op \in Final
  PROVE  Range(Tail(stack)) = {}
<1>1. \A f \in Range(Tail(stack)) : Fits(Top, f)
  BY UnderTop
<1> QED
  BY <1>1 DEF Fits

\* Calls that let nobody in and leave the list as it is.
Mild(a) == IsList(a) /\ \A f \in Range(a) : f.op \notin Entering \cup {"rebuild"}

LEMMA MildCall ==
  ASSUME Inv, Places, ~Idle, Narrows, UNCHANGED servers, Top.op # "shut",
         NEW a, Mild(a), Call(a)
  PROVE  Places'
<1>1. TypeOK /\ IsList(a)
  BY DEF Inv, Mild
<1>2. /\ Range(stack)' = Range(a) \cup Range(Tail(stack))
      /\ Range(stack) = {Top} \cup Range(Tail(stack))
  BY <1>1, CallRange
<1>3. servers \in Seq(Servers)
  BY <1>1 DEF TypeOK
<1>4. \A s \in Servers : Top # Shut(s)
  BY DEF Shut
<1>5. \A f \in Range(stack)' : f \in Range(stack) \/ f.op \notin Entering \cup {"rebuild"}
  BY <1>2 DEF Mild
<1>6. \A s \in Servers : Shut(s) \in Range(stack) => Shut(s) \in Range(stack)'
  BY <1>2, <1>4
<1> QED
  BY <1>3, <1>4, <1>5, <1>6, NarrowStep

LEMMA MildStart ==
  ASSUME TypeOK, Places, stack = <<>>, Narrows, UNCHANGED servers,
         NEW a, Mild(a), stack' = a
  PROVE  Places'
<1>1. servers \in Seq(Servers) /\ Idle /\ Range(stack) = {}
  BY TupleRanges DEF TypeOK, Idle
<1>2. \A f \in Range(stack)' : f.op \notin Entering \cup {"rebuild"}
  BY DEF Mild
<1> QED
  BY <1>1, <1>2, NarrowStep

LEMMA RaisedPlaces ==
  ASSUME TypeOK, Places, ~Idle, Narrows, UNCHANGED servers, Top.op # "shut", stack' = <<>>
  PROVE  Places'
<1>1. servers \in Seq(Servers) /\ Range(stack)' = {}
  BY TupleRanges DEF TypeOK
<1>2. \A s \in Servers : Top # Shut(s)
  BY DEF Shut
<1> QED
  BY <1>1, <1>2, NarrowStep

LEMMA SameClients ==
  ASSUME UNCHANGED <<conns, attached>>
  PROVE  Narrows
BY DEF Narrows, Attached

LEMMA MildTuples ==
  /\ Mild(<<>>)
  /\ \A f : f.op \notin Entering \cup {"rebuild"} => Mild(<<f>>)
  /\ \A f, g : f.op \notin Entering \cup {"rebuild"} /\ g.op \notin Entering \cup {"rebuild"} =>
       Mild(<<f, g>>)
  /\ \A f, g, h : 
       /\ f.op \notin Entering \cup {"rebuild"} /\ g.op \notin Entering \cup {"rebuild"}
       /\ h.op \notin Entering \cup {"rebuild"}
       => Mild(<<f, g, h>>)
<1>1. Mild(<<>>)
  BY ListTuples, TupleRanges DEF Mild
<1>2. ASSUME NEW f, f.op \notin Entering \cup {"rebuild"}
      PROVE  Mild(<<f>>)
  <2>1. IsList(<<f>>) /\ Range(<<f>>) = {f}
    BY ListTuples, TupleRanges
  <2> QED
    BY <1>2, <2>1 DEF Mild
<1>3. \A f, g : f.op \notin Entering \cup {"rebuild"} /\ g.op \notin Entering \cup {"rebuild"} =>
       Mild(<<f, g>>)
  BY ListTuples, TupleRanges DEF Mild
<1>4. ASSUME NEW f, NEW g, NEW h, f.op \notin Entering \cup {"rebuild"},
             g.op \notin Entering \cup {"rebuild"}, h.op \notin Entering \cup {"rebuild"}
      PROVE  Mild(<<f, g, h>>)
  BY <1>4, ListTuples, TupleRanges DEF Mild
<1> QED
  BY <1>1, <1>2, <1>3, <1>4

\* Telling every server lets nobody in.
LEMMA TellsAreMild ==
  ASSUME servers \in Seq(Servers), NEW msg \in Msgs
  PROVE  Mild([i \in DOMAIN servers |-> Tell(servers[i], msg)])
<1> DEFINE a == [i \in DOMAIN servers |-> Tell(servers[i], msg)]
<1>1. a \in Seq(Frames)
  BY ServerCalls
<1>2. \A i \in DOMAIN a : a[i].op = "tell"
  BY DEF Tell
<1> HIDE DEF a
<1>3. Mild(a)
  BY <1>1, <1>2 DEF Mild, IsList, Range, Entering
<1> QED
  BY <1>3 DEF a

LEMMA DevicePlaces ==
  ASSUME Inv, Places,
         ConnectStep \/ ConnectRaises \/ AnnounceStep \/ ReleaseStep \/ LetGoStep
  PROVE  Places'
<1>1. /\ ~Idle /\ Top.op # "shut" /\ UNCHANGED servers /\ TypeOK
      /\ UNCHANGED <<conns, attached>>
  BY DEF ConnectStep, ConnectRaises, AnnounceStep, ReleaseStep, LetGoStep, Running, Inv,
         clientVars, portVars
<1>2. Narrows
  BY <1>1, SameClients
<1>3. (\E a : Mild(a) /\ Call(a)) \/ stack' = <<>>
  <2>1. CASE ConnectStep
    <3> DEFINE f == Announce(TRUE)
    <3>1. (Return \/ Call(<<f>>)) /\ f.op = "announce"
      BY <2>1 DEF ConnectStep, Announce
    <3> HIDE DEF f
    <3>2. Mild(<<>>) /\ Mild(<<f>>)
      BY <3>1, MildTuples DEF Entering
    <3> QED
      BY <3>1, <3>2 DEF Return
  <2>2. CASE AnnounceStep
    <3> DEFINE msg == IF Top.up THEN "up" ELSE "down"
    <3>1. msg \in Msgs
      BY DEF Msgs
    <3>2. Return \/ Call([i \in DOMAIN servers |-> Tell(servers[i], msg)])
      BY <2>2 DEF AnnounceStep
    <3> HIDE DEF msg
    <3>3. Mild([i \in DOMAIN servers |-> Tell(servers[i], msg)])
      BY <1>1, <3>1, TellsAreMild DEF TypeOK
    <3> QED
      BY <3>2, <3>3, MildTuples DEF Return
  <2>3. CASE ReleaseStep
    <3> DEFINE f == Announce(FALSE)
               g == LetGo
    <3>1. (Return \/ Call(<<f, g>>)) /\ f.op = "announce" /\ g.op = "let_go"
      BY <2>3 DEF ReleaseStep, Announce, LetGo
    <3> HIDE DEF f, g
    <3>2. Mild(<<>>) /\ Mild(<<f, g>>)
      BY <3>1, MildTuples DEF Entering
    <3> QED
      BY <3>1, <3>2 DEF Return
  <2>4. CASE LetGoStep
    BY <2>4, MildTuples DEF LetGoStep, Return, Raise
  <2>5. CASE ConnectRaises
    BY <2>5 DEF ConnectRaises, Raise
  <2> QED
    BY <2>1, <2>2, <2>3, <2>4, <2>5
<1>4. CASE \E a : Mild(a) /\ Call(a)
  BY <1>1, <1>2, <1>4, MildCall
<1>5. CASE stack' = <<>>
  BY <1>1, <1>2, <1>5, RaisedPlaces
<1> QED
  BY <1>3, <1>4, <1>5

LEMMA TellPlaces ==
  ASSUME Inv, Places, TellSocket \/ TellWs \/ CastStep
  PROVE  Places'
<1>1. ~Idle /\ Top.op # "shut" /\ UNCHANGED servers /\ TypeOK
  BY DEF TellSocket, TellWs, CastStep, Running, Inv, portVars
<1>2. Narrows
  <2>1. CASE TellWs \/ CastStep
    <3>1. UNCHANGED <<conns, attached>>
      BY <2>1 DEF TellWs, CastStep, clientVars
    <3> QED
      BY <3>1, SameClients
  <2>2. CASE TellSocket
    <3>1. attached' = attached /\ \A s \in Servers : conns'[s] \subseteq conns[s]
      BY <1>1, <2>2 DEF TellSocket, TypeOK
    <3> QED
      BY <3>1 DEF Narrows, Attached
  <2> QED
    BY <2>1, <2>2
<1>3. \E a : Mild(a) /\ Call(a)
  <2>1. CASE Return
    BY <2>1, MildTuples DEF Return
  <2>2. CASE TellWs
    <3> DEFINE f == Cast(Top.s, Top.msg, Audience(Top.s, Top.msg))
    <3>1. Call(<<f>>) /\ f.op = "cast"
      BY <2>2 DEF TellWs, Cast
    <3> HIDE DEF f
    <3>2. Mild(<<f>>)
      BY <3>1, MildTuples DEF Entering
    <3> QED
      BY <3>1, <3>2
  <2>3. CASE CastStep /\ ~Return
    <3>1. PICK c \in Top.left :
            \/ Call(<<Cast(Top.s, Top.msg, Top.left \ {c})>>)
            \/ Call(<<On("remove", Top.s, c), Cast(Top.s, Top.msg, Top.left \ {c})>>)
      BY <2>3 DEF CastStep
    <3> DEFINE f == On("remove", Top.s, c)
               g == Cast(Top.s, Top.msg, Top.left \ {c})
    <3>2. (Call(<<g>>) \/ Call(<<f, g>>)) /\ f.op = "remove" /\ g.op = "cast"
      BY <3>1 DEF On, Cast
    <3> HIDE DEF f, g
    <3>3. Mild(<<g>>) /\ Mild(<<f, g>>)
      BY <3>2, MildTuples DEF Entering
    <3> QED
      BY <3>2, <3>3
  <2> QED
    BY <2>1, <2>2, <2>3 DEF TellSocket
<1> QED
  BY <1>1, <1>2, <1>3, MildCall

LEMMA ClientPlaces ==
  ASSUME Inv, Places,
         \/ HelloStep \/ ReplyStep \/ ServeStep \/ RemoveStep \/ RemovedStep
         \/ HandshakeStep \/ DropStep \/ ReapStep \/ RetryStep
  PROVE  Places'
<1>1. ~Idle /\ Top.op # "shut" /\ UNCHANGED servers /\ TypeOK
  BY DEF HelloStep, ReplyStep, ServeStep, RemoveStep, RemovedStep, HandshakeStep,
         DropStep, ReapStep, RetryStep, Running, Inv, portVars
<1>2. Narrows
  <2>1. CASE HelloStep \/ ReplyStep \/ ServeStep \/ HandshakeStep \/ ReapStep \/ RetryStep
    <3>1. UNCHANGED <<conns, attached>>
      BY <2>1 DEF HelloStep, ReplyStep, ServeStep, HandshakeStep, ReapStep, RetryStep,
                  clientVars
    <3> QED
      BY <3>1, SameClients
  <2>2. CASE RemoveStep
    <3>1. conns' = conns /\ \A s \in WsServers : attached'[s] \subseteq attached[s]
      BY <1>1, <2>2 DEF RemoveStep, TypeOK
    <3> QED
      BY <3>1 DEF Narrows, Attached
  <2>3. CASE RemovedStep \/ DropStep
    <3>1. attached' = attached /\ \A s \in Servers : conns'[s] \subseteq conns[s]
      BY <1>1, <2>3 DEF RemovedStep, DropStep, TypeOK
    <3> QED
      BY <3>1 DEF Narrows, Attached
  <2> QED
    BY <2>1, <2>2, <2>3
<1>3. (\E a : Mild(a) /\ Call(a)) \/ stack' = <<>>
  <2> DEFINE rem == On("remove", Top.s, Top.c)
             red == On("removed", Top.s, Top.c)
             rel == Release
             drop == On("drop", Top.s, Top.c)
             conn == Connect
  <2>1. CASE HelloStep \/ ReplyStep \/ ServeStep \/ RemoveStep \/ RemovedStep
             \/ HandshakeStep \/ DropStep \/ RetryStep
    <3>1. \/ stack' = <<>> \/ Return \/ Call(<<rem>>) \/ Call(<<rel, red>>) \/ Call(<<red>>)
          \/ Call(<<rel>>) \/ Call(<<drop>>) \/ Call(<<conn>>)
      BY <2>1 DEF HelloStep, ReplyStep, ServeStep, RemoveStep, RemovedStep, HandshakeStep,
                  DropStep, RetryStep, Raise, Return
    <3>2. /\ rem.op = "remove" /\ red.op = "removed" /\ rel.op = "release"
          /\ drop.op = "drop" /\ conn.op = "connect"
      BY DEF On, Release, Connect
    <3> HIDE DEF rem, red, rel, drop, conn
    <3>3. Mild(<<>>) /\ Mild(<<rem>>) /\ Mild(<<red>>) /\ Mild(<<rel>>) /\ Mild(<<drop>>)
          /\ Mild(<<conn>>)
      BY <3>2, MildTuples DEF Entering
    <3>4. Mild(<<rel, red>>)
      BY <3>2, MildTuples DEF Entering
    <3> QED
      BY <3>1, <3>3, <3>4 DEF Return
  <2>2. CASE ReapStep
    <3>1. CASE Return
      BY <3>1, MildTuples DEF Return
    <3>2. CASE ~Return
      <4>1. PICK c \in conns[Top.s], op \in {"drop", "remove"} : Call(<<On(op, Top.s, c), Top>>)
        BY <2>2, <3>2 DEF ReapStep
      <4> DEFINE f == On(op, Top.s, c)
      <4>2. Call(<<f, Top>>) /\ f.op = op /\ Top.op = "reap"
        BY <2>2, <4>1 DEF On, ReapStep, Running
      <4> HIDE DEF f
      <4>3. Mild(<<f, Top>>)
        BY <4>2, MildTuples DEF Entering
      <4> QED
        BY <4>2, <4>3
    <3> QED
      BY <3>1, <3>2
  <2> QED
    BY <2>1, <2>2
<1>4. CASE \E a : Mild(a) /\ Call(a)
  BY <1>1, <1>2, <1>4, MildCall
<1>5. CASE stack' = <<>>
  BY <1>1, <1>2, <1>5, RaisedPlaces
<1> QED
  BY <1>3, <1>4, <1>5

\* The one that has been entering is in, and nobody else is entering.
LEMMA EnterPlaces ==
  ASSUME Inv, Places, JoinStep \/ AddStep
  PROVE  Places'
<1>1. /\ ~Idle /\ Top.op \in Entering /\ Return /\ UNCHANGED servers /\ TypeOK
      /\ Top \in Frames
  BY TopFrame DEF JoinStep, AddStep, Running, Entering, Inv, TypeOK, portVars
<1> PICK z, x : z = Top.s /\ x = Top.c
  OBVIOUS
<1>2. Call(<<>>) /\ IsList(<<>>) /\ Range(<<>>) = {}
  BY <1>1, ListTuples, TupleRanges DEF Return
<1>3. Range(stack)' = Range(Tail(stack)) /\ Range(stack) = {Top} \cup Range(Tail(stack))
  BY <1>1, <1>2, CallRange
<1>4. \A f \in Range(Tail(stack)) : f.op \notin Entering \cup Plan
  BY <1>1, UnderTop DEF Fits
<1>5. z \in Range(servers)
  BY <1>1, <1>3 DEF Places, EnteringListed
<1>6. \A s \in Servers : s # z => conns'[s] = conns[s] /\ Attached(s)' = Attached(s)
  BY <1>1 DEF JoinStep, AddStep, TypeOK, Attached
<1>7. Attached(z)' \subseteq Attached(z) \cup {x}
  <2>1. CASE JoinStep
    <3>1. z \in WsServers
      BY <1>1, <2>1, FrameOfWs DEF JoinStep, Running, WsOps
    <3> QED
      BY <1>1, <2>1, <3>1 DEF JoinStep, TypeOK, Attached
  <2>2. CASE AddStep
    <3>1. z \in SocketServers
      BY <1>1, <2>2, FrameOfSocket DEF AddStep, Running, SocketOps
    <3> QED
      BY <1>1, <2>2, <3>1, SerialPortAssumption
      DEF AddStep, TypeOK, Attached, Servers, SerialPortAssumption
  <2> QED
    BY <2>1, <2>2
<1>8. Parting'
  <2>1. \A s \in Servers : Top # Shut(s)
    BY <1>1 DEF Shut, Entering
  <2>2. \A s \in Servers : s \in Range(servers) \/ (Vacant(s) /\ s # z)
    BY <1>5, <2>1 DEF Places, Parting
  <2>3. \A s \in Servers : s # z /\ Vacant(s) => Vacant(s)'
    BY <1>6 DEF Vacant
  <2> QED
    BY <1>1, <2>2, <2>3 DEF Parting
<1>9. Leaving'
  BY <1>3, <1>4 DEF Leaving, Rebuild, Plan
<1>10. EnteringListed'
  BY <1>3, <1>4 DEF EnteringListed
<1>11. Roomy'
  <2>1. PortLimit \in Nat
    BY SerialPortAssumption DEF SerialPortAssumption
  <2>2. ~SomeoneEnters'
    BY <1>3, <1>4 DEF SomeoneEnters
  <2>3. Holders' \subseteq Holders \cup {x}
    <3>1. ASSUME NEW y \in Holders'
          PROVE  y \in Holders \cup {x}
      <4>1. PICK s \in Servers : y \in Attached(s)'
        BY <3>1 DEF Holders
      <4>2. y \in Attached(s) \cup {x}
        BY <1>6, <1>7, <4>1
      <4> QED
        BY <4>2 DEF Holders
    <3> QED
      BY <3>1
  <2>4. SomeoneEnters
    BY <1>1, <1>3 DEF SomeoneEnters
  <2>5. ASSUME PortLimit # 0
        PROVE  IsFiniteSet(Holders') /\ Cardinality(Holders') <= PortLimit
    <3>1. IsFiniteSet(Holders) /\ Cardinality(Holders) < PortLimit
      BY <2>4, <2>5 DEF Places, Roomy
    <3> QED
      BY <2>1, <2>3, <3>1, OneMoreHolder
  <2> QED
    BY <2>2, <2>5 DEF Roomy
<1> QED
  BY <1>8, <1>9, <1>10, <1>11 DEF Places

\* Whoever is shut has nobody afterwards.
LEMMA ShutPlaces ==
  ASSUME Inv, Places, ShutStep
  PROVE  Places'
<1>1. /\ ~Idle /\ Top.op = "shut" /\ UNCHANGED servers /\ TypeOK
      /\ Top \in Frames /\ servers \in Seq(Servers)
  BY TopFrame DEF ShutStep, Running, Inv, TypeOK, portVars
<1> PICK z : z = Top.s
  OBVIOUS
<1>2. z \in Servers
  BY <1>1, FrameOfServer
<1>3. Narrows
  <2>1. \A s \in Servers : conns'[s] \subseteq conns[s]
    BY <1>1 DEF ShutStep, TypeOK
  <2>2. \A s \in WsServers : attached'[s] \subseteq attached[s]
    BY DEF ShutStep
  <2> QED
    BY <2>1, <2>2 DEF Narrows, Attached
<1>4. Vacant(z)'
  <2>1. conns'[z] = {}
    BY <1>1, <1>2 DEF ShutStep, TypeOK
  <2>2. Attached(z)' = {}
    BY <2>1 DEF ShutStep, Attached
  <2> QED
    BY <2>1, <2>2 DEF Vacant
<1>5. \A s \in Servers : Vacant(s) => Vacant(s)'
  BY <1>3 DEF Narrows, Vacant
<1>6. \A s \in Servers : Top = Shut(s) => s = z
  BY DEF Shut
<1>7. \E a : Mild(a) /\ Call(a)
  <2> DEFINE f == Release
  <2>1. (Call(<<f>>) \/ Call(<<>>)) /\ f.op = "release"
    BY DEF ShutStep, Release
  <2> HIDE DEF f
  <2>2. Mild(<<f>>) /\ Mild(<<>>)
    BY <2>1, MildTuples DEF Entering
  <2> QED
    BY <2>1, <2>2
<1>8. PICK a : Mild(a) /\ Call(a)
  BY <1>7
<1>9. /\ Range(stack)' = Range(a) \cup Range(Tail(stack))
      /\ Range(stack) = {Top} \cup Range(Tail(stack))
  BY <1>1, <1>8, CallRange DEF Mild
<1>10. \A f \in Range(stack)' : f \in Range(stack) \/ f.op \notin Entering \cup {"rebuild"}
  BY <1>8, <1>9 DEF Mild
<1>11. Parting'
  <2>1. \A s \in Servers : s \in Range(servers) \/ Vacant(s)'
    BY <1>4, <1>5, <1>6 DEF Places, Parting
  <2> QED
    BY <1>1, <2>1 DEF Parting
<1>12. Leaving'
  <2>1. ASSUME NEW l \in Layouts, Rebuild(l) \in Range(stack)',
               NEW s \in Servers, s \in Range(servers) \ Range(l)
        PROVE  Vacant(s)' \/ Shut(s) \in Range(stack)'
    <3>1. Rebuild(l) \in Range(stack)
      BY <1>10, <2>1 DEF Rebuild
    <3>2. Vacant(s) \/ Shut(s) \in Range(stack)
      BY <2>1, <3>1 DEF Places, Leaving
    <3>3. Shut(s) = Top \/ Shut(s) \in Range(stack)' \/ Vacant(s)
      BY <1>9, <3>2
    <3> QED
      BY <1>4, <1>5, <1>6, <3>3
  <2>2. Range(servers)' = Range(servers) /\ Range(servers) \subseteq Servers
    BY <1>1, ServersTyped
  <2> QED
    BY <2>1, <2>2 DEF Leaving
<1>13. EnteringListed'
  BY <1>1, <1>10 DEF Places, EnteringListed
<1>14. Roomy'
  <2>1. SomeoneEnters' => SomeoneEnters
    BY <1>10 DEF SomeoneEnters
  <2> QED
    BY <1>3, <2>1, NarrowedRoom DEF Places
<1> QED
  BY <1>11, <1>12, <1>13, <1>14 DEF Places

LEMMA RebuildPlaces ==
  ASSUME Inv, Places, RebuildStep
  PROVE  Places'
<1>1. /\ ~Idle /\ Top.op = "rebuild" /\ TypeOK /\ Top \in Frames
      /\ UNCHANGED <<conns, attached>>
  BY TopFrame DEF RebuildStep, Running, Inv, TypeOK, clientVars
<1>2. Narrows
  BY <1>1, SameClients
<1>3. \E a : Mild(a) /\ Call(a)
  <2> DEFINE f == Release
  <2>1. (Call(<<f>>) \/ Call(<<>>)) /\ f.op = "release"
    BY DEF RebuildStep, Release, Return
  <2> HIDE DEF f
  <2>2. Mild(<<f>>) /\ Mild(<<>>)
    BY <2>1, MildTuples DEF Entering
  <2> QED
    BY <2>1, <2>2
<1>4. CASE UNCHANGED servers
  BY <1>1, <1>2, <1>3, <1>4, MildCall
<1>5. CASE servers' = Top.layout
  <2>1. PICK a : Mild(a) /\ Call(a)
    BY <1>3
  <2>2. /\ Range(stack)' = Range(a) \cup Range(Tail(stack))
        /\ Range(stack) = {Top} \cup Range(Tail(stack))
    BY <1>1, <2>1, CallRange DEF Mild
  <2>3. Range(Tail(stack)) = {}
    BY <1>1, FinalIsLast DEF Final
  <2>4. \A f \in Range(stack)' : f.op \notin Entering \cup {"rebuild"}
    BY <2>1, <2>2, <2>3 DEF Mild
  <2>5. Top.layout \in Layouts /\ Top = Rebuild(Top.layout)
    <3>1. Top.layout \in Layouts
      BY <1>1, FrameOfRebuild
    <3>2. Top \in [op : {"rebuild"}, layout : Layouts]
      BY <1>1 DEF Frames, WsOps, SocketOps
    <3> QED
      BY <3>1, <3>2 DEF Rebuild
  <2>6. \A s \in Servers : Shut(s) # Top
    BY <1>1 DEF Shut
  <2>7. \A s \in Servers : s \in Range(Top.layout) \/ Vacant(s)
    <3>1. \A s \in Range(servers) \ Range(Top.layout) : Vacant(s) \/ Shut(s) \in Range(stack)
      BY <2>2, <2>5 DEF Places, Leaving
    <3>2. \A s \in Servers : s \in Range(servers) \/ Vacant(s)
      BY <2>6 DEF Places, Parting
    <3> QED
      BY <2>2, <2>3, <2>6, <3>1, <3>2
  <2>8. Parting'
    <3>1. \A s \in Servers : Vacant(s) => Vacant(s)'
      BY <1>2 DEF Narrows, Vacant
    <3>2. Range(servers)' = Range(Top.layout)
      BY <1>5
    <3> QED
      BY <2>7, <3>1, <3>2 DEF Parting
  <2>9. Leaving'
    BY <2>4 DEF Leaving, Rebuild
  <2>10. EnteringListed'
    BY <2>4 DEF EnteringListed
  <2>11. Roomy'
    <3>1. ~SomeoneEnters'
      BY <2>4 DEF SomeoneEnters
    <3> QED
      BY <1>2, <3>1, NarrowedRoom DEF Places
  <2> QED
    BY <2>8, <2>9, <2>10, <2>11 DEF Places
<1> QED
  BY <1>4, <1>5 DEF RebuildStep

\* The list without its last server has all of it but the last.
LEMMA ListedWithoutLast ==
  ASSUME servers \in Seq(Servers), servers # <<>>
  PROVE  Range(servers) \subseteq
           Range(SubSeq(servers, 1, Len(servers) - 1)) \cup {servers[Len(servers)]}
<1> DEFINE n == Len(servers)
           t == SubSeq(servers, 1, n - 1)
<1>1. n \in Nat \ {0} /\ DOMAIN servers = 1 .. n
  BY EmptySeq, LenProperties
<1>2. \A i \in 1 .. n - 1 : servers[i] \in Servers
  BY <1>1, ElementOfSeq
<1>3. /\ t \in Seq(Servers) /\ Len(t) = IF 1 <= n - 1 THEN (n - 1) - 1 + 1 ELSE 0
      /\ \A i \in 1 .. (n - 1) - 1 + 1 : t[i] = servers[1 + i - 1]
  BY <1>1, <1>2, SubSeqProperties
<1>4. Len(t) = n - 1
  BY <1>1, <1>3
<1>5. DOMAIN t = 1 .. n - 1
  BY <1>3, <1>4, LenProperties
<1>6. ASSUME NEW i \in 1 .. n - 1
      PROVE  t[i] = servers[i]
  <2>1. i \in 1 .. (n - 1) - 1 + 1 /\ 1 + i - 1 = i
    BY <1>1
  <2>2. t[i] = servers[1 + i - 1]
    BY <1>3, <2>1
  <2> QED
    BY <2>1, <2>2
<1> HIDE DEF t
<1>7. ASSUME NEW i \in 1 .. n
      PROVE  servers[i] \in Range(t) \cup {servers[n]}
  <2>1. CASE i = n
    BY <2>1
  <2>2. CASE i # n
    <3>1. i \in 1 .. n - 1
      <4>1. i \in Nat /\ i >= 1 /\ i <= n
        BY <1>1
      <4> HIDE DEF n
      <4> QED
        BY <4>1, <2>2, <1>1
    <3>2. t[i] \in Range(t) /\ t[i] = servers[i]
      BY <3>1, <1>5, <1>6 DEF Range
    <3> QED
      BY <3>2
  <2> QED
    BY <2>1, <2>2
<1>8. Range(servers) \subseteq Range(t) \cup {servers[n]}
  BY <1>1, <1>7 DEF Range
<1> QED
  BY <1>8 DEF t

LEMMA ClosePlaces ==
  ASSUME Inv, Places, CloseStep
  PROVE  Places'
<1>1. /\ ~Idle /\ Top.op = "close_next" /\ TypeOK
      /\ UNCHANGED <<conns, attached>>
  BY DEF CloseStep, Running, Inv, clientVars
<1>2. Narrows
  BY <1>1, SameClients
<1>3. CASE servers = <<>>
  <2> DEFINE f == Release
  <2>1. Call(<<f>>) /\ f.op = "release" /\ UNCHANGED servers
    BY <1>3 DEF CloseStep, Release
  <2> HIDE DEF f
  <2>2. Mild(<<f>>)
    BY <2>1, MildTuples DEF Entering
  <2> QED
    BY <1>1, <1>2, <2>1, <2>2, MildCall
<1>4. CASE servers # <<>>
  <2> DEFINE last == servers[Len(servers)]
             g == CloseNext
             a == <<Shut(last), g>>
  <2>1. Call(a) /\ servers' = SubSeq(servers, 1, Len(servers) - 1)
    BY <1>4 DEF CloseStep
  <2>2. Range(servers) \subseteq Range(servers)' \cup {last}
    BY <1>1, <1>4, <2>1, ListedWithoutLast DEF TypeOK
  <2>3. last \in Servers
    BY <1>1, <1>4, WithoutLast DEF TypeOK
  <2> HIDE DEF last
  <2>4. IsList(a) /\ Range(a) = {Shut(last), g}
    BY ListTuples, TupleRanges
  <2>5. Range(Tail(stack)) = {}
    BY <1>1, FinalIsLast DEF Final
  <2>6. Range(stack)' = {Shut(last), g}
    BY <1>1, <2>1, <2>4, <2>5, CallRange
  <2>7. Shut(last).op = "shut" /\ g.op = "close_next"
    BY DEF Shut, CloseNext
  <2>8. ~Idle' /\ Top' = Shut(last)
    <3>1. Len(a) = 2 /\ a[1] = Shut(last)
      BY ListTuples
    <3>2. IsList(stack) /\ stack # <<>>
      BY <1>1, RunningStack
    <3> DEFINE b == a
    <3>3. IsList(b) /\ Len(b) >= 1 /\ b[1] = Shut(last)
      BY <2>4, <3>1
    <3> HIDE DEF b
    <3>4. GoesOn(stack, b)[1] = b[1]
      BY <3>2, <3>3, CallFirst
    <3>5. stack' = GoesOn(stack, b)
      BY <2>1 DEF Call, GoesOn, b
    <3>6. stack' # <<>>
      <4>1. Range(stack') # {}
        BY <2>6
      <4> QED
        BY <4>1, TupleRanges
    <3>7. IsList(stack')
      <4>1. TypeOK'
        BY CloseTyped DEF Inv
      <4> QED
        BY <4>1 DEF TypeOK, IsList
    <3>8. Head(stack') = stack'[1]
      BY <3>6, <3>7, ListTail
    <3> QED
      BY <3>3, <3>4, <3>5, <3>6, <3>8 DEF Idle, Top
  <2> HIDE DEF a, g
  <2>9. \A f \in Range(stack)' : f.op \notin Entering \cup {"rebuild"}
    BY <2>6, <2>7 DEF Entering
  <2>10. Parting'
    <3>1. \A s \in Servers : Shut(s) # Top
      BY <1>1 DEF Shut
    <3>2. \A s \in Servers : s \in Range(servers) \/ Vacant(s)
      BY <3>1 DEF Places, Parting
    <3>3. \A s \in Servers : Vacant(s) => Vacant(s)'
      BY <1>2 DEF Narrows, Vacant
    <3> QED
      BY <2>2, <2>8, <3>2, <3>3 DEF Parting
  <2>11. Leaving'
    BY <2>9 DEF Leaving, Rebuild
  <2>12. EnteringListed'
    BY <2>9 DEF EnteringListed
  <2>13. Roomy'
    <3>1. ~SomeoneEnters'
      BY <2>9 DEF SomeoneEnters
    <3> QED
      BY <1>2, <3>1, NarrowedRoom DEF Places
  <2> QED
    BY <2>10, <2>11, <2>12, <2>13 DEF Places
<1> QED
  BY <1>3, <1>4

\* Between handlers the holders are the ones the limit counts.
LEMMA CountedHolders ==
  ASSUME TypeOK, Parting, Idle
  PROVE  UNION {Attached(s) : s \in Range(servers)} = Holders
<1>1. Range(servers) \subseteq Servers
  BY ServersTyped DEF TypeOK
<1>2. \A s \in Servers : s \in Range(servers) \/ Attached(s) = {}
  BY DEF Parting, Vacant
<1> DEFINE counted == UNION {Attached(s) : s \in Range(servers)}
<1>3. ASSUME NEW x \in Holders
      PROVE  x \in counted
  <2>1. PICK s \in Servers : x \in Attached(s)
    BY <1>3 DEF Holders
  <2> QED
    BY <1>2, <2>1
<1>4. ASSUME NEW x \in counted
      PROVE  x \in Holders
  <2>1. PICK s \in Range(servers) : x \in Attached(s)
    BY <1>4
  <2> QED
    BY <1>1, <2>1 DEF Holders
<1> QED
  BY <1>3, <1>4

LEMMA RoomBetweenHandlers ==
  ASSUME TypeOK, Places, Idle, CanAddConnection, PortLimit # 0
  PROVE  IsFiniteSet(Holders) /\ Cardinality(Holders) < PortLimit
<1>1. UNION {Attached(s) : s \in Range(servers)} = Holders
  BY CountedHolders DEF Places
<1> QED
  BY <1>1 DEF CanAddConnection, TotalConnections, Places, Roomy

\* A handler begins that may let somebody into the listed server z.
LEMMA ListedStart ==
  ASSUME TypeOK, Places, stack = <<>>, UNCHANGED servers, NEW z \in Range(servers),
         \A s \in Servers : s # z /\ Vacant(s) => Vacant(s)',
         NEW a, IsList(a), stack' = a,
         \A f \in Range(a) : f.op # "rebuild" /\ (f.op \in Entering => f.s = z),
         Roomy'
  PROVE  Places'
<1>1. Parting'
  <2>1. \A s \in Servers : s \in Range(servers) \/ Vacant(s)
    BY DEF Places, Parting, Idle
  <2> QED
    BY <2>1 DEF Parting
<1>2. Leaving'
  <2>1. \A l \in Layouts : Rebuild(l).op = "rebuild"
    BY DEF Rebuild
  <2> QED
    BY <2>1 DEF Leaving
<1>3. EnteringListed'
  BY DEF EnteringListed
<1> QED
  BY <1>1, <1>2, <1>3 DEF Places

\* Nobody holds the device yet, but there is room for one more.
LEMMA RoomToEnter ==
  ASSUME TypeOK, Places, stack = <<>>, CanAddConnection,
         \A s \in Servers : Attached(s)' = Attached(s)
  PROVE  Roomy'
<1>1. PortLimit \in Nat
  BY SerialPortAssumption DEF SerialPortAssumption
<1>2. Holders' = Holders
  <2>1. \A x : x \in Holders' <=> x \in Holders
    BY DEF Holders
  <2> QED
    BY <2>1
<1>3. ASSUME PortLimit # 0
      PROVE  /\ IsFiniteSet(Holders') /\ Cardinality(Holders') < PortLimit
             /\ Cardinality(Holders') <= PortLimit
  <2>1. IsFiniteSet(Holders) /\ Cardinality(Holders) < PortLimit
    BY <1>3, RoomBetweenHandlers DEF Idle
  <2>2. Cardinality(Holders) \in Nat
    BY <2>1, FS_CardinalityType
  <2> QED
    BY <1>1, <1>2, <2>1, <2>2
<1> QED
  BY <1>3 DEF Roomy

LEMMA WsArrivesPlaces ==
  ASSUME Inv, Places, NEW s \in WsServers, NEW c \in WsClients, WsArrives(s, c)
  PROVE  Places'
<1>1. /\ TypeOK /\ stack = <<>> /\ UNCHANGED servers /\ UNCHANGED attached
      /\ s \in Range(servers) /\ CanAddConnection /\ s \in Servers
  BY DEF WsArrives, Inv, Start, Idle, portVars, Listening, Servers
<1>2. \A t \in Servers : t # s => conns'[t] = conns[t]
  BY <1>1 DEF WsArrives, TypeOK
<1>3. \A t \in Servers : Attached(t)' = Attached(t)
  <2>1. ASSUME NEW t \in Servers
        PROVE  Attached(t)' = Attached(t)
    <3>1. CASE t \in WsServers
      BY <1>1, <3>1 DEF Attached
    <3>2. CASE t \notin WsServers
      BY <1>2, <3>2 DEF Attached
    <3> QED
      BY <3>1, <3>2
  <2> QED
    BY <2>1
<1>4. \A t \in Servers : t # s /\ Vacant(t) => Vacant(t)'
  BY <1>2, <1>3 DEF Vacant
<1> DEFINE f == Connect
           g == On("join", s, c)
           h == On("hello", s, c)
           k == On("serve", s, c)
<1>5. /\ f.op = "connect" /\ g.op = "join" /\ h.op = "hello" /\ k.op = "serve"
      /\ g.s = s
  BY DEF Connect, On
<1>6. stack' = <<f, g, h, k>>
  BY DEF WsArrives, Start
<1> HIDE DEF f, g, h, k
<1>7. IsList(<<f, g, h, k>>) /\ Range(<<f, g, h, k>>) = {f, g, h, k}
  BY ListTuples, TupleRanges
<1> DEFINE a == <<f, g, h, k>>
<1>8. /\ IsList(a) /\ stack' = a
      /\ \A x \in Range(a) : x.op # "rebuild" /\ (x.op \in Entering => x.s = s)
  BY <1>5, <1>6, <1>7 DEF Entering
<1> HIDE DEF a
<1>9. Roomy'
  BY <1>1, <1>3, RoomToEnter
<1> QED
  BY <1>1, <1>4, <1>8, <1>9, ListedStart

LEMMA WsAttachesPlaces ==
  ASSUME Inv, Places, NEW s \in WsServers, NEW c \in WsClients, WsAttaches(s, c)
  PROVE  Places'
<1>1. /\ TypeOK /\ stack = <<>> /\ UNCHANGED servers /\ UNCHANGED <<conns, attached>>
      /\ s \in Servers /\ c \in conns[s]
  BY DEF WsAttaches, Inv, Start, Idle, clientVars, portVars, Servers
<1>2. s \in Range(servers)
  BY <1>1 DEF Places, Parting, Vacant, Idle
<1>3. \A t \in Servers : Attached(t)' = Attached(t)
  BY <1>1 DEF Attached
<1>4. \A t \in Servers : t # s /\ Vacant(t) => Vacant(t)'
  BY <1>1, <1>3 DEF Vacant
<1> DEFINE f == Connect
           g == On("join", s, c)
           h == On("reply", s, c)
           k == On("serve", s, c)
<1>5. /\ f.op = "connect" /\ g.op = "join" /\ h.op = "reply" /\ k.op = "serve"
      /\ g.s = s
  BY DEF Connect, On
<1>6. stack' = IF CanAddConnection THEN <<f, g, h, k>> ELSE <<h, k>>
  BY DEF WsAttaches, Start
<1> HIDE DEF f, g, h, k
<1>7. CASE CanAddConnection
  <2> DEFINE a == <<f, g, h, k>>
  <2>1. IsList(<<f, g, h, k>>) /\ Range(<<f, g, h, k>>) = {f, g, h, k}
    BY ListTuples, TupleRanges
  <2>2. /\ IsList(a) /\ stack' = a
        /\ \A x \in Range(a) : x.op # "rebuild" /\ (x.op \in Entering => x.s = s)
    BY <1>5, <1>6, <1>7, <2>1 DEF Entering
  <2> HIDE DEF a
  <2>3. Roomy'
    BY <1>1, <1>3, <1>7, RoomToEnter
  <2> QED
    BY <1>1, <1>2, <1>4, <2>2, <2>3, ListedStart
<1>8. CASE ~CanAddConnection
  <2> DEFINE a == <<h, k>>
  <2>1. Mild(a) /\ stack' = a
    BY <1>5, <1>6, <1>8, MildTuples DEF Entering
  <2> HIDE DEF a
  <2>2. Narrows
    BY <1>1, SameClients
  <2> QED
    BY <1>1, <2>1, <2>2, MildStart
<1> QED
  BY <1>7, <1>8

LEMMA WsLeavesPlaces ==
  ASSUME Inv, Places, NEW s \in WsServers, NEW c \in WsClients,
         WsDetaches(s, c) \/ WsDropped(s, c)
  PROVE  Places'
<1>1. TypeOK /\ stack = <<>> /\ UNCHANGED servers /\ UNCHANGED conns
  BY DEF WsDetaches, WsDropped, Inv, Start, Idle, portVars
<1>2. \A t \in WsServers : attached'[t] \subseteq attached[t]
  BY <1>1 DEF WsDetaches, WsDropped, TypeOK
<1>3. Narrows
  BY <1>1, <1>2 DEF Narrows, Attached
<1>4. \E a : Mild(a) /\ stack' = a
  <2> DEFINE f == Release
             g == On("reply", s, c)
             h == On("serve", s, c)
             k == On("remove", s, c)
  <2>1. stack' = <<f, g, h>> \/ stack' = <<k>>
    BY DEF WsDetaches, WsDropped, Start
  <2>2. f.op = "release" /\ g.op = "reply" /\ h.op = "serve" /\ k.op = "remove"
    BY DEF Release, On
  <2> HIDE DEF f, g, h, k
  <2>3. Mild(<<f, g, h>>) /\ Mild(<<k>>)
    BY <2>2, MildTuples DEF Entering
  <2> QED
    BY <2>1, <2>3
<1> QED
  BY <1>1, <1>3, <1>4, MildStart

LEMMA SocketArrivesPlaces ==
  ASSUME Inv, Places, NEW s \in SocketServers, NEW c \in SocketClients, SocketArrives(s, c)
  PROVE  Places'
<1>1. /\ TypeOK /\ stack = <<>> /\ UNCHANGED servers /\ UNCHANGED <<conns, attached>>
      /\ s \in Range(servers) /\ CanAddConnection
  BY DEF SocketArrives, Inv, Start, Idle, clientVars, portVars, Listening
<1>2. \A t \in Servers : Attached(t)' = Attached(t)
  BY <1>1 DEF Attached
<1>3. \A t \in Servers : t # s /\ Vacant(t) => Vacant(t)'
  BY <1>1, <1>2 DEF Vacant
<1> DEFINE f == Connect
           g == On("add", s, c)
<1>4. f.op = "connect" /\ g.op = "add" /\ g.s = s /\ stack' = <<f, g>>
  BY DEF Connect, On, SocketArrives, Start
<1> HIDE DEF f, g
<1> DEFINE a == <<f, g>>
<1>5. IsList(<<f, g>>) /\ Range(<<f, g>>) = {f, g}
  BY ListTuples, TupleRanges
<1>6. /\ IsList(a) /\ stack' = a
      /\ \A x \in Range(a) : x.op # "rebuild" /\ (x.op \in Entering => x.s = s)
  BY <1>4, <1>5 DEF Entering
<1> HIDE DEF a
<1>7. Roomy'
  BY <1>1, <1>2, RoomToEnter
<1> QED
  BY <1>1, <1>3, <1>6, <1>7, ListedStart

\* A TLS connection takes its place at once, before its handshake.
LEMMA TlsArrivesPlaces ==
  ASSUME Inv, Places, NEW s \in SocketServers, NEW c \in SocketClients, TlsArrives(s, c)
  PROVE  Places'
<1>1. /\ TypeOK /\ stack = <<>> /\ UNCHANGED servers /\ UNCHANGED attached
      /\ s \in Range(servers) /\ CanAddConnection /\ s \in Servers /\ s \notin WsServers
  BY SerialPortAssumption DEF TlsArrives, Inv, Start, Idle, portVars, Listening, Servers,
     SerialPortAssumption
<1>2. /\ \A t \in Servers : t # s => conns'[t] = conns[t]
      /\ conns'[s] = conns[s] \cup {c}
  BY <1>1 DEF TlsArrives, TypeOK
<1>3. \A t \in Servers : t # s => Attached(t)' = Attached(t)
  BY <1>1, <1>2 DEF Attached
<1>4. Attached(s)' = Attached(s) \cup {c}
  BY <1>1, <1>2 DEF Attached
<1>5. \A t \in Servers : t # s /\ Vacant(t) => Vacant(t)'
  BY <1>2, <1>3 DEF Vacant
<1> DEFINE f == On("handshake", s, c)
<1>6. f.op = "handshake" /\ stack' = <<f>>
  BY DEF On, TlsArrives, Start
<1> HIDE DEF f
<1> DEFINE a == <<f>>
<1>7. IsList(<<f>>) /\ Range(<<f>>) = {f}
  BY ListTuples, TupleRanges
<1>8. IsList(a) /\ stack' = a /\ \A x \in Range(a) : x.op \notin Entering \cup {"rebuild"}
  BY <1>6, <1>7 DEF Entering
<1> HIDE DEF a
<1>9. Roomy'
  <2>1. PortLimit \in Nat
    BY SerialPortAssumption DEF SerialPortAssumption
  <2>2. ~SomeoneEnters'
    BY <1>8 DEF SomeoneEnters
  <2>3. ASSUME NEW y \in Holders'
        PROVE  y \in Holders \cup {c}
    <3>1. PICK t \in Servers : y \in Attached(t)'
      BY <2>3 DEF Holders
    <3>2. y \in Attached(t) \cup {c}
      BY <1>3, <1>4, <3>1
    <3> QED
      BY <3>2 DEF Holders
  <2>4. ASSUME PortLimit # 0
        PROVE  IsFiniteSet(Holders') /\ Cardinality(Holders') <= PortLimit
    <3>1. IsFiniteSet(Holders) /\ Cardinality(Holders) < PortLimit
      BY <1>1, <2>4, RoomBetweenHandlers DEF Idle
    <3>2. Holders' \subseteq Holders \cup {c}
      BY <2>3
    <3> QED
      BY <2>1, <3>1, <3>2, OneMoreHolder
  <2> QED
    BY <2>2, <2>4 DEF Roomy
<1> QED
  BY <1>1, <1>5, <1>8, <1>9, ListedStart

LEMMA OtherSocketPlaces ==
  ASSUME Inv, Places, NEW s \in SocketServers, NEW c \in SocketClients,
         TlsReady(s, c) \/ SocketLeaves(s, c) \/ TlsRefused(s, c)
  PROVE  Places'
<1>1. TypeOK /\ stack = <<>> /\ UNCHANGED servers /\ UNCHANGED <<conns, attached>>
  BY DEF TlsReady, SocketLeaves, TlsRefused, Inv, Start, Idle, clientVars, portVars
<1>2. Narrows
  BY <1>1, SameClients
<1>3. \E a : Mild(a) /\ stack' = a
  <2> DEFINE f == On("handshake", s, c)
             g == On("drop", s, c)
             h == Release
  <2>1. /\ f.op = "handshake" /\ g.op = "drop" /\ h.op = "release"
        /\ stack' = <<f>> \/ stack' = <<g>> \/ stack' = <<h>>
    BY DEF On, Release, TlsReady, SocketLeaves, TlsRefused, Start
  <2> HIDE DEF f, g, h
  <2>2. Mild(<<f>>) /\ Mild(<<g>>) /\ Mild(<<h>>)
    BY <2>1, MildTuples DEF Entering
  <2> QED
    BY <2>1, <2>2
<1> QED
  BY <1>1, <1>2, <1>3, MildStart

LEMMA TickPlaces ==
  ASSUME Inv, Places, Tick
  PROVE  Places'
<1>1. TypeOK /\ stack = <<>> /\ UNCHANGED servers /\ UNCHANGED <<conns, attached>>
  BY DEF Tick, Inv, Start, Idle, clientVars, portVars
<1>2. Narrows
  BY <1>1, SameClients
<1> DEFINE a == [i \in DOMAIN servers |-> Reap(servers[i])]
           f == Retry
<1>3. stack' = a \o <<f>> /\ f.op = "retry"
  BY DEF Tick, Start, Retry
<1>4. a \in Seq(Frames)
  BY <1>1, ServerCalls DEF TypeOK
<1>5. \A i \in DOMAIN a : a[i].op = "reap"
  BY DEF Reap
<1> HIDE DEF a, f
<1>6. IsList(a) /\ IsList(<<f>>)
  BY <1>4, ListTuples DEF IsList
<1>7. IsList(a \o <<f>>) /\ Range(a \o <<f>>) = Range(a) \cup {f}
  <2> DEFINE b == <<f>>
  <2>1. Range(b) = {f} /\ IsList(b)
    BY <1>6, TupleRanges
  <2> HIDE DEF b
  <2>2. IsList(a \o b)
    BY <1>6, <2>1, ListConcat
  <2>3. Range(a \o b) = Range(a) \cup Range(b)
    BY <1>6, <2>1, ConcatRange
  <2>4. IsList(a \o b) /\ Range(a \o b) = Range(a) \cup {f}
    BY <2>1, <2>2, <2>3
  <2> QED
    BY <2>4 DEF b
<1>8. Mild(a \o <<f>>)
  BY <1>3, <1>5, <1>7 DEF Mild, Range, Entering
<1> QED
  BY <1>1, <1>2, <1>3, <1>8, MildStart

LEMMA QuietEventPlaces ==
  ASSUME Inv, Places,
         DeviceFails \/ DeviceData \/ Close \/ Plug \/ IntervalPasses
           \/ \E c \in WsClients : WsDies(c)
  PROVE  Places'
<1>1. TypeOK /\ stack = <<>> /\ UNCHANGED servers /\ UNCHANGED <<conns, attached>>
  BY DEF DeviceFails, DeviceData, Close, Plug, IntervalPasses, WsDies, Inv, Start, Idle,
         clientVars, portVars
<1>2. Narrows
  BY <1>1, SameClients
<1>3. \E a : Mild(a) /\ stack' = a
  <2> DEFINE f == Announce(FALSE)
             g == LetGo
             h == CloseNext
  <2>1. f.op = "announce" /\ g.op = "let_go" /\ h.op = "close_next"
    BY DEF Announce, LetGo, CloseNext
  <2>2. \/ stack' = <<f, g>> \/ stack' = <<h>> \/ stack' = <<>>
        \/ stack' = [i \in DOMAIN servers |-> Tell(servers[i], "data")]
    BY <1>1 DEF DeviceFails, DeviceData, Close, Plug, IntervalPasses, WsDies, Start
  <2> HIDE DEF f, g, h
  <2>3. Mild(<<f, g>>) /\ Mild(<<h>>) /\ Mild(<<>>)
    BY <2>1, MildTuples DEF Entering
  <2>4. Mild([i \in DOMAIN servers |-> Tell(servers[i], "data")])
    BY <1>1, TellsAreMild DEF TypeOK, Msgs
  <2> QED
    BY <2>2, <2>3, <2>4
<1> QED
  BY <1>1, <1>2, <1>3, MildStart

\* Everybody who is going to leave is shut before the list changes.
LEMMA ReconcilePlaces ==
  ASSUME Inv, Places, NEW layout \in Layouts, Reconcile(layout)
  PROVE  Places'
<1>1. /\ TypeOK /\ stack = <<>> /\ UNCHANGED servers /\ UNCHANGED <<conns, attached>>
      /\ servers \in Seq(Servers)
  BY DEF Reconcile, Inv, Start, Idle, clientVars, portVars, TypeOK
<1>2. Narrows
  BY <1>1, SameClients
<1> DEFINE out == {i \in DOMAIN servers : servers[i] \notin Range(layout)}
           f == Rebuild(layout)
<1>3. PICK n \in 0 .. Len(servers) : \E going \in [1 .. n -> out] :
        /\ InOrder(going, out)
        /\ Start([i \in 1 .. n |-> Shut(servers[going[i]])] \o <<f>>)
  BY DEF Reconcile
<1>4. PICK going \in [1 .. n -> out] :
        /\ InOrder(going, out)
        /\ Start([i \in 1 .. n |-> Shut(servers[going[i]])] \o <<f>>)
  BY <1>3
<1> DEFINE a == [i \in 1 .. n |-> Shut(servers[going[i]])]
           b == <<f>>
<1>5. stack' = a \o b
  BY <1>4 DEF Start
<1>6. n \in Nat
  BY <1>1, LenProperties
<1>7. \A i \in 1 .. n : a[i].op = "shut"
  BY DEF Shut
<1>8. \A s \in Range(servers) \ Range(layout) : Shut(s) \in Range(a)
  <2>1. ASSUME NEW s \in Range(servers), s \notin Range(layout)
        PROVE  Shut(s) \in Range(a)
    <3>1. PICK i \in DOMAIN servers : servers[i] = s
      BY <2>1 DEF Range
    <3>2. i \in out
      BY <2>1, <3>1
    <3>3. PICK j \in 1 .. n : going[j] = i
      BY <1>4, <3>2 DEF InOrder, Range
    <3>4. a[j] = Shut(s)
      BY <3>1, <3>3
    <3> QED
      BY <3>4 DEF Range
  <2> QED
    BY <2>1
<1>9. a = [i \in 1 .. n |-> a[i]]
  OBVIOUS
<1>10. Range(b) = {f} /\ IsList(b)
  BY ListTuples, TupleRanges
<1>11. DOMAIN a = 1 .. n
  OBVIOUS
<1> HIDE DEF a, b
<1>12. IsList(a)
  BY <1>6, <1>9, ListOf
<1>13. Range(stack)' = Range(a) \cup {f}
  <2>1. Range(a \o b) = Range(a) \cup Range(b)
    BY <1>10, <1>12, ConcatRange
  <2> QED
    BY <1>5, <1>10, <2>1
<1>14. \A x \in Range(a) : x.op = "shut"
  BY <1>7, <1>11 DEF Range
<1>15. Range(servers)' = Range(servers)
  BY <1>1
<1>16. f.op = "rebuild" /\ f.layout = layout
  BY DEF Rebuild
<1>17. Parting'
  <2>1. \A s \in Servers : s \in Range(servers) \/ Vacant(s)
    BY <1>1 DEF Places, Parting, Idle
  <2>2. \A s \in Servers : Vacant(s) => Vacant(s)'
    BY <1>2 DEF Narrows, Vacant
  <2> QED
    BY <1>15, <2>1, <2>2 DEF Parting
<1>18. Leaving'
  <2>1. ASSUME NEW l \in Layouts, Rebuild(l) \in Range(stack)'
        PROVE  l = layout
    <3>1. Rebuild(l).op = "rebuild" /\ Rebuild(l).layout = l
      BY DEF Rebuild
    <3>2. Rebuild(l) = f
      BY <1>13, <1>14, <2>1, <3>1
    <3> QED
      BY <1>16, <3>1, <3>2
  <2>2. \A s \in Range(servers) \ Range(layout) : Shut(s) \in Range(stack)'
    BY <1>8, <1>13
  <2> HIDE DEF f
  <2> QED
    BY <1>15, <2>1, <2>2 DEF Leaving
<1> HIDE DEF f
<1>19. \A x \in Range(stack)' : x.op \notin Entering
  BY <1>13, <1>14, <1>16 DEF Entering
<1>20. EnteringListed'
  BY <1>19 DEF EnteringListed
<1>21. Roomy'
  <2>1. ~SomeoneEnters'
    BY <1>19 DEF SomeoneEnters
  <2> QED
    BY <1>2, <2>1, NarrowedRoom DEF Places
<1> QED
  BY <1>17, <1>18, <1>20, <1>21 DEF Places

LEMMA EventPlaces ==
  ASSUME Inv, Places, Event
  PROVE  Places'
<1>1. CASE \E s \in WsServers, c \in WsClients :
             WsArrives(s, c) \/ WsAttaches(s, c) \/ WsDetaches(s, c) \/ WsDropped(s, c)
  BY <1>1, WsArrivesPlaces, WsAttachesPlaces, WsLeavesPlaces
<1>2. CASE \E s \in SocketServers, c \in SocketClients :
             SocketArrives(s, c) \/ TlsArrives(s, c) \/ TlsRefused(s, c) \/ TlsReady(s, c)
             \/ SocketLeaves(s, c)
  BY <1>2, SocketArrivesPlaces, TlsArrivesPlaces, OtherSocketPlaces
<1>3. CASE \E layout \in Layouts : Reconcile(layout)
  BY <1>3, ReconcilePlaces
<1>4. CASE DeviceFails \/ DeviceData \/ Close \/ Plug \/ IntervalPasses
             \/ \E c \in WsClients : WsDies(c)
  BY <1>4, QuietEventPlaces
<1> QED
  BY <1>1, <1>2, <1>3, <1>4 DEF Event

LEMMA NextPlaces ==
  ASSUME Inv, Places, [Next]_vars
  PROVE  Places'
<1>1. CASE Step
  BY <1>1, DevicePlaces, TellPlaces, ClientPlaces, EnterPlaces, ShutPlaces,
     RebuildPlaces, ClosePlaces DEF Step
<1>2. CASE Tick
  BY <1>2, TickPlaces
<1>3. CASE Event
  BY <1>3, EventPlaces
<1>4. CASE UNCHANGED vars
  <2>1. /\ Parting' <=> Parting
        /\ Leaving' <=> Leaving
        /\ EnteringListed' <=> EnteringListed
        /\ Roomy' <=> Roomy
    BY <1>4 DEF vars, clientVars, portVars, Parting, Leaving, EnteringListed, Roomy, Vacant,
       Attached, Holders, SomeoneEnters, Idle, Top
  <2> QED
    BY <2>1 DEF Places
<1> QED
  BY <1>1, <1>2, <1>3, <1>4 DEF Next

LEMMA InitPlaces ==
  ASSUME Init
  PROVE  Places
<1>1. PortLimit \in Nat
  BY SerialPortAssumption DEF SerialPortAssumption
<1>2. \A s \in Servers : conns[s] = {} /\ Attached(s) = {}
  BY DEF Init, Attached
<1>3. stack = <<>> /\ Range(stack) = {}
  BY TupleRanges DEF Init
<1>4. Holders = {}
  <2>1. \A x : x \notin Holders
    BY <1>2 DEF Holders
  <2> QED
    BY <2>1
<1>5. IsFiniteSet(Holders) /\ Cardinality(Holders) = 0
  BY <1>4, FS_EmptySet
<1>6. Parting
  BY <1>2 DEF Parting, Vacant
<1>7. Leaving /\ EnteringListed /\ ~SomeoneEnters
  BY <1>3 DEF Leaving, EnteringListed, SomeoneEnters
<1> QED
  BY <1>1, <1>5, <1>6, <1>7 DEF Places, Roomy

\* However clients of all the servers arrive, attach and detach while the
\* device opens and closes under them, and the list of servers changes, no more
\* than max_connections of them share it.
THEOREM LimitKept == Spec => []PortLimitKept
<1>1. Inv /\ Places => PortLimitKept
  <2> SUFFICES ASSUME Inv, Places, PortLimit # 0
               PROVE  TotalConnections <= PortLimit
    BY DEF PortLimitKept
  <2> DEFINE counted == UNION {Attached(s) : s \in Range(servers)}
  <2>1. PortLimit \in Nat
    BY SerialPortAssumption DEF SerialPortAssumption
  <2>2. Range(servers) \subseteq Servers
    BY ServersTyped DEF Inv, TypeOK
  <2>3. counted \subseteq Holders
    <3>1. ASSUME NEW x \in counted
          PROVE  x \in Holders
      <4>1. PICK s \in Range(servers) : x \in Attached(s)
        BY <3>1
      <4> QED
        BY <2>2, <4>1 DEF Holders
    <3> QED
      BY <3>1
  <2>4. IsFiniteSet(Holders) /\ Cardinality(Holders) <= PortLimit
    BY DEF Places, Roomy
  <2>5. TotalConnections = Cardinality(counted)
    BY DEF TotalConnections
  <2> HIDE DEF counted
  <2>6. IsFiniteSet(counted) /\ Cardinality(counted) <= Cardinality(Holders)
    BY <2>3, <2>4, FS_Subset
  <2>7. Cardinality(counted) \in Nat /\ Cardinality(Holders) \in Nat
    BY <2>4, <2>6, FS_CardinalityType
  <2> QED
    BY <2>1, <2>4, <2>5, <2>6, <2>7
<1>2. Init => Inv /\ Places
  BY InitInv, InitPlaces
<1>3. Inv /\ Places /\ [Next]_vars => Inv' /\ Places'
  BY NextInv, NextPlaces
<1> QED
  BY <1>1, <1>2, <1>3, PTL DEF Spec

-----------------------------------------------------------------------------
(* What may be in progress over a broadcast, and over a client coming in *)

Telling == {"tell", "cast"}
Arriving == {"join", "add", "hello"}
\* The calls that come before a client is in.
Before == {"connect", "announce", "join"} \cup Telling
\* The calls that come before a device that was lost is closed, and before a
\* client that was removed is out.
Closing == {"announce"} \cup Telling
Ending == {"release", "announce", "let_go"} \cup Telling
\* Nothing runs before these have.
Alone == {"handshake", "drop"}

\* Call f may be in progress above call g, as long as no send raises.
Nests(f, g) ==
  /\ g.op \in Telling => f.op \in Telling /\ f.s # g.s
  /\ g.op \in Arriving => f.op \in Before
  /\ g.op = "let_go" => f.op \in Closing
  /\ g.op = "removed" => f.op \in Ending
  /\ g.op \notin Alone \cup {"connect"}

Nested(s) == IsList(s) /\ \A i, j \in 1 .. Len(s) : i < j => Nests(s[i], s[j])

\* A call f that takes the place of g nests wherever g did.
Replaces(f, g) ==
  /\ \A ops \in {Telling, Before, Closing, Ending} : g.op \in ops => f.op \in ops
  /\ g.op \in Telling => f.s = g.s

LEMMA ConcatNested ==
  ASSUME NEW a, Nested(a), NEW t, Nested(t),
         \A f \in Range(a), g \in Range(t) : Nests(f, g)
  PROVE  Nested(a \o t)
<1> DEFINE s == a \o t
           n == Len(a)
           m == Len(t)
<1>1. /\ n \in Nat /\ m \in Nat /\ DOMAIN a = 1 .. n /\ DOMAIN t = 1 .. m
      /\ IsList(a) /\ IsList(t)
  BY ListLength DEF Nested
<1>2. /\ IsList(s) /\ Len(s) = n + m
      /\ \A i \in 1 .. n + m : s[i] = IF i <= n THEN a[i] ELSE t[i - n]
  BY <1>1, ListConcat
<1> HIDE DEF s
<1>3. \A i \in 1 .. n : i \in 1 .. n + m /\ s[i] = a[i] /\ a[i] \in Range(a)
  BY <1>1, <1>2 DEF Range
<1>4. ASSUME NEW i \in 1 .. n + m, i > n
      PROVE  i - n \in 1 .. m /\ s[i] = t[i - n] /\ t[i - n] \in Range(t)
  <2>1. i - n \in 1 .. m /\ s[i] = t[i - n]
    BY <1>1, <1>2, <1>4
  <2> QED
    BY <2>1, <1>1 DEF Range
<1>5. ASSUME NEW i \in 1 .. n + m, NEW j \in 1 .. n + m, i < j
      PROVE  Nests(s[i], s[j])
  <2>1. CASE j <= n
    <3>1. i \in 1 .. n /\ j \in 1 .. n
      BY <2>1, <1>1, <1>5
    <3> QED
      BY <3>1, <1>3, <1>5 DEF Nested
  <2>2. CASE i <= n /\ j > n
    <3>1. i \in 1 .. n
      BY <2>2, <1>1
    <3> QED
      BY <2>2, <3>1, <1>3, <1>4
  <2>3. CASE i > n
    <3>1. /\ i - n \in 1 .. m /\ s[i] = t[i - n]
          /\ j - n \in 1 .. m /\ s[j] = t[j - n]
          /\ i - n < j - n
      BY <2>3, <1>1, <1>4, <1>5
    <3> QED
      BY <3>1 DEF Nested
  <2> QED
    BY <2>1, <2>2, <2>3, <1>1
<1> QED
  BY <1>2, <1>5 DEF Nested, s

LEMMA TailNested ==
  ASSUME NEW s, Nested(s), s # <<>>
  PROVE  Nested(Tail(s)) /\ \A g \in Range(Tail(s)) : Nests(s[1], g)
<1>1. Len(s) \in Nat
  BY ListLength DEF Nested
<1>2. /\ IsList(Tail(s)) /\ Len(s) >= 1 /\ Len(Tail(s)) = Len(s) - 1
      /\ \A i \in 1 .. Len(s) - 1 : Tail(s)[i] = s[i + 1]
  BY ListTail DEF Nested
<1>3. DOMAIN Tail(s) = 1 .. Len(s) - 1
  BY <1>2, ListLength
<1>4. ASSUME NEW i \in 1 .. Len(s) - 1, NEW j \in 1 .. Len(s) - 1, i < j
      PROVE  Nests(Tail(s)[i], Tail(s)[j])
  <2>1. i + 1 \in 1 .. Len(s) /\ j + 1 \in 1 .. Len(s) /\ i + 1 < j + 1
    BY <1>1, <1>4
  <2> QED
    BY <2>1, <1>2 DEF Nested
<1>5. ASSUME NEW j \in 1 .. Len(s) - 1
      PROVE  Nests(s[1], Tail(s)[j])
  <2>1. 1 \in 1 .. Len(s) /\ j + 1 \in 1 .. Len(s) /\ 1 < j + 1
    BY <1>1
  <2>2. Nests(s[1], s[j + 1])
    BY <2>1 DEF Nested
  <2> QED
    BY <2>2, <1>2
<1> QED
  BY <1>2, <1>3, <1>4, <1>5 DEF Nested, Range

LEMMA ReturnRange ==
  ASSUME TypeOK, ~Idle, Return
  PROVE  /\ Range(stack)' = Range(Tail(stack))
         /\ Range(stack) = {Top} \cup Range(Tail(stack))
<1> DEFINE a == <<>>
<1>1. IsList(a) /\ Range(a) = {} /\ Call(a)
  BY ListTuples, TupleRanges DEF Return
<1> HIDE DEF a
<1>2. /\ Range(stack)' = Range(a) \cup Range(Tail(stack))
      /\ Range(stack) = {Top} \cup Range(Tail(stack))
  BY <1>1, CallRange
<1> QED
  BY <1>1, <1>2

LEMMA NestedUnderTop ==
  ASSUME TypeOK, Nested(stack), ~Idle
  PROVE  Nested(Tail(stack)) /\ \A g \in Range(Tail(stack)) : Nests(Top, g)
<1>1. stack # <<>> /\ Top = stack[1]
  BY RunningStack
<1> QED
  BY <1>1, TailNested

\* The running call goes on as calls that nest where it did.
LEMMA NestedCall ==
  ASSUME TypeOK, Nested(stack), ~Idle, NEW a, Nested(a), Call(a),
         \A f \in Range(a) : Replaces(f, Top)
  PROVE  Nested(stack)'
<1>1. Nested(Tail(stack)) /\ \A g \in Range(Tail(stack)) : Nests(Top, g)
  BY NestedUnderTop
<1>2. ASSUME NEW f \in Range(a), NEW g \in Range(Tail(stack))
      PROVE  Nests(f, g)
  <2>1. /\ Nests(Top, g)
        /\ Top.op \in Telling => f.op \in Telling /\ f.s = Top.s
        /\ Top.op \in Before => f.op \in Before
        /\ Top.op \in Closing => f.op \in Closing
        /\ Top.op \in Ending => f.op \in Ending
    BY <1>1 DEF Replaces
  <2> QED
    BY <2>1 DEF Nests
<1>3. Nested(a \o Tail(stack))
  BY <1>1, <1>2, ConcatNested
<1> QED
  BY <1>3 DEF Call

\* Calls that nest in each other: all of them the same broadcast, or none of
\* those under the first a broadcast or a client coming in.
LEMMA NestedLists ==
  /\ Nested(<<>>)
  /\ \A f : Nested(<<f>>)
  /\ \A f, g : Nests(f, g) => Nested(<<f, g>>)
  /\ \A f, g, h : Nests(f, g) /\ Nests(f, h) /\ Nests(g, h) => Nested(<<f, g, h>>)
  /\ \A f, g, h, k :
       /\ Nests(f, g) /\ Nests(f, h) /\ Nests(f, k)
       /\ Nests(g, h) /\ Nests(g, k) /\ Nests(h, k)
       => Nested(<<f, g, h, k>>)
<1>1. Nested(<<>>) /\ \A f : Nested(<<f>>)
  BY ListTuples DEF Nested
<1>2. ASSUME NEW f, NEW g, Nests(f, g)
      PROVE  Nested(<<f, g>>)
  <2>1. \A i, j \in 1 .. 2 : i < j => i = 1 /\ j = 2
    OBVIOUS
  <2> QED
    BY <1>2, <2>1, ListTuples DEF Nested
<1>3. ASSUME NEW f, NEW g, NEW h, Nests(f, g), Nests(f, h), Nests(g, h)
      PROVE  Nested(<<f, g, h>>)
  <2> DEFINE a == <<f, g, h>>
  <2>1. IsList(a) /\ Len(a) = 3 /\ a[1] = f /\ a[2] = g /\ a[3] = h
    BY ListTuples
  <2> HIDE DEF a
  <2>2. \A i, j \in 1 .. 3 : i < j => (i = 1 /\ j = 2) \/ (i = 1 /\ j = 3) \/ (i = 2 /\ j = 3)
    OBVIOUS
  <2>3. Nested(a)
    BY <1>3, <2>1, <2>2 DEF Nested
  <2> QED
    BY <2>3 DEF a
<1>4. ASSUME NEW f, NEW g, NEW h, NEW k, Nests(f, g), Nests(f, h), Nests(f, k),
             Nests(g, h), Nests(g, k), Nests(h, k)
      PROVE  Nested(<<f, g, h, k>>)
  <2> DEFINE a == <<f, g, h, k>>
  <2>1. IsList(a) /\ Len(a) = 4 /\ a[1] = f /\ a[2] = g /\ a[3] = h /\ a[4] = k
    BY ListTuples
  <2> HIDE DEF a
  <2>2. \A i, j \in 1 .. 4 : i < j =>
          \/ i = 1 /\ j = 2
          \/ i = 1 /\ j = 3
          \/ i = 1 /\ j = 4
          \/ i = 2 /\ j = 3
          \/ i = 2 /\ j = 4
          \/ i = 3 /\ j = 4
    OBVIOUS
  <2>3. Nested(a)
    BY <1>4, <2>1, <2>2 DEF Nested
  <2> QED
    BY <2>3 DEF a
<1> QED
  BY <1>1, <1>2, <1>3, <1>4

LEMMA UniformNested ==
  ASSUME NEW a, IsList(a), NEW op \in {"reap", "shut"},
         \A f \in Range(a) : f.op = op
  PROVE  Nested(a)
<1>1. \A i \in 1 .. Len(a) : a[i] \in Range(a)
  BY ListLength DEF Range
<1>2. \A i, j \in 1 .. Len(a) : Nests(a[i], a[j])
  BY <1>1 DEF Nests, Telling, Arriving, Alone
<1> QED
  BY <1>2 DEF Nested

\* The running call goes on without telling anybody anything, or letting
\* anybody in.
Quietly(a) ==
  Nested(a) /\ \A f \in Range(a) : Replaces(f, Top) /\ f.op \notin Arriving \cup Telling

LEMMA QuietLists ==
  /\ Quietly(<<>>)
  /\ \A f : Replaces(f, Top) /\ f.op \notin Arriving \cup Telling => Quietly(<<f>>)
  /\ \A f, g :
       /\ Replaces(f, Top) /\ f.op \notin Arriving \cup Telling
       /\ Replaces(g, Top) /\ g.op \notin Arriving \cup Telling
       /\ Nests(f, g)
       => Quietly(<<f, g>>)
<1>1. Quietly(<<>>)
  BY NestedLists, TupleRanges DEF Quietly
<1>2. ASSUME NEW f, Replaces(f, Top), f.op \notin Arriving \cup Telling
      PROVE  Quietly(<<f>>)
  <2>1. Nested(<<f>>) /\ Range(<<f>>) = {f}
    BY NestedLists, TupleRanges
  <2> QED
    BY <1>2, <2>1 DEF Quietly
<1>3. ASSUME NEW f, Replaces(f, Top), f.op \notin Arriving \cup Telling,
             NEW g, Replaces(g, Top), g.op \notin Arriving \cup Telling, Nests(f, g)
      PROVE  Quietly(<<f, g>>)
  <2>2. Nested(<<f, g>>) /\ Range(<<f, g>>) = {f, g}
    BY <1>3, NestedLists, TupleRanges
  <2> QED
    BY <1>3, <2>2 DEF Quietly
<1> QED
  BY <1>1, <1>2, <1>3

\* The steps that tell nobody anything.
Untold ==
  \/ ConnectStep \/ ReleaseStep \/ LetGoStep \/ TellSocket
  \/ (AnnounceStep /\ announced = Top.up)
  \/ JoinStep \/ HelloStep \/ ReplyStep \/ RemoveStep \/ RemovedStep \/ ServeStep
  \/ AddStep \/ HandshakeStep \/ DropStep
  \/ ReapStep \/ RetryStep \/ ShutStep \/ RebuildStep \/ CloseStep

\* The only calls that nothing precedes are those that drop a client there is.
Drops(a) ==
  \A f \in Range(a) : f.op \in Alone =>
    \/ HandshakeStep /\ f = On("drop", Top.s, Top.c)
    \/ ReapStep /\ \E c \in conns[Top.s] : f = On("drop", Top.s, c)

LEMMA UntoldCalls ==
  ASSUME ~SendRaises, ~PairFails, Untold
  PROVE  /\ ~Idle
         /\ \/ \E a : Quietly(a) /\ Drops(a) /\ Call(a)
            \/ stack' = <<>> /\ Top.op \in {"let_go", "removed"}
<1>1. ~Idle
  BY DEF Untold, ConnectStep, ConnectRaises, ReleaseStep, LetGoStep, TellSocket,
     AnnounceStep, JoinStep,
         HelloStep, ReplyStep, RemoveStep, RemovedStep, ServeStep, AddStep, HandshakeStep,
         DropStep, ReapStep, RetryStep, ShutStep, RebuildStep, CloseStep, Running
<1> DEFINE up   == Announce(TRUE)
           off  == Announce(FALSE)
           go   == LetGo
           red  == On("removed", Top.s, Top.c)
           rel  == Release
           drop == On("drop", Top.s, Top.c)
           conn == Connect
           shut == Shut(servers[Len(servers)])
           next == CloseNext
<1>2. /\ up.op = "announce" /\ off.op = "announce" /\ go.op = "let_go" /\ red.op = "removed"
      /\ rel.op = "release" /\ drop.op = "drop" /\ conn.op = "connect"
      /\ shut.op = "shut" /\ next.op = "close_next"
  BY DEF Announce, LetGo, On, Release, Connect, Shut, CloseNext
<1>3. \A f : /\ f.op \in {"announce", "let_go", "removed", "release", "drop", "connect",
                          "shut", "close_next", "remove", "reap"}
             /\ Top.op \in Before => Top.op = "connect" /\ f.op = "announce"
             /\ Top.op \in Ending => Top.op = "release" /\ f.op \in {"announce", "let_go"}
             => Replaces(f, Top) /\ f.op \notin Arriving \cup Telling
  BY DEF Replaces, Before, Telling, Arriving, Closing, Ending
<1>4. CASE Return
  BY <1>1, <1>4, QuietLists, TupleRanges DEF Return, Drops
<1>5. CASE stack' = <<>> /\ Top.op \in {"let_go", "removed"}
  BY <1>1, <1>5
<1>6. CASE ReapStep /\ ~Return
  <2>1. PICK c \in conns[Top.s], op \in {"drop", "remove"} : Call(<<On(op, Top.s, c), Top>>)
    BY <1>6 DEF ReapStep
  <2> DEFINE f == On(op, Top.s, c)
  <2>2. Call(<<f, Top>>) /\ f.op = op /\ Top.op = "reap"
    BY <1>6, <2>1 DEF On, ReapStep, Running
  <2>4. f.op \in Alone => f = On("drop", Top.s, c)
    BY DEF On, Alone
  <2> HIDE DEF f
  <2>5. Drops(<<f, Top>>)
    BY <1>6, <2>2, <2>4, TupleRanges DEF Drops, Alone
  <2>3. Quietly(<<f, Top>>)
    <3>1. Nests(f, Top)
      BY <2>2 DEF Nests, Alone, Arriving, Telling
    <3>2. Top.op \notin Before \cup Ending
      BY <2>2 DEF Before, Ending, Telling
    <3> QED
      BY <2>2, <3>1, <3>2, <1>3, QuietLists DEF Arriving, Telling
  <2> QED
    BY <1>1, <2>2, <2>3, <2>5
<1>7. CASE Untold /\ ~ReapStep /\ ~Return /\ ~(stack' = <<>> /\ Top.op \in {"let_go", "removed"})
  <2>1. \/ Call(<<up>>) /\ Top.op = "connect"
        \/ Call(<<off, go>>) /\ Top.op = "release"
        \/ /\ Top.op \notin Before \cup Ending
           /\ \/ Call(<<rel, red>>) \/ Call(<<shut, next>>)
              \/ Call(<<red>>) \/ Call(<<rel>>) \/ Call(<<conn>>)
              \/ Call(<<drop>>) /\ HandshakeStep
    <3>1. CASE ConnectStep \/ ReleaseStep \/ LetGoStep
      BY <1>7, <3>1 DEF ConnectStep, ConnectRaises, ReleaseStep, LetGoStep, Running,
         Before, Ending, Telling, Raise
    <3>2. CASE TellSocket \/ (AnnounceStep /\ announced = Top.up) \/ JoinStep \/ HelloStep
               \/ ReplyStep \/ ServeStep
      BY <1>7, <3>2 DEF TellSocket, AnnounceStep, JoinStep, HelloStep, ReplyStep, ServeStep,
                        SendFails
    <3>3. CASE RemoveStep \/ RemovedStep
      BY <1>7, <3>3 DEF RemoveStep, RemovedStep, Running, Before, Ending, Telling, Raise
    <3>4. CASE AddStep \/ HandshakeStep \/ DropStep
      BY <1>7, <3>4 DEF AddStep, HandshakeStep, DropStep, Running, Before, Ending, Telling, Return
    <3>5. CASE RetryStep \/ ShutStep \/ RebuildStep
      BY <1>7, <3>5 DEF RetryStep, ShutStep, RebuildStep, Running, Before, Ending, Telling, Return
    <3>6. CASE CloseStep
      BY <1>7, <3>6 DEF CloseStep, Running, Before, Ending, Telling
    <3> QED
      BY <1>7, <3>1, <3>2, <3>3, <3>4, <3>5, <3>6 DEF Untold
  <2>4. HandshakeStep => Drops(<<drop>>)
    BY TupleRanges DEF Drops
  <2> HIDE DEF up, off, go, red, rel, drop, conn, shut, next
  <2>5. /\ Drops(<<up>>) /\ Drops(<<off, go>>) /\ Drops(<<rel, red>>) /\ Drops(<<shut, next>>)
        /\ Drops(<<red>>) /\ Drops(<<rel>>) /\ Drops(<<conn>>)
    <3>1. \A f, g : f.op \notin Alone /\ g.op \notin Alone => Drops(<<f>>) /\ Drops(<<f, g>>)
      BY TupleRanges DEF Drops
    <3>2. \A f \in {up, off, go, red, rel, conn, shut, next} : f.op \notin Alone
      BY <1>2 DEF Alone
    <3> QED
      BY <3>1, <3>2
  <2>2. Top.op = "connect" => Quietly(<<up>>)
    BY <1>2, <1>3, QuietLists DEF Ending, Telling
  <2>6. Nests(off, go) /\ Nests(rel, red) /\ Nests(shut, next)
    BY <1>2 DEF Nests, Alone, Arriving, Telling, Closing, Ending
  <2>7. Top.op = "release" => Quietly(<<off, go>>)
    BY <1>2, <1>3, <2>6, QuietLists DEF Before, Telling
  <2>3. ASSUME Top.op \notin Before \cup Ending
        PROVE  /\ Quietly(<<rel, red>>) /\ Quietly(<<shut, next>>)
               /\ Quietly(<<red>>) /\ Quietly(<<rel>>) /\ Quietly(<<drop>>) /\ Quietly(<<conn>>)
    <3>1. \A f \in {rel, red, shut, next, drop, conn} :
            Replaces(f, Top) /\ f.op \notin Arriving \cup Telling
      BY <1>2, <1>3, <2>3
    <3> QED
      BY <2>6, <3>1, QuietLists
  <2> QED
    BY <1>1, <2>1, <2>2, <2>3, <2>4, <2>5, <2>7
<1> QED
  BY <1>4, <1>5, <1>6, <1>7

\* No server is in the list twice, so that none is told twice.
Once == IsInjective(servers)

\* Every server is told the same.
LEMMA TellFrames ==
  ASSUME TypeOK, NEW msg \in Msgs
  PROVE  LET a == [i \in DOMAIN servers |-> Tell(servers[i], msg)]
         IN  /\ IsList(a) /\ Range(a) = {Tell(s, msg) : s \in Range(servers)}
             /\ Once => Nested(a)
<1> DEFINE a == [i \in DOMAIN servers |-> Tell(servers[i], msg)]
<1>1. IsList(a)
  BY ServerCalls DEF TypeOK, IsList
<1>2. Range(a) = {Tell(s, msg) : s \in Range(servers)}
  BY DEF Range
<1>3. \A i \in DOMAIN a : i \in DOMAIN servers /\ a[i].op = "tell" /\ a[i].s = servers[i]
  BY DEF Tell
<1> HIDE DEF a
<1>4. DOMAIN a = 1 .. Len(a) /\ Len(a) \in Nat
  BY <1>1, ListLength
<1>5. ASSUME Once, NEW i \in 1 .. Len(a), NEW j \in 1 .. Len(a), i < j
      PROVE  Nests(a[i], a[j])
  <2>1. servers[i] # servers[j]
    BY <1>3, <1>4, <1>5 DEF Once, IsInjective
  <2> QED
    BY <1>3, <1>4, <1>5, <2>1 DEF Nests, Telling, Arriving, Alone
<1>6. Once => Nested(a)
  BY <1>1, <1>5 DEF Nested
<1> QED
  BY <1>1, <1>2, <1>6 DEF a

LEMMA ReapFrames ==
  ASSUME TypeOK, Tick
  PROVE  Nested(stack)' /\ \A f \in Range(stack)' : f.op \in {"reap", "retry"}
<1> DEFINE a == [i \in DOMAIN servers |-> Reap(servers[i])]
           b == <<Retry>>
<1>1. stack' = a \o b
  BY DEF Tick, Start
<1>2. IsList(a) /\ \A f \in Range(a) : f.op = "reap"
  <2>1. IsList(a)
    BY ServerCalls DEF TypeOK, IsList
  <2>2. \A i \in DOMAIN a : a[i].op = "reap"
    BY DEF Reap
  <2> HIDE DEF a
  <2> QED
    BY <2>1, <2>2 DEF Range
<1>3. IsList(b) /\ Range(b) = {Retry} /\ Retry.op = "retry" /\ Nested(b)
  BY ListTuples, TupleRanges, NestedLists DEF Retry
<1> HIDE DEF a, b
<1>4. Nested(a)
  BY <1>2, UniformNested
<1>5. \A f \in Range(a), g \in Range(b) : Nests(f, g)
  BY <1>3 DEF Nests, Telling, Arriving, Closing, Ending, Alone
<1>6. Nested(a \o b)
  BY <1>3, <1>4, <1>5, ConcatNested
<1>7. Range(a \o b) = Range(a) \cup Range(b)
  BY <1>2, <1>3, ConcatRange
<1> QED
  BY <1>1, <1>2, <1>3, <1>6, <1>7

LEMMA ReconcileFrames ==
  ASSUME TypeOK, NEW layout \in Layouts, Reconcile(layout)
  PROVE  /\ Nested(stack)'
         /\ \A f \in Range(stack)' : f.op = "shut" \/ f = Rebuild(layout)
<1> DEFINE out == {i \in DOMAIN servers : servers[i] \notin Range(layout)}
           b == <<Rebuild(layout)>>
<1>1. PICK n \in 0 .. Len(servers) : \E going \in [1 .. n -> out] :
        Start([i \in 1 .. n |-> Shut(servers[going[i]])] \o b)
  BY DEF Reconcile
<1>13. PICK going \in [1 .. n -> out] :
        Start([i \in 1 .. n |-> Shut(servers[going[i]])] \o b)
  BY <1>1
<1> DEFINE a == [i \in 1 .. n |-> Shut(servers[going[i]])]
<1>2. stack' = a \o b
  BY <1>13 DEF Start
<1>3. n \in Nat
  BY LenProperties DEF TypeOK
<1>4. \A i \in 1 .. n : a[i].op = "shut"
  BY DEF Shut
<1>5. a = [i \in 1 .. n |-> a[i]]
  OBVIOUS
<1>6. IsList(b) /\ Range(b) = {Rebuild(layout)} /\ Rebuild(layout).op = "rebuild" /\ Nested(b)
  BY ListTuples, TupleRanges, NestedLists DEF Rebuild
<1> HIDE DEF a, b, out
<1>7. IsList(a) /\ Len(a) = n
  BY <1>3, <1>5, ListOf
<1>8. \A f \in Range(a) : f.op = "shut"
  BY <1>4, <1>7, ListLength DEF Range
<1>9. Nested(a)
  BY <1>7, <1>8, UniformNested
<1>10. \A f \in Range(a), g \in Range(b) : Nests(f, g)
  BY <1>6 DEF Nests, Telling, Arriving, Closing, Ending, Alone
<1>11. Nested(a \o b)
  BY <1>6, <1>9, <1>10, ConcatNested
<1>12. Range(a \o b) = Range(a) \cup Range(b)
  BY <1>6, <1>7, ConcatRange
<1> QED
  BY <1>2, <1>6, <1>8, <1>11, <1>12

\* A message about the device, not of its data.
Newsy(f) == f.op \in Telling /\ f.msg # "data"

\* Every handler begins with calls that nest, and that are not news; a client
\* that will be greeted is connected, one that will be added is unknown.
LEMMA Begins ==
  ASSUME TypeOK, Once, Tick \/ Event
  PROVE  /\ Idle
         /\ Nested(stack)'
         /\ \A f \in Range(stack)' :
              /\ ~Newsy(f)
              /\ f.op = "hello" => f.s \in WsServers /\ f.c \in conns'[f.s]
              /\ f.op \in {"join", "add"} =>
                   \/ \E s \in WsServers, c \in WsClients :
                        (WsArrives(s, c) \/ WsAttaches(s, c)) /\ f = On("join", s, c)
                   \/ \E s \in SocketServers, c \in SocketClients :
                        SocketArrives(s, c) /\ f = On("add", s, c)
<1>1. CASE Tick
  <2>1. Nested(stack)' /\ \A f \in Range(stack)' : f.op \in {"reap", "retry"}
    BY <1>1, ReapFrames
  <2>2. Idle
    BY <1>1 DEF Tick, Start
  <2> QED
    BY <2>1, <2>2 DEF Newsy, Telling
<1>2. ASSUME NEW s \in WsServers, NEW c \in WsClients,
             WsArrives(s, c) \/ WsAttaches(s, c) \/ WsDetaches(s, c) \/ WsDropped(s, c)
      PROVE  /\ Idle
             /\ Nested(stack)'
             /\ \A f \in Range(stack)' :
                  /\ ~Newsy(f)
                  /\ f.op = "hello" => f.s \in WsServers /\ f.c \in conns'[f.s]
                  /\ f.op \in {"join", "add"} =>
                       (WsArrives(s, c) \/ WsAttaches(s, c)) /\ f = On("join", s, c)
  <2> DEFINE conn == Connect
             rel  == Release
             join == On("join", s, c)
             hi   == On("hello", s, c)
             rep  == On("reply", s, c)
             srv  == On("serve", s, c)
             rem  == On("remove", s, c)
  <2>1. /\ Idle
        /\ \/ stack' = <<conn, join, hi, srv>> /\ WsArrives(s, c)
           \/ stack' = <<conn, join, rep, srv>> /\ WsAttaches(s, c)
           \/ stack' = <<rep, srv>>
           \/ stack' = <<rel, rep, srv>>
           \/ stack' = <<rem>>
    BY <1>2 DEF WsArrives, WsAttaches, WsDetaches, WsDropped, Start
  <2>2. /\ conn.op = "connect" /\ rel.op = "release" /\ join.op = "join" /\ hi.op = "hello"
        /\ rep.op = "reply" /\ srv.op = "serve" /\ rem.op = "remove"
        /\ hi.s = s /\ hi.c = c
    BY DEF On, Connect, Release
  <2> HIDE DEF conn, rel, join, hi, rep, srv, rem
  <2>3. /\ Nests(conn, join) /\ Nests(conn, hi) /\ Nests(conn, rep) /\ Nests(conn, srv)
        /\ Nests(join, hi) /\ Nests(join, rep) /\ Nests(join, srv)
        /\ Nests(hi, srv) /\ Nests(rep, srv) /\ Nests(rel, rep) /\ Nests(rel, srv)
    BY <2>2 DEF Nests, Telling, Arriving, Closing, Ending, Alone, Before
  <2>4. /\ Nested(<<conn, join, hi, srv>>) /\ Nested(<<conn, join, rep, srv>>)
        /\ Nested(<<rep, srv>>) /\ Nested(<<rel, rep, srv>>) /\ Nested(<<rem>>)
    BY <2>3, NestedLists
  <2>5. Nested(stack)'
    BY <2>1, <2>4
  <2>6. \/ Range(stack)' = {conn, join, hi, srv} /\ WsArrives(s, c)
        \/ Range(stack)' = {conn, join, rep, srv} /\ WsAttaches(s, c)
        \/ Range(stack)' \subseteq {rel, rep, srv, rem}
    BY <2>1, TupleRanges
  <2>7. WsArrives(s, c) => c \in conns'[s]
    BY DEF WsArrives, TypeOK, Servers
  <2>8. \A f \in Range(stack)' :
          /\ f.op \notin Telling
          /\ f.op = "hello" => f = hi /\ WsArrives(s, c)
          /\ f.op \in {"join", "add"} => (WsArrives(s, c) \/ WsAttaches(s, c)) /\ f = join
    BY <2>2, <2>6 DEF Telling
  <2> QED
    BY <2>1, <2>2, <2>5, <2>7, <2>8 DEF Newsy, join
<1>3. ASSUME NEW s \in SocketServers, NEW c \in SocketClients,
             SocketArrives(s, c) \/ TlsArrives(s, c) \/ TlsRefused(s, c) \/ TlsReady(s, c)
             \/ SocketLeaves(s, c)
      PROVE  /\ Idle
             /\ Nested(stack)'
             /\ \A f \in Range(stack)' :
                  /\ ~Newsy(f)
                  /\ f.op # "hello"
                  /\ f.op \in {"join", "add"} => SocketArrives(s, c) /\ f = On("add", s, c)
  <2> DEFINE conn == Connect
             add  == On("add", s, c)
             hs   == On("handshake", s, c)
             drop == On("drop", s, c)
             rel  == Release
  <2>1. /\ Idle
        /\ \/ stack' = <<conn, add>> /\ SocketArrives(s, c)
           \/ stack' = <<hs>>
           \/ stack' = <<drop>>
           \/ stack' = <<rel>>
    BY <1>3 DEF SocketArrives, TlsArrives, TlsReady, SocketLeaves, TlsRefused, Start
  <2>2. /\ conn.op = "connect" /\ add.op = "add" /\ hs.op = "handshake" /\ drop.op = "drop"
        /\ rel.op = "release"
    BY DEF On, Connect, Release
  <2> HIDE DEF conn, add, hs, drop, rel
  <2>3. Nests(conn, add)
    BY <2>2 DEF Nests, Telling, Arriving, Closing, Ending, Alone, Before
  <2>4. Nested(stack)'
    BY <2>1, <2>3, NestedLists
  <2>5. \/ Range(stack)' = {conn, add} /\ SocketArrives(s, c)
        \/ Range(stack)' \subseteq {hs, drop, rel}
    BY <2>1, TupleRanges
  <2> QED
    BY <2>1, <2>2, <2>4, <2>5 DEF Newsy, Telling, add
<1>4. ASSUME NEW layout \in Layouts, Reconcile(layout)
      PROVE  /\ Idle
             /\ Nested(stack)'
             /\ \A f \in Range(stack)' : ~Newsy(f) /\ f.op \notin {"hello", "join", "add"}
  <2>1. Idle
    BY <1>4 DEF Reconcile, Start
  <2>2. Nested(stack)' /\ \A f \in Range(stack)' : f.op = "shut" \/ f = Rebuild(layout)
    BY <1>4, ReconcileFrames
  <2>3. Rebuild(layout).op = "rebuild"
    BY DEF Rebuild
  <2> QED
    BY <2>1, <2>2, <2>3 DEF Newsy, Telling
<1>5. CASE DeviceData
  <2>1. "data" \in Msgs
    BY DEF Msgs
  <2>2. Idle /\ Nested(stack)' /\ Range(stack)' = {Tell(s, "data") : s \in Range(servers)}
    BY <1>5, <2>1, TellFrames DEF DeviceData, Start
  <2> QED
    BY <2>2 DEF Newsy, Tell
<1>6. CASE DeviceFails \/ Close
  <2> DEFINE off == Announce(FALSE)
             go == LetGo
             next == CloseNext
  <2>1. Idle /\ (stack' = <<off, go>> \/ stack' = <<next>>)
    BY <1>6 DEF DeviceFails, Close, Start
  <2>2. off.op = "announce" /\ go.op = "let_go" /\ next.op = "close_next"
    BY DEF Announce, LetGo, CloseNext
  <2> HIDE DEF off, go, next
  <2>3. Nests(off, go)
    BY <2>2 DEF Nests, Telling, Arriving, Closing, Ending, Alone
  <2>4. Nested(stack)' /\ Range(stack)' \subseteq {off, go, next}
    BY <2>1, <2>3, NestedLists, TupleRanges
  <2> QED
    BY <2>1, <2>2, <2>4 DEF Newsy, Telling
<1>7. CASE Plug \/ IntervalPasses \/ \E c \in WsClients : WsDies(c)
  <2>1. Idle /\ stack' = <<>>
    BY <1>7 DEF Plug, IntervalPasses, WsDies, Idle
  <2>2. Nested(stack)' /\ Range(stack)' = {}
    BY <2>1, NestedLists, TupleRanges
  <2> QED
    BY <2>1, <2>2
<1>8. CASE Event
  <2>1. CASE \E s \in WsServers, c \in WsClients :
               WsArrives(s, c) \/ WsAttaches(s, c) \/ WsDetaches(s, c) \/ WsDropped(s, c)
    BY <2>1, <1>2
  <2>2. CASE \E s \in SocketServers, c \in SocketClients :
               SocketArrives(s, c) \/ TlsArrives(s, c) \/ TlsRefused(s, c) \/ TlsReady(s, c)
               \/ SocketLeaves(s, c)
    BY <2>2, <1>3
  <2>3. CASE \E layout \in Layouts : Reconcile(layout)
    BY <2>3, <1>4
  <2> QED
    BY <1>8, <2>1, <2>2, <2>3, <1>5, <1>6, <1>7 DEF Event
<1> QED
  BY <1>1, <1>8

\* A configuration has every server once, and every other list is what is left
\* of one.
LEMMA NextOnce ==
  ASSUME Inv, Once, [Next]_vars
  PROVE  Once'
<1>1. CASE RebuildStep /\ servers' = Top.layout
  <2>1. Top.layout \in Layouts
    BY <1>1, TopFrame, FrameOfRebuild DEF RebuildStep, Running, TypeOK, Inv
  <2> QED
    BY <1>1, <2>1, SerialPortAssumption DEF SerialPortAssumption, Once
<1>2. CASE CloseStep /\ servers # <<>>
  <2>1. servers' = SubSeq(servers, 1, Len(servers) - 1)
    BY <1>2 DEF CloseStep
  <2>2. servers \in Seq(Servers) /\ Len(servers) \in Nat /\ Len(servers) >= 1
    BY <1>2, LenProperties, EmptySeq DEF TypeOK, Inv
  <2>3. /\ DOMAIN servers' = 1 .. Len(servers) - 1
        /\ \A i \in 1 .. Len(servers) - 1 : servers'[i] = servers[i] /\ i \in DOMAIN servers
    BY <2>1, <2>2
  <2> QED
    BY <2>3 DEF Once, IsInjective
<1>3. CASE UNCHANGED servers
  BY <1>3 DEF Once
<1> QED
  BY <1>1, <1>2, <1>3 DEF Next, Step, Event, Tick, WsArrives, WsAttaches, WsDetaches, WsDropped,
     SocketArrives, TlsArrives, TlsReady, SocketLeaves, TlsRefused, WsDies, Reconcile, DeviceFails,
     DeviceData, Plug, IntervalPasses, Close, ConnectStep, ConnectRaises, ReleaseStep,
        LetGoStep,
     TellSocket, TellWs, CastStep, AnnounceStep, JoinStep, HelloStep, ReplyStep, RemoveStep,
     RemovedStep, ServeStep, AddStep, HandshakeStep, DropStep, ReapStep, RetryStep,
     ShutStep, RebuildStep, CloseStep, vars, portVars

LEMMA InitOnce ==
  ASSUME Init
  PROVE  Once
BY SerialPortAssumption DEF SerialPortAssumption, Init, Once

LEMMA StepNested ==
  ASSUME TypeOK, Once, Nested(stack), ~SendRaises, ~PairFails, Step
  PROVE  Nested(stack)'
<1>1. CASE Untold
  <2>1. ~Idle
    BY <1>1, UntoldCalls
  <2>2. CASE stack' = <<>>
    BY <2>2, NestedLists
  <2>3. ASSUME NEW a, Quietly(a), Call(a)
        PROVE  Nested(stack)'
    BY <2>1, <2>3, NestedCall DEF Quietly
  <2> QED
    BY <1>1, <2>2, <2>3, UntoldCalls
<1>2. CASE AnnounceStep /\ announced # Top.up
  <2> DEFINE msg == IF Top.up THEN "up" ELSE "down"
  <2>1. msg \in Msgs
    BY DEF Msgs
  <2> HIDE DEF msg
  <2> DEFINE a == [i \in DOMAIN servers |-> Tell(servers[i], msg)]
  <2>2. Nested(a) /\ Range(a) = {Tell(s, msg) : s \in Range(servers)}
    BY <2>1, TellFrames
  <2>3. ~Idle /\ Top.op = "announce" /\ Call(a)
    BY <1>2 DEF AnnounceStep, Running, msg
  <2>4. \A f \in Range(a) : Replaces(f, Top)
    BY <2>2, <2>3 DEF Tell, Replaces, Telling, Before, Closing, Ending
  <2> HIDE DEF a
  <2> QED
    BY <2>2, <2>3, <2>4, NestedCall
<1>3. ASSUME NEW f, f.op = "cast", f.s = Top.s, ~Idle, Top.op \in Telling, Call(<<f>>)
      PROVE  Nested(stack)'
  <2>1. Nested(<<f>>) /\ Range(<<f>>) = {f}
    BY NestedLists, TupleRanges
  <2>2. Replaces(f, Top)
    BY <1>3 DEF Replaces, Telling, Before, Closing, Ending
  <2> QED
    BY <1>3, <2>1, <2>2, NestedCall
<1>4. CASE TellWs
  <2> DEFINE f == Cast(Top.s, Top.msg, Audience(Top.s, Top.msg))
  <2>1. f.op = "cast" /\ f.s = Top.s /\ ~Idle /\ Top.op \in Telling /\ Call(<<f>>)
    BY <1>4 DEF TellWs, Cast, Running, Telling
  <2> HIDE DEF f
  <2> QED
    BY <2>1, <1>3
<1>5. CASE CastStep
  <2>1. ~Idle /\ Top.op \in Telling
    BY <1>5 DEF CastStep, Running, Telling
  <2>2. CASE Return
    <3>1. Nested(<<>>) /\ Range(<<>>) = {} /\ Call(<<>>)
      BY <2>2, NestedLists, TupleRanges DEF Return
    <3> QED
      BY <2>1, <3>1, NestedCall
  <2>3. CASE ~Return
    <3>1. PICK c \in Top.left : Call(<<Cast(Top.s, Top.msg, Top.left \ {c})>>)
      BY <1>5, <2>3 DEF CastStep, SendFails
    <3> DEFINE f == Cast(Top.s, Top.msg, Top.left \ {c})
    <3>2. f.op = "cast" /\ f.s = Top.s /\ Call(<<f>>)
      BY <3>1 DEF Cast
    <3> HIDE DEF f
    <3> QED
      BY <2>1, <3>2, <1>3
  <2> QED
    BY <2>2, <2>3
<1> QED
  BY <1>1, <1>2, <1>4, <1>5 DEF Step, Untold, ConnectRaises

-----------------------------------------------------------------------------
(* What a client knows of the device *)

Word(up) == IF up THEN "up" ELSE "down"

\* A broadcast in progress that will still reach client c.
WillTell(f, c) ==
  /\ Newsy(f)
  /\ \/ f.op = "tell" /\ f.s \in WsServers /\ c \in conns[f.s]
     \/ f.op = "cast" /\ c \in f.left

\* Whatever is being told is the last that was announced.
News == \A f \in Range(stack) : Newsy(f) => f.msg = Word(announced)

\* Nobody is greeted who is not connected.
Welcomed ==
  /\ \A c \in greeted : \E s \in WsServers : c \in conns[s]
  /\ \A f \in Range(stack) : f.op = "hello" => f.c \in conns[f.s]

\* Whoever has been greeted knows what was announced last, or is about to hear.
Informed ==
  \A c \in greeted : told[c] = Word(announced) \/ \E f \in Range(stack) : WillTell(f, c)

Knowing == News /\ Welcomed /\ Informed

\* A step that tells nobody, and nobody leaves but one who need not be told.
LEMMA KnowingKept ==
  ASSUME Knowing, announced' = announced, greeted' \subseteq greeted,
         \A c \in greeted' : told'[c] = told[c],
         \A s \in WsServers : conns[s] \cap greeted' \subseteq conns'[s],
         \A f \in Range(stack)' : f \in Range(stack) \/ (f.op # "hello" /\ ~Newsy(f)),
         \A f \in Range(stack)' : f.op = "hello" => conns[f.s] \subseteq conns'[f.s],
         \A f \in Range(stack) : Newsy(f) =>
            f \in Range(stack)' \/ (f.op = "tell" /\ f.s \notin WsServers)
  PROVE  Knowing'
<1>1. News'
  BY DEF Knowing, News
<1>2. Welcomed'
  <2>1. ASSUME NEW c \in greeted'
        PROVE  \E s \in WsServers : c \in conns'[s]
    <3>1. PICK s \in WsServers : c \in conns[s]
      BY DEF Knowing, Welcomed
    <3> QED
      BY <3>1
  <2>2. ASSUME NEW f \in Range(stack)', f.op = "hello"
        PROVE  f.c \in conns'[f.s]
    <3>1. f.c \in conns[f.s]
      BY <2>2 DEF Knowing, Welcomed
    <3> QED
      BY <2>2, <3>1
  <2> QED
    BY <2>1, <2>2 DEF Welcomed
<1>3. Informed'
  <2>1. ASSUME NEW c \in greeted', told'[c] # Word(announced)
        PROVE  \E f \in Range(stack)' : WillTell(f, c)'
    <3>1. PICK f \in Range(stack) : WillTell(f, c)
      BY <2>1 DEF Knowing, Informed
    <3>2. f \in Range(stack)'
      BY <3>1, SerialPortAssumption DEF WillTell
    <3>3. WillTell(f, c)'
      BY <2>1, <3>1 DEF WillTell
    <3> QED
      BY <3>2, <3>3
  <2> QED
    BY <2>1 DEF Informed
<1> QED
  BY <1>1, <1>2, <1>3 DEF Knowing

\* A step of which only the clients matter, and the calls under it stay.
LEMMA KnowingCall ==
  ASSUME TypeOK, Nested(stack), Knowing, ~Idle, announced' = announced,
         greeted' \subseteq greeted,
         \A c \in greeted' : told'[c] = told[c],
         \A s \in WsServers : conns[s] \cap greeted' \subseteq conns'[s],
         Top.op \in Telling => Top.op = "tell" /\ Top.s \notin WsServers,
         \/ \A s \in WsServers : conns[s] \subseteq conns'[s]
         \/ Top.op \notin Before,
         NEW a, Quietly(a), Call(a)
  PROVE  Knowing'
<1>1. IsList(a)
  BY DEF Quietly, Nested
<1>2. /\ Range(stack)' = Range(a) \cup Range(Tail(stack))
      /\ Range(stack) = {Top} \cup Range(Tail(stack))
  BY <1>1, CallRange
<1>3. \A g \in Range(Tail(stack)) : Nests(Top, g)
  BY NestedUnderTop
<1>4. \A f \in Range(stack)' : f \in Range(stack) \/ (f.op # "hello" /\ ~Newsy(f))
  BY <1>2 DEF Quietly, Arriving, Newsy
<1>5. ASSUME NEW f \in Range(stack)', f.op = "hello"
      PROVE  conns[f.s] \subseteq conns'[f.s]
  <2>1. f \in Range(Tail(stack))
    BY <1>2, <1>5 DEF Quietly, Arriving
  <2>2. Top.op \in Before
    BY <1>3, <1>5, <2>1 DEF Nests, Arriving
  <2>3. f \in Frames
    <3>1. f \in Range(stack)
      BY <1>2, <2>1
    <3> QED
      BY <3>1, ElementOfSeq, LenProperties DEF TypeOK, Range
  <2>4. f.s \in WsServers
    BY <1>5, <2>3, FrameOfWs DEF WsOps
  <2> QED
    BY <2>2, <2>4
<1>6. \A f \in Range(stack) : Newsy(f) =>
        f \in Range(stack)' \/ (f.op = "tell" /\ f.s \notin WsServers)
  BY <1>2 DEF Newsy
<1> QED
  BY <1>4, <1>5, <1>6, KnowingKept

LEMMA KnowingCut ==
  ASSUME TypeOK, Nested(stack), Knowing, ~Idle, announced' = announced,
         UNCHANGED <<greeted, told, conns>>,
         Top.op \in {"let_go", "removed"}, stack' = <<>>
  PROVE  Knowing'
<1>1. Range(stack)' = {}
  BY TupleRanges
<1>2. Range(stack) = {Top} \cup Range(Tail(stack))
  BY RunningStack, TailRange
<1>3. \A g \in Range(Tail(stack)) : Nests(Top, g)
  BY NestedUnderTop
<1>4. \A f \in Range(stack) : ~Newsy(f)
  BY <1>2, <1>3 DEF Nests, Telling, Newsy
<1> QED
  BY <1>1, <1>4, KnowingKept

LEMMA UntoldKnowing ==
  ASSUME TypeOK, Nested(stack), Knowing, ~SendRaises, ~PairFails, Untold, ~HelloStep
  PROVE  Knowing'
<1>1. /\ ~Idle
      /\ \/ \E a : Quietly(a) /\ Call(a)
         \/ stack' = <<>> /\ Top.op \in {"let_go", "removed"}
  BY UntoldCalls
<1>2. Top \in Frames
  BY <1>1, RunningStack
<1>3. announced' = announced
  BY DEF Untold, ConnectStep, ConnectRaises, ReleaseStep, LetGoStep, TellSocket,
     AnnounceStep, JoinStep,
         HelloStep, ReplyStep, RemoveStep, RemovedStep, ServeStep, AddStep, HandshakeStep,
         DropStep, ReapStep, RetryStep, ShutStep, RebuildStep, CloseStep, portVars
<1>4. Top.op \in Telling => Top.op = "tell" /\ Top.s \notin WsServers
  <2>1. CASE TellSocket
    BY <2>1, SerialPortAssumption DEF TellSocket, Running, SerialPortAssumption
  <2>2. CASE ~TellSocket
    BY <2>2 DEF Untold, ConnectStep, ConnectRaises, ReleaseStep, LetGoStep, AnnounceStep,
       JoinStep,
           HelloStep, ReplyStep, RemoveStep, RemovedStep, ServeStep, AddStep, HandshakeStep,
           DropStep, ReapStep, RetryStep, ShutStep, RebuildStep, CloseStep, Running, Telling
  <2> QED
    BY <2>1, <2>2
<1>5. CASE /\ UNCHANGED <<greeted, told>>
           /\ \A s \in WsServers : conns'[s] = conns[s]
  <2>1. CASE \E a : Quietly(a) /\ Call(a)
    BY <1>1, <1>3, <1>4, <1>5, <2>1, KnowingCall
  <2>2. CASE stack' = <<>> /\ Top.op \in {"let_go", "removed"}
    <3>1. CASE UNCHANGED conns
      BY <1>1, <1>3, <1>5, <2>2, <3>1, KnowingCut
    <3>2. CASE conns' # conns
      <4>1. RemovedStep /\ Top.c \in conns[Top.s]
        BY <2>2, <3>2 DEF Untold, ConnectStep, ConnectRaises, ReleaseStep, LetGoStep,
           TellSocket,
           AnnounceStep, JoinStep, HelloStep, ReplyStep, RemoveStep, RemovedStep, ServeStep,
           AddStep, HandshakeStep, DropStep, ReapStep, RetryStep, ShutStep, RebuildStep,
           CloseStep, Running, clientVars
      <4> PICK z, x : z = Top.s /\ x = Top.c
        OBVIOUS
      <4>2. z \in WsServers
        BY <1>2, <4>1, FrameOfWs DEF RemovedStep, Running, WsOps
      <4>3. conns'[z] = conns[z] \ {x} /\ x \in conns[z]
        BY <4>1, <4>2 DEF RemovedStep, TypeOK, Servers
      <4> QED
        BY <1>5, <4>2, <4>3
    <3> QED
      BY <3>1, <3>2
  <2> QED
    BY <1>1, <2>1, <2>2
<1>6. CASE RemovedStep /\ Top.c \in conns[Top.s]
  <2> PICK z, x : z = Top.s /\ x = Top.c
    OBVIOUS
  <2>1. z \in WsServers /\ x \in WsClients /\ Top.op = "removed"
    BY <1>2, <1>6, FrameOfWs DEF RemovedStep, Running, WsOps
  <2>2. greeted' = greeted \ {x} /\ \A c \in greeted' : told'[c] = told[c]
    BY <1>6 DEF RemovedStep, TypeOK
  <2>3. \A s \in WsServers : conns[s] \cap greeted' \subseteq conns'[s]
    BY <1>6, <2>2 DEF RemovedStep, TypeOK, Servers
  <2>4. Call(<<>>) /\ Quietly(<<>>)
    BY <1>6, QuietLists DEF RemovedStep, Return
  <2>5. Top.op \notin Before
    BY <2>1 DEF Before, Telling
  <2> QED
    BY <1>1, <1>3, <1>4, <2>2, <2>3, <2>4, <2>5, KnowingCall
<1>7. CASE ShutStep
  <2> PICK z : z = Top.s
    OBVIOUS
  <2>1. greeted' \subseteq greeted \ conns[z] /\ Top.op = "shut"
    BY <1>7 DEF ShutStep, Running
  <2>2. \A c \in greeted' : told'[c] = told[c]
    BY <1>7, <2>1 DEF ShutStep, TypeOK
  <2>3. \A s \in WsServers : conns[s] \cap greeted' \subseteq conns'[s]
    BY <1>7, <2>1 DEF ShutStep, TypeOK, Servers
  <2>4. Top.op \notin Before
    BY <2>1 DEF Before, Telling
  <2>5. \E a : Quietly(a) /\ Call(a)
    BY <1>1, <2>1
  <2> QED
    BY <1>1, <1>3, <1>4, <2>1, <2>2, <2>3, <2>4, <2>5, KnowingCall
<1>8. CASE TellSocket \/ AddStep \/ DropStep
  <2>1. UNCHANGED <<greeted, told>>
    BY <1>8 DEF TellSocket, AddStep, DropStep
  <2>2. Top.s \in SocketServers
    <3>1. CASE TellSocket
      BY <3>1 DEF TellSocket
    <3>2. CASE AddStep \/ DropStep
      BY <3>2, <1>2, FrameOfSocket DEF AddStep, DropStep, Running, SocketOps
    <3> QED
      BY <1>8, <3>1, <3>2
  <2>3. \A s \in WsServers : s # Top.s
    BY <2>2, SerialPortAssumption DEF SerialPortAssumption
  <2>4. \A s \in WsServers : conns'[s] = conns[s]
    BY <1>8, <2>3 DEF TellSocket, AddStep, DropStep, TypeOK, Servers
  <2> QED
    BY <1>5, <2>1, <2>4
<1>9. CASE /\ ~TellSocket /\ ~AddStep /\ ~DropStep /\ ~ShutStep
           /\ ~(RemovedStep /\ Top.c \in conns[Top.s])
  <2>1. UNCHANGED <<greeted, told, conns>>
    BY <1>9 DEF Untold, ConnectStep, ConnectRaises, ReleaseStep, LetGoStep,
           AnnounceStep, JoinStep, HelloStep, ReplyStep, RemoveStep, RemovedStep, ServeStep,
           HandshakeStep, ReapStep, RetryStep, RebuildStep,
           CloseStep, clientVars
  <2> QED
    BY <1>5, <2>1
<1> QED
  BY <1>6, <1>7, <1>8, <1>9

\* A call that only a handler makes finds the device as it was announced.
LEMMA OuterAgrees ==
  ASSUME Inv, ~PairFails, ~Idle, Top.op \in Outer
  PROVE  announced = device
<1>1. IsList(stack) /\ stack # <<>> /\ Top = stack[1] /\ TypeOK
  BY RunningStack DEF Inv
<1>2. \A f \in Range(stack) : f.op \in Outer
  <2>1. Range(stack) = {Top} \cup Range(Tail(stack))
    BY <1>1, TailRange
  <2>2. \A f \in Range(Tail(stack)) : Fits(Top, f)
    BY UnderTop
  <2> QED
    BY <2>1, <2>2 DEF Fits
<1>3. ~Has(stack, "let_go")
  BY <1>1, <1>2, HasRange DEF Outer
<1>4. ~Rises(stack)
  BY <1>1 DEF Rises, Outer
<1> QED
  BY <1>1, <1>3, <1>4 DEF Inv, Sync, TypeOK

LEMMA HelloKnowing ==
  ASSUME Inv, Nested(stack), Knowing, ~SendRaises, ~PairFails, HelloStep
  PROVE  Knowing'
<1>1. ~Idle /\ Top.op = "hello" /\ TypeOK /\ Return
  BY DEF HelloStep, Running, Inv, SendFails
<1> PICK z, x : z = Top.s /\ x = Top.c
  OBVIOUS
<1>2. z \in WsServers /\ x \in WsClients
  BY <1>1, TopFrame, FrameOfWs DEF TypeOK, WsOps
<1>3. /\ Range(stack)' = Range(Tail(stack))
      /\ Range(stack) = {Top} \cup Range(Tail(stack))
  BY <1>1, ReturnRange
<1>4. announced = device /\ UNCHANGED <<announced, conns>> /\ greeted' = greeted \cup {x}
  BY <1>1, OuterAgrees DEF Outer, HelloStep, portVars
<1>5. told' = [told EXCEPT ![x] = Word(announced)]
  BY <1>1, <1>4 DEF HelloStep, SendFails, Word
<1>6. News'
  BY <1>3, <1>4 DEF Knowing, News
<1>7. Welcomed'
  <2>1. x \in conns[z]
    BY <1>1, <1>3 DEF Knowing, Welcomed
  <2> QED
    BY <1>2, <1>3, <1>4, <2>1 DEF Knowing, Welcomed
<1>8. Informed'
  <2>1. ASSUME NEW c \in greeted', told'[c] # Word(announced)
        PROVE  \E f \in Range(stack)' : WillTell(f, c)'
    <3>1. c # x /\ c \in greeted /\ told'[c] = told[c]
      BY <1>1, <1>2, <1>4, <1>5, <2>1 DEF TypeOK
    <3>2. PICK f \in Range(stack) : WillTell(f, c)
      BY <2>1, <3>1 DEF Knowing, Informed
    <3>3. f \in Range(stack)'
      BY <1>1, <1>3, <3>2 DEF WillTell, Newsy, Telling
    <3>4. WillTell(f, c)'
      BY <1>4, <3>2 DEF WillTell
    <3> QED
      BY <3>3, <3>4
  <2> QED
    BY <1>4, <2>1 DEF Informed
<1> QED
  BY <1>6, <1>7, <1>8 DEF Knowing

\* A new announcement: every server of the list is about to be told, and no
\* other server has a client. What was being told before, has been.
LEMMA AnnounceKnowing ==
  ASSUME Inv, Places, Nested(stack), Knowing, AnnounceStep, announced # Top.up
  PROVE  Knowing'
<1>1. ~Idle /\ Top.op = "announce" /\ TypeOK
  BY DEF AnnounceStep, Running, Inv
<1> PICK up : up = Top.up
  OBVIOUS
<1>2. announced' = up /\ UNCHANGED <<greeted, told, conns, servers>>
  BY DEF AnnounceStep, clientVars
<1> DEFINE msg == Word(up)
<1>3. msg \in Msgs /\ msg # "data"
  BY DEF Msgs, Word
<1> DEFINE a == [i \in DOMAIN servers |-> Tell(servers[i], msg)]
<1>4. Call(a)
  BY DEF AnnounceStep, Word
<1> HIDE DEF msg
<1>5. IsList(a) /\ Range(a) = {Tell(s, msg) : s \in Range(servers)}
  BY <1>1, <1>3, TellFrames
<1> HIDE DEF a
<1>6. IsList(a)
  BY <1>5 DEF Nested
<1>7. /\ Range(stack)' = Range(a) \cup Range(Tail(stack))
      /\ Range(stack) = {Top} \cup Range(Tail(stack))
  BY <1>1, <1>4, <1>6, CallRange
<1>8. \A g \in Range(Tail(stack)) : ~Newsy(g)
  <2>1. \A g \in Range(Tail(stack)) : Nests(Top, g)
    BY <1>1, NestedUnderTop
  <2> QED
    BY <1>1, <2>1 DEF Nests, Telling, Newsy
<1>9. \A f \in Range(a) : f.op = "tell" /\ f.msg = msg
  BY <1>5 DEF Tell
<1>10. News'
  BY <1>2, <1>7, <1>8, <1>9 DEF News, msg
<1>11. Welcomed'
  BY <1>2, <1>7, <1>9 DEF Knowing, Welcomed
<1>12. Informed'
  <2>1. ASSUME NEW c \in greeted'
        PROVE  \E f \in Range(stack)' : WillTell(f, c)'
    <3>1. PICK s \in WsServers : c \in conns[s]
      BY <1>2 DEF Knowing, Welcomed
    <3>2. s \in Servers /\ Top # Shut(s)
      BY <1>1 DEF Servers, Shut
    <3>3. s \in Range(servers)
      BY <3>1, <3>2 DEF Places, Parting, Vacant
    <3> DEFINE f == Tell(s, msg)
    <3>4. f \in Range(stack)'
      BY <1>5, <1>7, <3>3
    <3>5. f.op = "tell" /\ f.s = s /\ f.msg = msg
      BY DEF Tell
    <3> HIDE DEF f
    <3>6. WillTell(f, c)'
      BY <1>2, <1>3, <3>1, <3>5 DEF WillTell, Newsy, Telling
    <3> QED
      BY <3>4, <3>6
  <2> QED
    BY <2>1 DEF Informed
<1> QED
  BY <1>10, <1>11, <1>12 DEF Knowing

\* A broadcast goes on: one call of it is replaced by the rest of it, and
\* whoever is not in the rest has heard.
LEMMA KnowingTold ==
  ASSUME TypeOK, Knowing, ~Idle, Top.op \in Telling,
         UNCHANGED <<greeted, announced, conns>>,
         NEW a, IsList(a), Call(a),
         \A f \in Range(a) : f.op = "cast" /\ f.msg = Top.msg,
         \A c \in greeted : /\ told'[c] = told[c] \/ told'[c] = Word(announced)
                            /\ WillTell(Top, c) =>
                                 \/ told'[c] = Word(announced)
                                 \/ \E f \in Range(a) : c \in f.left
  PROVE  Knowing'
<1>1. /\ Range(stack)' = Range(a) \cup Range(Tail(stack))
      /\ Range(stack) = {Top} \cup Range(Tail(stack))
  BY CallRange
<1>2. \A f \in Range(a) : Newsy(f) <=> Newsy(Top)
  BY DEF Newsy, Telling
<1>3. News'
  <2>1. ASSUME NEW f \in Range(stack)', Newsy(f)
        PROVE  f.msg = Word(announced)
    <3>1. CASE f \in Range(a)
      BY <1>1, <1>2, <2>1, <3>1 DEF Knowing, News
    <3>2. CASE f \in Range(stack)
      BY <2>1, <3>2 DEF Knowing, News
    <3> QED
      BY <1>1, <3>1, <3>2
  <2> QED
    BY <2>1 DEF News
<1>4. Welcomed'
  BY <1>1 DEF Knowing, Welcomed
<1>5. Informed'
  <2>1. ASSUME NEW c \in greeted', told'[c] # Word(announced)
        PROVE  \E f \in Range(stack)' : WillTell(f, c)'
    <3>1. told'[c] = told[c]
      BY <2>1
    <3>2. PICK f \in Range(stack) : WillTell(f, c)
      BY <2>1, <3>1 DEF Knowing, Informed
    <3>3. CASE f = Top
      <4>1. PICK g \in Range(a) : c \in g.left
        BY <2>1, <3>2, <3>3
      <4>2. Newsy(g) /\ g.op = "cast"
        BY <1>2, <3>2, <3>3 DEF WillTell
      <4>3. WillTell(g, c)'
        BY <4>1, <4>2 DEF WillTell
      <4> QED
        BY <1>1, <4>3
    <3>4. CASE f # Top
      <4>1. f \in Range(stack)'
        BY <1>1, <3>2, <3>4
      <4>2. WillTell(f, c)'
        BY <3>2 DEF WillTell
      <4> QED
        BY <4>1, <4>2
    <3> QED
      BY <3>3, <3>4
  <2> QED
    BY <2>1 DEF Informed
<1> QED
  BY <1>3, <1>4, <1>5 DEF Knowing

LEMMA TellWsKnowing ==
  ASSUME Inv, Knowing, TellWs
  PROVE  Knowing'
<1>1. /\ ~Idle /\ Top.op = "tell" /\ Top.s \in WsServers /\ TypeOK
      /\ UNCHANGED <<greeted, announced, conns, told>>
  BY DEF TellWs, Running, Inv, clientVars, portVars
<1> DEFINE f == Cast(Top.s, Top.msg, Audience(Top.s, Top.msg))
           a == <<f>>
<1>2. Call(a)
  BY DEF TellWs
<1>3. f.op = "cast" /\ f.msg = Top.msg /\ f.left = Audience(Top.s, Top.msg)
  BY DEF Cast
<1> HIDE DEF f
<1>4. IsList(a) /\ Range(a) = {f}
  BY ListTuples, TupleRanges
<1> HIDE DEF a
<1>5. \A c \in greeted : WillTell(Top, c) => c \in f.left
  BY <1>1, <1>3 DEF WillTell, Newsy, Audience
<1> QED
  BY <1>1, <1>2, <1>3, <1>4, <1>5, KnowingTold DEF Telling

LEMMA CastKnowing ==
  ASSUME Inv, Knowing, ~SendRaises, ~PairFails, CastStep
  PROVE  Knowing'
<1>1. /\ ~Idle /\ Top.op = "cast" /\ TypeOK
      /\ UNCHANGED <<greeted, announced, conns>>
  BY DEF CastStep, Running, Inv, portVars
<1>2. Top \in Range(stack)
  BY <1>1, RunningStack, TailRange
<1>3. CASE Top.left = {} /\ Return /\ UNCHANGED told
  <2>1. IsList(<<>>) /\ Range(<<>>) = {} /\ Call(<<>>)
    BY <1>3, ListTuples, TupleRanges DEF Return
  <2>2. \A c \in greeted : ~WillTell(Top, c)
    BY <1>1, <1>3 DEF WillTell
  <2> QED
    BY <1>1, <1>3, <2>1, <2>2, KnowingTold DEF Telling
<1>4. ASSUME NEW x \in Top.left,
             Call(<<Cast(Top.s, Top.msg, Top.left \ {x})>>),
             \/ Top.msg # "data" /\ x \notin greeted /\ UNCHANGED told
             \/ told' = Heard(x, Top.msg)
      PROVE  Knowing'
  <2> DEFINE f == Cast(Top.s, Top.msg, Top.left \ {x})
             a == <<f>>
  <2>1. Call(a)
    BY <1>4
  <2>2. f.op = "cast" /\ f.msg = Top.msg /\ f.left = Top.left \ {x}
    BY DEF Cast
  <2> HIDE DEF f
  <2>3. IsList(a) /\ Range(a) = {f}
    BY ListTuples, TupleRanges
  <2> HIDE DEF a
  <2>4. x \in WsClients
    BY <1>1, TopFrame, FrameOfCast DEF TypeOK
  <2>5. Newsy(Top) => Top.msg = Word(announced)
    BY <1>2 DEF Knowing, News
  <2>6. Newsy(Top) <=> Top.msg # "data"
    BY <1>1 DEF Newsy, Telling
  <2>7. ASSUME NEW c \in greeted
        PROVE  /\ told'[c] = told[c] \/ told'[c] = Word(announced)
               /\ WillTell(Top, c) =>
                    told'[c] = Word(announced) \/ \E g \in Range(a) : c \in g.left
    <3>1. told'[c] = told[c] \/ (c = x /\ Newsy(Top) /\ told'[c] = Top.msg)
      BY <1>1, <1>4, <2>4, <2>6, <2>7 DEF Heard, TypeOK
    <3>2. WillTell(Top, c) => c \in Top.left /\ Newsy(Top)
      BY <1>1 DEF WillTell
    <3>3. c \in Top.left /\ c # x => \E g \in Range(a) : c \in g.left
      BY <2>2, <2>3
    <3>4. c = x /\ Newsy(Top) => told'[c] = Top.msg
      BY <1>1, <1>4, <2>4, <2>6, <2>7 DEF Heard, TypeOK
    <3> QED
      BY <2>5, <3>1, <3>2, <3>3, <3>4
  <2> QED
    BY <1>1, <2>1, <2>2, <2>3, <2>7, KnowingTold DEF Telling
<1> QED
  BY <1>3, <1>4 DEF CastStep, SendFails

LEMMA EventKnowing ==
  ASSUME Inv, Once, Knowing, Tick \/ Event
  PROVE  Knowing'
<1>1. TypeOK
  BY DEF Inv
<1>2. /\ Idle
      /\ \A f \in Range(stack)' :
           /\ ~Newsy(f)
           /\ f.op = "hello" => f.s \in WsServers /\ f.c \in conns'[f.s]
  BY <1>1, Begins
<1>3. Range(stack) = {}
  BY <1>2, TupleRanges DEF Idle
<1>4. greeted' \subseteq greeted /\ UNCHANGED <<told, announced>>
  BY DEF Event, Tick, WsArrives, WsAttaches, WsDetaches, WsDropped, SocketArrives,
         TlsArrives, TlsReady, SocketLeaves, TlsRefused, WsDies, Reconcile, DeviceFails, DeviceData,
         Plug, IntervalPasses, Close, clientVars, portVars
<1>5. \A s \in WsServers : conns[s] \subseteq conns'[s]
  <2>1. CASE \E s \in WsServers, c \in WsClients : WsArrives(s, c)
    BY <1>1, <2>1 DEF WsArrives, TypeOK, Servers
  <2>2. CASE \E s \in SocketServers, c \in SocketClients : TlsArrives(s, c)
    BY <1>1, <2>2 DEF TlsArrives, TypeOK, Servers
  <2>3. CASE UNCHANGED conns
    BY <2>3
  <2>4. \/ \E s \in WsServers, c \in WsClients : WsArrives(s, c)
        \/ \E s \in SocketServers, c \in SocketClients : TlsArrives(s, c)
        \/ UNCHANGED conns
    BY DEF Event, Tick, WsAttaches, WsDetaches, WsDropped, SocketArrives,
         TlsReady, SocketLeaves, TlsRefused, WsDies, Reconcile, DeviceFails, DeviceData,
         Plug, IntervalPasses, Close, clientVars, portVars
  <2> QED
    BY <2>1, <2>2, <2>3, <2>4
<1>6. News'
  BY <1>2 DEF News
<1>7. Welcomed'
  BY <1>2, <1>4, <1>5 DEF Knowing, Welcomed
<1>8. Informed'
  BY <1>3, <1>4 DEF Knowing, Informed
<1> QED
  BY <1>6, <1>7, <1>8 DEF Knowing

LEMMA NextKnowing ==
  ASSUME Inv, Once, Places, Nested(stack), Knowing, ~SendRaises, ~PairFails, [Next]_vars
  PROVE  Nested(stack)' /\ Knowing'
<1>1. TypeOK
  BY DEF Inv
<1>2. CASE Step
  <2>1. Nested(stack)'
    BY <1>1, <1>2, StepNested
  <2>2. CASE Untold
    BY <1>1, <2>1, <2>2, UntoldKnowing, HelloKnowing
  <2>3. Untold \/ (AnnounceStep /\ announced # Top.up) \/ TellWs \/ CastStep
    BY <1>2 DEF Step, Untold, ConnectRaises
  <2>4. CASE AnnounceStep /\ announced # Top.up
    BY <2>1, <2>4, AnnounceKnowing
  <2>5. CASE TellWs
    BY <2>1, <2>5, TellWsKnowing
  <2>6. CASE CastStep
    BY <2>1, <2>6, CastKnowing
  <2> QED
    BY <2>1, <2>2, <2>3, <2>4, <2>5, <2>6
<1>3. CASE Tick \/ Event
  BY <1>1, <1>3, Begins, EventKnowing
<1>4. CASE UNCHANGED vars
  <2>1. UNCHANGED <<stack, conns, greeted, told, announced>>
    BY <1>4 DEF vars, clientVars, portVars
  <2>2. Range(stack)' = Range(stack) /\ Nested(stack)'
    BY <2>1
  <2>3. News' /\ Welcomed'
    BY <2>1, <2>2 DEF Knowing, News, Welcomed
  <2>4. \A f, c : WillTell(f, c) => WillTell(f, c)'
    BY <2>1 DEF WillTell
  <2>5. Informed'
    BY <2>1, <2>2, <2>4 DEF Knowing, Informed
  <2> QED
    BY <2>2, <2>3, <2>5 DEF Knowing
<1> QED
  BY <1>2, <1>3, <1>4 DEF Next

LEMMA InitKnowing ==
  ASSUME Init
  PROVE  Nested(stack) /\ Knowing
<1>1. stack = <<>> /\ greeted = {}
  BY DEF Init
<1>2. Range(stack) = {} /\ Nested(stack)
  BY <1>1, TupleRanges, NestedLists
<1> QED
  BY <1>1, <1>2 DEF Knowing, News, Welcomed, Informed

\* As long as no send and no connect() raises, every WebSocket client that has
\* been greeted knows between handlers how the device is: whatever was opened,
\* closed or lost while calls nested, the last it has heard is the truth.
THEOREM ClientsAreTold ==
  ASSUME ~SendRaises, ~PairFails
  PROVE  Spec => []ClientsKnowDevice
<1> DEFINE All == Inv /\ Places /\ Once /\ Nested(stack) /\ Knowing
<1>1. ASSUME Init PROVE All
  BY <1>1, InitInv, InitPlaces, InitOnce, InitKnowing
<1>2. ASSUME All, [Next]_vars PROVE All'
  BY <1>2, NextInv, NextPlaces, NextOnce, NextKnowing
<1>3. ASSUME All PROVE ClientsKnowDevice
  <2>1. ASSUME Idle, NEW c \in greeted
        PROVE  told[c] = IF device THEN "up" ELSE "down"
    <3>1. Range(stack) = {} /\ stack = <<>>
      BY <2>1, TupleRanges DEF Idle
    <3>2. told[c] = Word(announced)
      BY <1>3, <2>1, <3>1 DEF Knowing, Informed
    <3>3. announced = device
      <4>1. ~Has(<<>>, "let_go") /\ ~Rises(<<>>)
        BY ListTuples DEF Has, Rises
      <4> QED
        BY <1>3, <3>1, <4>1 DEF Inv, Sync, TypeOK
    <3> QED
      BY <3>2, <3>3 DEF Word
  <2> QED
    BY <2>1 DEF ClientsKnowDevice
<1>4. Init => All
  BY <1>1
<1>5. All /\ [Next]_vars => All'
  BY <1>2
<1>6. All => ClientsKnowDevice
  BY <1>3
<1> HIDE DEF All
<1> QED
  BY <1>4, <1>5, <1>6, PTL DEF Spec

-----------------------------------------------------------------------------
(* What a socket client is on *)

\* A client that is shaking hands, or about to be dropped, is there.
Tracked == \A f \in Range(stack) : f.op \in Alone => f.c \in conns[f.s]

\* A connection is on one server, and one that will be added is on none.
Apart ==
  /\ \A s, t \in SocketServers : s # t => conns[s] \cap conns[t] = {}
  /\ \A f \in Range(stack) : f.op = "add" => \A t \in SocketServers : f.c \notin conns[t]

\* The device is open and announced, or is about to be.
Opening ==
  \/ announced
  \/ ~Idle /\ Top.op = "announce" /\ Top.up
  \/ ~Idle /\ Top.op = "connect" /\ CanOpen

\* A client of server s that will not be there much longer.
Excused(s, c) == Tell(s, "down") \in Range(stack) \/ (~Idle /\ Top = On("drop", s, c))

\* Whoever has finished connecting has the device, or is leaving.
Served ==
  /\ \A f \in Range(stack) : f.op = "add" => Opening
  /\ \A s \in SocketServers : \A c \in conns[s] \ (shaking \cup closed) :
       Opening \/ Excused(s, c)

Serving == Tracked /\ Apart /\ Served

LEMMA CallOne ==
  ASSUME TypeOK, ~Idle, NEW f, Call(<<f>>)
  PROVE  ~Idle' /\ Top' = f
<1> DEFINE a == <<f>>
<1>1. IsList(a) /\ Len(a) = 1 /\ a[1] = f
  BY ListTuples
<1>2. IsList(stack) /\ stack # <<>>
  BY RunningStack
<1>3. stack' = GoesOn(stack, a)
  BY DEF Call, GoesOn
<1> HIDE DEF a
<1>4. GoesOn(stack, a)[1] = f
  BY <1>1, <1>2, CallFirst
<1>5. IsList(stack') /\ Len(stack') = Len(stack) /\ Len(stack) >= 1
  <2>1. /\ IsList(GoesOn(stack, a)) /\ Len(GoesOn(stack, a)) = Len(a) + Len(stack) - 1
        /\ Len(stack) \in Nat /\ Len(stack) >= 1
    BY <1>1, <1>2, CallTop
  <2>2. Len(GoesOn(stack, a)) = Len(stack)
    BY <1>1, <2>1
  <2> QED
    BY <1>3, <2>1, <2>2
<1>6. stack' # <<>>
  BY <1>5, ListTuples
<1>7. Head(stack') = stack'[1]
  BY <1>5, <1>6, ListTail
<1> QED
  BY <1>3, <1>4, <1>6, <1>7 DEF Idle, Top

\* The calls of a step: what was under the running call, and what it goes on as.
LEMMA StepFrames ==
  ASSUME TypeOK, Nested(stack), ~SendRaises, ~PairFails, Step
  PROVE  /\ ~Idle
         /\ Range(stack) = {Top} \cup Range(Tail(stack))
         /\ \A f \in Range(stack)' :
              \/ f \in Range(Tail(stack))
              \/ /\ f.op \notin Arriving
                 /\ f.op \in Alone =>
                      \/ HandshakeStep /\ f = On("drop", Top.s, Top.c)
                      \/ ReapStep /\ \E c \in conns[Top.s] : f = On("drop", Top.s, c)
         /\ \/ Range(Tail(stack)) \subseteq Range(stack)'
            \/ stack' = <<>> /\ Top.op \in {"let_go", "removed"}
<1>1. ~Idle
  BY DEF Step, ConnectStep, ConnectRaises, ReleaseStep, LetGoStep, TellSocket, TellWs,
     CastStep,
         AnnounceStep, JoinStep, HelloStep, ReplyStep, RemoveStep, RemovedStep, ServeStep,
         AddStep, HandshakeStep, DropStep, ReapStep, RetryStep, ShutStep, RebuildStep,
         CloseStep, Running
<1>2. Range(stack) = {Top} \cup Range(Tail(stack))
  BY <1>1, RunningStack, TailRange
<1>3. ASSUME NEW a, IsList(a), Call(a),
             \A f \in Range(a) : f.op \notin Arriving \cup Alone
      PROVE  /\ \A f \in Range(stack)' :
                  f \in Range(Tail(stack)) \/ f.op \notin Arriving \cup Alone
             /\ Range(Tail(stack)) \subseteq Range(stack)'
  BY <1>1, <1>3, CallRange
<1>4. CASE Untold
  <2>1. ASSUME NEW a, Quietly(a), Drops(a), Call(a)
        PROVE  /\ \A f \in Range(stack)' :
                     \/ f \in Range(Tail(stack))
                     \/ /\ f.op \notin Arriving
                        /\ f.op \in Alone =>
                             \/ HandshakeStep /\ f = On("drop", Top.s, Top.c)
                             \/ ReapStep /\ \E c \in conns[Top.s] : f = On("drop", Top.s, c)
               /\ Range(Tail(stack)) \subseteq Range(stack)'
    <3>1. Range(stack)' = Range(a) \cup Range(Tail(stack))
      BY <1>1, <2>1, CallRange DEF Quietly, Nested
    <3> QED
      BY <2>1, <3>1 DEF Quietly, Drops
  <2>2. CASE stack' = <<>> /\ Top.op \in {"let_go", "removed"}
    BY <1>1, <1>2, <2>2, TupleRanges
  <2> QED
    BY <1>1, <1>2, <1>4, <2>1, <2>2, UntoldCalls
<1>5. CASE AnnounceStep /\ announced # Top.up
  <2> DEFINE msg == IF Top.up THEN "up" ELSE "down"
             a == [i \in DOMAIN servers |-> Tell(servers[i], msg)]
  <2>1. Call(a)
    BY <1>5 DEF AnnounceStep
  <2>2. IsList(a) /\ Range(a) = {Tell(s, msg) : s \in Range(servers)}
    BY TellFrames DEF Msgs
  <2>3. \A f \in Range(a) : f.op \notin Arriving \cup Alone
    BY <2>2 DEF Tell, Arriving, Alone
  <2> HIDE DEF a
  <2> QED
    BY <1>1, <1>2, <1>3, <2>1, <2>2, <2>3 DEF Nested
<1>6. ASSUME NEW f, f.op = "cast", Call(<<f>>)
      PROVE  /\ \A g \in Range(stack)' :
                  g \in Range(Tail(stack)) \/ g.op \notin Arriving \cup Alone
             /\ Range(Tail(stack)) \subseteq Range(stack)'
  <2>1. IsList(<<f>>) /\ Range(<<f>>) = {f} /\ f.op \notin Arriving \cup Alone
    BY <1>6, ListTuples, TupleRanges DEF Arriving, Alone
  <2> QED
    BY <1>3, <1>6, <2>1
<1>7. CASE TellWs
  <2> DEFINE f == Cast(Top.s, Top.msg, Audience(Top.s, Top.msg))
  <2>1. f.op = "cast" /\ Call(<<f>>)
    BY <1>7 DEF TellWs, Cast
  <2> HIDE DEF f
  <2> QED
    BY <1>1, <1>2, <1>6, <2>1
<1>8. CASE CastStep
  <2>1. CASE Return
    <3>1. Range(stack)' = Range(Tail(stack))
      BY <1>1, <2>1, ReturnRange
    <3> QED
      BY <1>1, <1>2, <3>1
  <2>2. CASE ~Return
    <3>1. PICK c \in Top.left : Call(<<Cast(Top.s, Top.msg, Top.left \ {c})>>)
      BY <1>8, <2>2 DEF CastStep, SendFails
    <3> DEFINE f == Cast(Top.s, Top.msg, Top.left \ {c})
    <3>2. f.op = "cast" /\ Call(<<f>>)
      BY <3>1 DEF Cast
    <3> HIDE DEF f
    <3> QED
      BY <1>1, <1>2, <1>6, <3>2
  <2> QED
    BY <2>1, <2>2
<1> QED
  BY <1>4, <1>5, <1>7, <1>8 DEF Step, Untold, ConnectRaises

LEMMA StepTracked ==
  ASSUME TypeOK, Nested(stack), Tracked, ~SendRaises, ~PairFails, Step
  PROVE  Tracked'
<1> SUFFICES ASSUME NEW f \in Range(stack)', f.op \in Alone
             PROVE  f.c \in conns'[f.s]
  BY DEF Tracked
<1>1. ~Idle /\ Top \in Range(stack)
  BY StepFrames
<1>2. f \notin Range(Tail(stack))
  BY <1>1, NestedUnderTop DEF Nests
<1>3. \/ HandshakeStep /\ f = On("drop", Top.s, Top.c)
      \/ ReapStep /\ \E c \in conns[Top.s] : f = On("drop", Top.s, c)
  BY <1>2, StepFrames
<1>4. CASE HandshakeStep /\ f = On("drop", Top.s, Top.c)
  <2>1. Top.c \in conns[Top.s]
    BY <1>1, <1>4 DEF Tracked, HandshakeStep, Running, Alone
  <2> QED
    BY <1>4, <2>1 DEF HandshakeStep, On
<1>5. ASSUME ReapStep, NEW c \in conns[Top.s], f = On("drop", Top.s, c)
      PROVE  f.c \in conns'[f.s]
  BY <1>5 DEF ReapStep, On, clientVars
<1> QED
  BY <1>3, <1>4, <1>5

\* No socket client comes but by being added.
LEMMA StepNarrows ==
  ASSUME TypeOK, Step, ~AddStep
  PROVE  \A s \in SocketServers : conns'[s] \subseteq conns[s]
<1>1. CASE UNCHANGED conns
  BY <1>1
<1>2. CASE TellSocket \/ RemovedStep \/ DropStep \/ ShutStep
  BY <1>2 DEF TellSocket, RemovedStep, DropStep, ShutStep, TypeOK, Servers
<1> QED
  BY <1>1, <1>2 DEF Step, ConnectStep, ConnectRaises, ReleaseStep, LetGoStep, TellWs,
     CastStep,
         AnnounceStep, JoinStep, HelloStep, ReplyStep, RemoveStep, ServeStep,
         HandshakeStep, ReapStep, RetryStep, RebuildStep, CloseStep, clientVars

LEMMA StepApart ==
  ASSUME Inv, Nested(stack), Apart, ~SendRaises, ~PairFails, Step
  PROVE  Apart'
<1>1. TypeOK
  BY DEF Inv
<1>2. CASE AddStep
  <2>1. ~Idle /\ Top.op = "add" /\ Top \in Frames /\ Return
    BY <1>1, <1>2, TopFrame DEF AddStep, Running, TypeOK
  <2> PICK z, x : z = Top.s /\ x = Top.c
    OBVIOUS
  <2>2. z \in SocketServers
    BY <2>1, FrameOfSocket DEF SocketOps
  <2>3. Range(stack)' = Range(Tail(stack)) /\ Range(stack) = {Top} \cup Range(Tail(stack))
    BY <1>1, <2>1, ReturnRange
  <2>4. \A t \in SocketServers : x \notin conns[t]
    BY <2>1, <2>3 DEF Apart
  <2>5. /\ conns'[z] = conns[z] \cup {x}
        /\ \A t \in SocketServers : t # z => conns'[t] = conns[t]
    BY <1>1, <1>2, <2>2 DEF AddStep, TypeOK, Servers
  <2>6. \A f \in Range(stack)' : f.op # "add"
    BY <2>1, <2>3, UnderTop DEF Fits, Entering
  <2>7. ASSUME NEW s \in SocketServers, NEW t \in SocketServers, s # t
        PROVE  conns'[s] \cap conns'[t] = {}
    BY <2>4, <2>5, <2>7 DEF Apart
  <2> QED
    BY <2>6, <2>7 DEF Apart
<1>3. CASE ~AddStep
  <2>1. \A s \in SocketServers : conns'[s] \subseteq conns[s]
    BY <1>1, <1>3, StepNarrows
  <2>2. \A f \in Range(stack)' : f.op = "add" => f \in Range(stack)
    BY <1>1, StepFrames DEF Arriving
  <2> QED
    BY <2>1, <2>2 DEF Apart
<1> QED
  BY <1>2, <1>3

\* Only an announcement that the device goes away ends an opening.
LEMMA OpeningKept ==
  ASSUME Inv, Opening, ~PairFails, Step, ~(AnnounceStep /\ ~Top.up)
  PROVE  Opening'
<1>1. TypeOK
  BY DEF Inv
<1>2. CASE ConnectStep
  <2>1. ~Idle /\ Top.op = "connect" /\ announced' = announced
    BY <1>2 DEF ConnectStep, ConnectRaises, Running
  <2>2. CASE device
    <3>1. announced
      BY <2>1, <2>2, OuterAgrees DEF Outer
    <3> QED
      BY <2>1, <3>1 DEF Opening
  <2>3. CASE ~device /\ ~plugged
    BY <2>1, <2>3 DEF Opening, CanOpen
  <2>4. CASE ~device /\ plugged
    <3> DEFINE f == Announce(TRUE)
    <3>1. Call(<<f>>)
      BY <1>2, <2>4 DEF ConnectStep
    <3>2. f.op = "announce" /\ f.up
      BY DEF Announce
    <3> HIDE DEF f
    <3>3. ~Idle' /\ Top' = f
      BY <1>1, <2>1, <3>1, CallOne
    <3> QED
      BY <3>2, <3>3 DEF Opening
  <2> QED
    BY <2>2, <2>3, <2>4
<1>3. CASE AnnounceStep
  <2>1. announced' = Top.up /\ Top.up
    BY <1>3 DEF AnnounceStep
  <2> QED
    BY <2>1 DEF Opening
<1>4. CASE ~ConnectStep /\ ~AnnounceStep
  <2>1. announced' = announced /\ Top.op \notin {"connect", "announce"}
    BY <1>4 DEF Step, ConnectRaises, ReleaseStep, LetGoStep, TellSocket, TellWs,
       CastStep, JoinStep,
           HelloStep, ReplyStep, RemoveStep, RemovedStep, ServeStep, AddStep, HandshakeStep,
           DropStep, ReapStep, RetryStep, ShutStep, RebuildStep, CloseStep, Running, portVars
  <2>2. announced
    BY <2>1 DEF Opening
  <2> QED
    BY <2>1, <2>2 DEF Opening
<1> QED
  BY <1>2, <1>3, <1>4

\* Whoever counts as connected after a step did before, has been added, or has
\* just finished its handshake.
LEMMA Newcomers ==
  ASSUME TypeOK, Tracked, Apart, Step, NEW s \in SocketServers,
         NEW c \in conns'[s] \ (shaking' \cup closed')
  PROVE  \/ c \in conns[s] \ (shaking \cup closed)
         \/ AddStep
         \/ /\ HandshakeStep /\ s = Top.s /\ c = Top.c
            /\ Call(IF CanOpen THEN <<Connect>> ELSE <<On("drop", s, c)>>)
<1> SUFFICES ASSUME ~AddStep, c \in shaking \cup closed
             PROVE  /\ HandshakeStep /\ s = Top.s /\ c = Top.c
                    /\ Call(IF CanOpen THEN <<Connect>> ELSE <<On("drop", s, c)>>)
  BY StepNarrows
<1>1. c \in conns[s]
  BY StepNarrows
<1> PICK z, x : z = Top.s /\ x = Top.c
  OBVIOUS
<1>2. CASE HandshakeStep \/ DropStep
  <2>1. ~Idle /\ Top.op \in Alone
    BY <1>2 DEF HandshakeStep, DropStep, Running, Alone
  <2>2. Top \in Range(stack) /\ Top \in Frames
    BY <2>1, TopFrame, RunningStack, TailRange DEF TypeOK
  <2>3. x \in conns[z]
    BY <2>1, <2>2 DEF Tracked
  <2>4. z \in SocketServers
    BY <2>1, <2>2, FrameOfSocket DEF SocketOps, Alone
  <2>5. shaking \subseteq shaking' \cup {x} /\ closed \subseteq closed' \cup {x}
    BY <1>2 DEF HandshakeStep, DropStep
  <2>6. c = x
    BY <2>5
  <2>7. s = z
    BY <1>1, <2>3, <2>4, <2>6 DEF Apart
  <2>8. ~DropStep
    <3>1. DropStep => conns'[z] = conns[z] \ {x}
      BY <2>4 DEF DropStep, TypeOK, Servers
    <3> QED
      BY <2>6, <2>7, <3>1
  <2>9. HandshakeStep
    BY <1>2, <2>8
  <2>10. c \notin shaking' \cup closed'
    OBVIOUS
  <2>11. ~UNCHANGED shaking
    BY <2>9, <2>10 DEF HandshakeStep
  <2>12. Call(IF CanOpen THEN <<Connect>> ELSE <<On("drop", z, x)>>)
    BY <2>9, <2>11 DEF HandshakeStep
  <2> QED
    BY <2>6, <2>7, <2>9, <2>12
<1>3. CASE TellSocket
  <2>1. z \in SocketServers
    BY <1>3 DEF TellSocket
  <2>2. CASE Top.msg = "down"
    <3>1. /\ conns'[z] = {}
          /\ shaking \subseteq shaking' \cup conns[z] /\ closed \subseteq closed' \cup conns[z]
      BY <1>3, <2>1, <2>2 DEF TellSocket, TypeOK, Servers
    <3>2. c \in conns[z]
      BY <3>1
    <3>3. s = z
      BY <1>1, <2>1, <3>2 DEF Apart
    <3> QED
      BY <3>1, <3>3
  <2>3. CASE Top.msg # "down"
    <3>1. shaking' = shaking /\ closed \subseteq closed'
      BY <1>3, <2>3 DEF TellSocket
    <3> QED
      BY <3>1
  <2> QED
    BY <2>2, <2>3
<1>4. CASE ShutStep
  <2>1. z \in Servers
    BY <1>4, TopFrame, FrameOfServer DEF ShutStep, Running, TypeOK
  <2>2. /\ conns'[z] = {}
        /\ shaking \subseteq shaking' \cup conns[z] /\ closed \subseteq closed' \cup conns[z]
    BY <1>4, <2>1 DEF ShutStep, TypeOK
  <2>3. c \in conns[z]
    BY <2>2
  <2>4. z \in SocketServers
    BY <1>1, <2>1, <2>3, SerialPortAssumption DEF TypeOK, Servers, SerialPortAssumption
  <2>5. s = z
    BY <1>1, <2>3, <2>4 DEF Apart
  <2> QED
    BY <2>2, <2>5
<1>5. CASE UNCHANGED <<shaking, closed>>
  BY <1>5
<1> QED
  BY <1>2, <1>3, <1>4, <1>5 DEF Step, ConnectStep, ConnectRaises, ReleaseStep, LetGoStep,
     TellWs, CastStep,
         AnnounceStep, JoinStep, HelloStep, ReplyStep, RemoveStep, RemovedStep, ServeStep,
         ReapStep, RetryStep, RebuildStep, CloseStep, clientVars

\* Whoever is about to be closed or dropped is, or still is to be.
LEMMA ExcusedKept ==
  ASSUME TypeOK, Nested(stack), ~SendRaises, ~PairFails, Step, NEW s \in SocketServers,
         NEW c \in conns'[s], Excused(s, c)
  PROVE  Excused(s, c)'
<1> DEFINE f == Tell(s, "down")
<1>1. f.op = "tell" /\ f.s = s /\ f.msg = "down"
  BY DEF Tell
<1>2. /\ ~Idle
      /\ Range(stack) = {Top} \cup Range(Tail(stack))
      /\ \/ Range(Tail(stack)) \subseteq Range(stack)'
         \/ stack' = <<>> /\ Top.op \in {"let_go", "removed"}
  BY StepFrames
<1>3. Top # f
  <2>1. SUFFICES ASSUME Top = f PROVE FALSE
    OBVIOUS
  <2>2. TellSocket
    BY <1>1, <2>1, SerialPortAssumption DEF SerialPortAssumption, Step, ConnectStep,
       ConnectRaises,
       ReleaseStep, LetGoStep, TellWs,
       CastStep, AnnounceStep, JoinStep, HelloStep, ReplyStep, RemoveStep, RemovedStep,
       ServeStep, AddStep, HandshakeStep, DropStep, ReapStep, RetryStep, ShutStep,
       RebuildStep, CloseStep, Running
  <2>3. conns'[s] = {}
    BY <1>1, <2>1, <2>2 DEF TellSocket, TypeOK, Servers
  <2> QED
    BY <2>3
<1>4. Top # On("drop", s, c)
  <2>1. SUFFICES ASSUME Top = On("drop", s, c) PROVE FALSE
    OBVIOUS
  <2>2. Top.op = "drop" /\ Top.s = s /\ Top.c = c
    BY <2>1 DEF On
  <2>3. DropStep
    BY <2>2 DEF Step, ConnectStep, ConnectRaises, ReleaseStep, LetGoStep, TellSocket,
       TellWs,
       CastStep, AnnounceStep, JoinStep, HelloStep, ReplyStep, RemoveStep, RemovedStep,
       ServeStep, AddStep, HandshakeStep, ReapStep, RetryStep, ShutStep,
       RebuildStep, CloseStep, Running
  <2>4. conns'[s] = conns[s] \ {c}
    BY <2>2, <2>3 DEF DropStep, TypeOK, Servers
  <2> QED
    BY <2>4
<1> HIDE DEF f
<1>5. f \in Range(Tail(stack))
  BY <1>2, <1>3, <1>4 DEF Excused, f
<1>6. Nests(Top, f)
  BY <1>2, <1>5, NestedUnderTop
<1>7. f \in Range(stack)'
  BY <1>1, <1>2, <1>5, <1>6 DEF Nests, Telling
<1> QED
  BY <1>7 DEF Excused, f

\* A client is being added to an open device, or one that is about to open.
LEMMA StepAdds ==
  ASSUME Inv, Nested(stack), Served, ~SendRaises, ~PairFails, Step,
         NEW f \in Range(stack)', f.op = "add"
  PROVE  Opening'
<1>1. /\ TypeOK /\ ~Idle /\ f \in Range(Tail(stack))
      /\ Range(stack) = {Top} \cup Range(Tail(stack))
  BY StepFrames DEF Inv, Arriving
<1>2. Opening
  BY <1>1 DEF Served
<1>3. ~(AnnounceStep /\ ~Top.up)
  <2>1. SUFFICES ASSUME AnnounceStep, ~Top.up PROVE FALSE
    OBVIOUS
  <2>2. Top.op = "announce"
    BY <2>1 DEF AnnounceStep, Running
  <2>3. IsList(stack) /\ stack # <<>> /\ Top = stack[1]
    BY <1>1, RunningStack
  <2>4. Len(stack) \in Nat /\ Len(stack) >= 1
    BY <2>3, ListLength, ListTail
  <2>5. Falls(stack)
    BY <2>1, <2>2, <2>3, <2>4 DEF Falls
  <2>6. Len(stack) >= 2 /\ stack[2].op = "let_go"
    BY <2>5 DEF Inv, Sync
  <2>7. PICK i \in 1 .. Len(stack) : stack[i] = f
    <3>1. DOMAIN stack = 1 .. Len(stack)
      BY <2>3, ListLength
    <3> QED
      BY <1>1, <3>1 DEF Range
  <2>8. i > 2
    BY <2>2, <2>3, <2>4, <2>6, <2>7
  <2>9. 2 \in 1 .. Len(stack) /\ 2 < i
    BY <2>4, <2>6, <2>8
  <2>10. Nests(stack[2], f)
    BY <2>7, <2>9 DEF Nested
  <2> QED
    BY <2>6, <2>10 DEF Nests, Arriving, Before, Telling
<1> QED
  BY <1>2, <1>3, OpeningKept

LEMMA StepServed ==
  ASSUME Inv, Places, Nested(stack), Serving, ~SendRaises, ~PairFails, Step
  PROVE  Served'
<1>1. TypeOK /\ ~Idle
  BY StepFrames DEF Inv
<1>2. ASSUME NEW s \in SocketServers, NEW c \in conns'[s] \ (shaking' \cup closed')
      PROVE  Opening' \/ Excused(s, c)'
  <2>1. CASE c \in conns[s] \ (shaking \cup closed) /\ Excused(s, c)
    BY <1>1, <2>1, ExcusedKept
  <2>2. CASE c \in conns[s] \ (shaking \cup closed) /\ Opening
    <3>1. CASE ~(AnnounceStep /\ ~Top.up)
      BY <2>2, <3>1, OpeningKept
    <3>2. CASE AnnounceStep /\ ~Top.up
      <4>1. Top.op = "announce" /\ announced /\ announced # Top.up
        BY <2>2, <3>2 DEF Opening, AnnounceStep, Running
      <4> DEFINE a == [i \in DOMAIN servers |-> Tell(servers[i], "down")]
      <4>2. Call(a)
        BY <3>2, <4>1 DEF AnnounceStep
      <4>3. "down" \in Msgs
        BY DEF Msgs
      <4>4. IsList(a) /\ Range(a) = {Tell(t, "down") : t \in Range(servers)}
        BY <1>1, <4>3, TellFrames
      <4> HIDE DEF a
      <4>5. Range(stack)' = Range(a) \cup Range(Tail(stack))
        BY <1>1, <4>2, <4>4, CallRange DEF Nested
      <4>6. s \in Servers /\ Top # Shut(s)
        BY <4>1 DEF Servers, Shut
      <4>7. s \in Range(servers)
        BY <2>2, <4>6 DEF Places, Parting, Vacant
      <4>8. Tell(s, "down") \in Range(stack)'
        BY <4>4, <4>5, <4>7
      <4> QED
        BY <4>8 DEF Excused
    <3> QED
      BY <3>1, <3>2
  <2>3. CASE AddStep
    <3>1. Top.op = "add" /\ Top \in Range(stack)
      BY <1>1, <2>3, RunningStack, TailRange DEF AddStep, Running
    <3>2. Opening
      BY <3>1 DEF Serving, Served
    <3>3. ~AnnounceStep
      BY <3>1 DEF AnnounceStep, Running
    <3> QED
      BY <3>2, <3>3, OpeningKept
  <2>4. CASE HandshakeStep /\ Call(IF CanOpen THEN <<Connect>> ELSE <<On("drop", s, c)>>)
    <3>1. CASE CanOpen
      <4> DEFINE f == Connect
      <4>1. Call(<<f>>) /\ f.op = "connect"
        BY <2>4, <3>1 DEF Connect
      <4> HIDE DEF f
      <4>2. ~Idle' /\ Top' = f
        BY <1>1, <4>1, CallOne
      <4>3. CanOpen'
        BY <2>4, <3>1 DEF HandshakeStep, CanOpen, portVars
      <4> QED
        BY <4>1, <4>2, <4>3 DEF Opening
    <3>2. CASE ~CanOpen
      <4> DEFINE f == On("drop", s, c)
      <4>1. Call(<<f>>)
        BY <2>4, <3>2
      <4> HIDE DEF f
      <4>2. ~Idle' /\ Top' = f
        BY <1>1, <4>1, CallOne
      <4> QED
        BY <4>2 DEF Excused, f
    <3> QED
      BY <3>1, <3>2
  <2> QED
    BY <1>1, <1>2, <2>1, <2>2, <2>3, <2>4, Newcomers DEF Serving, Served
<1>3. \A f \in Range(stack)' : f.op = "add" => Opening'
  BY StepAdds DEF Serving
<1> QED
  BY <1>2, <1>3 DEF Served

\* A handler that shakes hands or drops begins with a client there is.
LEMMA BeginsAlone ==
  ASSUME TypeOK, Tick \/ Event,
         NEW f \in Range(stack)', f.op \in Alone
  PROVE  \E s \in SocketServers, c \in SocketClients :
           (TlsArrives(s, c) \/ c \in conns[s]) /\ f.s = s /\ f.c = c
<1>1. CASE Tick
  BY <1>1, ReapFrames DEF Alone
<1>2. ASSUME NEW s \in WsServers, NEW c \in WsClients,
             WsArrives(s, c) \/ WsAttaches(s, c) \/ WsDetaches(s, c) \/ WsDropped(s, c)
      PROVE  FALSE
  <2> DEFINE conn == Connect
             rel  == Release
             join == On("join", s, c)
             hi   == On("hello", s, c)
             rep  == On("reply", s, c)
             srv  == On("serve", s, c)
             rem  == On("remove", s, c)
  <2>1. \/ stack' = <<conn, join, hi, srv>>
        \/ stack' = <<conn, join, rep, srv>>
        \/ stack' = <<rep, srv>>
        \/ stack' = <<rel, rep, srv>>
        \/ stack' = <<rem>>
    BY <1>2 DEF WsArrives, WsAttaches, WsDetaches, WsDropped, Start
  <2>2. \A g \in {conn, rel, join, hi, rep, srv, rem} : g.op \notin Alone
    BY DEF On, Connect, Release, Alone
  <2> HIDE DEF conn, rel, join, hi, rep, srv, rem
  <2>3. Range(stack)' \subseteq {conn, rel, join, hi, rep, srv, rem}
    BY <2>1, TupleRanges
  <2> QED
    BY <2>2, <2>3
<1>3. ASSUME NEW s \in SocketServers, NEW c \in SocketClients,
             SocketArrives(s, c) \/ TlsArrives(s, c) \/ TlsRefused(s, c) \/ TlsReady(s, c)
             \/ SocketLeaves(s, c)
      PROVE  (TlsArrives(s, c) \/ c \in conns[s]) /\ f.s = s /\ f.c = c
  <2> DEFINE conn == Connect
             add  == On("add", s, c)
             hs   == On("handshake", s, c)
             drop == On("drop", s, c)
             rel  == Release
  <2>1. \/ stack' = <<conn, add>>
        \/ stack' = <<rel>>
        \/ stack' = <<hs>> /\ (TlsArrives(s, c) \/ c \in conns[s])
        \/ stack' = <<drop>> /\ c \in conns[s]
    BY <1>3 DEF SocketArrives, TlsArrives, TlsReady, SocketLeaves, TlsRefused, Start
  <2>2. /\ conn.op \notin Alone /\ add.op \notin Alone /\ rel.op \notin Alone
        /\ hs.s = s /\ hs.c = c /\ drop.s = s /\ drop.c = c
    BY DEF On, Connect, Release, Alone
  <2> HIDE DEF conn, add, hs, drop, rel
  <2>3. \/ f \in {conn, add, rel}
        \/ f = hs /\ (TlsArrives(s, c) \/ c \in conns[s])
        \/ f = drop /\ c \in conns[s]
    BY <2>1, TupleRanges
  <2> QED
    BY <2>1, <2>2, <2>3
<1>4. ASSUME NEW layout \in Layouts, Reconcile(layout)
      PROVE  FALSE
  BY <1>4, ReconcileFrames DEF Rebuild, Alone
<1>5. CASE DeviceData
  <2>1. "data" \in Msgs
    BY DEF Msgs
  <2>2. Range(stack)' = {Tell(s, "data") : s \in Range(servers)}
    BY <1>5, <2>1, TellFrames DEF DeviceData, Start
  <2> QED
    BY <2>2 DEF Tell, Alone
<1>6. CASE DeviceFails \/ Close
  <2> DEFINE off == Announce(FALSE)
             go == LetGo
             next == CloseNext
  <2>1. stack' = <<off, go>> \/ stack' = <<next>>
    BY <1>6 DEF DeviceFails, Close, Start
  <2>2. off.op = "announce" /\ go.op = "let_go" /\ next.op = "close_next"
    BY DEF Announce, LetGo, CloseNext
  <2> HIDE DEF off, go, next
  <2>3. Range(stack)' \subseteq {off, go, next}
    BY <2>1, TupleRanges
  <2> QED
    BY <2>2, <2>3 DEF Alone
<1>7. CASE Plug \/ IntervalPasses \/ \E c \in WsClients : WsDies(c)
  <2>1. stack' = <<>>
    BY <1>7 DEF Plug, IntervalPasses, WsDies, Idle
  <2> QED
    BY <2>1, TupleRanges
<1> QED
  BY <1>1, <1>2, <1>3, <1>4, <1>5, <1>6, <1>7 DEF Event

\* Only a TLS connection is in before its handler has run.
LEMMA EventClients ==
  ASSUME TypeOK, Tick \/ Event
  PROVE  /\ UNCHANGED <<announced, closed>>
         /\ \/ UNCHANGED shaking /\ \A s \in SocketServers : conns'[s] = conns[s]
            \/ \E z \in SocketServers, x \in SocketClients :
                 /\ TlsArrives(z, x) /\ shaking' = shaking \cup {x}
                 /\ \A s \in SocketServers :
                      /\ x \notin conns[s]
                      /\ conns'[s] = IF s = z THEN conns[s] \cup {x} ELSE conns[s]
<1>1. UNCHANGED <<announced, closed>>
  BY DEF Event, Tick, WsArrives, WsAttaches, WsDetaches, WsDropped, SocketArrives,
         TlsArrives, TlsReady, SocketLeaves, TlsRefused, WsDies, Reconcile, DeviceFails, DeviceData,
         Plug, IntervalPasses, Close, clientVars, portVars
<1>2. ASSUME NEW z \in SocketServers, NEW x \in SocketClients, TlsArrives(z, x)
      PROVE  /\ shaking' = shaking \cup {x}
             /\ \A s \in SocketServers :
                  /\ x \notin conns[s]
                  /\ conns'[s] = IF s = z THEN conns[s] \cup {x} ELSE conns[s]
  <2>1. \A s \in SocketServers : x \notin conns[s]
    BY <1>2 DEF TlsArrives, Known, Servers
  <2> QED
    BY <1>2, <2>1 DEF TlsArrives, TypeOK, Servers
<1>3. CASE \E s \in WsServers, c \in WsClients : WsArrives(s, c)
  <2>1. PICK z \in WsServers, x \in WsClients : WsArrives(z, x)
    BY <1>3
  <2>2. \A s \in SocketServers : s # z
    BY SerialPortAssumption DEF SerialPortAssumption
  <2> QED
    BY <1>1, <2>1, <2>2 DEF WsArrives, TypeOK, Servers
<1>4. CASE UNCHANGED <<conns, shaking>>
  BY <1>1, <1>4
<1>5. \/ \E s \in WsServers, c \in WsClients : WsArrives(s, c)
      \/ \E s \in SocketServers, c \in SocketClients : TlsArrives(s, c)
      \/ UNCHANGED <<conns, shaking>>
  BY DEF Event, Tick, WsAttaches, WsDetaches, WsDropped, SocketArrives,
         TlsReady, SocketLeaves, TlsRefused, WsDies, Reconcile, DeviceFails, DeviceData,
         Plug, IntervalPasses, Close, clientVars
<1> QED
  BY <1>1, <1>2, <1>3, <1>4, <1>5

LEMMA EventServing ==
  ASSUME TypeOK, Once, Serving, Tick \/ Event
  PROVE  Serving'
<1>1. Idle /\ Range(stack) = {} /\ UNCHANGED <<announced, closed>>
  BY Begins, EventClients, TupleRanges DEF Idle
<1>2. ASSUME NEW f \in Range(stack)', f.op = "add"
      PROVE  \E s \in SocketServers, c \in SocketClients :
               SocketArrives(s, c) /\ f = On("add", s, c)
  <2>1. \A s, c : On("join", s, c).op = "join"
    BY DEF On
  <2> QED
    BY <1>2, <2>1, Begins
<1>3. ASSUME NEW s \in SocketServers, NEW c \in conns[s] \ (shaking \cup closed)
      PROVE  announced
  BY <1>1, <1>3 DEF Serving, Served, Opening, Excused
<1>4. Tracked'
  <2>1. SUFFICES ASSUME NEW f \in Range(stack)', f.op \in Alone
                 PROVE  f.c \in conns'[f.s]
    BY DEF Tracked
  <2>2. PICK s \in SocketServers, c \in SocketClients :
          (TlsArrives(s, c) \/ c \in conns[s]) /\ f.s = s /\ f.c = c
    BY <2>1, BeginsAlone
  <2>3. CASE TlsArrives(s, c)
    BY <2>2, <2>3 DEF TlsArrives, TypeOK, Servers
  <2>4. CASE c \in conns[s]
    BY <2>2, <2>4, EventClients
  <2> QED
    BY <2>2, <2>3, <2>4
<1>5. Apart'
  <2>1. \A s, t \in SocketServers : s # t => conns'[s] \cap conns'[t] = {}
    <3>1. CASE \A s \in SocketServers : conns'[s] = conns[s]
      BY <3>1 DEF Serving, Apart
    <3>2. ASSUME NEW z \in SocketServers, NEW x \in SocketClients,
                 \A s \in SocketServers :
                   /\ x \notin conns[s]
                   /\ conns'[s] = IF s = z THEN conns[s] \cup {x} ELSE conns[s],
                 NEW s \in SocketServers, NEW t \in SocketServers, s # t
          PROVE  conns'[s] \cap conns'[t] = {}
      BY <3>2 DEF Serving, Apart
    <3> QED
      BY <3>1, <3>2, EventClients
  <2>2. ASSUME NEW f \in Range(stack)', f.op = "add", NEW t \in SocketServers
        PROVE  f.c \notin conns'[t]
    <3>1. PICK s \in SocketServers, c \in SocketClients :
            SocketArrives(s, c) /\ f = On("add", s, c)
      BY <1>2, <2>2
    <3>2. f.c = c
      BY <3>1 DEF On
    <3>3. conns' = conns /\ c \notin conns[t]
      BY <3>1 DEF SocketArrives, Known, Servers, clientVars
    <3> QED
      BY <3>2, <3>3
  <2> QED
    BY <2>1, <2>2 DEF Apart
<1>6. Served'
  <2>1. ASSUME NEW f \in Range(stack)', f.op = "add"
        PROVE  Opening'
    <3>1. PICK s \in SocketServers, c \in SocketClients : SocketArrives(s, c)
      BY <1>2, <2>1
    <3> DEFINE conn == Connect
               add == On("add", s, c)
    <3>2. stack' = <<conn, add>> /\ conn.op = "connect"
      BY <3>1 DEF SocketArrives, Start, Connect
    <3>3. CanOpen'
      BY <3>1 DEF SocketArrives, CanOpen, portVars
    <3> HIDE DEF conn, add
    <3>4. ~Idle' /\ Top' = conn
      BY <3>2 DEF Idle, Top
    <3> QED
      BY <3>2, <3>3, <3>4 DEF Opening
  <2>2. ASSUME NEW s \in SocketServers, NEW c \in conns'[s] \ (shaking' \cup closed')
        PROVE  c \in conns[s] \ (shaking \cup closed)
    BY <1>1, <2>2, EventClients
  <2>3. ASSUME NEW s \in SocketServers, NEW c \in conns'[s] \ (shaking' \cup closed')
        PROVE  Opening'
    <3>1. announced
      BY <1>3, <2>2, <2>3
    <3> QED
      BY <1>1, <3>1 DEF Opening
  <2> QED
    BY <2>1, <2>3 DEF Served
<1> QED
  BY <1>4, <1>5, <1>6 DEF Serving

LEMMA NextServing ==
  ASSUME Inv, Once, Places, Nested(stack), Serving, ~SendRaises, ~PairFails, [Next]_vars
  PROVE  Nested(stack)' /\ Serving'
<1>1. TypeOK
  BY DEF Inv
<1>2. CASE Step
  BY <1>1, <1>2, StepNested, StepTracked, StepApart, StepServed DEF Serving
<1>3. CASE Tick \/ Event
  BY <1>1, <1>3, Begins, EventServing
<1>4. CASE UNCHANGED vars
  <2>1. UNCHANGED <<stack, conns, shaking, closed, announced, device, plugged>>
    BY <1>4 DEF vars, clientVars, portVars
  <2>2. Range(stack)' = Range(stack) /\ Nested(stack)' /\ (Idle' <=> Idle) /\ Top' = Top
    BY <2>1 DEF Idle, Top
  <2>3. Tracked' /\ Apart'
    BY <2>1, <2>2 DEF Serving, Tracked, Apart
  <2>4. Opening' <=> Opening
    BY <2>1, <2>2 DEF Opening, CanOpen
  <2>5. \A s, c : Excused(s, c)' <=> Excused(s, c)
    BY <2>2 DEF Excused
  <2>6. Served'
    BY <2>1, <2>2, <2>4, <2>5 DEF Serving, Served
  <2> QED
    BY <2>2, <2>3, <2>6 DEF Serving
<1> QED
  BY <1>2, <1>3, <1>4 DEF Next

LEMMA InitServing ==
  ASSUME Init
  PROVE  Serving
<1>1. Range(stack) = {} /\ \A s \in SocketServers : conns[s] = {}
  BY TupleRanges DEF Init, Servers
<1> QED
  BY <1>1 DEF Serving, Tracked, Apart, Served

\* As long as no send and no connect() raises, a socket client that has finished
\* connecting is between handlers on an open device: nobody is let in on the
\* strength of a connect() that failed or was undone, and a device that goes
\* takes all of them with it, the one that finished its handshake meanwhile
\* included.
THEOREM SocketClientsAreServed ==
  ASSUME ~SendRaises, ~PairFails
  PROVE  Spec => []SocketClientsHaveDevice
<1> DEFINE All == Inv /\ Places /\ Once /\ Nested(stack) /\ Serving
<1>1. ASSUME Init PROVE All
  BY <1>1, InitInv, InitPlaces, InitOnce, InitKnowing, InitServing
<1>2. ASSUME All, [Next]_vars PROVE All'
  BY <1>2, NextInv, NextPlaces, NextOnce, NextServing
<1>3. ASSUME All PROVE SocketClientsHaveDevice
  <2>1. ASSUME Idle, ~device, NEW s \in SocketServers, NEW c \in conns[s] \ (shaking \cup closed)
        PROVE  FALSE
    <3>1. Range(stack) = {}
      BY <2>1, TupleRanges DEF Idle
    <3>2. ~announced
      BY <1>3, <2>1 DEF Inv, Sync
    <3> QED
      BY <1>3, <2>1, <3>1, <3>2 DEF Serving, Served, Opening, Excused
  <2> QED
    BY <2>1 DEF SocketClientsHaveDevice
<1>4. Init => All
  BY <1>1
<1>5. All /\ [Next]_vars => All'
  BY <1>2
<1>6. All => SocketClientsHaveDevice
  BY <1>3
<1> HIDE DEF All
<1> QED
  BY <1>4, <1>5, <1>6, PTL DEF Spec

-----------------------------------------------------------------------------
(* Who holds an open device *)

\* Who holds the device, or is about to, is connected; who is on the way out
\* holds nothing; only an open device is let go of.
Present ==
  /\ \A s \in WsServers : attached[s] \subseteq conns[s]
  /\ \A f \in Range(stack) :
       /\ f.op \in {"join", "removed"} => f.c \in conns[f.s]
       /\ f.op = "removed" => f.c \notin attached[f.s]
       /\ f.op = "let_go" => device

Held == \E s \in Range(servers) : Attached(s) \cap conns[s] # {}

\* The new configuration leaves server s out.
Dismissed(s) ==
  \E l \in Layouts : Rebuild(l) \in Range(stack) /\ s \in Range(servers) \ Range(l)

\* The calls that leave no open device behind that nobody holds.
Reliefs == {"release", "let_go", "close_next"}

\* Somebody is about to hold the device, or somebody looks whether anybody does.
Relief ==
  \/ SomeoneEnters
  \/ \E f \in Range(stack) : f.op \in Reliefs
  \/ \E s \in Servers : Dismissed(s)

\* A server is shut on the way out only.
Shutting ==
  \A s \in Servers : Shut(s) \in Range(stack) =>
    Dismissed(s) \/ \E f \in Range(stack) : f.op = "close_next"

\* The device is opened for somebody.
Wanted == ~Idle /\ Top.op = "connect" => Held \/ SomeoneEnters

Holding == Present /\ Shutting /\ Wanted /\ (device => Held \/ Relief)

\* The calls a step makes that matter here.
LEMMA NewCalls ==
  ASSUME TypeOK, ~SendRaises, ~PairFails, Step, NEW f \in Range(stack)', f \notin Range(Tail(stack))
  PROVE  \/ f.op \in {"announce", "tell", "cast", "remove", "drop", "release", "close_next",
                      "reap"}
         \/ f.op = "connect" /\ RetryStep /\ HasConnections
         \/ f.op = "connect" /\ HandshakeStep
         \/ f.op = "let_go" /\ ReleaseStep /\ device
         \/ f = On("removed", Top.s, Top.c) /\ RemoveStep /\ Top.c \in conns[Top.s]
         \/ f.op = "shut" /\ CloseStep /\ servers # <<>>
<1>1. ~Idle
  BY DEF Step, ConnectStep, ConnectRaises, ReleaseStep, LetGoStep, TellSocket, TellWs,
     CastStep,
         AnnounceStep, JoinStep, HelloStep, ReplyStep, RemoveStep, RemovedStep, ServeStep,
         AddStep, HandshakeStep, DropStep, ReapStep, RetryStep, ShutStep, RebuildStep,
         CloseStep, Running
<1>2. ASSUME NEW a, IsList(a), Call(a)
      PROVE  f \in Range(a)
  BY <1>1, <1>2, CallRange
<1>3. ASSUME NEW g, Call(<<g>>)
      PROVE  f = g
  <2>1. IsList(<<g>>) /\ Range(<<g>>) = {g}
    BY ListTuples, TupleRanges
  <2> QED
    BY <1>2, <1>3, <2>1
<1>4. ASSUME NEW g, NEW h, Call(<<g, h>>)
      PROVE  f = g \/ f = h
  <2>1. IsList(<<g, h>>) /\ Range(<<g, h>>) = {g, h}
    BY ListTuples, TupleRanges
  <2> QED
    BY <1>2, <1>4, <2>1
<1>5. ~Return /\ stack' # <<>>
  <2>1. Return => Range(stack)' = Range(Tail(stack))
    BY <1>1, ReturnRange
  <2>2. stack' = <<>> => Range(stack)' = {}
    BY TupleRanges
  <2> QED
    BY <2>1, <2>2
<1>6. CASE ConnectStep \/ HelloStep \/ ReplyStep \/ JoinStep \/ ServeStep \/ AddStep
           \/ TellSocket \/ LetGoStep \/ RemovedStep
  <2>1. ConnectStep
    BY <1>5, <1>6 DEF HelloStep, ReplyStep, JoinStep, ServeStep, AddStep, TellSocket,
       LetGoStep, RemovedStep, SendFails, Raise
  <2>2. f = Announce(TRUE)
    BY <1>3, <1>5, <2>1 DEF ConnectStep
  <2> QED
    BY <2>2 DEF Announce
<1>7. CASE ReleaseStep
  <2>1. device /\ Call(<<Announce(FALSE), LetGo>>)
    BY <1>5, <1>7 DEF ReleaseStep
  <2>2. f = Announce(FALSE) \/ f = LetGo
    BY <1>4, <2>1
  <2> QED
    BY <1>7, <2>1, <2>2 DEF Announce, LetGo
<1>8. CASE AnnounceStep
  <2> DEFINE msg == IF Top.up THEN "up" ELSE "down"
             a == [i \in DOMAIN servers |-> Tell(servers[i], msg)]
  <2>1. Call(a)
    BY <1>5, <1>8 DEF AnnounceStep
  <2>2. IsList(a) /\ Range(a) = {Tell(s, msg) : s \in Range(servers)}
    BY TellFrames DEF Msgs
  <2> HIDE DEF a
  <2>3. f \in {Tell(s, msg) : s \in Range(servers)}
    BY <1>2, <2>1, <2>2 DEF Nested
  <2> QED
    BY <2>3 DEF Tell
<1>9. CASE TellWs
  <2>1. f = Cast(Top.s, Top.msg, Audience(Top.s, Top.msg))
    BY <1>3, <1>9 DEF TellWs
  <2> QED
    BY <2>1 DEF Cast
<1>10. CASE CastStep
  <2>1. PICK c \in Top.left : Call(<<Cast(Top.s, Top.msg, Top.left \ {c})>>)
    BY <1>5, <1>10 DEF CastStep, SendFails
  <2>2. f = Cast(Top.s, Top.msg, Top.left \ {c})
    BY <1>3, <2>1
  <2> QED
    BY <2>2 DEF Cast
<1>11. CASE RemoveStep
  <2> DEFINE rest == On("removed", Top.s, Top.c)
  <2>1. /\ Top.c \in conns[Top.s]
        /\ Call(<<Release, rest>>) \/ Call(<<rest>>)
    BY <1>5, <1>11 DEF RemoveStep
  <2> HIDE DEF rest
  <2>2. f = Release \/ f = rest
    BY <1>3, <1>4, <2>1
  <2> QED
    BY <1>11, <2>1, <2>2 DEF Release, rest
<1>12. CASE HandshakeStep
  <2>1. f = Connect \/ f = On("drop", Top.s, Top.c)
    BY <1>3, <1>5, <1>12 DEF HandshakeStep
  <2> QED
    BY <1>12, <2>1 DEF Connect, On
<1>13. CASE DropStep \/ ShutStep \/ RebuildStep
  <2>1. Call(<<Release>>)
    BY <1>5, <1>13 DEF DropStep, ShutStep, RebuildStep, Return
  <2>2. f = Release
    BY <1>3, <2>1
  <2> QED
    BY <2>2 DEF Release
<1>14. CASE ReapStep
  <2>1. PICK c \in conns[Top.s], op \in {"drop", "remove"} : Call(<<On(op, Top.s, c), Top>>)
    BY <1>5, <1>14 DEF ReapStep
  <2>2. f = On(op, Top.s, c) \/ f = Top
    BY <1>4, <2>1
  <2>3. Top.op = "reap"
    BY <1>14 DEF ReapStep, Running
  <2> QED
    BY <2>2, <2>3 DEF On
<1>15. CASE RetryStep
  <2>1. HasConnections /\ Call(<<Connect>>)
    BY <1>5, <1>15 DEF RetryStep
  <2>2. f = Connect
    BY <1>3, <2>1
  <2> QED
    BY <1>15, <2>1, <2>2 DEF Connect
<1>16. CASE CloseStep
  <2>1. CASE servers = <<>>
    <3>1. f = Release
      BY <1>3, <1>16, <2>1 DEF CloseStep
    <3> QED
      BY <3>1 DEF Release
  <2>2. CASE servers # <<>>
    <3>1. f = Shut(servers[Len(servers)]) \/ f = CloseNext
      BY <1>4, <1>16, <2>2 DEF CloseStep
    <3> QED
      BY <1>16, <2>2, <3>1 DEF Shut, CloseNext
  <2> QED
    BY <2>1, <2>2
<1> QED
  BY <1>6, <1>7, <1>8, <1>9, <1>10, <1>11, <1>12, <1>13, <1>14, <1>15, <1>16
  DEF Step, ConnectRaises

\* What may run above a client coming in, a removal, or a device being let go
\* leaves what they have found.
LEMMA CallsAboveLeave ==
  ASSUME TypeOK, ~PairFails, Step
  PROVE  /\ Top.op \in Before \cup Ending => \A s \in WsServers : conns'[s] = conns[s]
         /\ Top.op \in Ending => UNCHANGED attached
         /\ Top.op \in Closing => UNCHANGED device
<1>1. Top.op \in Before \cup Ending =>
        \/ ConnectStep \/ AnnounceStep \/ JoinStep \/ TellSocket \/ TellWs \/ CastStep
        \/ ReleaseStep \/ LetGoStep
  BY DEF Step, ConnectStep, ConnectRaises, ReleaseStep, LetGoStep, TellSocket, TellWs,
     CastStep,
         AnnounceStep, JoinStep, HelloStep, ReplyStep, RemoveStep, RemovedStep, ServeStep,
         AddStep, HandshakeStep, DropStep, ReapStep, RetryStep, ShutStep, RebuildStep,
         CloseStep, Running, Before, Ending, Telling
<1>2. CASE TellSocket
  <2>1. \A s \in WsServers : s # Top.s
    BY <1>2, SerialPortAssumption DEF TellSocket, SerialPortAssumption
  <2> QED
    BY <1>2, <2>1 DEF TellSocket, TypeOK, Servers, portVars
<1>3. CASE AnnounceStep \/ TellWs \/ CastStep
  BY <1>3 DEF AnnounceStep, TellWs, CastStep, clientVars, portVars
<1>4. CASE ConnectStep \/ JoinStep \/ ReleaseStep \/ LetGoStep
  <2>1. UNCHANGED conns
    BY <1>4 DEF ConnectStep, ConnectRaises, JoinStep, ReleaseStep, LetGoStep, clientVars
  <2>2. Top.op \in Ending => UNCHANGED attached
    BY <1>4 DEF ConnectStep, ConnectRaises, JoinStep, ReleaseStep, LetGoStep, clientVars,
       Running, Ending,
       Telling
  <2>3. Top.op \notin Closing
    BY <1>4 DEF ConnectStep, ConnectRaises, JoinStep, ReleaseStep, LetGoStep, Running,
       Closing, Telling
  <2> QED
    BY <2>1, <2>2, <2>3
<1>5. Closing \subseteq Ending
  BY DEF Closing, Ending
<1> QED
  BY <1>1, <1>2, <1>3, <1>4, <1>5

\* No call fails, so those under the running one stay.
LEMMA NoneIsCut ==
  ASSUME TypeOK, Nested(stack), Present, ~SendRaises, ~PairFails, Step
  PROVE  Range(Tail(stack)) \subseteq Range(stack)'
<1>1. SUFFICES ASSUME stack' = <<>>, Top.op \in {"let_go", "removed"}
               PROVE  Return
  BY StepFrames, ReturnRange
<1>2. Top \in Range(stack)
  BY StepFrames
<1>3. CASE Top.op = "let_go"
  <2>1. device
    BY <1>2, <1>3 DEF Present
  <2>2. LetGoStep
    BY <1>3 DEF Step, ConnectStep, ConnectRaises, ReleaseStep, TellSocket, TellWs, CastStep,
       AnnounceStep, JoinStep, HelloStep, ReplyStep, RemoveStep, RemovedStep, ServeStep,
       AddStep, HandshakeStep, DropStep, ReapStep, RetryStep, ShutStep, RebuildStep,
       CloseStep, Running
  <2> QED
    BY <2>1, <2>2 DEF LetGoStep
<1>4. CASE Top.op = "removed"
  <2>1. Top.c \in conns[Top.s]
    BY <1>2, <1>4 DEF Present
  <2>2. RemovedStep
    BY <1>4 DEF Step, ConnectStep, ConnectRaises, ReleaseStep, LetGoStep, TellSocket,
       TellWs, CastStep,
       AnnounceStep, JoinStep, HelloStep, ReplyStep, RemoveStep, ServeStep,
       AddStep, HandshakeStep, DropStep, ReapStep, RetryStep, ShutStep, RebuildStep,
       CloseStep, Running
  <2> QED
    BY <2>1, <2>2 DEF RemovedStep
<1> QED
  BY <1>1, <1>3, <1>4

\* Whoever is attached to an endpoint is connected to it.
LEMMA StepAttached ==
  ASSUME TypeOK, Present, Step
  PROVE  \A s \in WsServers : attached'[s] \subseteq conns'[s]
<1> PICK z, x : z = Top.s /\ x = Top.c
  OBVIOUS
<1>1. CASE JoinStep
  <2>1. Running("join")
    BY <1>1 DEF JoinStep
  <2>2. Top \in Range(stack) /\ Top \in Frames
    BY <2>1, RunningStack, TailRange DEF Running
  <2>3. z \in WsServers /\ x \in conns[z]
    BY <2>1, <2>2, FrameOfWs DEF Running, WsOps, Present
  <2> QED
    BY <1>1, <2>3 DEF JoinStep, TypeOK, Present
<1>2. CASE RemovedStep
  <2>1. Running("removed")
    BY <1>2 DEF RemovedStep
  <2>2. Top \in Range(stack) /\ Top \in Frames
    BY <2>1, RunningStack, TailRange DEF Running
  <2>3. z \in WsServers /\ x \notin attached[z]
    BY <2>1, <2>2, FrameOfWs DEF Running, WsOps, Present
  <2> QED
    BY <1>2, <2>3 DEF RemovedStep, TypeOK, Present, Servers
<1>3. CASE RemoveStep
  <2>1. /\ attached' = attached \/ attached' = [attached EXCEPT ![z] = @ \ {x}]
        /\ conns' = conns
    BY <1>3 DEF RemoveStep
  <2> QED
    BY <2>1 DEF TypeOK, Present
<1>4. CASE ShutStep
  <2>1. z \in Servers
    BY <1>4, TopFrame, FrameOfServer DEF ShutStep, Running, TypeOK
  <2>2. /\ attached' = [s \in WsServers |-> IF s = z THEN {} ELSE attached[s]]
        /\ conns' = [conns EXCEPT ![z] = {}]
    BY <1>4 DEF ShutStep
  <2> QED
    BY <2>1, <2>2 DEF TypeOK, Present, Servers
<1>5. CASE TellSocket \/ AddStep \/ DropStep
  <2>1. Top.s \in SocketServers
    <3>1. CASE TellSocket
      BY <3>1 DEF TellSocket
    <3>2. CASE AddStep \/ DropStep
      <4>1. ~Idle /\ Top.op \in SocketOps
        BY <3>2 DEF AddStep, DropStep, Running, SocketOps
      <4> QED
        BY <4>1, TopFrame, FrameOfSocket DEF TypeOK, SocketOps
    <3> QED
      BY <1>5, <3>1, <3>2
  <2>2. \A s \in WsServers : s # Top.s
    BY <2>1, SerialPortAssumption DEF SerialPortAssumption
  <2>3. UNCHANGED attached /\ \A s \in WsServers : conns'[s] = conns[s]
    BY <1>5, <2>2 DEF TellSocket, AddStep, DropStep, TypeOK, Servers
  <2> QED
    BY <2>3 DEF Present
<1>6. CASE UNCHANGED <<attached, conns>>
  BY <1>6 DEF Present
<1> QED
  BY <1>1, <1>2, <1>3, <1>4, <1>5, <1>6 DEF Step, ConnectStep, ConnectRaises,
     ReleaseStep, LetGoStep, TellWs,
     CastStep, AnnounceStep, HelloStep, ReplyStep, ServeStep, HandshakeStep, ReapStep,
     RetryStep, RebuildStep, CloseStep, clientVars

LEMMA StepPresent ==
  ASSUME TypeOK, Nested(stack), Present, ~SendRaises, ~PairFails, Step
  PROVE  Present'
<1>1. \A s \in WsServers : attached'[s] \subseteq conns'[s]
  BY StepAttached
<1>2. ASSUME NEW f \in Range(stack)'
      PROVE  /\ f.op \in {"join", "removed"} => f.c \in conns'[f.s]
             /\ f.op = "removed" => f.c \notin attached'[f.s]
             /\ f.op = "let_go" => device'
  <2>1. CASE f \in Range(Tail(stack))
    <3>1. f \in Range(stack) /\ f \in Frames
      <4>1. f \in Range(stack)
        BY <2>1, StepFrames
      <4> QED
        BY <4>1, ElementOfSeq, LenProperties DEF TypeOK, Range
    <3>2. Nests(Top, f)
      BY <2>1, StepFrames, NestedUnderTop
    <3>3. ASSUME f.op \in {"join", "removed"}
          PROVE  f.s \in WsServers /\ conns'[f.s] = conns[f.s]
      <4>1. f.s \in WsServers
        BY <3>1, <3>3, FrameOfWs DEF WsOps
      <4>2. Top.op \in Before \cup Ending
        BY <3>2, <3>3 DEF Nests, Arriving
      <4> QED
        BY <4>1, <4>2, CallsAboveLeave
    <3>4. f.op = "removed" => UNCHANGED attached
      BY <3>2, CallsAboveLeave DEF Nests
    <3>5. f.op = "let_go" => UNCHANGED device
      BY <3>2, CallsAboveLeave DEF Nests
    <3> QED
      BY <3>1, <3>3, <3>4, <3>5 DEF Present
  <2>2. CASE f.op = "let_go" /\ ReleaseStep /\ device
    BY <2>2 DEF ReleaseStep, portVars
  <2>3. CASE f = On("removed", Top.s, Top.c) /\ RemoveStep /\ Top.c \in conns[Top.s]
    <3> PICK z, x : z = Top.s /\ x = Top.c
      OBVIOUS
    <3>1. z \in WsServers
      BY <2>3, TopFrame, FrameOfWs DEF RemoveStep, Running, WsOps, TypeOK
    <3>2. x \in conns'[z] /\ x \notin attached'[z]
      BY <2>3, <3>1 DEF RemoveStep, TypeOK
    <3>3. f.op = "removed" /\ f.s = z /\ f.c = x
      BY <2>3 DEF On
    <3> QED
      BY <3>2, <3>3
  <2>4. CASE f.op \notin {"join", "removed", "let_go"}
    BY <2>4
  <2> QED
    BY <2>1, <2>2, <2>3, <2>4, NewCalls
<1> QED
  BY <1>1, <1>2 DEF Present

\* A relief outlives every call but itself.
LEMMA ReliefKept ==
  ASSUME Range(stack) = {Top} \cup Range(Tail(stack)),
         Range(Tail(stack)) \subseteq Range(stack)',
         Top.op \notin Entering \cup Reliefs \cup {"rebuild"},
         UNCHANGED servers
  PROVE  /\ Relief => Relief'
         /\ \A s : Dismissed(s) => Dismissed(s)'
         /\ (\E f \in Range(stack) : f.op = "close_next")
              => \E f \in Range(stack)' : f.op = "close_next"
<1>1. \A f \in Range(stack) : f.op \in Entering \cup Reliefs \cup {"rebuild"} => f \in Range(stack)'
  OBVIOUS
<1>2. ASSUME NEW s, Dismissed(s)
      PROVE  Dismissed(s)'
  <2>1. PICK l \in Layouts : Rebuild(l) \in Range(stack) /\ s \in Range(servers) \ Range(l)
    BY <1>2 DEF Dismissed
  <2>2. Rebuild(l).op = "rebuild"
    BY DEF Rebuild
  <2>3. Rebuild(l) \in Range(stack)' /\ s \in Range(servers)' \ Range(l)
    BY <1>1, <2>1, <2>2
  <2> QED
    BY <2>3 DEF Dismissed
<1>3. SomeoneEnters => SomeoneEnters'
  BY <1>1 DEF SomeoneEnters
<1> QED
  BY <1>1, <1>2, <1>3 DEF Relief, Reliefs

LEMMA StepShutting ==
  ASSUME Inv, Nested(stack), Present, Shutting, ~SendRaises, ~PairFails, Step
  PROVE  Shutting'
<1>1. /\ TypeOK /\ ~Idle
      /\ Range(stack) = {Top} \cup Range(Tail(stack))
      /\ Range(Tail(stack)) \subseteq Range(stack)'
  BY StepFrames, NoneIsCut DEF Inv
<1> SUFFICES ASSUME NEW s \in Servers, Shut(s) \in Range(stack)'
             PROVE  Dismissed(s)' \/ \E f \in Range(stack)' : f.op = "close_next"
  BY DEF Shutting
<1>2. Shut(s).op = "shut" /\ \A t, c : On("removed", t, c).op = "removed"
  BY DEF Shut, On
<1>3. CASE Shut(s) \in Range(Tail(stack))
  <2>1. Dismissed(s) \/ \E f \in Range(stack) : f.op = "close_next"
    BY <1>1, <1>3 DEF Shutting
  <2>2. Top.op \notin Final
    BY <1>1, <1>3, FinalIsLast
  <2>3. Top.op \notin Entering
    <3>1. Fits(Top, Shut(s))
      BY <1>1, <1>3, UnderTop
    <3> QED
      BY <1>2, <3>1 DEF Fits, Plan
  <2>4. CASE Top.op \notin Reliefs
    <3>1. UNCHANGED servers
      BY <2>2 DEF Step, ConnectStep, ConnectRaises, ReleaseStep, LetGoStep, TellSocket,
         TellWs, CastStep,
         AnnounceStep, JoinStep, HelloStep, ReplyStep, RemoveStep, RemovedStep, ServeStep,
         AddStep, HandshakeStep, DropStep, ReapStep, RetryStep, ShutStep, RebuildStep,
         CloseStep, Running, Final, portVars
    <3> QED
      BY <1>1, <2>1, <2>2, <2>3, <2>4, <3>1, ReliefKept DEF Final
  <2>5. CASE Top.op \in {"release", "let_go"}
    <3>1. UNCHANGED servers
      BY <2>5 DEF Step, ConnectStep, ConnectRaises, ReleaseStep, LetGoStep, TellSocket,
         TellWs, CastStep,
         AnnounceStep, JoinStep, HelloStep, ReplyStep, RemoveStep, RemovedStep, ServeStep,
         AddStep, HandshakeStep, DropStep, ReapStep, RetryStep, ShutStep, RebuildStep,
         CloseStep, Running, portVars
    <3>2. CASE \E f \in Range(stack) : f.op = "close_next"
      BY <1>1, <2>5, <3>2
    <3>3. CASE Dismissed(s)
      <4>1. PICK l \in Layouts : Rebuild(l) \in Range(stack) /\ s \in Range(servers) \ Range(l)
        BY <3>3 DEF Dismissed
      <4>2. Rebuild(l).op = "rebuild"
        BY DEF Rebuild
      <4>3. Rebuild(l) \in Range(stack)' /\ s \in Range(servers)' \ Range(l)
        BY <1>1, <2>5, <3>1, <4>1, <4>2
      <4> QED
        BY <4>3 DEF Dismissed
    <3> QED
      BY <2>1, <3>2, <3>3
  <2> QED
    BY <2>2, <2>4, <2>5 DEF Reliefs, Final
<1>4. CASE Shut(s) \notin Range(Tail(stack))
  <2>1. CloseStep /\ servers # <<>>
    BY <1>1, <1>2, <1>4, NewCalls
  <2> DEFINE g == Shut(servers[Len(servers)])
             h == CloseNext
  <2>2. Call(<<g, h>>) /\ h.op = "close_next"
    BY <2>1 DEF CloseStep, CloseNext
  <2> HIDE DEF g, h
  <2>3. IsList(<<g, h>>) /\ Range(<<g, h>>) = {g, h}
    BY ListTuples, TupleRanges
  <2>4. h \in Range(stack)'
    BY <1>1, <2>2, <2>3, CallRange
  <2> QED
    BY <2>2, <2>4
<1> QED
  BY <1>3, <1>4

\* A connect() is called for whoever holds the device, or will.
LEMMA StepWanted ==
  ASSUME TypeOK, Places, Nested(stack), Tracked, Present, ~SendRaises, ~PairFails, Step
  PROVE  Wanted'
<1> SUFFICES ASSUME ~Idle', Top'.op = "connect"
             PROVE  Held'
  BY DEF Wanted
<1> PICK f : f = Top'
  OBVIOUS
<1>1. f \in Range(stack)' /\ f.op = "connect"
  <2>1. TypeOK'
    BY NextTyped DEF Next
  <2>2. IsList(stack') /\ stack' # <<>>
    BY <2>1 DEF Idle, TypeOK, IsList
  <2>3. Head(stack') = stack'[1] /\ Len(stack') \in Nat /\ Len(stack') >= 1
        /\ DOMAIN stack' = 1 .. Len(stack')
    BY <2>2, ListTail, ListLength
  <2>4. 1 \in DOMAIN stack'
    BY <2>3
  <2> QED
    BY <2>3, <2>4 DEF Top, Range
<1>2. ~Idle /\ Top \in Range(stack)
  BY StepFrames
<1>3. f \notin Range(Tail(stack))
  BY <1>1, <1>2, NestedUnderTop DEF Nests
<1>4. (RetryStep /\ HasConnections) \/ HandshakeStep
  <2>1. \A t, c : On("removed", t, c).op = "removed"
    BY DEF On
  <2> QED
    BY <1>1, <1>3, <2>1, NewCalls
<1>5. CASE RetryStep /\ HasConnections
  <2>1. PICK s \in Range(servers) : Attached(s) # {}
    BY <1>5 DEF HasConnections
  <2>2. Attached(s) \cap conns[s] # {}
    BY <2>1 DEF Attached, Present
  <2>3. Held
    BY <2>1, <2>2 DEF Held
  <2> QED
    BY <1>5, <2>3 DEF RetryStep, Held, Attached, clientVars
<1>6. CASE HandshakeStep
  <2> PICK z, x : z = Top.s /\ x = Top.c
    OBVIOUS
  <2>1. Top.op = "handshake" /\ UNCHANGED <<servers, conns, attached>>
    BY <1>6 DEF HandshakeStep, Running, portVars
  <2>2. z \in SocketServers
    BY <1>2, <2>1, TopFrame, FrameOfSocket DEF TypeOK, SocketOps
  <2>3. x \in conns[z]
    BY <1>2, <2>1 DEF Tracked, Alone
  <2>4. Top # Shut(z) /\ z \in Servers
    BY <2>1, <2>2 DEF Shut, Servers
  <2>5. z \in Range(servers)
    BY <2>3, <2>4 DEF Places, Parting, Vacant
  <2>6. Attached(z) = conns[z]
    BY <2>2, SerialPortAssumption DEF Attached, SerialPortAssumption
  <2>7. Held
    BY <2>3, <2>5, <2>6 DEF Held
  <2> QED
    BY <2>1, <2>7 DEF Held, Attached
<1> QED
  BY <1>4, <1>5, <1>6

\* A call that makes a relief has made it.
LEMMA Relieves ==
  ASSUME TypeOK, ~Idle, NEW f, f.op \in Reliefs,
         Call(<<f>>) \/ \E g : Call(<<f, g>>) \/ Call(<<g, f>>)
  PROVE  Relief'
<1>1. CASE Call(<<f>>)
  <2>1. IsList(<<f>>) /\ Range(<<f>>) = {f}
    BY ListTuples, TupleRanges
  <2>2. f \in Range(stack)'
    BY <1>1, <2>1, CallRange
  <2> QED
    BY <2>2 DEF Relief
<1>2. ASSUME NEW g, NEW a, a = <<f, g>> \/ a = <<g, f>>, Call(a)
      PROVE  Relief'
  <2>1. IsList(a) /\ Range(a) = {f, g}
    BY <1>2, ListTuples, TupleRanges
  <2>2. f \in Range(stack)'
    BY <1>2, <2>1, CallRange
  <2> QED
    BY <2>2 DEF Relief
<1> QED
  BY <1>1, <1>2

\* An ordinary call does not take the last holder of an open device away and
\* leave it at that.
LEMMA StillHeld ==
  ASSUME Inv, Nested(stack), News, Holding, ~SendRaises, ~PairFails, Step, device, Held,
         Top.op \notin Entering \cup Reliefs \cup {"rebuild"}
  PROVE  Held' \/ Relief \/ Relief'
<1>1. TypeOK /\ ~Idle /\ Top \in Range(stack) /\ Top \in Frames
  BY StepFrames, TopFrame DEF Inv, TypeOK
<1> PICK z, x : z = Top.s /\ x = Top.c
  OBVIOUS
<1>2. UNCHANGED servers
  BY DEF Step, ConnectStep, ConnectRaises, ReleaseStep, LetGoStep, TellSocket, TellWs,
     CastStep,
     AnnounceStep, JoinStep, HelloStep, ReplyStep, RemoveStep, RemovedStep, ServeStep,
     AddStep, HandshakeStep, DropStep, ReapStep, RetryStep, ShutStep, RebuildStep,
     CloseStep, Running, Reliefs, portVars
<1>3. PICK s \in Range(servers) : Attached(s) \cap conns[s] # {}
  BY DEF Held
<1>4. s \in Servers
  BY <1>1, <1>3, ServersTyped DEF TypeOK
<1>5. ASSUME conns'[s] = conns[s], s \in WsServers => attached'[s] = attached[s]
      PROVE  Held'
  <2>1. (Attached(s) \cap conns[s])' # {}
    BY <1>3, <1>5 DEF Attached
  <2> QED
    BY <1>2, <1>3, <2>1 DEF Held
<1>6. CASE UNCHANGED <<conns, attached>>
  BY <1>5, <1>6
<1>7. CASE RemoveStep
  <2> DEFINE rest == On("removed", Top.s, Top.c)
             f == Release
  <2>1. CASE x \in conns[z] /\ x \in attached[z]
    <3>1. Call(<<f, rest>>) /\ f.op \in Reliefs
      BY <1>7, <2>1 DEF RemoveStep, Release, Reliefs
    <3> HIDE DEF f, rest
    <3> QED
      BY <1>1, <3>1, Relieves
  <2>2. CASE ~(x \in conns[z] /\ x \in attached[z])
    <3>1. z \in WsServers
      BY <1>1, <1>7, FrameOfWs DEF RemoveStep, Running, WsOps
    <3>2. x \notin attached[z]
      BY <2>2, <3>1 DEF Holding, Present
    <3>3. /\ UNCHANGED conns
          /\ attached' = attached \/ attached' = [attached EXCEPT ![z] = @ \ {x}]
      BY <1>7 DEF RemoveStep
    <3>4. CASE attached' = attached
      BY <1>5, <3>3, <3>4
    <3>5. CASE attached' = [attached EXCEPT ![z] = @ \ {x}]
      <4>1. s \in WsServers => attached'[s] = attached[s]
        BY <1>1, <3>1, <3>2, <3>5 DEF TypeOK
      <4> QED
        BY <1>5, <3>3, <4>1
    <3> QED
      BY <3>3, <3>4, <3>5
  <2> QED
    BY <2>1, <2>2
<1>8. CASE RemovedStep
  <2>1. Top.op = "removed" /\ z \in WsServers
    BY <1>1, <1>8, FrameOfWs DEF RemovedStep, Running, WsOps
  <2>2. x \notin attached[z]
    BY <1>1, <2>1 DEF Holding, Present
  <2>3. /\ UNCHANGED attached
        /\ conns'[s] = conns[s] \/ (s = z /\ conns'[s] = conns[s] \ {x})
    BY <1>1, <1>4, <1>8 DEF RemovedStep, TypeOK
  <2>4. (Attached(s) \cap conns[s])' # {}
    BY <1>3, <2>1, <2>2, <2>3 DEF Attached
  <2> QED
    BY <1>2, <1>3, <2>4 DEF Held
<1>9. CASE DropStep
  <2>1. z \in SocketServers
    BY <1>1, <1>9, FrameOfSocket DEF DropStep, Running, SocketOps
  <2>2. CASE conns[z] \subseteq {x}
    <3> DEFINE f == Release
    <3>1. Call(<<f>>) /\ f.op \in Reliefs
      BY <1>9, <2>2 DEF DropStep, Release, Reliefs
    <3> HIDE DEF f
    <3> QED
      BY <1>1, <3>1, Relieves
  <2>3. CASE ~(conns[z] \subseteq {x})
    <3>1. UNCHANGED attached /\ conns' = [conns EXCEPT ![z] = @ \ {x}]
      BY <1>9 DEF DropStep
    <3>2. CASE s = z
      <4>1. conns'[s] # {} /\ s \notin WsServers
        BY <1>1, <1>4, <2>1, <2>3, <3>1, <3>2, SerialPortAssumption
           DEF TypeOK, SerialPortAssumption
      <4>2. (Attached(s) \cap conns[s])' # {}
        BY <4>1 DEF Attached
      <4> QED
        BY <1>2, <1>3, <4>2 DEF Held
    <3>3. CASE s # z
      BY <1>1, <1>4, <1>5, <3>1, <3>3 DEF TypeOK
    <3> QED
      BY <3>2, <3>3
  <2> QED
    BY <2>2, <2>3
<1>10. CASE ShutStep
  <2>1. Top.op = "shut"
    BY <1>10 DEF ShutStep, Running
  <2>2. z \in Servers
    BY <1>1, <2>1, FrameOfServer
  <2>3. Top = Shut(z)
    BY <1>1, <2>1 DEF Frames, Shut, WsOps, SocketOps
  <2>4. Dismissed(z) \/ \E f \in Range(stack) : f.op = "close_next"
    BY <1>1, <2>2, <2>3 DEF Holding, Shutting
  <2> QED
    BY <2>2, <2>4 DEF Relief, Reliefs
<1>11. CASE TellSocket
  <2>1. CASE Top.msg = "down"
    <3>1. Newsy(Top) /\ Top.op = "tell"
      BY <1>11, <2>1 DEF TellSocket, Running, Newsy, Telling
    <3>2. ~announced
      BY <1>1, <2>1, <3>1 DEF News, Word
    <3>3. Top = stack[1] /\ IsList(stack)
      BY <1>1, RunningStack
    <3>4. Has(stack, "let_go")
      BY <3>1, <3>2, <3>3 DEF Inv, Sync, Rises
    <3>5. \E f \in Range(stack) : f.op = "let_go"
      BY <3>3, <3>4, HasRange
    <3> QED
      BY <3>5 DEF Relief, Reliefs
  <2>2. CASE Top.msg # "down"
    BY <1>6, <1>11, <2>2 DEF TellSocket
  <2> QED
    BY <2>1, <2>2
<1> QED
  BY <1>6, <1>7, <1>8, <1>9, <1>10, <1>11 DEF Step, ConnectStep, ConnectRaises,
     ReleaseStep, LetGoStep,
     TellWs, CastStep, AnnounceStep, JoinStep, HelloStep, ReplyStep, ServeStep,
     AddStep, HandshakeStep, ReapStep, RetryStep, RebuildStep,
     CloseStep, Running, Entering, Reliefs, clientVars

\* Whoever comes in holds the device.
LEMMA EnteredHolds ==
  ASSUME Inv, Places, Present, JoinStep \/ AddStep
  PROVE  Held'
<1>1. TypeOK /\ ~Idle /\ Top.op \in {"join", "add"}
  BY DEF Inv, JoinStep, AddStep, Running
<1>2. Top \in Range(stack) /\ Top \in Frames
  BY <1>1, RunningStack, TailRange
<1> PICK z, x : z = Top.s /\ x = Top.c
  OBVIOUS
<1>3. z \in Range(servers) /\ UNCHANGED servers
  BY <1>1, <1>2 DEF Places, EnteringListed, Entering, JoinStep, AddStep, portVars
<1>4. CASE JoinStep
  <2>1. Top.op = "join" /\ z \in WsServers
    BY <1>2, <1>4, FrameOfWs DEF JoinStep, Running, WsOps
  <2>2. x \in conns[z]
    BY <1>2, <2>1 DEF Present
  <2>3. x \in conns'[z] /\ x \in attached'[z]
    BY <1>1, <1>4, <2>1, <2>2 DEF JoinStep, TypeOK
  <2>4. (Attached(z) \cap conns[z])' # {}
    BY <2>1, <2>3 DEF Attached
  <2> QED
    BY <1>3, <2>4 DEF Held
<1>5. CASE AddStep
  <2>1. Top.op = "add" /\ z \in SocketServers
    BY <1>2, <1>5, FrameOfSocket DEF AddStep, Running, SocketOps
  <2>2. x \in conns'[z]
    BY <1>1, <1>5, <2>1 DEF AddStep, TypeOK, Servers
  <2>3. (Attached(z) \cap conns[z])' # {}
    BY <2>1, <2>2, SerialPortAssumption DEF Attached, SerialPortAssumption
  <2> QED
    BY <1>3, <2>3 DEF Held
<1> QED
  BY <1>4, <1>5

\* A new configuration that leaves nobody out leaves the holders as they are,
\* and any other looks whether there are any.
LEMMA RebuiltHeld ==
  ASSUME Inv, Holding, ~RebuildFails, RebuildStep, device
  PROVE  Held' \/ Relief'
<1>1. TypeOK /\ ~Idle /\ Top.op = "rebuild"
  BY DEF Inv, RebuildStep, Running
<1>2. Range(Tail(stack)) = {} /\ Range(stack) = {Top} \cup Range(Tail(stack))
  BY <1>1, FinalIsLast, RunningStack, TailRange DEF Final
<1> PICK l : l = Top.layout
  OBVIOUS
<1> DEFINE going == Range(servers) \ Range(l)
           new == Range(l) \ Range(servers)
           f == Release
<1>3. /\ servers' = l /\ UNCHANGED <<conns, attached>>
      /\ Call(IF going \cup new # {} THEN <<f>> ELSE <<>>)
  BY DEF RebuildStep, clientVars
<1>4. CASE going \cup new # {}
  <2>1. Call(<<f>>) /\ f.op \in Reliefs
    BY <1>3, <1>4 DEF Release, Reliefs
  <2> HIDE DEF f
  <2> QED
    BY <1>1, <2>1, Relieves
<1>5. CASE going \cup new = {}
  <2>1. Range(servers)' = Range(servers) /\ Range(l) = Range(servers)
    BY <1>3, <1>5
  <2>2. ~\E s \in Servers : Dismissed(s)
    <3>1. SUFFICES ASSUME NEW s, NEW k \in Layouts, Rebuild(k) \in Range(stack),
                          s \in Range(servers) \ Range(k)
                   PROVE  FALSE
      BY DEF Dismissed
    <3>2. Rebuild(k) = Top /\ Rebuild(k).layout = k
      BY <1>2, <3>1 DEF Rebuild
    <3> QED
      BY <2>1, <3>1, <3>2
  <2>3. ~Relief
    BY <1>1, <1>2, <2>2 DEF Relief, SomeoneEnters, Entering, Reliefs
  <2>4. Held
    BY <2>3 DEF Holding
  <2> QED
    BY <1>3, <2>1, <2>4 DEF Held, Attached
<1> QED
  BY <1>4, <1>5

LEMMA StepRelieved ==
  ASSUME Inv, Places, Nested(stack), News, Holding, ~SendRaises, ~PairFails, ~RebuildFails, Step,
         device'
  PROVE  Held' \/ Relief'
<1>1. /\ TypeOK /\ ~Idle
      /\ Range(stack) = {Top} \cup Range(Tail(stack))
      /\ Range(Tail(stack)) \subseteq Range(stack)'
  BY StepFrames, NoneIsCut DEF Inv, Holding
<1>2. CASE JoinStep \/ AddStep
  BY <1>2, EnteredHolds DEF Holding
<1>3. CASE ReleaseStep
  <2>1. UNCHANGED <<device, servers, conns, attached>>
    BY <1>3 DEF ReleaseStep, portVars, clientVars
  <2>2. CASE HasConnections
    <3>1. PICK s \in Range(servers) : Attached(s) # {}
      BY <2>2 DEF HasConnections
    <3>2. Attached(s) \cap conns[s] # {}
      BY <3>1 DEF Attached, Holding, Present
    <3>3. Held
      BY <3>1, <3>2 DEF Held
    <3> QED
      BY <2>1, <3>3 DEF Held, Attached
  <2>3. CASE ~HasConnections
    <3> DEFINE g == Announce(FALSE)
               f == LetGo
    <3>1. Call(<<g, f>>) /\ f.op \in Reliefs
      BY <1>3, <2>1, <2>3 DEF ReleaseStep, LetGo, Reliefs
    <3> HIDE DEF f, g
    <3> QED
      BY <1>1, <3>1, Relieves
  <2> QED
    BY <2>2, <2>3
<1>4. ~LetGoStep
  BY DEF LetGoStep
<1>5. CASE CloseStep
  <2>1. CASE servers = <<>>
    <3> DEFINE f == Release
    <3>1. Call(<<f>>) /\ f.op \in Reliefs
      BY <1>5, <2>1 DEF CloseStep, Release, Reliefs
    <3> HIDE DEF f
    <3> QED
      BY <1>1, <3>1, Relieves
  <2>2. CASE servers # <<>>
    <3> DEFINE g == Shut(servers[Len(servers)])
               f == CloseNext
    <3>1. Call(<<g, f>>) /\ f.op \in Reliefs
      BY <1>5, <2>2 DEF CloseStep, CloseNext, Reliefs
    <3> HIDE DEF f, g
    <3> QED
      BY <1>1, <3>1, Relieves
  <2> QED
    BY <2>1, <2>2
<1>6. CASE RebuildStep
  <2>1. device
    BY <1>6 DEF RebuildStep
  <2> QED
    BY <1>6, <2>1, RebuiltHeld
<1>7. CASE ~JoinStep /\ ~AddStep /\ ~ReleaseStep /\ ~CloseStep /\ ~RebuildStep
  <2>1. /\ Top.op \notin Entering \cup Reliefs \cup {"rebuild"}
        /\ UNCHANGED servers
        /\ device \/ ConnectStep
    BY <1>4, <1>7 DEF Step, ConnectStep, ConnectRaises, LetGoStep, TellSocket, TellWs,
       CastStep,
       AnnounceStep, HelloStep, ReplyStep, RemoveStep, RemovedStep, ServeStep,
       HandshakeStep, DropStep, ReapStep, RetryStep, ShutStep, Running, Reliefs, Entering,
       portVars
  <2>2. Relief => Relief'
    BY <1>1, <2>1, ReliefKept
  <2>3. CASE device
    BY <2>1, <2>2, <2>3, StillHeld DEF Holding
  <2>4. CASE ConnectStep /\ ~device
    <3>1. Held \/ SomeoneEnters
      BY <2>4 DEF ConnectStep, ConnectRaises, Running, Holding, Wanted
    <3>2. UNCHANGED <<servers, conns, attached>>
      BY <2>4 DEF ConnectStep, ConnectRaises, clientVars
    <3>3. Held => Held'
      BY <3>2 DEF Held, Attached
    <3> QED
      BY <2>2, <3>1, <3>3 DEF Relief
  <2> QED
    BY <2>1, <2>3, <2>4
<1> QED
  BY <1>2, <1>3, <1>5, <1>6, <1>7

\* A reconfiguration begins by shutting servers it leaves out.
LEMMA BeginsShutting ==
  ASSUME TypeOK, NEW layout \in Layouts, Reconcile(layout),
         NEW s \in Servers, Shut(s) \in Range(stack)'
  PROVE  Dismissed(s)'
<1> DEFINE out == {i \in DOMAIN servers : servers[i] \notin Range(layout)}
           b == <<Rebuild(layout)>>
<1>1. PICK n \in 0 .. Len(servers) : \E going \in [1 .. n -> out] :
        Start([i \in 1 .. n |-> Shut(servers[going[i]])] \o b)
  BY DEF Reconcile
<1>2. PICK going \in [1 .. n -> out] :
        Start([i \in 1 .. n |-> Shut(servers[going[i]])] \o b)
  BY <1>1
<1> DEFINE a == [i \in 1 .. n |-> Shut(servers[going[i]])]
<1>3. stack' = a \o b /\ UNCHANGED servers
  BY <1>2 DEF Start, Reconcile, portVars
<1>4. n \in Nat
  BY LenProperties DEF TypeOK
<1>5. \A i \in 1 .. n : /\ a[i] = Shut(servers[going[i]])
                        /\ servers[going[i]] \in Range(servers) \ Range(layout)
  <2>1. ASSUME NEW i \in 1 .. n
        PROVE  servers[going[i]] \in Range(servers) \ Range(layout)
    <3>1. going[i] \in out
      BY <2>1
    <3> QED
      BY <3>1 DEF Range
  <2> QED
    BY <2>1
<1>6. a = [i \in 1 .. n |-> a[i]] /\ DOMAIN a = 1 .. n
  OBVIOUS
<1>7. IsList(b) /\ Range(b) = {Rebuild(layout)}
  BY ListTuples, TupleRanges
<1> HIDE DEF a, b, out
<1>8. IsList(a)
  BY <1>4, <1>6, ListOf
<1>9. Range(a \o b) = Range(a) \cup Range(b)
  BY <1>7, <1>8, ConcatRange
<1>10. Shut(s).op = "shut" /\ Rebuild(layout).op = "rebuild" /\ \A t : Shut(t).s = t
  BY DEF Shut, Rebuild
<1>11. Shut(s) \in Range(a)
  BY <1>3, <1>7, <1>9, <1>10
<1>12. PICK i \in 1 .. n : Shut(s) = a[i]
  BY <1>6, <1>11 DEF Range
<1>13. s = servers[going[i]]
  BY <1>5, <1>10, <1>12
<1>14. s \in Range(servers)' \ Range(layout)
  BY <1>3, <1>5, <1>13
<1>15. Rebuild(layout) \in Range(stack)'
  BY <1>3, <1>7, <1>9
<1> QED
  BY <1>14, <1>15 DEF Dismissed

\* The other calls a handler begins with.
LEMMA BeginsHolding ==
  ASSUME TypeOK, Tick \/ Event,
         NEW f \in Range(stack)'
  PROVE  /\ f.op # "removed"
         /\ f.op = "let_go" => device'
         /\ f.op = "connect" => SomeoneEnters'
         /\ f.op = "shut" => \E layout \in Layouts : Reconcile(layout)
<1>1. CASE Tick
  <2>1. f.op \in {"reap", "retry"}
    BY <1>1, ReapFrames
  <2> QED
    BY <2>1
<1>2. ASSUME NEW s \in WsServers, NEW c \in WsClients,
             WsArrives(s, c) \/ WsAttaches(s, c) \/ WsDetaches(s, c) \/ WsDropped(s, c)
      PROVE  /\ f.op \notin {"removed", "let_go", "shut"}
             /\ f.op = "connect" => SomeoneEnters'
  <2> DEFINE conn == Connect
             rel  == Release
             join == On("join", s, c)
             hi   == On("hello", s, c)
             rep  == On("reply", s, c)
             srv  == On("serve", s, c)
             rem  == On("remove", s, c)
  <2>1. \/ stack' = <<conn, join, hi, srv>>
        \/ stack' = <<conn, join, rep, srv>>
        \/ stack' = <<rep, srv>>
        \/ stack' = <<rel, rep, srv>>
        \/ stack' = <<rem>>
    BY <1>2 DEF WsArrives, WsAttaches, WsDetaches, WsDropped, Start
  <2>2. /\ \A g \in {conn, rel, join, hi, rep, srv, rem} :
             g.op \notin {"removed", "let_go", "shut"}
        /\ join.op \in Entering
        /\ \A g \in {rel, join, hi, rep, srv, rem} : g.op # "connect"
    BY DEF On, Connect, Release, Entering
  <2> HIDE DEF conn, rel, join, hi, rep, srv, rem
  <2>3. \/ Range(stack)' = {conn, join, hi, srv}
        \/ Range(stack)' = {conn, join, rep, srv}
        \/ Range(stack)' \subseteq {rel, rep, srv, rem}
    BY <2>1, TupleRanges
  <2> QED
    BY <2>2, <2>3 DEF SomeoneEnters
<1>3. ASSUME NEW s \in SocketServers, NEW c \in SocketClients,
             SocketArrives(s, c) \/ TlsArrives(s, c) \/ TlsRefused(s, c) \/ TlsReady(s, c)
             \/ SocketLeaves(s, c)
      PROVE  /\ f.op \notin {"removed", "let_go", "shut"}
             /\ f.op = "connect" => SomeoneEnters'
  <2> DEFINE conn == Connect
             add  == On("add", s, c)
             hs   == On("handshake", s, c)
             drop == On("drop", s, c)
             rel  == Release
  <2>1. stack' = <<conn, add>> \/ stack' = <<hs>> \/ stack' = <<drop>> \/ stack' = <<rel>>
    BY <1>3 DEF SocketArrives, TlsArrives, TlsReady, SocketLeaves, TlsRefused, Start
  <2>2. /\ \A g \in {conn, add, hs, drop, rel} : g.op \notin {"removed", "let_go", "shut"}
        /\ add.op \in Entering
        /\ hs.op # "connect" /\ drop.op # "connect" /\ rel.op # "connect"
    BY DEF On, Connect, Release, Entering
  <2> HIDE DEF conn, add, hs, drop, rel
  <2>3. Range(stack)' = {conn, add} \/ Range(stack)' \subseteq {hs, drop, rel}
    BY <2>1, TupleRanges
  <2> QED
    BY <2>2, <2>3 DEF SomeoneEnters
<1>4. ASSUME NEW layout \in Layouts, Reconcile(layout)
      PROVE  f.op \in {"shut", "rebuild"}
  BY <1>4, ReconcileFrames DEF Rebuild
<1>5. CASE DeviceData
  <2>1. "data" \in Msgs
    BY DEF Msgs
  <2>2. Range(stack)' = {Tell(s, "data") : s \in Range(servers)}
    BY <1>5, <2>1, TellFrames DEF DeviceData, Start
  <2> QED
    BY <2>2 DEF Tell
<1>6. CASE DeviceFails \/ Close
  <2> DEFINE off == Announce(FALSE)
             go == LetGo
             next == CloseNext
  <2>1. (stack' = <<off, go>> /\ device') \/ stack' = <<next>>
    <3>1. CASE DeviceFails
      <4>1. device' /\ stack' = <<off, go>>
        BY <3>1 DEF DeviceFails, Start, portVars
      <4> QED
        BY <4>1
    <3>2. CASE Close
      BY <3>2 DEF Close, Start
    <3> QED
      BY <1>6, <3>1, <3>2
  <2>2. off.op = "announce" /\ go.op = "let_go" /\ next.op = "close_next"
    BY DEF Announce, LetGo, CloseNext
  <2> HIDE DEF off, go, next
  <2>3. (Range(stack)' = {off, go} /\ device') \/ Range(stack)' = {next}
    BY <2>1, TupleRanges
  <2> QED
    BY <2>2, <2>3
<1>7. CASE Plug \/ IntervalPasses \/ \E c \in WsClients : WsDies(c)
  <2>1. stack' = <<>>
    BY <1>7 DEF Plug, IntervalPasses, WsDies, Idle
  <2> QED
    BY <2>1, TupleRanges
<1> QED
  BY <1>1, <1>2, <1>3, <1>4, <1>5, <1>6, <1>7 DEF Event

\* At the beginning of a handler nobody leaves, and whoever lets go of the
\* device has the port looked at.
LEMMA EventHolders ==
  ASSUME TypeOK, Tick \/ Event
  PROVE  /\ UNCHANGED <<device, servers>>
         /\ \A s \in Servers : conns[s] \subseteq conns'[s]
         /\ \A s \in WsServers : attached'[s] \subseteq attached[s]
         /\ UNCHANGED attached \/ Relief'
<1>1. UNCHANGED <<device, servers>>
  BY DEF Event, Tick, WsArrives, WsAttaches, WsDetaches, WsDropped, SocketArrives,
         TlsArrives, TlsReady, SocketLeaves, TlsRefused, WsDies, Reconcile, DeviceFails, DeviceData,
         Plug, IntervalPasses, Close, portVars
<1>2. ASSUME NEW z \in WsServers, NEW x \in WsClients, WsDetaches(z, x)
      PROVE  /\ UNCHANGED conns /\ Relief'
             /\ \A s \in WsServers : attached'[s] \subseteq attached[s]
  <2> DEFINE f == Release
             g == On("reply", z, x)
             h == On("serve", z, x)
  <2>1. stack' = <<f, g, h>> /\ f.op \in Reliefs
    BY <1>2 DEF WsDetaches, Start, Release, Reliefs
  <2> HIDE DEF f, g, h
  <2>2. f \in Range(stack)'
    BY <2>1, TupleRanges
  <2>3. Relief'
    BY <2>1, <2>2 DEF Relief
  <2>4. UNCHANGED conns /\ attached' = [attached EXCEPT ![z] = @ \ {x}]
    BY <1>2 DEF WsDetaches
  <2> QED
    BY <2>3, <2>4 DEF TypeOK
<1>3. CASE \/ \E s \in WsServers, c \in WsClients : WsArrives(s, c)
           \/ \E s \in SocketServers, c \in SocketClients : TlsArrives(s, c)
  <2>1. UNCHANGED attached
    BY <1>3 DEF WsArrives, TlsArrives
  <2>2. \A s \in Servers : conns[s] \subseteq conns'[s]
    BY <1>3 DEF WsArrives, TlsArrives, TypeOK, Servers
  <2> QED
    BY <1>1, <2>1, <2>2
<1>4. CASE UNCHANGED <<conns, attached>>
  BY <1>1, <1>4
<1>5. \/ \E s \in WsServers, c \in WsClients : WsArrives(s, c) \/ WsDetaches(s, c)
      \/ \E s \in SocketServers, c \in SocketClients : TlsArrives(s, c)
      \/ UNCHANGED <<conns, attached>>
  BY DEF Event, Tick, WsAttaches, WsDropped, SocketArrives,
         TlsReady, SocketLeaves, TlsRefused, WsDies, Reconcile, DeviceFails, DeviceData,
         Plug, IntervalPasses, Close, clientVars
<1> QED
  BY <1>1, <1>2, <1>3, <1>4, <1>5

LEMMA EventHolding ==
  ASSUME TypeOK, Once, Holding, Tick \/ Event
  PROVE  Holding'
<1>1. Idle /\ Range(stack) = {}
  BY Begins, TupleRanges DEF Idle
<1>2. Present'
  <2>1. \A s \in WsServers : attached'[s] \subseteq conns'[s]
    <3>1. WsServers \subseteq Servers
      BY DEF Servers
    <3> QED
      BY <3>1, EventHolders DEF Holding, Present
  <2>2. ASSUME NEW f \in Range(stack)', f.op = "join"
        PROVE  f.c \in conns'[f.s]
    <3>1. \A s, c : On("add", s, c).op = "add"
      BY DEF On
    <3>2. PICK s \in WsServers, c \in WsClients :
            (WsArrives(s, c) \/ WsAttaches(s, c)) /\ f = On("join", s, c)
      BY <2>2, <3>1, Begins
    <3>3. f.s = s /\ f.c = c
      BY <3>2 DEF On
    <3>4. c \in conns'[s]
      BY <3>2 DEF WsArrives, WsAttaches, TypeOK, Servers, clientVars
    <3> QED
      BY <3>3, <3>4
  <2>3. \A f \in Range(stack)' : f.op # "removed" /\ (f.op = "let_go" => device')
    BY BeginsHolding
  <2> QED
    BY <2>1, <2>2, <2>3 DEF Present
<1>3. Shutting'
  <2>1. ASSUME NEW s \in Servers, Shut(s) \in Range(stack)'
        PROVE  Dismissed(s)'
    <3>1. Shut(s).op = "shut"
      BY DEF Shut
    <3>2. PICK layout \in Layouts : Reconcile(layout)
      BY <2>1, <3>1, BeginsHolding
    <3> QED
      BY <2>1, <3>2, BeginsShutting
  <2> QED
    BY <2>1 DEF Shutting
<1>4. Wanted'
  <2>1. SUFFICES ASSUME ~Idle', Top'.op = "connect" PROVE SomeoneEnters'
    BY DEF Wanted
  <2>2. TypeOK'
    BY NextTyped DEF Next
  <2>3. IsList(stack') /\ stack' # <<>>
    BY <2>1, <2>2 DEF Idle, TypeOK, IsList
  <2>4. /\ Head(stack') = stack'[1] /\ Len(stack') \in Nat /\ Len(stack') >= 1
        /\ DOMAIN stack' = 1 .. Len(stack')
    BY <2>3, ListTail, ListLength
  <2>5. 1 \in DOMAIN stack'
    BY <2>4
  <2>6. Top' \in Range(stack)'
    BY <2>4, <2>5 DEF Top, Range
  <2> PICK f : f = Top'
    OBVIOUS
  <2> QED
    BY <2>1, <2>6, BeginsHolding
<1>5. device' => Held' \/ Relief'
  <2>1. SUFFICES ASSUME device', UNCHANGED attached PROVE Held'
    BY EventHolders
  <2>2. UNCHANGED servers /\ device
    BY <2>1, EventHolders
  <2>3. ~Relief
    BY <1>1 DEF Relief, SomeoneEnters, Dismissed
  <2>4. Held
    BY <2>2, <2>3 DEF Holding
  <2>5. PICK s \in Range(servers) : Attached(s) \cap conns[s] # {}
    BY <2>4 DEF Held
  <2>6. s \in Servers
    BY <2>5, ServersTyped DEF TypeOK
  <2>7. conns[s] \subseteq conns'[s]
    BY <2>6, EventHolders
  <2>8. (Attached(s) \cap conns[s])' # {}
    BY <2>1, <2>5, <2>7 DEF Attached
  <2> QED
    BY <2>2, <2>5, <2>8 DEF Held
<1> QED
  BY <1>2, <1>3, <1>4, <1>5 DEF Holding

LEMMA NextHolding ==
  ASSUME Inv, Once, Places, Nested(stack), Knowing, Serving, Holding,
         ~SendRaises, ~PairFails, ~RebuildFails, [Next]_vars
  PROVE  Holding'
<1>1. TypeOK
  BY DEF Inv
<1>2. CASE Step
  <2>1. Present'
    BY <1>1, <1>2, StepPresent DEF Holding
  <2>2. Shutting'
    BY <1>2, StepShutting DEF Holding
  <2>3. Wanted'
    BY <1>1, <1>2, StepWanted DEF Holding, Serving
  <2>4. device' => Held' \/ Relief'
    BY <1>2, StepRelieved DEF Knowing
  <2> QED
    BY <2>1, <2>2, <2>3, <2>4 DEF Holding
<1>3. CASE Tick \/ Event
  BY <1>1, <1>3, EventHolding
<1>4. CASE UNCHANGED vars
  <2>1. UNCHANGED <<stack, conns, attached, servers, device>>
    BY <1>4 DEF vars, clientVars, portVars
  <2>2. /\ Range(stack)' = Range(stack) /\ Range(servers)' = Range(servers)
        /\ (Idle' <=> Idle) /\ Top' = Top
    BY <2>1 DEF Idle, Top
  <2>3. (Held' <=> Held) /\ (SomeoneEnters' <=> SomeoneEnters)
    BY <2>1, <2>2 DEF Held, Attached, SomeoneEnters
  <2>4. \A s : Dismissed(s)' <=> Dismissed(s)
    BY <2>2 DEF Dismissed
  <2>5. Relief' <=> Relief
    BY <2>2, <2>3, <2>4 DEF Relief
  <2>6. Present'
    BY <2>1, <2>2 DEF Holding, Present
  <2>7. Shutting'
    BY <2>2, <2>4 DEF Holding, Shutting
  <2>8. Wanted'
    BY <2>2, <2>3 DEF Holding, Wanted
  <2>9. device' => Held' \/ Relief'
    BY <2>1, <2>3, <2>5 DEF Holding
  <2> QED
    BY <2>6, <2>7, <2>8, <2>9 DEF Holding
<1> QED
  BY <1>2, <1>3, <1>4 DEF Next

LEMMA InitHolding ==
  ASSUME Init
  PROVE  Holding
<1>1. Range(stack) = {} /\ Idle /\ ~device
  BY TupleRanges DEF Init, Idle
<1>2. \A s \in WsServers : attached[s] \subseteq conns[s]
  BY DEF Init, Servers
<1> QED
  BY <1>1, <1>2 DEF Holding, Present, Shutting, Wanted

\* As long as no send or connect() raises and every new server starts, a device
\* that is open between handlers has a connected client holding it: whatever
\* takes the last holder away, alone or under other calls, the port is looked at
\* afterwards.
THEOREM OpenIsHeld ==
  ASSUME ~SendRaises, ~PairFails, ~RebuildFails
  PROVE  Spec => []HeldWhileOpen
<1> DEFINE All == Inv /\ Places /\ Once /\ Nested(stack) /\ Knowing /\ Serving /\ Holding
<1>1. ASSUME Init PROVE All
  BY <1>1, InitInv, InitPlaces, InitOnce, InitKnowing, InitServing, InitHolding
<1>2. ASSUME All, [Next]_vars PROVE All'
  BY <1>2, NextInv, NextPlaces, NextOnce, NextKnowing, NextServing, NextHolding
<1>3. ASSUME All PROVE HeldWhileOpen
  <2>1. ASSUME Idle, device
        PROVE  Held
    <3>1. Range(stack) = {}
      BY <2>1, TupleRanges DEF Idle
    <3>2. ~Relief
      BY <3>1 DEF Relief, SomeoneEnters, Dismissed
    <3> QED
      BY <1>3, <2>1, <3>2 DEF Holding
  <2> QED
    BY <2>1 DEF HeldWhileOpen, Held
<1>4. Init => All
  BY <1>1
<1>5. All /\ [Next]_vars => All'
  BY <1>2
<1>6. All => HeldWhileOpen
  BY <1>3
<1> HIDE DEF All
<1> QED
  BY <1>4, <1>5, <1>6, PTL DEF Spec

-----------------------------------------------------------------------------
(* Nobody is told twice *)

\* A WebSocket client is connected to one endpoint.
Single == \A s, t \in WsServers : s # t => conns[s] \cap conns[t] = {}

\* A broadcast goes to clients of its endpoint.
Casting == \A f \in Range(stack) : f.op = "cast" /\ Newsy(f) => f.left \subseteq conns[f.s]

\* Whoever has heard the last announcement is not told it again.
Unheard ==
  \A c \in greeted : told[c] = Word(announced) => \A f \in Range(stack) : ~WillTell(f, c)

Sparing == Single /\ Casting /\ Unheard

\* No WebSocket client comes in the middle of a handler.
LEMMA StepSingle ==
  ASSUME TypeOK, Step
  PROVE  \A s \in WsServers : conns'[s] \subseteq conns[s]
<1>1. CASE AddStep
  <2>1. Top.s \in SocketServers
    <3>1. ~Idle /\ Top.op \in SocketOps
      BY <1>1 DEF AddStep, Running, SocketOps
    <3> QED
      BY <3>1, TopFrame, FrameOfSocket DEF TypeOK, SocketOps
  <2>2. \A s \in WsServers : s # Top.s
    BY <2>1, SerialPortAssumption DEF SerialPortAssumption
  <2> QED
    BY <1>1, <2>2 DEF AddStep, TypeOK, Servers
<1>2. CASE TellSocket \/ RemovedStep \/ DropStep \/ ShutStep
  BY <1>2 DEF TellSocket, RemovedStep, DropStep, ShutStep, TypeOK, Servers
<1>3. CASE UNCHANGED conns
  BY <1>3
<1> QED
  BY <1>1, <1>2, <1>3 DEF Step, ConnectStep, ConnectRaises, ReleaseStep, LetGoStep,
     TellWs, CastStep,
         AnnounceStep, JoinStep, HelloStep, ReplyStep, RemoveStep, ServeStep,
         HandshakeStep, ReapStep, RetryStep, RebuildStep, CloseStep, clientVars

\* What is still to be told under a running call, and who is to be told it.
LEMMA StillCasting ==
  ASSUME TypeOK, Nested(stack), Casting, ~SendRaises, ~PairFails, Step,
         NEW f \in Range(Tail(stack)), f.op = "cast", Newsy(f)
  PROVE  f.left \subseteq conns'[f.s]
<1>1. f \in Range(stack) /\ Nests(Top, f)
  BY StepFrames, NestedUnderTop
<1>2. f \in Frames
  BY <1>1, ElementOfSeq, LenProperties DEF TypeOK, Range
<1>3. f.s \in WsServers
  BY <1>2, FrameOfCast
<1>4. conns'[f.s] = conns[f.s]
  BY <1>1, <1>3, CallsAboveLeave DEF Nests, Telling, Before
<1> QED
  BY <1>1, <1>4 DEF Casting

LEMMA StepCasting ==
  ASSUME TypeOK, Nested(stack), Casting, ~SendRaises, ~PairFails, Step
  PROVE  Casting'
<1> SUFFICES ASSUME NEW f \in Range(stack)', f.op = "cast", Newsy(f)
             PROVE  f.left \subseteq conns'[f.s]
  BY DEF Casting, Newsy
<1>1. ~Idle /\ Top \in Range(stack)
  BY StepFrames
<1>2. CASE f \in Range(Tail(stack))
  BY <1>2, StillCasting
<1>3. ASSUME f \notin Range(Tail(stack)), NEW g, Call(<<g>>)
      PROVE  f = g
  <2>1. IsList(<<g>>) /\ Range(<<g>>) = {g}
    BY ListTuples, TupleRanges
  <2> QED
    BY <1>1, <1>3, <2>1, CallRange
<1>4. CASE TellWs /\ f \notin Range(Tail(stack))
  <2>1. f = Cast(Top.s, Top.msg, Audience(Top.s, Top.msg))
    BY <1>3, <1>4 DEF TellWs
  <2>2. f.s = Top.s /\ f.msg = Top.msg /\ f.left = Audience(Top.s, Top.msg)
    BY <2>1 DEF Cast
  <2>3. f.msg # "data"
    BY DEF Newsy
  <2>4. f.left = conns[f.s]
    BY <2>2, <2>3 DEF Audience
  <2> QED
    BY <1>4, <2>4 DEF TellWs, clientVars
<1>5. CASE CastStep /\ f \notin Range(Tail(stack))
  <2>1. Return => Range(stack)' = Range(Tail(stack))
    BY <1>1, ReturnRange
  <2>2. PICK c \in Top.left : Call(<<Cast(Top.s, Top.msg, Top.left \ {c})>>)
    BY <1>5, <2>1 DEF CastStep, SendFails
  <2>3. f = Cast(Top.s, Top.msg, Top.left \ {c})
    BY <1>3, <1>5, <2>2
  <2>4. f.s = Top.s /\ f.msg = Top.msg /\ f.left = Top.left \ {c}
    BY <2>3 DEF Cast
  <2>5. Top.op = "cast" /\ Newsy(Top)
    BY <1>5, <2>4 DEF CastStep, Running, Newsy, Telling
  <2>6. Top.left \subseteq conns[Top.s]
    BY <1>1, <2>5 DEF Casting
  <2> QED
    BY <1>5, <2>4, <2>6 DEF CastStep
<1>6. CASE ~TellWs /\ ~CastStep /\ f \notin Range(Tail(stack))
  <2>1. CASE AnnounceStep /\ announced # Top.up
    <3> DEFINE msg == IF Top.up THEN "up" ELSE "down"
               a == [i \in DOMAIN servers |-> Tell(servers[i], msg)]
    <3>1. Call(a)
      BY <2>1 DEF AnnounceStep
    <3>2. IsList(a) /\ Range(a) = {Tell(s, msg) : s \in Range(servers)}
      BY TellFrames DEF Msgs
    <3> HIDE DEF a
    <3>3. f \in {Tell(s, msg) : s \in Range(servers)}
      BY <1>1, <1>6, <3>1, <3>2, CallRange
    <3> QED
      BY <3>3 DEF Tell
  <2>2. CASE Untold
    <3>1. stack' # <<>>
      BY TupleRanges
    <3>2. PICK a : Quietly(a) /\ Call(a)
      BY <2>2, <3>1, UntoldCalls
    <3>3. f \in Range(a)
      BY <1>1, <1>6, <3>2, CallRange DEF Quietly, Nested
    <3> QED
      BY <3>2, <3>3 DEF Quietly, Telling
  <2> QED
    BY <1>6, <2>1, <2>2 DEF Step, Untold, ConnectRaises
<1> QED
  BY <1>2, <1>4, <1>5, <1>6

LEMMA Silent ==
  ASSUME \A f \in Range(stack)' : ~Newsy(f)
  PROVE  Unheard'
BY DEF Unheard, WillTell, Newsy

LEMMA UntoldUnheard ==
  ASSUME TypeOK, Nested(stack), Unheard, ~SendRaises, ~PairFails, Untold
  PROVE  Unheard'
<1>1. /\ ~Idle
      /\ \/ \E a : Quietly(a) /\ Call(a)
         \/ stack' = <<>>
  BY UntoldCalls
<1>2. CASE stack' = <<>>
  <2>1. Range(stack)' = {}
    BY <1>2, TupleRanges
  <2> QED
    BY <2>1, Silent
<1>3. ASSUME NEW a, Quietly(a), Call(a)
      PROVE  Unheard'
  <2>1. /\ Range(stack)' = Range(a) \cup Range(Tail(stack))
        /\ Range(stack) = {Top} \cup Range(Tail(stack))
    BY <1>1, <1>3, CallRange DEF Quietly, Nested
  <2>2. \A f \in Range(stack)' : Newsy(f) => f \in Range(Tail(stack))
    BY <1>3, <2>1 DEF Quietly, Newsy
  <2>3. CASE HelloStep
    <3>1. \A g \in Range(Tail(stack)) : Nests(Top, g)
      BY <1>1, NestedUnderTop
    <3>2. \A f \in Range(stack)' : ~Newsy(f)
      BY <2>2, <2>3, <3>1 DEF HelloStep, Running, Nests, Newsy, Telling
    <3> QED
      BY <3>2, Silent
  <2>4. CASE ~HelloStep
    <3>1. greeted' \subseteq greeted /\ \A c \in greeted' : told'[c] = told[c]
      <4>1. CASE RemovedStep
        BY <4>1 DEF RemovedStep, TypeOK
      <4>2. CASE ShutStep
        BY <4>2 DEF ShutStep, TypeOK
      <4>3. CASE ~RemovedStep /\ ~ShutStep
        <5>1. UNCHANGED <<greeted, told>>
          BY <2>4, <4>3 DEF Untold, ConnectStep, ConnectRaises, ReleaseStep, LetGoStep,
             TellSocket,
             AnnounceStep, JoinStep, HelloStep, ReplyStep, RemoveStep, ServeStep, AddStep,
             HandshakeStep, DropStep, ReapStep, RetryStep, RebuildStep, CloseStep, clientVars
        <5> QED
          BY <5>1
      <4> QED
        BY <4>1, <4>2, <4>3
    <3>2. announced' = announced
      BY DEF Untold, ConnectStep, ConnectRaises, ReleaseStep, LetGoStep, TellSocket,
         AnnounceStep, JoinStep,
         HelloStep, ReplyStep, RemoveStep, RemovedStep, ServeStep, AddStep, HandshakeStep,
         DropStep, ReapStep, RetryStep, ShutStep, RebuildStep, CloseStep, portVars
    <3>3. \A s \in WsServers : conns'[s] \subseteq conns[s]
      BY StepSingle DEF Untold, Step
    <3>4. ASSUME NEW c \in greeted', told'[c] = Word(announced), NEW f \in Range(stack)',
                 WillTell(f, c)'
          PROVE  FALSE
      <4>1. f \in Range(stack)
        BY <2>1, <2>2, <3>4 DEF WillTell
      <4>2. WillTell(f, c)
        BY <3>3, <3>4 DEF WillTell
      <4> QED
        BY <3>1, <3>4, <4>1, <4>2 DEF Unheard
    <3> QED
      BY <3>2, <3>4 DEF Unheard
  <2> QED
    BY <2>3, <2>4
<1> QED
  BY <1>1, <1>2, <1>3

\* What is announced is news to everybody: whoever is greeted has heard the
\* announcement before this one, and they alternate.
LEMMA AnnounceUnheard ==
  ASSUME TypeOK, Nested(stack), Knowing, AnnounceStep, announced # Top.up
  PROVE  Unheard'
<1>1. ~Idle /\ Top.op = "announce"
  BY DEF AnnounceStep, Running
<1>2. Top.up \in BOOLEAN
  BY <1>1, TopFrame, FrameOfAnnounce DEF TypeOK
<1>3. announced' = Top.up /\ UNCHANGED <<greeted, told>>
  BY DEF AnnounceStep, clientVars
<1>4. \A f \in Range(stack) : ~Newsy(f)
  <2>1. Range(stack) = {Top} \cup Range(Tail(stack))
    BY <1>1, RunningStack, TailRange
  <2>2. \A g \in Range(Tail(stack)) : Nests(Top, g)
    BY <1>1, NestedUnderTop
  <2> QED
    BY <1>1, <2>1, <2>2 DEF Nests, Newsy, Telling
<1>5. \A c \in greeted : told[c] = Word(announced)
  BY <1>4 DEF Knowing, Informed, WillTell
<1>6. Word(announced) # Word(announced)'
  BY <1>2, <1>3 DEF Word, TypeOK
<1>7. ASSUME NEW c \in greeted', told'[c] = Word(announced)'
      PROVE  FALSE
  BY <1>3, <1>5, <1>6, <1>7
<1> QED
  BY <1>7 DEF Unheard

\* A broadcast goes on: whom the rest of it reaches was to be reached before,
\* and one who has heard just now is in nobody's rest.
LEMMA UnheardTold ==
  ASSUME TypeOK, Unheard, ~Idle, UNCHANGED <<greeted, announced, conns>>,
         NEW a, IsList(a), Call(a),
         \A f \in Range(a), c \in greeted : WillTell(f, c) => WillTell(Top, c),
         \A c \in greeted : told'[c] = told[c] \/ \A f \in Range(stack)' : ~WillTell(f, c)
  PROVE  Unheard'
<1>1. /\ Range(stack)' = Range(a) \cup Range(Tail(stack))
      /\ Range(stack) = {Top} \cup Range(Tail(stack))
  BY CallRange
<1>2. \A f, c : WillTell(f, c)' = WillTell(f, c)
  BY DEF WillTell
<1>3. ASSUME NEW c \in greeted, told'[c] = Word(announced), NEW f \in Range(stack)',
             WillTell(f, c)
      PROVE  FALSE
  <2>1. told[c] = Word(announced)
    BY <1>3
  <2>2. \A g \in Range(stack) : ~WillTell(g, c)
    BY <2>1 DEF Unheard
  <2>3. CASE f \in Range(a)
    BY <1>1, <1>3, <2>2, <2>3
  <2>4. CASE f \in Range(Tail(stack))
    BY <1>1, <1>3, <2>2, <2>4
  <2> QED
    BY <1>1, <2>3, <2>4
<1> QED
  BY <1>2, <1>3 DEF Unheard

LEMMA TellWsUnheard ==
  ASSUME TypeOK, Unheard, TellWs
  PROVE  Unheard'
<1>1. /\ ~Idle /\ Top.op = "tell" /\ Top.s \in WsServers
      /\ UNCHANGED <<greeted, announced, conns, told>>
  BY DEF TellWs, Running, clientVars, portVars
<1> DEFINE f == Cast(Top.s, Top.msg, Audience(Top.s, Top.msg))
           a == <<f>>
<1>2. Call(a)
  BY DEF TellWs
<1>3. f.op = "cast" /\ f.msg = Top.msg /\ f.left = Audience(Top.s, Top.msg)
  BY DEF Cast
<1> HIDE DEF f
<1>4. IsList(a) /\ Range(a) = {f}
  BY ListTuples, TupleRanges
<1> HIDE DEF a
<1>5. \A c \in greeted : WillTell(f, c) => WillTell(Top, c)
  BY <1>1, <1>3 DEF WillTell, Newsy, Audience, Telling
<1> QED
  BY <1>1, <1>2, <1>4, <1>5, UnheardTold

\* No other broadcast under this one reaches a client of its endpoint.
LEMMA NoOtherCast ==
  ASSUME TypeOK, Nested(stack), Single, Casting, ~Idle, Top.op = "cast", Newsy(Top),
         NEW x \in Top.left, NEW f \in Range(Tail(stack))
  PROVE  ~WillTell(f, x)
<1>1. Range(stack) = {Top} \cup Range(Tail(stack)) /\ Nests(Top, f)
  BY RunningStack, TailRange, NestedUnderTop
<1>2. Top \in Frames /\ f \in Frames
  <2>1. \A g \in Range(stack) : g \in Frames
    BY ElementOfSeq, LenProperties DEF TypeOK, Range
  <2> QED
    BY <1>1, <2>1
<1>3. Top.s \in WsServers /\ x \in conns[Top.s]
  BY <1>1, <1>2, FrameOfCast DEF Casting
<1>4. ASSUME WillTell(f, x) PROVE FALSE
  <2>1. f.s \in WsServers /\ x \in conns[f.s]
    BY <1>1, <1>2, <1>4, FrameOfCast DEF WillTell, Casting
  <2>2. f.s # Top.s
    BY <1>1, <1>4 DEF WillTell, Newsy, Nests
  <2> QED
    BY <1>3, <2>1, <2>2 DEF Single
<1> QED
  BY <1>4

LEMMA CastUnheard ==
  ASSUME TypeOK, Nested(stack), Single, Casting, Unheard, ~SendRaises, ~PairFails, CastStep
  PROVE  Unheard'
<1>1. ~Idle /\ Top.op = "cast" /\ UNCHANGED <<greeted, announced, conns>>
  BY DEF CastStep, Running, portVars
<1>2. CASE Top.left = {} /\ Return /\ UNCHANGED told
  <2>1. IsList(<<>>) /\ Range(<<>>) = {} /\ Call(<<>>)
    BY <1>2, ListTuples, TupleRanges DEF Return
  <2> QED
    BY <1>1, <1>2, <2>1, UnheardTold
<1>3. ASSUME NEW x \in Top.left,
             Call(<<Cast(Top.s, Top.msg, Top.left \ {x})>>),
             \/ x \notin greeted /\ UNCHANGED told
             \/ told' = Heard(x, Top.msg)
      PROVE  Unheard'
  <2> DEFINE f == Cast(Top.s, Top.msg, Top.left \ {x})
             a == <<f>>
  <2>1. Call(a)
    BY <1>3
  <2>2. f.op = "cast" /\ f.msg = Top.msg /\ f.left = Top.left \ {x}
    BY DEF Cast
  <2> HIDE DEF f
  <2>3. IsList(a) /\ Range(a) = {f}
    BY ListTuples, TupleRanges
  <2> HIDE DEF a
  <2>4. Range(stack)' = Range(a) \cup Range(Tail(stack))
    BY <1>1, <2>1, <2>3, CallRange
  <2>5. \A c \in greeted : WillTell(f, c) => WillTell(Top, c)
    BY <1>1, <2>2 DEF WillTell, Newsy
  <2>6. ~WillTell(f, x)
    BY <2>2 DEF WillTell
  <2>7. ASSUME NEW c \in greeted, told'[c] # told[c]
        PROVE  \A g \in Range(stack)' : ~WillTell(g, c)
    <3>1. c = x /\ Top.msg # "data"
      BY <1>3, <2>7 DEF Heard, TypeOK
    <3>2. Newsy(Top)
      BY <1>1, <3>1 DEF Newsy, Telling
    <3>3. \A g \in Range(Tail(stack)) : ~WillTell(g, x)
      BY <1>1, <3>2, NoOtherCast
    <3> QED
      BY <2>3, <2>4, <2>6, <3>1, <3>3
  <2> QED
    BY <1>1, <2>1, <2>3, <2>5, <2>7, UnheardTold
<1> QED
  BY <1>2, <1>3 DEF CastStep, SendFails

LEMMA StepSparing ==
  ASSUME TypeOK, Nested(stack), Knowing, Sparing, ~SendRaises, ~PairFails, Step
  PROVE  Sparing'
<1>1. Single'
  <2>1. \A s \in WsServers : conns'[s] \subseteq conns[s]
    BY StepSingle
  <2> QED
    BY <2>1 DEF Sparing, Single
<1>2. Casting'
  BY StepCasting DEF Sparing
<1>3. Unheard'
  <2>1. Untold \/ (AnnounceStep /\ announced # Top.up) \/ TellWs \/ CastStep
    BY DEF Step, Untold, ConnectRaises
  <2> QED
    BY <2>1, UntoldUnheard, AnnounceUnheard, TellWsUnheard, CastUnheard DEF Sparing
<1> QED
  BY <1>1, <1>2, <1>3 DEF Sparing

LEMMA EventSparing ==
  ASSUME TypeOK, Once, Sparing, Tick \/ Event
  PROVE  Sparing'
<1>1. \A f \in Range(stack)' : ~Newsy(f)
  BY Begins
<1>2. Casting' /\ Unheard'
  BY <1>1, Silent DEF Casting, Newsy
<1>3. Single'
  <2>1. CASE \E s \in WsServers, c \in WsClients : WsArrives(s, c)
    <3>1. PICK s \in WsServers : \E c \in WsClients : WsArrives(s, c)
      BY <2>1
    <3>2. PICK c \in WsClients : WsArrives(s, c)
      BY <3>1
    <3>3. \A t \in WsServers : c \notin conns[t]
      BY <3>2 DEF WsArrives, Known, Servers
    <3>4. \A t \in WsServers : conns'[t] = IF t = s THEN conns[s] \cup {c} ELSE conns[t]
      BY <3>2 DEF WsArrives, TypeOK, Servers
    <3> QED
      BY <3>3, <3>4 DEF Sparing, Single
  <2>2. CASE \E s \in SocketServers, c \in SocketClients : TlsArrives(s, c)
    <3>1. \A t \in WsServers : conns'[t] = conns[t]
      BY <2>2, SerialPortAssumption DEF TlsArrives, TypeOK, Servers, SerialPortAssumption
    <3> QED
      BY <3>1 DEF Sparing, Single
  <2>3. CASE UNCHANGED conns
    BY <2>3 DEF Sparing, Single
  <2>4. \/ \E s \in WsServers, c \in WsClients : WsArrives(s, c)
        \/ \E s \in SocketServers, c \in SocketClients : TlsArrives(s, c)
        \/ UNCHANGED conns
    BY DEF Event, Tick, WsAttaches, WsDetaches, WsDropped, SocketArrives,
         TlsReady, SocketLeaves, TlsRefused, WsDies, Reconcile, DeviceFails, DeviceData,
         Plug, IntervalPasses, Close, clientVars, portVars
  <2> QED
    BY <2>1, <2>2, <2>3, <2>4
<1> QED
  BY <1>2, <1>3 DEF Sparing

LEMMA NextSparing ==
  ASSUME TypeOK, Once, Nested(stack), Knowing, Sparing, ~SendRaises, ~PairFails, [Next]_vars
  PROVE  Sparing'
<1>1. CASE UNCHANGED vars
  <2>1. UNCHANGED <<stack, conns, greeted, told, announced>>
    BY <1>1 DEF vars, clientVars, portVars
  <2>2. \A f, c : WillTell(f, c) => WillTell(f, c)'
    BY <2>1 DEF WillTell
  <2>3. Single' /\ Casting'
    BY <2>1 DEF Sparing, Single, Casting, Newsy
  <2>4. Unheard'
    BY <2>1 DEF Sparing, Unheard, WillTell
  <2> QED
    BY <2>3, <2>4 DEF Sparing
<1> QED
  BY <1>1, StepSparing, EventSparing DEF Next

LEMMA InitSparing ==
  ASSUME Init
  PROVE  Sparing
<1>1. stack = <<>> /\ greeted = {} /\ \A s \in WsServers : conns[s] = {}
  BY DEF Init, Servers
<1>2. Range(stack) = {}
  BY <1>1, TupleRanges
<1> QED
  BY <1>1, <1>2 DEF Sparing, Single, Casting, Unheard

\* As long as no send and no connect() raises, no client is told about the
\* device what it knows already: a broadcast that reaches it, however deeply it
\* nests, is news.
THEOREM NobodyIsToldTwice ==
  ASSUME ~SendRaises, ~PairFails
  PROVE  Spec => NewsOnly
<1> DEFINE All == Inv /\ Places /\ Once /\ Nested(stack) /\ Knowing /\ Sparing
           IsNews == \A c \in greeted :
             Running("cast") /\ Top.msg # "data" /\ c \in Top.left
               /\ stack' = <<Cast(Top.s, Top.msg, Top.left \ {c})>> \o Tail(stack)
             => told[c] # Top.msg
<1>1. ASSUME Init PROVE All
  BY <1>1, InitInv, InitPlaces, InitOnce, InitKnowing, InitSparing
<1>2. ASSUME All, [Next]_vars PROVE All'
  <2>1. TypeOK
    BY <1>2 DEF Inv
  <2> QED
    BY <1>2, <2>1, NextInv, NextPlaces, NextOnce, NextKnowing, NextSparing
<1>3. ASSUME All PROVE IsNews
  <2>1. ASSUME NEW c \in greeted, Running("cast"), Top.msg # "data", c \in Top.left
        PROVE  told[c] # Top.msg
    <3>1. Top \in Range(stack)
      BY <1>3, <2>1, RunningStack, TailRange DEF Running, Inv
    <3>2. Newsy(Top) /\ WillTell(Top, c)
      BY <2>1 DEF Running, Newsy, Telling, WillTell
    <3>3. Top.msg = Word(announced)
      BY <1>3, <3>1, <3>2 DEF Knowing, News
    <3> QED
      BY <1>3, <3>1, <3>2, <3>3 DEF Sparing, Unheard
  <2> QED
    BY <2>1
<1>4. Init => All
  BY <1>1
<1>5. All /\ [Next]_vars => All'
  BY <1>2
<1>6. All => IsNews
  BY <1>3
<1> HIDE DEF All
<1>7. Spec => [][IsNews]_vars
  BY <1>4, <1>5, <1>6, PTL DEF Spec
<1> QED
  BY <1>7 DEF NewsOnly
==============================================================================
