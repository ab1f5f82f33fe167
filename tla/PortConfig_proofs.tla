-------------------------- MODULE PortConfig_proofs --------------------------
(***************************************************************************)
(* That configuration and running objects stay paired by position, for any *)
(* number of entries, any requests, any file, and whatever fails to start, *)
(* to be put back or to be written; and what rests on the pairing. Then    *)
(* that ids are distinct, and that a restart gives them again.             *)
(*                                                                         *)
(* What is proved of lists below serves two components more, whose proofs  *)
(* follow: the status stream, which reports lists of ports, and the        *)
(* monitor, which walks over a list of clients.                            *)
(***************************************************************************)
EXTENDS PortConfig, StatusStream, MonitorPeers, SequenceTheorems, FiniteSetTheorems, TLAPS

-----------------------------------------------------------------------------
(***************************************************************************)
(* Lists, of whatever                                                      *)
(***************************************************************************)
IsList(s) == \E S : s \in Seq(S)

LEMMA ListLength ==
  ASSUME NEW s, IsList(s)
  PROVE  Len(s) \in Nat /\ DOMAIN s = 1 .. Len(s)
BY LenProperties DEF IsList

LEMMA ListAppend ==
  ASSUME NEW s, IsList(s), NEW e
  PROVE  /\ IsList(Append(s, e))
         /\ Len(Append(s, e)) = Len(s) + 1
         /\ \A i \in 1 .. Len(s) : Append(s, e)[i] = s[i]
         /\ Append(s, e)[Len(s) + 1] = e
<1>1. PICK S : s \in Seq(S)
  BY DEF IsList
<1>2. s \in Seq(S \cup {e})
  BY <1>1, SeqMonotonic
<1> QED
  BY <1>2, AppendProperties DEF IsList

With(s, i, e) == [s EXCEPT ![i] = e]

LEMMA ListWith ==
  ASSUME NEW s, IsList(s), NEW i \in 1 .. Len(s), NEW e
  PROVE  /\ IsList(With(s, i, e)) /\ Len(With(s, i, e)) = Len(s)
         /\ \A j \in 1 .. Len(s) : With(s, i, e)[j] = IF j = i THEN e ELSE s[j]
<1>1. PICK S : s \in Seq(S)
  BY DEF IsList
<1>2. s \in Seq(S \cup {e})
  BY <1>1, SeqMonotonic
<1> QED
  BY <1>2, ExceptSeq DEF IsList, With

LEMMA ListPart ==
  ASSUME NEW s, NEW m \in Int, NEW n \in Int
  PROVE  /\ IsList(SubSeq(s, m, n))
         /\ Len(SubSeq(s, m, n)) = IF m <= n THEN n - m + 1 ELSE 0
         /\ \A i \in 1 .. n - m + 1 : SubSeq(s, m, n)[i] = s[m + i - 1]
<1> DEFINE S == {s[i] : i \in m .. n}
<1>1. \A i \in m .. n : s[i] \in S
  OBVIOUS
<1> HIDE DEF S
<1>2. /\ SubSeq(s, m, n) \in Seq(S)
      /\ Len(SubSeq(s, m, n)) = IF m <= n THEN n - m + 1 ELSE 0
      /\ \A i \in 1 .. n - m + 1 : SubSeq(s, m, n)[i] = s[m + i - 1]
  BY <1>1, SubSeqProperties
<1> QED
  BY <1>2 DEF IsList

LEMMA ListConcat ==
  ASSUME NEW s, IsList(s), NEW t, IsList(t)
  PROVE  /\ IsList(s \o t)
         /\ Len(s \o t) = Len(s) + Len(t)
         /\ \A i \in 1 .. Len(s) + Len(t) :
               (s \o t)[i] = IF i <= Len(s) THEN s[i] ELSE t[i - Len(s)]
<1>1. PICK S, T : s \in Seq(S) /\ t \in Seq(T)
  BY DEF IsList
<1>2. s \in Seq(S \cup T) /\ t \in Seq(S \cup T)
  BY <1>1, SeqMonotonic
<1> QED
  BY <1>2, ConcatProperties DEF IsList

\* A list without its i-th element.
LEMMA ListRemove ==
  ASSUME NEW s, IsList(s), NEW i \in 1 .. Len(s)
  PROVE  /\ IsList(RemoveAt(s, i))
         /\ Len(RemoveAt(s, i)) = Len(s) - 1
         /\ \A j \in 1 .. Len(s) - 1 : RemoveAt(s, i)[j] = IF j < i THEN s[j] ELSE s[j + 1]
<1> DEFINE a == SubSeq(s, 1, i - 1)
           b == SubSeq(s, i + 1, Len(s))
<1>1. Len(s) \in Nat
  BY ListLength
<1>2. /\ IsList(a) /\ Len(a) = i - 1
      /\ \A j \in 1 .. i - 1 : a[j] = s[j]
  BY <1>1, ListPart
<1>3. /\ IsList(b) /\ Len(b) = Len(s) - i
      /\ \A j \in 1 .. Len(s) - i : b[j] = s[i + j]
  BY <1>1, ListPart
<1>4. RemoveAt(s, i) = a \o b
  BY DEF RemoveAt
<1> HIDE DEF a, b
<1>5. /\ IsList(a \o b) /\ Len(a \o b) = Len(s) - 1
      /\ \A j \in 1 .. Len(s) - 1 : (a \o b)[j] = IF j <= i - 1 THEN a[j] ELSE b[j - (i - 1)]
  <2>1. Len(a) + Len(b) = Len(s) - 1
    BY <1>1, <1>2, <1>3
  <2>2. /\ IsList(a \o b) /\ Len(a \o b) = Len(a) + Len(b)
        /\ \A j \in 1 .. Len(a) + Len(b) :
              (a \o b)[j] = IF j <= Len(a) THEN a[j] ELSE b[j - Len(a)]
    BY <1>2, <1>3, ListConcat
  <2> QED
    BY <2>1, <2>2, <1>2
<1>6. ASSUME NEW j \in 1 .. Len(s) - 1
      PROVE  (a \o b)[j] = IF j < i THEN s[j] ELSE s[j + 1]
  <2>1. CASE j < i
    BY <2>1, <1>1, <1>2, <1>5
  <2>2. CASE ~(j < i)
    <3>1. j - (i - 1) \in 1 .. Len(s) - i /\ i + (j - (i - 1)) = j + 1
      BY <2>2, <1>1
    <3>2. (a \o b)[j] = b[j - (i - 1)]
      BY <2>2, <1>1, <1>5
    <3> QED
      BY <2>2, <3>1, <3>2, <1>3
  <2> QED
    BY <2>1, <2>2
<1> QED
  BY <1>4, <1>5, <1>6

\* A list with another element put at the i-th place.
LEMMA ListInsert ==
  ASSUME NEW s, IsList(s), NEW i \in 1 .. Len(s) + 1, NEW e
  PROVE  /\ IsList(InsertAt(s, i, e))
         /\ Len(InsertAt(s, i, e)) = Len(s) + 1
         /\ \A j \in 1 .. Len(s) + 1 :
               InsertAt(s, i, e)[j] = IF j < i THEN s[j] ELSE IF j = i THEN e ELSE s[j - 1]
<1> DEFINE a == SubSeq(s, 1, i - 1)
           b == SubSeq(s, i, Len(s))
           c == a \o <<e>>
<1>1. Len(s) \in Nat
  BY ListLength
<1>2. /\ IsList(a) /\ Len(a) = i - 1
      /\ \A j \in 1 .. i - 1 : a[j] = s[j]
  BY <1>1, ListPart
<1>3. /\ IsList(b) /\ Len(b) = Len(s) - i + 1
      /\ \A j \in 1 .. Len(s) - i + 1 : b[j] = s[i + j - 1]
  BY <1>1, ListPart
<1>4. IsList(<<e>>) /\ Len(<<e>>) = 1 /\ <<e>>[1] = e
  <2>1. <<e>> \in Seq({e})
    OBVIOUS
  <2> QED
    BY <2>1 DEF IsList
<1>5. InsertAt(s, i, e) = c \o b
  BY DEF InsertAt
<1> HIDE DEF a, b
<1>6. /\ IsList(c) /\ Len(c) = i
      /\ \A j \in 1 .. i : c[j] = IF j <= i - 1 THEN s[j] ELSE e
  <2>1. /\ IsList(c) /\ Len(c) = i
        /\ \A j \in 1 .. i : c[j] = IF j <= i - 1 THEN a[j] ELSE <<e>>[j - (i - 1)]
    BY <1>1, <1>2, <1>4, ListConcat
  <2>2. \A j \in 1 .. i : ~(j <= i - 1) => j - (i - 1) = 1
    BY <1>1
  <2> HIDE DEF c
  <2> QED
    BY <1>1, <1>2, <1>4, <2>1, <2>2
<1> HIDE DEF c
<1>7. /\ IsList(c \o b) /\ Len(c \o b) = Len(s) + 1
      /\ \A j \in 1 .. Len(s) + 1 : (c \o b)[j] = IF j <= i THEN c[j] ELSE b[j - i]
  <2>1. Len(c) + Len(b) = Len(s) + 1
    BY <1>1, <1>3, <1>6
  <2>2. /\ IsList(c \o b) /\ Len(c \o b) = Len(c) + Len(b)
        /\ \A j \in 1 .. Len(c) + Len(b) :
              (c \o b)[j] = IF j <= Len(c) THEN c[j] ELSE b[j - Len(c)]
    BY <1>3, <1>6, ListConcat
  <2> QED
    BY <2>1, <2>2, <1>6
<1>8. ASSUME NEW j \in 1 .. Len(s) + 1
      PROVE  (c \o b)[j] = IF j < i THEN s[j] ELSE IF j = i THEN e ELSE s[j - 1]
  <2>1. CASE j <= i
    BY <2>1, <1>1, <1>6, <1>7
  <2>2. CASE ~(j <= i)
    <3>1. j - i \in 1 .. Len(s) - i + 1 /\ i + (j - i) - 1 = j - 1
      BY <2>2, <1>1
    <3>2. (c \o b)[j] = b[j - i]
      BY <2>2, <1>1, <1>7
    <3> QED
      BY <2>2, <3>1, <3>2, <1>3
  <2> QED
    BY <2>1, <2>2
<1> QED
  BY <1>5, <1>7, <1>8

\* Another list of that length.
LEMMA ListOf ==
  ASSUME NEW n \in Nat, NEW f, f = [i \in 1 .. n |-> f[i]]
  PROVE  IsList(f) /\ Len(f) = n
<1> DEFINE S == {f[i] : i \in 1 .. n}
<1>1. f \in [1 .. n -> S]
  OBVIOUS
<1> HIDE DEF S
<1>2. f \in Seq(S) /\ Len(f) = n
  BY <1>1
<1> QED
  BY <1>2 DEF IsList

\* Where an element is after a move: the i-th at `at`, the others around it.
Before(at, i, j) ==
    IF j = at THEN i
    ELSE LET r == IF j < at THEN j ELSE j - 1 IN IF r < i THEN r ELSE r + 1

\* A move is a permutation of the places, the same for every list of length n.
IsMove(n, i, j, after, at) ==
    /\ \A s : IsList(s) /\ Len(s) = n =>
          /\ IsList(Moved(s, i, j, after)) /\ Len(Moved(s, i, j, after)) = n
          /\ \A x \in 1 .. n : /\ Before(at, i, x) \in 1 .. n
                              /\ Moved(s, i, j, after)[x] = s[Before(at, i, x)]
    /\ \A y \in 1 .. n : \E x \in 1 .. n : Before(at, i, x) = y

LEMMA ListMoved ==
  ASSUME NEW n \in Nat, NEW i \in 1 .. n, NEW j \in 1 .. n, i # j, NEW after \in BOOLEAN
  PROVE  \E at \in 1 .. n : IsMove(n, i, j, after, at)
<1> DEFINE at == (IF j > i THEN j - 1 ELSE j) + (IF after THEN 1 ELSE 0)
<1>1. at \in 1 .. n
  OBVIOUS
<1>2. ASSUME NEW s, IsList(s), Len(s) = n
      PROVE  /\ IsList(Moved(s, i, j, after)) /\ Len(Moved(s, i, j, after)) = n
             /\ \A x \in 1 .. n : /\ Before(at, i, x) \in 1 .. n
                                 /\ Moved(s, i, j, after)[x] = s[Before(at, i, x)]
  <2> DEFINE rest == RemoveAt(s, i)
  <2>1. Moved(s, i, j, after) = InsertAt(rest, at, s[i])
    BY DEF Moved
  <2>2. /\ IsList(rest) /\ Len(rest) = n - 1
        /\ \A x \in 1 .. n - 1 : rest[x] = IF x < i THEN s[x] ELSE s[x + 1]
    BY <1>2, ListRemove
  <2> HIDE DEF rest, at
  <2>3. at \in 1 .. Len(rest) + 1 /\ Len(rest) + 1 = n
    BY <1>1, <2>2
  <2>4. /\ IsList(InsertAt(rest, at, s[i])) /\ Len(InsertAt(rest, at, s[i])) = n
        /\ \A x \in 1 .. n : InsertAt(rest, at, s[i])[x] =
              IF x < at THEN rest[x] ELSE IF x = at THEN s[i] ELSE rest[x - 1]
    <3>1. PICK r, e, k, t : r = rest /\ e = s[i] /\ k = at /\ t = InsertAt(r, k, e)
      OBVIOUS
    <3>2. IsList(r) /\ Len(r) + 1 = n /\ k \in 1 .. Len(r) + 1
      BY <2>2, <2>3, <3>1
    <3>3. /\ IsList(t) /\ Len(t) = Len(r) + 1
          /\ \A x \in 1 .. Len(r) + 1 :
                t[x] = IF x < k THEN r[x] ELSE IF x = k THEN e ELSE r[x - 1]
      BY <3>1, <3>2, ListInsert
    <3> QED
      BY <3>1, <3>2, <3>3
  <2>5. ASSUME NEW x \in 1 .. n
        PROVE  /\ Before(at, i, x) \in 1 .. n
               /\ InsertAt(rest, at, s[i])[x] = s[Before(at, i, x)]
    <3>1. CASE x < at
      <4>1. x \in 1 .. n - 1
        BY <3>1, <1>1
      <4> QED
        BY <3>1, <4>1, <1>1, <2>2, <2>4 DEF Before
    <3>2. CASE x = at
      BY <3>2, <1>1, <2>4 DEF Before
    <3>3. CASE x > at
      <4>1. x - 1 \in 1 .. n - 1
        BY <3>3, <1>1
      <4> QED
        BY <3>3, <4>1, <1>1, <2>2, <2>4 DEF Before
    <3> QED
      BY <3>1, <3>2, <3>3, <1>1
  <2> QED
    BY <2>1, <2>4, <2>5
<1> HIDE DEF at
<1>3. ASSUME NEW y \in 1 .. n
      PROVE  \E x \in 1 .. n : Before(at, i, x) = y
  <2>1. CASE y = i
    BY <2>1, <1>1 DEF Before
  <2>2. CASE y # i
    <3> DEFINE r == IF y < i THEN y ELSE y - 1
               x == IF r < at THEN r ELSE r + 1
    <3>1. x \in 1 .. n /\ Before(at, i, x) = y
      BY <2>2, <1>1 DEF Before
    <3> QED
      BY <3>1
  <2> QED
    BY <2>1, <2>2
<1> QED
  BY <1>1, <1>2, <1>3 DEF IsMove

-----------------------------------------------------------------------------
(***************************************************************************)
(* Entries and objects in pairs                                            *)
(***************************************************************************)
IsEntry(e) == e = [id |-> e.id, core |-> e.core, rest |-> e.rest]
IsObject(o) == o = [entry |-> o.entry, state |-> o.state, driven |-> o.driven, tag |-> o.tag]

Pair(k, o, e) ==
    /\ IsObject(o) /\ IsEntry(e)
    /\ IF k = "ports" THEN o.entry = e ELSE o.entry.core = e.core

Pairs(k, objects, entries) ==
    /\ IsList(objects) /\ IsList(entries) /\ Len(objects) = Len(entries)
    /\ \A i \in 1 .. Len(entries) : Pair(k, objects[i], entries[i])

LEMMA PairsNone ==
  ASSUME NEW k
  PROVE  Pairs(k, <<>>, <<>>)
BY EmptySeq DEF Pairs, IsList

LEMMA PairsAppend ==
  ASSUME NEW k, NEW os, NEW es, Pairs(k, os, es), NEW o, NEW e, Pair(k, o, e)
  PROVE  Pairs(k, Append(os, o), Append(es, e))
<1>1. IsList(os) /\ IsList(es) /\ Len(es) \in Nat /\ Len(os) = Len(es)
  BY ListLength DEF Pairs
<1>2. /\ IsList(Append(os, o)) /\ Len(Append(os, o)) = Len(es) + 1
      /\ Append(os, o)[Len(es) + 1] = o
      /\ \A i \in 1 .. Len(es) : Append(os, o)[i] = os[i]
  BY <1>1, ListAppend
<1>3. /\ IsList(Append(es, e)) /\ Len(Append(es, e)) = Len(es) + 1
      /\ Append(es, e)[Len(es) + 1] = e
      /\ \A i \in 1 .. Len(es) : Append(es, e)[i] = es[i]
  BY <1>1, ListAppend
<1>4. ASSUME NEW i \in 1 .. Len(es) + 1
      PROVE  Pair(k, Append(os, o)[i], Append(es, e)[i])
  <2>1. CASE i = Len(es) + 1
    BY <2>1, <1>2, <1>3
  <2>2. CASE i # Len(es) + 1
    <3>1. i \in 1 .. Len(es)
      BY <2>2, <1>1
    <3> QED
      BY <3>1, <1>2, <1>3 DEF Pairs
  <2> QED
    BY <2>1, <2>2
<1> QED
  BY <1>2, <1>3, <1>4 DEF Pairs

LEMMA PairsWith ==
  ASSUME NEW k, NEW os, NEW es, Pairs(k, os, es), NEW i, i \in DOMAIN es,
         NEW o, NEW e, Pair(k, o, e)
  PROVE  Pairs(k, With(os, i, o), With(es, i, e))
<1>1. /\ IsList(os) /\ IsList(es) /\ Len(os) = Len(es)
      /\ i \in 1 .. Len(es) /\ i \in 1 .. Len(os)
  BY ListLength DEF Pairs
<1>2. /\ IsList(With(os, i, o)) /\ Len(With(os, i, o)) = Len(os)
      /\ \A j \in 1 .. Len(os) : With(os, i, o)[j] = IF j = i THEN o ELSE os[j]
  BY <1>1, ListWith
<1>3. /\ IsList(With(es, i, e)) /\ Len(With(es, i, e)) = Len(es)
      /\ \A j \in 1 .. Len(es) : With(es, i, e)[j] = IF j = i THEN e ELSE es[j]
  BY <1>1, ListWith
<1>4. \A j \in 1 .. Len(es) : Pair(k, With(os, i, o)[j], With(es, i, e)[j])
  BY <1>1, <1>2, <1>3 DEF Pairs
<1> QED
  BY <1>1, <1>2, <1>3, <1>4 DEF Pairs

\* One side alone, if it stays the pair of the other.
LEMMA WithSame ==
  ASSUME NEW s, IsList(s), NEW i
  PROVE  With(s, i, s[i]) = s
<1>1. PICK S : s \in Seq(S)
  BY DEF IsList
<1> QED
  BY <1>1 DEF With

LEMMA PairsOther ==
  ASSUME NEW k, NEW os, NEW es, Pairs(k, os, es), NEW i, i \in DOMAIN es, NEW o, Pair(k, o, es[i])
  PROVE  Pairs(k, With(os, i, o), es)
<1>1. With(es, i, es[i]) = es
  BY WithSame DEF Pairs
<1>2. Pairs(k, With(os, i, o), With(es, i, es[i]))
  BY PairsWith
<1> QED
  BY <1>1, <1>2

LEMMA PairsThis ==
  ASSUME NEW k, NEW os, NEW es, Pairs(k, os, es), NEW i, i \in DOMAIN es, NEW e, Pair(k, os[i], e)
  PROVE  Pairs(k, os, With(es, i, e))
<1>1. With(os, i, os[i]) = os
  BY WithSame DEF Pairs
<1>2. Pairs(k, With(os, i, os[i]), With(es, i, e))
  BY PairsWith
<1> QED
  BY <1>1, <1>2

LEMMA PairsRemove ==
  ASSUME NEW k, NEW os, NEW es, Pairs(k, os, es), NEW i \in DOMAIN es
  PROVE  Pairs(k, RemoveAt(os, i), RemoveAt(es, i))
<1>1. IsList(os) /\ IsList(es) /\ Len(es) \in Nat /\ Len(os) = Len(es) /\ i \in 1 .. Len(es)
  BY ListLength DEF Pairs
<1>2. /\ IsList(RemoveAt(os, i)) /\ Len(RemoveAt(os, i)) = Len(es) - 1
      /\ \A j \in 1 .. Len(es) - 1 : RemoveAt(os, i)[j] = IF j < i THEN os[j] ELSE os[j + 1]
  BY <1>1, ListRemove
<1>3. /\ IsList(RemoveAt(es, i)) /\ Len(RemoveAt(es, i)) = Len(es) - 1
      /\ \A j \in 1 .. Len(es) - 1 : RemoveAt(es, i)[j] = IF j < i THEN es[j] ELSE es[j + 1]
  BY <1>1, ListRemove
<1>4. ASSUME NEW j \in 1 .. Len(es) - 1
      PROVE  Pair(k, RemoveAt(os, i)[j], RemoveAt(es, i)[j])
  <2>1. j \in 1 .. Len(es) /\ j + 1 \in 1 .. Len(es)
    BY <1>1
  <2>2. CASE j < i
    BY <2>1, <2>2, <1>2, <1>3 DEF Pairs
  <2>3. CASE ~(j < i)
    BY <2>1, <2>3, <1>2, <1>3 DEF Pairs
  <2> QED
    BY <2>2, <2>3
<1> QED
  BY <1>2, <1>3, <1>4 DEF Pairs

LEMMA PairsMove ==
  ASSUME NEW k, NEW os, NEW es, Pairs(k, os, es),
         NEW i \in DOMAIN es, NEW j \in DOMAIN es, i # j, NEW after \in BOOLEAN
  PROVE  Pairs(k, Moved(os, i, j, after), Moved(es, i, j, after))
<1>1. /\ IsList(os) /\ IsList(es) /\ Len(es) \in Nat /\ Len(os) = Len(es)
      /\ i \in 1 .. Len(es) /\ j \in 1 .. Len(es)
  BY ListLength DEF Pairs
<1>2. PICK n \in Nat : n = Len(es)
  BY <1>1
<1>3. n = Len(os) /\ i \in 1 .. n /\ j \in 1 .. n /\ i # j
  BY <1>1, <1>2
<1>4. PICK at \in 1 .. n : IsMove(n, i, j, after, at)
  BY <1>3, ListMoved
<1>5. /\ IsList(Moved(os, i, j, after)) /\ Len(Moved(os, i, j, after)) = n
      /\ \A x \in 1 .. n : Moved(os, i, j, after)[x] = os[Before(at, i, x)]
  BY <1>1, <1>3, <1>4 DEF IsMove
<1>6. /\ IsList(Moved(es, i, j, after)) /\ Len(Moved(es, i, j, after)) = n
      /\ \A x \in 1 .. n : /\ Before(at, i, x) \in 1 .. n
                          /\ Moved(es, i, j, after)[x] = es[Before(at, i, x)]
  BY <1>1, <1>2, <1>4 DEF IsMove
<1>7. \A x \in 1 .. n : Pair(k, os[x], es[x])
  BY <1>2 DEF Pairs
<1> QED
  BY <1>5, <1>6, <1>7 DEF Pairs

-----------------------------------------------------------------------------
(***************************************************************************)
(* Monitors and the ports they were built for                              *)
(***************************************************************************)
Monitored(ms, objects) ==
    \A m \in ms : \E i \in DOMAIN objects :
        objects[i].tag = m.tag /\ objects[i].entry.core = m.name

LEMMA WatchedAppend ==
  ASSUME NEW ms, NEW os, IsList(os), Monitored(ms, os), NEW o
  PROVE  Monitored(ms, Append(os, o))
<1>1. Len(os) \in Nat /\ DOMAIN os = 1 .. Len(os)
  BY ListLength
<1>2. /\ IsList(Append(os, o)) /\ Len(Append(os, o)) = Len(os) + 1
      /\ \A i \in 1 .. Len(os) : Append(os, o)[i] = os[i]
  BY ListAppend
<1>3. DOMAIN Append(os, o) = 1 .. Len(os) + 1
  BY <1>2, ListLength
<1>4. 1 .. Len(os) \subseteq 1 .. Len(os) + 1
  BY <1>1
<1> QED
  BY <1>1, <1>2, <1>3, <1>4 DEF Monitored

\* The object a monitor was built for may be replaced if nobody has its name.
LEMMA WatchedWith ==
  ASSUME NEW ms, NEW os, Monitored(ms, os), NEW i, NEW o,
         \/ \A m \in ms : m.name # os[i].entry.core
         \/ o.tag = os[i].tag /\ o.entry.core = os[i].entry.core
  PROVE  Monitored(ms, With(os, i, o))
<1> SUFFICES ASSUME NEW m \in ms
             PROVE  \E j \in DOMAIN With(os, i, o) : /\ With(os, i, o)[j].tag = m.tag
                                                     /\ With(os, i, o)[j].entry.core = m.name
  BY DEF Monitored
<1>1. PICK j \in DOMAIN os : os[j].tag = m.tag /\ os[j].entry.core = m.name
  BY DEF Monitored
<1>2. j \in DOMAIN With(os, i, o) /\ With(os, i, o)[j] = IF j = i THEN o ELSE os[j]
  BY DEF With
<1>3. CASE j = i
  BY <1>1, <1>2, <1>3
<1>4. CASE j # i
  BY <1>1, <1>2, <1>4
<1> QED
  BY <1>3, <1>4

LEMMA WatchedRemove ==
  ASSUME NEW ms, NEW os, IsList(os), Monitored(ms, os), NEW i, i \in DOMAIN os,
         \A m \in ms : m.name # os[i].entry.core
  PROVE  Monitored(ms, RemoveAt(os, i))
<1>1. Len(os) \in Nat /\ DOMAIN os = 1 .. Len(os)
  BY ListLength
<1>2. /\ IsList(RemoveAt(os, i)) /\ Len(RemoveAt(os, i)) = Len(os) - 1
      /\ \A j \in 1 .. Len(os) - 1 : RemoveAt(os, i)[j] = IF j < i THEN os[j] ELSE os[j + 1]
  BY <1>1, ListRemove
<1>3. DOMAIN RemoveAt(os, i) = 1 .. Len(os) - 1
  BY <1>2, ListLength
<1> SUFFICES ASSUME NEW m \in ms
             PROVE  \E j \in 1 .. Len(os) - 1 : /\ RemoveAt(os, i)[j].tag = m.tag
                                                /\ RemoveAt(os, i)[j].entry.core = m.name
  BY <1>3 DEF Monitored
<1>4. PICK j \in 1 .. Len(os) : os[j].tag = m.tag /\ os[j].entry.core = m.name
  BY <1>1 DEF Monitored
<1>5. j # i
  BY <1>4
<1>6. CASE j < i
  <2>1. j \in 1 .. Len(os) - 1
    BY <1>1, <1>6
  <2> QED
    BY <1>2, <1>4, <1>6, <2>1
<1>7. CASE j > i
  <2>1. /\ j - 1 \in 1 .. Len(os) - 1
        /\ ~(j - 1 < i) /\ (j - 1) + 1 = j
    BY <1>1, <1>7
  <2>2. RemoveAt(os, i)[j - 1] = os[j]
    BY <1>2, <2>1
  <2> QED
    BY <1>4, <2>1, <2>2
<1> QED
  BY <1>1, <1>5, <1>6, <1>7

LEMMA WatchedMove ==
  ASSUME NEW ms, NEW os, IsList(os), Monitored(ms, os),
         NEW i, i \in DOMAIN os, NEW j, j \in DOMAIN os, i # j, NEW after \in BOOLEAN
  PROVE  Monitored(ms, Moved(os, i, j, after))
<1>1. PICK n \in Nat : n = Len(os) /\ DOMAIN os = 1 .. n
  BY ListLength
<1>2. PICK at \in 1 .. n : IsMove(n, i, j, after, at)
  BY <1>1, ListMoved
<1>3. /\ IsList(Moved(os, i, j, after)) /\ Len(Moved(os, i, j, after)) = n
      /\ \A x \in 1 .. n : Moved(os, i, j, after)[x] = os[Before(at, i, x)]
  BY <1>1, <1>2 DEF IsMove
<1>4. DOMAIN Moved(os, i, j, after) = 1 .. n
  BY <1>3, ListLength
<1>5. ASSUME NEW m \in ms
      PROVE  \E x \in 1 .. n : /\ Moved(os, i, j, after)[x].tag = m.tag
                              /\ Moved(os, i, j, after)[x].entry.core = m.name
  <2>1. PICK y \in 1 .. n : os[y].tag = m.tag /\ os[y].entry.core = m.name
    BY <1>1 DEF Monitored
  <2>2. PICK x \in 1 .. n : Before(at, i, x) = y
    BY <1>2 DEF IsMove
  <2> QED
    BY <1>3, <2>1, <2>2
<1> QED
  BY <1>4, <1>5 DEF Monitored

-----------------------------------------------------------------------------
(***************************************************************************)
(* The invariant: what Paired says also of a process that does not run,    *)
(* where both lists are empty, and that whatever is in the file is a list  *)
(* of entries, so that Start pairs what it makes of it.                    *)
(***************************************************************************)
Entries(es) == IsList(es) /\ \A i \in 1 .. Len(es) : IsEntry(es[i])

AllPaired ==
    /\ config = [k \in Kinds |-> config[k]]
    /\ running = [k \in Kinds |-> running[k]]
    /\ \A k \in Kinds : Pairs(k, running[k], config[k])

FileOfEntries == disk # Broken => \A k \in Kinds : Entries(disk[k])

IInv ==
    /\ AllPaired
    /\ FileOfEntries
    /\ alive \/ monitors = {}
    /\ MonitorsWatchListed

LEMMA RequestsAreEntries ==
  ASSUME NEW k \in Kinds, NEW data \in Requests[k]
  PROVE  IsEntry(data)
BY PortConfigAssumption DEF PortConfigAssumption, Entry, Unidentified, IsEntry

LEMMA Renamed ==
  ASSUME NEW data, IsEntry(data), NEW id
  PROVE  /\ IsEntry([data EXCEPT !.id = id])
         /\ [data EXCEPT !.id = id].core = data.core
BY DEF IsEntry

LEMMA BuiltPairs ==
  ASSUME NEW k, NEW e, IsEntry(e), NEW tag
  PROVE  Pair(k, Built(e, tag), e) /\ Pair(k, Failed(e, tag), e)
BY DEF Pair, IsObject, Built, Failed

LEMMA StoppedPairs ==
  ASSUME NEW k, NEW o, NEW e, Pair(k, o, e)
  PROVE  Pair(k, Stopped(o), e)
<1>1. PICK entry, state, driven, tag :
        o = [entry |-> entry, state |-> state, driven |-> driven, tag |-> tag]
  BY DEF Pair, IsObject
<1>2. Stopped(o) = [entry |-> entry, state |-> IF state = "failed" THEN state ELSE "closed",
                    driven |-> FALSE, tag |-> tag]
  <2> DEFINE left == [o EXCEPT !.state = IF @ = "failed" THEN @ ELSE "closed"]
  <2>1. left = [entry |-> entry, state |-> IF state = "failed" THEN state ELSE "closed",
                driven |-> driven, tag |-> tag]
    BY <1>1
  <2>2. Stopped(o) = [left EXCEPT !.driven = FALSE]
    BY DEF Stopped
  <2> HIDE DEF left
  <2> QED
    BY <2>1, <2>2
<1>3. IsObject(Stopped(o)) /\ Stopped(o).entry = o.entry
  BY <1>1, <1>2 DEF IsObject
<1> QED
  BY <1>3 DEF Pair

\* What an action makes of the lists of one kind; the others stay.
Replaced(k, os, es) ==
    /\ running' = [x \in Kinds |-> IF x = k THEN os ELSE running[x]]
    /\ config' = [x \in Kinds |-> IF x = k THEN es ELSE config[x]]

\* What an action has to show of the list, or lists, it changes.
LEMMA PairedStep ==
  ASSUME AllPaired, NEW k \in Kinds, NEW os, NEW es, Pairs(k, os, es),
         Replaced(k, os, es)
  PROVE  AllPaired'
<1>1. ASSUME NEW x \in Kinds
      PROVE  Pairs(x, running'[x], config'[x])
  <2>1. CASE x = k
    BY <2>1 DEF Replaced
  <2>2. CASE x # k
    BY <2>2 DEF AllPaired, Replaced
  <2> QED
    BY <2>1, <2>2
<1>2. /\ config' = [x \in Kinds |-> config'[x]]
      /\ running' = [x \in Kinds |-> running'[x]]
  BY DEF Replaced
<1> QED
  BY <1>1, <1>2 DEF AllPaired

LEMMA SaveStep ==
  ASSUME FileOfEntries, AllPaired', Save
  PROVE  FileOfEntries'
<1>1. ASSUME NEW k \in Kinds
      PROVE  Entries(config'[k])
  BY DEF AllPaired, Pairs, Pair, Entries
<1>2. disk' = config' \/ disk' = disk \/ disk' = Broken
  BY DEF Save, Written
<1> QED
  BY <1>1, <1>2 DEF FileOfEntries

-----------------------------------------------------------------------------
(***************************************************************************)
(* Requests for ports                                                      *)
(***************************************************************************)
LEMMA PortsArePaired ==
  ASSUME IInv
  PROVE  /\ "ports" \in Kinds /\ "http" \in Kinds
         /\ Pairs("ports", running.ports, config.ports)
         /\ Monitored(monitors, running.ports)
         /\ IsList(running.ports) /\ DOMAIN running.ports = DOMAIN config.ports
         /\ \A i \in DOMAIN config.ports : Pair("ports", running.ports[i], config.ports[i])
<1>1. "ports" \in Kinds /\ "http" \in Kinds
  BY DEF Kinds
<1>2. Pairs("ports", running.ports, config.ports)
  BY <1>1 DEF IInv, AllPaired
<1> QED
  BY <1>1, <1>2, ListLength DEF IInv, MonitorsWatchListed, Monitored, Pairs

\* One port, and its configuration, replaced.
LEMMA PortStep ==
  ASSUME IInv, NEW i \in DOMAIN config.ports, NEW o, NEW e, Pair("ports", o, e),
         SetObject("ports", i, o), SetEntry("ports", i, e),
         monitors' \subseteq monitors,
         \/ \A m \in monitors' : m.name # running.ports[i].entry.core
         \/ o.tag = running.ports[i].tag /\ o.entry.core = running.ports[i].entry.core
  PROVE  AllPaired' /\ MonitorsWatchListed'
<1>1. Pairs("ports", With(running.ports, i, o), With(config.ports, i, e))
  BY PortsArePaired, PairsWith
<1>2. Replaced("ports", With(running.ports, i, o), With(config.ports, i, e))
  BY DEF IInv, AllPaired, SetObject, SetEntry, With, Replaced
<1>3. AllPaired'
  BY <1>1, <1>2, PairedStep, PortsArePaired DEF IInv
<1>4. Monitored(monitors', running.ports)
  BY PortsArePaired DEF Monitored
<1>5. Monitored(monitors', With(running.ports, i, o))
  BY <1>4, WatchedWith
<1>6. running'.ports = With(running.ports, i, o)
  BY <1>2, PortsArePaired DEF Replaced
<1> QED
  BY <1>3, <1>5, <1>6 DEF Monitored, MonitorsWatchListed

\* One port replaced, its configuration kept.
LEMMA PortOnlyStep ==
  ASSUME IInv, NEW i \in DOMAIN config.ports, NEW o, Pair("ports", o, config.ports[i]),
         SetObject("ports", i, o), UNCHANGED config,
         monitors' \subseteq monitors,
         \/ \A m \in monitors' : m.name # running.ports[i].entry.core
         \/ o.tag = running.ports[i].tag /\ o.entry.core = running.ports[i].entry.core
  PROVE  AllPaired' /\ MonitorsWatchListed'
<1>1. With(config.ports, i, config.ports[i]) = config.ports
  BY PortsArePaired, WithSame DEF Pairs
<1>2. SetEntry("ports", i, config.ports[i])
  BY <1>1, PortsArePaired DEF SetEntry, With, IInv, AllPaired
<1> QED
  BY <1>2, PortStep

LEMMA UpdateServersStep ==
  ASSUME IInv, NEW i \in DOMAIN config.ports, NEW e, IsEntry(e), ServersOnly(i, e),
         NEW starts, UpdateServers(i, e, starts)
  PROVE  AllPaired' /\ FileOfEntries' /\ MonitorsWatchListed'
<1> DEFINE old == running.ports[i]
<1>1. Pair("ports", old, config.ports[i])
  BY PortsArePaired
<1>2. e.core = old.entry.core
  BY <1>1 DEF ServersOnly, Pair, IsEntry
<1>3. CASE starts
  <2>1. PICK state :
          /\ SetObject("ports", i, [old EXCEPT !.entry = e, !.state = state])
          /\ SetEntry("ports", i, e) /\ Save /\ monitors' = monitors
    BY <1>3 DEF UpdateServers
  <2>2. PICK o : o = [old EXCEPT !.entry = e, !.state = state]
    OBVIOUS
  <2>3. Pair("ports", o, e) /\ o.tag = old.tag /\ o.entry.core = old.entry.core
    BY <1>1, <1>2, <2>2 DEF Pair, IsObject
  <2>4. AllPaired' /\ MonitorsWatchListed'
    BY <2>1, <2>2, <2>3, PortStep
  <2> QED
    BY <2>1, <2>4, SaveStep DEF IInv
<1>4. CASE ~starts
  <2>1. PICK o : o = [old EXCEPT !.state = "partly"]
    OBVIOUS
  <2>2. SetObject("ports", i, o) /\ UNCHANGED <<config, file>> /\ monitors' = monitors
    BY <1>4, <2>1 DEF UpdateServers
  <2>3. Pair("ports", o, config.ports[i]) /\ o.tag = old.tag /\ o.entry = old.entry
    BY <1>1, <2>1 DEF Pair, IsObject
  <2>4. AllPaired' /\ MonitorsWatchListed'
    BY <2>2, <2>3, PortOnlyStep
  <2> QED
    BY <2>2, <2>4 DEF IInv, FileOfEntries, file
<1> QED
  BY <1>3, <1>4

LEMMA RebuildPortStep ==
  ASSUME IInv, NEW i \in DOMAIN config.ports, NEW e, IsEntry(e),
         NEW starts, NEW restarts, RebuildPort(i, e, starts, restarts)
  PROVE  AllPaired' /\ FileOfEntries' /\ MonitorsWatchListed'
<1> DEFINE old == running.ports[i]
<1>1. Pair("ports", old, config.ports[i])
  BY PortsArePaired
<1>2. monitors' \subseteq monitors /\ \A m \in monitors' : m.name # old.entry.core
  BY DEF RebuildPort, DropMonitor
<1>3. CASE /\ SetObject("ports", i, Built(e, FreshTag))
           /\ SetEntry("ports", i, e)
           /\ Save
  <2>1. AllPaired' /\ MonitorsWatchListed'
    BY <1>2, <1>3, BuiltPairs, PortStep
  <2> QED
    BY <1>3, <2>1, SaveStep DEF IInv
<1>4. CASE /\ SetObject("ports", i, IF restarts THEN Built(old.entry, FreshTag) ELSE Stopped(old))
           /\ UNCHANGED <<config, file>>
  <2>1. Pair("ports", Built(old.entry, FreshTag), config.ports[i])
    BY <1>1, BuiltPairs DEF Pair
  <2>2. Pair("ports", Stopped(old), config.ports[i])
    BY <1>1, StoppedPairs
  <2>3. AllPaired' /\ MonitorsWatchListed'
    BY <1>2, <1>4, <2>1, <2>2, PortOnlyStep
  <2> QED
    BY <1>4, <2>3 DEF IInv, FileOfEntries, file
<1>5. CASE UNCHANGED <<config, running, file>>
  <2>1. MonitorsWatchListed'
    BY <1>2, <1>5 DEF IInv, MonitorsWatchListed
  <2> QED
    BY <1>5, <2>1 DEF IInv, AllPaired, FileOfEntries, file
<1> QED
  BY <1>3, <1>4, <1>5 DEF RebuildPort

LEMMA PortsUpdateStep ==
  ASSUME IInv, NEW i \in DOMAIN config.ports, NEW data, IsEntry(data), PortsUpdate(i, data)
  PROVE  IInv'
<1> DEFINE e == [data EXCEPT !.id = Claim(data, config.ports[i].id)]
<1>1. IsEntry(e)
  BY Renamed
<1>2. PICK starts, restarts \in Starting :
        IF ServersOnly(i, e) THEN UpdateServers(i, e, starts)
                             ELSE RebuildPort(i, e, starts, restarts)
  BY DEF PortsUpdate
<1>3. alive' = alive /\ alive
  BY DEF PortsUpdate, InList
<1> HIDE DEF e
<1>4. AllPaired' /\ FileOfEntries' /\ MonitorsWatchListed'
  BY <1>1, <1>2, UpdateServersStep, RebuildPortStep
<1> QED
  BY <1>3, <1>4 DEF IInv

LEMMA PortsAddStep ==
  ASSUME IInv, NEW data, IsEntry(data), PortsAdd(data)
  PROVE  IInv'
<1> DEFINE e == [data EXCEPT !.id = Claim(data, NoId)]
           o == Built(e, FreshTag)
<1>1. IsEntry(e)
  BY Renamed
<1>2. /\ running' = [running EXCEPT !.ports = Append(@, o)]
      /\ config' = [config EXCEPT !.ports = Append(@, e)]
      /\ Save /\ alive' = alive /\ alive /\ monitors' = monitors
  BY DEF PortsAdd
<1>3. Pair("ports", o, e)
  BY <1>1, BuiltPairs
<1> HIDE DEF e, o
<1>4. Pairs("ports", Append(running.ports, o), Append(config.ports, e))
  BY <1>3, PortsArePaired, PairsAppend
<1>5. Replaced("ports", Append(running.ports, o), Append(config.ports, e))
  BY <1>2 DEF IInv, AllPaired, Replaced
<1>6. AllPaired'
  BY <1>4, <1>5, PairedStep, PortsArePaired DEF IInv
<1>7. Monitored(monitors, Append(running.ports, o))
  BY PortsArePaired, WatchedAppend
<1>8. running'.ports = Append(running.ports, o)
  BY <1>5, PortsArePaired DEF Replaced
<1>9. MonitorsWatchListed'
  BY <1>2, <1>7, <1>8 DEF Monitored, MonitorsWatchListed
<1> QED
  BY <1>2, <1>6, <1>9, SaveStep DEF IInv

LEMMA PortsDeleteStep ==
  ASSUME IInv, NEW i \in DOMAIN config.ports, PortsDelete(i)
  PROVE  IInv'
<1>1. /\ alive' = alive /\ alive
      /\ monitors' \subseteq monitors
      /\ \A m \in monitors' : m.name # running.ports[i].entry.core
  BY DEF PortsDelete, InList, DropMonitor
<1>2. CASE running.ports[i].driven
  <2>1. /\ running' = [running EXCEPT !.ports = RemoveAt(@, i)]
        /\ config' = [config EXCEPT !.ports = RemoveAt(@, i)]
        /\ Save
    BY <1>2 DEF PortsDelete
  <2>2. Pairs("ports", RemoveAt(running.ports, i), RemoveAt(config.ports, i))
    BY PortsArePaired, PairsRemove
  <2>3. Replaced("ports", RemoveAt(running.ports, i), RemoveAt(config.ports, i))
    BY <2>1 DEF IInv, AllPaired, Replaced
  <2>4. AllPaired'
    BY <2>2, <2>3, PairedStep, PortsArePaired DEF IInv
  <2>5. Monitored(monitors', running.ports)
    BY <1>1, PortsArePaired DEF Monitored
  <2>6. Monitored(monitors', RemoveAt(running.ports, i))
    BY <1>1, <2>5, PortsArePaired, WatchedRemove
  <2>7. running'.ports = RemoveAt(running.ports, i)
    BY <2>3, PortsArePaired DEF Replaced
  <2>8. MonitorsWatchListed'
    BY <2>6, <2>7 DEF Monitored, MonitorsWatchListed
  <2> QED
    BY <1>1, <2>1, <2>4, <2>8, SaveStep DEF IInv
<1>3. CASE ~running.ports[i].driven
  <2>1. UNCHANGED <<running, config, file>>
    BY <1>3 DEF PortsDelete
  <2>2. MonitorsWatchListed'
    BY <1>1, <2>1 DEF IInv, MonitorsWatchListed
  <2> QED
    BY <1>1, <2>1, <2>2 DEF IInv, AllPaired, FileOfEntries, file
<1> QED
  BY <1>2, <1>3

LEMMA WatchStep ==
  ASSUME IInv, NEW i \in DOMAIN config.ports, Watch(i)
  PROVE  IInv'
<1>1. /\ UNCHANGED <<alive, config, running, disk>> /\ alive
      /\ monitors' = monitors \cup
            {[name |-> running.ports[i].entry.core, tag |-> running.ports[i].tag]}
  BY DEF Watch, InList, file
<1>2. i \in DOMAIN running.ports
  BY PortsArePaired
<1>3. MonitorsWatchListed'
  BY <1>1, <1>2 DEF IInv, MonitorsWatchListed
<1> QED
  BY <1>1, <1>3 DEF IInv, AllPaired, FileOfEntries

-----------------------------------------------------------------------------
(***************************************************************************)
(* Requests for HTTP servers                                               *)
(***************************************************************************)
LEMMA HttpIsPaired ==
  ASSUME IInv
  PROVE  /\ Pairs("http", running.http, config.http)
         /\ IsList(running.http) /\ IsList(config.http)
         /\ \A i \in DOMAIN config.http : Pair("http", running.http[i], config.http[i])
<1>1. Pairs("http", running.http, config.http)
  BY DEF IInv, AllPaired, Kinds
<1> QED
  BY <1>1, ListLength DEF Pairs

\* Whatever becomes of the HTTP servers, ports and monitors stay.
LEMMA HttpStep ==
  ASSUME IInv, NEW os, NEW es, Pairs("http", os, es),
         Replaced("http", os, es),
         Save, UNCHANGED <<alive, monitors>>
  PROVE  IInv'
<1>1. AllPaired'
  BY PairedStep, PortsArePaired DEF IInv
<1>2. running'.ports = running.ports
  BY PortsArePaired DEF Replaced
<1>3. MonitorsWatchListed'
  BY <1>2 DEF IInv, MonitorsWatchListed
<1> QED
  BY <1>1, <1>3, SaveStep DEF IInv

LEMMA HttpAddStep ==
  ASSUME IInv, NEW data, IsEntry(data), HttpAdd(data)
  PROVE  IInv'
<1> DEFINE e == [data EXCEPT !.id = Claim(data, NoId)]
           o == Built(e, 0)
<1>1. IsEntry(e)
  BY Renamed
<1>2. /\ running' = [running EXCEPT !.http = Append(@, o)]
      /\ config' = [config EXCEPT !.http = Append(@, e)]
      /\ Save /\ UNCHANGED <<alive, monitors>>
  BY DEF HttpAdd
<1>3. Pair("http", o, e)
  BY <1>1, BuiltPairs
<1> HIDE DEF e, o
<1>4. Pairs("http", Append(running.http, o), Append(config.http, e))
  BY <1>3, HttpIsPaired, PairsAppend
<1>5. Replaced("http", Append(running.http, o), Append(config.http, e))
  BY <1>2 DEF IInv, AllPaired, Replaced
<1> QED
  BY <1>2, <1>4, <1>5, HttpStep

LEMMA HttpUpdateStep ==
  ASSUME IInv, NEW i \in DOMAIN config.http, NEW data, IsEntry(data), HttpUpdate(i, data)
  PROVE  IInv'
<1> DEFINE old == config.http[i]
           e == [data EXCEPT !.id = Claim(data, old.id)]
<1>1. IsEntry(e)
  BY Renamed
<1>2. Pair("http", running.http[i], old)
  BY HttpIsPaired
<1>3. UNCHANGED <<alive, monitors>>
  BY DEF HttpUpdate
<1>4. CASE e.core = old.core /\ SetEntry("http", i, e) /\ Save /\ UNCHANGED running
  <2>1. Pair("http", running.http[i], e)
    BY <1>1, <1>2, <1>4 DEF Pair
  <2> HIDE DEF e
  <2>2. Pairs("http", running.http, With(config.http, i, e))
    BY <2>1, HttpIsPaired, PairsThis
  <2>3. Replaced("http", running.http, With(config.http, i, e))
    BY <1>4 DEF IInv, AllPaired, SetEntry, With, Replaced
  <2> QED
    BY <1>3, <1>4, <2>2, <2>3, HttpStep
<1>5. CASE SetObject("http", i, Built(e, 0)) /\ SetEntry("http", i, e) /\ Save
  <2>1. Pair("http", Built(e, 0), e)
    BY <1>1, BuiltPairs
  <2> HIDE DEF e
  <2>2. Pairs("http", With(running.http, i, Built(e, 0)), With(config.http, i, e))
    BY <2>1, HttpIsPaired, PairsWith
  <2>3. Replaced("http", With(running.http, i, Built(e, 0)), With(config.http, i, e))
    BY <1>5 DEF IInv, AllPaired, SetObject, SetEntry, With, Replaced
  <2> QED
    BY <1>3, <1>5, <2>2, <2>3, HttpStep
<1>6. CASE /\ \E o \in {Built(old, 0), Failed(old, 0)} : SetObject("http", i, o)
           /\ UNCHANGED <<config, file>>
  <2>1. PICK o : SetObject("http", i, o) /\ o \in {Built(old, 0), Failed(old, 0)}
    BY <1>6
  <2>2. Pair("http", o, old)
    BY <1>2, <2>1, BuiltPairs DEF Pair
  <2>3. Pairs("http", With(running.http, i, o), config.http)
    BY <2>2, HttpIsPaired, PairsOther
  <2>4. Replaced("http", With(running.http, i, o), config.http)
    BY <1>6, <2>1 DEF IInv, AllPaired, SetObject, With, Replaced
  <2>5. AllPaired'
    BY <2>3, <2>4, PairedStep, PortsArePaired DEF IInv
  <2>6. running'.ports = running.ports
    BY <2>4, PortsArePaired DEF Replaced
  <2>7. MonitorsWatchListed' /\ FileOfEntries'
    BY <1>3, <1>6, <2>6 DEF IInv, MonitorsWatchListed, FileOfEntries, file
  <2> QED
    BY <1>3, <2>5, <2>7 DEF IInv
<1> QED
  BY <1>4, <1>5, <1>6 DEF HttpUpdate

LEMMA HttpDeleteStep ==
  ASSUME IInv, NEW i \in DOMAIN config.http, HttpDelete(i)
  PROVE  IInv'
<1>1. /\ running' = [running EXCEPT !.http = RemoveAt(@, i)]
      /\ config' = [config EXCEPT !.http = RemoveAt(@, i)]
      /\ Save /\ UNCHANGED <<alive, monitors>>
  BY DEF HttpDelete
<1>2. Pairs("http", RemoveAt(running.http, i), RemoveAt(config.http, i))
  BY HttpIsPaired, PairsRemove
<1>3. Replaced("http", RemoveAt(running.http, i), RemoveAt(config.http, i))
  BY <1>1 DEF IInv, AllPaired, Replaced
<1> QED
  BY <1>1, <1>2, <1>3, HttpStep

-----------------------------------------------------------------------------
LEMMA MoveStep ==
  ASSUME IInv, NEW k \in Kinds, NEW i \in DOMAIN config[k], NEW j \in DOMAIN config[k],
         NEW after \in BOOLEAN, Move(k, i, j, after)
  PROVE  IInv'
<1>1. /\ running' = [running EXCEPT ![k] = Moved(@, i, j, after)]
      /\ config' = [config EXCEPT ![k] = Moved(@, i, j, after)]
      /\ Save /\ UNCHANGED <<alive, monitors>> /\ i # j
  BY DEF Move
<1>2. Pairs(k, running[k], config[k])
  BY DEF IInv, AllPaired
<1>3. Pairs(k, Moved(running[k], i, j, after), Moved(config[k], i, j, after))
  BY <1>1, <1>2, PairsMove
<1>4. Replaced(k, Moved(running[k], i, j, after), Moved(config[k], i, j, after))
  BY <1>1 DEF IInv, AllPaired, Replaced
<1>5. AllPaired'
  BY <1>3, <1>4, PairedStep DEF IInv
<1>6. MonitorsWatchListed'
  <2>1. CASE k = "ports"
    <3>1. i \in DOMAIN running.ports /\ j \in DOMAIN running.ports
      BY <2>1, PortsArePaired
    <3>2. Monitored(monitors, Moved(running.ports, i, j, after))
      BY <1>1, <3>1, PortsArePaired, WatchedMove
    <3>3. running'.ports = Moved(running.ports, i, j, after)
      BY <1>4, <2>1, PortsArePaired DEF Replaced
    <3> QED
      BY <1>1, <3>2, <3>3 DEF Monitored, MonitorsWatchListed
  <2>2. CASE k # "ports"
    <3>1. running'.ports = running.ports
      BY <1>4, <2>2, PortsArePaired DEF Replaced
    <3> QED
      BY <1>1, <3>1 DEF IInv, MonitorsWatchListed
  <2> QED
    BY <2>1, <2>2
<1> QED
  BY <1>1, <1>5, <1>6, SaveStep DEF IInv

-----------------------------------------------------------------------------
(***************************************************************************)
(* Starting and stopping                                                   *)
(***************************************************************************)
\* An entry under the id it is given.
Under(e, id) == [e EXCEPT !.id = id]

\* Whatever ids are given: entries stay what they are, where they were.
LEMMA AssignedEntries ==
  ASSUME NEW c, Entries(c.ports), Entries(c.http), NEW id, id = GivenIds(c.ports \o c.http)
  PROVE  \E entries, http :
            /\ AssignIds(c) = [ports |-> entries, http |-> http]
            /\ Entries(entries) /\ Len(entries) = Len(c.ports)
            /\ \A i \in 1 .. Len(c.ports) : entries[i] = Under(c.ports[i], id[i])
            /\ Entries(http) /\ Len(http) = Len(c.http)
            /\ \A i \in 1 .. Len(c.http) : http[i] = Under(c.http[i], id[Len(c.ports) + i])
<1> DEFINE all == c.ports \o c.http
           given == [i \in DOMAIN all |-> Under(all[i], id[i])]
           entries == SubSeq(given, 1, Len(c.ports))
           http == SubSeq(given, Len(c.ports) + 1, Len(given))
<1>1. AssignIds(c) = [ports |-> entries, http |-> http]
  BY DEF AssignIds, Under
<1>2. PICK cp, ch : cp = c.ports /\ ch = c.http
  OBVIOUS
<1>3. IsList(cp) /\ IsList(ch)
  BY <1>2 DEF Entries
<1>4. PICK m \in Nat : m = Len(cp)
  BY <1>3, ListLength
<1>5. PICK l \in Nat : l = Len(ch)
  BY <1>3, ListLength
<1>6. cp = c.ports /\ ch = c.http /\ m = Len(c.ports) /\ l = Len(c.http)
  BY <1>2, <1>4, <1>5
<1>7. /\ IsList(cp) /\ Len(cp) = m /\ \A i \in 1 .. m : IsEntry(cp[i])
      /\ IsList(ch) /\ Len(ch) = l /\ \A i \in 1 .. l : IsEntry(ch[i])
  BY <1>6 DEF Entries
<1>8. all = cp \o ch
  BY <1>6
<1> HIDE DEF all
<1>9. /\ IsList(all) /\ Len(all) = m + l
      /\ \A i \in 1 .. m + l : all[i] = IF i <= m THEN cp[i] ELSE ch[i - m]
  <2>1. IsList(cp) /\ IsList(ch)
    BY <1>7
  <2>2. /\ IsList(cp \o ch) /\ Len(cp \o ch) = Len(cp) + Len(ch)
        /\ \A i \in 1 .. Len(cp) + Len(ch) :
              (cp \o ch)[i] = IF i <= Len(cp) THEN cp[i] ELSE ch[i - Len(cp)]
    BY <2>1, ListConcat
  <2> QED
    BY <1>7, <1>8, <2>2
<1>10. DOMAIN all = 1 .. m + l
  BY <1>9, ListLength
<1>11. ASSUME NEW i \in 1 .. m + l
      PROVE  IsEntry(all[i])
  <2>1. CASE i <= m
    BY <1>7, <1>9, <2>1
  <2>2. CASE ~(i <= m)
    <3>1. i - m \in 1 .. l
      BY <2>2
    <3> QED
      BY <1>7, <1>9, <2>2, <3>1
  <2> QED
    BY <2>1, <2>2
<1>12. /\ given = [i \in 1 .. m + l |-> given[i]]
       /\ \A i \in 1 .. m + l : given[i] = Under(all[i], id[i]) /\ IsEntry(given[i])
  BY <1>10, <1>11, Renamed DEF Under
<1> HIDE DEF given
<1>13. Len(given) = m + l
  BY <1>12, ListOf
<1>14. /\ Entries(entries) /\ Len(entries) = m
       /\ \A i \in 1 .. m : entries[i] = Under(cp[i], id[i])
  <2>1. entries = SubSeq(given, 1, m)
    BY <1>6
  <2> HIDE DEF entries
  <2>2. /\ IsList(entries) /\ Len(entries) = m
        /\ \A i \in 1 .. m : entries[i] = given[i]
    BY <2>1, ListPart
  <2>3. \A i \in 1 .. m : i \in 1 .. m + l /\ i <= m
    OBVIOUS
  <2>4. \A i \in 1 .. m : IsEntry(entries[i]) /\ entries[i] = Under(cp[i], id[i])
    BY <1>9, <1>12, <2>2, <2>3
  <2> QED
    BY <2>2, <2>4 DEF Entries
<1>15. /\ Entries(http) /\ Len(http) = l
       /\ \A i \in 1 .. l : http[i] = Under(ch[i], id[m + i])
  <2>1. http = SubSeq(given, m + 1, m + l)
    BY <1>6, <1>13
  <2> HIDE DEF http
  <2>2. /\ IsList(http) /\ Len(http) = l
        /\ \A i \in 1 .. l : http[i] = given[m + 1 + i - 1]
    BY <2>1, ListPart
  <2>3. ASSUME NEW i \in 1 .. l
        PROVE  IsEntry(http[i]) /\ http[i] = Under(ch[i], id[m + i])
    <3>1. /\ m + 1 + i - 1 = m + i /\ m + i \in 1 .. m + l
          /\ ~(m + i <= m) /\ (m + i) - m = i
      OBVIOUS
    <3>2. all[m + i] = ch[i]
      BY <1>9, <3>1
    <3>3. http[i] = given[m + i]
      BY <2>2, <3>1
    <3> QED
      BY <1>12, <3>1, <3>2, <3>3
  <2> QED
    BY <2>2, <2>3 DEF Entries
<1> HIDE DEF entries, http
<1>16. /\ Entries(entries) /\ Len(entries) = Len(c.ports)
       /\ \A i \in 1 .. Len(c.ports) : entries[i] = Under(c.ports[i], id[i])
  BY <1>6, <1>14
<1>17. /\ Entries(http) /\ Len(http) = Len(c.http)
       /\ \A i \in 1 .. Len(c.http) : http[i] = Under(c.http[i], id[Len(c.ports) + i])
  BY <1>6, <1>15
<1> QED
  BY <1>1, <1>16, <1>17

LEMMA StartStep ==
  ASSUME IInv, Start
  PROVE  IInv'
<1> DEFINE c == AssignIds(disk)
<1>1. PICK up : running' = [k \in Kinds |-> [i \in DOMAIN c[k] |->
                  LET tag == IF k = "ports" THEN i - 1 ELSE 0 IN
                  IF up[k][i] THEN Built(c[k][i], tag) ELSE Failed(c[k][i], tag)]]
  BY DEF Start
<1>2. /\ ~alive /\ alive' /\ disk # Broken
      /\ config' = c /\ disk' = disk /\ monitors' = monitors
  BY DEF Start
<1>3. Entries(disk.ports) /\ Entries(disk.http)
  BY <1>2 DEF IInv, FileOfEntries, Kinds
<1>4. PICK entries, http : /\ c = [ports |-> entries, http |-> http]
                         /\ Entries(entries) /\ Entries(http)
  <2>1. PICK id : id = GivenIds(disk.ports \o disk.http)
    OBVIOUS
  <2> QED
    BY <1>3, <2>1, AssignedEntries
<1> HIDE DEF c
<1>5. c = [k \in Kinds |-> c[k]] /\ \A k \in Kinds : Entries(c[k])
  BY <1>4 DEF Kinds
<1>6. ASSUME NEW k \in Kinds
      PROVE  Pairs(k, running'[k], config'[k])
  <2> DEFINE os == running'[k]
  <2>1. PICK n \in Nat : n = Len(c[k]) /\ DOMAIN c[k] = 1 .. n /\ IsList(c[k])
    BY <1>5, ListLength DEF Entries
  <2>2. ASSUME NEW i \in 1 .. n
        PROVE  Pair(k, os[i], c[k][i])
    <3>1. PICK tag : os[i] = IF up[k][i] THEN Built(c[k][i], tag) ELSE Failed(c[k][i], tag)
      BY <1>1, <2>1
    <3>2. IsEntry(c[k][i])
      BY <1>5, <2>1 DEF Entries
    <3> QED
      BY <3>1, <3>2, BuiltPairs
  <2>3. os = [i \in 1 .. n |-> os[i]]
    BY <1>1, <2>1
  <2> HIDE DEF os
  <2>4. IsList(os) /\ Len(os) = n
    BY <2>3, ListOf
  <2>5. Pairs(k, os, c[k])
    BY <2>1, <2>2, <2>4 DEF Pairs
  <2> QED
    BY <1>2, <2>5 DEF os
<1>7. running' = [k \in Kinds |-> running'[k]] /\ config' = [k \in Kinds |-> config'[k]]
  BY <1>1, <1>2, <1>5
<1>8. AllPaired'
  BY <1>6, <1>7 DEF AllPaired
<1>9. MonitorsWatchListed' /\ FileOfEntries'
  BY <1>2 DEF IInv, MonitorsWatchListed, FileOfEntries
<1> QED
  BY <1>2, <1>8, <1>9 DEF IInv

LEMMA FilesAreOfEntries ==
  ASSUME NEW f \in Files
  PROVE  \A k \in Kinds : Entries(f[k])
<1> SUFFICES ASSUME NEW k \in Kinds
             PROVE  Entries(f[k])
  OBVIOUS
<1>1. f[k] \in Seq(Entry \cup Unidentified)
  BY PortConfigAssumption DEF PortConfigAssumption
<1>2. IsList(f[k])
  BY <1>1 DEF IsList
<1>3. \A i \in 1 .. Len(f[k]) : f[k][i] \in Entry \cup Unidentified
  BY <1>1, ElementOfSeq
<1>4. \A e \in Entry \cup Unidentified : IsEntry(e)
  BY DEF Entry, Unidentified, IsEntry
<1> QED
  BY <1>2, <1>3, <1>4 DEF Entries

LEMMA InitEstablishes ==
  ASSUME Init
  PROVE  IInv
<1>1. \A k \in Kinds : running[k] = <<>> /\ config[k] = <<>>
  BY DEF Init
<1>2. AllPaired
  BY <1>1, PairsNone DEF Init, AllPaired
<1>3. FileOfEntries
  BY FilesAreOfEntries DEF Init, FileOfEntries
<1> QED
  BY <1>2, <1>3 DEF Init, IInv, MonitorsWatchListed

LEMMA StopStep ==
  ASSUME IInv, Stop
  PROVE  IInv'
<1>1. \A k \in Kinds : running'[k] = <<>> /\ config'[k] = <<>>
  BY DEF Stop
<1>2. AllPaired'
  BY <1>1, PairsNone DEF Stop, AllPaired
<1> QED
  BY <1>2 DEF Stop, IInv, MonitorsWatchListed, FileOfEntries

LEMMA RestoreStep ==
  ASSUME IInv, Restore
  PROVE  IInv'
<1>1. FileOfEntries'
  BY FilesAreOfEntries DEF Restore, FileOfEntries
<1> QED
  BY <1>1 DEF Restore, IInv, AllPaired, MonitorsWatchListed

\* What changes none of it.
LEMMA IdleStep ==
  ASSUME IInv, UNCHANGED <<alive, config, running, monitors, disk>>
  PROVE  IInv'
BY DEF IInv, AllPaired, FileOfEntries, MonitorsWatchListed

-----------------------------------------------------------------------------
LEMMA UpdateStep ==
  ASSUME IInv, NEW k \in Kinds, NEW i \in DOMAIN config[k], NEW data \in Requests[k],
         IF k = "ports" THEN PortsUpdate(i, data) ELSE HttpUpdate(i, data)
  PROVE  IInv'
<1>1. IsEntry(data)
  BY RequestsAreEntries
<1>2. CASE k = "ports"
  BY <1>1, <1>2, PortsUpdateStep
<1>3. CASE k = "http"
  BY <1>1, <1>3, HttpUpdateStep
<1> QED
  BY <1>2, <1>3 DEF Kinds

LEMMA NextKeeps ==
  ASSUME IInv, [Next]_vars
  PROVE  IInv'
<1>1. ASSUME NEW data \in Requests.ports, PortsAdd(data)
      PROVE  IInv'
  BY <1>1, RequestsAreEntries, PortsAddStep DEF Kinds
<1>2. ASSUME NEW data \in Requests.http, HttpAdd(data)
      PROVE  IInv'
  BY <1>2, RequestsAreEntries, HttpAddStep DEF Kinds
<1>3. ASSUME NEW k \in Kinds, NEW i \in DOMAIN config[k], NEW data \in Requests[k],
             Submit(k, i, data) \/ Put(k, i, data)
      PROVE  IInv'
  BY <1>3, UpdateStep DEF Submit, Put
<1>4. ASSUME NEW k \in Kinds, NEW i \in DOMAIN config[k], NEW j \in DOMAIN config[k],
             NEW after \in BOOLEAN, Move(k, i, j, after)
      PROVE  IInv'
  BY <1>4, MoveStep
<1>5. ASSUME NEW k \in Kinds, NEW i \in DOMAIN config[k], Open(k, i)
      PROVE  IInv'
  BY <1>5, IdleStep DEF Open, file
<1>6. ASSUME NEW i \in DOMAIN config.ports, PortsDelete(i) \/ Watch(i)
      PROVE  IInv'
  BY <1>6, PortsDeleteStep, WatchStep
<1>7. ASSUME NEW i \in DOMAIN config.http, HttpDelete(i)
      PROVE  IInv'
  BY <1>7, HttpDeleteStep
<1>8. CASE Abandon
  BY <1>8, IdleStep DEF Abandon, file
<1>9. CASE Start \/ Stop \/ Restore
  BY <1>9, StartStep, StopStep, RestoreStep
<1>10. CASE UNCHANGED vars
  BY <1>10, IdleStep DEF vars, file
<1> QED
  BY <1>1, <1>2, <1>3, <1>4, <1>5, <1>6, <1>7, <1>8, <1>9, <1>10 DEF Next

\* The invariant holds throughout.
THEOREM InvariantHolds == Spec => []IInv
<1>1. Init => IInv
  BY InitEstablishes
<1>2. IInv /\ [Next]_vars => IInv'
  BY NextKeeps
<1> QED
  BY <1>1, <1>2, PTL DEF Spec

(***************************************************************************)
(* The i-th running object was built from the i-th entry, whatever was     *)
(* asked for, and whatever failed to start, to be put back or to be        *)
(* written.                                                                *)
(***************************************************************************)
THEOREM StaysPaired == Spec => []Paired
<1>1. ASSUME IInv
      PROVE  Paired
  <2>1. ASSUME NEW k \in Kinds
        PROVE  /\ Len(running[k]) = Len(config[k])
               /\ \A i \in DOMAIN config[k] :
                    IF k = "ports" THEN running[k][i].entry = config[k][i]
                                   ELSE running[k][i].entry.core = config[k][i].core
    <3>1. Pairs(k, running[k], config[k])
      BY <1>1 DEF IInv, AllPaired
    <3> QED
      BY <3>1, ListLength DEF Pairs, Pair
  <2> QED
    BY <2>1 DEF Paired
<1> QED
  BY <1>1, InvariantHolds, PTL

(***************************************************************************)
(* A cached monitor watches a port that is in the list.                    *)
(***************************************************************************)
THEOREM MonitorsAreListed == Spec => []MonitorsWatchListed
<1>1. IInv => MonitorsWatchListed
  BY DEF IInv
<1> QED
  BY <1>1, InvariantHolds, PTL

-----------------------------------------------------------------------------
(***************************************************************************)
(* What an update replaces                                                 *)
(***************************************************************************)
Replaces(entry) ==
    \A k \in Kinds : \A i \in DOMAIN config[k] :
        config[k][i] \in ToSet(config'[k]) \/ config[k][i] = entry

LEMMA SetEntryReplaces ==
  ASSUME IInv, NEW k \in Kinds, NEW i \in DOMAIN config[k], NEW e, SetEntry(k, i, e)
  PROVE  Replaces(config[k][i])
<1> SUFFICES ASSUME NEW x \in Kinds, NEW j \in DOMAIN config[x],
                    config[x][j] # config[k][i]
             PROVE  config[x][j] \in ToSet(config'[x])
  BY DEF Replaces
<1>1. config'[x] = IF x = k THEN [config[k] EXCEPT ![i] = e] ELSE config[x]
  BY DEF SetEntry, IInv, AllPaired
<1>2. j \in DOMAIN config'[x] /\ config'[x][j] = config[x][j]
  <2>1. CASE x = k
    <3>1. i # j
      BY <2>1
    <3> QED
      BY <1>1, <2>1, <3>1
  <2>2. CASE x # k
    BY <1>1, <2>2
  <2> QED
    BY <2>1, <2>2
<1> QED
  BY <1>2 DEF ToSet

(***************************************************************************)
(* A save that says which version it edited replaces that version and no   *)
(* other.                                                                  *)
(***************************************************************************)
THEOREM NothingLost == Spec => NoLostUpdate
<1> DEFINE Step == held # Nothing /\ held' = Nothing /\ config' # config => Replaces(held)
<1>1. ASSUME IInv, [Next]_vars
      PROVE  Step
  <2> SUFFICES ASSUME held # Nothing, held' = Nothing, config' # config
               PROVE  Replaces(held)
    OBVIOUS
  <2>1. PICK k \in Kinds :
          \E i \in DOMAIN config[k] : \E data \in Requests[k] : Submit(k, i, data)
    BY <1>1 DEF Next, vars, PortsAdd, HttpAdd, Put, Move, Open, PortsDelete, Watch, HttpDelete,
                Abandon, Start, Stop, Restore
  <2>2. PICK i \in DOMAIN config[k] : \E data \in Requests[k] : Submit(k, i, data)
    BY <2>1
  <2>3. PICK data \in Requests[k] : Submit(k, i, data)
    BY <2>2
  <2>4. config[k][i] = held
    BY <2>3 DEF Submit, RevConflict
  <2>5. \E e : SetEntry(k, i, e)
    <3>1. CASE k = "ports"
      BY <2>3, <3>1 DEF Submit, PortsUpdate, UpdateServers, RebuildPort
    <3>2. CASE k = "http"
      BY <2>3, <3>2 DEF Submit, HttpUpdate
    <3> QED
      BY <3>1, <3>2 DEF Kinds
  <2> QED
    BY <1>1, <2>4, <2>5, SetEntryReplaces
<1>2. IInv /\ [Next]_vars => [Step]_vars
  BY <1>1
<1>3. Spec => [][Step]_vars
  BY <1>2, InvariantHolds, PTL DEF Spec
<1> QED
  BY <1>3 DEF NoLostUpdate, Replaces

-----------------------------------------------------------------------------
(***************************************************************************)
(* The smallest of some numbers. What a definition by recursion says of a  *)
(* list is shown with it: a shortest list it says nothing of cannot be.    *)
(***************************************************************************)
LEMMA NumbersDescend == IsWellFoundedOn({ss \in Nat \X Nat : ss[1] < ss[2]}, Nat)
<1>1. OpToRel(<, Nat) = {ss \in Nat \X Nat : ss[1] < ss[2]}
  BY DEF OpToRel
<1> QED
  BY <1>1, NatLessThanWellFounded, Zenon

LEMMA Smallest ==
  ASSUME NEW T \in SUBSET Nat, T # {}
  PROVE  \E x \in T : \A y \in T : x <= y
<1> DEFINE R == {ss \in Nat \X Nat : ss[1] < ss[2]}
<1>1. IsWellFoundedOn(R, Nat)
  BY NumbersDescend
<1>2. \A x, y \in Nat : <<y, x>> \notin R => x <= y
  OBVIOUS
<1> HIDE DEF R
<1>3. PICK x \in T : \A y \in T : <<y, x>> \notin R
  BY <1>1, WFMin
<1> QED
  BY <1>2, <1>3

LEMMA FiniteImage ==
  ASSUME NEW S, IsFiniteSet(S), NEW f
  PROVE  IsFiniteSet({f[x] : x \in S})
<1> DEFINE T == {f[x] : x \in S}
           g == [x \in S |-> f[x]]
<1>1. g \in Surjection(S, T)
  BY DEF Surjection
<1> QED
  BY <1>1, FS_Surjection

-----------------------------------------------------------------------------
(***************************************************************************)
(* Ids                                                                     *)
(***************************************************************************)
\* There is always a number nobody answers to, and a first one.
LEMMA UniqueIdIsFree ==
  ASSUME NEW base, NEW taken, IsFiniteSet(taken)
  PROVE  UniqueId(base, taken) \notin taken /\ UniqueId(base, taken) # NoId
<1> DEFINE K == Cardinality(taken)
           free == {n \in 0 .. K : <<base, n>> \notin taken}
<1>1. K \in Nat
  BY FS_CardinalityType
<1>2. free # {}
  <2> SUFFICES ASSUME \A n \in 0 .. K : <<base, n>> \in taken
               PROVE  FALSE
    OBVIOUS
  <2> DEFINE f == [n \in 0 .. K |-> <<base, n>>]
  <2> HIDE DEF K
  <2>1. f \in Injection(0 .. K, taken)
    BY DEF Injection, IsInjective
  <2>2. Cardinality(0 .. K) = K + 1
    BY <1>1, FS_Interval
  <2> HIDE DEF f
  <2>3. Cardinality(0 .. K) <= Cardinality(taken)
    BY <2>1, FS_Injection
  <2> QED
    BY <1>1, <2>2, <2>3 DEF K
<1> HIDE DEF K
<1>3. free \in SUBSET Nat
  BY <1>1
<1>4. \A m : m \in free <=> m \in 0 .. K /\ <<base, m>> \notin taken
  OBVIOUS
<1> HIDE DEF free
<1>5. PICK n \in free : \A m \in free : n <= m
  BY <1>2, <1>3, Smallest
<1>6. n \in 0 .. K /\ <<base, n>> \notin taken /\ \A m \in 0 .. n - 1 : <<base, m>> \in taken
  BY <1>1, <1>4, <1>5
<1>7. PICK x : /\ x \in 0 .. K /\ <<base, x>> \notin taken
               /\ UniqueId(base, taken) = <<base, x>>
  <2> DEFINE First(x) == <<base, x>> \notin taken /\ \A m \in 0 .. x - 1 : <<base, m>> \in taken
             first == CHOOSE x \in 0 .. K : First(x)
  <2>1. \E x \in 0 .. K : First(x)
    BY <1>6
  <2>2. UniqueId(base, taken) = <<base, first>>
    BY DEF UniqueId, K
  <2>3. first \in 0 .. K /\ First(first)
    <3> HIDE DEF First
    <3> QED
      BY <2>1
  <2> QED
    BY <2>2, <2>3
<1> QED
  BY <1>7 DEF NoId

LEMMA TakenIsFinite ==
  ASSUME NEW s, IsList(s)
  PROVE  IsFiniteSet(IdsOf(s))
<1>1. PICK n \in Nat : DOMAIN s = 1 .. n
  BY ListLength
<1>2. IsFiniteSet(1 .. n)
  BY FS_Interval
<1> DEFINE f == [i \in 1 .. n |-> s[i].id]
<1>3. IsFiniteSet({f[i] : i \in 1 .. n})
  BY <1>2, FiniteImage
<1>4. IdsOf(s) \subseteq {f[i] : i \in 1 .. n}
  BY <1>1 DEF IdsOf
<1> QED
  BY <1>3, <1>4, FS_Subset

\* What the ids given to the first n entries are.
Given(es, n, f) ==
    f = [i \in 1 .. n |->
          IF Keeps(es, i) THEN es[i].id
          ELSE UniqueId(es[i].core, Kept(es) \cup {f[j] : j \in 1 .. i - 1})]

LEMMA OneMoreGiven ==
  ASSUME NEW es, NEW n \in Nat, NEW f, Given(es, n, f)
  PROVE  \E g : Given(es, n + 1, g)
<1> DEFINE next == UniqueId(es[n + 1].core, Kept(es) \cup {f[j] : j \in 1 .. n})
           g == [i \in 1 .. n + 1 |->
                   IF i <= n THEN f[i]
                   ELSE IF Keeps(es, i) THEN es[i].id ELSE next]
           After(i) == IF Keeps(es, i) THEN es[i].id
                       ELSE UniqueId(es[i].core, Kept(es) \cup {g[j] : j \in 1 .. i - 1})
<1>1. ASSUME NEW i \in 1 .. n + 1
      PROVE  {g[j] : j \in 1 .. i - 1} = {f[j] : j \in 1 .. i - 1}
  <2>1. \A j \in 1 .. i - 1 : j \in 1 .. n + 1 /\ j <= n
    OBVIOUS
  <2>2. \A j \in 1 .. i - 1 : g[j] = f[j]
    BY <2>1
  <2> HIDE DEF g
  <2> QED
    BY <2>2
<1>2. ASSUME NEW i \in 1 .. n + 1
      PROVE  g[i] = After(i)
  <2>1. CASE i <= n
    <3>1. i \in 1 .. n /\ g[i] = f[i]
      BY <2>1
    <3>2. f[i] = IF Keeps(es, i) THEN es[i].id
                 ELSE UniqueId(es[i].core, Kept(es) \cup {f[j] : j \in 1 .. i - 1})
      BY <3>1 DEF Given
    <3> HIDE DEF g
    <3> QED
      BY <1>1, <3>1, <3>2
  <2>2. CASE ~(i <= n)
    <3>1. i = n + 1 /\ i - 1 = n
      BY <2>2
    <3>2. g[i] = IF Keeps(es, i) THEN es[i].id ELSE next
      BY <2>2
    <3>3. {g[j] : j \in 1 .. i - 1} = {f[j] : j \in 1 .. n}
      BY <1>1, <3>1
    <3> HIDE DEF g
    <3> QED
      BY <3>1, <3>2, <3>3
  <2> QED
    BY <2>1, <2>2
<1>3. g = [i \in 1 .. n + 1 |-> g[i]]
  OBVIOUS
<1> HIDE DEF g
<1>4. Given(es, n + 1, g)
  BY <1>2, <1>3 DEF Given
<1> QED
  BY <1>4

\* The recursion of assign_ids() says what it is meant to of every list.
LEMMA IdsAreGiven ==
  ASSUME NEW es, IsList(es)
  PROVE  Given(es, Len(es), GivenIds(es))
<1>1. PICK n \in Nat : n = Len(es) /\ DOMAIN es = 1 .. n
  BY ListLength
<1> DEFINE without == {k \in Nat : ~ \E f : Given(es, k, f)}
<1>2. without = {}
  <2> SUFFICES ASSUME without # {}
               PROVE  FALSE
    OBVIOUS
  <2>1. PICK k \in without : \A y \in without : k <= y
    BY Smallest
  <2>2. CASE k = 0
    <3> DEFINE f == [i \in 1 .. 0 |-> NoId]
    <3>1. Given(es, 0, f)
      BY DEF Given
    <3> QED
      BY <2>1, <2>2, <3>1
  <2>3. CASE k # 0
    <3>1. k - 1 \in Nat /\ k - 1 \notin without /\ (k - 1) + 1 = k
      BY <2>1, <2>3
    <3>2. PICK f : Given(es, k - 1, f)
      BY <3>1
    <3>3. \E g : Given(es, (k - 1) + 1, g)
      BY <3>1, <3>2, OneMoreGiven
    <3> QED
      BY <2>1, <3>1, <3>3
  <2> QED
    BY <2>2, <2>3
<1>3. \E f : Given(es, n, f)
  BY <1>2
<1>4. GivenIds(es) = CHOOSE f : Given(es, n, f)
  BY <1>1, Zenon DEF GivenIds, Given
<1> QED
  BY <1>1, <1>3, <1>4

\* A number that nobody answers to is given, or an id that its first owner
\* keeps: the ids given are all different.
LEMMA GivenIdsDiffer ==
  ASSUME NEW es, IsList(es)
  PROVE  \A i, j \in 1 .. Len(es) :
            /\ GivenIds(es)[i] # NoId
            /\ GivenIds(es)[i] = GivenIds(es)[j] => i = j
<1>1. PICK n \in Nat : n = Len(es) /\ DOMAIN es = 1 .. n
  BY ListLength
<1>2. PICK f : f = GivenIds(es)
  OBVIOUS
<1>3. Given(es, n, f)
  BY <1>1, <1>2, IdsAreGiven
<1> DEFINE Taken(i) == Kept(es) \cup {f[j] : j \in 1 .. i - 1}
<1>4. \A i \in 1 .. n : f[i] = IF Keeps(es, i) THEN es[i].id ELSE UniqueId(es[i].core, Taken(i))
  BY <1>3 DEF Given
<1>5. \A i \in 1 .. n : Keeps(es, i) => es[i].id \in Kept(es) /\ es[i].id # NoId
  BY <1>1 DEF Kept, Keeps
<1>6. ASSUME NEW i \in 1 .. n
      PROVE  IsFiniteSet(Taken(i))
  <2> DEFINE ids == [j \in 1 .. n |-> es[j].id]
             kept == {ids[j] : j \in 1 .. n}
             given == {f[j] : j \in 1 .. i - 1}
  <2>1. IsFiniteSet(1 .. n) /\ IsFiniteSet(1 .. i - 1)
    BY FS_Interval
  <2>2. IsFiniteSet(kept)
    BY <2>1, FiniteImage
  <2>3. Kept(es) \subseteq kept
    BY <1>1 DEF Kept
  <2>4. IsFiniteSet(given)
    BY <2>1, FiniteImage
  <2>5. IsFiniteSet(Kept(es))
    BY <2>2, <2>3, FS_Subset
  <2> HIDE DEF given
  <2>6. IsFiniteSet(Kept(es) \cup given)
    BY <2>4, <2>5, FS_Union
  <2> QED
    BY <2>6 DEF given
<1>7. \A i \in 1 .. n, j \in 1 .. n : j < i => f[j] \in Taken(i)
  OBVIOUS
<1>8. \A i \in 1 .. n : Kept(es) \subseteq Taken(i)
  OBVIOUS
<1> HIDE DEF Taken
<1>9. \A i \in 1 .. n : ~Keeps(es, i) => f[i] \notin Taken(i) /\ f[i] # NoId
  BY <1>4, <1>6, UniqueIdIsFree
<1>10. \A i \in 1 .. n : Keeps(es, i) => f[i] = es[i].id /\ f[i] \in Kept(es) /\ f[i] # NoId
  BY <1>4, <1>5
<1>11. ASSUME NEW i \in 1 .. n, NEW j \in 1 .. n, j < i
       PROVE  f[i] # f[j]
  <2>1. CASE ~Keeps(es, i)
    BY <1>7, <1>9, <1>11, <2>1
  <2>2. CASE Keeps(es, i) /\ ~Keeps(es, j)
    BY <1>8, <1>9, <1>10, <2>2
  <2>3. CASE Keeps(es, i) /\ Keeps(es, j)
    <3>1. j \in 1 .. i - 1
      BY <1>11
    <3> QED
      BY <1>10, <2>3, <3>1 DEF Keeps
  <2> QED
    BY <2>1, <2>2, <2>3
<1>12. ASSUME NEW i \in 1 .. n, NEW j \in 1 .. n, i # j
       PROVE  f[i] # f[j]
  <2>1. i < j \/ j < i
    BY <1>12
  <2> QED
    BY <1>11, <2>1
<1> QED
  BY <1>1, <1>2, <1>9, <1>10, <1>12

-----------------------------------------------------------------------------
(***************************************************************************)
(* One namespace for the ports and the HTTP servers                        *)
(***************************************************************************)
Distinct(c) ==
    \A k \in Kinds : \A i \in DOMAIN c[k] :
        /\ c[k][i].id # NoId
        /\ \A m \in Kinds : \A j \in DOMAIN c[m] : c[k][i].id = c[m][j].id => k = m /\ i = j

\* Nobody answers to it yet.
Fresh(id) == id # NoId /\ \A k \in Kinds : \A i \in DOMAIN config[k] : config[k][i].id # id

\* The entries of one kind are now es; the others stay.
Relisted(k, es) == config' = [x \in Kinds |-> IF x = k THEN es ELSE config[x]]

\* The ids of a list after a change: each is that of an entry of the list
\* before, no two of the same, except for one that nobody had.
LEMMA DistinctStep ==
  ASSUME Distinct(config), NEW k \in Kinds, NEW es, IsList(config[k]),
         Relisted(k, es),
         NEW at, \A x, y \in DOMAIN es : at[x] = at[y] => x = y,
         \A x \in DOMAIN es :
            \/ at[x] \in DOMAIN config[k] /\ es[x].id = config[k][at[x]].id
            \/ at[x] = 0 /\ Fresh(es[x].id)
  PROVE  Distinct(config')
<1>1. 0 \notin DOMAIN config[k]
  BY ListLength
<1>2. \A x \in DOMAIN es : es[x].id # NoId
  BY DEF Distinct, Fresh
<1>3. ASSUME NEW x \in DOMAIN es, NEW y \in DOMAIN es, es[x].id = es[y].id
      PROVE  x = y
  <2>1. at[x] = at[y]
    BY <1>1, <1>3 DEF Distinct, Fresh
  <2> QED
    BY <2>1
<1>4. ASSUME NEW x \in DOMAIN es, NEW m \in Kinds, m # k, NEW y \in DOMAIN config[m]
      PROVE  es[x].id # config[m][y].id
  BY <1>4 DEF Distinct, Fresh
<1>5. config'[k] = es /\ \A m \in Kinds : m # k => config'[m] = config[m]
  BY DEF Relisted
<1> SUFFICES ASSUME NEW m \in Kinds, NEW i \in DOMAIN config'[m]
             PROVE  /\ config'[m][i].id # NoId
                    /\ \A l \in Kinds : \A j \in DOMAIN config'[l] :
                          config'[m][i].id = config'[l][j].id => m = l /\ i = j
  BY DEF Distinct
<1>6. CASE m = k
  BY <1>2, <1>3, <1>4, <1>5, <1>6
<1>7. CASE m # k
  <2>1. config'[m][i].id # NoId
    BY <1>5, <1>7 DEF Distinct
  <2>2. ASSUME NEW l \in Kinds, NEW j \in DOMAIN config'[l], config'[m][i].id = config'[l][j].id
        PROVE  m = l /\ i = j
    <3>1. CASE l = k
      BY <1>4, <1>5, <1>7, <2>2, <3>1
    <3>2. CASE l # k
      BY <1>5, <1>7, <2>2, <3>2 DEF Distinct
    <3> QED
      BY <3>1, <3>2
  <2> QED
    BY <2>1, <2>2
<1> QED
  BY <1>6, <1>7

\* The entries of both lists, as the invariant has them.
LEMMA ConfigIsLists ==
  ASSUME IInv
  PROVE  /\ config = [k \in Kinds |-> config[k]]
         /\ \A k \in Kinds : IsList(config[k]) /\ Entries(config[k])
<1>1. \A k \in Kinds : Pairs(k, running[k], config[k])
  BY DEF IInv, AllPaired
<1> QED
  BY <1>1 DEF Pairs, Pair, Entries, IInv, AllPaired

LEMMA AddedStaysDistinct ==
  ASSUME IInv, Distinct(config), NEW k \in Kinds, NEW e, Fresh(e.id),
         Relisted(k, Append(config[k], e))
  PROVE  Distinct(config')
<1>1. PICK es : es = Append(config[k], e)
  OBVIOUS
<1>2. Relisted(k, es) /\ IsList(config[k])
  BY <1>1, ConfigIsLists
<1>3. PICK n \in Nat : n = Len(config[k]) /\ DOMAIN config[k] = 1 .. n
  BY <1>2, ListLength
<1>4. /\ IsList(es) /\ Len(es) = n + 1
      /\ \A i \in 1 .. n : es[i] = config[k][i]
      /\ es[n + 1] = e
  BY <1>1, <1>2, <1>3, ListAppend
<1>5. DOMAIN es = 1 .. n + 1
  BY <1>4, ListLength
<1>6. PICK at : at = [x \in 1 .. n + 1 |-> IF x <= n THEN x ELSE 0]
  OBVIOUS
<1>7. \A x, y \in DOMAIN es : at[x] = at[y] => x = y
  BY <1>5, <1>6
<1>8. ASSUME NEW x \in DOMAIN es
      PROVE  \/ at[x] \in DOMAIN config[k] /\ es[x].id = config[k][at[x]].id
             \/ at[x] = 0 /\ Fresh(es[x].id)
  <2>1. CASE x <= n
    <3>1. x \in 1 .. n /\ at[x] = x
      BY <1>5, <1>6, <2>1
    <3> QED
      BY <1>3, <1>4, <3>1
  <2>2. CASE ~(x <= n)
    <3>1. x = n + 1 /\ at[x] = 0
      BY <1>5, <1>6, <2>2
    <3> QED
      BY <1>4, <3>1
  <2> QED
    BY <2>1, <2>2
<1> QED
  BY <1>2, <1>7, <1>8, DistinctStep

LEMMA ChangedStaysDistinct ==
  ASSUME IInv, Distinct(config), NEW k \in Kinds, NEW i \in DOMAIN config[k], NEW e,
         e.id = config[k][i].id \/ Fresh(e.id), SetEntry(k, i, e)
  PROVE  Distinct(config')
<1>1. PICK es : es = With(config[k], i, e)
  OBVIOUS
<1>2. Relisted(k, es) /\ IsList(config[k])
  BY <1>1, ConfigIsLists DEF SetEntry, With, Relisted
<1>3. /\ DOMAIN es = DOMAIN config[k]
      /\ \A x \in DOMAIN es : es[x] = IF x = i THEN e ELSE config[k][x]
  BY <1>1 DEF With
<1>4. 0 \notin DOMAIN config[k]
  BY <1>2, ListLength
<1>5. CASE e.id = config[k][i].id
  <2>1. PICK at : at = [x \in DOMAIN es |-> x]
    OBVIOUS
  <2>2. \A x, y \in DOMAIN es : at[x] = at[y] => x = y
    BY <2>1
  <2>3. \A x \in DOMAIN es :
           \/ at[x] \in DOMAIN config[k] /\ es[x].id = config[k][at[x]].id
           \/ at[x] = 0 /\ Fresh(es[x].id)
    BY <1>3, <1>5, <2>1
  <2> QED
    BY <1>2, <2>2, <2>3, DistinctStep
<1>6. CASE Fresh(e.id)
  <2>1. PICK at : at = [x \in DOMAIN es |-> IF x = i THEN 0 ELSE x]
    OBVIOUS
  <2>2. \A x, y \in DOMAIN es : at[x] = at[y] => x = y
    BY <1>3, <1>4, <2>1
  <2>3. \A x \in DOMAIN es :
           \/ at[x] \in DOMAIN config[k] /\ es[x].id = config[k][at[x]].id
           \/ at[x] = 0 /\ Fresh(es[x].id)
    BY <1>3, <1>6, <2>1
  <2> QED
    BY <1>2, <2>2, <2>3, DistinctStep
<1> QED
  BY <1>5, <1>6

LEMMA RemovedStaysDistinct ==
  ASSUME IInv, Distinct(config), NEW k \in Kinds, NEW i \in DOMAIN config[k],
         Relisted(k, RemoveAt(config[k], i))
  PROVE  Distinct(config')
<1>1. PICK es : es = RemoveAt(config[k], i)
  OBVIOUS
<1>2. Relisted(k, es) /\ IsList(config[k])
  BY <1>1, ConfigIsLists
<1>3. PICK n \in Nat : n = Len(config[k]) /\ DOMAIN config[k] = 1 .. n
  BY <1>2, ListLength
<1>4. /\ IsList(es) /\ Len(es) = n - 1
      /\ \A j \in 1 .. n - 1 : es[j] = IF j < i THEN config[k][j] ELSE config[k][j + 1]
  BY <1>1, <1>2, <1>3, ListRemove
<1>5. DOMAIN es = 1 .. n - 1
  BY <1>4, ListLength
<1>6. PICK at : at = [x \in 1 .. n - 1 |-> IF x < i THEN x ELSE x + 1]
  OBVIOUS
<1>7. i \in 1 .. n
  BY <1>3
<1>8. \A x, y \in DOMAIN es : at[x] = at[y] => x = y
  BY <1>5, <1>6, <1>7
<1>9. \A x \in DOMAIN es :
         \/ at[x] \in DOMAIN config[k] /\ es[x].id = config[k][at[x]].id
         \/ at[x] = 0 /\ Fresh(es[x].id)
  <2> SUFFICES ASSUME NEW x \in DOMAIN es
               PROVE  at[x] \in DOMAIN config[k] /\ es[x].id = config[k][at[x]].id
    OBVIOUS
  <2>1. at[x] \in 1 .. n
    BY <1>5, <1>6, <1>7
  <2>2. es[x] = config[k][at[x]]
    BY <1>4, <1>5, <1>6
  <2> QED
    BY <1>3, <2>1, <2>2
<1> QED
  BY <1>2, <1>8, <1>9, DistinctStep

LEMMA MovedStaysDistinct ==
  ASSUME IInv, Distinct(config), NEW k \in Kinds,
         NEW i \in DOMAIN config[k], NEW j \in DOMAIN config[k], i # j, NEW after \in BOOLEAN,
         Relisted(k, Moved(config[k], i, j, after))
  PROVE  Distinct(config')
<1>1. PICK es : es = Moved(config[k], i, j, after)
  OBVIOUS
<1>2. Relisted(k, es) /\ IsList(config[k])
  BY <1>1, ConfigIsLists
<1>3. PICK n \in Nat : n = Len(config[k]) /\ DOMAIN config[k] = 1 .. n
  BY <1>2, ListLength
<1>4. i \in 1 .. n /\ j \in 1 .. n
  BY <1>3
<1>5. PICK to \in 1 .. n : IsMove(n, i, j, after, to)
  BY <1>4, ListMoved
<1>6. /\ IsList(es) /\ Len(es) = n
      /\ \A x \in 1 .. n : Before(to, i, x) \in 1 .. n /\ es[x] = config[k][Before(to, i, x)]
  BY <1>1, <1>2, <1>3, <1>5 DEF IsMove
<1>7. DOMAIN es = 1 .. n
  BY <1>6, ListLength
<1>8. PICK at : at = [x \in 1 .. n |-> Before(to, i, x)]
  OBVIOUS
<1>9. \A x, y \in 1 .. n : Before(to, i, x) = Before(to, i, y) => x = y
  BY <1>4 DEF Before
<1>10. \A x, y \in DOMAIN es : at[x] = at[y] => x = y
  BY <1>7, <1>8, <1>9
<1>11. \A x \in DOMAIN es :
          \/ at[x] \in DOMAIN config[k] /\ es[x].id = config[k][at[x]].id
          \/ at[x] = 0 /\ Fresh(es[x].id)
  BY <1>3, <1>6, <1>7, <1>8
<1> QED
  BY <1>2, <1>10, <1>11, DistinctStep

\* An id that is in use is refused, and a number nobody answers to is found.
LEMMA ClaimIsFree ==
  ASSUME IInv, NEW data, NEW current, Claimable(data.id, current)
  PROVE  (Claim(data, current) = current /\ current # NoId) \/ Fresh(Claim(data, current))
<1>1. ASSUME NEW id, id # NoId, id \notin TakenIds(config)
      PROVE  Fresh(id)
  <2> SUFFICES ASSUME NEW k \in Kinds, NEW i \in DOMAIN config[k], config[k][i].id = id
               PROVE  FALSE
    BY <1>1 DEF Fresh
  <2> QED
    BY <1>1 DEF TakenIds, IdsOf, Kinds
<1>2. IsFiniteSet(TakenIds(config))
  <2>1. IsFiniteSet(IdsOf(config.ports)) /\ IsFiniteSet(IdsOf(config.http))
    BY ConfigIsLists, TakenIsFinite DEF Kinds
  <2> QED
    BY <2>1, FS_Union DEF TakenIds
<1>3. CASE data.id \notin {NoId, current}
  BY <1>1, <1>3 DEF Claim, Claimable
<1>4. CASE data.id \in {NoId, current} /\ current # NoId
  BY <1>4 DEF Claim
<1>5. CASE data.id \in {NoId, current} /\ current = NoId
  <2>1. Claim(data, current) = UniqueId(data.core, TakenIds(config))
    BY <1>5 DEF Claim
  <2> QED
    BY <1>1, <1>2, <2>1, UniqueIdIsFree
<1> QED
  BY <1>3, <1>4, <1>5

\* Lists are equal if they say the same.
LEMMA SameList ==
  ASSUME NEW s, IsList(s), NEW t, IsList(t), Len(s) = Len(t), \A i \in 1 .. Len(s) : s[i] = t[i]
  PROVE  s = t
<1>1. PICK S, T : s \in Seq(S) /\ t \in Seq(T)
  BY DEF IsList
<1>2. s \in Seq(S \cup T) /\ t \in Seq(S \cup T)
  BY <1>1, SeqMonotonic
<1> QED
  BY <1>2, SeqEqual

\* The entries of a file, ports first.
LEMMA FileList ==
  ASSUME NEW c, Entries(c.ports), Entries(c.http)
  PROVE  \E m, l \in Nat :
            /\ m = Len(c.ports) /\ DOMAIN c.ports = 1 .. m
            /\ l = Len(c.http) /\ DOMAIN c.http = 1 .. l
            /\ IsList(c.ports \o c.http) /\ Len(c.ports \o c.http) = m + l
            /\ \A i \in 1 .. m : (c.ports \o c.http)[i] = c.ports[i]
            /\ \A i \in 1 .. l : (c.ports \o c.http)[m + i] = c.http[i]
<1>1. PICK p, h : p = c.ports /\ h = c.http
  OBVIOUS
<1>2. IsList(p) /\ IsList(h)
  BY <1>1 DEF Entries
<1>3. PICK m \in Nat : m = Len(p) /\ DOMAIN p = 1 .. m
  BY <1>2, ListLength
<1>4. PICK l \in Nat : l = Len(h) /\ DOMAIN h = 1 .. l
  BY <1>2, ListLength
<1>5. /\ IsList(p \o h) /\ Len(p \o h) = Len(p) + Len(h)
      /\ \A i \in 1 .. Len(p) + Len(h) : (p \o h)[i] = IF i <= Len(p) THEN p[i] ELSE h[i - Len(p)]
  BY <1>2, ListConcat
<1>6. \A i \in 1 .. m : i \in 1 .. m + l /\ i <= m
  OBVIOUS
<1>7. \A i \in 1 .. l : m + i \in 1 .. m + l /\ ~(m + i <= m) /\ (m + i) - m = i
  OBVIOUS
<1>8. \A i \in 1 .. m : (p \o h)[i] = p[i]
  BY <1>3, <1>4, <1>5, <1>6
<1>9. \A i \in 1 .. l : (p \o h)[m + i] = h[i]
  BY <1>3, <1>4, <1>5, <1>7
<1> QED
  BY <1>1, <1>3, <1>4, <1>5, <1>8, <1>9

\* Whatever the file says, the ids given at start are all different.
LEMMA AssignedDistinct ==
  ASSUME NEW c, Entries(c.ports), Entries(c.http)
  PROVE  Distinct(AssignIds(c))
<1>1. PICK all : all = c.ports \o c.http
  OBVIOUS
<1>2. PICK id : id = GivenIds(all)
  OBVIOUS
<1>3. PICK m, l \in Nat : /\ m = Len(c.ports) /\ l = Len(c.http)
                          /\ IsList(all) /\ Len(all) = m + l
  BY <1>1, FileList
<1>4. \A i, j \in 1 .. m + l : id[i] # NoId /\ (id[i] = id[j] => i = j)
  <2>1. \A i, j \in 1 .. Len(all) :
          /\ GivenIds(all)[i] # NoId
          /\ GivenIds(all)[i] = GivenIds(all)[j] => i = j
    BY <1>3, GivenIdsDiffer
  <2> QED
    BY <1>2, <1>3, <2>1
<1>5. PICK entries, http :
        /\ AssignIds(c) = [ports |-> entries, http |-> http]
        /\ Entries(entries) /\ Len(entries) = m
        /\ \A i \in 1 .. m : entries[i] = Under(c.ports[i], id[i])
        /\ Entries(http) /\ Len(http) = l
        /\ \A i \in 1 .. l : http[i] = Under(c.http[i], id[m + i])
  BY <1>1, <1>2, <1>3, AssignedEntries
<1>6. DOMAIN entries = 1 .. m /\ DOMAIN http = 1 .. l
  BY <1>5, ListLength DEF Entries
<1>7. \A e, x : IsEntry(e) => Under(e, x).id = x
  BY DEF IsEntry, Under
<1>8. \A i \in 1 .. m : entries[i].id = id[i]
  BY <1>3, <1>5, <1>7 DEF Entries
<1>9. \A i \in 1 .. l : http[i].id = id[m + i]
  BY <1>3, <1>5, <1>7 DEF Entries
<1>10. \A i \in 1 .. m : i \in 1 .. m + l
  OBVIOUS
<1>11. \A i \in 1 .. l : m + i \in 1 .. m + l /\ \A j \in 1 .. m : m + i # j
  OBVIOUS
<1>12. \A i, j \in 1 .. m : entries[i].id # NoId /\ (entries[i].id = entries[j].id => i = j)
  BY <1>4, <1>8, <1>10
<1>13. \A i, j \in 1 .. l : http[i].id # NoId /\ (http[i].id = http[j].id => i = j)
  <2>1. \A i, j \in 1 .. l : m + i = m + j => i = j
    OBVIOUS
  <2> QED
    BY <1>4, <1>9, <1>11, <2>1
<1>14. \A i \in 1 .. m, j \in 1 .. l : entries[i].id # http[j].id
  BY <1>4, <1>8, <1>9, <1>10, <1>11
<1>15. AssignIds(c).ports = entries /\ AssignIds(c).http = http
  BY <1>5
<1> QED
  BY <1>6, <1>12, <1>13, <1>14, <1>15 DEF Distinct, Kinds

\* What differs by kind and place differs by place in the file.
Listed(c, all) == all = c.ports \o c.http

LEMMA AllDiffer ==
  ASSUME NEW c, Entries(c.ports), Entries(c.http), Distinct(c), NEW all, Listed(c, all)
  PROVE  /\ \A i \in DOMAIN all : all[i].id # NoId
         /\ \A i, j \in DOMAIN all : i # j => all[i].id # all[j].id
<1>1. PICK m, l \in Nat :
        /\ DOMAIN c.ports = 1 .. m /\ DOMAIN c.http = 1 .. l
        /\ IsList(all) /\ Len(all) = m + l
        /\ \A i \in 1 .. m : all[i] = c.ports[i]
        /\ \A i \in 1 .. l : all[m + i] = c.http[i]
  BY FileList DEF Listed
<1>2. DOMAIN all = 1 .. m + l
  BY <1>1, ListLength
<1>3. PICK p, h : p = c.ports /\ h = c.http
  OBVIOUS
<1>4. /\ \A i \in 1 .. m : all[i] = p[i] /\ p[i].id # NoId
      /\ \A i, j \in 1 .. m : i # j => p[i].id # p[j].id
      /\ \A i \in 1 .. l : all[m + i] = h[i] /\ h[i].id # NoId
      /\ \A i, j \in 1 .. l : i # j => h[i].id # h[j].id
      /\ \A i \in 1 .. m, j \in 1 .. l : p[i].id # h[j].id
  BY <1>1, <1>3 DEF Distinct, Kinds
<1>5. ASSUME NEW i \in 1 .. m + l
      PROVE  \/ i \in 1 .. m /\ all[i] = p[i]
             \/ \E x \in 1 .. l : i = m + x /\ all[i] = h[x]
  <2>1. i \in 1 .. m \/ (i - m \in 1 .. l /\ i = m + (i - m))
    OBVIOUS
  <2> QED
    BY <1>4, <2>1
<1>6. ASSUME NEW i \in 1 .. m + l
      PROVE  all[i].id # NoId
  BY <1>4, <1>5
<1>7. ASSUME NEW i \in 1 .. m + l, NEW j \in 1 .. m + l, i # j
      PROVE  all[i].id # all[j].id
  <2>1. CASE i \in 1 .. m /\ all[i] = p[i]
    BY <1>4, <1>5, <1>7, <2>1
  <2>2. CASE \E x \in 1 .. l : i = m + x /\ all[i] = h[x]
    <3>1. PICK x \in 1 .. l : i = m + x /\ all[i] = h[x]
      BY <2>2
    <3>2. CASE j \in 1 .. m /\ all[j] = p[j]
      BY <1>4, <3>1, <3>2
    <3>3. CASE \E y \in 1 .. l : j = m + y /\ all[j] = h[y]
      BY <1>4, <1>7, <3>1, <3>3
    <3> QED
      BY <1>5, <3>2, <3>3
  <2> QED
    BY <1>5, <2>1, <2>2
<1> QED
  BY <1>2, <1>6, <1>7

\* Where all ids differ, every entry keeps its own.
OfKinds(c) == c = [k \in Kinds |-> c[k]]

LEMMA AssignedAgain ==
  ASSUME NEW c, OfKinds(c), \A k \in Kinds : Entries(c[k]), Distinct(c)
  PROVE  AssignIds(c) = c
<1>1. PICK p, h : p = c.ports /\ h = c.http
  OBVIOUS
<1>2. PICK all : all = c.ports \o c.http
  OBVIOUS
<1>3. PICK id : id = GivenIds(all)
  OBVIOUS
<1>4. Entries(c.ports) /\ Entries(c.http)
  BY DEF Kinds
<1>5. PICK m, l \in Nat :
        /\ m = Len(c.ports) /\ DOMAIN c.ports = 1 .. m
        /\ l = Len(c.http) /\ DOMAIN c.http = 1 .. l
        /\ IsList(all) /\ Len(all) = m + l
        /\ \A i \in 1 .. m : all[i] = c.ports[i]
        /\ \A i \in 1 .. l : all[m + i] = c.http[i]
  BY <1>2, <1>4, FileList
<1>6. /\ Entries(p) /\ m = Len(p) /\ Entries(h) /\ l = Len(h)
      /\ IsList(all) /\ Len(all) = m + l
      /\ \A i \in 1 .. m : all[i] = p[i]
      /\ \A i \in 1 .. l : all[m + i] = h[i]
  BY <1>1, <1>4, <1>5
<1>7. /\ \A i \in DOMAIN all : all[i].id # NoId
      /\ \A i, j \in DOMAIN all : i # j => all[i].id # all[j].id
  <2>1. Listed(c, all)
    BY <1>2 DEF Listed
  <2> QED
    BY <1>4, <2>1, AllDiffer
<1>8. DOMAIN all = 1 .. m + l
  BY <1>6, ListLength
<1>9. ASSUME NEW i \in 1 .. m + l
      PROVE  Keeps(all, i)
  <2>1. \A j \in 1 .. i - 1 : j \in 1 .. m + l /\ i # j
    OBVIOUS
  <2> QED
    BY <1>7, <1>8, <2>1 DEF Keeps
<1>10. \A i \in 1 .. m + l : id[i] = all[i].id
  <2>1. Given(all, m + l, id)
    BY <1>3, <1>6, IdsAreGiven
  <2> QED
    BY <1>9, <2>1 DEF Given
<1>11. PICK entries, http :
         /\ AssignIds(c) = [ports |-> entries, http |-> http]
         /\ Entries(entries) /\ Len(entries) = m
         /\ \A i \in 1 .. m : entries[i] = Under(c.ports[i], id[i])
         /\ Entries(http) /\ Len(http) = l
         /\ \A i \in 1 .. l : http[i] = Under(c.http[i], id[m + i])
  BY <1>2, <1>3, <1>4, <1>5, AssignedEntries
<1>12. \A e : IsEntry(e) => Under(e, e.id) = e
  BY DEF IsEntry, Under
<1>13. ASSUME NEW i \in 1 .. m
       PROVE  entries[i] = p[i]
  <2>1. i \in 1 .. m + l
    OBVIOUS
  <2>2. id[i] = p[i].id /\ IsEntry(p[i])
    BY <1>6, <1>10, <2>1 DEF Entries
  <2> QED
    BY <1>1, <1>11, <1>12, <2>2
<1>14. ASSUME NEW i \in 1 .. l
       PROVE  http[i] = h[i]
  <2>1. m + i \in 1 .. m + l
    OBVIOUS
  <2>2. id[m + i] = h[i].id /\ IsEntry(h[i])
    BY <1>6, <1>10, <2>1 DEF Entries
  <2> QED
    BY <1>1, <1>11, <1>12, <2>2
<1>15. entries = p
  BY <1>6, <1>11, <1>13, SameList DEF Entries
<1>16. http = h
  BY <1>6, <1>11, <1>14, SameList DEF Entries
<1> QED
  BY <1>1, <1>11, <1>15, <1>16 DEF Kinds, OfKinds

-----------------------------------------------------------------------------
(***************************************************************************)
(* The second invariant: with all ids different, what was saved is what a  *)
(* restart makes of it. A request keeps the ids apart, and saves what it   *)
(* changes.                                                                *)
(***************************************************************************)
Settled == Distinct(config') /\ (Save \/ UNCHANGED <<config, file>>) /\ alive' = alive

LEMMA SetEntrySettles ==
  ASSUME IInv, Distinct(config), NEW k \in Kinds, NEW i \in DOMAIN config[k],
         NEW data, IsEntry(data), NEW e,
         e = [data EXCEPT !.id = Claim(data, config[k][i].id)],
         Claimable(data.id, config[k][i].id),
         SetEntry(k, i, e)
  PROVE  Distinct(config')
<1>1. e.id = Claim(data, config[k][i].id)
  BY DEF IsEntry
<1>2. PICK current : current = config[k][i].id
  OBVIOUS
<1>3. (Claim(data, current) = current /\ current # NoId) \/ Fresh(Claim(data, current))
  BY <1>2, ClaimIsFree
<1>4. e.id = config[k][i].id \/ Fresh(e.id)
  BY <1>1, <1>2, <1>3
<1> HIDE DEF Claimable
<1> QED
  BY <1>4, ChangedStaysDistinct

LEMMA AddSettles ==
  ASSUME IInv, Distinct(config), NEW k \in Kinds, NEW data, IsEntry(data), NEW e,
         e = [data EXCEPT !.id = Claim(data, NoId)],
         Claimable(data.id, NoId),
         Relisted(k, Append(config[k], e))
  PROVE  Distinct(config')
<1>1. e.id = Claim(data, NoId)
  BY DEF IsEntry
<1>2. Fresh(e.id)
  BY <1>1, ClaimIsFree
<1> QED
  BY <1>2, AddedStaysDistinct

LEMMA UpdateSettles ==
  ASSUME IInv, Distinct(config), NEW k \in Kinds, NEW i \in DOMAIN config[k], NEW data \in Requests[k],
         IF k = "ports" THEN PortsUpdate(i, data) ELSE HttpUpdate(i, data)
  PROVE  Settled
<1>1. IsEntry(data)
  BY RequestsAreEntries
<1>2. PICK e : e = [data EXCEPT !.id = Claim(data, config[k][i].id)]
  OBVIOUS
<1>3. /\ Claimable(data.id, config[k][i].id)
      /\ (SetEntry(k, i, e) /\ Save) \/ UNCHANGED <<config, file>>
      /\ alive' = alive
  <2>1. CASE k = "ports"
    BY <1>2, <2>1 DEF PortsUpdate, UpdateServers, RebuildPort
  <2>2. CASE k = "http"
    BY <1>2, <2>2 DEF HttpUpdate
  <2> QED
    BY <2>1, <2>2 DEF Kinds
<1>4. CASE SetEntry(k, i, e) /\ Save
  BY <1>1, <1>2, <1>3, <1>4, SetEntrySettles DEF Settled
<1>5. CASE UNCHANGED <<config, file>>
  BY <1>3, <1>5 DEF Settled
<1> QED
  BY <1>3, <1>4, <1>5

LEMMA RequestSettles ==
  ASSUME IInv, Distinct(config), [Next]_vars, ~Start, ~Stop, ~Restore
  PROVE  Settled
<1>1. ASSUME NEW k \in Kinds, NEW data \in Requests[k],
             IF k = "ports" THEN PortsAdd(data) ELSE HttpAdd(data)
      PROVE  Settled
  <2>1. IsEntry(data)
    BY RequestsAreEntries
  <2>2. PICK e : e = [data EXCEPT !.id = Claim(data, NoId)]
    OBVIOUS
  <2>3. /\ config' = [config EXCEPT ![k] = Append(@, e)] /\ Claimable(data.id, NoId) /\ Save
        /\ alive' = alive
    BY <1>1, <2>2 DEF PortsAdd, HttpAdd, Kinds
  <2>4. Relisted(k, Append(config[k], e))
    BY <2>3, ConfigIsLists DEF Relisted
  <2> QED
    BY <2>1, <2>2, <2>3, <2>4, AddSettles DEF Settled
<1>2. ASSUME NEW k \in Kinds, NEW i \in DOMAIN config[k], NEW data \in Requests[k],
             Submit(k, i, data) \/ Put(k, i, data)
      PROVE  Settled
  BY <1>2, UpdateSettles DEF Submit, Put
<1>3. ASSUME NEW k \in Kinds, NEW i \in DOMAIN config[k], NEW j \in DOMAIN config[k],
             NEW after \in BOOLEAN, Move(k, i, j, after)
      PROVE  Settled
  <2>1. /\ i # j /\ config' = [config EXCEPT ![k] = Moved(@, i, j, after)] /\ Save
        /\ alive' = alive
    BY <1>3 DEF Move
  <2>2. Relisted(k, Moved(config[k], i, j, after))
    BY <2>1, ConfigIsLists DEF Relisted
  <2> QED
    BY <2>1, <2>2, MovedStaysDistinct DEF Settled
<1>4. ASSUME NEW k \in Kinds, NEW i \in DOMAIN config[k],
             IF k = "ports" THEN PortsDelete(i) ELSE HttpDelete(i)
      PROVE  Settled
  <2>1. alive' = alive
    BY <1>4 DEF PortsDelete, HttpDelete, Kinds
  <2>2. CASE config' = [config EXCEPT ![k] = RemoveAt(@, i)] /\ Save
    <3>1. Relisted(k, RemoveAt(config[k], i))
      BY <2>2, ConfigIsLists DEF Relisted
    <3> QED
      BY <2>2, <2>1, <3>1, RemovedStaysDistinct DEF Settled
  <2>3. CASE UNCHANGED <<config, file>>
    BY <2>3, <2>1 DEF Settled
  <2> QED
    BY <1>4, <2>2, <2>3 DEF PortsDelete, HttpDelete, Kinds
<1>5. ASSUME UNCHANGED <<alive, config, file>>
      PROVE  Settled
  BY <1>5 DEF Settled
<1>6. CASE Abandon \/ UNCHANGED vars
  BY <1>5, <1>6 DEF Abandon, vars
<1>7. ASSUME NEW k \in Kinds, NEW i \in DOMAIN config[k], Open(k, i)
      PROVE  Settled
  BY <1>5, <1>7 DEF Open
<1>8. ASSUME NEW i \in DOMAIN config.ports, Watch(i)
      PROVE  Settled
  BY <1>5, <1>8 DEF Watch
<1>9. "ports" \in Kinds /\ "http" \in Kinds
  BY DEF Kinds
<1>10. ASSUME NEW i \in DOMAIN config.ports, PortsDelete(i)
       PROVE  Settled
  BY <1>4, <1>9, <1>10
<1>11. ASSUME NEW i \in DOMAIN config.http, HttpDelete(i)
       PROVE  Settled
  BY <1>4, <1>9, <1>11
<1>12. ASSUME NEW data \in Requests.ports, PortsAdd(data)
       PROVE  Settled
  BY <1>1, <1>9, <1>12
<1>13. ASSUME NEW data \in Requests.http, HttpAdd(data)
       PROVE  Settled
  BY <1>1, <1>9, <1>13
<1> QED
  BY <1>2, <1>3, <1>6, <1>7, <1>8, <1>10, <1>11, <1>12, <1>13 DEF Next

RInv == IInv /\ Distinct(config) /\ RestartKeepsConfig

LEMMA AssignedConfig ==
  ASSUME NEW c, OfKinds(c), \A k \in Kinds : Entries(c[k]), Distinct(c)
  PROVE  c # Broken /\ AssignIds(c) = c
<1>1. AssignIds(c) = c
  BY AssignedAgain
<1>2. "ports" \in DOMAIN c
  BY DEF OfKinds, Kinds
<1>3. "ports" \notin DOMAIN Broken
  BY DEF Broken
<1> QED
  BY <1>1, <1>2, <1>3

LEMMA RInvKept ==
  ASSUME RInv, [Next]_vars
  PROVE  RInv'
<1>1. IInv'
  BY NextKeeps DEF RInv
<1>2. IInv /\ Distinct(config) /\ RestartKeepsConfig
  BY DEF RInv
<1>3. CASE Start
  <2>1. config' = AssignIds(disk) /\ disk # Broken /\ disk' = disk
    BY <1>3 DEF Start
  <2>2. Entries(disk.ports) /\ Entries(disk.http)
    BY <1>2, <2>1 DEF IInv, FileOfEntries, Kinds
  <2>3. Distinct(config')
    BY <2>1, <2>2, AssignedDistinct
  <2> QED
    BY <1>1, <2>1, <2>3 DEF RInv, RestartKeepsConfig
<1>4. CASE Stop
  <2>1. alive' = FALSE /\ \A k \in Kinds : config'[k] = <<>>
    BY <1>4 DEF Stop
  <2>2. Distinct(config')
    BY <2>1 DEF Distinct
  <2> QED
    BY <1>1, <2>1, <2>2 DEF RInv, RestartKeepsConfig
<1>5. CASE Restore
  BY <1>1, <1>2, <1>5 DEF Restore, RInv, RestartKeepsConfig
<1>6. CASE ~Start /\ ~Stop /\ ~Restore
  <2>1. Settled
    BY <1>2, <1>6, RequestSettles
  <2>2. CASE Save
    <3>1. config' # Broken /\ AssignIds(config') = config'
      <4>1. PICK c : c = config'
        OBVIOUS
      <4>2. OfKinds(c) /\ \A k \in Kinds : Entries(c[k])
        BY <1>1, <4>1 DEF IInv, AllPaired, Pairs, Pair, Entries, OfKinds
      <4>3. Distinct(c)
        BY <2>1, <4>1 DEF Settled
      <4> QED
        BY <4>1, <4>2, <4>3, AssignedConfig
    <3>2. saved' => disk' = config'
      BY <2>2 DEF Save
    <3> QED
      BY <1>1, <2>1, <3>1, <3>2 DEF RInv, RestartKeepsConfig, Settled
  <2>3. CASE UNCHANGED <<config, file>>
    BY <1>1, <1>2, <2>1, <2>3 DEF RInv, RestartKeepsConfig, Settled, file
  <2> QED
    BY <2>1, <2>2, <2>3 DEF Settled
<1> QED
  BY <1>3, <1>4, <1>5, <1>6

LEMMA RInvHolds == Spec => []RInv
<1>1. ASSUME Init
      PROVE  RInv
  <2>1. \A k \in Kinds : config[k] = <<>>
    BY <1>1 DEF Init
  <2>2. Distinct(config)
    BY <2>1 DEF Distinct
  <2> QED
    BY <1>1, <2>2, InitEstablishes DEF RInv, RestartKeepsConfig, Init
<1>2. RInv /\ [Next]_vars => RInv'
  BY RInvKept
<1> QED
  BY <1>1, <1>2, PTL DEF Spec

(***************************************************************************)
(* Ports and HTTP servers share one namespace: no two entries answer to    *)
(* the same id, whatever the file said and whatever was asked for.         *)
(***************************************************************************)
THEOREM OneNamespace == Spec => []IdsDistinct
<1>1. ASSUME RInv
      PROVE  IdsDistinct
  <2>1. PICK c : c = config
    OBVIOUS
  <2>2. Entries(c.ports) /\ Entries(c.http) /\ Distinct(c)
    BY <1>1, <2>1, ConfigIsLists DEF RInv, Kinds
  <2>3. PICK all : all = c.ports \o c.http
    OBVIOUS
  <2>4. /\ \A i \in DOMAIN all : all[i].id # NoId
        /\ \A i, j \in DOMAIN all : i # j => all[i].id # all[j].id
    <3>1. Listed(c, all)
      BY <2>3 DEF Listed
    <3> QED
      BY <2>2, <3>1, AllDiffer
  <2> QED
    BY <2>1, <2>3, <2>4 DEF IdsDistinct
<1> QED
  BY <1>1, RInvHolds, PTL

(***************************************************************************)
(* While writing the file works, a restart brings back the configuration   *)
(* that runs, every entry under the id it has now.                         *)
(***************************************************************************)
THEOREM RestartBringsBack == Spec => []RestartKeepsConfig
<1>1. RInv => RestartKeepsConfig
  BY DEF RInv
<1> QED
  BY <1>1, RInvHolds, PTL

-----------------------------------------------------------------------------
(***************************************************************************)
(* The status stream: what a page shows, once differences are all it is    *)
(* sent                                                                    *)
(***************************************************************************)
\* Ports as they are reported: no two of one id.
Listing(l) ==
    /\ l \in Seq(Port)
    /\ \A i, j \in 1 .. Len(l) : l[i].id = l[j].id => i = j

LEMMA ListingIsList ==
  ASSUME NEW l, Listing(l)
  PROVE  /\ IsList(l) /\ Len(l) \in Nat /\ DOMAIN l = 1 .. Len(l)
         /\ \A i \in 1 .. Len(l) : l[i] \in Port
BY ListLength, ElementOfSeq DEF Listing, IsList

\* A list is a listing if its elements are ports of different ids.
LEMMA IsListing ==
  ASSUME NEW l, IsList(l),
         \A i \in 1 .. Len(l) : l[i] \in Port,
         \A i, j \in 1 .. Len(l) : l[i].id = l[j].id => i = j
  PROVE  Listing(l)
<1>1. PICK S : l \in Seq(S)
  BY DEF IsList
<1>2. l \in [1 .. Len(l) -> Port] /\ Len(l) \in Nat
  BY <1>1
<1>3. l \in Seq(Port)
  BY <1>2
<1> QED
  BY <1>3 DEF Listing

LEMMA ListingNone == Listing(<<>>)
BY DEF Listing

\* The port in question is not the absence of one.
LEMMA PortNotMissing ==
  ASSUME NEW q \in Port
  PROVE  q # Missing
<1>1. "state" \in DOMAIN q
  BY DEF Port
<1>2. "state" \notin DOMAIN Missing
  BY DEF Missing
<1> QED
  BY <1>1, <1>2

\* One difference per port turns what was delivered into what is reported.
LEMMA PatchedIsNow ==
  ASSUME NEW last, Listing(last), NEW now, Listing(now),
         ListedIds(last) = ListedIds(now)
  PROVE  Patched(last, last, now) = now
<1>1. /\ DOMAIN last = 1 .. Len(last) /\ DOMAIN now = 1 .. Len(now)
      /\ Len(now) \in Nat /\ Len(last) \in Nat /\ IsList(now)
  BY ListingIsList
<1>2. DOMAIN last = DOMAIN now /\ \A i \in DOMAIN now : last[i].id = now[i].id
  <2>1. DOMAIN ListedIds(last) = DOMAIN last /\ DOMAIN ListedIds(now) = DOMAIN now
    BY DEF ListedIds
  <2>2. ASSUME NEW i \in DOMAIN now
        PROVE  last[i].id = now[i].id
    <3>1. ListedIds(last)[i] = ListedIds(now)[i] /\ i \in DOMAIN last
      BY <2>1
    <3> QED
      BY <3>1 DEF ListedIds
  <2> QED
    BY <2>1, <2>2
<1>3. \A i, j \in DOMAIN now : now[i].id = now[j].id => i = j
  BY <1>1 DEF Listing
<1> DEFINE changed == {now[i] : i \in {j \in DOMAIN now : last[j] # now[j]}}
           this(i) == IF \E q \in changed : q.id = last[i].id
                        THEN CHOOSE q \in changed : q.id = last[i].id ELSE last[i]
<1>4. Patched(last, last, now) = [i \in DOMAIN last |-> this(i)]
  BY DEF Patched
<1>5. ASSUME NEW i \in DOMAIN now
      PROVE  this(i) = now[i]
  <2>1. ASSUME NEW q \in changed, q.id = last[i].id
        PROVE  q = now[i] /\ last[i] # now[i]
    <3>1. PICK j \in DOMAIN now : last[j] # now[j] /\ q = now[j]
      OBVIOUS
    <3>2. j = i
      BY <2>1, <3>1, <1>2, <1>3
    <3> QED
      BY <3>1, <3>2
  <2>2. CASE last[i] = now[i]
    BY <2>1, <2>2
  <2>3. CASE last[i] # now[i]
    <3>1. now[i] \in changed /\ now[i].id = last[i].id
      BY <2>3, <1>2
    <3> HIDE DEF changed
    <3>2. (CHOOSE q \in changed : q.id = last[i].id) = now[i]
      BY <3>1, <2>1
    <3> QED
      BY <3>1, <3>2
  <2> QED
    BY <2>2, <2>3
<1> HIDE DEF this, changed
<1>6. now = [i \in DOMAIN now |-> now[i]]
  BY <1>1 DEF Listing
<1> QED
  BY <1>2, <1>4, <1>5, <1>6

LEMMA ViewOfListing ==
  ASSUME NEW l, Listing(l)
  PROVE  View(l) \in Port \cup {Missing}
BY ListingIsList DEF View

\* What a stream and a page are made of.
StreamOf ==
    [on : {TRUE}, mode : Modes, with : Credentials \cup {NoCredential},
     admin : BOOLEAN, quiet : BOOLEAN, last : Seq(Port) \cup {<<Missing>>}]
PageOf == [gone : BOOLEAN, admin : BOOLEAN, shows : Seq(Port) \cup {<<Missing>>}]

\* Delivered are the ports as they were listed, or a single one, or nothing.
Delivered(s) ==
    IF s.mode = "all" THEN s.last = <<Missing>> \/ Listing(s.last)
    ELSE \E x \in Port \cup {Missing} : s.last = <<x>>

Streams(s) == s = Off \/ (s \in StreamOf /\ Delivered(s))

\* PagesHoldDelivered, of one page.
Holds(s, q) == s.on /\ ~q.gone => q.shows = s.last \/ s.last = <<Missing>>

SInv ==
    /\ Listing(ports) /\ Len(ports) <= MaxReported
    /\ right \in [Credentials -> Rights] /\ open \in BOOLEAN
    /\ stream = [p \in Pages |-> stream[p]] /\ page = [p \in Pages |-> page[p]]
    /\ \A p \in Pages : Streams(stream[p]) /\ page[p] \in PageOf /\ Holds(stream[p], page[p])

LEMMA OneListed ==
  ASSUME NEW x \in Port \cup {Missing}
  PROVE  <<x>> \in Seq(Port) \cup {<<Missing>>} /\ <<x>>[1] = x
OBVIOUS

LEMMA MissingAlone ==
  ASSUME NEW l, Listing(l)
  PROVE  l # <<Missing>>
<1>1. CASE l = <<Missing>>
  <2>1. Len(l) = 1 /\ l[1] = Missing
    BY <1>1
  <2>2. l[1] \in Port
    BY <2>1, ListingIsList
  <2> QED
    BY <2>1, <2>2, PortNotMissing
<1> QED
  BY <1>1

LEMMA RecheckedStream ==
  ASSUME NEW s \in StreamOf, Delivered(s)
  PROVE  /\ Rechecked(s) \in StreamOf /\ Delivered(Rechecked(s))
         /\ Rechecked(s).mode = s.mode
         /\ \/ Rechecked(s) = s
            \/ Rechecked(s).last = <<Missing>>
<1>1. Admin(s.with) \in BOOLEAN
  BY DEF Admin
<1>2. CASE open \/ Admin(s.with) = s.admin
  BY <1>2 DEF Rechecked
<1>3. CASE ~(open \/ Admin(s.with) = s.admin)
  <2>1. Rechecked(s) =
            [s EXCEPT !.admin = Admin(s.with), !.last = <<Missing>>]
    BY <1>3 DEF Rechecked, Everything
  <2> QED
    BY <1>1, <2>1 DEF StreamOf, Delivered
<1> QED
  BY <1>2, <1>3

\* What a pass leaves of a stream and its page.
LEMMA PassHolds ==
  ASSUME Listing(ports), NEW p \in Pages,
         stream[p] \in StreamOf, Delivered(stream[p]),
         page[p] \in PageOf, Holds(stream[p], page[p])
  PROVE  /\ Streams(Pass(p).stream) /\ Pass(p).page \in PageOf
         /\ Holds(Pass(p).stream, Pass(p).page)
<1>1. PICK s : s = Rechecked(stream[p])
  OBVIOUS
<1>2. /\ s \in StreamOf /\ Delivered(s) /\ s.mode = stream[p].mode
      /\ s = stream[p] \/ s.last = <<Missing>>
  BY <1>1, RecheckedStream
<1>3. PICK q : q = page[p]
  OBVIOUS
<1>4. PICK lines : lines = IF s.mode = "all" THEN LinesForAll(s, q)
                                            ELSE LinesForOne(s, q)
  OBVIOUS
<1>5. PICK now : now = IF s.mode = "all" THEN ports ELSE <<View(ports)>>
  OBVIOUS
<1>6. /\ now \in Seq(Port) \cup {<<Missing>>}
      /\ IF s.mode = "all" THEN Listing(now)
         ELSE \E x \in Port \cup {Missing} : now = <<x>>
  BY <1>5, ViewOfListing, OneListed DEF Listing
<1>7. ASSUME ~q.gone
      PROVE  lines.page \in PageOf /\ ~lines.page.gone
             /\ (lines.page.shows = now \/ now = <<Missing>>)
  <2>1. (s = stream[p] /\ q.shows = s.last) \/ s.last = <<Missing>>
    BY <1>2, <1>3, <1>7 DEF Holds, StreamOf
  <2>2. q \in PageOf /\ s.admin \in BOOLEAN
    BY <1>2, <1>3 DEF StreamOf
  <2>3. CASE s.mode = "all"
    <3>1. now = ports /\ lines = LinesForAll(s, q) /\ ports \in Seq(Port)
      BY <1>4, <1>5, <2>3 DEF Listing
    <3>2. CASE ~SamePortIds(s.last, ports)
      <4>1. lines.page = [q EXCEPT !.shows = ports, !.admin = s.admin]
        BY <3>1, <3>2 DEF LinesForAll
      <4> QED
        BY <1>7, <2>2, <3>1, <4>1 DEF PageOf
    <3>3. CASE SamePortIds(s.last, ports)
      <4>1. s.last # <<Missing>> /\ ListedIds(s.last) = ListedIds(ports)
        BY <3>3 DEF SamePortIds, Everything
      <4>2. Listing(s.last) /\ q.shows = s.last
        BY <1>2, <2>1, <2>3, <4>1 DEF Delivered
      <4>3. Patched(q.shows, s.last, ports) = ports
        BY <4>1, <4>2, PatchedIsNow
      <4>4. lines.page = [q EXCEPT !.shows = Patched(q.shows, s.last, ports)]
        BY <3>1, <3>3 DEF LinesForAll
      <4> QED
        BY <1>7, <2>2, <3>1, <4>3, <4>4 DEF PageOf
    <3> QED
      BY <3>2, <3>3
  <2>4. CASE s.mode # "all"
    <3>1. PICK one : one = View(ports)
      OBVIOUS
    <3>2. now = <<one>> /\ lines = LinesForOne(s, q)
      BY <1>4, <1>5, <2>4, <3>1
    <3>3. PICK x \in Port \cup {Missing} : s.last = <<x>>
      BY <1>2, <2>4 DEF Delivered
    <3>4. s.last[1] = x
      BY <3>3
    <3>5. CASE one = Missing /\ x # Missing
      <4>1. lines.page = [q EXCEPT !.shows = <<Missing>>]
        BY <3>1, <3>2, <3>4, <3>5 DEF LinesForOne
      <4> QED
        BY <1>7, <2>2, <3>2, <3>5, <4>1 DEF PageOf
    <3>6. CASE one # Missing /\ x = Missing
      <4>1. lines.page = [q EXCEPT !.shows = <<one>>, !.admin = s.admin]
        BY <3>1, <3>2, <3>4, <3>6 DEF LinesForOne
      <4> QED
        BY <1>7, <1>6, <2>2, <3>2, <3>6, <4>1 DEF PageOf
    <3>7. CASE one # Missing /\ x # Missing /\ one # x
      <4>1. lines.page = [q EXCEPT !.shows = <<one>>]
        BY <3>1, <3>2, <3>4, <3>7 DEF LinesForOne
      <4> QED
        BY <1>7, <1>6, <2>2, <3>2, <3>7, <4>1 DEF PageOf
    <3>8. CASE one = x
      <4>1. lines.page = q
        BY <3>1, <3>2, <3>4, <3>8 DEF LinesForOne
      <4>2. q.shows = now \/ now = <<Missing>>
        BY <2>1, <3>2, <3>3, <3>8
      <4> QED
        BY <1>7, <2>2, <4>1, <4>2
    <3> QED
      BY <3>5, <3>6, <3>7, <3>8
  <2> QED
    BY <2>3, <2>4
<1>8. PICK sent \in BOOLEAN : sent = (lines.sent \/ Heartbeat(s))
  OBVIOUS
<1>9. PICK over \in BOOLEAN :
         over = (~StillAuthorised(stream[p]) \/ (sent /\ page[p].gone))
  OBVIOUS
<1>10. CASE over
  <2>1. Pass(p) = [stream |-> Off, page |-> page[p]]
    BY <1>1, <1>3, <1>4, <1>8, <1>9, <1>10 DEF Pass
  <2> QED
    BY <2>1 DEF Streams, Holds, Off
<1>11. CASE ~over
  <2>1. Pass(p) = [stream |-> [s EXCEPT !.quiet = @ /\ ~sent, !.last = now],
                          page |-> IF q.gone THEN q ELSE lines.page]
    BY <1>1, <1>3, <1>4, <1>5, <1>8, <1>9, <1>11 DEF Pass
  <2>2. PICK t : t = [s EXCEPT !.quiet = @ /\ ~sent, !.last = now]
    OBVIOUS
  <2>3. t \in StreamOf /\ t.mode = s.mode /\ t.last = now
    BY <1>2, <1>6, <2>2 DEF StreamOf
  <2>4. Delivered(t)
    BY <1>6, <2>3 DEF Delivered
  <2>5. CASE q.gone
    <3>1. Pass(p).stream = t /\ Pass(p).page = q
      BY <2>1, <2>2, <2>5
    <3> QED
      BY <1>3, <2>3, <2>4, <2>5, <3>1 DEF Streams, Holds
  <2>6. CASE ~q.gone
    <3>1. Pass(p).stream = t /\ Pass(p).page = lines.page
      BY <2>1, <2>2, <2>6
    <3> QED
      BY <1>7, <2>3, <2>4, <2>6, <3>1 DEF Streams, Holds
  <2> QED
    BY <2>5, <2>6
<1> QED
  BY <1>10, <1>11

\* A listing with another state, another id, one more, one less, or moved.
LEMMA ListingWith ==
  ASSUME NEW l, Listing(l), NEW i \in 1 .. Len(l), NEW q \in Port,
         \A j \in 1 .. Len(l) : l[j].id = q.id => j = i
  PROVE  Listing(With(l, i, q)) /\ Len(With(l, i, q)) = Len(l)
<1>1. /\ IsList(l) /\ Len(l) \in Nat
      /\ \A j \in 1 .. Len(l) : l[j] \in Port
  BY ListingIsList
<1>2. PICK m : m = With(l, i, q)
  OBVIOUS
<1>3. /\ IsList(m) /\ Len(m) = Len(l)
      /\ \A j \in 1 .. Len(l) : m[j] = IF j = i THEN q ELSE l[j]
  BY <1>1, <1>2, ListWith
<1>4. \A j \in 1 .. Len(m) : m[j] \in Port
  BY <1>1, <1>3
<1>5. ASSUME NEW j \in 1 .. Len(m), NEW k \in 1 .. Len(m), m[j].id = m[k].id
      PROVE  j = k
  BY <1>3, <1>5 DEF Listing
<1> QED
  BY <1>2, <1>3, <1>4, <1>5, IsListing

LEMMA ListingAppend ==
  ASSUME NEW l, Listing(l), NEW q \in Port,
         \A j \in 1 .. Len(l) : l[j].id # q.id
  PROVE  Listing(Append(l, q)) /\ Len(Append(l, q)) = Len(l) + 1
<1>1. /\ IsList(l) /\ Len(l) \in Nat
      /\ \A j \in 1 .. Len(l) : l[j] \in Port
  BY ListingIsList
<1>2. PICK m : m = Append(l, q)
  OBVIOUS
<1>3. /\ IsList(m) /\ Len(m) = Len(l) + 1 /\ m[Len(l) + 1] = q
      /\ \A j \in 1 .. Len(l) : m[j] = l[j]
  BY <1>1, <1>2, ListAppend
<1>4. \A j \in 1 .. Len(m) : j \in 1 .. Len(l) \/ j = Len(l) + 1
  BY <1>1, <1>3
<1>5. \A j \in 1 .. Len(m) : m[j] \in Port
  BY <1>1, <1>3, <1>4
<1>6. ASSUME NEW j \in 1 .. Len(m), NEW k \in 1 .. Len(m), m[j].id = m[k].id
      PROVE  j = k
  BY <1>3, <1>4, <1>6 DEF Listing
<1> QED
  BY <1>2, <1>3, <1>5, <1>6, IsListing

LEMMA ListingRemove ==
  ASSUME NEW l, Listing(l), NEW i \in 1 .. Len(l)
  PROVE  /\ Listing(RemoveAt(l, i)) /\ Len(RemoveAt(l, i)) = Len(l) - 1
         /\ \A j \in 1 .. Len(l) - 1 : RemoveAt(l, i)[j].id # l[i].id
<1>1. /\ IsList(l) /\ Len(l) \in Nat
      /\ \A j \in 1 .. Len(l) : l[j] \in Port
  BY ListingIsList
<1>2. PICK m : m = RemoveAt(l, i)
  OBVIOUS
<1>3. /\ IsList(m) /\ Len(m) = Len(l) - 1
      /\ \A j \in 1 .. Len(l) - 1 : m[j] = IF j < i THEN l[j] ELSE l[j + 1]
  BY <1>1, <1>2, ListRemove
<1>4. ASSUME NEW j \in 1 .. Len(m)
      PROVE  \E x \in 1 .. Len(l) : x # i /\ m[j] = l[x] /\ x = IF j < i THEN j ELSE j + 1
  BY <1>1, <1>3
<1>5. \A j \in 1 .. Len(m) : m[j] \in Port
  BY <1>1, <1>4
<1>6. ASSUME NEW j \in 1 .. Len(m), NEW k \in 1 .. Len(m), m[j].id = m[k].id
      PROVE  j = k
  <2>1. PICK x \in 1 .. Len(l) : m[j] = l[x] /\ x = IF j < i THEN j ELSE j + 1
    BY <1>4
  <2>2. PICK y \in 1 .. Len(l) : m[k] = l[y] /\ y = IF k < i THEN k ELSE k + 1
    BY <1>4
  <2>3. x = y
    BY <1>6, <2>1, <2>2 DEF Listing
  <2> QED
    BY <1>1, <1>3, <2>1, <2>2, <2>3
<1>7. ASSUME NEW j \in 1 .. Len(m)
      PROVE  m[j].id # l[i].id
  BY <1>4 DEF Listing
<1>8. Listing(m)
  BY <1>3, <1>5, <1>6, IsListing
<1> QED
  BY <1>2, <1>3, <1>7, <1>8

LEMMA ListingInsert ==
  ASSUME NEW l, Listing(l), NEW i \in 1 .. Len(l) + 1, NEW q \in Port,
         \A j \in 1 .. Len(l) : l[j].id # q.id
  PROVE  Listing(InsertAt(l, i, q)) /\ Len(InsertAt(l, i, q)) = Len(l) + 1
<1>1. /\ IsList(l) /\ Len(l) \in Nat
      /\ \A j \in 1 .. Len(l) : l[j] \in Port
  BY ListingIsList
<1>2. PICK m : m = InsertAt(l, i, q)
  OBVIOUS
<1>3. /\ IsList(m) /\ Len(m) = Len(l) + 1
      /\ \A j \in 1 .. Len(l) + 1 :
            m[j] = IF j < i THEN l[j] ELSE IF j = i THEN q ELSE l[j - 1]
  BY <1>1, <1>2, ListInsert
<1>4. ASSUME NEW j \in 1 .. Len(m)
      PROVE  \/ j = i /\ m[j] = q
             \/ /\ j # i
                /\ \E x \in 1 .. Len(l) : m[j] = l[x] /\ x = IF j < i THEN j ELSE j - 1
  BY <1>1, <1>3
<1>5. \A j \in 1 .. Len(m) : m[j] \in Port
  BY <1>1, <1>4
<1>6. ASSUME NEW j \in 1 .. Len(m), NEW k \in 1 .. Len(m), m[j].id = m[k].id
      PROVE  j = k
  <2>1. CASE j # i /\ k # i
    <3>1. PICK x \in 1 .. Len(l) : m[j] = l[x] /\ x = IF j < i THEN j ELSE j - 1
      BY <1>4, <2>1
    <3>2. PICK y \in 1 .. Len(l) : m[k] = l[y] /\ y = IF k < i THEN k ELSE k - 1
      BY <1>4, <2>1
    <3>3. x = y
      BY <1>6, <3>1, <3>2 DEF Listing
    <3> QED
      BY <1>1, <1>3, <2>1, <3>1, <3>2, <3>3
  <2>2. CASE j = i \/ k = i
    BY <1>4, <1>6, <2>2
  <2> QED
    BY <2>1, <2>2
<1> QED
  BY <1>2, <1>3, <1>5, <1>6, IsListing

\* The ports, whatever is done to them.
LEMMA ReportLists ==
  ASSUME Listing(ports), NEW i \in DOMAIN ports, NEW state \in States,
         ports' = [ports EXCEPT ![i].state = state]
  PROVE  Listing(ports') /\ Len(ports') = Len(ports)
<1>1. /\ i \in 1 .. Len(ports)
      /\ \A j \in 1 .. Len(ports) : ports[j] \in Port
  BY ListingIsList
<1>2. PICK q : q = [ports[i] EXCEPT !.state = state]
  OBVIOUS
<1>3. q \in Port /\ q.id = ports[i].id
  BY <1>1, <1>2 DEF Port
<1>4. ports' = With(ports, i, q)
  BY <1>2 DEF With
<1>5. \A j \in 1 .. Len(ports) : ports[j].id = q.id => j = i
  BY <1>1, <1>3 DEF Listing
<1>6. Listing(With(ports, i, q)) /\ Len(With(ports, i, q)) = Len(ports)
  BY <1>1, <1>3, <1>5, ListingWith
<1> QED
  BY <1>4, <1>6

LEMMA ReconfigureLists ==
  ASSUME Listing(ports), Len(ports) <= MaxReported, MaxReported \in Nat, Reconfigure
  PROVE  Listing(ports') /\ Len(ports') <= MaxReported
<1>1. /\ IsList(ports) /\ Len(ports) \in Nat /\ DOMAIN ports = 1 .. Len(ports)
      /\ \A j \in 1 .. Len(ports) : ports[j] \in Port
  BY ListingIsList
<1>2. ASSUME NEW id \in FreeIds, NEW state \in States, Len(ports) < MaxReported,
             ports' = Append(ports, [id |-> id, state |-> state])
      PROVE  Listing(ports') /\ Len(ports') <= MaxReported
  <2>1. PICK q : q = [id |-> id, state |-> state]
    OBVIOUS
  <2>2. q \in Port /\ q.id = id
    BY <2>1 DEF Port, FreeIds
  <2>3. \A j \in 1 .. Len(ports) : ports[j].id # q.id
    BY <1>1, <2>2 DEF FreeIds, ListedIds, ToSet
  <2> QED
    BY <1>1, <1>2, <2>1, <2>2, <2>3, ListingAppend
<1>3. ASSUME NEW id \in FreeIds, NEW i \in DOMAIN ports,
             ports' = [ports EXCEPT ![i].id = id]
      PROVE  Listing(ports') /\ Len(ports') <= MaxReported
  <2>1. PICK q : q = [ports[i] EXCEPT !.id = id]
    OBVIOUS
  <2>2. q \in Port /\ q.id = id
    BY <1>1, <2>1 DEF Port, FreeIds
  <2>3. \A j \in 1 .. Len(ports) : ports[j].id # q.id
    BY <1>1, <2>2 DEF FreeIds, ListedIds, ToSet
  <2>4. ports' = With(ports, i, q)
    BY <1>3, <2>1 DEF With
  <2> QED
    BY <1>1, <2>2, <2>3, <2>4, ListingWith
<1>4. ASSUME NEW i \in DOMAIN ports, ports' = RemoveAt(ports, i)
      PROVE  Listing(ports') /\ Len(ports') <= MaxReported
  BY <1>1, <1>4, ListingRemove
<1>5. ASSUME NEW i \in DOMAIN ports, NEW j \in 1 .. Len(ports),
             ports' = InsertAt(RemoveAt(ports, i), j, ports[i])
      PROVE  Listing(ports') /\ Len(ports') <= MaxReported
  <2>1. PICK rest : rest = RemoveAt(ports, i)
    OBVIOUS
  <2>2. /\ Listing(rest) /\ Len(rest) = Len(ports) - 1
        /\ \A x \in 1 .. Len(ports) - 1 : rest[x].id # ports[i].id
    BY <1>1, <2>1, ListingRemove
  <2>3. j \in 1 .. Len(rest) + 1 /\ ports[i] \in Port /\ Len(rest) + 1 = Len(ports)
    BY <1>1, <2>2
  <2>4. /\ Listing(InsertAt(rest, j, ports[i]))
        /\ Len(InsertAt(rest, j, ports[i])) = Len(rest) + 1
    BY <2>2, <2>3, ListingInsert
  <2> QED
    BY <1>5, <2>1, <2>3, <2>4
<1>6. ASSUME NEW s, NEW i, NEW e
      PROVE  /\ RemoveAt(s, i) = RemoveAt(s, i)
             /\ InsertAt(s, i, e) = InsertAt(s, i, e)
  BY DEF RemoveAt, InsertAt
<1>7. \/ \E id \in FreeIds, state \in States :
            /\ Len(ports) < MaxReported
            /\ ports' = Append(ports, [id |-> id, state |-> state])
      \/ \E id \in FreeIds, i \in DOMAIN ports : ports' = [ports EXCEPT ![i].id = id]
      \/ \E i \in DOMAIN ports : ports' = RemoveAt(ports, i)
      \/ \E i \in DOMAIN ports, j \in 1 .. Len(ports) :
            ports' = InsertAt(RemoveAt(ports, i), j, ports[i])
  BY DEF Reconfigure
<1>8. CASE \E id \in FreeIds, state \in States :
            /\ Len(ports) < MaxReported
            /\ ports' = Append(ports, [id |-> id, state |-> state])
  BY <1>2, <1>8
<1>9. CASE \E id \in FreeIds, i \in DOMAIN ports : ports' = [ports EXCEPT ![i].id = id]
  BY <1>3, <1>9
<1>10. CASE \E i \in DOMAIN ports : ports' = RemoveAt(ports, i)
  BY <1>4, <1>6, <1>10
<1>11. CASE \E i \in DOMAIN ports, j \in 1 .. Len(ports) :
            ports' = InsertAt(RemoveAt(ports, i), j, ports[i])
  BY <1>5, <1>6, <1>11
<1> QED
  BY <1>7, <1>8, <1>9, <1>10, <1>11

LEMMA StreamsInit ==
  ASSUME StatusInit
  PROVE  SInv
<1>1. ports = <<>> /\ Listing(ports) /\ Len(ports) <= MaxReported
  BY ListingNone, StatusStreamAssumption DEF StatusInit
<1>2. right \in [Credentials -> Rights] /\ open \in BOOLEAN
  BY DEF StatusInit, Rights
<1>3. /\ stream = [p \in Pages |-> Off]
      /\ page = [p \in Pages |-> [gone |-> FALSE, admin |-> FALSE, shows |-> <<>>]]
  BY DEF StatusInit
<1>4. ASSUME NEW p \in Pages
      PROVE  Streams(stream[p]) /\ page[p] \in PageOf /\ Holds(stream[p], page[p])
  <2>1. stream[p] = Off /\ page[p] = [gone |-> FALSE, admin |-> FALSE, shows |-> <<>>]
    BY <1>3
  <2> QED
    BY <2>1 DEF Streams, PageOf, Holds, Off
<1>5. stream = [p \in Pages |-> stream[p]] /\ page = [p \in Pages |-> page[p]]
  BY <1>3
<1> QED
  BY <1>1, <1>2, <1>4, <1>5 DEF SInv

\* Everything but one page and its stream as it was.
LEMMA OtherPages ==
  ASSUME SInv, NEW p \in Pages, NEW s, NEW q,
         UNCHANGED <<ports, right, open>>,
         stream' = [stream EXCEPT ![p] = s], page' = [page EXCEPT ![p] = q],
         Streams(s), q \in PageOf, Holds(s, q)
  PROVE  SInv'
<1>1. stream = [r \in Pages |-> stream[r]] /\ page = [r \in Pages |-> page[r]]
  BY DEF SInv
<1>2. /\ stream' = [r \in Pages |-> IF r = p THEN s ELSE stream[r]]
      /\ page' = [r \in Pages |-> IF r = p THEN q ELSE page[r]]
  BY <1>1
<1>3. stream' = [r \in Pages |-> stream'[r]] /\ page' = [r \in Pages |-> page'[r]]
  BY <1>2
<1>4. ASSUME NEW r \in Pages
      PROVE  Streams(stream'[r]) /\ page'[r] \in PageOf /\ Holds(stream'[r], page'[r])
  <2>1. CASE r = p
    <3>1. stream'[r] = s /\ page'[r] = q
      BY <1>2, <2>1
    <3> QED
      BY <3>1
  <2>2. CASE r # p
    <3>1. stream'[r] = stream[r] /\ page'[r] = page[r]
      BY <1>2, <2>2
    <3> QED
      BY <3>1 DEF SInv
  <2> QED
    BY <2>1, <2>2
<1>5. Listing(ports') /\ Len(ports') <= MaxReported
  BY DEF SInv
<1>6. right' \in [Credentials -> Rights] /\ open' \in BOOLEAN
  BY DEF SInv
<1> QED
  BY <1>3, <1>4, <1>5, <1>6 DEF SInv

LEMMA SubscribeHolds ==
  ASSUME SInv, NEW p \in Pages, NEW mode \in Modes, NEW c \in Credentials \cup {NoCredential},
         Subscribe(p, mode, c)
  PROVE  SInv'
<1>1. PICK admin \in BOOLEAN : admin = (open \/ Admin(c))
  OBVIOUS
<1>2. PICK now : now = IF mode = "all" THEN ports ELSE <<View(ports)>>
  OBVIOUS
<1>3. /\ now \in Seq(Port) \cup {<<Missing>>}
      /\ IF mode = "all" THEN Listing(now)
         ELSE \E x \in Port \cup {Missing} : now = <<x>>
  BY <1>2, ViewOfListing, OneListed DEF SInv, Listing
<1>4. PICK s : s = [on |-> TRUE, mode |-> mode, with |-> c, admin |-> admin,
                    quiet |-> FALSE, last |-> now]
  OBVIOUS
<1>5. PICK q : q = [gone |-> FALSE, admin |-> admin, shows |-> now]
  OBVIOUS
<1>6. /\ stream' = [stream EXCEPT ![p] = s] /\ page' = [page EXCEPT ![p] = q]
      /\ UNCHANGED <<ports, right, open>>
  BY <1>1, <1>2, <1>4, <1>5 DEF Subscribe
<1>7. s \in StreamOf /\ Delivered(s)
  BY <1>1, <1>3, <1>4 DEF StreamOf, Delivered
<1>8. q \in PageOf /\ Holds(s, q)
  BY <1>3, <1>4, <1>5 DEF PageOf, Holds
<1> QED
  BY <1>6, <1>7, <1>8, OtherPages DEF Streams

LEMMA BroadcastHolds ==
  ASSUME SInv, Broadcast
  PROVE  SInv'
<1>1. /\ stream' = [p \in Pages |-> IF Streaming(p) THEN Pass(p).stream ELSE stream[p]]
      /\ page' = [p \in Pages |-> IF Streaming(p) THEN Pass(p).page ELSE page[p]]
      /\ UNCHANGED <<ports, right, open>>
  BY DEF Broadcast
<1>2. ASSUME NEW p \in Pages
      PROVE  Streams(stream'[p]) /\ page'[p] \in PageOf /\ Holds(stream'[p], page'[p])
  <2>1. Streams(stream[p]) /\ page[p] \in PageOf /\ Holds(stream[p], page[p]) /\ Listing(ports)
    BY DEF SInv
  <2>2. CASE Streaming(p)
    <3>1. stream[p] \in StreamOf /\ Delivered(stream[p])
      BY <2>1, <2>2 DEF Streams, Streaming, Off
    <3>2. stream'[p] = Pass(p).stream /\ page'[p] = Pass(p).page
      BY <1>1, <2>2
    <3>3. /\ Streams(Pass(p).stream) /\ Pass(p).page \in PageOf
          /\ Holds(Pass(p).stream, Pass(p).page)
      BY <2>1, <3>1, PassHolds
    <3> QED
      BY <3>2, <3>3
  <2>3. CASE ~Streaming(p)
    <3>1. stream'[p] = stream[p] /\ page'[p] = page[p]
      BY <1>1, <2>3
    <3> QED
      BY <2>1, <3>1
  <2> QED
    BY <2>2, <2>3
<1>3. stream' = [p \in Pages |-> stream'[p]] /\ page' = [p \in Pages |-> page'[p]]
  BY <1>1
<1>4. Listing(ports') /\ Len(ports') <= MaxReported
  BY <1>1 DEF SInv
<1>5. right' \in [Credentials -> Rights] /\ open' \in BOOLEAN
  BY <1>1 DEF SInv
<1> QED
  BY <1>2, <1>3, <1>4, <1>5 DEF SInv

\* One page alone: a line that is due, a page that leaves or comes back.
LEMMA PageHolds ==
  ASSUME SInv, NEW p \in Pages, Quiet(p) \/ Leave(p) \/ Return(p)
  PROVE  SInv'
<1>1. PICK s, q : s = stream[p] /\ q = page[p]
  OBVIOUS
<1>2. /\ Streams(s) /\ q \in PageOf /\ Holds(s, q)
      /\ stream = [r \in Pages |-> stream[r]] /\ page = [r \in Pages |-> page[r]]
  BY <1>1 DEF SInv
<1>3. stream = [stream EXCEPT ![p] = s] /\ page = [page EXCEPT ![p] = q]
  BY <1>1, <1>2
<1>4. CASE Quiet(p)
  <2>1. PICK t : t = [s EXCEPT !.quiet = TRUE]
    OBVIOUS
  <2>2. s \in StreamOf /\ Delivered(s)
    BY <1>1, <1>2, <1>4 DEF Quiet, Streaming, Streams, Off
  <2>3. t \in StreamOf /\ t.mode = s.mode /\ t.last = s.last /\ t.on = s.on
    BY <2>1, <2>2 DEF StreamOf
  <2>4. Streams(t) /\ Holds(t, q)
    BY <1>2, <2>2, <2>3 DEF Streams, Delivered, Holds
  <2>5. stream' = [stream EXCEPT ![p] = t] /\ UNCHANGED <<ports, right, open, page>>
    BY <1>1, <1>4, <2>1 DEF Quiet
  <2>6. page' = [page EXCEPT ![p] = q]
    BY <1>3, <2>5
  <2> QED
    BY <1>2, <2>4, <2>5, <2>6, OtherPages
<1>5. CASE Leave(p) \/ Return(p)
  <2>1. PICK r \in BOOLEAN :
           /\ page' = [page EXCEPT ![p].gone = r] /\ UNCHANGED <<ports, right, open, stream>>
           /\ r \/ ~Streaming(p)
    BY <1>5 DEF Leave, Return
  <2>2. PICK t : t = [q EXCEPT !.gone = r]
    OBVIOUS
  <2>3. t \in PageOf /\ t.gone = r
    BY <1>2, <2>2 DEF PageOf
  <2>4. Holds(s, t)
    BY <1>1, <2>1, <2>3 DEF Holds, Streaming
  <2>5. page' = [page EXCEPT ![p] = t]
    BY <1>1, <2>1, <2>2
  <2>6. stream' = [stream EXCEPT ![p] = s]
    BY <1>3, <2>1
  <2> QED
    BY <1>2, <2>1, <2>3, <2>4, <2>5, <2>6, OtherPages
<1> QED
  BY <1>4, <1>5

\* Steps that neither a stream nor a page takes part in.
LEMMA AroundHolds ==
  ASSUME SInv, UNCHANGED <<stream, page>>,
         Listing(ports'), Len(ports') <= MaxReported,
         right' \in [Credentials -> Rights], open' \in BOOLEAN
  PROVE  SInv'
BY DEF SInv

LEMMA StreamsNext ==
  ASSUME SInv, [StatusNext]_statusVars
  PROVE  SInv'
<1>1. /\ Listing(ports) /\ Len(ports) <= MaxReported /\ MaxReported \in Nat
      /\ right \in [Credentials -> Rights] /\ open \in BOOLEAN
  BY StatusStreamAssumption DEF SInv
<1>2. CASE \E p \in Pages, mode \in Modes, c \in Credentials \cup {NoCredential} :
              Subscribe(p, mode, c)
  BY <1>2, SubscribeHolds
<1>3. CASE \E p \in Pages : Quiet(p) \/ Leave(p) \/ Return(p)
  BY <1>3, PageHolds
<1>4. CASE Broadcast
  BY <1>4, BroadcastHolds
<1>5. CASE \E i \in DOMAIN ports, state \in States : Report(i, state)
  <2>1. PICK i \in DOMAIN ports, state \in States : Report(i, state)
    BY <1>5
  <2>2. /\ ports' = [ports EXCEPT ![i].state = state]
        /\ UNCHANGED <<right, open, stream, page>>
    BY <2>1 DEF Report
  <2>3. Listing(ports') /\ Len(ports') = Len(ports)
    BY <1>1, <2>2, ReportLists
  <2> QED
    BY <1>1, <2>2, <2>3, AroundHolds
<1>6. CASE Reconfigure
  <2>1. UNCHANGED <<right, open, stream, page>>
    BY <1>6 DEF Reconfigure
  <2> QED
    BY <1>1, <1>6, <2>1, ReconfigureLists, AroundHolds
<1>7. CASE Switch
  <2>1. /\ right' \in [Credentials -> Rights] /\ open' \in BOOLEAN
        /\ UNCHANGED <<ports, stream, page>>
    BY <1>7 DEF Switch, Rights
  <2> QED
    BY <1>1, <2>1, AroundHolds
<1>8. CASE \E c \in Credentials, r \in Rights : ChangeRight(c, r)
  <2>1. PICK c \in Credentials, r \in Rights : ChangeRight(c, r)
    BY <1>8
  <2>2. right' = [right EXCEPT ![c] = r] /\ UNCHANGED <<ports, open, stream, page>>
    BY <2>1 DEF ChangeRight
  <2>3. right' \in [Credentials -> Rights]
    BY <1>1, <2>2
  <2> QED
    BY <1>1, <2>2, <2>3, AroundHolds
<1>9. CASE UNCHANGED statusVars
  BY <1>1, <1>9, AroundHolds DEF statusVars
<1> QED
  BY <1>2, <1>3, <1>4, <1>5, <1>6, <1>7, <1>8, <1>9 DEF StatusNext

LEMMA StreamsInvariant == StatusSpec => []SInv
<1>1. StatusInit => SInv
  BY StreamsInit
<1>2. SInv /\ [StatusNext]_statusVars => SInv'
  BY StreamsNext
<1> QED
  BY <1>1, <1>2, PTL DEF StatusSpec

\* As many ids as ports.
LEMMA IdsOfListing ==
  ASSUME NEW l, Listing(l)
  PROVE  Cardinality(ToSet(ListedIds(l))) = Len(l)
<1>1. Len(l) \in Nat /\ DOMAIN l = 1 .. Len(l)
  BY ListingIsList
<1> DEFINE n == Len(l)
           T == ToSet(ListedIds(l))
           f == [i \in 1 .. n |-> l[i].id]
<1>2. T = {l[i].id : i \in 1 .. n}
  BY <1>1 DEF ToSet, ListedIds
<1>3. f \in Bijection(1 .. n, T)
  <2>1. f \in [1 .. n -> T]
    BY <1>2
  <2>2. \A i, j \in 1 .. n : f[i] = f[j] => i = j
    BY DEF Listing
  <2>3. \A y \in T : \E i \in 1 .. n : f[i] = y
    BY <1>2
  <2> HIDE DEF f, T
  <2> QED
    BY <2>1, <2>2, <2>3 DEF Bijection, Injection, Surjection, IsInjective
<1>4. IsFiniteSet(1 .. n) /\ Cardinality(1 .. n) = n
  <2>1. n \in Nat
    BY <1>1
  <2> HIDE DEF n
  <2>2. CASE n = 0
    BY <2>2, FS_EmptySet
  <2>3. CASE n > 0
    BY <2>1, <2>3, FS_Interval
  <2> QED
    BY <2>1, <2>2, <2>3
<1> HIDE DEF T, f, n
<1>5. Cardinality(T) = Cardinality(1 .. n)
  BY <1>3, <1>4, FS_Bijection DEF ExistsBijection
<1> QED
  BY <1>4, <1>5 DEF n, T

(***************************************************************************)
(* Streams, pages and ports are what _stream_clients, the pages and the    *)
(* reports hold; no two ports are reported under one id.                   *)
(***************************************************************************)
THEOREM StreamsTyped == StatusSpec => []StatusTypeOK
<1>1. SInv => StatusTypeOK
  <2>1. SUFFICES ASSUME SInv PROVE StatusTypeOK
    OBVIOUS
  <2>2. /\ ports \in Seq(Port) /\ Len(ports) <= MaxReported
        /\ right \in [Credentials -> Rights] /\ open \in BOOLEAN
        /\ Cardinality(ToSet(ListedIds(ports))) = Len(ports)
    BY <2>1, IdsOfListing DEF SInv, Listing
  <2>3. ASSUME NEW p \in Pages
        PROVE  /\ stream[p] = Off \/ stream[p] \in StreamOf
               /\ page[p].shows \in Seq(Port) \cup {<<Missing>>}
    BY <2>1 DEF SInv, Streams, PageOf
  <2>4. ASSUME NEW p \in Pages
        PROVE  /\ stream[p] = Off \/ stream[p] \in
                    [on : {TRUE}, mode : Modes, with : Credentials \cup {NoCredential},
                     admin : BOOLEAN, quiet : BOOLEAN,
                     last : Seq(Port) \cup {<<Missing>>}]
               /\ page[p].shows \in Seq(Port) \cup {<<Missing>>}
    BY <2>3 DEF StreamOf
  <2> QED
    BY <2>2, <2>4, Zenon DEF StatusTypeOK
<1> QED
  BY <1>1, StreamsInvariant, PTL

(***************************************************************************)
(* A page shows what the server takes for delivered to it: the whole       *)
(* report it began with and the differences that _broadcast_status() sends *)
(* since add up to the report they were taken from.                        *)
(***************************************************************************)
THEOREM PageShowsWhatWasDelivered == StatusSpec => []PagesHoldDelivered
<1>1. SInv => PagesHoldDelivered
  BY DEF SInv, Holds, PagesHoldDelivered, Streaming
<1> QED
  BY <1>1, StreamsInvariant, PTL

-----------------------------------------------------------------------------
(***************************************************************************)
(* The clients behind a monitored port: what the pages call them, while    *)
(* they come and go                                                        *)
(***************************************************************************)
\* Slots as they are handed out: none to two peers while there is another.
Slotted(s) ==
    /\ s = [p \in DOMAIN s |-> s[p]]
    /\ \A p \in DOMAIN s : s[p] \in Slots
    /\ \A p, q \in DOMAIN s : s[p] = s[q] /\ s[p] # Overflow => p = q

LEMMA FreeSlotIsFree ==
  ASSUME NEW s
  PROVE  /\ FreeSlot(s) \in Slots
         /\ \A p \in DOMAIN s : s[p] = FreeSlot(s) => s[p] = Overflow
<1> DEFINE S == ((1 .. LastSlot) \ Range(s)) \cup {Overflow}
           Least(x) == x \in S /\ \A y \in S : x <= y
<1>1. LastSlot \in Nat /\ Overflow \in Nat /\ Slots = 1 .. Overflow
      /\ Overflow = LastSlot + 1
  BY MonitorPeersAssumption DEF Overflow, Slots
<1>2. S \in SUBSET Nat /\ S # {}
  BY <1>1
<1>3. PICK x : Least(x)
  BY <1>2, Smallest
<1>4. FreeSlot(s) = CHOOSE z \in S : \A y \in S : z <= y
  BY DEF FreeSlot, Min
<1>5. FreeSlot(s) \in S
  BY <1>3, <1>4
<1>6. \A p \in DOMAIN s : s[p] \in Range(s)
  BY DEF Range
<1> QED
  BY <1>1, <1>5, <1>6

LEMMA JoinedSlotted ==
  ASSUME NEW s, Slotted(s), NEW p
  PROVE  Slotted(Joined(s, p)) /\ DOMAIN Joined(s, p) = DOMAIN s \cup {p}
<1>1. CASE p \in DOMAIN s
  <2>1. Joined(s, p) = s
    BY <1>1 DEF Joined
  <2> QED
    BY <1>1, <2>1
<1>2. CASE p \notin DOMAIN s
  <2>1. PICK e : e = FreeSlot(s)
    OBVIOUS
  <2>2. e \in Slots /\ \A q \in DOMAIN s : s[q] = e => s[q] = Overflow
    BY <2>1, FreeSlotIsFree
  <2>3. PICK t : t = Joined(s, p)
    OBVIOUS
  <2>4. t = [q \in DOMAIN s \cup {p} |-> IF q = p THEN e ELSE s[q]]
    BY <1>2, <2>1, <2>3 DEF Joined
  <2>5. DOMAIN t = DOMAIN s \cup {p} /\ t = [q \in DOMAIN t |-> t[q]]
    BY <2>4
  <2>6. \A q \in DOMAIN t : t[q] = IF q = p THEN e ELSE s[q]
    BY <2>4
  <2>7. \A q \in DOMAIN t : t[q] \in Slots
    BY <2>2, <2>5, <2>6 DEF Slotted
  <2>8. ASSUME NEW q \in DOMAIN t, NEW r \in DOMAIN t, t[q] = t[r], t[q] # Overflow
        PROVE  q = r
    <3>1. CASE q # p /\ r # p
      BY <2>5, <2>6, <2>8, <3>1 DEF Slotted
    <3>2. CASE q # p /\ r = p
      BY <2>2, <2>5, <2>6, <2>8, <3>2
    <3>3. CASE q = p /\ r # p
      BY <2>2, <2>5, <2>6, <2>8, <3>3
    <3> QED
      BY <3>1, <3>2, <3>3
  <2>9. Slotted(t)
    BY <2>5, <2>7, <2>8 DEF Slotted
  <2> QED
    BY <2>3, <2>5, <2>9
<1> QED
  BY <1>1, <1>2

\* The slots after each step of a walk: a function that says so.
After(s, walk, n, f) ==
    f = [k \in 0 .. n |-> IF k = 0 THEN s ELSE Joined(f[k - 1], walk[k])]

LEMMA OneMoreAfter ==
  ASSUME NEW s, NEW walk, NEW n \in Nat, NEW f, After(s, walk, n, f)
  PROVE  \E g : After(s, walk, n + 1, g)
<1> DEFINE g == [k \in 0 .. n + 1 |->
                   IF k <= n THEN f[k] ELSE Joined(f[n], walk[n + 1])]
<1>1. ASSUME NEW k \in 0 .. n + 1
      PROVE  g[k] = IF k = 0 THEN s ELSE Joined(g[k - 1], walk[k])
  <2>1. CASE k = n + 1
    <3>1. g[k] = Joined(f[n], walk[n + 1]) /\ g[k - 1] = f[n] /\ k # 0
      BY <2>1
    <3> QED
      BY <2>1, <3>1
  <2>2. CASE k # n + 1
    <3>1. k \in 0 .. n /\ g[k] = f[k]
      BY <2>2
    <3>2. f[k] = IF k = 0 THEN s ELSE Joined(f[k - 1], walk[k])
      BY <3>1 DEF After
    <3>3. CASE k # 0
      <4>1. g[k - 1] = f[k - 1]
        BY <3>1, <3>3
      <4> QED
        BY <3>1, <3>2, <3>3, <4>1
    <3>4. CASE k = 0
      BY <3>1, <3>2, <3>4
    <3> QED
      BY <3>3, <3>4
  <2> QED
    BY <2>1, <2>2
<1>2. g = [k \in 0 .. n + 1 |-> g[k]]
  OBVIOUS
<1> HIDE DEF g
<1>3. After(s, walk, n + 1, g)
  BY <1>1, <1>2 DEF After
<1> QED
  BY <1>3

LEMMA WalkHasAfter ==
  ASSUME NEW s, NEW walk, NEW n \in Nat
  PROVE  \E f : After(s, walk, n, f)
<1> DEFINE without == {k \in Nat : ~ \E f : After(s, walk, k, f)}
<1>1. SUFFICES ASSUME without # {}
               PROVE  FALSE
  OBVIOUS
<1>2. PICK k \in without : \A y \in without : k <= y
  BY <1>1, Smallest
<1>3. CASE k = 0
  <2> DEFINE f == [i \in 0 .. 0 |-> s]
  <2>1. f = [i \in 0 .. 0 |-> IF i = 0 THEN s ELSE Joined(f[i - 1], walk[i])]
    OBVIOUS
  <2>2. After(s, walk, 0, f)
    BY <2>1 DEF After
  <2> QED
    BY <1>2, <1>3, <2>2
<1>4. CASE k # 0
  <2>1. k - 1 \in Nat /\ k - 1 \notin without /\ (k - 1) + 1 = k
    BY <1>2, <1>4
  <2>2. PICK f : After(s, walk, k - 1, f)
    BY <2>1
  <2>3. \E g : After(s, walk, (k - 1) + 1, g)
    BY <2>1, <2>2, OneMoreAfter
  <2> QED
    BY <1>2, <2>1, <2>3
<1> QED
  BY <1>3, <1>4

\* A walk keeps slots apart, and gives one to everybody it meets.
LEMMA AssignedSlotted ==
  ASSUME NEW s, Slotted(s), NEW walk, Len(walk) \in Nat
  PROVE  /\ Slotted(Assigned(s, walk))
         /\ DOMAIN Assigned(s, walk) = DOMAIN s \cup {walk[i] : i \in 1 .. Len(walk)}
<1>1. PICK n \in Nat : n = Len(walk)
  OBVIOUS
<1>2. PICK f : f = CHOOSE g : After(s, walk, n, g)
  OBVIOUS
<1>3. After(s, walk, n, f)
  BY <1>2, WalkHasAfter
<1>4. Assigned(s, walk) = f[n]
  BY <1>1, <1>2 DEF After, Assigned
<1> DEFINE Fine(k) == /\ Slotted(f[k])
                      /\ DOMAIN f[k] = DOMAIN s \cup {walk[i] : i \in 1 .. k}
           wrong == {k \in 0 .. n : ~Fine(k)}
<1>5. wrong = {}
  <2>1. SUFFICES ASSUME wrong # {}
                 PROVE  FALSE
    OBVIOUS
  <2>2. PICK k \in wrong : \A y \in wrong : k <= y
    <3>1. wrong \in SUBSET Nat
      BY <1>1
    <3> HIDE DEF wrong
    <3> QED
      BY <2>1, <3>1, Smallest
  <2>3. k \in 0 .. n /\ ~Fine(k)
    BY <2>2
  <2>4. CASE k = 0
    <3>1. f[k] = s
      BY <1>3, <2>3, <2>4 DEF After
    <3> QED
      BY <2>3, <2>4, <3>1
  <2>5. CASE k # 0
    <3>1. k - 1 \in 0 .. n /\ ~(k <= k - 1)
      BY <1>1, <2>3, <2>5
    <3>2. Fine(k - 1)
      BY <2>2, <3>1
    <3>3. f[k] = Joined(f[k - 1], walk[k])
      BY <1>3, <2>3, <2>5 DEF After
    <3>4. Slotted(f[k]) /\ DOMAIN f[k] = DOMAIN f[k - 1] \cup {walk[k]}
      <4>1. PICK g, p : g = f[k - 1] /\ p = walk[k]
        OBVIOUS
      <4>2. Slotted(g)
        BY <3>2, <4>1
      <4>3. Slotted(Joined(g, p)) /\ DOMAIN Joined(g, p) = DOMAIN g \cup {p}
        BY <4>2, JoinedSlotted
      <4> QED
        BY <3>3, <4>1, <4>3
    <3>5. \A i : i \in 1 .. k <=> (i \in 1 .. k - 1 \/ i = k)
      BY <1>1, <2>3, <2>5
    <3>6. {walk[i] : i \in 1 .. k} = {walk[i] : i \in 1 .. k - 1} \cup {walk[k]}
      BY <3>5
    <3> QED
      BY <2>3, <3>2, <3>4, <3>6
  <2> QED
    BY <2>4, <2>5
<1>6. Fine(n)
  BY <1>1, <1>5
<1> QED
  BY <1>1, <1>4, <1>6

\* The clients of a port, each of them once.
Lined(l) ==
    /\ IsList(l) /\ \A i \in 1 .. Len(l) : l[i] \in Peers
    /\ \A i, j \in 1 .. Len(l) : l[i] = l[j] => i = j

\* A page that fits the slots: who has one is shown with it, the rest without.
Fits(v, s, fail) ==
    /\ DOMAIN s \subseteq DOMAIN v /\ DOMAIN v \subseteq Peers
    /\ v = [p \in DOMAIN v |-> IF p \in DOMAIN s THEN s[p] ELSE Overflow]
    /\ ~fail => DOMAIN v \subseteq DOMAIN s

\* A frame carries the slot of its writer.
Names(l, s) ==
    l = Nobody \/ (l.by \in Here \cap DOMAIN s /\ l.tag = s[l.by])

MInv ==
    /\ Lined(present)
    /\ Slotted(slots) /\ DOMAIN slots \subseteq Peers
    /\ watching \subseteq Watchers /\ dropped \subseteq Watchers \ watching
    /\ view = [w \in Watchers |-> view[w]]
    /\ \A w \in Watchers : IF w \in watching THEN Fits(view[w], slots, sendsFail)
                           ELSE view[w] = Nobody
    /\ Names(line, slots) /\ sendsFail \in Faults

LEMMA NobodySlotted ==
  Slotted(Nobody) /\ DOMAIN Nobody = {}
BY DEF Slotted, Nobody

\* A walk that starts from nothing.
LEMMA AssignedAnew ==
  ASSUME NEW walk, Len(walk) \in Nat
  PROVE  /\ Slotted(Assigned(Nobody, walk))
         /\ DOMAIN Assigned(Nobody, walk) = {walk[i] : i \in 1 .. Len(walk)}
<1>1. PICK none : none = Nobody
  OBVIOUS
<1>2. Slotted(none) /\ DOMAIN none = {}
  BY <1>1, NobodySlotted
<1>3. /\ Slotted(Assigned(none, walk))
      /\ DOMAIN Assigned(none, walk) = DOMAIN none \cup {walk[i] : i \in 1 .. Len(walk)}
  BY <1>2, AssignedSlotted
<1> QED
  BY <1>1, <1>2, <1>3

LEMMA LinedHere ==
  ASSUME Lined(present)
  PROVE  /\ Len(present) \in Nat /\ DOMAIN present = 1 .. Len(present)
         /\ Here = {present[i] : i \in 1 .. Len(present)}
         /\ Here \subseteq Peers
BY ListLength DEF Lined, Here, Range

LEMMA LinedInsert ==
  ASSUME NEW l, Lined(l), NEW i \in 1 .. Len(l) + 1, NEW q \in Peers,
         \A j \in 1 .. Len(l) : l[j] # q
  PROVE  Lined(InsertAt(l, i, q))
<1>1. IsList(l) /\ Len(l) \in Nat /\ \A j \in 1 .. Len(l) : l[j] \in Peers
  BY ListLength DEF Lined
<1>2. PICK m : m = InsertAt(l, i, q)
  OBVIOUS
<1>3. /\ IsList(m) /\ Len(m) = Len(l) + 1
      /\ \A j \in 1 .. Len(l) + 1 :
            m[j] = IF j < i THEN l[j] ELSE IF j = i THEN q ELSE l[j - 1]
  BY <1>1, <1>2, ListInsert
<1>4. ASSUME NEW j \in 1 .. Len(m)
      PROVE  \/ j = i /\ m[j] = q
             \/ /\ j # i
                /\ \E x \in 1 .. Len(l) : m[j] = l[x] /\ x = IF j < i THEN j ELSE j - 1
  BY <1>1, <1>3
<1>5. \A j \in 1 .. Len(m) : m[j] \in Peers
  BY <1>1, <1>4
<1>6. ASSUME NEW j \in 1 .. Len(m), NEW k \in 1 .. Len(m), m[j] = m[k]
      PROVE  j = k
  <2>1. CASE j # i /\ k # i
    <3>1. PICK x \in 1 .. Len(l) : m[j] = l[x] /\ x = IF j < i THEN j ELSE j - 1
      BY <1>4, <2>1
    <3>2. PICK y \in 1 .. Len(l) : m[k] = l[y] /\ y = IF k < i THEN k ELSE k - 1
      BY <1>4, <2>1
    <3>3. x = y
      BY <1>6, <3>1, <3>2 DEF Lined
    <3> QED
      BY <1>1, <1>3, <2>1, <3>1, <3>2, <3>3
  <2>2. CASE j = i \/ k = i
    BY <1>4, <1>6, <2>2
  <2> QED
    BY <2>1, <2>2
<1> QED
  BY <1>2, <1>3, <1>5, <1>6 DEF Lined

LEMMA LinedRemove ==
  ASSUME NEW l, Lined(l), NEW i \in 1 .. Len(l)
  PROVE  Lined(RemoveAt(l, i))
<1>1. IsList(l) /\ Len(l) \in Nat /\ \A j \in 1 .. Len(l) : l[j] \in Peers
  BY ListLength DEF Lined
<1>2. PICK m : m = RemoveAt(l, i)
  OBVIOUS
<1>3. /\ IsList(m) /\ Len(m) = Len(l) - 1
      /\ \A j \in 1 .. Len(l) - 1 : m[j] = IF j < i THEN l[j] ELSE l[j + 1]
  BY <1>1, <1>2, ListRemove
<1>4. ASSUME NEW j \in 1 .. Len(m)
      PROVE  \E x \in 1 .. Len(l) : m[j] = l[x] /\ x = IF j < i THEN j ELSE j + 1
  BY <1>1, <1>3
<1>5. \A j \in 1 .. Len(m) : m[j] \in Peers
  BY <1>1, <1>4
<1>6. ASSUME NEW j \in 1 .. Len(m), NEW k \in 1 .. Len(m), m[j] = m[k]
      PROVE  j = k
  <2>1. PICK x \in 1 .. Len(l) : m[j] = l[x] /\ x = IF j < i THEN j ELSE j + 1
    BY <1>4
  <2>2. PICK y \in 1 .. Len(l) : m[k] = l[y] /\ y = IF k < i THEN k ELSE k + 1
    BY <1>4
  <2>3. x = y
    BY <1>6, <2>1, <2>2 DEF Lined
  <2> QED
    BY <1>1, <1>3, <2>1, <2>2, <2>3
<1> QED
  BY <1>2, <1>3, <1>5, <1>6 DEF Lined

\* What a walk comes to, whatever cuts it short.
Walked(walk) ==
    /\ walk.watching \subseteq watching
    /\ Slotted(walk.slots) /\ DOMAIN walk.slots \subseteq Here
    /\ walk.watching # {} \/ ~sendsFail => DOMAIN walk.slots = Here /\ walk.whole
    /\ walk.told \/ walk.watching = {} \/ walk.slots = slots

LEMMA WalkedOutcome ==
  ASSUME NEW s, NEW left, NEW told \in BOOLEAN, NEW whole \in BOOLEAN,
         left \subseteq watching, Slotted(s), DOMAIN s \subseteq Here,
         left # {} \/ ~sendsFail => DOMAIN s = Here /\ whole,
         told \/ left = {} \/ s = slots
  PROVE  Walked(Outcome(s, left, told, whole))
<1>1. PICK walk : walk = Outcome(s, left, told, whole)
  OBVIOUS
<1>2. walk.slots = s /\ walk.watching = left /\ walk.told = told /\ walk.whole = whole
  BY <1>1 DEF Outcome
<1> QED
  BY <1>1, <1>2 DEF Walked

LEMMA StayingSlotted ==
  ASSUME Slotted(slots)
  PROVE  Slotted(Staying) /\ DOMAIN Staying \subseteq Here
<1>1. PICK S : S = Here \cap DOMAIN slots
  OBVIOUS
<1>2. PICK t : t = Staying
  OBVIOUS
<1>3. t = [p \in S |-> slots[p]] /\ S \subseteq DOMAIN slots
  BY <1>1, <1>2 DEF Staying, Restrict
<1>4. Slotted(t)
  BY <1>3 DEF Slotted
<1> QED
  BY <1>1, <1>2, <1>3, <1>4

LEMMA WalksWalk ==
  ASSUME MInv, NEW walk \in Walks
  PROVE  Walked(walk)
<1>1. /\ Lined(present) /\ Slotted(slots) /\ Len(present) \in Nat
      /\ DOMAIN present = 1 .. Len(present)
      /\ Here = {present[i] : i \in 1 .. Len(present)}
  BY LinedHere DEF MInv
<1>2. PICK all : all = Assigned(Staying, present)
  OBVIOUS
<1>3. Slotted(all) /\ DOMAIN all = Here
  BY <1>1, <1>2, StayingSlotted, AssignedSlotted
<1>4. PICK anew : anew = Assigned(Nobody, present)
  OBVIOUS
<1>5. Slotted(anew) /\ DOMAIN anew = Here
  BY <1>1, <1>4, AssignedAnew
<1>6. CASE Departed \cup Arrived = {}
  <2>1. walk = Outcome(slots, watching, FALSE, TRUE)
    BY <1>6 DEF Walks
  <2>2. DOMAIN slots = Here
    BY <1>6 DEF Departed, Arrived
  <2> QED
    BY <1>1, <2>1, <2>2, WalkedOutcome
<1>7. CASE Departed \cup Arrived # {} /\ watching = {}
  <2>1. walk = Outcome(all, {}, FALSE, TRUE)
    BY <1>2, <1>7 DEF Walks
  <2> QED
    BY <1>3, <2>1, WalkedOutcome
<1>8. CASE Departed \cup Arrived # {} /\ watching # {}
  <2>1. \/ walk \in WalksWithWatchers
        \/ sendsFail /\ walk \in WalksCutByDeparture
        \/ sendsFail /\ walk \in WalksCutByArrival
    BY <1>8 DEF Walks
  <2>2. CASE walk \in WalksWithWatchers
    <3>1. PICK left \in SUBSET watching : walk = Outcome(all, left, TRUE, TRUE)
      BY <1>2, <2>2 DEF WalksWithWatchers
    <3> QED
      BY <1>3, <3>1, WalkedOutcome
  <2>3. CASE sendsFail /\ walk \in WalksCutByDeparture
    <3>1. \/ walk = Outcome(anew, {}, TRUE, TRUE)
          \/ walk = Outcome(Nobody, {}, TRUE, FALSE)
      BY <1>4, <2>3 DEF WalksCutByDeparture
    <3> QED
      BY <1>5, <2>3, <3>1, NobodySlotted, WalkedOutcome
  <2>4. CASE sendsFail /\ walk \in WalksCutByArrival
    <3>1. PICK i \in DOMAIN present :
             walk = Outcome(Assigned(Nobody, SubSeq(present, i + 1, Len(present))),
                                    {}, TRUE, TRUE)
      BY <2>4 DEF WalksCutByArrival
    <3>2. PICK rest : rest = SubSeq(present, i + 1, Len(present))
      OBVIOUS
    <3>3. PICK late : late = Assigned(Nobody, rest)
      OBVIOUS
    <3>4. /\ Len(rest) = IF i + 1 <= Len(present) THEN Len(present) - (i + 1) + 1 ELSE 0
          /\ \A j \in 1 .. Len(present) - (i + 1) + 1 : rest[j] = present[i + 1 + j - 1]
      BY <1>1, <3>2, ListPart
    <3>5. i \in 1 .. Len(present) /\ Len(rest) \in Nat
      BY <1>1, <3>4
    <3>6. \A j \in 1 .. Len(rest) : rest[j] \in Here
      <4>1. ASSUME NEW j \in 1 .. Len(rest)
            PROVE  \E k \in 1 .. Len(present) : rest[j] = present[k]
        <5>1. i + 1 + j - 1 \in 1 .. Len(present) /\ j \in 1 .. Len(present) - (i + 1) + 1
          BY <1>1, <3>4, <3>5
        <5> QED
          BY <3>4, <5>1
      <4> QED
        BY <1>1, <4>1
    <3>7. Slotted(late) /\ DOMAIN late = {rest[j] : j \in 1 .. Len(rest)}
      BY <3>3, <3>5, AssignedAnew
    <3>8. DOMAIN late \subseteq Here
      BY <3>6, <3>7
    <3>9. walk = Outcome(late, {}, TRUE, TRUE)
      BY <3>1, <3>2, <3>3
    <3> QED
      BY <2>4, <3>7, <3>8, <3>9, WalkedOutcome
  <2> QED
    BY <2>1, <2>2, <2>3, <2>4
<1> QED
  BY <1>6, <1>7, <1>8

\* What a watcher is greeted with, and what a told walk ends with.
LEMMA PeerListFits ==
  ASSUME MInv, NEW s, DOMAIN s \subseteq Here, ~sendsFail => DOMAIN s = Here
  PROVE  Fits(PeerList(s), s, sendsFail)
<1>1. PICK v : v = PeerList(s)
  OBVIOUS
<1>2. v = [p \in Here |-> IF p \in DOMAIN s THEN s[p] ELSE Overflow]
  BY <1>1 DEF PeerList
<1>3. DOMAIN v = Here
      /\ v = [p \in DOMAIN v |-> IF p \in DOMAIN s THEN s[p] ELSE Overflow]
  BY <1>2
<1>4. Here \subseteq Peers
  BY LinedHere DEF MInv
<1>5. Fits(v, s, sendsFail)
  BY <1>3, <1>4 DEF Fits
<1> QED
  BY <1>1, <1>5

\* What the pages hold after a walk.
PagesFit(v, left, s) ==
    /\ v = [w \in Watchers |-> v[w]]
    /\ \A w \in Watchers : IF w \in left THEN Fits(v[w], s, sendsFail)
                           ELSE v[w] = Nobody

LEMMA ViewsFit ==
  ASSUME MInv, NEW walk, Walked(walk)
  PROVE  PagesFit(ViewsAfter(walk), walk.watching, walk.slots)
<1>1. PICK v : v = ViewsAfter(walk)
  OBVIOUS
<1>2. v = [w \in Watchers |-> IF w \notin walk.watching THEN Nobody
                              ELSE IF walk.told THEN PeerList(walk.slots) ELSE view[w]]
  BY <1>1 DEF ViewsAfter
<1>3. v = [w \in Watchers |-> v[w]]
  BY <1>2
<1>4. ASSUME NEW w \in Watchers, w \in walk.watching
      PROVE  Fits(v[w], walk.slots, sendsFail)
  <2>1. DOMAIN walk.slots = Here
    BY <1>4 DEF Walked
  <2>2. CASE walk.told
    <3>1. v[w] = PeerList(walk.slots)
      BY <1>2, <1>4, <2>2
    <3>2. Fits(PeerList(walk.slots), walk.slots, sendsFail)
      BY <2>1, PeerListFits
    <3> QED
      BY <3>1, <3>2
  <2>3. CASE ~walk.told
    <3>1. v[w] = view[w] /\ walk.slots = slots /\ w \in watching
      BY <1>2, <1>4, <2>3 DEF Walked
    <3>2. Fits(view[w], slots, sendsFail)
      BY <3>1 DEF MInv
    <3> QED
      BY <3>1, <3>2
  <2> QED
    BY <2>2, <2>3
<1>5. \A w \in Watchers : w \notin walk.watching => v[w] = Nobody
  BY <1>2
<1>6. PagesFit(v, walk.watching, walk.slots)
  BY <1>3, <1>4, <1>5 DEF PagesFit
<1> QED
  BY <1>1, <1>6

\* Steps after which there is no frame in hand.
LEMMA MonitorHolds ==
  ASSUME MInv, sendsFail' = sendsFail, Lined(present'),
         NEW left, NEW s, NEW v,
         watching' = left, slots' = s, view' = v, line' = Nobody,
         Slotted(s), DOMAIN s \subseteq Peers,
         left \subseteq Watchers, dropped' \subseteq Watchers \ left,
         PagesFit(v, left, s)
  PROVE  MInv'
<1>1. \A w \in Watchers : IF w \in watching' THEN Fits(view'[w], slots', sendsFail')
                          ELSE view'[w] = Nobody
  BY DEF PagesFit
<1>2. view' = [w \in Watchers |-> view'[w]]
  BY DEF PagesFit
<1>3. sendsFail' \in Faults
  BY DEF MInv
<1> QED
  BY <1>1, <1>2, <1>3 DEF MInv, Names

\* The state as it is.
LEMMA PagesNow ==
  ASSUME MInv
  PROVE  PagesFit(view, watching, slots)
BY DEF MInv, PagesFit

LEMMA ClientsHold ==
  ASSUME MInv, NEW p \in Peers, Arrive(p) \/ Depart(p)
  PROVE  MInv'
<1>1. Lined(present) /\ Len(present) \in Nat /\ DOMAIN present = 1 .. Len(present)
      /\ Here = {present[i] : i \in 1 .. Len(present)}
  BY LinedHere DEF MInv
<1>2. /\ line' = Nobody
      /\ watching' = watching /\ slots' = slots /\ view' = view
      /\ dropped' = dropped /\ sendsFail' = sendsFail
  BY DEF Arrive, Depart
<1>3. Lined(present')
  <2>1. CASE Arrive(p)
    <3>1. PICK i \in 1 .. Len(present) + 1 : present' = InsertAt(present, i, p)
      BY <2>1 DEF Arrive
    <3>2. present' = InsertAt(present, i, p)
      BY <3>1 DEF InsertAt
    <3>3. \A j \in 1 .. Len(present) : present[j] # p
      BY <1>1, <2>1 DEF Arrive
    <3>4. Lined(InsertAt(present, i, p))
      BY <1>1, <3>3, LinedInsert
    <3> QED
      BY <3>2, <3>4
  <2>2. CASE Depart(p)
    <3>1. PICK i \in DOMAIN present : present' = RemoveAt(present, i)
      BY <2>2 DEF Depart
    <3>2. present' = RemoveAt(present, i)
      BY <3>1 DEF RemoveAt
    <3>3. Lined(RemoveAt(present, i))
      BY <1>1, LinedRemove
    <3> QED
      BY <3>2, <3>3
  <2> QED
    BY <2>1, <2>2
<1>4. /\ Slotted(slots) /\ DOMAIN slots \subseteq Peers /\ watching \subseteq Watchers
      /\ dropped \subseteq Watchers \ watching
  BY DEF MInv
<1> QED
  BY <1>2, <1>3, <1>4, PagesNow, MonitorHolds

\* A walk that ended, and nothing else.
LEMMA WalkHolds ==
  ASSUME MInv, NEW walk \in Walks,
         slots' = walk.slots, watching' = walk.watching, view' = ViewsAfter(walk),
         line' = Nobody, UNCHANGED <<present, dropped, sendsFail>>
  PROVE  MInv'
<1>1. Walked(walk)
  BY WalksWalk
<1>2. PICK v : v = ViewsAfter(walk)
  OBVIOUS
<1>3. PICK s, left : s = walk.slots /\ left = walk.watching
  OBVIOUS
<1>4. PagesFit(v, left, s)
  BY <1>1, <1>2, <1>3, ViewsFit
<1>5. Lined(present') /\ Here \subseteq Peers
  BY LinedHere DEF MInv
<1>6. /\ Slotted(s) /\ DOMAIN s \subseteq Peers /\ left \subseteq Watchers
      /\ dropped' \subseteq Watchers \ left
  BY <1>1, <1>3, <1>5 DEF Walked, MInv
<1>7. watching' = left /\ slots' = s /\ view' = v /\ line' = Nobody
      /\ sendsFail' = sendsFail
  BY <1>2, <1>3
<1> QED
  BY <1>4, <1>5, <1>6, <1>7, MonitorHolds

LEMMA NobodyWatches ==
  ASSUME NEW v, v = [w \in Watchers |-> Nobody], NEW s
  PROVE  PagesFit(v, {}, s)
BY DEF PagesFit

LEMMA NobodyFits ==
  ASSUME NEW s
  PROVE  PagesFit([w \in Watchers |-> Nobody], {}, s)
BY DEF PagesFit

\* The frame a writer's bytes are sent in.
LEMMA TaggedHolds ==
  ASSUME MInv, NEW walk, NEW p \in Here, Tagged(walk, p),
         UNCHANGED <<present, dropped, sendsFail>>,
         walk.watching \subseteq watching,
         Slotted(walk.slots), DOMAIN walk.slots \subseteq Peers,
         PagesFit(ViewsAfter(walk), walk.watching, walk.slots),
         walk.watching # {} => p \in DOMAIN walk.slots
  PROVE  MInv'
<1>1. PICK left \in SUBSET walk.watching :
         /\ watching' = left
         /\ slots' = IF walk.watching # {} /\ left = {} THEN Nobody ELSE walk.slots
         /\ view' = [w \in Watchers |-> IF w \in left THEN ViewsAfter(walk)[w]
                                        ELSE Nobody]
         /\ line' = IF left = {} THEN Nobody
                    ELSE [by |-> p, tag |-> IF p \in DOMAIN walk.slots THEN walk.slots[p]
                                            ELSE Overflow]
  BY DEF Tagged
<1>2. PICK s : s = IF walk.watching # {} /\ left = {} THEN Nobody ELSE walk.slots
  OBVIOUS
<1>3. PICK v : v = [w \in Watchers |-> IF w \in left THEN ViewsAfter(walk)[w]
                                       ELSE Nobody]
  OBVIOUS
<1>4. Slotted(s) /\ DOMAIN s \subseteq Peers
  BY <1>2, NobodySlotted
<1>5. /\ Lined(present) /\ Lined(present') /\ sendsFail' = sendsFail
      /\ left \subseteq Watchers /\ dropped' \subseteq Watchers \ left
  BY <1>1 DEF MInv
<1>6. PagesFit(v, left, s)
  <2>1. v = [w \in Watchers |-> v[w]]
    BY <1>3
  <2>2. ASSUME NEW w \in Watchers, w \in left
        PROVE  Fits(v[w], s, sendsFail)
    <3>1. v[w] = ViewsAfter(walk)[w] /\ w \in walk.watching /\ s = walk.slots
      BY <1>1, <1>2, <1>3, <2>2
    <3>2. Fits(ViewsAfter(walk)[w], walk.slots, sendsFail)
      BY <3>1 DEF PagesFit
    <3> QED
      BY <3>1, <3>2
  <2>3. \A w \in Watchers : w \notin left => v[w] = Nobody
    BY <1>3
  <2> QED
    BY <2>1, <2>2, <2>3 DEF PagesFit
<1>7. CASE left = {}
  <2>1. watching' = left /\ slots' = s /\ view' = v /\ line' = Nobody
    BY <1>1, <1>2, <1>3, <1>7
  <2> QED
    BY <1>4, <1>5, <1>6, <2>1, MonitorHolds
<1>8. CASE left # {}
  <2>1. p \in DOMAIN walk.slots /\ s = walk.slots
    BY <1>1, <1>2, <1>8
  <2>2. /\ watching' = left /\ slots' = s /\ view' = v
        /\ line' = [by |-> p, tag |-> s[p]]
    BY <1>1, <1>2, <1>3, <1>8, <2>1
  <2>3. line'.by = p /\ line'.tag = s[p]
    BY <2>2
  <2>4. Here' = Here
    BY DEF Here
  <2>5. line'.by \in Here' \cap DOMAIN slots' /\ line'.tag = slots'[line'.by]
    BY <2>1, <2>2, <2>3, <2>4
  <2>6. \A w \in Watchers : IF w \in watching' THEN Fits(view'[w], slots', sendsFail')
                            ELSE view'[w] = Nobody
    BY <1>5, <1>6, <2>2 DEF PagesFit
  <2>7. view' = [w \in Watchers |-> view'[w]]
    BY <1>6, <2>2 DEF PagesFit
  <2>8. Slotted(slots') /\ DOMAIN slots' \subseteq Peers /\ sendsFail' \in Faults
        /\ watching' \subseteq Watchers /\ dropped' \subseteq Watchers \ watching'
    BY <1>4, <1>5, <2>2 DEF MInv
  <2> QED
    BY <1>5, <2>5, <2>6, <2>7, <2>8 DEF MInv, Names
<1> QED
  BY <1>7, <1>8

LEMMA WriteHolds ==
  ASSUME MInv, NEW p \in Peers, Write(p)
  PROVE  MInv'
<1>1. p \in Here /\ watching # {} /\ UNCHANGED <<present, dropped, sendsFail>>
  BY DEF Write
<1>2. Here \subseteq Peers
  BY LinedHere DEF MInv
<1>3. PICK walk \in IF p \in DOMAIN slots THEN {Outcome(slots, watching, FALSE, TRUE)}
                    ELSE Walks :
         IF walk.whole THEN Tagged(walk, p)
         ELSE /\ slots' = walk.slots /\ watching' = walk.watching
              /\ view' = ViewsAfter(walk) /\ line' = Nobody
  BY DEF Write
<1>4. CASE p \in DOMAIN slots
  <2>1. walk = Outcome(slots, watching, FALSE, TRUE)
    BY <1>3, <1>4
  <2>2. walk.slots = slots /\ walk.watching = watching /\ walk.told = FALSE /\ walk.whole = TRUE
    BY <2>1 DEF Outcome
  <2>3. PICK v : v = ViewsAfter(walk)
    OBVIOUS
  <2>4. v = [w \in Watchers |-> IF w \notin watching THEN Nobody ELSE view[w]]
    BY <2>2, <2>3 DEF ViewsAfter
  <2>5. PagesFit(v, watching, slots)
    BY <2>4 DEF MInv, PagesFit
  <2>6. Slotted(slots) /\ DOMAIN slots \subseteq Peers
    BY DEF MInv
  <2>7. Tagged(walk, p)
    BY <1>3, <2>2
  <2> QED
    BY <1>1, <1>4, <2>2, <2>3, <2>5, <2>6, <2>7, TaggedHolds
<1>5. CASE p \notin DOMAIN slots
  <2>1. walk \in Walks
    BY <1>3, <1>5
  <2>2. Walked(walk)
    BY <2>1, WalksWalk
  <2>3. CASE walk.whole
    <3>1. /\ walk.watching \subseteq watching /\ Slotted(walk.slots)
          /\ DOMAIN walk.slots \subseteq Peers
          /\ walk.watching # {} => p \in DOMAIN walk.slots
      BY <1>1, <1>2, <2>2 DEF Walked
    <3>2. PagesFit(ViewsAfter(walk), walk.watching, walk.slots)
      BY <2>2, ViewsFit
    <3> QED
      BY <1>1, <1>3, <2>3, <3>1, <3>2, TaggedHolds
  <2>4. CASE ~walk.whole
    BY <1>1, <1>3, <2>1, <2>4, WalkHolds
  <2> QED
    BY <2>3, <2>4
<1> QED
  BY <1>4, <1>5

LEMMA WatchHolds ==
  ASSUME MInv, NEW w \in Watchers, StartWatching(w)
  PROVE  MInv'
<1>1. w \notin watching /\ line' = Nobody /\ UNCHANGED <<present, sendsFail>>
  BY DEF StartWatching
<1>2. PICK walk \in Walks, greeted \in BOOLEAN :
         IF walk.whole /\ greeted THEN
            /\ watching' = walk.watching \cup {w}
            /\ slots' = walk.slots
            /\ view' = [ViewsAfter(walk) EXCEPT ![w] = PeerList(walk.slots)]
            /\ dropped' = dropped \ {w}
         ELSE
            /\ watching' = walk.watching
            /\ slots' = IF walk.watching = {} THEN Nobody ELSE walk.slots
            /\ view' = ViewsAfter(walk)
            /\ dropped' = IF walk.whole THEN dropped ELSE dropped \cup {w}
  BY DEF StartWatching
<1>3. Walked(walk)
  BY WalksWalk
<1>4. PICK v, s, left : v = ViewsAfter(walk) /\ s = walk.slots /\ left = walk.watching
  OBVIOUS
<1>5. PagesFit(v, left, s)
  BY <1>3, <1>4, ViewsFit
<1>6. /\ Lined(present) /\ Lined(present') /\ sendsFail' = sendsFail
      /\ Here \subseteq Peers
      /\ watching \subseteq Watchers /\ dropped \subseteq Watchers \ watching
  BY <1>1, LinedHere DEF MInv
<1>7. left \subseteq watching /\ Slotted(s) /\ DOMAIN s \subseteq Here
      /\ (~sendsFail => DOMAIN s = Here)
  BY <1>3, <1>4 DEF Walked
<1>8. CASE walk.whole /\ greeted
  <2>1. PICK hello : hello = PeerList(s)
    OBVIOUS
  <2>2. Fits(hello, s, sendsFail)
    BY <1>7, <2>1, PeerListFits
  <2>3. PICK u : u = [v EXCEPT ![w] = hello]
    OBVIOUS
  <2>4. v = [x \in Watchers |-> v[x]]
    BY <1>5 DEF PagesFit
  <2>5. u = [x \in Watchers |-> IF x = w THEN hello ELSE v[x]]
    BY <2>3, <2>4
  <2>6. PagesFit(u, left \cup {w}, s)
    <3>1. u = [x \in Watchers |-> u[x]]
      BY <2>5
    <3>2. ASSUME NEW x \in Watchers
          PROVE  IF x \in left \cup {w} THEN Fits(u[x], s, sendsFail)
                 ELSE u[x] = Nobody
      <4>1. CASE x = w
        <5>1. u[x] = hello
          BY <2>5, <4>1
        <5> QED
          BY <2>2, <4>1, <5>1
      <4>2. CASE x # w
        <5>1. u[x] = v[x]
          BY <2>5, <4>2
        <5>2. IF x \in left THEN Fits(v[x], s, sendsFail) ELSE v[x] = Nobody
          BY <1>5 DEF PagesFit
        <5> QED
          BY <4>2, <5>1, <5>2
      <4> QED
        BY <4>1, <4>2
    <3> QED
      BY <3>1, <3>2 DEF PagesFit
  <2>7. PICK more : more = left \cup {w}
    OBVIOUS
  <2>8. /\ watching' = more /\ slots' = s /\ view' = u
        /\ dropped' \subseteq Watchers \ more /\ more \subseteq Watchers
        /\ DOMAIN s \subseteq Peers
    BY <1>2, <1>4, <1>6, <1>7, <1>8, <2>1, <2>3, <2>7
  <2> QED
    BY <1>1, <1>6, <1>7, <2>6, <2>7, <2>8, MonitorHolds
<1>9. CASE ~(walk.whole /\ greeted)
  <2>1. PICK t : t = IF left = {} THEN Nobody ELSE s
    OBVIOUS
  <2>2. Slotted(t) /\ DOMAIN t \subseteq Peers
    BY <1>6, <1>7, <2>1, NobodySlotted
  <2>3. PagesFit(v, left, t)
    <3>1. CASE left = {}
      BY <1>5, <3>1 DEF PagesFit
    <3>2. CASE left # {}
      BY <1>5, <2>1, <3>2
    <3> QED
      BY <3>1, <3>2
  <2>4. /\ watching' = left /\ slots' = t /\ view' = v
        /\ dropped' \subseteq dropped \cup {w}
    BY <1>2, <1>4, <1>9, <2>1
  <2>5. left \subseteq Watchers /\ dropped' \subseteq Watchers \ left
    BY <1>1, <1>6, <1>7, <2>4
  <2> QED
    BY <1>1, <1>6, <2>2, <2>3, <2>4, <2>5, MonitorHolds
<1> QED
  BY <1>8, <1>9

LEMMA UnwatchHolds ==
  ASSUME MInv, NEW w \in Watchers, StopWatching(w)
  PROVE  MInv'
<1>1. PICK left : left = watching \ {w}
  OBVIOUS
<1>2. PICK s : s = IF watching = {w} THEN Nobody ELSE slots
  OBVIOUS
<1>3. PICK v : v = [view EXCEPT ![w] = Nobody]
  OBVIOUS
<1>4. /\ w \in watching /\ watching' = left /\ slots' = s /\ view' = v
      /\ line' = Nobody /\ UNCHANGED <<present, dropped, sendsFail>>
  BY <1>1, <1>2, <1>3 DEF StopWatching
<1>5. /\ Lined(present') /\ sendsFail' = sendsFail
      /\ left \subseteq Watchers /\ dropped' \subseteq Watchers \ left
      /\ view = [x \in Watchers |-> view[x]]
  BY <1>1, <1>4 DEF MInv
<1>6. Slotted(s) /\ DOMAIN s \subseteq Peers
  BY <1>2, NobodySlotted DEF MInv
<1>7. PagesFit(v, left, s)
  <2>1. v = [x \in Watchers |-> IF x = w THEN Nobody ELSE view[x]]
    BY <1>3, <1>5
  <2>2. v = [x \in Watchers |-> v[x]]
    BY <2>1
  <2>3. ASSUME NEW x \in Watchers
        PROVE  IF x \in left THEN Fits(v[x], s, sendsFail) ELSE v[x] = Nobody
    <3>1. CASE x \in left
      <4>1. x \in watching /\ x # w /\ s = slots /\ v[x] = view[x]
        BY <1>1, <1>2, <2>1, <3>1
      <4>2. Fits(view[x], slots, sendsFail)
        BY <4>1 DEF MInv
      <4> QED
        BY <3>1, <4>1, <4>2
    <3>2. CASE x \notin left
      BY <1>1, <2>1, <3>2 DEF MInv
    <3> QED
      BY <3>1, <3>2
  <2> QED
    BY <2>2, <2>3 DEF PagesFit
<1> QED
  BY <1>4, <1>5, <1>6, <1>7, MonitorHolds

LEMMA LinedNobody == Lined(<<>>)
BY EmptySeq DEF Lined, IsList

LEMMA PortGoneHolds ==
  ASSUME MInv, PortGone
  PROVE  MInv'
<1>1. PICK v : v = [w \in Watchers |-> Nobody]
  OBVIOUS
<1>2. PICK left, s : left = {} /\ s = Nobody
  OBVIOUS
<1>3. /\ watching' = left /\ slots' = s /\ view' = v /\ line' = Nobody
      /\ present' = <<>> /\ UNCHANGED <<dropped, sendsFail>>
  BY <1>1, <1>2 DEF PortGone
<1>4. /\ Lined(present') /\ sendsFail' = sendsFail
      /\ left \subseteq Watchers /\ dropped' \subseteq Watchers \ left
  BY <1>2, <1>3, LinedNobody DEF MInv
<1>5. Slotted(s) /\ DOMAIN s \subseteq Peers
  BY <1>2, NobodySlotted
<1>6. PagesFit(v, left, s)
  BY <1>1, <1>2, NobodyFits
<1> QED
  BY <1>3, <1>4, <1>5, <1>6, MonitorHolds

LEMMA MonitorBegins ==
  ASSUME MonitorInit
  PROVE  MInv
<1>1. /\ present = <<>> /\ watching = {} /\ slots = Nobody /\ line = Nobody
      /\ dropped = {} /\ sendsFail \in Faults
      /\ view = [w \in Watchers |-> Nobody]
  BY DEF MonitorInit
<1>2. Lined(present) /\ Slotted(slots) /\ DOMAIN slots \subseteq Peers
  BY <1>1, LinedNobody, NobodySlotted
<1>3. /\ view = [w \in Watchers |-> view[w]]
      /\ \A w \in Watchers : view[w] = Nobody
  BY <1>1
<1> QED
  BY <1>1, <1>2, <1>3 DEF MInv, Names

LEMMA MonitorGoesOn ==
  ASSUME MInv, [MonitorNext]_monitorVars
  PROVE  MInv'
<1>1. CASE Tick
  <2>1. PICK walk \in Walks :
           slots' = walk.slots /\ watching' = walk.watching /\ view' = ViewsAfter(walk)
    BY <1>1 DEF Tick
  <2>2. line' = Nobody /\ UNCHANGED <<present, dropped, sendsFail>>
    BY <1>1 DEF Tick
  <2> QED
    BY <2>1, <2>2, WalkHolds
<1>2. CASE PortGone
  BY <1>2, PortGoneHolds
<1>3. ASSUME NEW p \in Peers, Arrive(p) \/ Depart(p) \/ Write(p)
      PROVE  MInv'
  BY <1>3, ClientsHold, WriteHolds
<1>4. ASSUME NEW w \in Watchers, StartWatching(w) \/ StopWatching(w)
      PROVE  MInv'
  BY <1>4, WatchHolds, UnwatchHolds
<1>5. CASE UNCHANGED monitorVars
  <2>1. /\ present' = present /\ slots' = slots /\ watching' = watching /\ view' = view
        /\ line' = line /\ dropped' = dropped /\ sendsFail' = sendsFail
    BY <1>5 DEF monitorVars
  <2>2. Here' = Here
    BY <2>1 DEF Here
  <2> QED
    BY <2>1, <2>2 DEF MInv, Names
<1> QED
  BY <1>1, <1>2, <1>3, <1>4, <1>5 DEF MonitorNext

LEMMA MonitorInvariant == MonitorSpec => []MInv
<1>1. MonitorInit => MInv
  BY MonitorBegins
<1>2. MInv /\ [MonitorNext]_monitorVars => MInv'
  BY MonitorGoesOn
<1> QED
  BY <1>1, <1>2, PTL DEF MonitorSpec

\* What a page shows somebody with.
LEMMA ShownSlot ==
  ASSUME NEW v, NEW s, NEW fail, Fits(v, s, fail), NEW p \in DOMAIN v
  PROVE  v[p] = IF p \in DOMAIN s THEN s[p] ELSE Overflow
BY DEF Fits

LEMMA MonitorTypes ==
  ASSUME MInv
  PROVE  MonitorTypeOK
<1>1. present \in Seq(Peers) /\ IsInjective(present)
  <2>1. /\ IsList(present) /\ Len(present) \in Nat /\ DOMAIN present = 1 .. Len(present)
        /\ \A i \in 1 .. Len(present) : present[i] \in Peers
        /\ \A i, j \in 1 .. Len(present) : present[i] = present[j] => i = j
    BY LinedHere DEF MInv, Lined
  <2>2. PICK S : present \in Seq(S)
    BY <2>1 DEF IsList
  <2>3. present \in [1 .. Len(present) -> Peers]
    BY <2>1, <2>2
  <2>4. present \in Seq(Peers)
    BY <2>1, <2>3
  <2> QED
    BY <2>1, <2>4 DEF IsInjective
<1>2. Overflow \in Slots
  BY MonitorPeersAssumption DEF Overflow, Slots
<1>3. /\ DOMAIN slots \subseteq Peers /\ Range(slots) \subseteq Slots
      /\ \A p \in DOMAIN slots : slots[p] \in Slots
  BY DEF MInv, Slotted, Range
<1>4. ASSUME NEW w \in Watchers
      PROVE  DOMAIN view[w] \subseteq Peers /\ Range(view[w]) \subseteq Slots
  <2>1. CASE w \in watching
    <3>1. Fits(view[w], slots, sendsFail)
      BY <2>1 DEF MInv
    <3>2. DOMAIN view[w] \subseteq Peers
      BY <3>1 DEF Fits
    <3>3. \A p \in DOMAIN view[w] : view[w][p] \in Slots
      BY <1>2, <1>3, <3>1, ShownSlot
    <3> QED
      BY <3>2, <3>3 DEF Range
  <2>2. CASE w \notin watching
    <3>1. view[w] = Nobody
      BY <2>2 DEF MInv
    <3> QED
      BY <3>1, NobodySlotted DEF Range
  <2> QED
    BY <2>1, <2>2
<1>5. line = Nobody \/ (line.by \in Here /\ line.tag \in Slots)
  BY <1>3 DEF MInv, Names
<1> QED
  BY <1>1, <1>3, <1>4, <1>5 DEF MInv, MonitorTypeOK

(***************************************************************************)
(* A port has each client once, slots and pages hold slots of these, and   *)
(* what a send raised on is not watching any more.                         *)
(***************************************************************************)
THEOREM MonitorTyped == MonitorSpec => []MonitorTypeOK
<1>1. MInv => MonitorTypeOK
  BY MonitorTypes
<1> QED
  BY <1>1, MonitorInvariant, PTL

(***************************************************************************)
(* Every watcher that gets a frame knows by then whose it is, unless no    *)
(* slot was left, which the page says of that client.                      *)
(***************************************************************************)
THEOREM WritersAreNamed == MonitorSpec => []FramesNameTheirWriter
<1>1. MInv => FramesNameTheirWriter
  <2> SUFFICES ASSUME MInv, line # Nobody, NEW w \in watching
               PROVE  IF line.tag = Overflow
                        THEN line.by \in DOMAIN view[w] /\ view[w][line.by] = Overflow
                        ELSE {p \in DOMAIN view[w] : view[w][p] = line.tag} = {line.by}
    BY DEF FramesNameTheirWriter
  <2>1. line.by \in DOMAIN slots /\ line.tag = slots[line.by]
    BY DEF MInv, Names
  <2>2. Fits(view[w], slots, sendsFail) /\ Slotted(slots)
    BY DEF MInv
  <2>3. line.by \in DOMAIN view[w]
    BY <2>1, <2>2 DEF Fits
  <2>4. view[w][line.by] = line.tag
    BY <2>1, <2>2, <2>3, ShownSlot
  <2>5. ASSUME line.tag # Overflow, NEW p \in DOMAIN view[w], view[w][p] = line.tag
        PROVE  p = line.by
    <3>1. p \in DOMAIN slots /\ slots[p] = line.tag
      BY <2>2, <2>5, ShownSlot
    <3> QED
      BY <2>1, <2>2, <2>5, <3>1 DEF Slotted
  <2> QED
    BY <2>3, <2>4, <2>5
<1> QED
  BY <1>1, MonitorInvariant, PTL

(***************************************************************************)
(* While sending succeeds and nobody has come or gone since the last walk, *)
(* every page shows everybody and nobody else.                             *)
(***************************************************************************)
THEOREM PagesAreComplete == MonitorSpec => []PagesComplete
<1>1. MInv => PagesComplete
  <2> SUFFICES ASSUME MInv, ~sendsFail, NEW w \in watching
               PROVE  view[w] = slots
    BY DEF PagesComplete
  <2>1. PICK v : v = view[w]
    OBVIOUS
  <2>2. Fits(v, slots, sendsFail) /\ slots = [p \in DOMAIN slots |-> slots[p]]
    BY <2>1 DEF MInv, Slotted
  <2>3. DOMAIN v = DOMAIN slots
    BY <2>2 DEF Fits
  <2>4. v = [p \in DOMAIN v |-> IF p \in DOMAIN slots THEN slots[p] ELSE Overflow]
    BY <2>2 DEF Fits
  <2> QED
    BY <2>1, <2>2, <2>3, <2>4
<1> QED
  BY <1>1, MonitorInvariant, PTL

(***************************************************************************)
(* No two clients write under one slot, whatever cut a walk over them.     *)
(***************************************************************************)
THEOREM SlotsStayApart == MonitorSpec => []SlotsTellApart
<1>1. MInv => SlotsTellApart
  BY DEF MInv, Slotted, SlotsTellApart
<1> QED
  BY <1>1, MonitorInvariant, PTL
=============================================================================
