--------------------------- MODULE Signals_proofs ---------------------------
(***************************************************************************)
(* Differences are enough: what clients are told of the modem lines, for   *)
(* any number of lines, endpoints, clients and watchers.                   *)
(***************************************************************************)
EXTENDS Signals, TLAPS

-----------------------------------------------------------------------------
(* Readings of lines *)

LEMMA RestrictedTo ==
  \A f, S : /\ DOMAIN Restrict(f, S) = S
            /\ Restrict(f, S) = [l \in S |-> Restrict(f, S)[l]]
            /\ \A l \in S : Restrict(f, S)[l] = f[l]
BY DEF Restrict

LEMMA OneReading ==
  ASSUME NEW f
  PROVE  f \in Readings <=> \E S \in SUBSET Lines : f \in [S -> BOOLEAN]
BY DEF Readings

LEMMA NothingReads == Nothing \in [{} -> BOOLEAN] /\ Nothing \in Readings
<1>1. Nothing \in [{} -> BOOLEAN]
  BY DEF Nothing
<1> QED
  BY <1>1, OneReading

LEMMA RestrictReads ==
  ASSUME NEW f \in [Lines -> BOOLEAN], NEW S \in SUBSET Lines
  PROVE  Restrict(f, S) \in [S -> BOOLEAN] /\ Restrict(f, S) \in Readings
<1>1. Restrict(f, S) \in [S -> BOOLEAN]
  BY DEF Restrict
<1> QED
  BY <1>1, OneReading

\* Only what has no lines says nothing.
LEMMA EmptyIsNothing ==
  ASSUME NEW S, NEW f \in [S -> BOOLEAN]
  PROVE  f = Nothing <=> S = {}
<1>1. ASSUME S = {}
      PROVE  f = Nothing
  BY <1>1, NothingReads
<1>2. ASSUME f = Nothing
      PROVE  S = {}
  BY <1>2, NothingReads
<1> QED
  BY <1>1, <1>2

LEMMA MergeReads ==
  ASSUME NEW f \in Readings, NEW g \in Readings
  PROVE  /\ Over(f, g) \in Readings
         /\ DOMAIN Over(f, g) = DOMAIN f \cup DOMAIN g
         /\ \A l \in DOMAIN f : Over(f, g)[l] = f[l]
         /\ \A l \in DOMAIN g \ DOMAIN f : Over(f, g)[l] = g[l]
<1>1. PICK S \in SUBSET Lines : f \in [S -> BOOLEAN]
  BY OneReading
<1>2. PICK T \in SUBSET Lines : g \in [T -> BOOLEAN]
  BY OneReading
<1>3. Over(f, g) = [l \in DOMAIN f \cup DOMAIN g |-> IF l \in DOMAIN f THEN f[l] ELSE g[l]]
  BY DEF Over
<1>4. Over(f, g) \in [S \cup T -> BOOLEAN]
  BY <1>1, <1>2, <1>3
<1>5. Over(f, g) \in Readings
  BY <1>4, OneReading
<1> QED
  BY <1>3, <1>5

\* What a page makes of a set of lines, and what is left to be said.
LEMMA MergedReads ==
  ASSUME NEW p \in Clients \cup Watchers, shown \in [Clients \cup Watchers -> Readings],
         NEW m \in Readings
  PROVE  /\ Merged(p, m) \in Readings
         /\ DOMAIN Merged(p, m) = DOMAIN m \cup DOMAIN shown[p]
         /\ \A l \in DOMAIN m : Merged(p, m)[l] = m[l]
         /\ \A l \in DOMAIN shown[p] \ DOMAIN m : Merged(p, m)[l] = shown[p][l]
<1>1. shown[p] \in Readings
  OBVIOUS
<1>2. CASE m = Nothing
  <2>1. DOMAIN m = {} /\ Merged(p, m) = shown[p]
    BY <1>2 DEF Merged, Nothing
  <2> QED
    BY <2>1, <1>1
<1>3. CASE m # Nothing
  <2>1. Merged(p, m) = Over(m, shown[p])
    BY <1>3 DEF Merged
  <2>2. PICK g \in Readings : g = shown[p]
    BY <1>1
  <2>3. /\ Over(m, g) \in Readings
        /\ DOMAIN Over(m, g) = DOMAIN m \cup DOMAIN g
        /\ \A l \in DOMAIN m : Over(m, g)[l] = m[l]
        /\ \A l \in DOMAIN g \ DOMAIN m : Over(m, g)[l] = g[l]
    BY <2>2, MergeReads
  <2>4. Merged(p, m) = Over(m, g)
    BY <2>1, <2>2
  <2> QED
    BY <2>2, <2>3, <2>4
<1> QED
  BY <1>2, <1>3

LEMMA DifferenceReads ==
  ASSUME NEW S \in SUBSET Lines, NEW now \in [S -> BOOLEAN], NEW before
  PROVE  /\ Difference(now, before) \in Readings
         /\ DOMAIN Difference(now, before) \subseteq S
         /\ \A l \in S : l \in DOMAIN Difference(now, before) <=>
                         l \notin DOMAIN before \/ before[l] # now[l]
         /\ \A l \in DOMAIN Difference(now, before) : Difference(now, before)[l] = now[l]
<1> DEFINE T == {l \in S : l \notin DOMAIN before \/ before[l] # now[l]}
<1>1. Difference(now, before) = [l \in T |-> now[l]]
  BY DEF Difference, Restrict
<1>2. T \in SUBSET Lines /\ T \subseteq S
  OBVIOUS
<1>3. [l \in T |-> now[l]] \in [T -> BOOLEAN]
  BY <1>2
<1>4. Difference(now, before) \in Readings
  BY <1>1, <1>2, <1>3, OneReading
<1> QED
  BY <1>1, <1>4

-----------------------------------------------------------------------------
(* Types *)

LEMMA LinesOfSome ==
  ASSUME NEW C \in SUBSET Clients
  PROVE  LinesOf(C) \in SUBSET Lines
BY SignalsAssumption DEF LinesOf

LEMMA NamedLines ==
  ASSUME TypeOK, NEW p \in Clients \cup Watchers
  PROVE  Named(p) \in SUBSET Lines
BY LinesOfSome, SignalsAssumption DEF TypeOK, Named, Watched

LEMMA CurrentReads ==
  ASSUME TypeOK, NEW S \in SUBSET Lines
  PROVE  Current(S) \in Readings /\ DOMAIN Current(S) = (IF open THEN S ELSE {})
<1>1. CASE open
  BY <1>1, RestrictReads DEF TypeOK, Current
<1>2. CASE ~open
  BY <1>2, NothingReads DEF Current
<1> QED
  BY <1>1, <1>2

\* What a report makes of the pages and of what counts as said.
LEMMA AfterReads ==
  ASSUME TypeOK, NEW signals \in [Lines -> BOOLEAN]
  PROVE  /\ After(signals) \in [Clients \cup Watchers -> Readings]
         /\ \A p \in watching :
              DOMAIN After(signals)[p] \subseteq Named(p) \cup DOMAIN shown[p]
              /\ DOMAIN shown[p] \subseteq DOMAIN After(signals)[p]
<1> DEFINE S(p) == Restrict(signals, Named(p))
<1>1. ASSUME NEW p \in Clients \cup Watchers, NEW before
      PROVE  /\ Merged(p, Difference(S(p), before)) \in Readings
             /\ DOMAIN Merged(p, Difference(S(p), before)) \subseteq Named(p) \cup DOMAIN shown[p]
             /\ DOMAIN shown[p] \subseteq DOMAIN Merged(p, Difference(S(p), before))
  <2>1. S(p) \in [Named(p) -> BOOLEAN] /\ Named(p) \in SUBSET Lines
    BY NamedLines, RestrictReads
  <2>2. Difference(S(p), before) \in Readings /\ DOMAIN Difference(S(p), before) \subseteq Named(p)
    <3> HIDE DEF S
    <3> QED
      BY <2>1, DifferenceReads
  <2> HIDE DEF S
  <2>3. shown \in [Clients \cup Watchers -> Readings]
    BY DEF TypeOK
  <2>4. ASSUME NEW m \in Readings, DOMAIN m \subseteq Named(p)
        PROVE  /\ Merged(p, m) \in Readings
               /\ DOMAIN Merged(p, m) \subseteq Named(p) \cup DOMAIN shown[p]
               /\ DOMAIN shown[p] \subseteq DOMAIN Merged(p, m)
    <3>1. /\ Merged(p, m) \in Readings
          /\ DOMAIN Merged(p, m) = DOMAIN m \cup DOMAIN shown[p]
      BY <2>3, MergedReads
    <3> QED
      BY <3>1, <2>4
  <2> QED
    BY <2>2, <2>4
<1>2. shown \in [Clients \cup Watchers -> Readings] /\ watching \subseteq Watchers
      /\ joined \subseteq Clients
  BY DEF TypeOK
<1>3. ASSUME NEW p \in Clients \cup Watchers
      PROVE  /\ After(signals)[p] \in Readings
             /\ p \in watching =>
                  /\ DOMAIN After(signals)[p] \subseteq Named(p) \cup DOMAIN shown[p]
                  /\ DOMAIN shown[p] \subseteq DOMAIN After(signals)[p]
  <2>1. CASE p \in joined
    <3>1. After(signals)[p] = Merged(p, Difference(S(p), reported[At[p]]))
      BY <2>1 DEF After
    <3> HIDE DEF S
    <3> QED
      BY <3>1, <1>1
  <2>2. CASE p \notin joined /\ p \in watching
    <3>1. After(signals)[p] = Merged(p, Difference(S(p), told))
      BY <2>2 DEF After
    <3> HIDE DEF S
    <3> QED
      BY <3>1, <1>1
  <2>3. CASE p \notin joined /\ p \notin watching
    BY <2>3, <1>2 DEF After
  <2> QED
    BY <2>1, <2>2, <2>3
<1>4. After(signals) = [p \in Clients \cup Watchers |-> After(signals)[p]]
  BY DEF After
<1>5. After(signals) \in [Clients \cup Watchers -> Readings]
  BY <1>3, <1>4
<1> QED
  BY <1>2, <1>3, <1>5

LEMMA ReportReads ==
  ASSUME TypeOK, NEW signals \in [Lines -> BOOLEAN], Report(signals)
  PROVE  /\ reported' \in [Endpoints -> Readings]
         /\ \A e \in Endpoints : DOMAIN reported'[e] \subseteq Reports[e]
         /\ told' \in Readings
<1>1. \A e \in Endpoints : /\ Restrict(signals, Reports[e]) \in Readings
                           /\ DOMAIN Restrict(signals, Reports[e]) = Reports[e]
  BY RestrictReads, SignalsAssumption
<1>2. Restrict(signals, Watched) \in Readings
  BY RestrictReads, LinesOfSome DEF TypeOK, Watched
<1> QED
  BY <1>1, <1>2 DEF Report, TypeOK

LEMMA FoundReads ==
  ASSUME TypeOK, NEW C \in SUBSET Clients, Found(C)
  PROVE  /\ reported' \in [Endpoints -> Readings]
         /\ \A e \in Endpoints : DOMAIN reported'[e] \subseteq Reports[e]
         /\ told' \in Readings
<1>1. \A e \in Endpoints : /\ Restrict(level, Reports[e]) \in Readings
                           /\ DOMAIN Restrict(level, Reports[e]) = Reports[e]
  BY RestrictReads, SignalsAssumption DEF TypeOK
<1>2. Restrict(level, LinesOf(C)) \in Readings
  BY RestrictReads, LinesOfSome DEF TypeOK
<1> QED
  BY <1>1, <1>2 DEF Found, TypeOK

LEMMA PollTypes ==
  ASSUME TypeOK, Poll
  PROVE  TypeOK'
<1>1. CASE level # last /\ Polled
  <2>1. Report(level) /\ shown' = After(level) /\ level \in [Lines -> BOOLEAN]
    BY <1>1 DEF Poll, TypeOK
  <2> QED
    BY <2>1, AfterReads, ReportReads DEF Poll, TypeOK, audience
<1>2. CASE ~(level # last /\ Polled)
  BY <1>2 DEF Poll, TypeOK, audience
<1> QED
  BY <1>1, <1>2

\* A line that is set, and what a client is answered of one it is not told of.
LEMMA WithReads ==
  ASSUME TypeOK, NEW l \in Outputs, NEW value \in BOOLEAN
  PROVE  /\ With(l, value) \in [Lines -> BOOLEAN]
         /\ \A x \in Lines \ Outputs : With(l, value)[x] = level[x]
BY DEF TypeOK, With

LEMMA AnsweredReads ==
  ASSUME NEW c \in Clients, NEW l \in Outputs, NEW value \in BOOLEAN, NEW page \in Readings
  PROVE  /\ Answered(c, l, value, page) \in Readings
         /\ DOMAIN Answered(c, l, value, page) \cap Reports[At[c]] = DOMAIN page \cap Reports[At[c]]
         /\ \A x \in DOMAIN page \cap Reports[At[c]] : Answered(c, l, value, page)[x] = page[x]
<1> DEFINE S == {l} \ Reports[At[c]]
           answer == [x \in S |-> value]
<1>1. S \in SUBSET Lines /\ S \cap Reports[At[c]] = {}
  BY SignalsAssumption
<1>2. answer \in [S -> BOOLEAN] /\ DOMAIN answer = S
  OBVIOUS
<1>3. answer \in Readings
  BY <1>1, <1>2, OneReading
<1>4. Answered(c, l, value, page) = Over(answer, page)
  BY DEF Answered
<1> HIDE DEF answer, S
<1>5. /\ Over(answer, page) \in Readings
      /\ DOMAIN Over(answer, page) = DOMAIN answer \cup DOMAIN page
      /\ \A x \in DOMAIN page \ DOMAIN answer : Over(answer, page)[x] = page[x]
  BY <1>3, MergeReads
<1> QED
  BY <1>1, <1>2, <1>4, <1>5

LEMMA SetTypes ==
  ASSUME TypeOK, NEW l \in Outputs, NEW value \in BOOLEAN,
         SetOverHttp(l, value) \/ \E c \in Clients : Set(c, l, value)
  PROVE  TypeOK'
<1>1. With(l, value) \in [Lines -> BOOLEAN]
  BY WithReads
<1>2. SetLine(l, value)
  BY DEF Set, SetOverHttp
<1>3. PICK pages \in [Clients \cup Watchers -> Readings] : pages = After(With(l, value))
  BY <1>1, AfterReads
<1>4. shown' \in [Clients \cup Watchers -> Readings]
  <2>1. CASE SetOverHttp(l, value)
    BY <1>3, <2>1 DEF SetOverHttp
  <2>2. ASSUME NEW c \in Clients, Set(c, l, value)
        PROVE  shown' \in [Clients \cup Watchers -> Readings]
    <3>1. shown' = [pages EXCEPT ![c] = Answered(c, l, value, pages[c])]
      BY <1>3, <2>2 DEF Set
    <3>2. Answered(c, l, value, pages[c]) \in Readings
      BY AnsweredReads
    <3> QED
      BY <3>1, <3>2
  <2> QED
    BY <2>1, <2>2
<1>5. /\ reported' \in [Endpoints -> Readings]
      /\ \A e \in Endpoints : DOMAIN reported'[e] \subseteq Reports[e]
      /\ told' \in Readings
  BY <1>1, <1>2, ReportReads DEF SetLine
<1> QED
  BY <1>1, <1>2, <1>4, <1>5 DEF SetLine, TypeOK, audience

\* Whoever asks in vain changes its own page only, and of what is not reported.
LEMMA VainReads ==
  ASSUME TypeOK, NEW c \in Clients, NEW l \in Outputs, NEW value \in BOOLEAN,
         SetInVain(c, l, value)
  PROVE  /\ shown' \in [Clients \cup Watchers -> Readings]
         /\ \A p \in Clients \cup Watchers : p # c => shown'[p] = shown[p]
         /\ DOMAIN shown'[c] \cap Reports[At[c]] = DOMAIN shown[c] \cap Reports[At[c]]
         /\ \A x \in DOMAIN shown[c] \cap Reports[At[c]] : shown'[c][x] = shown[c][x]
         /\ UNCHANGED <<level, open, last, reported, told, watched, audience>>
<1>1. PICK page \in Readings : page = shown[c]
  BY DEF TypeOK
<1>2. PICK answered \in Readings : answered = Answered(c, l, value, page)
  BY AnsweredReads
<1>3. /\ DOMAIN answered \cap Reports[At[c]] = DOMAIN page \cap Reports[At[c]]
      /\ \A x \in DOMAIN page \cap Reports[At[c]] : answered[x] = page[x]
  BY <1>2, AnsweredReads
<1>4. shown' = [shown EXCEPT ![c] = answered]
  BY <1>1, <1>2 DEF SetInVain
<1>5. UNCHANGED <<level, open, last, reported, told, watched, audience>>
  BY DEF SetInVain
<1> QED
  BY <1>1, <1>3, <1>4, <1>5 DEF TypeOK

\* A device that is found: everybody is told all that is reported to it.
LEMMA FoundTypes ==
  ASSUME TypeOK, Open \/ \E c \in Clients : JoinOpening(c)
  PROVE  TypeOK'
<1>1. \A p \in Clients \cup Watchers, S \in SUBSET Lines : Merged(p, Restrict(level, S)) \in Readings
  BY RestrictReads, MergedReads DEF TypeOK
<1>2. CASE Open
  <2>1. \A p \in Clients \cup Watchers : Merged(p, Restrict(level, Named(p))) \in Readings
    BY <1>1, NamedLines
  <2>2. shown' \in [Clients \cup Watchers -> Readings]
    BY <1>2, <2>1 DEF Open, TypeOK
  <2>3. Found(joined) /\ joined \in SUBSET Clients /\ UNCHANGED <<level, last, watched, audience>>
    BY <1>2 DEF Open, TypeOK
  <2> QED
    BY <2>2, <2>3, FoundReads DEF TypeOK, audience, Found
<1>3. ASSUME NEW c \in Clients, JoinOpening(c)
      PROVE  TypeOK'
  <2>1. LinesOf(joined \cup {c}) \in SUBSET Lines
    BY LinesOfSome DEF TypeOK
  <2>2. joined' = joined \cup {c} /\ Found(joined') /\ UNCHANGED <<level, last, watching, watched>>
        /\ joined' \in SUBSET Clients
    BY <1>3 DEF JoinOpening, TypeOK
  <2>3. \A p \in joined' : Reports[At[p]] \in SUBSET Lines
    BY <2>2, SignalsAssumption
  <2>4. shown' \in [Clients \cup Watchers -> Readings]
    BY <1>1, <1>3, <2>1, <2>2, <2>3 DEF JoinOpening, TypeOK
  <2>5. /\ reported' \in [Endpoints -> Readings]
        /\ \A e \in Endpoints : DOMAIN reported'[e] \subseteq Reports[e]
        /\ told' \in Readings
    BY <2>2, FoundReads
  <2> QED
    BY <2>2, <2>4, <2>5 DEF TypeOK, Found
<1> QED
  BY <1>2, <1>3

LEMMA AudienceTypes ==
  ASSUME TypeOK,
         \/ \E c \in Clients : Join(c) \/ Leave(c)
         \/ \E w \in Watchers : Watch(w) \/ Unwatch(w)
  PROVE  TypeOK'
<1>1. Watched \in SUBSET Lines
  BY LinesOfSome DEF TypeOK, Watched
<1>2. Current(Watched) \in Readings /\ Nothing \in Readings
  BY <1>1, CurrentReads, NothingReads
<1>3. ASSUME NEW c \in Clients, Join(c) \/ Leave(c)
      PROVE  TypeOK'
  <2>1. Reports[At[c]] \in SUBSET Lines /\ At[c] \in Endpoints
    BY SignalsAssumption
  <2>2. /\ Current(Reports[At[c]]) \in Readings
        /\ DOMAIN Current(Reports[At[c]]) \subseteq Reports[At[c]]
    BY <2>1, CurrentReads
  <2>3. DOMAIN Nothing = {}
    BY DEF Nothing
  <2>4. CASE Join(c)
    BY <2>1, <2>2, <2>4 DEF Join, TypeOK
  <2>5. CASE Leave(c)
    BY <2>1, <2>3, <2>5, <1>2 DEF Leave, TypeOK
  <2> QED
    BY <1>3, <2>4, <2>5
<1>4. ASSUME NEW w \in Watchers, Watch(w)
      PROVE  TypeOK'
  BY <1>1, <1>2, <1>4 DEF Watch, TypeOK
<1>5. ASSUME NEW w \in Watchers, Unwatch(w)
      PROVE  TypeOK'
  BY <1>2, <1>5 DEF Unwatch, TypeOK
<1> QED
  BY <1>3, <1>4, <1>5

LEMMA RefreshTypes ==
  ASSUME TypeOK, Refresh
  PROVE  TypeOK'
<1>1. Watched \in SUBSET Lines
  BY LinesOfSome DEF TypeOK, Watched
<1>2. Current(Watched) \in Readings /\ Nothing \in Readings
  BY <1>1, CurrentReads, NothingReads
<1>3. \A p \in Clients \cup Watchers : Merged(p, Current(Watched)) \in Readings
  BY <1>2, MergedReads DEF TypeOK
<1> QED
  BY <1>1, <1>2, <1>3 DEF Refresh, TypeOK, audience

\* Every variable keeps its type; what counts as said to an endpoint is of
\* lines that it reports.
THEOREM TypeCorrect == Spec => []TypeOK
<1>1. Init => TypeOK
  BY NothingReads DEF Init, TypeOK, Nothing
<1>2. ASSUME TypeOK, [Next]_vars
      PROVE  TypeOK'
  <2>1. CASE Poll
    BY <1>2, <2>1, PollTypes
  <2>2. CASE Open \/ \E c \in Clients : JoinOpening(c)
    BY <1>2, <2>2, FoundTypes
  <2>3. CASE Close
    BY <1>2, <2>3, NothingReads DEF Close, TypeOK, audience, Nothing
  <2>4. CASE Refresh
    BY <1>2, <2>4, RefreshTypes
  <2>5. ASSUME NEW l \in Outputs, NEW value \in BOOLEAN,
               \/ SetOverHttp(l, value)
               \/ \E c \in Clients : Set(c, l, value) \/ SetInVain(c, l, value)
        PROVE  TypeOK'
    <3>1. CASE SetOverHttp(l, value) \/ \E c \in Clients : Set(c, l, value)
      BY <1>2, <3>1, SetTypes
    <3>2. ASSUME NEW c \in Clients, SetInVain(c, l, value)
          PROVE  TypeOK'
      BY <1>2, <3>2, VainReads DEF TypeOK, audience
    <3> QED
      BY <2>5, <3>1, <3>2
  <2>6. ASSUME NEW l \in Lines \ Outputs, Flip(l)
        PROVE  TypeOK'
    BY <1>2, <2>6 DEF Flip, TypeOK, audience
  <2>7. CASE \/ \E c \in Clients : Join(c) \/ Leave(c)
             \/ \E w \in Watchers : Watch(w) \/ Unwatch(w)
    BY <1>2, <2>7, AudienceTypes
  <2>8. CASE UNCHANGED vars
    BY <1>2, <2>8 DEF vars, TypeOK
  <2> QED
    BY <1>2, <2>1, <2>2, <2>3, <2>4, <2>5, <2>6, <2>7, <2>8 DEF Next
<1> QED
  BY <1>1, <1>2, PTL DEF Spec

-----------------------------------------------------------------------------
(***************************************************************************)
(* Clients. What was said to an endpoint is the sample the polling holds,  *)
(* or what was current when its only clients came; a page is right about a *)
(* line, or the next sample will find the line changed and say so.         *)
(***************************************************************************)
Unsampled == ~open => last = Nothing

Whole(e) == reported[e] = Nothing \/ DOMAIN reported[e] = Reports[e]

Sampled(e) ==
    \/ reported[e] = Nothing \/ last = Nothing
    \/ reported[e] = Restrict(last, Reports[e])
    \/ In(e) # {} /\ reported[e] = Restrict(level, Reports[e])

OutputsSaid(e) == \A l \in Outputs \cap DOMAIN reported[e] : reported[e][l] = level[l]

SaidTo(c) == DOMAIN reported[At[c]] = Reports[At[c]]

Knows(c, l) ==
    /\ l \in DOMAIN shown[c]
    /\ shown[c][l] = level[l] \/ (last # level /\ reported[At[c]][l] # level[l])

Said ==
    /\ Unsampled
    /\ open =>
        /\ \A e \in Endpoints : Whole(e) /\ Sampled(e) /\ OutputsSaid(e)
        /\ \A c \in joined : SaidTo(c) /\ \A l \in Reports[At[c]] : Knows(c, l)

LEMMA ClientFacts ==
  ASSUME TypeOK, NEW c \in joined
  PROVE  /\ c \in Clients /\ c \notin Watchers /\ c \in Clients \cup Watchers
         /\ At[c] \in Endpoints /\ Reports[At[c]] \in SUBSET Lines
         /\ Named(c) = Reports[At[c]]
BY SignalsAssumption DEF TypeOK, Named

\* A report makes every client right about every line of its endpoint, when
\* only lines that are set differ from what they were.
LEMMA Informed ==
  ASSUME TypeOK, Said, open, NEW signals \in [Lines -> BOOLEAN],
         \A l \in Lines \ Outputs : signals[l] = level[l], NEW c \in joined
  PROVE  \A l \in Reports[At[c]] :
            l \in DOMAIN After(signals)[c] /\ After(signals)[c][l] = signals[l]
<1> DEFINE S == Reports[At[c]]
           now == Restrict(signals, S)
           m == Difference(now, reported[At[c]])
<1>1. /\ c \in Clients \cup Watchers /\ At[c] \in Endpoints /\ S \in SUBSET Lines /\ Named(c) = S
  BY ClientFacts
<1>2. After(signals)[c] = Merged(c, m)
  BY <1>1 DEF After
<1>3. now \in [S -> BOOLEAN] /\ \A l \in S : now[l] = signals[l]
  BY <1>1, RestrictReads, RestrictedTo
<1>4. DOMAIN reported[At[c]] = S
  BY DEF Said, SaidTo
<1> HIDE DEF now
<1>5. /\ m \in Readings
      /\ DOMAIN m \subseteq S
      /\ \A l \in S : l \in DOMAIN m <=>
                      l \notin DOMAIN reported[At[c]] \/ reported[At[c]][l] # now[l]
      /\ \A l \in DOMAIN m : m[l] = now[l]
  <2> HIDE DEF S
  <2>1. PICK before : before = reported[At[c]]
    OBVIOUS
  <2>2. /\ Difference(now, before) \in Readings
        /\ DOMAIN Difference(now, before) \subseteq S
        /\ \A l \in S : l \in DOMAIN Difference(now, before) <=>
                        l \notin DOMAIN before \/ before[l] # now[l]
        /\ \A l \in DOMAIN Difference(now, before) : Difference(now, before)[l] = now[l]
    BY <1>1, <1>3, DifferenceReads
  <2> QED
    BY <2>1, <2>2
<1> HIDE DEF m
<1>6. /\ DOMAIN Merged(c, m) = DOMAIN m \cup DOMAIN shown[c]
      /\ \A l \in DOMAIN m : Merged(c, m)[l] = m[l]
      /\ \A l \in DOMAIN shown[c] \ DOMAIN m : Merged(c, m)[l] = shown[c][l]
  BY <1>1, <1>5, MergedReads DEF TypeOK
<1>7. ASSUME NEW l \in S
      PROVE  l \in DOMAIN Merged(c, m) /\ Merged(c, m)[l] = signals[l]
  <2>1. l \in DOMAIN shown[c] /\ (shown[c][l] = level[l] \/ reported[At[c]][l] # level[l])
    BY <1>7 DEF Said, Knows
  <2>2. CASE l \in DOMAIN m
    BY <2>2, <1>3, <1>5, <1>6
  <2>3. CASE l \notin DOMAIN m
    <3>1. reported[At[c]][l] = signals[l]
      BY <2>3, <1>3, <1>4, <1>5
    <3>2. signals[l] = level[l]
      <4>1. CASE l \in Outputs
        <5>1. OutputsSaid(At[c])
          BY <1>1 DEF Said
        <5> QED
          BY <4>1, <5>1, <3>1, <1>4 DEF OutputsSaid
      <4>2. CASE l \notin Outputs
        BY <4>2, <1>1
      <4> QED
        BY <4>1, <4>2
    <3>3. Merged(c, m)[l] = shown[c][l]
      BY <2>1, <2>3, <1>6
    <3> QED
      BY <2>1, <3>1, <3>2, <3>3, <1>6
  <2> QED
    BY <2>2, <2>3
<1> QED
  BY <1>2, <1>7

\* What a report says is what the device has, and is the sample it was of.
LEMMA ReportSays ==
  ASSUME TypeOK, Said, open, NEW signals \in [Lines -> BOOLEAN], Report(signals),
         level' = signals, last' = signals, open' = open, joined' = joined,
         \A c \in joined : \A l \in Reports[At[c]] :
            l \in DOMAIN shown'[c] /\ shown'[c][l] = signals[l]
  PROVE  Said'
<1>1. \A e \in Endpoints : reported'[e] = Restrict(signals, Reports[e])
  BY DEF Report
<1>2. \A e \in Endpoints : /\ DOMAIN reported'[e] = Reports[e]
                           /\ \A l \in Reports[e] : reported'[e][l] = signals[l]
  BY <1>1, RestrictedTo
<1>3. ASSUME NEW e \in Endpoints
      PROVE  Whole(e)' /\ Sampled(e)' /\ OutputsSaid(e)'
  BY <1>1, <1>2 DEF Whole, Sampled, OutputsSaid
<1>4. ASSUME NEW c \in joined'
      PROVE  SaidTo(c)' /\ \A l \in Reports[At[c]] : Knows(c, l)'
  <2>1. At[c] \in Endpoints
    BY ClientFacts
  <2>2. SaidTo(c)'
    BY <2>1, <1>2 DEF SaidTo
  <2>3. \A l \in Reports[At[c]] : Knows(c, l)'
    BY <1>2 DEF Knows
  <2> QED
    BY <2>2, <2>3
<1> QED
  BY <1>3, <1>4 DEF Said, Unsampled

LEMMA PollSays ==
  ASSUME TypeOK, Said, ~Debug, Poll
  PROVE  Said'
<1>1. open /\ open' = open /\ joined' = joined /\ level' = level /\ last' = level /\ Polled
      /\ level \in [Lines -> BOOLEAN]
  BY DEF Poll, audience, TypeOK
<1>2. CASE level # last
  <2>1. Report(level) /\ shown' = After(level)
    BY <1>1, <1>2 DEF Poll
  <2>2. \A c \in joined : \A l \in Reports[At[c]] :
            l \in DOMAIN shown'[c] /\ shown'[c][l] = level[l]
    BY <1>1, <2>1, Informed
  <2> QED
    BY <1>1, <2>1, <2>2, ReportSays
<1>3. CASE level = last
  <2>1. UNCHANGED <<level, open, last, joined, reported, shown>>
    BY <1>1, <1>3 DEF Poll
  <2> QED
    BY <2>1 DEF Said, Unsampled, Whole, Sampled, OutputsSaid, SaidTo, Knows, In
<1> QED
  BY <1>2, <1>3

LEMMA SetSays ==
  ASSUME TypeOK, Said, NEW l \in Outputs, NEW value \in BOOLEAN,
         SetOverHttp(l, value) \/ \E c \in Clients : Set(c, l, value)
  PROVE  Said'
<1>1. PICK now \in [Lines -> BOOLEAN] : now = With(l, value)
  BY WithReads
<1>2. \A x \in Lines \ Outputs : now[x] = level[x]
  BY <1>1, WithReads
<1>3. /\ open /\ open' = open /\ level' = now /\ last' = now /\ Report(now) /\ joined' = joined
  BY <1>1 DEF Set, SetOverHttp, SetLine, audience
<1>4. PICK pages \in [Clients \cup Watchers -> Readings] : pages = After(now)
  BY AfterReads
<1>5. ASSUME NEW d \in joined, NEW x \in Reports[At[d]]
      PROVE  x \in DOMAIN pages[d] /\ pages[d][x] = now[x]
  BY <1>2, <1>3, <1>4, Informed
<1>6. ASSUME NEW d \in joined, NEW x \in Reports[At[d]]
      PROVE  x \in DOMAIN shown'[d] /\ shown'[d][x] = now[x]
  <2>1. CASE SetOverHttp(l, value)
    BY <1>1, <1>4, <1>5, <2>1 DEF SetOverHttp
  <2>2. ASSUME NEW c \in Clients, Set(c, l, value)
        PROVE  x \in DOMAIN shown'[d] /\ shown'[d][x] = now[x]
    <3>1. shown' = [pages EXCEPT ![c] = Answered(c, l, value, pages[c])]
      BY <1>1, <1>4, <2>2 DEF Set
    <3>2. PICK answered : answered = Answered(c, l, value, pages[c])
      OBVIOUS
    <3>3. /\ DOMAIN answered \cap Reports[At[c]] = DOMAIN pages[c] \cap Reports[At[c]]
          /\ \A y \in DOMAIN pages[c] \cap Reports[At[c]] : answered[y] = pages[c][y]
      BY <3>2, AnsweredReads
    <3>4. x \in DOMAIN pages[d] /\ pages[d][x] = now[x]
      BY <1>5
    <3>5. d \in Clients \cup Watchers
      BY ClientFacts
    <3>6. CASE d = c
      <4>1. shown'[d] = answered
        BY <3>1, <3>2, <3>6
      <4> QED
        BY <3>3, <3>4, <3>6, <4>1, <1>6
    <3>7. CASE d # c
      BY <3>1, <3>4, <3>5, <3>7
    <3> QED
      BY <3>6, <3>7
  <2> QED
    BY <2>1, <2>2
<1> QED
  BY <1>3, <1>6, ReportSays

LEMMA VainSays ==
  ASSUME TypeOK, Said, NEW c \in Clients, NEW l \in Outputs, NEW value \in BOOLEAN,
         SetInVain(c, l, value)
  PROVE  Said'
<1>1. UNCHANGED <<level, open, last, joined, reported>>
  BY VainReads DEF audience
<1>2. ASSUME open, NEW d \in joined, NEW x \in Reports[At[d]], Knows(d, x)
      PROVE  Knows(d, x)'
  <2>1. x \in DOMAIN shown'[d] /\ shown'[d][x] = shown[d][x]
    <3>1. CASE d = c
      BY <3>1, <1>2, VainReads DEF Knows
    <3>2. CASE d # c
      BY <3>2, <1>2, VainReads, ClientFacts DEF Knows
    <3> QED
      BY <3>1, <3>2
  <2> QED
    BY <2>1, <1>1, <1>2 DEF Knows
<1>3. ASSUME NEW e \in Endpoints
      PROVE  /\ Whole(e) => Whole(e)'
             /\ Sampled(e) => Sampled(e)'
             /\ OutputsSaid(e) => OutputsSaid(e)'
  BY <1>1 DEF Whole, Sampled, OutputsSaid, In
<1> QED
  BY <1>1, <1>2, <1>3 DEF Said, Unsampled, SaidTo

\* A line that moves is found by the next sample: nothing was said of it that
\* the sample would repeat.
LEMMA FlipSays ==
  ASSUME TypeOK, Said, ~Debug, ~Blips, NEW l \in Lines \ Outputs, Flip(l)
  PROVE  Said'
<1>1. /\ level' = [level EXCEPT ![l] = ~@]
      /\ UNCHANGED <<open, last, reported, shown, joined>>
  BY DEF Flip, audience
<1>2. level' \in [Lines -> BOOLEAN] /\ level'[l] # level[l]
      /\ (\A x \in Lines : x # l => level'[x] = level[x])
  BY <1>1 DEF TypeOK
<1>3. Unsampled'
  BY <1>1 DEF Said, Unsampled
<1>4. CASE ~open
  BY <1>1, <1>3, <1>4 DEF Said
<1>5. CASE open
  <2>1. ASSUME NEW e \in Endpoints
        PROVE  Whole(e)' /\ OutputsSaid(e)'
    <3>1. Whole(e) /\ OutputsSaid(e) /\ DOMAIN reported[e] \in SUBSET Lines
      BY <1>5, SignalsAssumption DEF Said, TypeOK
    <3> QED
      BY <3>1, <1>1, <1>2 DEF Whole, OutputsSaid
  <2>2. \A c \in joined : SaidTo(c)'
    BY <1>1, <1>5 DEF Said, SaidTo
  <2>3. CASE last = level
    <3>1. ASSUME NEW e \in Endpoints
          PROVE  Sampled(e)'
      <4>1. Sampled(e)
        BY <1>5 DEF Said
      <4> QED
        BY <4>1, <2>3, <1>1 DEF Sampled
    <3>2. ASSUME NEW c \in joined, NEW x \in Reports[At[c]]
          PROVE  Knows(c, x)'
      <4>1. x \in DOMAIN shown[c] /\ shown[c][x] = level[x]
        BY <1>5, <2>3 DEF Said, Knows
      <4>2. CASE x # l
        <5>1. x \in Lines
          BY ClientFacts
        <5> QED
          BY <4>1, <4>2, <5>1, <1>1, <1>2 DEF Knows
      <4>3. CASE x = l
        <5>1. At[c] \in Endpoints /\ DOMAIN reported[At[c]] = Reports[At[c]]
          BY <1>5, ClientFacts DEF Said, SaidTo
        <5>2. Sampled(At[c])
          BY <5>1, <1>5 DEF Said
        <5>3. reported[At[c]] # Nothing
          BY <5>1 DEF Nothing
        <5>4. last # Nothing
          BY <2>3 DEF Nothing, TypeOK
        <5>5. reported[At[c]][x] = level[x]
          BY <5>2, <5>3, <5>4, <2>3, RestrictedTo DEF Sampled
        <5>6. last' # level'
          BY <2>3, <1>1, <1>2
        <5>7. reported'[At[c]][x] # level'[x]
          BY <5>5, <4>3, <1>1, <1>2
        <5> QED
          BY <4>1, <5>6, <5>7, <1>1 DEF Knows
      <4> QED
        BY <4>2, <4>3
    <3> QED
      BY <2>1, <2>2, <3>1, <3>2, <1>1, <1>3 DEF Said
  <2>4. CASE ~Polled
    <3>1. \A c \in joined : Reports[At[c]] = {}
      BY <2>4 DEF Polled, Watched, LinesOf
    <3>2. ASSUME NEW e \in Endpoints
          PROVE  Sampled(e)'
      <4>1. Sampled(e) /\ (In(e))' = In(e)
        BY <1>1, <1>5 DEF Said, In
      <4>2. CASE In(e) = {}
        BY <4>1, <4>2, <1>1 DEF Sampled
      <4>3. CASE In(e) # {}
        <5>1. Reports[e] = {}
          BY <3>1, <4>3 DEF In
        <5>2. Restrict(level, Reports[e]) = Restrict(level', Reports[e])
          BY <5>1 DEF Restrict
        <5> QED
          BY <4>1, <5>2, <1>1 DEF Sampled
      <4> QED
        BY <4>2, <4>3
    <3> QED
      BY <2>1, <2>2, <3>1, <3>2, <1>1, <1>3 DEF Said
  <2> QED
    BY <1>5, <2>3, <2>4 DEF Flip
<1> QED
  BY <1>4, <1>5

LEMMA FoundSays ==
  ASSUME TypeOK, Said, ~open, NEW C \in SUBSET Clients, Found(C), joined' \subseteq Clients,
         level' = level, last' = last,
         \A c \in joined' : shown'[c] = Merged(c, Restrict(level, Reports[At[c]]))
  PROVE  Said'
<1>1. last' = Nothing /\ open'
  BY DEF Said, Unsampled, Found
<1>2. \A e \in Endpoints : /\ DOMAIN reported'[e] = Reports[e]
                           /\ \A l \in Reports[e] : reported'[e][l] = level[l]
  <2>1. \A e \in Endpoints : reported'[e] = Restrict(level, Reports[e])
    BY DEF Found
  <2> QED
    BY <2>1, RestrictedTo
<1>3. ASSUME NEW e \in Endpoints
      PROVE  Whole(e)' /\ Sampled(e)' /\ OutputsSaid(e)'
  BY <1>1, <1>2 DEF Whole, Sampled, OutputsSaid
<1>4. ASSUME NEW c \in joined'
      PROVE  SaidTo(c)' /\ \A l \in Reports[At[c]] : Knows(c, l)'
  <2>1. c \in Clients \cup Watchers /\ At[c] \in Endpoints /\ Reports[At[c]] \in SUBSET Lines
    BY SignalsAssumption
  <2>2. PICK m : m = Restrict(level, Reports[At[c]])
    OBVIOUS
  <2>3. /\ m \in Readings /\ DOMAIN m = Reports[At[c]]
        /\ \A l \in Reports[At[c]] : m[l] = level[l]
    BY <2>1, <2>2, RestrictReads, RestrictedTo DEF TypeOK
  <2>4. /\ DOMAIN Merged(c, m) = DOMAIN m \cup DOMAIN shown[c]
        /\ \A l \in DOMAIN m : Merged(c, m)[l] = m[l]
    BY <2>1, <2>3, MergedReads DEF TypeOK
  <2>5. shown'[c] = Merged(c, m)
    BY <2>2
  <2>6. \A l \in Reports[At[c]] : Knows(c, l)'
    BY <2>3, <2>4, <2>5 DEF Knows
  <2> QED
    BY <2>1, <2>6, <1>2 DEF SaidTo
<1> QED
  BY <1>1, <1>3, <1>4 DEF Said, Unsampled

LEMMA OpenSays ==
  ASSUME TypeOK, Said, Open \/ \E c \in Clients : JoinOpening(c)
  PROVE  Said'
<1>1. \A c \in Clients : c \notin Watchers
  BY SignalsAssumption
<1>2. CASE Open
  <2>1. /\ ~open /\ Found(joined) /\ level' = level /\ last' = last /\ joined' = joined
        /\ joined \in SUBSET Clients
    BY <1>2 DEF Open, audience, TypeOK
  <2>2. ASSUME NEW c \in joined'
        PROVE  shown'[c] = Merged(c, Restrict(level, Reports[At[c]]))
    <3>1. c \in joined /\ c \in Clients \cup Watchers /\ Named(c) = Reports[At[c]]
      BY <2>1, ClientFacts
    <3> QED
      BY <1>2, <3>1 DEF Open
  <2> QED
    BY <2>1, <2>2, FoundSays
<1>3. ASSUME NEW d \in Clients, JoinOpening(d)
      PROVE  Said'
  <2>1. /\ ~open /\ Found(joined') /\ level' = level /\ last' = last
        /\ joined' \in SUBSET Clients /\ watching \subseteq Watchers
    BY <1>3 DEF JoinOpening, TypeOK
  <2>2. ASSUME NEW c \in joined'
        PROVE  shown'[c] = Merged(c, Restrict(level, Reports[At[c]]))
    <3>1. c \in Clients \cup Watchers /\ c \notin watching
      BY <1>1, <2>1
    <3> QED
      BY <1>3, <3>1 DEF JoinOpening
  <2> QED
    BY <2>1, <2>2, FoundSays
<1> QED
  BY <1>2, <1>3

\* The first client of an endpoint decides what counts as said to it, and is
\* told just that; whoever comes later is told what is current.
LEMMA JoinSays ==
  ASSUME TypeOK, Said, NEW c \in Clients, Join(c)
  PROVE  Said'
<1> DEFINE e == At[c]
           signals == Current(Reports[e])
<1>1. /\ e \in Endpoints /\ Reports[e] \in SUBSET Lines /\ c \notin Watchers
  BY SignalsAssumption
<1>2. /\ joined' = joined \cup {c} /\ UNCHANGED <<level, open, last>>
      /\ reported' = [reported EXCEPT ![e] = IF @ = Nothing THEN signals ELSE @]
      /\ shown' = [shown EXCEPT ![c] = signals]
  BY DEF Join
<1>3. CASE ~open
  BY <1>2, <1>3 DEF Said, Unsampled
<1>4. CASE open
  <2>1. /\ signals = Restrict(level, Reports[e]) /\ DOMAIN signals = Reports[e]
        /\ \A l \in Reports[e] : signals[l] = level[l]
    BY <1>4, RestrictedTo DEF Current
  <2> HIDE DEF signals
  <2>2. /\ reported'[e] = IF reported[e] = Nothing THEN signals ELSE reported[e]
        /\ \A f \in Endpoints : f # e => reported'[f] = reported[f]
    BY <1>1, <1>2 DEF TypeOK
  <2>3. DOMAIN reported'[e] = Reports[e]
    BY <1>1, <1>4, <2>1, <2>2 DEF Said, Whole
  <2>4. ASSUME NEW f \in Endpoints
        PROVE  Whole(f)' /\ Sampled(f)' /\ OutputsSaid(f)'
    <3>1. Whole(f) /\ Sampled(f) /\ OutputsSaid(f)
      BY <1>4 DEF Said
    <3>2. In(f) # {} => In(f)' # {}
      BY <1>2 DEF In
    <3>3. CASE reported'[f] = reported[f]
      BY <3>1, <3>2, <3>3, <1>2 DEF Whole, Sampled, OutputsSaid
    <3>4. CASE reported'[f] # reported[f]
      <4>1. f = e /\ reported'[f] = signals
        BY <2>2, <3>4
      <4>2. In(f)' # {}
        BY <4>1, <1>2 DEF In
      <4> QED
        BY <4>1, <4>2, <2>1, <1>2 DEF Whole, Sampled, OutputsSaid
    <3> QED
      BY <3>3, <3>4
  <2>5. ASSUME NEW d \in joined'
        PROVE  SaidTo(d)' /\ \A l \in Reports[At[d]] : Knows(d, l)'
    <3>1. CASE d = c
      <4>1. SaidTo(d)'
        BY <3>1, <2>3 DEF SaidTo
      <4>2. shown'[d] = signals
        BY <3>1, <1>2 DEF TypeOK
      <4> QED
        BY <3>1, <4>1, <4>2, <2>1, <1>2 DEF Knows
    <3>2. CASE d # c
      <4>1. d \in joined /\ d \in Clients
        BY <3>2, <1>2 DEF TypeOK
      <4>2. /\ DOMAIN reported[At[d]] = Reports[At[d]] /\ At[d] \in Endpoints
            /\ \A l \in Reports[At[d]] : Knows(d, l)
        BY <4>1, <1>4, ClientFacts DEF Said, SaidTo
      <4>3. SaidTo(d)'
        BY <4>2, <2>2, <2>3 DEF SaidTo
      <4>4. shown'[d] = shown[d]
        BY <3>2, <4>1, <1>2 DEF TypeOK
      <4>5. ASSUME NEW l \in Reports[At[d]]
            PROVE  Knows(d, l)'
        <5>1. reported[At[d]] # Nothing
          BY <4>2 DEF Nothing
        <5>2. reported'[At[d]] = reported[At[d]]
          BY <4>2, <5>1, <2>2
        <5> QED
          BY <4>2, <4>4, <5>2, <1>2 DEF Knows
      <4> QED
        BY <4>3, <4>5
    <3> QED
      BY <3>1, <3>2
  <2> QED
    BY <1>2, <1>4, <2>4, <2>5 DEF Said, Unsampled
<1> QED
  BY <1>3, <1>4

LEMMA LeaveSays ==
  ASSUME TypeOK, Said, NEW c \in Clients, Leave(c)
  PROVE  Said'
<1> DEFINE e == At[c]
<1>1. e \in Endpoints
  BY SignalsAssumption
<1>2. /\ c \in joined /\ joined' = joined \ {c} /\ UNCHANGED <<level, open, last>>
      /\ reported' = [reported EXCEPT ![e] = IF In(e) = {c} THEN Nothing ELSE @]
      /\ shown' = [shown EXCEPT ![c] = Nothing]
  BY DEF Leave
<1>3. CASE ~open
  BY <1>2, <1>3 DEF Said, Unsampled
<1>4. CASE open
  <2>1. /\ reported'[e] = IF In(e) = {c} THEN Nothing ELSE reported[e]
        /\ \A f \in Endpoints : f # e => reported'[f] = reported[f]
    BY <1>1, <1>2 DEF TypeOK
  <2>2. ASSUME NEW f \in Endpoints
        PROVE  Whole(f)' /\ Sampled(f)' /\ OutputsSaid(f)'
    <3>1. Whole(f) /\ Sampled(f) /\ OutputsSaid(f)
      BY <1>4 DEF Said
    <3>2. CASE reported'[f] = Nothing
      BY <3>2 DEF Whole, Sampled, OutputsSaid, Nothing
    <3>3. CASE reported'[f] # Nothing
      <4>1. reported'[f] = reported[f] /\ (f = e => In(f) # {c})
        BY <3>3, <2>1
      <4>2. In(f) # {} => In(f)' # {}
        BY <4>1, <1>2 DEF In
      <4> QED
        BY <3>1, <4>1, <4>2, <1>2 DEF Whole, Sampled, OutputsSaid
    <3> QED
      BY <3>2, <3>3
  <2>3. ASSUME NEW d \in joined'
        PROVE  SaidTo(d)' /\ \A l \in Reports[At[d]] : Knows(d, l)'
    <3>1. d \in joined /\ d # c
      BY <1>2
    <3>2. d \in Clients /\ At[d] \in Endpoints
      BY <3>1, ClientFacts
    <3>3. SaidTo(d) /\ \A l \in Reports[At[d]] : Knows(d, l)
      BY <3>1, <1>4 DEF Said
    <3>4. At[d] = e => In(e) # {c}
      BY <3>1 DEF In
    <3>5. reported'[At[d]] = reported[At[d]] /\ shown'[d] = shown[d]
      BY <3>1, <3>2, <3>4, <2>1, <1>2 DEF TypeOK
    <3> QED
      BY <3>3, <3>5, <1>2 DEF SaidTo, Knows
  <2> QED
    BY <1>2, <1>4, <2>2, <2>3 DEF Said, Unsampled
<1> QED
  BY <1>3, <1>4

LEMMA WatchersSay ==
  ASSUME TypeOK, Said, Refresh \/ \E w \in Watchers : Watch(w) \/ Unwatch(w)
  PROVE  Said'
<1>1. UNCHANGED <<level, open, last, joined, reported>>
  BY DEF Refresh, Watch, Unwatch, audience
<1>2. \A c \in joined : shown'[c] = shown[c]
  <2>1. \A c \in joined : c \in Clients \cup Watchers /\ c \notin Watchers /\ c \notin watching
    BY ClientFacts DEF TypeOK
  <2> QED
    BY <2>1 DEF Refresh, Watch, Unwatch, TypeOK
<1> QED
  BY <1>1, <1>2 DEF Said, Unsampled, Whole, Sampled, OutputsSaid, SaidTo, Knows, In

LEMMA EverythingSaid ==
  ASSUME ~Debug, ~Blips
  PROVE  Spec => []Said
<1>1. Init => Said
  BY DEF Init, Said, Unsampled
<1>2. ASSUME TypeOK, Said, [Next]_vars
      PROVE  Said'
  <2>1. CASE Poll
    BY <1>2, <2>1, PollSays
  <2>2. CASE Open \/ \E c \in Clients : JoinOpening(c)
    BY <1>2, <2>2, OpenSays
  <2>3. CASE Close
    BY <2>3 DEF Close, Said, Unsampled
  <2>4. CASE Refresh \/ \E w \in Watchers : Watch(w) \/ Unwatch(w)
    BY <1>2, <2>4, WatchersSay
  <2>5. ASSUME NEW l \in Outputs, NEW value \in BOOLEAN,
               \/ SetOverHttp(l, value)
               \/ \E c \in Clients : Set(c, l, value) \/ SetInVain(c, l, value)
        PROVE  Said'
    <3>1. CASE SetOverHttp(l, value) \/ \E c \in Clients : Set(c, l, value)
      BY <1>2, <3>1, SetSays
    <3>2. ASSUME NEW c \in Clients, SetInVain(c, l, value)
          PROVE  Said'
      BY <1>2, <3>2, VainSays
    <3> QED
      BY <2>5, <3>1, <3>2
  <2>6. ASSUME NEW l \in Lines \ Outputs, Flip(l)
        PROVE  Said'
    BY <1>2, <2>6, FlipSays
  <2>7. ASSUME NEW c \in Clients, Join(c) \/ Leave(c)
        PROVE  Said'
    BY <1>2, <2>7, JoinSays, LeaveSays
  <2>8. CASE UNCHANGED vars
    BY <1>2, <2>8 DEF vars, Said, Unsampled, Whole, Sampled, OutputsSaid, SaidTo, Knows, In
  <2> QED
    BY <1>2, <2>1, <2>2, <2>3, <2>4, <2>5, <2>6, <2>7, <2>8 DEF Next
<1> QED
  BY <1>1, <1>2, TypeCorrect, PTL DEF Spec

\* Whenever a sample would find nothing new, every client's page shows every
\* line its endpoint reports as it is, whoever came, left, set a line or
\* opened the device before: as long as lines are sampled only for somebody,
\* and do not go and return between two samples (process_signals,
\* send_signal_report).
THEOREM ClientsAreRight ==
  ASSUME ~Debug, ~Blips
  PROVE  Spec => []ClientsKnowLines
<1>1. TypeOK /\ Said => ClientsKnowLines
  <2> SUFFICES ASSUME TypeOK, Said, open, last = level, NEW c \in joined
               PROVE  Restrict(shown[c], Reports[At[c]]) = Restrict(level, Reports[At[c]])
    BY DEF ClientsKnowLines
  <2>1. \A l \in Reports[At[c]] : shown[c][l] = level[l]
    BY DEF Said, Knows
  <2> QED
    BY <2>1 DEF Restrict
<1> QED
  BY <1>1, TypeCorrect, EverythingSaid, PTL

-----------------------------------------------------------------------------
(* A device that is closed *)

\* While the device is not open no page shows a line that is reported to it:
\* what its closing took from the pages comes back neither with the greeting of
\* a newcomer nor with the walk of the monitor, for any lines, endpoints,
\* clients and watchers. (on_serial_lost, _current_signals.)
THEOREM Dark == Spec => []ClosedIsDark
<1>1. DOMAIN Nothing = {}
  BY DEF Nothing
<1>2. Init => ClosedIsDark
  BY <1>1 DEF Init, ClosedIsDark
<1>3. ASSUME TypeOK, ClosedIsDark, [Next]_vars
      PROVE  ClosedIsDark'
  <2>1. CASE Poll
    BY <2>1 DEF Poll, ClosedIsDark
  <2>2. CASE Open \/ \E c \in Clients : JoinOpening(c)
    BY <2>2 DEF Open, JoinOpening, Found, ClosedIsDark
  <2>3. CASE Close
    BY <1>1, <2>3 DEF Close, ClosedIsDark
  <2>4. CASE Refresh
    BY <1>3, <2>4, SignalsAssumption DEF Refresh, Current, ClosedIsDark, TypeOK
  <2>5. ASSUME NEW l \in Outputs, NEW value \in BOOLEAN,
               \/ SetOverHttp(l, value)
               \/ \E c \in Clients : Set(c, l, value) \/ SetInVain(c, l, value)
        PROVE  ClosedIsDark'
    <3>1. CASE SetOverHttp(l, value) \/ \E c \in Clients : Set(c, l, value)
      BY <3>1 DEF SetOverHttp, Set, SetLine, ClosedIsDark
    <3>2. ASSUME NEW c \in Clients, SetInVain(c, l, value)
          PROVE  ClosedIsDark'
      <4>1. /\ open' = open
            /\ \A p \in Clients \cup Watchers : p # c => shown'[p] = shown[p]
            /\ DOMAIN shown'[c] \cap Reports[At[c]] = DOMAIN shown[c] \cap Reports[At[c]]
        BY <1>3, <3>2, VainReads
      <4>2. c \notin Watchers
        BY SignalsAssumption
      <4> QED
        BY <1>3, <4>1, <4>2 DEF ClosedIsDark
    <3> QED
      BY <2>5, <3>1, <3>2
  <2>6. ASSUME NEW l \in Lines \ Outputs, Flip(l)
        PROVE  ClosedIsDark'
    BY <1>3, <2>6 DEF Flip, ClosedIsDark
  <2>7. ASSUME NEW c \in Clients, Join(c) \/ Leave(c)
        PROVE  ClosedIsDark'
    <3>1. c \notin Watchers /\ open' = open
      BY <2>7, SignalsAssumption DEF Join, Leave
    <3>2. ~open => shown' = [shown EXCEPT ![c] = Nothing]
      BY <2>7 DEF Join, Leave, Current
    <3> QED
      BY <1>1, <1>3, <3>1, <3>2 DEF ClosedIsDark, TypeOK
  <2>8. ASSUME NEW w \in Watchers, Watch(w) \/ Unwatch(w)
        PROVE  ClosedIsDark'
    <3>1. w \notin Clients /\ open' = open
      BY <2>8, SignalsAssumption DEF Watch, Unwatch
    <3>2. ~open => shown' = [shown EXCEPT ![w] = Nothing]
      BY <2>8 DEF Watch, Unwatch, Current
    <3> QED
      BY <1>3, <3>1, <3>2 DEF ClosedIsDark, TypeOK
  <2>9. CASE UNCHANGED vars
    BY <1>3, <2>9 DEF vars, ClosedIsDark
  <2> QED
    BY <1>3, <2>1, <2>2, <2>3, <2>4, <2>5, <2>6, <2>7, <2>8, <2>9 DEF Next
<1> QED
  BY <1>2, <1>3, TypeCorrect, PTL DEF Spec
=============================================================================
