-------------------------- MODULE CertBundle_proofs --------------------------
(***************************************************************************)
(* What certificate bundles promise for any number of bundles, pairs and   *)
(* servers, and whatever others do to the files. The types carry           *)
(* everything else: a context is only ever replaced by one that was        *)
(* loaded, and only servers that run are reloaded.                         *)
(***************************************************************************)
EXTENDS CertBundle, TLAPS

USE CertBundleAssumption DEF CertBundleAssumption

\* A server runs only if it is configured, and is reloaded only if it runs.
RunningConfigured ==
  /\ \A s \in Servers : context[s] # Stopped => s \in configured
  /\ \A s \in todo : context[s] # Stopped

Typed == TypeOK /\ RunningConfigured

LEMMA FilesTyped ==
  ASSUME TypeOK, NEW b \in Bundles
  PROVE  FilesOf(b) \in Files
BY DEF TypeOK, FilesOf, Empty, Files

\* Loading into a context gives a context, if the files load.
LEMMA AfterTyped ==
  ASSUME NEW ctx, NEW files \in Files, NEW mutual, Loads(files, mutual),
         ctx.trust \subseteq Pairs, ctx.verify \in BOOLEAN, mutual \in BOOLEAN
  PROVE  /\ After(ctx, files, mutual) \in Contexts
         /\ After(ctx, files, mutual).key = After(ctx, files, mutual).cert
         /\ After(ctx, files, mutual).trust = ctx.trust \cup (IF mutual THEN {files.ca} ELSE {})
         /\ After(ctx, files, mutual).verify <=> ctx.verify \/ mutual
<1> DEFINE new == [cert |-> files.cert, key |-> files.key,
            trust |-> ctx.trust \cup (IF mutual THEN {files.ca} \cap Pairs ELSE {}),
            verify |-> ctx.verify \/ (mutual /\ files.ca \in Pairs)]
<1>1. After(ctx, files, mutual) = new
  BY DEF After, Loads
<1>2. new \in Contexts
  BY DEF Loads, Contexts
<1>3. new.trust = ctx.trust \cup (IF mutual THEN {files.ca} ELSE {})
  BY DEF Loads
<1>4. new.verify <=> ctx.verify \/ mutual
  BY DEF Loads
<1>5. new.key = new.cert
  BY DEF Loads
<1> HIDE DEF new
<1> QED
  BY <1>1, <1>2, <1>3, <1>4, <1>5

\* The same where it fails half-way: who verifies its clients goes on doing so.
LEMMA AfterAnyTyped ==
  ASSUME NEW ctx \in Contexts, NEW files \in Files, NEW mutual \in BOOLEAN
  PROVE  /\ After(ctx, files, mutual) \in Contexts
         /\ ctx.trust \subseteq After(ctx, files, mutual).trust
         /\ ctx.verify => After(ctx, files, mutual).verify
         /\ ~mutual => After(ctx, files, mutual).trust = ctx.trust
         /\ ~mutual => (After(ctx, files, mutual).verify <=> ctx.verify)
<1>1. CASE files.cert \notin Pairs
  BY <1>1 DEF After
<1>2. CASE files.cert \in Pairs /\ files.key # files.cert
  <2> DEFINE key == IF ctx.key = files.cert THEN ctx.key ELSE Missing
             new == [ctx EXCEPT !.cert = files.cert, !.key = key]
  <2>1. After(ctx, files, mutual) = new
    BY <1>2 DEF After
  <2>2. key \in Pairs \cup {Missing}
    BY <1>2
  <2> HIDE DEF key
  <2>3. new \in Contexts /\ new.trust = ctx.trust /\ new.verify = ctx.verify
    BY <1>2, <2>2 DEF Contexts
  <2> HIDE DEF new
  <2> QED
    BY <2>1, <2>3
<1>3. CASE files.cert \in Pairs /\ files.key = files.cert
  <2> DEFINE trust == ctx.trust \cup (IF mutual THEN {files.ca} \cap Pairs ELSE {})
             verify == ctx.verify \/ (mutual /\ files.ca \in Pairs)
             new == [cert |-> files.cert, key |-> files.key, trust |-> trust, verify |-> verify]
  <2>1. After(ctx, files, mutual) = new
    BY <1>3 DEF After
  <2>2. trust \subseteq Pairs /\ ctx.trust \subseteq trust /\ (~mutual => trust = ctx.trust)
    BY DEF Contexts
  <2>3. verify \in BOOLEAN /\ (ctx.verify => verify) /\ (~mutual => (verify <=> ctx.verify))
    BY DEF Contexts
  <2> HIDE DEF trust, verify
  <2>4. new \in Contexts /\ new.trust = trust /\ new.verify = verify
    BY <1>3, <2>2, <2>3 DEF Contexts
  <2> HIDE DEF new
  <2> QED
    BY <2>1, <2>2, <2>3, <2>4
<1> QED
  BY <1>1, <1>2, <1>3

\* A server that starts has a context of its own, with its key, that verifies
\* clients exactly if it is to.
LEMMA BuiltTyped ==
  ASSUME TypeOK, NEW s \in Servers
  PROVE  /\ Built(s) \in Contexts \cup {Stopped}
         /\ Built(s) # Stopped => /\ Loads(FilesOf(BundleOf[s]), s \in Mutual)
                                  /\ Built(s).key = Built(s).cert
                                  /\ Built(s).verify <=> s \in Mutual
                                  /\ Built(s).trust # {} <=> s \in Mutual
<1> DEFINE files == FilesOf(BundleOf[s])
           mutual == s \in Mutual
<1>1. files \in Files
  BY FilesTyped
<1>2. CASE Loads(files, mutual)
  <2>1. Fresh.trust = {} /\ Fresh.verify = FALSE
    BY DEF Fresh
  <2>2. mutual \in BOOLEAN
    OBVIOUS
  <2> HIDE DEF files, mutual
  <2>3. /\ After(Fresh, files, mutual) \in Contexts
        /\ After(Fresh, files, mutual).key = After(Fresh, files, mutual).cert
        /\ After(Fresh, files, mutual).trust =
             Fresh.trust \cup (IF mutual THEN {files.ca} ELSE {})
        /\ After(Fresh, files, mutual).verify <=> Fresh.verify \/ mutual
    <3>1. Fresh.trust \subseteq Pairs /\ Fresh.verify \in BOOLEAN
      BY <2>1
    <3> QED
      BY <1>1, <1>2, <2>2, <3>1, AfterTyped
  <2>4. Built(s) = After(Fresh, files, mutual)
    BY <1>2 DEF Built, files, mutual
  <2> QED
    BY <1>2, <2>1, <2>3, <2>4 DEF files, mutual
<1>3. CASE ~Loads(files, mutual)
  BY <1>3 DEF Built
<1> QED
  BY <1>2, <1>3
-----------------------------------------------------------------------------
(***************************************************************************)
(* Types                                                                   *)
(***************************************************************************)
LEMMA TypedInit == Init => Typed
BY DEF Init, Typed, TypeOK, RunningConfigured

\* What a request writes to a bundle is files again, and nothing but files.
Written(b) ==
  /\ Idle \/ Racing
  /\ \E new \in Files : disk' = [disk EXCEPT ![b] = new]
  /\ UNCHANGED <<configured, context, todo, next>>

LEMMA SavingWrites ==
  ASSUME TypeOK, NEW b \in Bundles, NEW items, NEW landed \in SUBSET Names,
         \A f \in landed : items[f] \in Content,
         SaveFiles(b, items, landed)
  PROVE  Written(b)
<1>0. PICK lost :
        disk' = [disk EXCEPT ![b] =
          [f \in Names |-> IF f \in landed THEN items[f]
                           ELSE IF f \in lost THEN Missing ELSE FilesOf(b)[f]]]
  BY DEF SaveFiles
<1> DEFINE new == [f \in Names |-> IF f \in landed THEN items[f]
                                   ELSE IF f \in lost THEN Missing ELSE FilesOf(b)[f]]
<1>1. FilesOf(b) \in Files
  BY FilesTyped
<1>2. new \in Files
  BY <1>1 DEF Files
<1>3. disk' = [disk EXCEPT ![b] = new]
  BY <1>0
<1> HIDE DEF new
<1> QED
  BY <1>2, <1>3 DEF SaveFiles, Written

LEMMA UploadWrites ==
  ASSUME TypeOK, NEW b \in Bundles, Upload(b)
  PROVE  Written(b)
<1>1. PICK named \in SUBSET Names \ {{}} : \E items \in [named -> Content], landed \in SUBSET named :
        SaveFiles(b, items, landed)
  BY DEF Upload
<1>2. PICK items \in [named -> Content], landed \in SUBSET named : SaveFiles(b, items, landed)
  BY <1>1
<1> QED
  BY <1>2, SavingWrites

LEMMA GenerateWrites ==
  ASSUME TypeOK, NEW b \in Bundles, NEW signer \in Bundles, Generate(b, signer)
  PROVE  Written(b)
<1> DEFINE own(pair) == [f \in {"cert", "key"} |-> pair]
           signed(pair) == [f \in Names |-> IF f = "ca" THEN FilesOf(signer).cert ELSE pair]
           items(pair) == IF signer = b THEN own(pair) ELSE signed(pair)
<1>1. PICK pair \in Pairs, landed \in SUBSET Names :
        /\ signer = b \/ Loads(FilesOf(signer), FALSE)
        /\ landed \subseteq DOMAIN items(pair)
        /\ SaveFiles(b, items(pair), landed)
  BY DEF Generate
<1>2. \A f \in landed : items(pair)[f] \in Content
  BY <1>1 DEF Loads, Content
<1> HIDE DEF items
<1> QED
  BY <1>1, <1>2, SavingWrites

LEMMA DeleteFileWrites ==
  ASSUME TypeOK, NEW b \in Bundles, NEW f \in Names, DeleteFile(b, f)
  PROVE  Written(b)
<1>1. [disk[b] EXCEPT ![f] = Missing] \in Files
  BY DEF DeleteFile, TypeOK, Files
<1> QED
  BY <1>1 DEF DeleteFile, Written

LEMMA OutsideWrites ==
  ASSUME TypeOK, NEW b \in Bundles, NEW f \in Names, Outside(b, f)
  PROVE  Written(b)
<1>1. PICK content \in Content \cup {Missing} : disk' = [disk EXCEPT ![b][f] = content]
  BY DEF Outside
<1>2. [disk[b] EXCEPT ![f] = content] \in Files
  BY DEF Outside, TypeOK, Files
<1> QED
  BY <1>1, <1>2 DEF Outside, Written

LEMMA CreateWrites ==
  ASSUME TypeOK, NEW b \in Bundles, Create(b)
  PROVE  Written(b)
BY DEF Create, Empty, Files, Written

\* A step writes files, deletes a bundle, or leaves the disk alone.
LEMMA Steps ==
  ASSUME TypeOK, [Next]_vars
  PROVE  \/ \E b \in Bundles : Written(b)
         \/ \E b \in Bundles : Delete(b)
         \/ \E b \in Bundles : Reload(b)
         \/ \E s \in Servers : Rehearse(s) \/ Install(s) \/ Configure(s) \/ Remove(s)
         \/ Restart
         \/ UNCHANGED vars
<1>1. ASSUME NEW b \in Bundles, Upload(b) PROVE Written(b)
  BY <1>1, UploadWrites
<1>2. ASSUME NEW b \in Bundles, NEW signer \in Bundles, Generate(b, signer) PROVE Written(b)
  BY <1>2, GenerateWrites
<1>3. ASSUME NEW b \in Bundles, NEW f \in Names, DeleteFile(b, f) \/ Outside(b, f) PROVE Written(b)
  BY <1>3, DeleteFileWrites, OutsideWrites
<1>4. ASSUME NEW b \in Bundles, Create(b) PROVE Written(b)
  BY <1>4, CreateWrites
<1> QED
  BY <1>1, <1>2, <1>3, <1>4 DEF Next

\* One step for every action.
LEMMA TypedStep == Typed /\ [Next]_vars => Typed'
<1> SUFFICES ASSUME Typed, [Next]_vars PROVE Typed'
  OBVIOUS
<1> USE DEF Typed, TypeOK, RunningConfigured
<1>1. ASSUME NEW b \in Bundles, Written(b) PROVE Typed'
  BY <1>1 DEF Written
<1>2. ASSUME NEW b \in Bundles, Delete(b) PROVE Typed'
  <2>1. disk[b] \in Files
    BY <1>2 DEF Delete
  <2>2. ASSUME NEW left \in SUBSET Names
        PROVE  [f \in Names |-> IF f \in left THEN disk[b][f] ELSE Missing] \in Files
    BY <2>1 DEF Files
  <2>3. disk' \in [Bundles -> Files \cup {NoBundle}]
    BY <1>2, <2>2 DEF Delete
  <2> QED
    BY <1>2, <2>3 DEF Delete
<1>3. ASSUME NEW b \in Bundles, Reload(b) PROVE Typed'
  BY <1>3 DEF Reload, Idle
<1>4. ASSUME NEW s \in Servers, Rehearse(s) PROVE Typed'
  BY <1>4 DEF Rehearse
<1>5. ASSUME NEW s \in Servers, Install(s) PROVE Typed'
  <2>1. context[s] \in Contexts
    BY <1>5 DEF Install
  <2>2. FilesOf(BundleOf[s]) \in Files /\ (s \in Mutual) \in BOOLEAN
    BY FilesTyped
  <2>3. After(context[s], FilesOf(BundleOf[s]), s \in Mutual) \in Contexts
    BY <2>1, <2>2, AfterAnyTyped
  <2> QED
    BY <1>5, <2>3 DEF Install
<1>6. ASSUME NEW s \in Servers, Configure(s) PROVE Typed'
  <2>1. Built(s) \in Contexts \cup {Stopped}
    BY BuiltTyped
  <2> QED
    BY <1>6, <2>1 DEF Configure, Idle
<1>7. ASSUME NEW s \in Servers, Remove(s) PROVE Typed'
  BY <1>7 DEF Remove, Idle
<1>8. CASE Restart
  <2>1. \A s \in Servers : Built(s) \in Contexts \cup {Stopped}
    BY BuiltTyped
  <2> QED
    BY <1>8, <2>1 DEF Restart, Idle
<1>9. CASE UNCHANGED vars
  BY <1>9 DEF vars
<1> QED
  BY <1>1, <1>2, <1>3, <1>4, <1>5, <1>6, <1>7, <1>8, <1>9, Steps

LEMMA AlwaysTyped == Spec => []Typed
BY TypedInit, TypedStep, PTL DEF Spec

\* Files, contexts and reloads are what they should be (create_bundle,
\* build_tls_context, _reload_bundle_contexts).
THEOREM TypeCorrect == Spec => []TypeOK
<1>1. Typed => TypeOK
  BY DEF Typed
<1> QED
  BY <1>1, AlwaysTyped, PTL

-----------------------------------------------------------------------------
(***************************************************************************)
(* The bundles that are named                                              *)
(***************************************************************************)
LEMMA NamedInit == Init => NamedBundlesExist
BY DEF Init, NamedBundlesExist

\* A directory goes only when nobody names it, and is named only when it is
\* there.
LEMMA NamedStep == Typed /\ NamedBundlesExist /\ [Next]_vars => NamedBundlesExist'
<1> SUFFICES ASSUME Typed, NamedBundlesExist, [Next]_vars PROVE NamedBundlesExist'
  OBVIOUS
<1> USE DEF NamedBundlesExist, Typed, TypeOK
<1>1. ASSUME NEW b \in Bundles, Written(b) PROVE NamedBundlesExist'
  BY <1>1 DEF Written
<1>2. ASSUME NEW b \in Bundles, Delete(b) PROVE NamedBundlesExist'
  BY <1>2 DEF Delete, UsedBy
<1>3. ASSUME NEW s \in Servers, Configure(s) PROVE NamedBundlesExist'
  <2>1. Loads(FilesOf(BundleOf[s]), s \in Mutual)
    BY <1>3, BuiltTyped DEF Configure
  <2>2. Empty.cert \notin Pairs
    BY DEF Empty, Names
  <2>3. FilesOf(BundleOf[s]).cert \in Pairs
    BY <2>1 DEF Loads
  <2>4. disk[BundleOf[s]] # NoBundle
    BY <2>2, <2>3 DEF FilesOf
  <2> QED
    BY <1>3, <2>4 DEF Configure
<1>4. CASE UNCHANGED disk /\ configured' \subseteq configured
  BY <1>4
<1>5. ASSUME NEW b \in Bundles, Reload(b) PROVE UNCHANGED disk /\ configured' \subseteq configured
  BY <1>5 DEF Reload
<1>6. ASSUME NEW s \in Servers, Rehearse(s) \/ Install(s) \/ Remove(s)
      PROVE  UNCHANGED disk /\ configured' \subseteq configured
  BY <1>6 DEF Rehearse, Install, Remove
<1>7. Restart \/ UNCHANGED vars => UNCHANGED disk /\ configured' \subseteq configured
  BY DEF Restart, vars
<1> QED
  BY <1>1, <1>2, <1>3, <1>4, <1>5, <1>6, <1>7, Steps

\* The bundle a server in the configuration names exists, however the server
\* fares and whatever others do (_handle_api_certs_delete).
THEOREM NamedBundlesStay == Spec => []NamedBundlesExist
BY NamedInit, NamedStep, AlwaysTyped, PTL DEF Spec

-----------------------------------------------------------------------------
(***************************************************************************)
(* Clients that are to be verified                                         *)
(***************************************************************************)
LEMMA VerifiedInit == Init => ClientsAreVerified
BY DEF Init, ClientsAreVerified

\* Neither a load that goes through nor one that fails half-way turns it off.
LEMMA VerifiedStep == Typed /\ ClientsAreVerified /\ [Next]_vars => ClientsAreVerified'
<1> SUFFICES ASSUME Typed, ClientsAreVerified, [Next]_vars PROVE ClientsAreVerified'
  OBVIOUS
<1> USE DEF ClientsAreVerified, Typed, TypeOK
<1>1. ASSUME NEW s \in Servers, Install(s) PROVE ClientsAreVerified'
  <2> DEFINE files == FilesOf(BundleOf[s])
             mutual == s \in Mutual
             old == context[s]
             new == After(old, files, mutual)
  <2>1. old \in Contexts
    BY <1>1 DEF Install, RunningConfigured
  <2>2. files \in Files /\ mutual \in BOOLEAN
    BY FilesTyped
  <2>3. context' = [context EXCEPT ![s] = new]
    BY <1>1 DEF Install
  <2>4. /\ old.verify <=> mutual
        /\ old.trust # {} <=> mutual
    BY <2>1
  <2> HIDE DEF files, mutual, old
  <2>5. /\ new \in Contexts
        /\ old.trust \subseteq new.trust
        /\ old.verify => new.verify
        /\ ~mutual => new.trust = old.trust
        /\ ~mutual => (new.verify <=> old.verify)
    BY <2>1, <2>2, AfterAnyTyped
  <2> HIDE DEF new
  <2>6. /\ new.verify <=> mutual
        /\ new.trust # {} <=> mutual
    BY <2>4, <2>5
  <2> QED
    BY <2>3, <2>6 DEF mutual
<1>2. ASSUME NEW s \in Servers, Configure(s) PROVE ClientsAreVerified'
  <2>1. Built(s) # Stopped => (Built(s).verify <=> s \in Mutual) /\ (Built(s).trust # {} <=> s \in Mutual)
    BY BuiltTyped
  <2> QED
    BY <1>2, <2>1 DEF Configure
<1>3. CASE Restart
  <2>1. \A s \in Servers : Built(s) # Stopped =>
          (Built(s).verify <=> s \in Mutual) /\ (Built(s).trust # {} <=> s \in Mutual)
    BY BuiltTyped
  <2> QED
    BY <1>3, <2>1 DEF Restart
<1>4. ASSUME NEW s \in Servers, Remove(s) PROVE ClientsAreVerified'
  BY <1>4 DEF Remove
<1>5. CASE UNCHANGED context
  BY <1>5
<1>6. ASSUME NEW b \in Bundles, Written(b) \/ Delete(b) \/ Reload(b) PROVE UNCHANGED context
  BY <1>6 DEF Written, Delete, Reload
<1>7. ASSUME NEW s \in Servers, Rehearse(s) PROVE UNCHANGED context
  BY <1>7 DEF Rehearse
<1>8. UNCHANGED vars => UNCHANGED context
  BY DEF vars
<1> QED
  BY <1>1, <1>2, <1>3, <1>4, <1>5, <1>6, <1>7, <1>8, Steps

\* A server that is to verify its clients does whenever it runs, though files
\* change under a reload (_load_bundle).
THEOREM ClientsStayVerified == Spec => []ClientsAreVerified
BY VerifiedInit, VerifiedStep, AlwaysTyped, PTL DEF Spec

-----------------------------------------------------------------------------
(***************************************************************************)
(* Certificates and their keys                                             *)
(***************************************************************************)
\* What was rehearsed still loads when it is installed, unless others change
\* files in between.
Rehearsed ==
  ~Racing /\ next # Nobody => Loads(FilesOf(BundleOf[next]), next \in Mutual)

Keyed == Rehearsed /\ (~Racing => ServesWithItsKey)

LEMMA KeyedInit == Init => Keyed
BY DEF Init, Keyed, Rehearsed, ServesWithItsKey

LEMMA RehearsedStep == Typed /\ Rehearsed /\ [Next]_vars => Rehearsed'
<1> SUFFICES ASSUME Typed, Rehearsed, [Next]_vars, ~Racing, next' # Nobody
             PROVE  Loads(FilesOf(BundleOf[next]), next \in Mutual)'
  BY DEF Rehearsed
<1> USE DEF Typed, TypeOK, Rehearsed
<1>1. CASE UNCHANGED <<disk, next>>
  BY <1>1 DEF Loads, FilesOf
<1>2. Idle => next = Nobody
  BY DEF Idle
<1>3. ASSUME NEW b \in Bundles, Written(b) \/ Delete(b) \/ Reload(b) PROVE FALSE
  BY <1>2, <1>3 DEF Written, Delete, Reload
<1>4. ASSUME NEW s \in Servers, Rehearse(s)
      PROVE  Loads(FilesOf(BundleOf[next]), next \in Mutual)'
  BY <1>4 DEF Rehearse, Loads, FilesOf
<1>5. ASSUME NEW s \in Servers, Install(s) PROVE FALSE
  BY <1>5 DEF Install
<1>6. ASSUME NEW s \in Servers, Configure(s) \/ Remove(s) PROVE UNCHANGED <<disk, next>>
  BY <1>6 DEF Configure, Remove
<1>7. Restart \/ UNCHANGED vars => UNCHANGED <<disk, next>>
  BY DEF Restart, vars
<1> QED
  BY <1>1, <1>3, <1>4, <1>5, <1>6, <1>7, Steps

LEMMA KeyedStep == Typed /\ Keyed /\ [Next]_vars => Keyed'
<1> SUFFICES ASSUME Typed, Rehearsed, ServesWithItsKey, [Next]_vars, ~Racing PROVE ServesWithItsKey'
  BY RehearsedStep DEF Keyed
<1> USE DEF ServesWithItsKey, Typed, TypeOK
<1>1. ASSUME NEW s \in Servers, Install(s) PROVE ServesWithItsKey'
  <2> DEFINE files == FilesOf(BundleOf[s])
             mutual == s \in Mutual
             old == context[s]
             new == After(old, files, mutual)
  <2>1. old.trust \subseteq Pairs /\ old.verify \in BOOLEAN
    BY <1>1 DEF Install, RunningConfigured, Contexts
  <2>2. files \in Files /\ mutual \in BOOLEAN
    BY FilesTyped
  <2>3. Loads(files, mutual)
    BY <1>1 DEF Install, Rehearsed
  <2>4. context' = [context EXCEPT ![s] = new]
    BY <1>1 DEF Install
  <2> HIDE DEF files, mutual, old
  <2>5. new.key = new.cert
    BY <2>1, <2>2, <2>3, AfterTyped
  <2> HIDE DEF new
  <2> QED
    BY <2>4, <2>5
<1>2. ASSUME NEW s \in Servers, Configure(s) PROVE ServesWithItsKey'
  <2>1. Built(s) # Stopped => Built(s).key = Built(s).cert
    BY BuiltTyped
  <2> QED
    BY <1>2, <2>1 DEF Configure
<1>3. CASE Restart
  <2>1. \A s \in Servers : Built(s) # Stopped => Built(s).key = Built(s).cert
    BY BuiltTyped
  <2> QED
    BY <1>3, <2>1 DEF Restart
<1>4. ASSUME NEW s \in Servers, Remove(s) PROVE ServesWithItsKey'
  BY <1>4 DEF Remove
<1>5. CASE UNCHANGED context
  BY <1>5
<1>6. ASSUME NEW b \in Bundles, Written(b) \/ Delete(b) \/ Reload(b) PROVE UNCHANGED context
  BY <1>6 DEF Written, Delete, Reload
<1>7. ASSUME NEW s \in Servers, Rehearse(s) PROVE UNCHANGED context
  BY <1>7 DEF Rehearse
<1>8. UNCHANGED vars => UNCHANGED context
  BY DEF vars
<1> QED
  BY <1>1, <1>2, <1>3, <1>4, <1>5, <1>6, <1>7, <1>8, Steps

\* As long as no file changes between the rehearsal of a reload and the load
\* itself, a server that runs has the key of its certificate
\* (reload_tls_context).
THEOREM ServersKeepTheirKey == ASSUME ~Racing PROVE Spec => []ServesWithItsKey
<1>1. Keyed => ServesWithItsKey
  BY DEF Keyed
<1> QED
  BY <1>1, KeyedInit, KeyedStep, AlwaysTyped, PTL DEF Spec

-----------------------------------------------------------------------------
(***************************************************************************)
(* The halves of a pair                                                    *)
(***************************************************************************)
LEMMA HalvesInit == Init => HalvesMatch
BY DEF Init, HalvesMatch, Differ, FilesOf, Empty, Names

LEMMA EmptyMatches == ~Differ(Empty.cert, Empty.key)
BY DEF Differ, Empty, Names

\* An upload that is accepted and written as a whole.
LEMMA SavingMatches ==
  ASSUME TypeOK, HalvesMatch, ~WritesFail, NEW b \in Bundles, NEW items, NEW landed,
         SaveFiles(b, items, landed)
  PROVE  HalvesMatch'
<1> DEFINE old == FilesOf(b)
           new == [f \in Names |-> IF f \in landed THEN items[f] ELSE old[f]]
           half(f) == IF f \in DOMAIN items THEN items[f] ELSE old[f]
<1>1. disk' = [disk EXCEPT ![b] = new]
  <2>1. landed = DOMAIN items
    BY DEF SaveFiles
  <2>2. PICK lost \in {{}} \cup {{f} : f \in DOMAIN items \ landed} :
          disk' = [disk EXCEPT ![b] =
            [f \in Names |-> IF f \in landed THEN items[f]
                             ELSE IF f \in lost THEN Missing ELSE old[f]]]
    BY DEF SaveFiles
  <2>3. lost = {}
    BY <2>1, <2>2
  <2> QED
    BY <2>2, <2>3
<1>2. new.cert = half("cert") /\ new.key = half("key")
  BY DEF SaveFiles, Names
<1>3. {"cert", "key"} \cap DOMAIN items # {} => ~Differ(half("cert"), half("key"))
  BY DEF SaveFiles, PairAccepted
<1>4. {"cert", "key"} \cap DOMAIN items = {} => half("cert") = old.cert /\ half("key") = old.key
  OBVIOUS
<1>5. ~Differ(old.cert, old.key)
  BY DEF HalvesMatch
<1> HIDE DEF old, new, half
<1>6. ~Differ(new.cert, new.key)
  BY <1>2, <1>3, <1>4, <1>5
<1>7. ASSUME NEW x \in Bundles, FilesOf(x)' # FilesOf(x) PROVE ~Differ(FilesOf(x).cert, FilesOf(x).key)'
  <2>1. FilesOf(x)' \in {new, Empty}
    BY <1>1, <1>7 DEF FilesOf, TypeOK
  <2> QED
    BY <1>6, <2>1, EmptyMatches DEF Differ
<1> QED
  BY <1>7 DEF HalvesMatch, Differ

LEMMA HalvesStep ==
  ASSUME ~WritesFail, ~Outsiders
  PROVE  Typed /\ HalvesMatch /\ [Next]_vars => HalvesMatch'
<1> SUFFICES ASSUME TypeOK, HalvesMatch, [Next]_vars PROVE HalvesMatch'
  BY DEF Typed
<1>1. ASSUME NEW b \in Bundles, Upload(b) PROVE HalvesMatch'
  BY <1>1, SavingMatches DEF Upload
<1>2. ASSUME NEW b \in Bundles, NEW signer \in Bundles, Generate(b, signer) PROVE HalvesMatch'
  BY <1>2, SavingMatches DEF Generate
<1>3. ASSUME NEW b \in Bundles, Create(b) \/ Delete(b) PROVE HalvesMatch'
  <2>1. \A x \in Bundles : FilesOf(x)' \in {FilesOf(x), Empty}
    BY <1>3 DEF Create, Delete, FilesOf, TypeOK
  <2> QED
    BY <2>1, EmptyMatches DEF HalvesMatch, Differ
<1>4. ASSUME NEW b \in Bundles, NEW f \in Names, DeleteFile(b, f) PROVE HalvesMatch'
  <2>1. disk[b] \in Files /\ disk' = [disk EXCEPT ![b] = [disk[b] EXCEPT ![f] = Missing]]
    BY <1>4 DEF DeleteFile, TypeOK
  <2>2. ASSUME NEW x \in Bundles PROVE ~Differ(FilesOf(x).cert, FilesOf(x).key)'
    <3>1. CASE x # b
      <4>1. FilesOf(x)' = FilesOf(x)
        BY <2>1, <3>1 DEF FilesOf
      <4> QED
        BY <4>1 DEF HalvesMatch, Differ
    <3>2. CASE x = b
      <4>1. [disk[b] EXCEPT ![f] = Missing] \in Files
        BY <2>1 DEF Files
      <4>2. FilesOf(b) = disk[b] /\ FilesOf(b)' = [disk[b] EXCEPT ![f] = Missing]
        BY <2>1, <4>1 DEF FilesOf, TypeOK
      <4>3. ~Differ(disk[b].cert, disk[b].key)
        BY <4>2 DEF HalvesMatch
      <4> QED
        BY <2>1, <3>2, <4>2, <4>3 DEF Differ, Files, Names
    <3> QED
      BY <3>1, <3>2
  <2> QED
    BY <2>2 DEF HalvesMatch
<1>5. CASE UNCHANGED disk
  BY <1>5 DEF HalvesMatch, FilesOf, Differ
<1>6. ASSUME NEW b \in Bundles, NEW f \in Names, Outside(b, f) PROVE FALSE
  BY <1>6 DEF Outside
<1>7. ASSUME NEW b \in Bundles, Reload(b) PROVE UNCHANGED disk
  BY <1>7 DEF Reload
<1>8. ASSUME NEW s \in Servers, Rehearse(s) \/ Install(s) \/ Configure(s) \/ Remove(s)
      PROVE  UNCHANGED disk
  BY <1>8 DEF Rehearse, Install, Configure, Remove
<1>9. Restart \/ UNCHANGED vars => UNCHANGED disk
  BY DEF Restart, vars
<1> QED
  BY <1>1, <1>2, <1>3, <1>4, <1>5, <1>6, <1>7, <1>8, <1>9 DEF Next

\* Through the API alone, and as long as writes do not fail half-way, no bundle
\* ever holds a certificate with another one's key (_check_pair).
THEOREM UploadsMatch ==
  ASSUME ~WritesFail, ~Outsiders
  PROVE  Spec => []HalvesMatch
BY HalvesInit, HalvesStep, AlwaysTyped, PTL DEF Spec
=============================================================================
