----------------------------- MODULE CertBundle -----------------------------
(***************************************************************************)
(* Certificate bundles: three files in a directory, written one after the  *)
(* other by the API and by anybody with a shell, and the TLS contexts of   *)
(* servers that read them when they start and when they are told to.       *)
(*                                                                         *)
(* A certificate, its key and what it signs are named after their key      *)
(* pair. Junk is what looks like PEM and can not be read. All pairs are of *)
(* one algorithm: OpenSSL keeps one certificate and one key of each.       *)
(***************************************************************************)
EXTENDS FiniteSets

CONSTANTS
    Bundles, Pairs,
    Servers,      \* the servers that can be configured for TLS
    BundleOf,     \* the bundle each names
    Mutual,       \* those with require_client_cert
    Junk, Missing,
    NoBundle,     \* there is no such directory
    Stopped,      \* a server that has no context: it does not run
    Nobody,
    WritesFail,   \* whether the API's writes may fail half-way
    Outsiders,    \* whether files are changed by others
    Racing        \* whether they are while a reload runs

Names == {"cert", "key", "ca"}
Content == Pairs \cup {Junk}
Files == [Names -> Content \cup {Missing}]

\* What the properties tell of an SSLContext.
Contexts == [cert : Pairs, key : Pairs \cup {Missing}, trust : SUBSET Pairs, verify : BOOLEAN]

ASSUME CertBundleAssumption ==
    /\ BundleOf \in [Servers -> Bundles] /\ Mutual \subseteq Servers
    /\ WritesFail \in BOOLEAN /\ Outsiders \in BOOLEAN /\ Racing \in BOOLEAN
    /\ Junk \notin Pairs /\ Missing \notin Pairs \cup {Junk}
    /\ Nobody \notin Servers /\ NoBundle \notin Files /\ Stopped \notin Contexts

VARIABLES
    disk,         \* the files of each bundle
    configured,   \* the servers in the configuration
    context,      \* the SSLContext of each server
    todo, next    \* of a reload: the servers left, and the one rehearsed

vars == <<disk, configured, context, todo, next>>

Empty == [f \in Names |-> Missing]

FilesOf(b) == IF disk[b] = NoBundle THEN Empty ELSE disk[b]

-----------------------------------------------------------------------------
(***************************************************************************)
(* Contexts                                                                *)
(***************************************************************************)
\* (Mutant: a server without a ca.pem starts without verifying.)
PairLoads(files, mutual) == files.cert \in Pairs /\ files.key = files.cert

\* _load_bundle() goes through, on whatever context.
Loads(files, mutual) ==
    /\ files.cert \in Pairs /\ files.key = files.cert
    /\ mutual => files.ca \in Pairs

\* What _load_bundle() leaves of a context, also where it fails: the
\* certificate is installed before its key, and the key before the authority.
After(ctx, files, mutual) ==
    CASE files.cert \notin Pairs -> ctx
      [] files.cert \in Pairs /\ files.key # files.cert ->
           [ctx EXCEPT !.cert = files.cert, !.key = IF @ = files.cert THEN @ ELSE Missing]
      [] OTHER ->
           [cert |-> files.cert, key |-> files.key,
            trust |-> ctx.trust \cup (IF mutual THEN {files.ca} \cap Pairs ELSE {}),
            verify |-> ctx.verify \/ (mutual /\ files.ca \in Pairs)]

Fresh == [cert |-> Missing, key |-> Missing, trust |-> {}, verify |-> FALSE]

\* build_tls_context(): what a server starts with, if it does.
Built(s) ==
    LET files == FilesOf(BundleOf[s]) IN
    IF Loads(files, s \in Mutual) THEN After(Fresh, files, s \in Mutual) ELSE Stopped

-----------------------------------------------------------------------------
(***************************************************************************)
(* Requests: one at a time, and none while a reload runs                   *)
(***************************************************************************)
Idle == todo = {}

\* _find_bundle_usage()
UsedBy(b) == {s \in configured : BundleOf[s] = b}

\* cert_key_match() is False, which is not the same as not True.
Differ(cert, key) == cert \in Pairs /\ key \in Pairs /\ cert # key

\* _check_pair(): each half is taken from the upload, or else from the disk.
PairAccepted(old, items) ==
    LET half(f) == IF f \in DOMAIN items THEN items[f] ELSE old[f] IN
    {"cert", "key"} \cap DOMAIN items # {} => ~Differ(half("cert"), half("key"))

\* save_files(): in any order, and not all of them if writing one fails, which is
\* lost if it was a link.
SaveFiles(b, items, landed) ==
    /\ Idle
    /\ PairAccepted(FilesOf(b), items)
    /\ landed = DOMAIN items \/ WritesFail
    /\ \E lost \in {{}} \cup {{f} : f \in {n \in DOMAIN items \ landed : FilesOf(b)[n] # Missing}} :
          disk' = [disk EXCEPT ![b] =
            [f \in Names |-> IF f \in landed THEN items[f]
                             ELSE IF f \in lost THEN Missing ELSE FilesOf(b)[f]]]
    /\ UNCHANGED <<configured, context, todo, next>>

\* What a file that is not written was to hold matters to its being accepted
\* only: junk always is, and stands for whatever it was.
Upload(b) ==
    \E named \in SUBSET Names \ {{}} : \E items \in [named -> Content], landed \in SUBSET named :
        /\ \A f \in named \ landed : items[f] = Junk
        /\ SaveFiles(b, items, landed)

\* A new pair, signed by itself (signer = b: a bundle without a certificate
\* signs nothing) or by that of another bundle, whose certificate comes along.
Generate(b, signer) ==
    \E pair \in Pairs, landed \in SUBSET Names :
        LET own == [f \in {"cert", "key"} |-> pair]
            signed == [f \in Names |-> IF f = "ca" THEN FilesOf(signer).cert ELSE pair]
        IN
        /\ FilesOf(b).cert = Missing
        /\ signer = b \/ Loads(FilesOf(signer), FALSE)
        /\ LET items == IF signer = b THEN own ELSE signed IN
           landed \subseteq DOMAIN items /\ SaveFiles(b, items, landed)

Create(b) ==
    /\ Idle /\ disk[b] = NoBundle
    /\ disk' = [disk EXCEPT ![b] = Empty]
    /\ UNCHANGED <<configured, context, todo, next>>

\* A directory that can not be removed may have lost some of its files.
Delete(b) ==
    /\ Idle /\ disk[b] # NoBundle /\ UsedBy(b) = {}
    /\ \/ disk' = [disk EXCEPT ![b] = NoBundle]
       \/ /\ WritesFail
          /\ \E left \in SUBSET Names :
                disk' = [disk EXCEPT ![b] = [f \in Names |-> IF f \in left THEN @[f] ELSE Missing]]
    /\ UNCHANGED <<configured, context, todo, next>>

\* Files are deleted whoever uses them.
DeleteFile(b, f) ==
    /\ Idle /\ disk[b] # NoBundle /\ disk[b][f] # Missing
    /\ disk' = [disk EXCEPT ![b][f] = Missing]
    /\ UNCHANGED <<configured, context, todo, next>>

-----------------------------------------------------------------------------
(***************************************************************************)
(* Reloading                                                               *)
(***************************************************************************)
Reload(b) ==
    /\ Idle /\ disk[b] # NoBundle
    /\ todo' = {s \in Servers : BundleOf[s] = b /\ context[s] # Stopped}
    /\ todo' # {}
    /\ UNCHANGED <<disk, configured, context, next>>

\* (Mutant: the files are loaded where they will be used at once.)
RehearseNothing(s) ==
    /\ s \in todo /\ next = Nobody
    /\ next' = s
    /\ UNCHANGED <<disk, configured, context, todo>>

\* The throwaway context; a server that can not load is left as it is.
Rehearse(s) ==
    /\ s \in todo /\ next = Nobody
    /\ IF Loads(FilesOf(BundleOf[s]), s \in Mutual)
         THEN next' = s /\ UNCHANGED todo
         ELSE todo' = todo \ {s} /\ UNCHANGED next
    /\ UNCHANGED <<disk, configured, context>>

\* The same on the live one, from the files as they are now.
Install(s) ==
    /\ next = s
    /\ context' = [context EXCEPT ![s] = After(@, FilesOf(BundleOf[s]), s \in Mutual)]
    /\ todo' = todo \ {s} /\ next' = Nobody
    /\ UNCHANGED <<disk, configured>>

-----------------------------------------------------------------------------
(***************************************************************************)
(* Everything else                                                         *)
(***************************************************************************)
\* A server is added only if it starts.
Configure(s) ==
    /\ Idle /\ s \notin configured
    /\ Built(s) # Stopped
    /\ configured' = configured \cup {s}
    /\ context' = [context EXCEPT ![s] = Built(s)]
    /\ UNCHANGED <<disk, todo, next>>

Remove(s) ==
    /\ Idle /\ s \in configured
    /\ configured' = configured \ {s}
    /\ context' = [context EXCEPT ![s] = Stopped]
    /\ UNCHANGED <<disk, todo, next>>

\* An scp, an editor, a renewal: one file at a time.
Outside(b, f) ==
    /\ Outsiders /\ (Idle \/ Racing)
    /\ disk[b] # NoBundle
    /\ \E content \in Content \cup {Missing} : disk' = [disk EXCEPT ![b][f] = content]
    /\ UNCHANGED <<configured, context, todo, next>>

\* A server that does not start keeps its place in the configuration.
Restart ==
    /\ Idle
    /\ context' = [s \in Servers |-> IF s \in configured THEN Built(s) ELSE Stopped]
    /\ UNCHANGED <<disk, configured, todo, next>>

Init ==
    /\ disk = [b \in Bundles |-> NoBundle]
    /\ configured = {}
    /\ context = [s \in Servers |-> Stopped]
    /\ todo = {} /\ next = Nobody

Next ==
    \/ \E b \in Bundles :
          \/ Create(b) \/ Delete(b) \/ Upload(b) \/ Reload(b)
          \/ \E signer \in Bundles : Generate(b, signer)
          \/ \E f \in Names : DeleteFile(b, f) \/ Outside(b, f)
    \/ \E s \in Servers : Configure(s) \/ Remove(s) \/ Rehearse(s) \/ Install(s)
    \/ Restart

Spec == Init /\ [][Next]_vars

-----------------------------------------------------------------------------
TypeOK ==
    /\ disk \in [Bundles -> Files \cup {NoBundle}]
    /\ configured \subseteq Servers
    /\ context \in [Servers -> Contexts \cup {Stopped}]
    /\ todo \subseteq configured
    /\ next \in {Nobody} \cup todo

\* A server that runs can complete handshakes: through renewals caught half
\* done, failed writes and reloads that fail, its certificate is one it has
\* the key for (reload_tls_context).
ServesWithItsKey ==
    \A s \in Servers : context[s] # Stopped => context[s].key = context[s].cert

\* A server that is to verify its clients does, whenever it runs, against an
\* authority; and one that is not to does not (_load_bundle).
ClientsAreVerified ==
    \A s \in Servers : context[s] # Stopped =>
        /\ context[s].verify <=> s \in Mutual
        /\ context[s].trust # {} <=> s \in Mutual

\* A certificate and a key that do not belong together are never left in a
\* bundle by the API: not in two uploads, not by deleting and generating
\* (_check_pair).
HalvesMatch ==
    \A b \in Bundles : ~Differ(FilesOf(b).cert, FilesOf(b).key)

\* The bundle a server in the configuration names exists, whether the server
\* runs or not (_handle_api_certs_delete).
NamedBundlesExist ==
    \A s \in configured : disk[BundleOf[s]] # NoBundle
=============================================================================
