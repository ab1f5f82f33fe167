------------------------------ MODULE Accounts ------------------------------
(***************************************************************************)
(* Users, API tokens and sessions: http_auth.SessionManager, the handlers  *)
(* of HttpServerWrapper that change it, and what a restart makes of the    *)
(* file they write.                                                        *)
(*                                                                         *)
(* A request is one action of the loop. It carries a credential, which is  *)
(* looked up first (and renewed, if it is a session); the accounts and the *)
(* file change together, since every handler ends by saving. Passwords are *)
(* what they are compared as: equal or not.                                *)
(***************************************************************************)
EXTENDS Integers, FiniteSets, Functions

CONSTANTS
    Logins, Passwords, Tokens,
    SessionIds,       \* bound on the sessions at one time
    Timeouts,         \* timeouts that can be set, in ticks
    DefaultTimeout,   \* DEFAULT_SESSION_TIMEOUT, in ticks
    Unset,            \* no timeout was set
    Kept,             \* a field that a request leaves out
    Nobody,           \* a request without a credential
    Files             \* the files the process can be started with

ASSUME AccountsAssumption ==
    /\ Timeouts \subseteq Nat /\ DefaultTimeout \in Nat
    /\ Unset \notin Timeouts /\ Kept \notin Timeouts \cup {Unset}
    /\ Kept \notin Passwords /\ Kept \notin BOOLEAN /\ Kept \notin Tokens
    /\ Nobody \notin Tokens \cup SessionIds
    /\ Tokens \cap SessionIds = {}

Account == [password : Passwords, admin : BOOLEAN, timeout : Timeouts \cup {Unset}]

None == [x \in {} |-> x]      \* the function without a domain, and the block that is not there

VARIABLES
    users,      \* _users
    tokens,     \* _tokens: whether each is an admin
    timeout,    \* _configured_timeout
    sessions,   \* _sessions: whose, how long from now, and (history) which
                \* password the account had when it was opened
    file        \* the configuration and its file: the block at the root, and
                \* the one of the old format inside an HTTP server's entry

vars == <<users, tokens, timeout, sessions, file>>

Credentials == Tokens \cup SessionIds \cup {Nobody}

\* A dictionary with an entry set.
With(f, x, value) == [y \in DOMAIN f \cup {x} |-> IF y = x THEN value ELSE f[y]]

-----------------------------------------------------------------------------
(***************************************************************************)
(* SessionManager                                                          *)
(***************************************************************************)
IsEmpty == DOMAIN users = {} /\ DOMAIN tokens = {}

AdminUsers == {l \in DOMAIN users : users[l].admin}
AdminTokens == {t \in DOMAIN tokens : tokens[t]}
Administered == AdminUsers # {} \/ AdminTokens # {}

\* Nobody but this user, or this token, administers.
OnlyAdminUser(l) == AdminUsers = {l} /\ AdminTokens = {}

\* (Mutant: no token is taken for the last admin.)
NeverOnlyAdminToken(t) == FALSE

OnlyAdminToken(t) == AdminTokens = {t} /\ AdminUsers = {}

OnlyUser(l) == DOMAIN users = {l} /\ DOMAIN tokens = {}
OnlyToken(t) == DOMAIN tokens = {t} /\ DOMAIN users = {}

TimeoutIn(accounts, default, l) ==
    IF accounts[l].timeout # Unset THEN accounts[l].timeout
    ELSE IF default # Unset THEN default ELSE DefaultTimeout

TimeoutFor(l) == TimeoutIn(users, timeout, l)

LiveSession(s) ==
    /\ s \in DOMAIN sessions
    /\ sessions[s].left >= 0
    /\ sessions[s].login \in DOMAIN users

\* What a credential grants, asked without renewing it.
Granted(c) == c \in DOMAIN tokens \/ LiveSession(c)
GrantsAdmin(c) ==
    \/ c \in DOMAIN tokens /\ tokens[c]
    \/ LiveSession(c) /\ users[sessions[c].login].admin

\* authenticate(): the sessions after a request that is let in.
Renewed(c) ==
    IF LiveSession(c) /\ ~IsEmpty
      THEN [sessions EXCEPT ![c].left = TimeoutFor(sessions[c].login)]
      ELSE sessions

MayAdminister(c) == IsEmpty \/ GrantsAdmin(c)

\* (Mutant: sessions outlive what they were opened for.)
KeepSessions(active, l) == active

DropSessions(active, l) == Restrict(active, {s \in DOMAIN active : active[s].login # l})

Session(l, accounts) ==
    [login |-> l, left |-> TimeoutIn(accounts, timeout, l), with |-> accounts[l].password]

-----------------------------------------------------------------------------
(***************************************************************************)
(* The file                                                                *)
(***************************************************************************)
Block(u, t, d) == [users |-> u, tokens |-> t, timeout |-> d]
EmptyBlock == Block(None, None, Unset)

\* The block of the old format counts only if the root has nothing at all.
Loaded(f) == IF f.root = EmptyBlock /\ f.legacy # None THEN f.legacy ELSE f.root

\* (Mutant: what a token may do is not written down.)
SaveUsers == file' = [root |-> Block(users', tokens, timeout'), legacy |-> None]

\* _save_auth_config(): everything at the root, nothing in the old place.
SaveAccounts == file' = [root |-> Block(users', tokens', timeout'), legacy |-> None]

-----------------------------------------------------------------------------
(***************************************************************************)
(* Requests                                                                *)
(***************************************************************************)
Login(l, password, s) ==
    /\ l \in DOMAIN users /\ users[l].password = password
    /\ s \notin DOMAIN sessions
    /\ sessions' = With(sessions, s, Session(l, users))
    /\ UNCHANGED <<users, tokens, timeout, file>>

Logout(s) ==
    /\ s \in DOMAIN sessions
    /\ sessions' = Restrict(sessions, DOMAIN sessions \ {s})
    /\ UNCHANGED <<users, tokens, timeout, file>>

\* A request that changes nothing here. A session that has lapsed, or whose
\* account is gone, is dropped on the way.
Ask(c) ==
    /\ c \in DOMAIN sessions /\ ~IsEmpty
    /\ sessions' = IF LiveSession(c) THEN Renewed(c)
                                     ELSE Restrict(sessions, DOMAIN sessions \ {c})
    /\ UNCHANGED <<users, tokens, timeout, file>>

\* The first user is an admin, whatever was asked for; the first account of
\* all is signed in.
AddUser(c, l, account, s) ==
    LET added == With(users, l, [account EXCEPT !.admin = @ \/ DOMAIN users = {}]) IN
    /\ MayAdminister(c) /\ l \notin DOMAIN users
    /\ s \notin DOMAIN sessions
    /\ users' = added
    /\ sessions' = IF IsEmpty THEN With(sessions, s, Session(l, added)) ELSE Renewed(c)
    /\ UNCHANGED <<tokens, timeout>>
    /\ SaveAccounts

Changed(old, password, admin, limit) ==
    [password |-> IF password = Kept THEN old.password ELSE password,
     admin    |-> IF admin = Kept THEN old.admin ELSE admin,
     timeout  |-> IF limit = Kept THEN old.timeout ELSE limit]

UpdateUser(c, l, password, admin, limit) ==
    /\ MayAdminister(c) /\ l \in DOMAIN users
    /\ ~(admin = FALSE /\ OnlyAdminUser(l))
    /\ users' = [users EXCEPT ![l] = Changed(@, password, admin, limit)]
    /\ sessions' = IF password = Kept THEN Renewed(c) ELSE DropSessions(Renewed(c), l)
    /\ UNCHANGED <<tokens, timeout>>
    /\ SaveAccounts

DeleteUser(c, l, confirmed) ==
    /\ MayAdminister(c) /\ l \in DOMAIN users
    /\ IF OnlyUser(l) THEN confirmed ELSE ~OnlyAdminUser(l)
    /\ users' = Restrict(users, DOMAIN users \ {l})
    /\ sessions' = DropSessions(Renewed(c), l)
    /\ UNCHANGED <<tokens, timeout>>
    /\ SaveAccounts

AddToken(c, t, admin) ==
    /\ MayAdminister(c) /\ t \notin DOMAIN tokens
    /\ tokens' = With(tokens, t, admin)
    /\ sessions' = Renewed(c)
    /\ UNCHANGED <<users, timeout>>
    /\ SaveAccounts

\* The token itself can be replaced; `new` is Kept or another string.
UpdateToken(c, t, new, admin) ==
    LET grants == IF admin = Kept THEN tokens[t] ELSE admin
        name   == IF new = Kept THEN t ELSE new
    IN
    /\ MayAdminister(c) /\ t \in DOMAIN tokens
    /\ ~(admin = FALSE /\ OnlyAdminToken(t))
    /\ name = t \/ name \notin DOMAIN tokens
    /\ tokens' = With(Restrict(tokens, DOMAIN tokens \ {t}), name, grants)
    /\ sessions' = Renewed(c)
    /\ UNCHANGED <<users, timeout>>
    /\ SaveAccounts

DeleteToken(c, t, confirmed) ==
    /\ MayAdminister(c) /\ t \in DOMAIN tokens
    /\ IF OnlyToken(t) THEN confirmed ELSE ~OnlyAdminToken(t)
    /\ tokens' = Restrict(tokens, DOMAIN tokens \ {t})
    /\ sessions' = Renewed(c)
    /\ UNCHANGED <<users, timeout>>
    /\ SaveAccounts

\* PUT /api/settings: only what differs from the root of the configuration is
\* a change, and only the root is written.
SetTimeout(c, value) ==
    /\ MayAdminister(c)
    /\ value # file.root.timeout
    /\ timeout' = value
    /\ file' = [file EXCEPT !.root.timeout = value]
    /\ sessions' = Renewed(c)
    /\ UNCHANGED <<users, tokens>>

-----------------------------------------------------------------------------
(***************************************************************************)
(* Time and restarts                                                       *)
(***************************************************************************)
Tick ==
    /\ \E s \in DOMAIN sessions : sessions[s].left >= 0
    /\ sessions' = [s \in DOMAIN sessions |->
          [sessions[s] EXCEPT !.left = IF @ >= 0 THEN @ - 1 ELSE @]]
    /\ UNCHANGED <<users, tokens, timeout, file>>

Cleanup ==
    /\ sessions' = Restrict(sessions, {s \in DOMAIN sessions : sessions[s].left >= 0})
    /\ sessions' # sessions
    /\ UNCHANGED <<users, tokens, timeout, file>>

Boot(f) ==
    /\ users' = Loaded(f).users
    /\ tokens' = Loaded(f).tokens
    /\ timeout' = Loaded(f).timeout
    /\ sessions' = None

Restart ==
    /\ Boot(file)
    /\ UNCHANGED file

-----------------------------------------------------------------------------
Init ==
    /\ file \in Files
    /\ users = Loaded(file).users
    /\ tokens = Loaded(file).tokens
    /\ timeout = Loaded(file).timeout
    /\ sessions = None

UserRequest(c, l) ==
    \/ \E account \in Account, s \in SessionIds : AddUser(c, l, account, s)
    \/ \E password \in Passwords \cup {Kept}, admin \in BOOLEAN \cup {Kept},
          limit \in Timeouts \cup {Unset, Kept} : UpdateUser(c, l, password, admin, limit)
    \/ \E confirmed \in BOOLEAN : DeleteUser(c, l, confirmed)

TokenRequest(c, t) ==
    \/ \E admin \in BOOLEAN : AddToken(c, t, admin)
    \/ \E new \in Tokens \cup {Kept}, admin \in BOOLEAN \cup {Kept} : UpdateToken(c, t, new, admin)
    \/ \E confirmed \in BOOLEAN : DeleteToken(c, t, confirmed)

Request ==
    \/ \E l \in Logins, password \in Passwords, s \in SessionIds : Login(l, password, s)
    \/ \E s \in SessionIds : Logout(s) \/ Ask(s)
    \/ \E c \in Credentials :
          \/ \E l \in Logins : UserRequest(c, l)
          \/ \E t \in Tokens : TokenRequest(c, t)
          \/ \E value \in Timeouts \cup {Unset} : SetTimeout(c, value)

Next == Request \/ Tick \/ Cleanup \/ Restart

Spec == Init /\ [][Next]_vars

-----------------------------------------------------------------------------
Maps(f, S, T) == DOMAIN f \subseteq S /\ f \in [DOMAIN f -> T]

IsBlock(b) ==
    /\ b = Block(b.users, b.tokens, b.timeout)
    /\ Maps(b.users, Logins, Account)
    /\ Maps(b.tokens, Tokens, BOOLEAN)
    /\ b.timeout \in Timeouts \cup {Unset}

Left == {-1} \cup UNION {0 .. n : n \in Timeouts \cup {DefaultTimeout}}

TypeOK ==
    /\ IsBlock(Block(users, tokens, timeout))
    /\ Maps(sessions, SessionIds, [login : Logins, left : Left, with : Passwords])
    /\ IsBlock(file.root)
    /\ file.legacy # None => IsBlock(file.legacy)

\* Once somebody administers, somebody does until authentication is off:
\* through demotions, deletions and replaced tokens, of oneself too, and
\* through every restart.
AdminRemains == [][Administered /\ ~IsEmpty' => Administered']_vars

\* Authentication ends with the deletion of the last account, which is written
\* down, and in no other way: not by a change, a setting or a restart.
OffOnlyByLastDeletion ==
    [][~IsEmpty /\ IsEmpty' =>
         /\ Cardinality(DOMAIN users) + Cardinality(DOMAIN tokens) = 1
         /\ file' # file]_vars

\* A session lets in whoever knew the password its account has now: a changed
\* password ends it, and an account that is deleted and created again does not
\* inherit it.
SessionsOfThisPassword ==
    \A s \in DOMAIN sessions :
        /\ sessions[s].login \in DOMAIN users
        /\ sessions[s].with = users[sessions[s].login].password

\* A session that has lapsed is not brought back by using it.
LapsedStayLapsed ==
    [][\A s \in DOMAIN sessions \cap DOMAIN sessions' :
         sessions[s].left < 0 => sessions'[s].left < 0]_vars

\* A restart finds the accounts that are in force.
RestartKeepsAccounts == Loaded(file) = Block(users, tokens, timeout)

\* What a comment says can not be reached: authentication on, with nobody able
\* to administer it.
NobodyLockedOut == ~IsEmpty => Administered
=============================================================================
