-------------------------- MODULE Accounts_proofs --------------------------
(***************************************************************************)
(* What the accounts promise for any number of users, tokens and sessions: *)
(* a session lets in whoever knows its account's password and does not     *)
(* come back once it has lapsed, somebody goes on administering, and       *)
(* authentication ends in one way only. The last two are about files of    *)
(* the present format.                                                     *)
(***************************************************************************)
EXTENDS Accounts, FiniteSetTheorems, TLAPS

USE AccountsAssumption DEF AccountsAssumption

ActiveSession == [login : Logins, left : Left, with : Passwords]

\* The process is started with files it can read.
TypedFiles ==
    \A f \in Files :
        /\ f = [root |-> f.root, legacy |-> f.legacy]
        /\ IsBlock(f.root)
        /\ f.legacy # None => IsBlock(f.legacy)

\* A map with one more, or another, entry,
LEMMA MapsWith ==
  ASSUME NEW f, NEW S, NEW T, Maps(f, S, T), NEW x \in S, NEW v \in T
  PROVE  /\ Maps(With(f, x, v), S, T)
         /\ DOMAIN With(f, x, v) = DOMAIN f \cup {x}
         /\ With(f, x, v)[x] = v
         /\ \A y \in DOMAIN f : y # x => With(f, x, v)[y] = f[y]
BY DEF Maps, With

\* and with fewer.
LEMMA MapsWithin ==
  ASSUME NEW f, NEW S, NEW T, Maps(f, S, T), NEW D, D \subseteq DOMAIN f
  PROVE  /\ Maps(Restrict(f, D), S, T)
         /\ DOMAIN Restrict(f, D) = D
         /\ \A y \in D : Restrict(f, D)[y] = f[y]
BY DEF Maps, Restrict

\* The timeout of an account is one a session can have, and has not lapsed.
LEMMA TimeoutInRange ==
  ASSUME NEW accounts, Maps(accounts, Logins, Account),
         NEW default \in Timeouts \cup {Unset}, NEW l \in DOMAIN accounts
  PROVE  TimeoutIn(accounts, default, l) \in Left \cap Nat
<1>1. accounts[l].timeout \in Timeouts \cup {Unset}
  BY DEF Maps, Account
<1>2. TimeoutIn(accounts, default, l) \in Timeouts \cup {DefaultTimeout}
  BY <1>1 DEF TimeoutIn
<1>3. \A n \in Timeouts \cup {DefaultTimeout} : n \in Nat /\ n \in 0 .. n
  OBVIOUS
<1> QED
  BY <1>2, <1>3 DEF Left

\* A session that is opened is one.
LEMMA SessionOpens ==
  ASSUME TypeOK, NEW accounts, Maps(accounts, Logins, Account),
         NEW l \in DOMAIN accounts
  PROVE  /\ Session(l, accounts) \in ActiveSession
         /\ Session(l, accounts).login = l
         /\ Session(l, accounts).with = accounts[l].password
<1>1. timeout \in Timeouts \cup {Unset}
  BY DEF TypeOK, IsBlock, Block
<1>2. TimeoutIn(accounts, timeout, l) \in Left
  BY <1>1, TimeoutInRange
<1>3. l \in Logins /\ accounts[l].password \in Passwords
  BY DEF Maps, Account
<1> QED
  BY <1>2, <1>3 DEF Session, ActiveSession
-----------------------------------------------------------------------------
(***************************************************************************)
(* Types, and whose the sessions are                                       *)
(***************************************************************************)
Blocks == IsBlock(Block(users, tokens, timeout))
TheSessions == Maps(sessions, SessionIds, ActiveSession)
TheFile ==
    /\ file = [root |-> file.root, legacy |-> file.legacy]
    /\ IsBlock(file.root)
    /\ file.legacy # None => IsBlock(file.legacy)

\* The sessions `s` are of the accounts `accounts`: what SessionsOfThisPassword
\* says of the state, of what a request makes of it.
Follow(s, accounts) ==
    \A x \in DOMAIN s : /\ s[x].login \in DOMAIN accounts
                         /\ s[x].with = accounts[s[x].login].password

IInv == Blocks /\ TheSessions /\ TheFile /\ Follow(sessions, users)

\* A block that is put together is one.
LEMMA BlockIsBlock ==
  ASSUME NEW u, NEW t, NEW d,
         Maps(u, Logins, Account), Maps(t, Tokens, BOOLEAN), d \in Timeouts \cup {Unset}
  PROVE  IsBlock(Block(u, t, d))
BY DEF IsBlock, Block

LEMMA BlockParts ==
  ASSUME Blocks
  PROVE  /\ Maps(users, Logins, Account)
         /\ Maps(tokens, Tokens, BOOLEAN)
         /\ timeout \in Timeouts \cup {Unset}
BY DEF Blocks, IsBlock, Block

\* What a request saves has the types of what it is saved from.
LEMMA SavedIsTyped ==
  ASSUME Maps(users', Logins, Account), Maps(tokens', Tokens, BOOLEAN),
         timeout' \in Timeouts \cup {Unset}, SaveAccounts
  PROVE  Blocks' /\ TheFile'
<1>1. IsBlock(Block(users', tokens', timeout'))
  BY BlockIsBlock
<1>2. file'.root = Block(users', tokens', timeout') /\ file'.legacy = None
  BY DEF SaveAccounts
<1>3. file' = [root |-> file'.root, legacy |-> file'.legacy]
  BY <1>2 DEF SaveAccounts
<1> QED
  BY <1>1, <1>2, <1>3 DEF Blocks, TheFile

\* Renewing a session changes when it ends, unless it has.
LEMMA RenewedKeeps ==
  ASSUME IInv, NEW c
  PROVE  /\ Maps(Renewed(c), SessionIds, ActiveSession)
         /\ DOMAIN Renewed(c) = DOMAIN sessions
         /\ Follow(Renewed(c), users)
         /\ \A s \in DOMAIN sessions :
               sessions[s].left < 0 => Renewed(c)[s].left = sessions[s].left
<1>1. CASE ~(LiveSession(c) /\ ~IsEmpty)
  BY <1>1 DEF Renewed, IInv, TheSessions
<1>2. CASE LiveSession(c) /\ ~IsEmpty
  <2> DEFINE limit == TimeoutFor(sessions[c].login)
  <2>1. c \in DOMAIN sessions /\ sessions[c].left >= 0 /\ sessions[c].login \in DOMAIN users
    BY <1>2 DEF LiveSession
  <2>2. limit \in Left
    BY <2>1, BlockParts, TimeoutInRange DEF IInv, TimeoutFor
  <2>3. \A s \in DOMAIN sessions : sessions[s] \in ActiveSession
    BY DEF IInv, TheSessions, Maps
  <2> HIDE DEF limit
  <2>4. Renewed(c) = [sessions EXCEPT ![c] = [@ EXCEPT !.left = limit]]
    BY <1>2 DEF Renewed, limit
  <2>5. [sessions[c] EXCEPT !.left = limit] \in ActiveSession
    BY <2>1, <2>2, <2>3 DEF ActiveSession
  <2>6. /\ [sessions[c] EXCEPT !.left = limit].login = sessions[c].login
        /\ [sessions[c] EXCEPT !.left = limit].with = sessions[c].with
    BY <2>1, <2>3 DEF ActiveSession
  <2>7. Maps(Renewed(c), SessionIds, ActiveSession) /\ DOMAIN Renewed(c) = DOMAIN sessions
    BY <2>4, <2>5 DEF IInv, TheSessions, Maps
  <2>8. \A s \in DOMAIN sessions : s # c => Renewed(c)[s] = sessions[s]
    BY <2>4
  <2>9. Follow(Renewed(c), users)
    BY <2>1, <2>4, <2>6, <2>7, <2>8 DEF Follow, IInv
  <2>10. \A s \in DOMAIN sessions :
            sessions[s].left < 0 => Renewed(c)[s].left = sessions[s].left
    <3> SUFFICES ASSUME NEW s \in DOMAIN sessions, sessions[s].left < 0
                 PROVE  Renewed(c)[s].left = sessions[s].left
      OBVIOUS
    <3>1. sessions[c].left \in Int
      BY <2>1, <2>3 DEF ActiveSession, Left
    <3> QED
      BY <2>1, <2>8, <3>1
  <2> QED
    BY <2>7, <2>9, <2>10
<1> QED
  BY <1>1, <1>2

\* Sessions whose account goes, or gets another password, go with it.
LEMMA DroppedFollow ==
  ASSUME NEW active, NEW old, NEW accounts, NEW l,
         Follow(active, old),
         \A k \in DOMAIN old : k # l => k \in DOMAIN accounts /\ accounts[k].password = old[k].password
  PROVE  Follow(DropSessions(active, l), accounts)
BY DEF Follow, DropSessions, Restrict

LEMMA DroppedTyped ==
  ASSUME NEW active, Maps(active, SessionIds, ActiveSession), NEW l
  PROVE  Maps(DropSessions(active, l), SessionIds, ActiveSession)
<1> DEFINE D == {s \in DOMAIN active : active[s].login # l}
<1>1. D \subseteq DOMAIN active
  OBVIOUS
<1> QED
  BY <1>1, MapsWithin DEF DropSessions

\* Who signs in gets a session of the account as it is now.
LEMMA OpenedFollow ==
  ASSUME TypeOK, NEW active, Maps(active, SessionIds, ActiveSession),
         NEW accounts, Maps(accounts, Logins, Account), Follow(active, accounts),
         NEW l \in DOMAIN accounts, NEW s \in SessionIds \ DOMAIN active
  PROVE  LET opened == With(active, s, Session(l, accounts)) IN
         /\ Maps(opened, SessionIds, ActiveSession)
         /\ Follow(opened, accounts)
<1> DEFINE opened == With(active, s, Session(l, accounts))
<1>1. /\ Session(l, accounts) \in ActiveSession
      /\ Session(l, accounts).login = l
      /\ Session(l, accounts).with = accounts[l].password
  BY SessionOpens
<1>2. /\ Maps(opened, SessionIds, ActiveSession)
      /\ DOMAIN opened = DOMAIN active \cup {s}
      /\ opened[s] = Session(l, accounts)
      /\ \A x \in DOMAIN active : x # s => opened[x] = active[x]
  BY <1>1, MapsWith
<1>3. Follow(opened, accounts)
  <2> HIDE DEF opened
  <2> QED
    BY <1>1, <1>2 DEF Follow
<1> QED
  BY <1>2, <1>3

\* Sessions that were of the accounts are of accounts with other ones added.
LEMMA FollowMore ==
  ASSUME NEW active, NEW old, NEW accounts, Follow(active, old),
         \A k \in DOMAIN old : k \in DOMAIN accounts /\ accounts[k].password = old[k].password
  PROVE  Follow(active, accounts)
BY DEF Follow

LEMMA FewerFollow ==
  ASSUME NEW active, Maps(active, SessionIds, ActiveSession), NEW accounts,
         Follow(active, accounts), NEW D, D \subseteq DOMAIN active
  PROVE  /\ Maps(Restrict(active, D), SessionIds, ActiveSession)
         /\ Follow(Restrict(active, D), accounts)
BY MapsWithin DEF Follow

LEMMA NoSessions ==
  ASSUME NEW accounts
  PROVE  Maps(None, SessionIds, ActiveSession) /\ Follow(None, accounts)
BY DEF Maps, None, Follow

LEMMA Typed ==
  ASSUME IInv
  PROVE  TypeOK
BY DEF IInv, Blocks, TheSessions, TheFile, TypeOK, ActiveSession

LEMMA StartIsTyped ==
  ASSUME TypedFiles, Init
  PROVE  IInv
<1>1. /\ file = [root |-> file.root, legacy |-> file.legacy]
      /\ IsBlock(file.root)
      /\ file.legacy # None => IsBlock(file.legacy)
  BY DEF Init, TypedFiles
<1>2. IsBlock(Loaded(file))
  BY <1>1 DEF Loaded
<1>3. Block(users, tokens, timeout) = Loaded(file)
  BY <1>2 DEF Init, IsBlock
<1>4. sessions = None
  BY DEF Init
<1> QED
  BY <1>1, <1>2, <1>3, <1>4, NoSessions DEF IInv, Blocks, TheSessions, TheFile

-----------------------------------------------------------------------------
(***************************************************************************)
(* The requests about users                                                *)
(***************************************************************************)
\* A step that changes only sessions keeps the rest of the invariant.
LEMMA OnlySessions ==
  ASSUME IInv, UNCHANGED <<users, tokens, timeout, file>>,
         Maps(sessions', SessionIds, ActiveSession), Follow(sessions', users)
  PROVE  IInv'
BY DEF IInv, Blocks, TheSessions, TheFile, Follow, IsBlock, Block, Maps

LEMMA LoginKeeps ==
  ASSUME IInv, NEW l \in Logins, NEW password, NEW s \in SessionIds, Login(l, password, s)
  PROVE  IInv'
<1>1. Maps(users, Logins, Account)
  BY BlockParts DEF IInv
<1>2. /\ l \in DOMAIN users /\ s \in SessionIds \ DOMAIN sessions
      /\ sessions' = With(sessions, s, Session(l, users))
      /\ UNCHANGED <<users, tokens, timeout, file>>
  BY DEF Login
<1>3. Maps(sessions', SessionIds, ActiveSession) /\ Follow(sessions', users)
  BY <1>1, <1>2, OpenedFollow, Typed DEF IInv, TheSessions
<1> QED
  BY <1>2, <1>3, OnlySessions

LEMMA LogoutKeeps ==
  ASSUME IInv, NEW s, Logout(s)
  PROVE  IInv'
<1>1. Maps(sessions', SessionIds, ActiveSession) /\ Follow(sessions', users)
  BY FewerFollow DEF Logout, IInv, TheSessions
<1> QED
  BY <1>1, OnlySessions DEF Logout

LEMMA AskKeeps ==
  ASSUME IInv, NEW c, Ask(c)
  PROVE  IInv'
<1>1. Maps(sessions', SessionIds, ActiveSession) /\ Follow(sessions', users)
  BY FewerFollow, RenewedKeeps DEF Ask, IInv, TheSessions
<1> QED
  BY <1>1, OnlySessions DEF Ask

LEMMA CleanupKeeps ==
  ASSUME IInv, Cleanup
  PROVE  IInv'
<1> DEFINE D == {s \in DOMAIN sessions : sessions[s].left >= 0}
<1>1. D \subseteq DOMAIN sessions
  OBVIOUS
<1>2. sessions' = Restrict(sessions, D)
  BY DEF Cleanup
<1>3. Maps(sessions', SessionIds, ActiveSession) /\ Follow(sessions', users)
  BY <1>1, <1>2, FewerFollow DEF IInv, TheSessions
<1> QED
  BY <1>3, OnlySessions DEF Cleanup

\* A step that keeps what it does not save.
LEMMA SavedKeeps ==
  ASSUME IInv, Maps(users', Logins, Account), Maps(tokens', Tokens, BOOLEAN),
         UNCHANGED timeout, SaveAccounts,
         Maps(sessions', SessionIds, ActiveSession), Follow(sessions', users')
  PROVE  IInv'
<1>1. Blocks' /\ TheFile'
  BY BlockParts, SavedIsTyped DEF IInv
<1>2. TheSessions' /\ Follow(sessions, users)'
  BY DEF TheSessions, Follow, Maps, ActiveSession, Left
<1> QED
  BY <1>1, <1>2 DEF IInv

LEMMA AddUserKeeps ==
  ASSUME IInv, NEW c, NEW l \in Logins, NEW account \in Account, NEW s \in SessionIds,
         AddUser(c, l, account, s)
  PROVE  IInv'
<1> DEFINE entry == [account EXCEPT !.admin = @ \/ DOMAIN users = {}]
           added == With(users, l, entry)
<1>1. entry \in Account
  BY DEF Account
<1>2. Maps(users, Logins, Account) /\ Maps(tokens, Tokens, BOOLEAN)
  BY BlockParts DEF IInv
<1> HIDE DEF entry
<1>3. /\ Maps(added, Logins, Account)
      /\ DOMAIN added = DOMAIN users \cup {l}
      /\ \A k \in DOMAIN users : k # l => added[k] = users[k]
  <2>1. PICK e \in Account : e = entry
    BY <1>1
  <2> QED
    BY <1>2, <2>1, MapsWith
<1>4. /\ l \notin DOMAIN users /\ s \notin DOMAIN sessions
      /\ users' = added
      /\ sessions' = IF IsEmpty THEN With(sessions, s, Session(l, added)) ELSE Renewed(c)
      /\ UNCHANGED <<tokens, timeout>> /\ SaveAccounts
  BY DEF AddUser, entry
<1> HIDE DEF added
<1>5. \A k \in DOMAIN users : k \in DOMAIN added /\ added[k].password = users[k].password
  BY <1>3, <1>4
<1>6. Maps(sessions', SessionIds, ActiveSession) /\ Follow(sessions', added)
  <2>1. CASE IsEmpty
    <3>1. Maps(sessions, SessionIds, ActiveSession) /\ Follow(sessions, added)
      BY <1>5, FollowMore DEF IInv, TheSessions
    <3> QED
      BY <2>1, <3>1, <1>3, <1>4, OpenedFollow, Typed
  <2>2. CASE ~IsEmpty
    BY <2>2, <1>4, <1>5, FollowMore, RenewedKeeps
  <2> QED
    BY <2>1, <2>2
<1> QED
  BY <1>2, <1>3, <1>4, <1>6, SavedKeeps

\* A changed account is one.
LEMMA ChangedIsAccount ==
  ASSUME NEW old \in Account, NEW password \in Passwords \cup {Kept},
         NEW admin \in BOOLEAN \cup {Kept}, NEW limit \in Timeouts \cup {Unset, Kept}
  PROVE  /\ Changed(old, password, admin, limit) \in Account
         /\ password = Kept => Changed(old, password, admin, limit).password = old.password
         /\ Changed(old, password, admin, limit).admin = IF admin = Kept THEN old.admin ELSE admin
BY DEF Changed, Account

LEMMA UpdateUserKeeps ==
  ASSUME IInv, NEW c, NEW l \in Logins, NEW password \in Passwords \cup {Kept},
         NEW admin \in BOOLEAN \cup {Kept}, NEW limit \in Timeouts \cup {Unset, Kept},
         UpdateUser(c, l, password, admin, limit)
  PROVE  IInv'
<1>1. Maps(users, Logins, Account) /\ Maps(tokens, Tokens, BOOLEAN)
  BY BlockParts DEF IInv
<1>2. /\ l \in DOMAIN users
      /\ users' = [users EXCEPT ![l] = Changed(@, password, admin, limit)]
      /\ sessions' = IF password = Kept THEN Renewed(c) ELSE DropSessions(Renewed(c), l)
      /\ UNCHANGED <<tokens, timeout>> /\ SaveAccounts
  BY DEF UpdateUser
<1>3. users[l] \in Account
  BY <1>1, <1>2 DEF Maps
<1>4. PICK new \in Account :
        /\ new = Changed(users[l], password, admin, limit)
        /\ password = Kept => new.password = users[l].password
  BY <1>3, ChangedIsAccount
<1>5. users' = [users EXCEPT ![l] = new]
  BY <1>2, <1>4
<1>6. /\ Maps(users', Logins, Account)
      /\ DOMAIN users' = DOMAIN users
      /\ users'[l] = new
      /\ \A k \in DOMAIN users : k # l => users'[k] = users[k]
  BY <1>1, <1>2, <1>5 DEF Maps
<1>7. Maps(sessions', SessionIds, ActiveSession) /\ Follow(sessions', users')
  <2>1. Maps(Renewed(c), SessionIds, ActiveSession) /\ Follow(Renewed(c), users)
    BY RenewedKeeps
  <2>2. CASE password = Kept
    <3>1. \A k \in DOMAIN users : k \in DOMAIN users' /\ users'[k].password = users[k].password
      BY <2>2, <1>4, <1>6
    <3> QED
      BY <2>1, <2>2, <3>1, <1>2, FollowMore
  <2>3. CASE password # Kept
    <3>1. \A k \in DOMAIN users : k # l => k \in DOMAIN users' /\ users'[k].password = users[k].password
      BY <1>6
    <3>2. sessions' = DropSessions(Renewed(c), l)
      BY <2>3, <1>2
    <3>3. Follow(DropSessions(Renewed(c), l), users')
      BY <2>1, <3>1, DroppedFollow
    <3> QED
      BY <2>1, <3>2, <3>3, DroppedTyped
  <2> QED
    BY <2>2, <2>3
<1> QED
  BY <1>1, <1>2, <1>6, <1>7, SavedKeeps

LEMMA DeleteUserKeeps ==
  ASSUME IInv, NEW c, NEW l \in Logins, NEW confirmed, DeleteUser(c, l, confirmed)
  PROVE  IInv'
<1>1. Maps(users, Logins, Account) /\ Maps(tokens, Tokens, BOOLEAN)
  BY BlockParts DEF IInv
<1>2. /\ users' = Restrict(users, DOMAIN users \ {l})
      /\ sessions' = DropSessions(Renewed(c), l)
      /\ UNCHANGED <<tokens, timeout>> /\ SaveAccounts
  BY DEF DeleteUser
<1>3. /\ Maps(users', Logins, Account)
      /\ DOMAIN users' = DOMAIN users \ {l}
      /\ \A k \in DOMAIN users' : users'[k] = users[k]
  BY <1>1, <1>2, MapsWithin
<1>4. \A k \in DOMAIN users : k # l => k \in DOMAIN users' /\ users'[k].password = users[k].password
  BY <1>3
<1>5. Maps(Renewed(c), SessionIds, ActiveSession) /\ Follow(Renewed(c), users)
  BY RenewedKeeps
<1>6. Maps(sessions', SessionIds, ActiveSession) /\ Follow(sessions', users')
  BY <1>2, <1>4, <1>5, DroppedTyped, DroppedFollow
<1> QED
  BY <1>1, <1>2, <1>3, <1>6, SavedKeeps

-----------------------------------------------------------------------------
(***************************************************************************)
(* The requests about tokens, the setting, time and restarts               *)
(***************************************************************************)
\* A request about tokens leaves the users, and so whose the sessions are.
LEMMA TokensKeep ==
  ASSUME IInv, NEW c, Maps(tokens', Tokens, BOOLEAN), sessions' = Renewed(c),
         UNCHANGED <<users, timeout>>, SaveAccounts
  PROVE  IInv'
<1>1. Maps(users', Logins, Account)
  BY BlockParts DEF IInv
<1>2. Maps(sessions', SessionIds, ActiveSession) /\ Follow(sessions', users')
  BY RenewedKeeps
<1> QED
  BY <1>1, <1>2, SavedKeeps

LEMMA AddTokenKeeps ==
  ASSUME IInv, NEW c, NEW t \in Tokens, NEW admin \in BOOLEAN, AddToken(c, t, admin)
  PROVE  IInv'
<1>1. Maps(tokens, Tokens, BOOLEAN)
  BY BlockParts DEF IInv
<1>2. Maps(tokens', Tokens, BOOLEAN)
  BY <1>1, MapsWith DEF AddToken
<1> QED
  BY <1>2, TokensKeep DEF AddToken

LEMMA UpdateTokenKeeps ==
  ASSUME IInv, NEW c, NEW t \in Tokens, NEW new \in Tokens \cup {Kept},
         NEW admin \in BOOLEAN \cup {Kept}, UpdateToken(c, t, new, admin)
  PROVE  IInv'
<1> DEFINE grants == IF admin = Kept THEN tokens[t] ELSE admin
           name   == IF new = Kept THEN t ELSE new
           rest   == Restrict(tokens, DOMAIN tokens \ {t})
<1>1. Maps(tokens, Tokens, BOOLEAN) /\ t \in DOMAIN tokens
  BY BlockParts DEF IInv, UpdateToken
<1>2. PICK g \in BOOLEAN, n \in Tokens : g = grants /\ n = name
  BY <1>1 DEF Maps
<1>3. PICK r : r = rest /\ Maps(r, Tokens, BOOLEAN)
  BY <1>1, MapsWithin
<1>4. tokens' = With(r, n, g)
  BY <1>2, <1>3 DEF UpdateToken
<1>5. Maps(tokens', Tokens, BOOLEAN)
  BY <1>2, <1>3, <1>4, MapsWith
<1> QED
  BY <1>5, TokensKeep DEF UpdateToken

LEMMA DeleteTokenKeeps ==
  ASSUME IInv, NEW c, NEW t \in Tokens, NEW confirmed, DeleteToken(c, t, confirmed)
  PROVE  IInv'
<1>1. Maps(tokens, Tokens, BOOLEAN)
  BY BlockParts DEF IInv
<1>2. Maps(tokens', Tokens, BOOLEAN)
  BY <1>1, MapsWithin DEF DeleteToken
<1> QED
  BY <1>2, TokensKeep DEF DeleteToken

\* What a change of the setting makes of the file.
LEMMA TimeoutWritten ==
  ASSUME TheFile, NEW value \in Timeouts \cup {Unset}, file' = [file EXCEPT !.root.timeout = value]
  PROVE  /\ file' = [root |-> Block(file.root.users, file.root.tokens, value), legacy |-> file.legacy]
         /\ TheFile'
<1>1. PICK r, g : file = [root |-> r, legacy |-> g] /\ IsBlock(r) /\ (g # None => IsBlock(g))
  BY DEF TheFile
<1>2. r = Block(r.users, r.tokens, r.timeout) /\ file.root = r /\ file.legacy = g
  BY <1>1 DEF IsBlock
<1>3. [r EXCEPT !.timeout = value] = Block(r.users, r.tokens, value)
  BY <1>2 DEF Block
<1>4. file' = [root |-> [r EXCEPT !.timeout = value], legacy |-> g]
  BY <1>1
<1>5. IsBlock(Block(r.users, r.tokens, value))
  BY <1>1, BlockIsBlock DEF IsBlock
<1> QED
  BY <1>1, <1>2, <1>3, <1>4, <1>5 DEF TheFile

LEMMA SetTimeoutKeeps ==
  ASSUME IInv, NEW c, NEW value \in Timeouts \cup {Unset}, SetTimeout(c, value)
  PROVE  IInv'
<1>1. TheFile'
  BY TimeoutWritten DEF SetTimeout, IInv
<1>2. Blocks'
  BY BlockParts, BlockIsBlock DEF SetTimeout, IInv, Blocks
<1>3. TheSessions' /\ Follow(sessions, users)'
  BY RenewedKeeps DEF SetTimeout, TheSessions, Follow, Maps, ActiveSession, Left
<1> QED
  BY <1>1, <1>2, <1>3 DEF IInv

LEMMA TickKeeps ==
  ASSUME IInv, Tick
  PROVE  IInv'
<1> DEFINE aged(x) == [sessions[x] EXCEPT !.left = IF @ >= 0 THEN @ - 1 ELSE @]
<1>1. \A x \in DOMAIN sessions : sessions[x] \in ActiveSession
  BY DEF IInv, TheSessions, Maps
<1>2. \A n \in Left : n \in Int /\ (IF n >= 0 THEN n - 1 ELSE n) \in Left
  BY DEF Left
<1>3. \A x \in DOMAIN sessions : /\ aged(x) \in ActiveSession
                                 /\ aged(x).login = sessions[x].login
                                 /\ aged(x).with = sessions[x].with
  BY <1>1, <1>2 DEF ActiveSession
<1>4. sessions' = [x \in DOMAIN sessions |-> aged(x)] /\ UNCHANGED <<users, tokens, timeout, file>>
  BY DEF Tick
<1> HIDE DEF aged
<1>5. DOMAIN sessions' = DOMAIN sessions /\ \A x \in DOMAIN sessions : sessions'[x] = aged(x)
  BY <1>4
<1>6. Maps(sessions', SessionIds, ActiveSession)
  BY <1>3, <1>4 DEF IInv, TheSessions, Maps
<1>7. Follow(sessions', users)
  BY <1>3, <1>5 DEF IInv, Follow
<1> QED
  BY <1>4, <1>6, <1>7, OnlySessions

LEMMA RestartKeeps ==
  ASSUME IInv, Restart
  PROVE  IInv'
<1>1. IsBlock(Loaded(file))
  BY DEF IInv, TheFile, Loaded
<1>2. Block(users', tokens', timeout') = Loaded(file)
  BY <1>1 DEF Restart, Boot, IsBlock
<1>3. file' = file /\ sessions' = None
  BY DEF Restart, Boot
<1>4. Blocks'
  BY <1>1, <1>2 DEF Blocks
<1>5. TheFile'
  BY <1>3 DEF IInv, TheFile
<1>6. TheSessions' /\ Follow(sessions, users)'
  BY <1>3, NoSessions DEF TheSessions, Maps, ActiveSession, Left, Follow
<1> QED
  BY <1>4, <1>5, <1>6 DEF IInv

LEMMA StepKeeps ==
  ASSUME IInv, [Next]_vars
  PROVE  IInv'
<1>1. CASE UNCHANGED vars
  BY <1>1 DEF vars, IInv, Blocks, TheSessions, TheFile, Follow, IsBlock, Block, Maps, ActiveSession, Left
<1>2. CASE Tick
  BY <1>2, TickKeeps
<1>3. CASE Cleanup
  BY <1>3, CleanupKeeps
<1>4. CASE Restart
  BY <1>4, RestartKeeps
<1>5. ASSUME NEW l \in Logins, NEW password \in Passwords, NEW s \in SessionIds, Login(l, password, s)
      PROVE  IInv'
  BY <1>5, LoginKeeps
<1>6. ASSUME NEW s \in SessionIds, Logout(s) \/ Ask(s)
      PROVE  IInv'
  BY <1>6, LogoutKeeps, AskKeeps
<1>7. ASSUME NEW c \in Credentials, NEW l \in Logins, UserRequest(c, l)
      PROVE  IInv'
  BY <1>7, AddUserKeeps, UpdateUserKeeps, DeleteUserKeeps DEF UserRequest
<1>8. ASSUME NEW c \in Credentials, NEW t \in Tokens, TokenRequest(c, t)
      PROVE  IInv'
  BY <1>8, AddTokenKeeps, UpdateTokenKeeps, DeleteTokenKeeps DEF TokenRequest
<1>9. ASSUME NEW c \in Credentials, NEW value \in Timeouts \cup {Unset}, SetTimeout(c, value)
      PROVE  IInv'
  BY <1>9, SetTimeoutKeeps
<1> QED
  BY <1>1, <1>2, <1>3, <1>4, <1>5, <1>6, <1>7, <1>8, <1>9 DEF Next, Request

LEMMA Invariance ==
  ASSUME TypedFiles
  PROVE  Spec => []IInv
<1>1. Init => IInv
  BY StartIsTyped
<1>2. IInv /\ [Next]_vars => IInv'
  BY StepKeeps
<1> QED
  BY <1>1, <1>2, PTL DEF Spec

\* Accounts, sessions and the file keep their types, for any number of users,
\* tokens, sessions and timeouts.
THEOREM TypeCorrect ==
  ASSUME TypedFiles
  PROVE  Spec => []TypeOK
<1>1. IInv => TypeOK
  BY Typed
<1> QED
  BY <1>1, Invariance, PTL

\* A session lets in whoever knew the password its account has now: none
\* survives a changed password or a deleted account.
THEOREM SessionsStay ==
  ASSUME TypedFiles
  PROVE  Spec => []SessionsOfThisPassword
<1>1. IInv => SessionsOfThisPassword
  BY DEF IInv, Follow, SessionsOfThisPassword
<1> QED
  BY <1>1, Invariance, PTL

-----------------------------------------------------------------------------
(***************************************************************************)
(* Sessions that have lapsed                                               *)
(***************************************************************************)
\* None that has lapsed is live again in `new`.
Lapse(new) ==
    \A s \in DOMAIN sessions \cap DOMAIN new : sessions[s].left < 0 => new[s].left < 0

LEMMA RenewedLapse ==
  ASSUME IInv, NEW c
  PROVE  Lapse(Renewed(c))
BY RenewedKeeps DEF Lapse

LEMMA FewerLapse ==
  ASSUME IInv, NEW new, Maps(new, SessionIds, ActiveSession), Lapse(new),
         NEW D, D \subseteq DOMAIN new
  PROVE  Lapse(Restrict(new, D))
BY MapsWithin DEF Lapse

LEMMA DroppedLapse ==
  ASSUME IInv, NEW c, NEW l
  PROVE  Lapse(DropSessions(Renewed(c), l))
<1> DEFINE D == {s \in DOMAIN Renewed(c) : Renewed(c)[s].login # l}
<1>1. D \subseteq DOMAIN Renewed(c)
  OBVIOUS
<1>2. DropSessions(Renewed(c), l) = Restrict(Renewed(c), D)
  BY DEF DropSessions
<1>3. Maps(Renewed(c), SessionIds, ActiveSession) /\ Lapse(Renewed(c))
  BY RenewedKeeps, RenewedLapse
<1> HIDE DEF D
<1>4. Lapse(Restrict(Renewed(c), D))
  BY <1>1, <1>3, FewerLapse
<1> QED
  BY <1>2, <1>4

LEMMA OpenedLapse ==
  ASSUME IInv, NEW s \in SessionIds \ DOMAIN sessions, NEW session \in ActiveSession
  PROVE  Lapse(With(sessions, s, session))
<1> DEFINE opened == With(sessions, s, session)
<1>1. \A x \in DOMAIN sessions : opened[x] = sessions[x]
  BY DEF With
<1> HIDE DEF opened
<1>2. Lapse(opened)
  BY <1>1 DEF Lapse
<1> QED
  BY <1>2 DEF opened

LEMMA SameLapse ==
  Lapse(sessions)
BY DEF Lapse

LEMMA UserRequestLapse ==
  ASSUME IInv, NEW c, NEW l \in Logins, UserRequest(c, l)
  PROVE  Lapse(sessions')
<1>1. ASSUME NEW account \in Account, NEW s \in SessionIds, AddUser(c, l, account, s)
      PROVE  Lapse(sessions')
  <2> DEFINE entry == [account EXCEPT !.admin = @ \/ DOMAIN users = {}]
             added == With(users, l, entry)
  <2>1. PICK e \in Account : e = entry
    BY DEF Account
  <2>2. Maps(users, Logins, Account)
    BY BlockParts DEF IInv
  <2> HIDE DEF entry
  <2>3. Maps(added, Logins, Account) /\ l \in DOMAIN added
    BY <2>1, <2>2 DEF Maps, With
  <2>4. s \notin DOMAIN sessions
        /\ sessions' = IF IsEmpty THEN With(sessions, s, Session(l, added)) ELSE Renewed(c)
    BY <1>1 DEF AddUser, entry
  <2> HIDE DEF added
  <2>5. Session(l, added) \in ActiveSession
    BY <2>3, SessionOpens, Typed
  <2> QED
    BY <2>4, <2>5, OpenedLapse, RenewedLapse
<1>2. ASSUME NEW password, NEW admin, NEW limit, UpdateUser(c, l, password, admin, limit)
      PROVE  Lapse(sessions')
  BY <1>2, RenewedLapse, DroppedLapse DEF UpdateUser
<1>3. ASSUME NEW confirmed, DeleteUser(c, l, confirmed)
      PROVE  Lapse(sessions')
  BY <1>3, DroppedLapse DEF DeleteUser
<1> QED
  BY <1>1, <1>2, <1>3 DEF UserRequest

LEMMA StepLapse ==
  ASSUME IInv, [Next]_vars
  PROVE  Lapse(sessions')
<1>1. CASE UNCHANGED vars
  BY <1>1, SameLapse DEF vars
<1>2. CASE Tick
  <2>1. \A x \in DOMAIN sessions : sessions[x] \in ActiveSession
    BY DEF IInv, TheSessions, Maps
  <2>2. \A x \in DOMAIN sessions : sessions[x].left < 0 =>
          [sessions[x] EXCEPT !.left = IF @ >= 0 THEN @ - 1 ELSE @] = sessions[x]
    BY <2>1 DEF ActiveSession, Left
  <2>3. \A x \in DOMAIN sessions : sessions[x].left < 0 => sessions'[x] = sessions[x]
    BY <1>2, <2>2 DEF Tick
  <2> QED
    BY <2>3 DEF Lapse
<1>3. CASE Cleanup
  <2> DEFINE D == {s \in DOMAIN sessions : sessions[s].left >= 0}
  <2>1. D \subseteq DOMAIN sessions
    OBVIOUS
  <2>2. sessions' = Restrict(sessions, D)
    BY <1>3 DEF Cleanup
  <2> HIDE DEF D
  <2> QED
    BY <2>1, <2>2, SameLapse, FewerLapse DEF IInv, TheSessions
<1>4. CASE Restart
  BY <1>4 DEF Restart, Boot, None, Lapse
<1>5. ASSUME NEW l \in Logins, NEW password, NEW s \in SessionIds, Login(l, password, s)
      PROVE  Lapse(sessions')
  <2>1. Session(l, users) \in ActiveSession
    BY <1>5, BlockParts, SessionOpens, Typed DEF IInv, Login
  <2> QED
    BY <1>5, <2>1, OpenedLapse DEF Login
<1>6. ASSUME NEW s, Logout(s)
      PROVE  Lapse(sessions')
  BY <1>6, SameLapse, FewerLapse DEF Logout, IInv, TheSessions
<1>7. ASSUME NEW s, Ask(s)
      PROVE  Lapse(sessions')
  BY <1>7, SameLapse, FewerLapse, RenewedLapse DEF Ask, IInv, TheSessions
<1>8. ASSUME NEW c, NEW t, TokenRequest(c, t)
      PROVE  Lapse(sessions')
  BY <1>8, RenewedLapse DEF TokenRequest, AddToken, UpdateToken, DeleteToken
<1>9. ASSUME NEW c, NEW value, SetTimeout(c, value)
      PROVE  Lapse(sessions')
  BY <1>9, RenewedLapse DEF SetTimeout
<1> QED
  BY <1>1, <1>2, <1>3, <1>4, <1>5, <1>6, <1>7, <1>8, <1>9, UserRequestLapse DEF Next, Request

\* A session that has lapsed is not brought back by using it, nor by anything
\* else.
THEOREM LapsedStay ==
  ASSUME TypedFiles
  PROVE  Spec => LapsedStayLapsed
<1>1. IInv /\ [Next]_vars =>
        [\A s \in DOMAIN sessions \cap DOMAIN sessions' :
           sessions[s].left < 0 => sessions'[s].left < 0]_vars
  BY StepLapse DEF Lapse
<1> QED
  BY <1>1, Invariance, PTL DEF Spec, LapsedStayLapsed

-----------------------------------------------------------------------------
(***************************************************************************)
(* The file, and who administers                                           *)
(***************************************************************************)
\* Files of the present format: nothing in an HTTP server's entry.
PresentFormat == \A f \in Files : f.legacy = None

\* The file is what is in force, so that a restart changes only the sessions.
Written == file = [root |-> Block(users, tokens, timeout), legacy |-> None]

LEMMA WrittenIsLoaded ==
  ASSUME Written
  PROVE  Loaded(file) = Block(users, tokens, timeout)
BY DEF Written, Loaded

LEMMA StartIsWritten ==
  ASSUME TypedFiles, PresentFormat, Init
  PROVE  Written
<1>1. file = [root |-> file.root, legacy |-> None] /\ IsBlock(file.root)
  BY DEF Init, TypedFiles, PresentFormat
<1>2. Loaded(file) = file.root
  BY <1>1 DEF Loaded
<1>3. Block(users, tokens, timeout) = file.root
  BY <1>1, <1>2 DEF Init, IsBlock
<1> QED
  BY <1>1, <1>3 DEF Written

LEMMA RestartWritten ==
  ASSUME Written, Restart
  PROVE  UNCHANGED <<users, tokens, timeout, file>>
<1>1. users' = Loaded(file).users /\ tokens' = Loaded(file).tokens /\ timeout' = Loaded(file).timeout
  BY DEF Restart, Boot
<1>2. /\ Block(users, tokens, timeout).users = users
      /\ Block(users, tokens, timeout).tokens = tokens
      /\ Block(users, tokens, timeout).timeout = timeout
  BY DEF Block
<1> QED
  BY <1>1, <1>2, WrittenIsLoaded DEF Restart

\* What a step may do to the accounts: leave them, or save others, through one
\* of the requests.
AccountsLeft == UNCHANGED <<users, tokens>>
UsersChanged ==
    \E c \in Credentials, l \in Logins : UserRequest(c, l)
TokensChanged ==
    \E c \in Credentials, t \in Tokens : TokenRequest(c, t)

LEMMA Steps ==
  ASSUME Written, [Next]_vars
  PROVE  \/ AccountsLeft
         \/ UsersChanged
         \/ TokensChanged
BY RestartWritten DEF Next, Request, Login, Logout, Ask, SetTimeout, Tick, Cleanup, vars,
   AccountsLeft, UsersChanged, TokensChanged

LEMMA StepWrites ==
  ASSUME IInv, Written, [Next]_vars
  PROVE  Written'
<1>1. ASSUME SaveAccounts
      PROVE  Written'
  BY <1>1 DEF SaveAccounts, Written
<1>2. ASSUME UNCHANGED <<users, tokens, timeout, file>>
      PROVE  Written'
  BY <1>2 DEF Written, Block
<1>3. ASSUME NEW c \in Credentials, NEW l \in Logins, UserRequest(c, l)
      PROVE  SaveAccounts
  BY <1>3 DEF UserRequest, AddUser, UpdateUser, DeleteUser
<1>4. ASSUME NEW c \in Credentials, NEW t \in Tokens, TokenRequest(c, t)
      PROVE  SaveAccounts
  BY <1>4 DEF TokenRequest, AddToken, UpdateToken, DeleteToken
<1>5. ASSUME NEW c \in Credentials, NEW value \in Timeouts \cup {Unset}, SetTimeout(c, value)
      PROVE  Written'
  <2>1. file' = [root |-> Block(file.root.users, file.root.tokens, value), legacy |-> file.legacy]
    BY <1>5, TimeoutWritten DEF SetTimeout, IInv
  <2>2. file.root.users = users /\ file.root.tokens = tokens /\ file.legacy = None
    BY DEF Written, Block
  <2>3. users' = users /\ tokens' = tokens /\ timeout' = value
    BY <1>5 DEF SetTimeout
  <2> QED
    BY <2>1, <2>2, <2>3 DEF Written
<1>6. CASE Restart
  BY <1>2, <1>6, RestartWritten
<1>7. CASE Tick \/ Cleanup \/ UNCHANGED vars
  BY <1>2, <1>7 DEF Tick, Cleanup, vars
<1>8. ASSUME NEW l, NEW password, NEW s, Login(l, password, s) \/ Logout(s) \/ Ask(s)
      PROVE  Written'
  BY <1>2, <1>8 DEF Login, Logout, Ask
<1> QED
  BY <1>1, <1>3, <1>4, <1>5, <1>6, <1>7, <1>8 DEF Next, Request

LEMMA WrittenInvariance ==
  ASSUME TypedFiles, PresentFormat
  PROVE  Spec => [](IInv /\ Written)
<1>1. Init => IInv /\ Written
  BY StartIsTyped, StartIsWritten
<1>2. IInv /\ Written /\ [Next]_vars => (IInv /\ Written)'
  BY StepKeeps, StepWrites
<1> QED
  BY <1>1, <1>2, PTL DEF Spec

\* A restart finds the accounts that are in force, whatever was changed since
\* the last one.
THEOREM AccountsAreKept ==
  ASSUME TypedFiles, PresentFormat
  PROVE  Spec => []RestartKeepsAccounts
<1>1. Written => RestartKeepsAccounts
  BY WrittenIsLoaded DEF RestartKeepsAccounts
<1> QED
  BY <1>1, WrittenInvariance, PTL

\* Where somebody administers and this one is not alone in it, another does.
LEMMA AnotherThanUser ==
  ASSUME NEW l, Administered, ~OnlyAdminUser(l)
  PROVE  AdminTokens # {} \/ \E k \in AdminUsers : k # l
BY DEF Administered, OnlyAdminUser

LEMMA AnotherThanToken ==
  ASSUME NEW t, Administered, ~OnlyAdminToken(t)
  PROVE  AdminUsers # {} \/ \E k \in AdminTokens : k # t
BY DEF Administered, OnlyAdminToken

\* Whoever administers still does if the account is still there as it was.
LEMMA AdminUserStays ==
  ASSUME NEW k \in AdminUsers, k \in DOMAIN users', users'[k].admin
  PROVE  Administered'
BY DEF Administered, AdminUsers

LEMMA AdminTokenStays ==
  ASSUME NEW k \in AdminTokens, k \in DOMAIN tokens', tokens'[k]
  PROVE  Administered'
BY DEF Administered, AdminTokens

\* As long as one of several is left, or it is still allowed to.
LEMMA SameTokensAdminister ==
  ASSUME UNCHANGED tokens, AdminTokens # {}
  PROVE  Administered'
BY DEF Administered, AdminTokens

LEMMA SameUsersAdminister ==
  ASSUME UNCHANGED users, AdminUsers # {}
  PROVE  Administered'
BY DEF Administered, AdminUsers

LEMMA AddUserAdmin ==
  ASSUME IInv, NEW c, NEW l \in Logins, NEW account \in Account, NEW s, AddUser(c, l, account, s),
         Administered
  PROVE  Administered'
<1>1. l \notin DOMAIN users /\ UNCHANGED tokens
  BY DEF AddUser
<1>2. \A k \in DOMAIN users : k \in DOMAIN users' /\ users'[k] = users[k]
  BY <1>1 DEF AddUser, With
<1>3. ASSUME NEW k \in AdminUsers
      PROVE  Administered'
  BY <1>2, AdminUserStays DEF AdminUsers
<1> QED
  BY <1>1, <1>3, SameTokensAdminister DEF Administered

LEMMA UpdateUserAdmin ==
  ASSUME IInv, NEW c, NEW l \in Logins, NEW password \in Passwords \cup {Kept},
         NEW admin \in BOOLEAN \cup {Kept}, NEW limit \in Timeouts \cup {Unset, Kept},
         UpdateUser(c, l, password, admin, limit), Administered
  PROVE  Administered'
<1>1. /\ l \in DOMAIN users /\ UNCHANGED tokens
      /\ users' = [users EXCEPT ![l] = Changed(@, password, admin, limit)]
      /\ ~(admin = FALSE /\ OnlyAdminUser(l))
  BY DEF UpdateUser
<1>2. users[l] \in Account
  BY <1>1, BlockParts DEF IInv, Maps
<1>3. PICK new \in Account :
        /\ new = Changed(users[l], password, admin, limit)
        /\ new.admin = IF admin = Kept THEN users[l].admin ELSE admin
  BY <1>2, ChangedIsAccount
<1>4. users' = [users EXCEPT ![l] = new]
  BY <1>1, <1>3
<1>5. /\ DOMAIN users' = DOMAIN users
      /\ users'[l] = new
      /\ \A k \in DOMAIN users : k # l => users'[k] = users[k]
  BY <1>1, <1>4
<1>6. CASE AdminTokens # {}
  BY <1>1, <1>6, SameTokensAdminister
<1>7. ASSUME NEW k \in AdminUsers, k # l
      PROVE  Administered'
  BY <1>5, <1>7, AdminUserStays DEF AdminUsers
<1>8. CASE admin = FALSE
  BY <1>1, <1>6, <1>7, <1>8, AnotherThanUser
<1>9. ASSUME admin # FALSE, l \in AdminUsers
      PROVE  Administered'
  <2>1. users[l].admin
    BY <1>9 DEF AdminUsers
  <2>2. new.admin
    BY <1>3, <1>9, <2>1
  <2> QED
    BY <1>5, <1>9, <2>2, AdminUserStays DEF AdminUsers
<1> QED
  BY <1>6, <1>7, <1>8, <1>9 DEF Administered

LEMMA DeleteUserAdmin ==
  ASSUME IInv, NEW c, NEW l \in Logins, NEW confirmed, DeleteUser(c, l, confirmed),
         Administered, ~IsEmpty'
  PROVE  Administered'
<1>1. /\ l \in DOMAIN users /\ UNCHANGED tokens
      /\ DOMAIN users' = DOMAIN users \ {l}
      /\ \A k \in DOMAIN users' : users'[k] = users[k]
  BY BlockParts, MapsWithin DEF IInv, DeleteUser
<1>2. ~OnlyUser(l)
  BY <1>1 DEF OnlyUser, IsEmpty
<1>3. ~OnlyAdminUser(l)
  BY <1>2 DEF DeleteUser
<1>4. CASE AdminTokens # {}
  BY <1>1, <1>4, SameTokensAdminister
<1>5. ASSUME NEW k \in AdminUsers, k # l
      PROVE  Administered'
  BY <1>1, <1>5, AdminUserStays DEF AdminUsers
<1> QED
  BY <1>3, <1>4, <1>5, AnotherThanUser

LEMMA AddTokenAdmin ==
  ASSUME NEW c, NEW t, NEW admin, AddToken(c, t, admin), Administered
  PROVE  Administered'
<1>1. UNCHANGED users /\ \A k \in DOMAIN tokens : k \in DOMAIN tokens' /\ tokens'[k] = tokens[k]
  BY DEF AddToken, With
<1>2. ASSUME NEW k \in AdminTokens
      PROVE  Administered'
  BY <1>1, <1>2, AdminTokenStays DEF AdminTokens
<1> QED
  BY <1>1, <1>2, SameUsersAdminister DEF Administered

LEMMA UpdateTokenAdmin ==
  ASSUME NEW c, NEW t \in Tokens, NEW new \in Tokens \cup {Kept},
         NEW admin \in BOOLEAN \cup {Kept}, UpdateToken(c, t, new, admin), Administered
  PROVE  Administered'
<1> DEFINE grants == IF admin = Kept THEN tokens[t] ELSE admin
           name   == IF new = Kept THEN t ELSE new
<1>1. /\ UNCHANGED users /\ t \in DOMAIN tokens
      /\ ~(admin = FALSE /\ OnlyAdminToken(t))
      /\ name = t \/ name \notin DOMAIN tokens
      /\ tokens' = With(Restrict(tokens, DOMAIN tokens \ {t}), name, grants)
  BY DEF UpdateToken
<1> HIDE DEF grants, name
<1>2. /\ name \in DOMAIN tokens' /\ tokens'[name] = grants
      /\ \A k \in DOMAIN tokens : k # t => k \in DOMAIN tokens' /\ tokens'[k] = tokens[k]
  BY <1>1 DEF With, Restrict
<1>3. CASE AdminUsers # {}
  BY <1>1, <1>3, SameUsersAdminister
<1>4. ASSUME NEW k \in AdminTokens, k # t
      PROVE  Administered'
  BY <1>2, <1>4, AdminTokenStays DEF AdminTokens
<1>5. CASE admin = FALSE
  BY <1>1, <1>3, <1>4, <1>5, AnotherThanToken
<1>6. ASSUME admin # FALSE, t \in AdminTokens
      PROVE  Administered'
  <2>1. grants = TRUE \/ grants = tokens[t]
    BY <1>6 DEF grants
  <2>2. tokens[t]
    BY <1>6 DEF AdminTokens
  <2>3. tokens'[name]
    BY <1>2, <2>1, <2>2
  <2> QED
    BY <1>2, <2>3 DEF Administered, AdminTokens
<1> QED
  BY <1>3, <1>4, <1>5, <1>6 DEF Administered

LEMMA DeleteTokenAdmin ==
  ASSUME NEW c, NEW t, NEW confirmed, DeleteToken(c, t, confirmed), Administered, ~IsEmpty'
  PROVE  Administered'
<1>1. /\ UNCHANGED users /\ t \in DOMAIN tokens
      /\ DOMAIN tokens' = DOMAIN tokens \ {t}
      /\ \A k \in DOMAIN tokens' : tokens'[k] = tokens[k]
  BY DEF DeleteToken, Restrict
<1>2. ~OnlyToken(t)
  BY <1>1 DEF OnlyToken, IsEmpty
<1>3. ~OnlyAdminToken(t)
  BY <1>2 DEF DeleteToken
<1>4. CASE AdminUsers # {}
  BY <1>1, <1>4, SameUsersAdminister
<1>5. ASSUME NEW k \in AdminTokens, k # t
      PROVE  Administered'
  BY <1>1, <1>5, AdminTokenStays DEF AdminTokens
<1> QED
  BY <1>3, <1>4, <1>5, AnotherThanToken

LEMMA StepAdmin ==
  ASSUME IInv, Written, [Next]_vars, Administered, ~IsEmpty'
  PROVE  Administered'
<1>1. CASE AccountsLeft
  BY <1>1 DEF AccountsLeft, Administered, AdminUsers, AdminTokens
<1>2. CASE UsersChanged
  BY <1>2, AddUserAdmin, UpdateUserAdmin, DeleteUserAdmin DEF UsersChanged, UserRequest
<1>3. CASE TokensChanged
  BY <1>3, AddTokenAdmin, UpdateTokenAdmin, DeleteTokenAdmin DEF TokensChanged, TokenRequest
<1> QED
  BY <1>1, <1>2, <1>3, Steps

\* Once somebody administers, somebody does until authentication is off,
\* through demotions, deletions, replaced tokens and restarts.
THEOREM AdminsRemain ==
  ASSUME TypedFiles, PresentFormat
  PROVE  Spec => AdminRemains
<1>1. IInv /\ Written /\ [Next]_vars => [Administered /\ ~IsEmpty' => Administered']_vars
  BY StepAdmin
<1> QED
  BY <1>1, WrittenInvariance, PTL DEF Spec, AdminRemains

-----------------------------------------------------------------------------
(***************************************************************************)
(* The end of authentication                                               *)
(***************************************************************************)
\* One account, and then none.
LastIsOne ==
    Cardinality(DOMAIN users) + Cardinality(DOMAIN tokens) = 1

LEMMA UserEnds ==
  ASSUME IInv, Written, NEW c, NEW l \in Logins, UserRequest(c, l), IsEmpty'
  PROVE  LastIsOne /\ file' # file
<1>1. ASSUME NEW account, NEW s, AddUser(c, l, account, s)
      PROVE  FALSE
  BY <1>1 DEF AddUser, With, IsEmpty
<1>2. ASSUME NEW password, NEW admin, NEW limit, UpdateUser(c, l, password, admin, limit)
      PROVE  FALSE
  BY <1>2 DEF UpdateUser, IsEmpty
<1>3. ASSUME NEW confirmed, DeleteUser(c, l, confirmed)
      PROVE  DOMAIN users = {l} /\ DOMAIN tokens = {} /\ SaveAccounts
  BY <1>3 DEF DeleteUser, Restrict, IsEmpty
<1>4. DOMAIN users = {l} /\ DOMAIN tokens = {} /\ SaveAccounts
  BY <1>1, <1>2, <1>3 DEF UserRequest
<1>5. Cardinality(DOMAIN users) = 1 /\ Cardinality(DOMAIN tokens) = 0
  BY <1>4, FS_Singleton, FS_EmptySet
<1>6. file'.root.users = users' /\ file.root.users = users
  BY <1>4 DEF SaveAccounts, Written, Block
<1>7. users' # users
  BY <1>4 DEF IsEmpty
<1> QED
  BY <1>5, <1>6, <1>7 DEF LastIsOne

LEMMA TokenEnds ==
  ASSUME IInv, Written, NEW c, NEW t \in Tokens, TokenRequest(c, t), IsEmpty'
  PROVE  LastIsOne /\ file' # file
<1>1. ASSUME NEW admin, AddToken(c, t, admin)
      PROVE  FALSE
  BY <1>1 DEF AddToken, With, IsEmpty
<1>2. ASSUME NEW new, NEW admin, UpdateToken(c, t, new, admin)
      PROVE  FALSE
  BY <1>2 DEF UpdateToken, With, IsEmpty
<1>3. ASSUME NEW confirmed, DeleteToken(c, t, confirmed)
      PROVE  DOMAIN tokens = {t} /\ DOMAIN users = {} /\ SaveAccounts
  BY <1>3 DEF DeleteToken, Restrict, IsEmpty
<1>4. DOMAIN tokens = {t} /\ DOMAIN users = {} /\ SaveAccounts
  BY <1>1, <1>2, <1>3 DEF TokenRequest
<1>5. Cardinality(DOMAIN tokens) = 1 /\ Cardinality(DOMAIN users) = 0
  BY <1>4, FS_Singleton, FS_EmptySet
<1>6. file'.root.tokens = tokens' /\ file.root.tokens = tokens
  BY <1>4 DEF SaveAccounts, Written, Block
<1>7. tokens' # tokens
  BY <1>4 DEF IsEmpty
<1> QED
  BY <1>5, <1>6, <1>7 DEF LastIsOne

\* Authentication ends with the deletion of the last account, which is written
\* down, and in no other way: not by a change, a setting or a restart.
THEOREM OffByLastDeletion ==
  ASSUME TypedFiles, PresentFormat
  PROVE  Spec => OffOnlyByLastDeletion
<1>1. ASSUME IInv, Written, [Next]_vars, ~IsEmpty, IsEmpty'
      PROVE  LastIsOne /\ file' # file
  <2>1. ~AccountsLeft
    BY <1>1 DEF AccountsLeft, IsEmpty
  <2>2. CASE UsersChanged
    BY <1>1, <2>2, UserEnds DEF UsersChanged
  <2>3. CASE TokensChanged
    BY <1>1, <2>3, TokenEnds DEF TokensChanged
  <2> QED
    BY <1>1, <2>1, <2>2, <2>3, Steps
<1>2. IInv /\ Written /\ [Next]_vars =>
        [~IsEmpty /\ IsEmpty' =>
           /\ Cardinality(DOMAIN users) + Cardinality(DOMAIN tokens) = 1
           /\ file' # file]_vars
  BY <1>1 DEF LastIsOne
<1> QED
  BY <1>2, WrittenInvariance, PTL DEF Spec, OffOnlyByLastDeletion

=============================================================================
