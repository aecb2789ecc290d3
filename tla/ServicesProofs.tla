---------------------------- MODULE ServicesProofs ----------------------------
(* What the hosted accounts and the community rank promise.                   *)
EXTENDS Accounts, Community, TLAPS

-----------------------------------------------------------------------------
(* What Accounts promises, for any number of accounts, requests, processes,   *)
(* devices and faults.  The invariant has two ideas.  Every user id written   *)
(* anywhere, in a table, a cookie or a request under way, is one that the     *)
(* users table has already given out: each type below is indexed by the last  *)
(* id, only UpsertGitHubUser raises it, and a larger index allows more        *)
(* (IdsOnlyGrow).  And a CLI holds a token only when its challenge, if it is  *)
(* still there, was consumed, which DenyPair and ConsumePair never do both.   *)

Makers == Requests \cup {NoOne}
Challenge == [open : BOOLEAN, consumed : BOOLEAN, denied : BOOLEAN, user : Nat]

SessionRow(n) == [by : Makers, user : 0..n]
ProfileRow(n) == [user : 0..n, code : Requests, by : Requests]
CodeRow(n) == [user : 0..n, consumed : BOOLEAN]
DeviceRow(n) == [user : 0..n, revoked : BOOLEAN, code : Codes]
Table(n) ==
  [users : [Identities -> 0..n], last : {n},
   sessions : SUBSET SessionRow(n), profiles : SUBSET ProfileRow(n),
   states : SUBSET Identities, usage : SUBSET (0..n),
   codes : [Requests -> CodeRow(n) \cup {NoOne}],
   devices : [Requests -> DeviceRow(n) \cup {NoOne}],
   challenges : [Codes -> Challenge \cup {NoOne}]]
Cookies(n) == [Identities -> SessionRow(n) \cup {NoOne}]
Steps == Kinds \cup {"idle", "done", "drop_state", "github", "upsert", "session",
                     "consume_code", "profile", "refuse", "insert", "consume_pair", "pend"}
Request(n) ==
  [at : Steps, who : Identities \cup {NoOne}, host : Servers \cup {NoOne},
   user : 0..n, on : Requests \cup Codes \cup {NoOne}]
Client(n) == [at : {"new", "waiting", "failed", "in", "sync", "out"}, token : Makers, user : 0..n]

\* What a request at a step works on.
OfBrowser == {"login", "drop_state", "github", "upsert", "session", "logout", "delete_account"}
OnCode == {"exchange", "consume_code", "profile"}
OnChallenge == {"confirm", "deny", "insert", "refuse", "consume_pair", "pend"}
AimedWell(q) ==
  /\ q.at \in OfBrowser => q.who \in Identities
  /\ q.at \in OnCode \cup {"revoke"} => q.on \in Requests
  /\ q.at \in OnChallenge => q.on \in Codes /\ q.host \in Servers

AccountsType(n) ==
  /\ n \in Nat
  /\ db \in Table(n)
  /\ browser \in Cookies(n)
  /\ pending \in [Servers -> [Codes -> Makers]]
  /\ req \in [Requests -> Request(n)] /\ \A r \in Requests : AimedWell(req[r])
  /\ cli \in [Codes -> Client(n)]

\* A decided challenge and the token of its CLI.
Paired(c) ==
  /\ cli[c].at \in {"new", "waiting", "failed"} => cli[c].token = NoOne
  /\ db.challenges[c] # NoOne =>
       /\ ~(db.challenges[c].consumed /\ db.challenges[c].denied)
       /\ cli[c].token # NoOne => db.challenges[c].consumed

AccountsInv == AccountsType(db.last) /\ \A c \in Codes : Paired(c)

-----------------------------------------------------------------------------
LEMMA AccountsInvInit == AccountsInit => AccountsInv
<1> SUFFICES ASSUME AccountsInit PROVE AccountsInv
  OBVIOUS
<1>1. PICK known \in SUBSET Identities :
        /\ db = Tables([g \in Identities |-> IF g \in known THEN 1 ELSE 0])
        /\ browser = [g \in Identities |-> IF g \in known THEN [by |-> NoOne, user |-> 1] ELSE NoOne]
  BY DEF AccountsInit
<1> DEFINE u == [g \in Identities |-> IF g \in known THEN 1 ELSE 0]
<1>2. /\ db.users = u /\ db.last = IF \E g \in Identities : u[g] = 1 THEN 1 ELSE 0
      /\ db.sessions = {[by |-> NoOne, user |-> 1] : g \in {i \in Identities : u[i] = 1}}
  BY <1>1 DEF Tables
<1>3. db.last \in Nat /\ (known # {} => db.last = 1)
  BY <1>2
<1>4. db.users \in [Identities -> 0..db.last]
  BY <1>2, <1>3
<1>5. db.sessions \in SUBSET SessionRow(db.last)
  BY <1>2, <1>3 DEF SessionRow, Makers
<1>6. db \in Table(db.last)
  BY <1>1, <1>3, <1>4, <1>5 DEF Tables, Table
<1>7. browser \in Cookies(db.last)
  BY <1>1, <1>3 DEF Cookies, SessionRow, Makers
<1>8. /\ pending \in [Servers -> [Codes -> Makers]]
  BY DEF AccountsInit, Makers
<1>11. cli \in [Codes -> Client(db.last)]
  BY <1>3 DEF AccountsInit, Makers, Client
<1>12. req \in [Requests -> Request(db.last)]
  <2>1. Idle \in Request(db.last)
    BY <1>3 DEF Idle, Request, Steps
  <2> QED
    BY <2>1 DEF AccountsInit
<1>9. \A r \in Requests : AimedWell(req[r])
  BY DEF AccountsInit, AimedWell, Idle, OfBrowser, OnCode, OnChallenge
<1>10. \A c \in Codes : Paired(c)
  BY <1>1 DEF AccountsInit, Paired, Tables
<1> QED
  BY <1>3, <1>6, <1>7, <1>8, <1>9, <1>10, <1>11, <1>12 DEF AccountsInv, AccountsType

\* A request moves on.
LEMMA RequestMoves ==
  ASSUME NEW n \in Nat, AccountsType(n), NEW r \in Requests, NEW q \in Request(n),
         AimedWell(q), req' = [req EXCEPT ![r] = q]
  PROVE  req' \in [Requests -> Request(n)] /\ \A x \in Requests : AimedWell(req'[x])
  BY DEF AccountsType

\* What Go and Answer do to a request at a step of the list.
LEMMA RequestGoes ==
  ASSUME NEW n \in Nat, AccountsType(n), NEW r \in Requests, NEW at \in Steps,
         AimedWell([req[r] EXCEPT !.at = at]), Go(r, at)
  PROVE  req' \in [Requests -> Request(n)] /\ \A x \in Requests : AimedWell(req'[x])
<1>1. req[r] \in Request(n)
  BY DEF AccountsType
<1>2. [req[r] EXCEPT !.at = at] \in Request(n)
  BY <1>1 DEF Request
<1>3. req' = [req EXCEPT ![r] = [req[r] EXCEPT !.at = at]]
  BY DEF Go
<1> QED
  BY <1>2, <1>3, RequestMoves

\* A request that is answered works on nothing.
LEMMA RequestEnds ==
  ASSUME NEW n \in Nat, AccountsType(n), NEW r \in Requests, Answer(r)
  PROVE  req' \in [Requests -> Request(n)] /\ \A x \in Requests : AimedWell(req'[x])
<1>1. AimedWell([req[r] EXCEPT !.at = "done"])
  BY DEF AccountsType, AimedWell, Request, OfBrowser, OnCode, OnChallenge
<1>2. "done" \in Steps
  BY DEF Steps
<1> QED
  BY <1>1, <1>2, RequestGoes DEF Answer

\* Later ids leave every earlier one allowed.
LEMMA IdsOnlyGrow ==
  ASSUME NEW n \in Nat, AccountsType(n)
  PROVE  /\ browser \in Cookies(n + 1)
         /\ req \in [Requests -> Request(n + 1)]
         /\ cli \in [Codes -> Client(n + 1)]
         /\ \A d \in Table(n), u \in [Identities -> 0..(n + 1)] :
              [d EXCEPT !.users = u, !.last = n + 1] \in Table(n + 1)
<1>1. 0..n \subseteq 0..(n + 1)
  OBVIOUS
<1>2. /\ SessionRow(n) \subseteq SessionRow(n + 1) /\ ProfileRow(n) \subseteq ProfileRow(n + 1)
      /\ CodeRow(n) \subseteq CodeRow(n + 1) /\ DeviceRow(n) \subseteq DeviceRow(n + 1)
      /\ Request(n) \subseteq Request(n + 1) /\ Client(n) \subseteq Client(n + 1)
  BY <1>1 DEF SessionRow, ProfileRow, CodeRow, DeviceRow, Request, Client
<1>3. browser \in Cookies(n + 1)
  BY <1>2 DEF AccountsType, Cookies
<1>4. req \in [Requests -> Request(n + 1)] /\ cli \in [Codes -> Client(n + 1)]
  BY <1>2 DEF AccountsType
<1>5. ASSUME NEW d \in Table(n), NEW u \in [Identities -> 0..(n + 1)]
      PROVE  [d EXCEPT !.users = u, !.last = n + 1] \in Table(n + 1)
  <2>1. /\ d.sessions \in SUBSET SessionRow(n + 1) /\ d.profiles \in SUBSET ProfileRow(n + 1)
        /\ d.usage \in SUBSET (0..(n + 1))
    BY <1>1, <1>2 DEF Table
  <2>2. /\ d.codes \in [Requests -> CodeRow(n + 1) \cup {NoOne}]
        /\ d.devices \in [Requests -> DeviceRow(n + 1) \cup {NoOne}]
    BY <1>2 DEF Table
  <2> QED
    BY <2>1, <2>2 DEF Table
<1> QED
  BY <1>3, <1>4, <1>5

-----------------------------------------------------------------------------
(* Requests of browsers. *)

\* Steps of a request that leave the challenges and the CLIs alone.
LEMMA BrowserStep ==
  ASSUME AccountsInv, db' \in Table(db.last), db'.challenges = db.challenges,
         browser' \in Cookies(db.last), UNCHANGED cli,
         pending' \in [Servers -> [Codes -> Makers]],
         req' \in [Requests -> Request(db.last)], \A r \in Requests : AimedWell(req'[r])
  PROVE  AccountsInv'
<1>1. db'.last = db.last
  BY DEF Table
<1>2. \A c \in Codes : Paired(c)'
  BY DEF AccountsInv, Paired
<1>3. \A r \in Requests : AimedWell(req[r])'
  BY DEF AimedWell
<1> QED
  BY <1>1, <1>2, <1>3 DEF AccountsInv, AccountsType

LEMMA LoginStep ==
  ASSUME AccountsInv, NEW r \in Requests,
         ReadState(r) \/ DropState(r) \/ FindUser(r) \/ CreateSession(r)
  PROVE  AccountsInv'
<1> DEFINE n == db.last
<1>0. /\ n \in Nat /\ AccountsType(n) /\ db \in Table(n) /\ browser \in Cookies(n)
      /\ req[r] \in Request(n) /\ AimedWell(req[r])
      /\ pending \in [Servers -> [Codes -> Makers]]
  BY DEF AccountsInv, AccountsType
<1>1. CASE ReadState(r)
  <2>1. req[r].at = "login" /\ req[r].who \in Identities
    BY <1>0, <1>1 DEF ReadState, AimedWell, OfBrowser
  <2>2. AimedWell([req[r] EXCEPT !.at = "drop_state"]) /\ "drop_state" \in Steps
    BY <1>0, <2>1 DEF AimedWell, Request, OfBrowser, OnCode, OnChallenge, Steps
  <2>3. req' \in [Requests -> Request(n)] /\ \A x \in Requests : AimedWell(req'[x])
    BY <1>0, <1>1, <2>2, RequestGoes, RequestEnds DEF ReadState
  <2> QED
    BY <1>0, <1>1, <2>3, BrowserStep DEF ReadState
<1>2. CASE DropState(r)
  <2>1. req[r].at = "drop_state" /\ req[r].who \in Identities
    BY <1>0, <1>2 DEF DropState, AimedWell, OfBrowser
  <2>2. AimedWell([req[r] EXCEPT !.at = "github"]) /\ "github" \in Steps
    BY <1>0, <2>1 DEF AimedWell, Request, OfBrowser, OnCode, OnChallenge, Steps
  <2>3. req' \in [Requests -> Request(n)] /\ \A x \in Requests : AimedWell(req'[x])
    BY <1>0, <1>2, <2>2, RequestGoes DEF DropState
  <2>4. db' \in Table(n) /\ db'.challenges = db.challenges
    BY <1>0, <1>2 DEF DropState, Table
  <2> QED
    BY <1>0, <1>2, <2>3, <2>4, BrowserStep DEF DropState
<1>3. CASE FindUser(r)
  <2>1. req[r].at = "github" /\ req[r].who \in Identities
    BY <1>0, <1>3 DEF FindUser, AimedWell, OfBrowser
  <2>2. CASE Answer(r)
    BY <1>0, <1>3, <2>2, RequestEnds, BrowserStep DEF FindUser
  <2>3. ASSUME NEW g \in exchangeGitHub(r), g # NoOne,
               req' = [req EXCEPT ![r].at = "upsert", ![r].user = db.users[g]]
        PROVE  AccountsInv'
    <3>1. g \in Identities
      BY <2>1, <2>3 DEF exchangeGitHub
    <3>2. db.users[g] \in 0..n
      BY <1>0, <3>1 DEF Table
    <3> DEFINE q == [req[r] EXCEPT !.at = "upsert", !.user = db.users[g]]
    <3>3. q \in Request(n) /\ AimedWell(q)
      BY <1>0, <2>1, <3>2 DEF AimedWell, Request, OfBrowser, OnCode, OnChallenge, Steps
    <3>4. req' = [req EXCEPT ![r] = q]
      BY <2>3
    <3>5. req' \in [Requests -> Request(n)] /\ \A x \in Requests : AimedWell(req'[x])
      <4> HIDE DEF q
      <4> QED
        BY <1>0, <3>3, <3>4, RequestMoves
    <3> QED
      BY <1>0, <1>3, <3>5, BrowserStep DEF FindUser
  <2> QED
    BY <1>3, <2>2, <2>3 DEF FindUser
<1>4. CASE CreateSession(r)
  <2>1. req[r].who \in Identities
    BY <1>0, <1>4 DEF CreateSession, AimedWell, OfBrowser
  <2> DEFINE row == [by |-> r, user |-> req[r].user]
  <2>2. row \in SessionRow(n) /\ [user |-> req[r].user, consumed |-> FALSE] \in CodeRow(n)
    BY <1>0 DEF SessionRow, CodeRow, Request, Makers
  <2>3. db' \in Table(n) /\ db'.challenges = db.challenges
    BY <1>0, <1>4, <2>2 DEF CreateSession, Table
  <2>4. browser' \in Cookies(n)
    BY <1>0, <1>4, <2>1, <2>2 DEF CreateSession, Cookies
  <2>5. req' \in [Requests -> Request(n)] /\ \A x \in Requests : AimedWell(req'[x])
    BY <1>0, <1>4, RequestEnds DEF CreateSession
  <2> QED
    BY <1>0, <1>4, <2>3, <2>4, <2>5, BrowserStep DEF CreateSession
<1> QED
  BY <1>1, <1>2, <1>3, <1>4

\* A new user gets the next id.
LEMMA UpsertStep ==
  ASSUME AccountsInv, NEW r \in Requests, UpsertGitHubUser(r)
  PROVE  AccountsInv'
<1> PICK n \in Nat : n = db.last
  BY DEF AccountsInv, AccountsType
<1>0. /\ AccountsType(n) /\ db \in Table(n) /\ browser \in Cookies(n)
      /\ req \in [Requests -> Request(n)] /\ \A x \in Requests : AimedWell(req[x])
      /\ pending \in [Servers -> [Codes -> Makers]] /\ cli \in [Codes -> Client(n)]
  BY DEF AccountsInv, AccountsType
<1>1. req[r].at = "upsert" /\ req[r].who \in Identities
  BY <1>0 DEF UpsertGitHubUser, AimedWell, OfBrowser
<1>2. AimedWell([req[r] EXCEPT !.at = "session"]) /\ "session" \in Steps
  BY <1>0, <1>1 DEF AimedWell, Request, OfBrowser, OnCode, OnChallenge, Steps
<1>3. CASE Go(r, "session") /\ UNCHANGED db
  BY <1>0, <1>2, <1>3, RequestGoes, BrowserStep DEF UpsertGitHubUser
<1>4. CASE Answer(r) /\ UNCHANGED db
  BY <1>0, <1>4, RequestEnds, BrowserStep DEF UpsertGitHubUser
<1>5. CASE /\ db' = [db EXCEPT !.users[req[r].who] = NewId, !.last = NewId]
           /\ req' = [req EXCEPT ![r].at = "session", ![r].user = NewId]
  <2>1. NewId = n + 1
    BY DEF NewId
  <2> DEFINE u == [db.users EXCEPT ![req[r].who] = n + 1]
  <2>2. u \in [Identities -> 0..(n + 1)]
    <3>1. db.users \in [Identities -> 0..n]
      BY <1>0 DEF Table
    <3>2. 0..n \subseteq 0..(n + 1) /\ n + 1 \in 0..(n + 1)
      OBVIOUS
    <3> QED
      BY <3>1, <3>2
  <2>3. db' = [db EXCEPT !.users = u, !.last = n + 1]
    BY <1>5, <2>1
  <2>4. db' \in Table(n + 1)
    <3> HIDE DEF u
    <3> QED
      BY <1>0, <2>2, <2>3, IdsOnlyGrow
  <2>5. db'.last = n + 1 /\ db'.challenges = db.challenges
    BY <1>0, <2>3 DEF Table
  <2> DEFINE q == [req[r] EXCEPT !.at = "session", !.user = n + 1]
  <2>6. q \in Request(n + 1) /\ AimedWell(q)
    <3>1. req \in [Requests -> Request(n + 1)]
      BY <1>0, IdsOnlyGrow
    <3>2. req[r] \in Request(n + 1) /\ n + 1 \in 0..(n + 1)
      BY <3>1
    <3> QED
      BY <1>1, <3>2 DEF AimedWell, Request, OfBrowser, OnCode, OnChallenge, Steps
  <2>7. req' = [req EXCEPT ![r] = q]
    BY <1>5, <2>1
  <2>8. req' \in [Requests -> Request(n + 1)] /\ \A x \in Requests : AimedWell(req'[x])
    <3> HIDE DEF q
    <3> QED
      BY <1>0, <2>6, <2>7, IdsOnlyGrow
  <2>9. AccountsType(n + 1)'
    <3>1. browser' \in Cookies(n + 1) /\ cli' \in [Codes -> Client(n + 1)]
      BY <1>0, IdsOnlyGrow DEF UpsertGitHubUser
    <3>2. pending' \in [Servers -> [Codes -> Makers]]
      BY <1>0 DEF UpsertGitHubUser
    <3>3. \A x \in Requests : AimedWell(req[x])'
      BY <2>8 DEF AimedWell
    <3> QED
      BY <2>4, <2>8, <3>1, <3>2, <3>3 DEF AccountsType
  <2>10. \A c \in Codes : Paired(c)'
    BY <2>5 DEF AccountsInv, Paired, UpsertGitHubUser
  <2> QED
    BY <2>5, <2>9, <2>10 DEF AccountsInv, AccountsType
<1> QED
  BY <1>3, <1>4, <1>5 DEF UpsertGitHubUser

\* A request arrives with a cookie whose row is there, so with an id given out.
LEMMA TakeStep ==
  ASSUME AccountsInv, NEW r \in Requests, NEW kind \in Kinds, NEW g \in Identities,
         NEW s \in Servers, TakeRequest(r, kind, g, s)
  PROVE  AccountsInv'
<1> DEFINE n == db.last
<1>0. /\ n \in Nat /\ AccountsType(n) /\ db \in Table(n) /\ browser \in Cookies(n)
      /\ pending \in [Servers -> [Codes -> Makers]]
  BY DEF AccountsInv, AccountsType
<1>1. PICK t \in Targets(kind) :
        req' = [req EXCEPT ![r] = [at |-> kind, who |-> g, host |-> s, on |-> t,
                  user |-> IF kind \in {"login", "exchange"} THEN 0 ELSE browser[g].user]]
  BY DEF TakeRequest
<1> DEFINE id == IF kind \in {"login", "exchange"} THEN 0 ELSE browser[g].user
           q == [at |-> kind, who |-> g, host |-> s, on |-> t, user |-> id]
<1>2. id \in 0..n
  <2>1. CASE kind \in {"login", "exchange"}
    BY <1>0, <2>1
  <2>2. CASE kind \notin {"login", "exchange"}
    <3>1. browser[g] \in db.sessions
      BY <2>2 DEF TakeRequest, LoggedIn, LookupSession
    <3>2. browser[g] \in SessionRow(n)
      BY <1>0, <3>1 DEF Table
    <3> QED
      BY <2>2, <3>2 DEF SessionRow
  <2> QED
    BY <2>1, <2>2
<1>3. /\ kind \in OnCode \cup {"revoke"} => t \in Requests
      /\ kind \in OnChallenge => t \in Codes
      /\ t \in Requests \cup Codes \cup {NoOne}
  BY <1>1 DEF Targets, Kinds, OnCode, OnChallenge
<1>4. q \in Request(n)
  <2> HIDE DEF id
  <2> QED
    BY <1>2, <1>3 DEF Request, Steps, Kinds
<1>5. AimedWell(q)
  <2> HIDE DEF id
  <2> QED
    BY <1>3 DEF AimedWell
<1>6. req' \in [Requests -> Request(n)] /\ \A x \in Requests : AimedWell(req'[x])
  <2>1. req' = [req EXCEPT ![r] = q]
    BY <1>1
  <2> HIDE DEF q
  <2> QED
    BY <1>0, <1>4, <1>5, <2>1, RequestMoves
<1>7. db' \in Table(n) /\ db'.challenges = db.challenges
  BY <1>0 DEF TakeRequest, Table
<1> QED
  BY <1>0, <1>6, <1>7, BrowserStep DEF TakeRequest

LEMMA ExchangeStep ==
  ASSUME AccountsInv, NEW r \in Requests,
         ReadCode(r) \/ ConsumeCode(r) \/ CreateProfileSession(r)
  PROVE  AccountsInv'
<1> DEFINE n == db.last
<1>0. /\ n \in Nat /\ AccountsType(n) /\ db \in Table(n) /\ browser \in Cookies(n)
      /\ req[r] \in Request(n) /\ AimedWell(req[r])
      /\ pending \in [Servers -> [Codes -> Makers]]
  BY DEF AccountsInv, AccountsType
<1>1. req[r].on \in Requests
  BY <1>0 DEF ReadCode, ConsumeCode, CreateProfileSession, AimedWell, OnCode
<1>2. db.codes[req[r].on] \in CodeRow(n) \cup {NoOne}
  BY <1>0, <1>1 DEF Table
<1>3. CASE ReadCode(r)
  <2>1. CASE Answer(r)
    BY <1>0, <1>3, <2>1, RequestEnds, BrowserStep DEF ReadCode
  <2>2. CASE ~Answer(r)
    <3> DEFINE q == [req[r] EXCEPT !.at = "consume_code", !.user = db.codes[req[r].on].user]
    <3>1. db.codes[req[r].on].user \in 0..n
      BY <1>2, <1>3, <2>2 DEF ReadCode, Usable, CodeRow
    <3>2. q \in Request(n) /\ AimedWell(q)
      BY <1>0, <1>1, <3>1 DEF Request, AimedWell, OfBrowser, OnCode, OnChallenge, Steps
    <3>3. req' = [req EXCEPT ![r] = q]
      BY <1>3, <2>2 DEF ReadCode
    <3>4. req' \in [Requests -> Request(n)] /\ \A x \in Requests : AimedWell(req'[x])
      <4> HIDE DEF q
      <4> QED
        BY <1>0, <3>2, <3>3, RequestMoves
    <3> QED
      BY <1>0, <1>3, <3>4, BrowserStep DEF ReadCode
  <2> QED
    BY <2>1, <2>2
<1>4. CASE ConsumeCode(r)
  <2>1. AimedWell([req[r] EXCEPT !.at = "profile"]) /\ "profile" \in Steps
    BY <1>0, <1>1 DEF AimedWell, Request, OfBrowser, OnCode, OnChallenge, Steps
  <2>2. req' \in [Requests -> Request(n)] /\ \A x \in Requests : AimedWell(req'[x])
    BY <1>0, <1>4, <2>1, RequestGoes, RequestEnds DEF ConsumeCode
  <2>3. db' \in Table(n) /\ db'.challenges = db.challenges
    BY <1>0, <1>1, <1>2, <1>4 DEF ConsumeCode, Usable, Table, CodeRow
  <2> QED
    BY <1>0, <1>4, <2>2, <2>3, BrowserStep DEF ConsumeCode
<1>5. CASE CreateProfileSession(r)
  <2>1. [user |-> req[r].user, code |-> req[r].on, by |-> r] \in ProfileRow(n)
    BY <1>0, <1>1 DEF ProfileRow, Request
  <2>2. db' \in Table(n) /\ db'.challenges = db.challenges
    BY <1>0, <1>5, <2>1 DEF CreateProfileSession, Table
  <2>3. req' \in [Requests -> Request(n)] /\ \A x \in Requests : AimedWell(req'[x])
    BY <1>0, <1>5, RequestEnds DEF CreateProfileSession
  <2> QED
    BY <1>0, <1>5, <2>2, <2>3, BrowserStep DEF CreateProfileSession
<1> QED
  BY <1>3, <1>4, <1>5

\* What is deleted for a user stays a table of the same ids.
LEMMA WithoutUser ==
  ASSUME NEW S, NEW D, NEW f \in [D -> S \cup {NoOne}], NEW u
  PROVE  /\ Without(u, f) \in [D -> S \cup {NoOne}]
         /\ \A x \in D : Without(u, f)[x] # NoOne => Without(u, f)[x] = f[x]
  BY DEF Without

LEMMA OwnerStep ==
  ASSUME AccountsInv, NEW r \in Requests,
         Revoke(r) \/ DeleteSession(r) \/ DeleteUsageRows(r)
  PROVE  AccountsInv'
<1> DEFINE n == db.last
<1>0. /\ n \in Nat /\ AccountsType(n) /\ db \in Table(n) /\ browser \in Cookies(n)
      /\ req[r] \in Request(n) /\ AimedWell(req[r])
      /\ pending \in [Servers -> [Codes -> Makers]]
  BY DEF AccountsInv, AccountsType
<1>1. req' \in [Requests -> Request(n)] /\ \A x \in Requests : AimedWell(req'[x])
  BY <1>0, RequestEnds DEF Revoke, DeleteSession, DeleteUsageRows
<1>2. CASE Revoke(r)
  <2>1. req[r].on \in Requests
    BY <1>0, <1>2 DEF Revoke, AimedWell
  <2>2. db.devices[req[r].on] \in DeviceRow(n) \cup {NoOne}
    BY <1>0, <2>1 DEF Table
  <2>3. db' \in Table(n) /\ db'.challenges = db.challenges
    BY <1>0, <1>2, <2>1, <2>2 DEF Revoke, Table, DeviceRow
  <2> QED
    BY <1>0, <1>1, <1>2, <2>3, BrowserStep DEF Revoke
<1>3. CASE DeleteSession(r)
  <2>1. db' \in Table(n) /\ db'.challenges = db.challenges
    BY <1>0, <1>3 DEF DeleteSession, Table
  <2>2. browser' \in Cookies(n)
    BY <1>0, <1>3 DEF DeleteSession, Cookies
  <2> QED
    BY <1>0, <1>1, <1>3, <2>1, <2>2, BrowserStep DEF DeleteSession
<1>4. CASE DeleteUsageRows(r)
  <2>1. Without(req[r].user, db.codes) \in [Requests -> CodeRow(n) \cup {NoOne}]
    BY <1>0, WithoutUser DEF Table
  <2>2. db' \in Table(n) /\ db'.challenges = db.challenges
    BY <1>0, <1>4, <2>1 DEF DeleteUsageRows, DeleteUsage, Table
  <2> QED
    BY <1>0, <1>1, <1>4, <2>2, BrowserStep DEF DeleteUsageRows
<1> QED
  BY <1>2, <1>3, <1>4

LEMMA DeleteAccountStep ==
  ASSUME AccountsInv, NEW r \in Requests, DeleteAccount(r)
  PROVE  AccountsInv'
<1> PICK n \in Nat : n = db.last
  BY DEF AccountsInv, AccountsType
<1>0. /\ AccountsType(n) /\ db \in Table(n) /\ browser \in Cookies(n)
      /\ pending \in [Servers -> [Codes -> Makers]] /\ cli \in [Codes -> Client(n)]
  BY DEF AccountsInv, AccountsType
<1> DEFINE u == req[r].user
<1>1. req' \in [Requests -> Request(n)] /\ \A x \in Requests : AimedWell(req'[x])
  BY <1>0, RequestEnds DEF DeleteAccount
<1>2. /\ Without(u, db.codes) \in [Requests -> CodeRow(n) \cup {NoOne}]
      /\ Without(u, db.devices) \in [Requests -> DeviceRow(n) \cup {NoOne}]
      /\ Without(u, db.challenges) \in [Codes -> Challenge \cup {NoOne}]
  BY <1>0, WithoutUser DEF Table
<1>3. [g \in Identities |-> IF db.users[g] = u THEN 0 ELSE db.users[g]] \in [Identities -> 0..n]
  <2>1. db.users \in [Identities -> 0..n]
    BY <1>0 DEF Table
  <2> QED
    BY <2>1
<1>4. db' \in Table(n) /\ db'.challenges = Without(u, db.challenges)
  BY <1>0, <1>2, <1>3 DEF DeleteAccount, Table
<1>5. browser' \in Cookies(n)
  BY <1>0 DEF DeleteAccount, Cookies
<1>6. \A c \in Codes : Paired(c)'
  <2>1. db.challenges \in [Codes -> Challenge \cup {NoOne}]
    BY <1>0 DEF Table
  <2>2. \A c \in Codes : db'.challenges[c] # NoOne => db'.challenges[c] = db.challenges[c]
    BY <1>4, <2>1 DEF Without
  <2> QED
    BY <2>2 DEF DeleteAccount, AccountsInv, Paired
<1>7. AccountsType(n)'
  BY <1>0, <1>1, <1>4, <1>5 DEF DeleteAccount, AccountsType, AimedWell
<1>8. db'.last = n
  BY <1>4 DEF Table
<1> QED
  BY <1>6, <1>7, <1>8 DEF AccountsInv

-----------------------------------------------------------------------------
(* Challenges and CLIs. *)

\* A challenge that is not there or undecided is decided one way.
LEMMA DecideStep ==
  ASSUME AccountsInv, NEW r \in Requests, Refuse(r) \/ ConsumePair(r)
  PROVE  AccountsInv'
<1> PICK n \in Nat : n = db.last
  BY DEF AccountsInv, AccountsType
<1>0. /\ AccountsType(n) /\ db \in Table(n) /\ browser \in Cookies(n)
      /\ pending \in [Servers -> [Codes -> Makers]] /\ cli \in [Codes -> Client(n)]
      /\ req[r] \in Request(n) /\ AimedWell(req[r])
  BY DEF AccountsInv, AccountsType
<1> DEFINE k == req[r].on
<1>1. k \in Codes /\ req[r].user \in Nat
  BY <1>0 DEF Refuse, ConsumePair, AimedWell, OnChallenge, Request
<1>2. db.challenges \in [Codes -> Challenge \cup {NoOne}]
  BY <1>0 DEF Table
<1>3. req' \in [Requests -> Request(n)] /\ \A x \in Requests : AimedWell(req'[x])
  <2>1. CASE Refuse(r)
    BY <1>0, <2>1, RequestEnds DEF Refuse
  <2>2. CASE ConsumePair(r)
    <3>1. AimedWell([req[r] EXCEPT !.at = "pend"]) /\ "pend" \in Steps
      BY <1>0, <2>2 DEF ConsumePair, AimedWell, Request, OfBrowser, OnCode, OnChallenge, Steps
    <3> QED
      BY <1>0, <2>2, <3>1, RequestGoes DEF ConsumePair
  <2> QED
    BY <2>1, <2>2
<1>4. PICK ch \in Challenge \cup {NoOne} :
        /\ db' = [db EXCEPT !.challenges[k] = ch]
        /\ \/ ch = db.challenges[k]
           \/ Undecided(db.challenges[k]) /\ ~(ch.consumed /\ ch.denied)
  <2>1. CASE ~Undecided(db.challenges[k])
    BY <1>1, <1>2, <2>1 DEF Refuse, ConsumePair, DenyPair
  <2>2. CASE Undecided(db.challenges[k])
    <3>1. db.challenges[k] \in Challenge
      BY <1>1, <1>2, <2>2 DEF Undecided
    <3>2. CASE Refuse(r)
      <4> DEFINE ch == [db.challenges[k] EXCEPT !.denied = TRUE, !.user = req[r].user]
      <4>1. ch \in Challenge /\ ch.denied /\ ~ch.consumed
        BY <1>1, <2>2, <3>1 DEF Challenge, Undecided
      <4>2. db' = [db EXCEPT !.challenges[k] = ch]
        BY <2>2, <3>2 DEF Refuse, DenyPair
      <4> HIDE DEF ch
      <4> QED
        BY <2>2, <4>1, <4>2
    <3>3. CASE ConsumePair(r)
      <4> DEFINE ch == [db.challenges[k] EXCEPT !.consumed = TRUE, !.user = req[r].user]
      <4>1. ch \in Challenge /\ ch.consumed /\ ~ch.denied
        BY <1>1, <2>2, <3>1 DEF Challenge, Undecided
      <4>2. db' = [db EXCEPT !.challenges[k] = ch]
        BY <2>2, <3>3 DEF ConsumePair
      <4> HIDE DEF ch
      <4> QED
        BY <2>2, <4>1, <4>2
    <3> QED
      BY <3>2, <3>3
  <2> QED
    BY <2>1, <2>2
<1>5. db' \in Table(n) /\ db'.last = n /\ db'.challenges = [db.challenges EXCEPT ![k] = ch]
  BY <1>0, <1>1, <1>4 DEF Table
<1>6. UNCHANGED <<browser, cli>> /\ pending' \in [Servers -> [Codes -> Makers]]
  BY <1>0 DEF Refuse, ConsumePair
<1>7. \A c \in Codes : Paired(c)'
  <2> SUFFICES ASSUME NEW c \in Codes PROVE Paired(c)'
    OBVIOUS
  <2>1. Paired(c)
    BY DEF AccountsInv
  <2>2. CASE c # k \/ ch = db.challenges[k]
    BY <1>2, <1>5, <1>6, <2>1, <2>2 DEF Paired
  <2>3. CASE c = k /\ ch # db.challenges[k]
    <3>1. db'.challenges[c] = ch
      BY <1>2, <1>5, <2>3
    <3>2. Undecided(db.challenges[c]) /\ ~(ch.consumed /\ ch.denied)
      BY <1>4, <2>3
    <3>3. cli[c].token = NoOne
      BY <2>1, <3>2 DEF Paired, Undecided
    <3> QED
      BY <1>6, <2>1, <3>1, <3>2, <3>3 DEF Paired
  <2> QED
    BY <2>2, <2>3
<1>8. AccountsType(n)'
  BY <1>0, <1>3, <1>5, <1>6 DEF AccountsType, AimedWell
<1> QED
  BY <1>5, <1>7, <1>8 DEF AccountsInv

LEMMA AnswerPairStep ==
  ASSUME AccountsInv, NEW r \in Requests,
         ReadChallenge(r) \/ InsertDevice(r) \/ PutPending(r)
  PROVE  AccountsInv'
<1> DEFINE n == db.last
<1>0. /\ n \in Nat /\ AccountsType(n) /\ db \in Table(n) /\ browser \in Cookies(n)
      /\ req[r] \in Request(n) /\ AimedWell(req[r])
      /\ pending \in [Servers -> [Codes -> Makers]]
  BY DEF AccountsInv, AccountsType
<1>1. req[r].on \in Codes /\ req[r].host \in Servers /\ req[r].at \in OnChallenge
  BY <1>0 DEF ReadChallenge, InsertDevice, PutPending, AimedWell, OnChallenge
<1>2. ASSUME NEW at \in {"insert", "refuse", "consume_pair"}
      PROVE  AimedWell([req[r] EXCEPT !.at = at]) /\ at \in Steps
  BY <1>0, <1>1 DEF AimedWell, Request, OfBrowser, OnCode, OnChallenge, Steps
<1>3. CASE ReadChallenge(r)
  <2>1. req' \in [Requests -> Request(n)] /\ \A x \in Requests : AimedWell(req'[x])
    BY <1>0, <1>2, <1>3, RequestGoes, RequestEnds DEF ReadChallenge
  <2> QED
    BY <1>0, <1>3, <2>1, BrowserStep DEF ReadChallenge
<1>4. CASE InsertDevice(r)
  <2>1. req' \in [Requests -> Request(n)] /\ \A x \in Requests : AimedWell(req'[x])
    BY <1>0, <1>2, <1>4, RequestGoes DEF InsertDevice
  <2>2. [user |-> req[r].user, revoked |-> FALSE, code |-> req[r].on] \in DeviceRow(n)
    BY <1>0, <1>1 DEF DeviceRow, Request
  <2>3. db' \in Table(n) /\ db'.challenges = db.challenges
    BY <1>0, <1>4, <2>2 DEF InsertDevice, Table
  <2> QED
    BY <1>0, <1>4, <2>1, <2>3, BrowserStep DEF InsertDevice
<1>5. CASE PutPending(r)
  <2>1. req' \in [Requests -> Request(n)] /\ \A x \in Requests : AimedWell(req'[x])
    BY <1>0, <1>5, RequestEnds DEF PutPending
  <2>2. pending' \in [Servers -> [Codes -> Makers]]
    BY <1>0, <1>1, <1>5 DEF PutPending, Makers
  <2> QED
    BY <1>0, <1>5, <2>1, <2>2, BrowserStep DEF PutPending
<1> QED
  BY <1>3, <1>4, <1>5

\* Steps of a CLI and of the clock.
LEMMA ClientStep ==
  ASSUME AccountsInv, db' \in Table(db.last), UNCHANGED <<browser, req>>,
         pending' \in [Servers -> [Codes -> Makers]],
         cli' \in [Codes -> Client(db.last)], \A c \in Codes : Paired(c)'
  PROVE  AccountsInv'
<1>1. db'.last = db.last
  BY DEF Table
<1>2. /\ req' \in [Requests -> Request(db.last)]
      /\ \A r \in Requests : AimedWell(req[r])'
  BY DEF AccountsInv, AccountsType, AimedWell
<1> QED
  BY <1>1, <1>2 DEF AccountsInv, AccountsType

LEMMA ChallengeStep ==
  ASSUME AccountsInv, NEW k \in Codes, PairStart(k) \/ ExpireChallenge(k)
  PROVE  AccountsInv'
<1> DEFINE n == db.last
<1>0. /\ n \in Nat /\ db \in Table(n) /\ cli \in [Codes -> Client(n)]
      /\ pending \in [Servers -> [Codes -> Makers]]
      /\ db.challenges \in [Codes -> Challenge \cup {NoOne}]
  BY DEF AccountsInv, AccountsType, Table
<1>1. CASE PairStart(k)
  <2> DEFINE ch == [open |-> TRUE, consumed |-> FALSE, denied |-> FALSE, user |-> 0]
  <2>1. ch \in Challenge
    BY DEF Challenge
  <2>2. db' \in Table(n) /\ db'.challenges = [db.challenges EXCEPT ![k] = ch]
    BY <1>0, <1>1, <2>1 DEF PairStart, Table
  <2>3. cli' \in [Codes -> Client(n)]
    BY <1>0, <1>1 DEF PairStart, Client
  <2>4. ASSUME NEW c \in Codes PROVE Paired(c)'
    <3>1. Paired(c)
      BY DEF AccountsInv
    <3>2. CASE c = k
      BY <1>0, <1>1, <2>2, <3>1, <3>2 DEF PairStart, Paired, Client
    <3>3. CASE c # k
      BY <1>0, <1>1, <2>2, <3>1, <3>3 DEF PairStart, Paired
    <3> QED
      BY <3>2, <3>3
  <2> QED
    BY <1>0, <1>1, <2>2, <2>3, <2>4, ClientStep DEF PairStart
<1>2. CASE ExpireChallenge(k)
  <2> DEFINE ch == [db.challenges[k] EXCEPT !.open = FALSE]
  <2>1. db.challenges[k] \in Challenge
    BY <1>0, <1>2 DEF ExpireChallenge
  <2>2. ch \in Challenge /\ ch.consumed = db.challenges[k].consumed /\ ch.denied = db.challenges[k].denied
    BY <2>1 DEF Challenge
  <2>3. db' \in Table(n) /\ db'.challenges = [db.challenges EXCEPT ![k] = ch]
    BY <1>0, <1>2, <2>2 DEF ExpireChallenge, Table
  <2>4. ASSUME NEW c \in Codes PROVE Paired(c)'
    <3>1. Paired(c) /\ (c = k => db'.challenges[c] = ch) /\ (c # k => db'.challenges[c] = db.challenges[c])
      BY <1>0, <2>3 DEF AccountsInv
    <3> QED
      BY <1>2, <2>2, <3>1 DEF ExpireChallenge, Paired
  <2> QED
    BY <1>0, <1>2, <2>3, <2>4, ClientStep DEF ExpireChallenge
<1> QED
  BY <1>1, <1>2

\* The token of an approved challenge goes with a consumed one.
LEMMA PollStep ==
  ASSUME AccountsInv, NEW k \in Codes,
         GiveUp(k) \/ \E s \in Servers, arrives \in BOOLEAN : Poll(k, s, arrives)
  PROVE  AccountsInv'
<1> DEFINE n == db.last
<1>0. /\ n \in Nat /\ db \in Table(n) /\ cli \in [Codes -> Client(n)]
      /\ pending \in [Servers -> [Codes -> Makers]]
  BY DEF AccountsInv, AccountsType
<1>1. CASE GiveUp(k)
  <2>1. cli' \in [Codes -> Client(n)]
    BY <1>0, <1>1 DEF GiveUp, Client
  <2>2. ASSUME NEW c \in Codes PROVE Paired(c)'
    BY <1>0, <1>1 DEF AccountsInv, GiveUp, Paired, Client
  <2> QED
    BY <1>0, <1>1, <2>1, <2>2, ClientStep DEF GiveUp
<1>2. ASSUME NEW s \in Servers, NEW arrives \in BOOLEAN, Poll(k, s, arrives) PROVE AccountsInv'
  <2>1. pending[s][k] \in Makers /\ Taken(k, s) \in Makers
    BY <1>0 DEF Taken, Makers
  <2>2. pending' \in [Servers -> [Codes -> Makers]]
    BY <1>0, <1>2, <2>1 DEF Poll
  <2>3. cli' \in [Codes -> Client(n)]
    <3>1. \/ cli' = cli
          \/ cli' = [cli EXCEPT ![k].at = "in", ![k].token = pending[s][k]]
          \/ cli' = [cli EXCEPT ![k].at = "failed"]
      BY <1>2 DEF Poll
    <3>2. cli[k] \in Client(n)
      BY <1>0
    <3>3. /\ [cli[k] EXCEPT !.at = "in", !.token = pending[s][k]] \in Client(n)
          /\ [cli[k] EXCEPT !.at = "failed"] \in Client(n)
      BY <2>1, <3>2 DEF Client
    <3> QED
      BY <1>0, <3>1, <3>3
  <2>4. ASSUME NEW c \in Codes PROVE Paired(c)'
    <3>1. Paired(c) /\ Paired(k)
      BY DEF AccountsInv
    <3>2. CASE cli'[c] = cli[c]
      BY <1>2, <3>1, <3>2 DEF Poll, Paired
    <3>3. CASE cli'[c] # cli[c]
      <4>1. c = k /\ cli[k].token = NoOne
        BY <1>0, <1>2, <3>1, <3>3 DEF Poll, Paired
      <4>2. CASE Status(k, s) = "approved"
        <5>1. db.challenges[k] # NoOne /\ db.challenges[k].consumed
          BY <4>2 DEF Status
        <5>2. cli'[k].at = "in"
          BY <1>0, <1>2, <3>3, <4>1, <4>2 DEF Poll, Client
        <5> QED
          BY <1>2, <3>1, <4>1, <5>1, <5>2 DEF Poll, Paired
      <4>3. CASE Status(k, s) # "approved"
        <5>1. cli'[k].token = NoOne
          BY <1>0, <1>2, <4>1, <4>3 DEF Poll, Client
        <5> QED
          BY <1>2, <3>1, <4>1, <5>1 DEF Poll, Paired
      <4> QED
        BY <4>2, <4>3
    <3> QED
      BY <3>2, <3>3
  <2> QED
    BY <1>0, <1>2, <2>2, <2>3, <2>4, ClientStep DEF Poll
<1> QED
  BY <1>1, <1>2

\* A device sends a batch, or logs out.
LEMMA DeviceStep ==
  ASSUME AccountsInv, NEW k \in Codes,
         \/ BeginSync(k) \/ SyncBatch(k)
         \/ \E works, answered \in BOOLEAN : Logout(k, works, answered)
  PROVE  AccountsInv'
<1> DEFINE n == db.last
<1>0. /\ n \in Nat /\ db \in Table(n) /\ cli \in [Codes -> Client(n)] /\ cli[k] \in Client(n)
      /\ pending \in [Servers -> [Codes -> Makers]]
  BY DEF AccountsInv, AccountsType
<1>1. ASSUME NEW q \in Client(n), q.token = cli[k].token, q.at \in {"in", "sync", "out"},
             cli' = [cli EXCEPT ![k] = q], db'.challenges = db.challenges
      PROVE  cli' \in [Codes -> Client(n)] /\ \A c \in Codes : Paired(c)'
  BY <1>0, <1>1 DEF AccountsInv, Paired
<1>2. CASE BeginSync(k)
  <2> DEFINE d == cli[k].token
             q == [cli[k] EXCEPT !.at = "sync", !.user = db.devices[d].user]
  <2>1. d \in Requests /\ db.devices[d] # NoOne
    BY <1>0, <1>2 DEF BeginSync, TokenAccepted, Client, Makers
  <2>2. db.devices[d] \in DeviceRow(n)
    BY <1>0, <2>1 DEF Table
  <2>3. q \in Client(n) /\ q.token = cli[k].token /\ q.at = "sync"
    BY <1>0, <2>2 DEF Client, DeviceRow
  <2>4. cli' = [cli EXCEPT ![k] = q]
    BY <1>2 DEF BeginSync
  <2>5. cli' \in [Codes -> Client(n)] /\ \A c \in Codes : Paired(c)'
    <3> HIDE DEF q
    <3> QED
      BY <1>1, <1>2, <2>3, <2>4 DEF BeginSync
  <2> QED
    BY <1>0, <1>2, <2>5, ClientStep DEF BeginSync
<1>3. CASE SyncBatch(k)
  <2> DEFINE q == [cli[k] EXCEPT !.at = "in"]
  <2>1. q \in Client(n) /\ q.token = cli[k].token /\ q.at = "in" /\ cli[k].user \in 0..n
    BY <1>0 DEF Client
  <2>2. db' \in Table(n) /\ db'.challenges = db.challenges
    BY <1>0, <1>3, <2>1 DEF SyncBatch, Table
  <2>3. cli' = [cli EXCEPT ![k] = q]
    BY <1>3 DEF SyncBatch
  <2>4. cli' \in [Codes -> Client(n)] /\ \A c \in Codes : Paired(c)'
    <3> HIDE DEF q
    <3> QED
      BY <1>1, <2>1, <2>2, <2>3
  <2> QED
    BY <1>0, <1>3, <2>2, <2>4, ClientStep DEF SyncBatch
<1>4. ASSUME NEW works \in BOOLEAN, NEW answered \in BOOLEAN, Logout(k, works, answered)
      PROVE  AccountsInv'
  <2>1. db' \in Table(n) /\ db'.challenges = db.challenges
    <3> DEFINE d == cli[k].token
    <3>1. CASE ~(works /\ TokenAccepted(d))
      BY <1>0, <1>4, <3>1 DEF Logout
    <3>2. CASE works /\ TokenAccepted(d)
      <4>1. d \in Requests /\ db.devices[d] \in DeviceRow(n)
        BY <1>0, <3>2 DEF TokenAccepted, Client, Makers, Table
      <4>2. [db.devices[d] EXCEPT !.revoked = TRUE] \in DeviceRow(n)
        BY <4>1 DEF DeviceRow
      <4> QED
        BY <1>0, <1>4, <3>2, <4>2 DEF Logout, Table
    <3> QED
      BY <3>1, <3>2
  <2>2. CASE cli' = cli
    BY <1>0, <1>4, <2>1, <2>2, ClientStep DEF Logout, AccountsInv, Paired
  <2>3. CASE cli' = [cli EXCEPT ![k].at = "out"]
    <3> DEFINE q == [cli[k] EXCEPT !.at = "out"]
    <3>1. q \in Client(n) /\ q.token = cli[k].token /\ q.at = "out"
      BY <1>0 DEF Client
    <3>2. cli' = [cli EXCEPT ![k] = q]
      BY <2>3
    <3>3. cli' \in [Codes -> Client(n)] /\ \A c \in Codes : Paired(c)'
      <4> HIDE DEF q
      <4> QED
        BY <1>1, <2>1, <3>1, <3>2
    <3> QED
      BY <1>0, <1>4, <2>1, <3>3, ClientStep DEF Logout
  <2> QED
    BY <1>4, <2>2, <2>3 DEF Logout
<1> QED
  BY <1>2, <1>3, <1>4

LEMMA RestartStep ==
  ASSUME AccountsInv, NEW s \in Servers, Restart(s)
  PROVE  AccountsInv'
<1> DEFINE n == db.last
<1>0. /\ n \in Nat /\ AccountsType(n)
      /\ req \in [Requests -> Request(n)] /\ \A r \in Requests : AimedWell(req[r])
  BY DEF AccountsInv, AccountsType
<1>1. ASSUME NEW r \in Requests
      PROVE  [req[r] EXCEPT !.at = "done"] \in Request(n) /\ AimedWell([req[r] EXCEPT !.at = "done"])
  BY <1>0 DEF Request, AimedWell, OfBrowser, OnCode, OnChallenge, Steps
<1>2. req' \in [Requests -> Request(n)] /\ \A r \in Requests : AimedWell(req'[r])
  BY <1>0, <1>1 DEF Restart
<1>3. pending' \in [Servers -> [Codes -> Makers]]
  BY <1>0 DEF Restart, AccountsType, Makers
<1> QED
  BY <1>0, <1>2, <1>3, BrowserStep DEF Restart, AccountsType

-----------------------------------------------------------------------------
LEMMA AccountsInvStep == AccountsInv /\ [AccountsNext]_accountVars => AccountsInv'
<1> SUFFICES ASSUME AccountsInv, [AccountsNext]_accountVars PROVE AccountsInv'
  OBVIOUS
<1>1. CASE Browsers
  <2> PICK r \in Requests :
        \/ \E kind \in Kinds, g \in Identities, s \in Servers : TakeRequest(r, kind, g, s)
        \/ ReadState(r) \/ DropState(r) \/ FindUser(r) \/ UpsertGitHubUser(r) \/ CreateSession(r)
        \/ ReadCode(r) \/ ConsumeCode(r) \/ CreateProfileSession(r)
        \/ ReadChallenge(r) \/ Refuse(r) \/ InsertDevice(r) \/ ConsumePair(r) \/ PutPending(r)
        \/ Revoke(r) \/ DeleteSession(r) \/ DeleteUsageRows(r) \/ DeleteAccount(r)
    BY <1>1 DEF Browsers
  <2> QED
    BY TakeStep, LoginStep, UpsertStep, ExchangeStep, AnswerPairStep, DecideStep, OwnerStep, DeleteAccountStep
<1>2. CASE PollersAndDevices
  BY <1>2, ChallengeStep, PollStep, DeviceStep DEF PollersAndDevices
<1>3. CASE \E s \in Servers : Restart(s)
  BY <1>3, RestartStep
<1>4. CASE UNCHANGED accountVars
  BY <1>4, ClientStep DEF accountVars, AccountsInv, AccountsType, Paired
<1> QED
  BY <1>1, <1>2, <1>3, <1>4 DEF AccountsNext

THEOREM AccountsInvAlways == AccountsSpec => []AccountsInv
<1> QED
  BY AccountsInvInit, AccountsInvStep, PTL DEF AccountsSpec

\* The CLI of a challenge that its owner refused never gets a token, however
\* many answers to it are under way in however many processes.
THEOREM RefusedStaysOut == AccountsSpec => []RefusedGetsNoToken
<1>1. AccountsInv => RefusedGetsNoToken
  BY DEF AccountsInv, Paired, RefusedGetsNoToken
<1> QED
  BY <1>1, AccountsInvAlways, PTL

\* Only these steps touch the users.
LEMMA UsersChange ==
  ASSUME AccountsInv, [AccountsNext]_accountVars, db'.users # db.users
  PROVE  \E r \in Requests : UpsertGitHubUser(r) \/ DeleteAccount(r)
<1>0. db \in Table(db.last)
  BY DEF AccountsInv, AccountsType
<1>2. CASE UNCHANGED accountVars \/ \E s \in Servers : Restart(s)
  BY <1>2 DEF accountVars, Restart
<1>3. ASSUME NEW c \in Codes,
        \/ PairStart(c) \/ ExpireChallenge(c) \/ GiveUp(c) \/ BeginSync(c) \/ SyncBatch(c)
        \/ \E s \in Servers, arrives \in BOOLEAN : Poll(c, s, arrives)
        \/ \E works, answered \in BOOLEAN : Logout(c, works, answered)
      PROVE  FALSE
  <2>1. ~(GiveUp(c) \/ BeginSync(c)) /\ ~\E s \in Servers, arrives \in BOOLEAN : Poll(c, s, arrives)
    BY DEF GiveUp, BeginSync, Poll
  <2>2. ~(PairStart(c) \/ ExpireChallenge(c))
    BY <1>0 DEF PairStart, ExpireChallenge, Table
  <2>3. ~SyncBatch(c)
    BY <1>0 DEF SyncBatch, Table
  <2>4. ~\E works, answered \in BOOLEAN : Logout(c, works, answered)
    BY <1>0 DEF Logout, Table
  <2> QED
    BY <1>3, <2>1, <2>2, <2>3, <2>4
<1>4. ASSUME NEW r \in Requests
      PROVE  /\ ~(ReadState(r) \/ FindUser(r) \/ ReadCode(r) \/ ReadChallenge(r) \/ PutPending(r))
             /\ ~\E kind \in Kinds, g \in Identities, s \in Servers : TakeRequest(r, kind, g, s)
             /\ ~(DropState(r) \/ CreateSession(r) \/ ConsumeCode(r) \/ CreateProfileSession(r))
             /\ ~(Refuse(r) \/ InsertDevice(r) \/ ConsumePair(r))
             /\ ~(Revoke(r) \/ DeleteSession(r) \/ DeleteUsageRows(r))
  <2>1. ~(ReadState(r) \/ FindUser(r) \/ ReadCode(r) \/ ReadChallenge(r) \/ PutPending(r))
    BY DEF ReadState, FindUser, ReadCode, ReadChallenge, PutPending
  <2>2. ~\E kind \in Kinds, g \in Identities, s \in Servers : TakeRequest(r, kind, g, s)
    BY <1>0 DEF TakeRequest, Table
  <2>3. ~(DropState(r) \/ CreateSession(r) \/ ConsumeCode(r) \/ CreateProfileSession(r))
    BY <1>0 DEF DropState, CreateSession, ConsumeCode, CreateProfileSession, Table
  <2>4. ~(Refuse(r) \/ InsertDevice(r) \/ ConsumePair(r))
    BY <1>0 DEF Refuse, InsertDevice, ConsumePair, Table
  <2>5. ~(Revoke(r) \/ DeleteSession(r) \/ DeleteUsageRows(r))
    BY <1>0 DEF Revoke, DeleteSession, DeleteUsageRows, DeleteUsage, Table
  <2> QED
    BY <2>1, <2>2, <2>3, <2>4, <2>5
<1> QED
  BY <1>2, <1>3, <1>4 DEF AccountsNext, Browsers, PollersAndDevices

\* A user row that is new has no usage, session or device in any table: every
\* row a request under way can still write carries an id given out before.
THEOREM NewAccountsStartEmpty == AccountsSpec => NewAccountIsEmpty
<1> DEFINE Empty(g) ==
      db.users[g] = 0 /\ db'.users[g] # 0 =>
        LET u == db'.users[g] IN
        /\ u \notin db.usage
        /\ \A s \in db.sessions \cup db.profiles : s.user # u
        /\ \A r \in Requests : db.devices[r] # NoOne => db.devices[r].user # u
<1>1. ASSUME AccountsInv, [AccountsNext]_accountVars, NEW g \in Identities PROVE Empty(g)
  <2>0. db.last \in Nat /\ db \in Table(db.last)
    BY <1>1 DEF AccountsInv, AccountsType
  <2>1. ASSUME NEW r \in Requests, UpsertGitHubUser(r) PROVE Empty(g)
    <3>1. db' = db \/ db' = [db EXCEPT !.users[req[r].who] = db.last + 1, !.last = db.last + 1]
      BY <2>1 DEF UpsertGitHubUser, NewId
    <3>2. db'.users[g] \in {db.users[g], db.last + 1}
      BY <2>0, <3>1 DEF Table
    <3>3. /\ \A i \in db.usage : i # db.last + 1
          /\ \A s \in db.sessions \cup db.profiles : s.user # db.last + 1
          /\ \A r1 \in Requests : db.devices[r1] # NoOne => db.devices[r1].user # db.last + 1
      <4>1. \A i \in 0..db.last : i # db.last + 1
        BY <2>0
      <4> QED
        BY <2>0, <4>1 DEF Table, SessionRow, ProfileRow, DeviceRow
    <3> QED
      BY <3>2, <3>3
  <2>2. ASSUME NEW r \in Requests, DeleteAccount(r) PROVE Empty(g)
    BY <2>0, <2>2 DEF DeleteAccount, Table
  <2>3. CASE db'.users = db.users
    BY <2>3
  <2> QED
    BY <1>1, <2>1, <2>2, <2>3, UsersChange
<1>2. AccountsInv /\ [AccountsNext]_accountVars => [\A g \in Identities : Empty(g)]_accountVars
  BY <1>1
<1> QED
  BY <1>2, AccountsInvAlways, PTL DEF AccountsSpec, NewAccountIsEmpty

-----------------------------------------------------------------------------
(* A machine that left the board through its dashboard is forgotten there,    *)
(* for every crowd, floor, number of scans, commands, lost calls and          *)
(* restarts, but for what other processes upload and what was given up and    *)
(* comes late.  The row is empty when the service has confirmed the leave;    *)
(* what keeps it so is commMu, which keeps a scan from uploading between the  *)
(* answer and the switch, and the switch itself, in the file and in the       *)
(* client that the process keeps.                                             *)

\* Records and functions have the fields the steps replace.
Shaped ==
  /\ store = [days |-> store.days, hits |-> store.hits]
  /\ store.days = [p \in Ids |-> store.days[p]]
  /\ store.days[Me] = [d \in Periods |-> store.days[Me][d]]
  /\ client = [made |-> client.made, enabled |-> client.enabled, cache |-> client.cache]
  /\ dash = [at |-> dash.at, agg |-> dash.agg, today |-> dash.today]
  /\ post = [at |-> post.at, on |-> post.on]
  /\ post.on \in BOOLEAN /\ client.enabled \in BOOLEAN /\ left \in BOOLEAN
  /\ \A m \in late : m.kind \in {"usage", "leave"}

Uploads == {"put", "today", "all"}
Locked ==
  /\ commMu = "post" <=> post.at \in {"leave", "write"}
  /\ commMu = "scan" <=> dash.at \in Uploads

SwitchedOff == left => config = "off" /\ ~client.enabled /\ dash.at \notin Uploads

Forgotten == Leaving => OnlyStrays

CommunityInv == Shaped /\ Locked /\ SwitchedOff /\ Forgotten

-----------------------------------------------------------------------------
(* Calls. *)

LEMMA LeaveForgets ==
  ASSUME Shaped
  PROVE  /\ LeaveStore(store).days[Me] = NoDays
         /\ LeaveStore(store).days[Me] = [d \in Periods |-> LeaveStore(store).days[Me][d]]
         /\ LeaveStore(store).days = [p \in Ids |-> LeaveStore(store).days[p]]
         /\ LeaveStore(store) = [days |-> LeaveStore(store).days, hits |-> LeaveStore(store).hits]
<1>1. Me \in Ids
  BY DEF Ids
<1> QED
  BY <1>1 DEF LeaveStore, Shaped, NoDays

LEMMA PutKeepsShape ==
  ASSUME Shaped, NEW u, NEW s \in PutUsage(store, u)
  PROVE  /\ s = [days |-> s.days, hits |-> s.hits]
         /\ s.days = [p \in Ids |-> s.days[p]]
         /\ s.days[Me] = [d \in Periods |-> s.days[Me][d]]
         /\ \A d \in Periods : s.days[Me][d] = store.days[Me][d] \/ (d = u.day /\ s.days[Me][d] = u.tokens)
<1>1. Me \in Ids
  BY DEF Ids
<1>2. \/ s = store
      \/ \E h : s = [days |-> [store.days EXCEPT ![Me][u.day] = u.tokens], hits |-> [store.hits EXCEPT ![Me] = h]]
  BY DEF PutUsage
<1>3. ASSUME s.days = [store.days EXCEPT ![Me][u.day] = u.tokens]
      PROVE  /\ s.days = [p \in Ids |-> s.days[p]]
             /\ s.days[Me] = [d \in Periods |-> s.days[Me][d]]
             /\ \A d \in Periods : s.days[Me][d] = store.days[Me][d] \/ (d = u.day /\ s.days[Me][d] = u.tokens)
  <2>1. s.days[Me] = [store.days[Me] EXCEPT ![u.day] = u.tokens] /\ DOMAIN s.days = Ids
    BY <1>1, <1>3 DEF Shaped
  <2>2. DOMAIN store.days[Me] = Periods
    BY DEF Shaped
  <2> QED
    BY <1>3, <2>1, <2>2 DEF Shaped
<1>4. CASE s = store
  BY <1>4 DEF Shaped
<1>5. ASSUME NEW h, s = [days |-> [store.days EXCEPT ![Me][u.day] = u.tokens], hits |-> [store.hits EXCEPT ![Me] = h]]
      PROVE  s = [days |-> s.days, hits |-> s.hits] /\ s.days = [store.days EXCEPT ![Me][u.day] = u.tokens]
  BY <1>5
<1> QED
  BY <1>2, <1>3, <1>4, <1>5

\* A put of another process leaves on the board what was there and what it put.
LEMMA StrayPut ==
  ASSUME Shaped, OnlyStrays, NEW u, store' \in PutUsage(store, u) \cup {store}, stray' = stray \cup {u}
  PROVE  OnlyStrays'
<1>1. \A d \in Periods : store'.days[Me][d] = store.days[Me][d] \/ (d = u.day /\ store'.days[Me][d] = u.tokens)
  BY PutKeepsShape
<1> QED
  BY <1>1 DEF OnlyStrays

\* So do a leave, and a call that does nothing.
LEMMA StraysStay ==
  ASSUME OnlyStrays, store'.days[Me] \in {store.days[Me], NoDays}, stray' = stray
  PROVE  OnlyStrays'
  BY DEF OnlyStrays, NoDays

\* A leave that is heard was served; one that is not may have been.
LEMMA GoodbyeCall ==
  ASSUME Shaped, NEW c \in Calls(Goodbye), Call(Goodbye, c)
  PROVE  /\ store' \in {store, LeaveStore(store)}
         /\ c.ok => store' = LeaveStore(store)
         /\ c.ok \in BOOLEAN
         /\ \A m \in late' : m.kind \in {"usage", "leave"}
<1>1. Goodbye.kind = "leave" /\ Deliver(store, Goodbye) = {LeaveStore(store)}
  BY DEF Goodbye, Deliver
<1>2. /\ c.store \in {store, LeaveStore(store)} /\ c.late \in {late, late \cup {Goodbye}}
      /\ c.ok \in BOOLEAN /\ (c.ok => c.store = LeaveStore(store))
  <2>1. CASE c \in {[store |-> s, late |-> late, ok |-> TRUE, lapse |-> 0] : s \in {LeaveStore(store)}}
    <3>1. PICK s \in {LeaveStore(store)} : c = [store |-> s, late |-> late, ok |-> TRUE, lapse |-> 0]
      BY <2>1
    <3>2. c.store = LeaveStore(store) /\ c.late = late /\ c.ok = TRUE
      BY <3>1
    <3> QED
      BY <3>2
  <2>2. CASE c \in {[store |-> s, late |-> late, ok |-> FALSE, lapse |-> 1] : s \in {LeaveStore(store)} \cup {store}}
    <3>1. PICK s \in {LeaveStore(store)} \cup {store} :
            c = [store |-> s, late |-> late, ok |-> FALSE, lapse |-> 1]
      BY <2>2
    <3>2. c.store \in {store, LeaveStore(store)} /\ c.late = late /\ c.ok = FALSE
      BY <3>1
    <3> QED
      BY <3>2
  <2>3. CASE c = [store |-> store, late |-> late \cup {Goodbye}, ok |-> FALSE, lapse |-> 1]
    BY <2>3
  <2>4. Calls(Goodbye) \subseteq
          {[store |-> s, late |-> late, ok |-> TRUE, lapse |-> 0] : s \in {LeaveStore(store)}}
          \cup {[store |-> s, late |-> late, ok |-> FALSE, lapse |-> 1] : s \in {LeaveStore(store)} \cup {store}}
          \cup {[store |-> store, late |-> late \cup {Goodbye}, ok |-> FALSE, lapse |-> 1]}
    BY <1>1 DEF Calls
  <2> QED
    BY <2>1, <2>2, <2>3, <2>4
<1> QED
  BY <1>1, <1>2 DEF Call, Shaped

LEMMA UsageCall ==
  ASSUME Shaped, NEW agg, NEW c \in Calls(UploadOf(agg)), Call(UploadOf(agg), c)
  PROVE  /\ store' = [days |-> store'.days, hits |-> store'.hits]
         /\ store'.days = [p \in Ids |-> store'.days[p]]
         /\ store'.days[Me] = [d \in Periods |-> store'.days[Me][d]]
         /\ store' \in PutUsage(store, UploadOf(agg)) \cup {store}
         /\ \A m \in late' : m.kind \in {"usage", "leave"}
<1>1. UploadOf(agg).kind = "usage" /\ Deliver(store, UploadOf(agg)) = PutUsage(store, UploadOf(agg))
  BY DEF UploadOf, Deliver
<1>2. c.store \in PutUsage(store, UploadOf(agg)) \cup {store} /\ c.late \in {late, late \cup {UploadOf(agg)}}
  BY <1>1 DEF Calls
<1> QED
  BY <1>1, <1>2, PutKeepsShape DEF Call, Shaped

-----------------------------------------------------------------------------
LEMMA CommunityInvInit == CommunityInit => CommunityInv
<1> SUFFICES ASSUME CommunityInit PROVE CommunityInv
  OBVIOUS
<1>1. Shaped
  BY DEF CommunityInit, Ids, NoDays, Shaped, Fresh, Quiet
<1> QED
  BY <1>1 DEF CommunityInit, NoDays, CommunityInv, Locked, SwitchedOff, Forgotten, OnlyStrays, Leaving, Quiet, Uploads

LEMMA ScanSteps ==
  ASSUME CommunityInv, DashScan \/ SyncAgg \/ DashPut \/ DashToday \/ DashAll \/ DashShow
  PROVE  CommunityInv'
<1> USE DEF CommunityInv
<1>1. CASE DashScan
  <2>1. Shaped'
    BY <1>1 DEF DashScan, EnsureClient, Shaped, Quiet
  <2> QED
    BY <1>1, <2>1 DEF DashScan, EnsureClient, LoadOrCreate, Quiet, Locked, SwitchedOff, Forgotten, OnlyStrays, Leaving, Uploads
<1>2. CASE SyncAgg
  <2>1. Shaped'
    BY <1>2 DEF SyncAgg, ShowNext, Shaped
  <2> QED
    BY <1>2, <2>1 DEF SyncAgg, ShowNext, Shaped, Locked, SwitchedOff, Forgotten, OnlyStrays, Leaving, Uploads
<1>3. CASE DashPut
  <2>1. Shaped'
    BY <1>3, UsageCall DEF DashPut, ShowNext, Shaped
  <2>2. ~Leaving
    BY <1>3 DEF DashPut, Locked, SwitchedOff, Leaving, Uploads
  <2> QED
    BY <1>3, <2>1, <2>2 DEF DashPut, ShowNext, Shaped, Locked, SwitchedOff, Forgotten, OnlyStrays, Leaving, Uploads
<1>4. CASE DashToday
  <2>1. Shaped'
    BY <1>4 DEF DashToday, Shaped
  <2> QED
    BY <1>4, <2>1 DEF DashToday, Shaped, Locked, SwitchedOff, Forgotten, OnlyStrays, Leaving, Uploads
<1>5. CASE DashAll
  <2>1. Shaped'
    BY <1>5 DEF DashAll, ShowNext, Shaped
  <2> QED
    BY <1>5, <2>1 DEF DashAll, ShowNext, Shaped, Locked, SwitchedOff, Forgotten, OnlyStrays, Leaving, Uploads
<1>6. CASE DashShow
  <2>1. Shaped'
    BY <1>6 DEF DashShow, Shaped, Quiet
  <2> QED
    BY <1>6, <2>1 DEF DashShow, Quiet, Locked, SwitchedOff, Forgotten, OnlyStrays, Leaving, Uploads
<1> QED
  BY <1>1, <1>2, <1>3, <1>4, <1>5, <1>6

LEMMA PostSteps ==
  ASSUME CommunityInv,
         (\E on \in BOOLEAN : PostCommunity(on)) \/ PostLock \/ PostLeave \/ PostWrite \/ PostShow
  PROVE  CommunityInv'
<1> USE DEF CommunityInv
<1>1. ASSUME NEW on \in BOOLEAN, PostCommunity(on) PROVE CommunityInv'
  <2>1. Shaped'
    BY <1>1 DEF PostCommunity, EnsureClient, Shaped
  <2> QED
    BY <1>1, <2>1 DEF PostCommunity, EnsureClient, LoadOrCreate, Locked, SwitchedOff, Forgotten, OnlyStrays, Leaving, Uploads
<1>2. CASE PostLock
  <2>1. Shaped'
    BY <1>2 DEF PostLock, Shaped
  <2> QED
    BY <1>2, <2>1 DEF PostLock, Shaped, Locked, SwitchedOff, Forgotten, OnlyStrays, Leaving, Uploads
<1>3. CASE PostLeave
  <2> PICK c \in Calls(Goodbye) : Call(Goodbye, c) /\ LeaveHeard(c) /\ stray' = IF c.ok THEN {} ELSE stray
    BY <1>3 DEF PostLeave
  <2>1. Shaped'
    BY <1>3, GoodbyeCall, LeaveForgets DEF PostLeave, LeaveHeard, Shaped
  <2>2. store'.days[Me] \in {store.days[Me], NoDays} /\ (c.ok => store'.days[Me] = NoDays)
    BY GoodbyeCall, LeaveForgets
  <2>3. CASE c.ok
    BY <1>3, <2>1, <2>2, <2>3 DEF PostLeave, LeaveHeard, NoDays, Shaped, Locked, SwitchedOff, Forgotten, OnlyStrays, Leaving, Uploads
  <2>4. CASE ~c.ok
    BY <1>3, <2>1, <2>2, <2>4, StraysStay DEF PostLeave, LeaveHeard, Shaped, Locked, SwitchedOff, Forgotten, OnlyStrays, Leaving, Uploads
  <2> QED
    BY <2>3, <2>4
<1>4. CASE PostWrite
  <2>1. Shaped'
    BY <1>4 DEF PostWrite, Shaped
  <2> QED
    BY <1>4, <2>1 DEF PostWrite, Shaped, Locked, SwitchedOff, Forgotten, OnlyStrays, Leaving, Uploads
<1>5. CASE PostShow
  <2>1. Shaped'
    BY <1>5 DEF PostShow, Shaped
  <2> QED
    BY <1>5, <2>1 DEF PostShow, Shaped, Locked, SwitchedOff, Forgotten, OnlyStrays, Leaving, Uploads
<1> QED
  BY <1>1, <1>2, <1>3, <1>4, <1>5

LEMMA CommandSteps ==
  ASSUME CommunityInv,
         \/ \E what \in {"put", "leave", "on"} : Orders(what)
         \/ ReportPut \/ OffLeaves \/ \E on \in BOOLEAN : SetEnabled(on)
  PROVE  CommunityInv'
<1> USE DEF CommunityInv
<1>1. ASSUME NEW what \in {"put", "leave", "on"}, Orders(what) PROVE CommunityInv'
  <2>1. Shaped'
    BY <1>1 DEF Orders, Shaped
  <2> QED
    BY <1>1, <2>1 DEF Orders, LoadOrCreate, Locked, SwitchedOff, Forgotten, OnlyStrays, Leaving
<1>2. CASE ReportPut
  <2>1. Shaped'
    BY <1>2, UsageCall DEF ReportPut, Shaped
  <2>2. Leaving => Forgotten'
    BY <1>2, UsageCall, StrayPut DEF ReportPut, Forgotten
  <2>3. Forgotten'
    BY <1>2, <2>2 DEF ReportPut, Forgotten, Leaving
  <2> QED
    BY <1>2, <2>1, <2>3 DEF ReportPut, Locked, SwitchedOff
<1>3. CASE OffLeaves
  <2> PICK c \in Calls(Goodbye) : Call(Goodbye, c)
    BY <1>3 DEF OffLeaves
  <2>1. Shaped'
    BY <1>3, GoodbyeCall, LeaveForgets DEF OffLeaves, Shaped
  <2>2. store'.days[Me] \in {store.days[Me], NoDays}
    BY GoodbyeCall, LeaveForgets
  <2> QED
    BY <1>3, <2>1, <2>2, StraysStay DEF OffLeaves, Locked, SwitchedOff, Forgotten, Leaving
<1>4. ASSUME NEW on \in BOOLEAN, SetEnabled(on) PROVE CommunityInv'
  <2>1. Shaped'
    BY <1>4 DEF SetEnabled, Shaped
  <2> QED
    BY <1>4, <2>1 DEF SetEnabled, Shaped, Locked, SwitchedOff, Forgotten, OnlyStrays, Leaving
<1> QED
  BY <1>1, <1>2, <1>3, <1>4

LEMMA OtherSteps ==
  ASSUME CommunityInv,
         \/ \E m \in late : Arrives(m)
         \/ UseTokensToday \/ NextDay \/ HourPasses \/ ServeEnds \/ ServiceEnds
  PROVE  CommunityInv'
<1> USE DEF CommunityInv
<1>1. ASSUME NEW m \in late, Arrives(m) PROVE CommunityInv'
  <2>1. m.kind = "leave" => store' = LeaveStore(store)
    BY <1>1 DEF Arrives, Deliver
  <2>2. m.kind = "usage" => store' \in PutUsage(store, m)
    BY <1>1 DEF Arrives, Deliver
  <2>3. m.kind \in {"usage", "leave"}
    BY DEF Shaped
  <2>4. /\ store' = [days |-> store'.days, hits |-> store'.hits] /\ store'.days = [p \in Ids |-> store'.days[p]]
        /\ store'.days[Me] = [d \in Periods |-> store'.days[Me][d]]
    BY <2>1, <2>2, <2>3, LeaveForgets, PutKeepsShape
  <2>5. Shaped'
    BY <1>1, <2>4 DEF Arrives, Shaped
  <2>6. ASSUME Leaving PROVE OnlyStrays'
    <3>1. OnlyStrays /\ stray' = stray \cup {m}
      BY <1>1, <2>6 DEF Arrives, Forgotten
    <3>2. CASE m.kind = "usage"
      BY <2>2, <3>1, <3>2, StrayPut
    <3>3. CASE m.kind = "leave"
      BY <2>1, <3>1, <3>3, LeaveForgets DEF OnlyStrays, NoDays
    <3> QED
      BY <2>3, <3>2, <3>3
  <2>7. Forgotten'
    BY <1>1, <2>6 DEF Arrives, Forgotten, Leaving
  <2> QED
    BY <1>1, <2>5, <2>7 DEF Arrives, Locked, SwitchedOff
<1>2. CASE UseTokensToday \/ NextDay
  BY <1>2 DEF UseTokensToday, NextDay, Shaped, Locked, SwitchedOff, Forgotten, OnlyStrays, Leaving
<1>3. CASE HourPasses
  <2>1. Shaped' /\ store'.days = store.days
    BY <1>3 DEF HourPasses, Shaped
  <2> QED
    BY <1>3, <2>1 DEF HourPasses, Locked, SwitchedOff, Forgotten, OnlyStrays, Leaving
<1>4. CASE ServeEnds
  <2>1. Shaped'
    BY <1>4 DEF ServeEnds, Shaped, Fresh, Quiet, UploadOf
  <2> QED
    BY <1>4, <2>1 DEF ServeEnds, Fresh, Quiet, Locked, SwitchedOff, Forgotten, OnlyStrays, Leaving, Uploads
<1>5. CASE ServiceEnds
  <2>1. Me \in Ids
    BY DEF Ids
  <2>2. store'.days[Me] = NoDays /\ Shaped'
    BY <1>5, <2>1 DEF ServiceEnds, NoDays, Shaped
  <2> QED
    BY <1>5, <2>2 DEF ServiceEnds, NoDays, Locked, SwitchedOff, Forgotten, OnlyStrays, Leaving
<1> QED
  BY <1>1, <1>2, <1>3, <1>4, <1>5

LEMMA CommunityInvStep == CommunityInv /\ [CommunityNext]_communityVars => CommunityInv'
<1> SUFFICES ASSUME CommunityInv, [CommunityNext]_communityVars PROVE CommunityInv'
  OBVIOUS
<1>1. CASE UNCHANGED communityVars
  BY <1>1 DEF communityVars, CommunityInv, Shaped, Locked, SwitchedOff, Forgotten, OnlyStrays, Leaving
<1> QED
  BY <1>1, ScanSteps, PostSteps, CommandSteps, OtherSteps DEF CommunityNext

\* After the dashboard's leave the service holds no row of this machine but
\* those that another process uploaded, or that were served late, since.
THEOREM LeaversAreForgotten == CommunitySpec => []LeftIsForgotten
<1>1. CommunityInv => LeftIsForgotten
  BY DEF CommunityInv, Forgotten, OnlyStrays, Leaving, LeftIsForgotten
<1> QED
  BY <1>1, CommunityInvInit, CommunityInvStep, PTL DEF CommunitySpec
==============================================================================
