------------------------------ MODULE Accounts ------------------------------
(* Accounts, sessions and devices of the hosted service (internal/hosted/     *)
(* auth.go, pair.go, account.go, sync.go and their statements in store.go)    *)
(* and the CLI that pairs a device with an account (internal/cli/login.go).   *)
(*                                                                            *)
(* A request is used once.  One step is one SQL statement, or several that    *)
(* nothing can come between to a different end.  Codes, tokens and cookies    *)
(* are named by what created them, so a guessed one is not modelled; CSRF,    *)
(* rate limits and what a page shows are left out.                            *)
EXTENDS Naturals, FiniteSets

CONSTANTS
  Identities,    \* GitHub accounts, each with one browser
  Requests,      \* requests of browsers
  Servers,       \* server processes
  Codes,         \* pairing challenges, each with the CLI that started it
  NoOne,        \* no request, no code, no row
  MaxLost        \* bound on lost answers, failed calls and restarts

ASSUME AccountsAssumption ==
  /\ NoOne \notin Identities \cup Requests \cup Servers \cup Codes
  /\ MaxLost \in Nat

VARIABLES
  db,            \* the tables
  browser,       \* the session cookie of a browser, or NoOne
  pending,       \* server.pending of each process: the device whose token waits
  req,           \* requests
  cli,           \* each CLI: [at, token, user]
  lost           \* counter of MaxLost

accountVars == <<db, browser, pending, req, cli, lost>>

Idle == [at |-> "idle", who |-> NoOne, host |-> NoOne, user |-> 0, on |-> NoOne]

(* users: the row id of an identity, 0 without one; last: its AUTO_INCREMENT; *)
(* sessions, profiles: web_sessions and profile_sessions; states:             *)
(* oauth_states; codes: profile_exchange_codes by the login that made one;    *)
(* devices by the request that made one; usage: users with stored rows.       *)
Tables(u) ==
  [users |-> u, last |-> IF \E g \in Identities : u[g] = 1 THEN 1 ELSE 0,
   sessions |-> {[by |-> NoOne, user |-> 1] : g \in {i \in Identities : u[i] = 1}},
   states |-> {}, profiles |-> {}, usage |-> {},
   codes |-> [r \in Requests |-> NoOne], devices |-> [r \in Requests |-> NoOne],
   challenges |-> [c \in Codes |-> NoOne]]

\* One identity may have an account and a session already.
AccountsInit ==
  /\ \E known \in SUBSET Identities :
       /\ Cardinality(known) <= 1
       /\ db = Tables([g \in Identities |-> IF g \in known THEN 1 ELSE 0])
       /\ browser = [g \in Identities |-> IF g \in known THEN [by |-> NoOne, user |-> 1] ELSE NoOne]
  /\ pending = [s \in Servers |-> [c \in Codes |-> NoOne]]
  /\ req = [r \in Requests |-> Idle]
  /\ cli = [c \in Codes |-> [at |-> "new", token |-> NoOne, user |-> 0]]
  /\ lost = 0

-----------------------------------------------------------------------------
\* LookupSession and UserByID.
LookupSession(g) == browser[g] \in db.sessions
UserIds == {db.users[g] : g \in Identities} \ {0}

\* currentUser: the cookie's session row and the row of its user.
LoggedIn(g) == LookupSession(g) /\ browser[g].user \in UserIds

\* DeviceByToken: a device that is not revoked, of a user that is there.
TokenAccepted(d) ==
  d # NoOne /\ db.devices[d] # NoOne /\ ~db.devices[d].revoked /\ db.devices[d].user \in UserIds

Go(r, at) == req' = [req EXCEPT ![r].at = at]
Answer(r) == Go(r, "done")

\* A request arrives.  startGitHub has left a state and a cookie for a login;
\* an exchange brings a code, the others a session cookie.
Targets(kind) ==
  CASE kind \in {"confirm", "deny"} -> Codes
    [] kind = "exchange" -> {r \in Requests : db.codes[r] # NoOne}
    [] kind = "revoke" -> {r \in Requests : db.devices[r] # NoOne}
    [] OTHER -> {NoOne}
TakeRequest(r, kind, g, s) ==
  /\ req[r].at = "idle"
  /\ kind \in {"login", "exchange"} \/ LoggedIn(g)
  /\ \E t \in Targets(kind) :
       req' = [req EXCEPT ![r] = [at |-> kind, who |-> g, host |-> s, on |-> t,
                 user |-> IF kind \in {"login", "exchange"} THEN 0 ELSE browser[g].user]]
  /\ db' = IF kind = "login" THEN [db EXCEPT !.states = @ \cup {g}] ELSE db
  /\ UNCHANGED <<browser, pending, cli, lost>>

-----------------------------------------------------------------------------
(* callbackGitHub. *)

\* TakeOAuthState reads the state and then deletes it.
ReadState(r) ==
  /\ req[r].at = "login"
  /\ IF req[r].who \in db.states THEN Go(r, "drop_state") ELSE Answer(r)
  /\ UNCHANGED <<db, browser, pending, cli, lost>>
DropState(r) ==
  /\ req[r].at = "drop_state"
  /\ db' = [db EXCEPT !.states = @ \ {req[r].who}]
  /\ Go(r, "github")
  /\ UNCHANGED <<browser, pending, cli, lost>>

\* exchangeGitHub and fetchGitHubUser name an identity or fail; then its user is
\* looked for.
exchangeGitHub(r) == {req[r].who} \cup (IF lost < MaxLost THEN {NoOne} ELSE {})
FindUser(r) ==
  /\ req[r].at = "github"
  /\ \E g \in exchangeGitHub(r) :
       IF g = NoOne THEN Answer(r) /\ lost' = lost + 1
       ELSE req' = [req EXCEPT ![r].at = "upsert", ![r].user = db.users[g]] /\ UNCHANGED lost
  /\ UNCHANGED <<db, browser, pending, cli>>

\* Mutant: a new row takes the id after the largest one that is there.
NewId_Reused == IF UserIds = {} THEN 1 ELSE (CHOOSE u \in UserIds : \A v \in UserIds : v <= u) + 1

NewId == db.last + 1

\* The insert, which the unique key of github_id refuses when another login
\* was first; or the update, which does not notice that the row is gone.
UpsertGitHubUser(r) ==
  /\ req[r].at = "upsert"
  /\ IF req[r].user # 0
     THEN Go(r, "session") /\ UNCHANGED db
     ELSE IF db.users[req[r].who] # 0 THEN Answer(r) /\ UNCHANGED db
     ELSE /\ db' = [db EXCEPT !.users[req[r].who] = NewId, !.last = NewId]
          /\ req' = [req EXCEPT ![r].at = "session", ![r].user = NewId]
  /\ UNCHANGED <<browser, pending, cli, lost>>

\* CreateSession and, for a page that asked for one, CreateExchangeCode.
CreateSession(r) ==
  /\ req[r].at = "session"
  /\ LET row == [by |-> r, user |-> req[r].user] IN
       /\ db' = [db EXCEPT !.sessions = @ \cup {row},
                           !.codes[r] = [user |-> req[r].user, consumed |-> FALSE]]
       /\ browser' = [browser EXCEPT ![req[r].who] = row]
  /\ Answer(r)
  /\ UNCHANGED <<pending, cli, lost>>

(* exchangeProfileSession. *)

\* ConsumeExchangeCode reads the code, then updates it while it is not
\* consumed and counts the rows.
Usable(row) == row # NoOne /\ ~row.consumed
ReadCode(r) ==
  /\ req[r].at = "exchange"
  /\ IF Usable(db.codes[req[r].on])
     THEN req' = [req EXCEPT ![r].at = "consume_code", ![r].user = db.codes[req[r].on].user]
     ELSE Answer(r)
  /\ UNCHANGED <<db, browser, pending, cli, lost>>

Bought(row) == Usable(row)
ConsumeCode(r) ==
  /\ req[r].at = "consume_code"
  /\ LET row == db.codes[req[r].on] IN
       /\ db' = IF Usable(row) THEN [db EXCEPT !.codes[req[r].on].consumed = TRUE] ELSE db
       /\ IF Bought(row) THEN Go(r, "profile") ELSE Answer(r)
  /\ UNCHANGED <<browser, pending, cli, lost>>

\* UserByID and CreateProfileSession.
CreateProfileSession(r) ==
  /\ req[r].at = "profile"
  /\ db' = IF req[r].user \in UserIds
           THEN [db EXCEPT !.profiles = @ \cup {[user |-> req[r].user, code |-> req[r].on, by |-> r]}] ELSE db
  /\ Answer(r)
  /\ UNCHANGED <<browser, pending, cli, lost>>

-----------------------------------------------------------------------------
(* pairStart, pairConfirm and pairStatus. *)

Undecided(ch) == ch # NoOne /\ ~ch.consumed /\ ~ch.denied

PairStart(c) ==
  /\ cli[c].at = "new"
  /\ db' = [db EXCEPT !.challenges[c] = [open |-> TRUE, consumed |-> FALSE, denied |-> FALSE, user |-> 0]]
  /\ cli' = [cli EXCEPT ![c].at = "waiting"]
  /\ UNCHANGED <<browser, pending, req, lost>>

\* Ten minutes have passed.
ExpireChallenge(c) ==
  /\ db.challenges[c] # NoOne /\ db.challenges[c].open
  /\ db' = [db EXCEPT !.challenges[c].open = FALSE]
  /\ UNCHANGED <<browser, pending, req, cli, lost>>

ReadChallenge(r) ==
  /\ req[r].at \in {"confirm", "deny"}
  /\ LET ch == db.challenges[req[r].on] IN
     IF Undecided(ch) /\ ch.open
     THEN Go(r, IF req[r].at = "confirm" THEN "insert" ELSE "refuse")
     ELSE Answer(r)
  /\ UNCHANGED <<db, browser, pending, cli, lost>>

\* Mutant: a challenge that was accepted can still be refused.
DenyPair_Anytime(ch, u) == IF ch # NoOne THEN [ch EXCEPT !.denied = TRUE, !.user = u] ELSE ch

DenyPair(ch, u) == IF Undecided(ch) THEN [ch EXCEPT !.denied = TRUE, !.user = u] ELSE ch
Refuse(r) ==
  /\ req[r].at = "refuse"
  /\ db' = [db EXCEPT !.challenges[req[r].on] = DenyPair(@, req[r].user)]
  /\ Answer(r)
  /\ UNCHANGED <<browser, pending, cli, lost>>

InsertDevice(r) ==
  /\ req[r].at = "insert"
  /\ db' = [db EXCEPT !.devices[r] = [user |-> req[r].user, revoked |-> FALSE, code |-> req[r].on]]
  /\ Go(r, "consume_pair")
  /\ UNCHANGED <<browser, pending, cli, lost>>

\* The rows that ConsumePair updates are not counted.
ConsumePair(r) ==
  /\ req[r].at = "consume_pair"
  /\ db' = [db EXCEPT !.challenges[req[r].on] =
              IF Undecided(@) THEN [@ EXCEPT !.consumed = TRUE, !.user = req[r].user] ELSE @]
  /\ Go(r, "pend")
  /\ UNCHANGED <<browser, pending, cli, lost>>

PutPending(r) ==
  /\ req[r].at = "pend"
  /\ pending' = [pending EXCEPT ![req[r].host][req[r].on] = r]
  /\ Answer(r)
  /\ UNCHANGED <<db, browser, cli, lost>>

Status(c, s) ==
  LET ch == db.challenges[c] IN
  CASE ch = NoOne -> "unauthorized"
    [] ch # NoOne /\ ch.denied -> "denied"
    [] ch # NoOne /\ ~ch.denied /\ ~ch.open /\ ~ch.consumed -> "expired"
    [] ch # NoOne /\ ~ch.denied /\ ch.consumed /\ pending[s][c] # NoOne -> "approved"
    [] OTHER -> "pending"

\* takePending, for an approved challenge.
Taken(c, s) == IF Status(c, s) = "approved" THEN NoOne ELSE pending[s][c]

\* One poll at one process, and what runLogin makes of the answer; it goes on
\* when there is none or when the status is one it does not know.
Poll(c, s, arrives) ==
  /\ cli[c].at = "waiting"
  /\ arrives \/ lost < MaxLost
  /\ lost' = IF arrives THEN lost ELSE lost + 1
  /\ pending' = [pending EXCEPT ![s][c] = Taken(c, s)]
  /\ cli' = IF ~arrives THEN cli
            ELSE CASE Status(c, s) = "approved" -> [cli EXCEPT ![c].at = "in", ![c].token = pending[s][c]]
                   [] Status(c, s) \in {"denied", "expired"} -> [cli EXCEPT ![c].at = "failed"]
                   [] OTHER -> cli
  /\ UNCHANGED <<db, browser, req>>

\* Ten minutes of polling.
GiveUp(c) ==
  /\ cli[c].at = "waiting"
  /\ cli' = [cli EXCEPT ![c].at = "failed"]
  /\ UNCHANGED <<db, browser, pending, req, lost>>

-----------------------------------------------------------------------------
(* What a device and an owner do later. *)

\* putSyncBatch: the device and its user are read, then the batch is applied.
BeginSync(c) ==
  /\ cli[c].at = "in" /\ TokenAccepted(cli[c].token)
  /\ cli' = [cli EXCEPT ![c].at = "sync", ![c].user = db.devices[cli[c].token].user]
  /\ UNCHANGED <<db, browser, pending, req, lost>>
SyncBatch(c) ==
  /\ cli[c].at = "sync"
  /\ db' = [db EXCEPT !.usage = @ \cup {cli[c].user}]
  /\ cli' = [cli EXCEPT ![c].at = "in"]
  /\ UNCHANGED <<browser, pending, req, lost>>

\* runLogout forgets the token after a success or a 401.
Forgets(answered, ok) == answered /\ ok
Logout(c, works, answered) ==
  /\ cli[c].at = "in"
  /\ (works /\ answered) \/ lost < MaxLost
  /\ lost' = IF works /\ answered THEN lost ELSE lost + 1
  /\ db' = IF works /\ TokenAccepted(cli[c].token) THEN [db EXCEPT !.devices[cli[c].token].revoked = TRUE] ELSE db
  /\ cli' = IF Forgets(answered, works) THEN [cli EXCEPT ![c].at = "out"] ELSE cli
  /\ UNCHANGED <<browser, pending, req>>

\* RevokeDevice names the owner: a device of another user is not found.
Revoke(r) ==
  /\ req[r].at = "revoke"
  /\ LET d == db.devices[req[r].on] IN
     db' = IF d # NoOne /\ d.user = req[r].user THEN [db EXCEPT !.devices[req[r].on].revoked = TRUE] ELSE db
  /\ Answer(r)
  /\ UNCHANGED <<browser, pending, cli, lost>>

DeleteSession(r) ==
  /\ req[r].at = "logout"
  /\ db' = [db EXCEPT !.sessions = @ \ {browser[req[r].who]}]
  /\ browser' = [browser EXCEPT ![req[r].who] = NoOne]
  /\ Answer(r)
  /\ UNCHANGED <<pending, cli, lost>>

\* Rows of u are deleted in one transaction.
Without(u, f) == [x \in DOMAIN f |-> IF f[x] # NoOne /\ f[x].user = u THEN NoOne ELSE f[x]]
DeleteUsage(u) ==
  [db EXCEPT !.usage = @ \ {u}, !.codes = Without(u, @), !.profiles = {p \in @ : p.user # u}]
DeleteUsageRows(r) ==
  /\ req[r].at = "delete_usage"
  /\ db' = DeleteUsage(req[r].user)
  /\ Answer(r)
  /\ UNCHANGED <<browser, pending, cli, lost>>
DeleteAccount(r) ==
  /\ req[r].at = "delete_account"
  /\ LET u == req[r].user IN
     db' = [db EXCEPT !.users = [g \in Identities |-> IF @[g] = u THEN 0 ELSE @[g]],
                      !.sessions = {s \in @ : s.user # u}, !.profiles = {p \in @ : p.user # u},
                      !.codes = Without(u, @), !.devices = Without(u, @),
                      !.challenges = Without(u, @), !.usage = @ \ {u}]
  /\ browser' = [browser EXCEPT ![req[r].who] = NoOne]
  /\ Answer(r)
  /\ UNCHANGED <<pending, cli, lost>>

\* A process restarts: its memory and its requests are gone.
Restart(s) ==
  /\ lost < MaxLost /\ lost' = lost + 1
  /\ pending' = [pending EXCEPT ![s] = [c \in Codes |-> NoOne]]
  /\ req' = [r \in Requests |-> IF req[r].host = s THEN [req[r] EXCEPT !.at = "done"] ELSE req[r]]
  /\ UNCHANGED <<db, browser, cli>>

-----------------------------------------------------------------------------
Kinds == {"login", "exchange", "confirm", "deny", "revoke", "logout", "delete_usage", "delete_account"}
Browsers == \E r \in Requests :
  \/ \E kind \in Kinds, g \in Identities, s \in Servers : TakeRequest(r, kind, g, s)
  \/ ReadState(r) \/ DropState(r) \/ FindUser(r) \/ UpsertGitHubUser(r) \/ CreateSession(r)
  \/ ReadCode(r) \/ ConsumeCode(r) \/ CreateProfileSession(r)
  \/ ReadChallenge(r) \/ Refuse(r) \/ InsertDevice(r) \/ ConsumePair(r) \/ PutPending(r)
  \/ Revoke(r) \/ DeleteSession(r) \/ DeleteUsageRows(r) \/ DeleteAccount(r)
PollersAndDevices == \E c \in Codes :
  \/ PairStart(c) \/ ExpireChallenge(c) \/ GiveUp(c) \/ BeginSync(c) \/ SyncBatch(c)
  \/ \E s \in Servers, arrives \in BOOLEAN : Poll(c, s, arrives)
  \/ \E works, answered \in BOOLEAN : Logout(c, works, answered)

AccountsNext == Browsers \/ PollersAndDevices \/ \E s \in Servers : Restart(s)
AccountsSpec == AccountsInit /\ [][AccountsNext]_accountVars

-----------------------------------------------------------------------------
\* A refused challenge stays refused: its CLI never got a token, whoever
\* confirmed it at the same time.
RefusedGetsNoToken == \A c \in Codes :
  db.challenges[c] # NoOne /\ db.challenges[c].denied => cli[c].token = NoOne

\* "GitHub identity can recreate an empty account later"
\* (hosted-web-v070.md:488), although requests that began before the deletion
\* write rows after it.
NewAccountIsEmpty ==
  [][\A g \in Identities : db.users[g] = 0 /\ db'.users[g] # 0 =>
       LET u == db'.users[g] IN
       /\ u \notin db.usage
       /\ \A s \in db.sessions \cup db.profiles : s.user # u
       /\ \A r \in Requests : db.devices[r] # NoOne => db.devices[r].user # u]_accountVars

=============================================================================
