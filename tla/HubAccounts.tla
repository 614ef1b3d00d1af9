----------------------------- MODULE HubAccounts -----------------------------
(***************************************************************************)
(* Accounts, sessions and runs of the results hub (web/server.py: Store    *)
(* and the handlers of /api/auth, /api/runs).                              *)
(*                                                                         *)
(* ThreadingHTTPServer runs every request in a thread of its own, and a    *)
(* handler is a sequence of database transactions with nothing held        *)
(* between them. One action here is what a handler does between two points *)
(* where another request can reach the database: a transaction, or a read  *)
(* (sqlite3 opens a transaction only at the first INSERT, UPDATE or        *)
(* DELETE, so a SELECT before it is a step of its own). What a handler has *)
(* read it keeps in `local` until it uses it.                              *)
(*                                                                         *)
(* users.id and runs.id are INTEGER PRIMARY KEY without AUTOINCREMENT:     *)
(* SQLite gives a new row the highest id in use plus one, so the id of a   *)
(* deleted row may be given out again. A field `acct` or `serial` is       *)
(* history: it tells apart two accounts, or two runs, that had one id.     *)
(*                                                                         *)
(* Passwords are abstracted to `epoch`, the number of changes; a request   *)
(* that proves a password proved the one of the row it read. Sessions      *)
(* carry the epoch that was proved for them. `told` is history: a reply    *)
(* has handed the account's upload token to its owner. Rates, CSRF, expiry *)
(* and the content of a run are left out: a request they refuse changes    *)
(* nothing. Reissuing the upload token is left out too.                    *)
(*                                                                         *)
(* Nothing keeps one request from running between two steps of another, so *)
(* the hub does not promise what the same requests one after another would *)
(* give. The properties below say what it does keep, and the rest of the   *)
(* history is there to say it: `mark` and `closed` count the runs stored   *)
(* when a request looked at the table and when a closing did, `ended` the  *)
(* sessions there had been when a change of password ended them, `lapsed`  *)
(* the change whose handler ended before that.                             *)
(***************************************************************************)
EXTENDS Integers, FiniteSets

CONSTANTS Requests,     \* request handlers in progress at one time
          Names,        \* account names
          Ops,          \* the operations clients ask for (narrows an instance)
          MaxAccounts,  \* registrations in a behaviour (a bound)
          MaxSessions,  \* sessions created (a bound)
          MaxUploads,   \* runs uploaded (a bound)
          MaxEpoch,     \* password changes per account (a bound)
          None          \* no row

ASSUME HubAssumption ==
  /\ MaxAccounts \in Nat /\ MaxSessions \in Nat
  /\ MaxUploads \in Nat /\ MaxEpoch \in Nat
  /\ None \notin Names

VARIABLES users,     \* the users table: id -> [acct, name, epoch] and history
          sessions,  \* the sessions table: {[sid, user, acct, epoch]}
          runs,      \* the runs table: id -> [owner, acct, serial]
          pc,        \* what each request does next
          local,     \* what each request has read
          accounts, issued, uploads,  \* history: how many there have been
          closed     \* history: of each account, the runs its closing could see

vars == <<users, sessions, runs, pc, local, accounts, issued, uploads, closed>>
counters == <<accounts, issued, uploads>>

\* No closing of the account has got as far as its transaction.
Open == -1

UserIds == 1..MaxAccounts
RunIds == 1..MaxUploads

Account == [acct: 1..MaxAccounts, name: Names, epoch: 0..MaxEpoch,
            settled: 0..MaxEpoch, ended: 0..MaxSessions, lapsed: 0..MaxEpoch,
            told: BOOLEAN]

Session == [sid: 1..MaxSessions, user: UserIds, acct: 1..MaxAccounts,
            epoch: 0..MaxEpoch]

\* owner 0 is NULL: an anonymous upload.
Run == [owner: 0..MaxAccounts, acct: 0..MaxAccounts, serial: 1..MaxUploads]

ASSUME NoRowAssumption == None \notin Account \cup Run

\* What a request knows: the account row it identified (user 0: anonymous)
\* with the epoch of its password, its session cookie, the name it registers,
\* the run rows it selected, the run whose delete token it showed and the
\* number of runs there had been when it selected.
Knows == [user: 0..MaxAccounts, acct: 0..MaxAccounts, epoch: 0..MaxEpoch,
          sid: 0..MaxSessions, name: Names \cup {None}, ids: SUBSET RunIds,
          serial: 0..MaxUploads, mark: 0..MaxUploads]

Acting(user, acct, epoch, sid) ==
  [user |-> user, acct |-> acct, epoch |-> epoch, sid |-> sid, name |-> None,
   ids |-> {}, serial |-> 0, mark |-> 0]

Nothing == Acting(0, 0, 0, 0)

TypeOK ==
  /\ users \in [UserIds -> Account \cup {None}]
  /\ sessions \subseteq Session
  /\ runs \in [RunIds -> Run \cup {None}]
  /\ pc \in [Requests -> {"idle", "create", "session", "upload", "withdraw",
                          "delete", "password", "signout", "close", "closing",
                          "leave"}]
  /\ local \in [Requests -> Knows]
  /\ accounts \in 0..MaxAccounts
  /\ issued \in 0..MaxSessions
  /\ uploads \in 0..MaxUploads
  /\ closed \in [1..MaxAccounts -> Open..MaxUploads]

Init ==
  /\ users = [u \in UserIds |-> None]
  /\ sessions = {}
  /\ runs = [i \in RunIds |-> None]
  /\ pc = [r \in Requests |-> "idle"]
  /\ local = [r \in Requests |-> Nothing]
  /\ accounts = 0 /\ issued = 0 /\ uploads = 0
  /\ closed = [a \in 1..MaxAccounts |-> Open]

LiveUsers == {u \in UserIds : users[u] # None}
LiveRuns == {i \in RunIds : runs[i] # None}

\* SQLite's choice of rowid for a table without AUTOINCREMENT.
NextRowid(id, ids) ==
  /\ \A i \in ids : i < id
  /\ id = 1 \/ id - 1 \in ids

Goto(r, step) == pc' = [pc EXCEPT ![r] = step]

Finish(r) ==
  /\ Goto(r, "idle")
  /\ local' = [local EXCEPT ![r] = Nothing]

\* The row a request read, as it remembers it.
Remember(r, u, sid) ==
  local' = [local EXCEPT ![r] = Acting(u, users[u].acct, users[u].epoch, sid)]

-----------------------------------------------------------------------------
(* /api/auth/register, /login, /logout *)

\* register: user_by_name finds nobody. The check is advisory.
Register(r, n) ==
  /\ pc[r] = "idle" /\ "register" \in Ops
  /\ accounts < MaxAccounts
  /\ \A u \in LiveUsers : users[u].name # n
  /\ local' = [local EXCEPT ![r] = [Nothing EXCEPT !.name = n]]
  /\ Goto(r, "create")
  /\ UNCHANGED <<users, sessions, runs, counters, closed>>

NewAccount(n) == [acct |-> accounts + 1, name |-> n, epoch |-> 0, settled |-> 0,
                  ended |-> 0, lapsed |-> 0, told |-> FALSE]

\* Mutant: no unique index, the advisory check is all there is.
CreateUserUnchecked(r) ==
  /\ pc[r] = "create"
  /\ accounts < MaxAccounts
  /\ \E id \in UserIds :
       /\ NextRowid(id, LiveUsers)
       /\ users' = [users EXCEPT ![id] = NewAccount(local[r].name)]
       /\ local' = [local EXCEPT ![r] = Acting(id, accounts + 1, 0, 0)]
  /\ accounts' = accounts + 1
  /\ Goto(r, "session")
  /\ UNCHANGED <<sessions, runs, issued, uploads, closed>>

\* create_user: the unique index over lower(name) decides. IntegrityError is
\* the 409 of a name taken meanwhile.
CreateUser(r) ==
  /\ pc[r] = "create"
  /\ accounts < MaxAccounts
  /\ IF \E u \in LiveUsers : users[u].name = local[r].name
     THEN Finish(r) /\ UNCHANGED <<users, accounts>>
     ELSE /\ \E id \in UserIds :
               /\ NextRowid(id, LiveUsers)
               /\ users' = [users EXCEPT ![id] = NewAccount(local[r].name)]
               /\ local' = [local EXCEPT ![r] = Acting(id, accounts + 1, 0, 0)]
          /\ accounts' = accounts + 1
          /\ Goto(r, "session")
  /\ UNCHANGED <<sessions, runs, issued, uploads, closed>>

\* login: user_by_name, and the password matches the hash of the row read.
Login(r, u) ==
  /\ pc[r] = "idle" /\ "login" \in Ops
  /\ u \in LiveUsers
  /\ Remember(r, u, 0)
  /\ Goto(r, "session")
  /\ UNCHANGED <<users, sessions, runs, counters, closed>>

\* Mutant: the connection forgot PRAGMA foreign_keys = ON.
CreateSessionUnchecked(r) ==
  /\ pc[r] = "session"
  /\ issued < MaxSessions
  /\ sessions' = sessions \cup {[sid |-> issued + 1, user |-> local[r].user,
                                 acct |-> local[r].acct, epoch |-> local[r].epoch]}
  /\ issued' = issued + 1
  /\ Finish(r)
  /\ UNCHANGED <<users, runs, accounts, uploads, closed>>

\* create_session: the foreign key refuses a user that is gone (a 500). The
\* reply to a registration or a login carries the account's upload token.
CreateSession(r) ==
  /\ pc[r] = "session"
  /\ issued < MaxSessions
  /\ IF local[r].user \in LiveUsers
     THEN /\ sessions' = sessions \cup {[sid |-> issued + 1, user |-> local[r].user,
                                         acct |-> local[r].acct, epoch |-> local[r].epoch]}
          /\ issued' = issued + 1
          /\ users' = [users EXCEPT ![local[r].user].told = TRUE]
     ELSE UNCHANGED <<users, sessions, issued>>
  /\ Finish(r)
  /\ UNCHANGED <<runs, accounts, uploads, closed>>

\* logout: whoever sends a session cookie ends it. One transaction, no state.
Logout(r, s) ==
  /\ pc[r] = "idle" /\ "logout" \in Ops
  /\ sessions' = sessions \ {s}
  /\ UNCHANGED <<users, runs, pc, local, counters, closed>>

-----------------------------------------------------------------------------
(* identify, and what an identified request goes on to do *)

\* An upload or a withdrawal with no credentials, or with a dead cookie.
Anonymous(r, op) ==
  /\ pc[r] = "idle" /\ op \in {"upload", "withdraw"} \cap Ops
  /\ local' = [local EXCEPT ![r] = Nothing]
  /\ Goto(r, op)
  /\ UNCHANGED <<users, sessions, runs, counters, closed>>

\* Bearer: the account whose upload token it is.
ByToken(r, op, u) ==
  /\ pc[r] = "idle" /\ op \in {"upload", "withdraw", "password", "close"} \cap Ops
  /\ u \in LiveUsers
  /\ users[u].told
  /\ Remember(r, u, 0)
  /\ Goto(r, op)
  /\ UNCHANGED <<users, sessions, runs, counters, closed>>

\* A session cookie. change_password and close_account also check the password
\* given against the row read here.
ByCookie(r, op, s) ==
  /\ pc[r] = "idle" /\ op \in {"upload", "withdraw", "password", "close"} \cap Ops
  /\ s.user \in LiveUsers
  /\ Remember(r, s.user, s.sid)
  /\ Goto(r, op)
  /\ UNCHANGED <<users, sessions, runs, counters, closed>>

-----------------------------------------------------------------------------
(* POST /api/runs and DELETE /api/runs/<id> *)

\* Store.insert: the run and its records in one transaction, under the account
\* identified before the body was validated.
Insert(r) ==
  /\ pc[r] = "upload"
  /\ uploads < MaxUploads
  /\ \E id \in RunIds :
       /\ NextRowid(id, LiveRuns)
       /\ runs' = [runs EXCEPT ![id] = [owner |-> local[r].user, acct |-> local[r].acct,
                                        serial |-> uploads + 1]]
  /\ uploads' = uploads + 1
  /\ Finish(r)
  /\ UNCHANGED <<users, sessions, accounts, issued, closed>>

Owns(r, i) == local[r].user # 0 /\ runs[i].owner = local[r].user

\* The row the SELECT found, and whether the caller holds its delete token.
Selected(r, i, holds) ==
  /\ local' = [local EXCEPT ![r].ids = {i},
                            ![r].serial = IF holds THEN runs[i].serial ELSE 0,
                            ![r].mark = uploads]
  /\ Goto(r, "delete")
  /\ UNCHANGED <<users, sessions, runs, counters, closed>>

\* Mutant: the row is found, the claims are not looked at.
SelectRunUnclaimed(r) ==
  /\ pc[r] = "withdraw"
  /\ \E i \in LiveRuns, holds \in BOOLEAN : Selected(r, i, holds)

\* Store.delete, the SELECT: the run exists, and the caller holds its delete
\* token or is its owner. Any other withdrawal is refused and changes nothing.
SelectRun(r) ==
  /\ pc[r] = "withdraw"
  /\ \E i \in LiveRuns, holds \in BOOLEAN : (holds \/ Owns(r, i)) /\ Selected(r, i, holds)

WithoutRuns(ids) == [i \in RunIds |-> IF i \in ids THEN None ELSE runs[i]]

\* Store.delete, the transaction: the rows with that id.
DeleteRun(r) ==
  /\ pc[r] = "delete"
  /\ runs' = WithoutRuns(local[r].ids)
  /\ Finish(r)
  /\ UNCHANGED <<users, sessions, counters, closed>>

-----------------------------------------------------------------------------
(* /api/auth/password *)

\* set_password: UPDATE ... WHERE id. The new password is epoch + 1, of the
\* account that has the id now.
SetPassword(r) ==
  /\ pc[r] = "password"
  /\ LET u == local[r].user IN
     IF u \in LiveUsers
     THEN /\ users[u].epoch < MaxEpoch
          /\ users' = [users EXCEPT ![u].epoch = @ + 1]
          /\ local' = [local EXCEPT ![r].acct = users[u].acct,
                                    ![r].epoch = users[u].epoch + 1]
     ELSE UNCHANGED <<users, local>>
  /\ Goto(r, "signout")
  /\ UNCHANGED <<sessions, runs, counters, closed>>

SessionsOf(u) == {s \in sessions : s.user = u}

\* The password this request set is still the account's.
SetByThis(r) ==
  LET u == local[r].user IN
  u \in LiveUsers /\ users[u].acct = local[r].acct /\ users[u].epoch = local[r].epoch

\* `settled` is the last change whose handler has ended the sessions, `ended`
\* how many sessions there had been by then.
Settle(r) ==
  IF SetByThis(r)
  THEN users' = [users EXCEPT ![local[r].user].settled = local[r].epoch,
                              ![local[r].user].ended = issued]
  ELSE UNCHANGED users

\* Mutant: only the session that asked for the change is ended.
EndOwnSession(r) ==
  /\ pc[r] = "signout"
  /\ sessions' = {s \in sessions : s.sid # local[r].sid}
  /\ Settle(r)
  /\ Goto(r, "session")
  /\ UNCHANGED <<runs, local, counters, closed>>

\* end_all_sessions; start_session follows.
EndAllSessions(r) ==
  /\ pc[r] = "signout"
  /\ sessions' = sessions \ SessionsOf(local[r].user)
  /\ Settle(r)
  /\ Goto(r, "session")
  /\ UNCHANGED <<runs, local, counters, closed>>

-----------------------------------------------------------------------------
(* /api/auth/close *)

\* Store.close_account, the SELECT of the account's runs.
SelectOwnRuns(r) ==
  /\ pc[r] = "close"
  /\ local' = [local EXCEPT ![r].ids = {i \in LiveRuns : runs[i].owner = local[r].user},
                            ![r].mark = uploads]
  /\ Goto(r, "closing")
  /\ UNCHANGED <<users, sessions, runs, counters, closed>>

\* The account that has the id now, if there is one, and its sessions.
RemoveAccount(r) ==
  LET u == local[r].user IN
  /\ sessions' = sessions \ SessionsOf(u)
  /\ users' = [users EXCEPT ![u] = None]
  /\ closed' = IF u \in LiveUsers
               THEN [closed EXCEPT ![users[u].acct] = local[r].mark]
               ELSE closed

\* Mutant: closing an account leaves its runs behind.
CloseKeepingRuns(r) ==
  /\ pc[r] = "closing"
  /\ RemoveAccount(r)
  /\ Goto(r, "leave")
  /\ UNCHANGED <<runs, local, counters>>

\* Store.close_account, the transaction: the runs selected, the sessions and
\* the account.
CloseAccount(r) ==
  /\ pc[r] = "closing"
  /\ runs' = WithoutRuns(local[r].ids)
  /\ RemoveAccount(r)
  /\ Goto(r, "leave")
  /\ UNCHANGED <<local, counters>>

\* end_session: the cookie this request came with.
Leave(r) ==
  /\ pc[r] = "leave"
  /\ sessions' = {s \in sessions : s.sid # local[r].sid}
  /\ Finish(r)
  /\ UNCHANGED <<users, runs, counters, closed>>

-----------------------------------------------------------------------------

\* The handler ends between two transactions: the database stays locked past
\* its timeout, the body is invalid, the server is killed. What was committed
\* stays, the rest never happens.
Fail(r) ==
  /\ pc[r] # "idle"
  /\ Finish(r)
  /\ users' = IF pc[r] = "signout" /\ SetByThis(r)
              THEN [users EXCEPT ![local[r].user].lapsed = local[r].epoch]
              ELSE users
  /\ UNCHANGED <<sessions, runs, counters, closed>>

Step(r) ==
  \/ \E n \in Names : Register(r, n)
  \/ \E u \in UserIds : Login(r, u)
  \/ \E s \in sessions : Logout(r, s)
  \/ \E op \in Ops : Anonymous(r, op)
  \/ \E op \in Ops, u \in UserIds : ByToken(r, op, u)
  \/ \E op \in Ops, s \in sessions : ByCookie(r, op, s)
  \/ CreateUser(r)
  \/ CreateSession(r)
  \/ Insert(r)
  \/ SelectRun(r)
  \/ DeleteRun(r)
  \/ SetPassword(r)
  \/ EndAllSessions(r)
  \/ SelectOwnRuns(r)
  \/ CloseAccount(r)
  \/ Leave(r)
  \/ Fail(r)

Next == \E r \in Requests : Step(r)

Spec == Init /\ [][Next]_vars

-----------------------------------------------------------------------------
(* What holds whatever the requests in progress do to one another. *)

\* schema.sql, users_name: "two spellings of one name is an impersonation".
\* Two registrations racing for one name make one account.
NamesUnique ==
  \A u, v \in LiveUsers : users[u].name = users[v].name => u = v

\* No session outlives the account it signs in to, also when a login or a
\* password change races the closing of it.
SessionsHaveUsers == \A s \in sessions : s.user \in LiveUsers

-----------------------------------------------------------------------------
(* What becomes of runs and sessions when requests overlap. *)

\* web/README.md: "Closing one deletes its runs". All that can be left under a
\* closed account is what was stored after its closing had looked, by an
\* upload that identified the account before it was closed.
ClosingTakesStoredRuns ==
  \A i \in LiveRuns : runs[i].acct # 0 => runs[i].serial > closed[runs[i].acct]

Gone(a) == a # 0 /\ closed[a] # Open

\* The request may delete the run, or took it for one that it may delete.
Claimed(r, i) ==
  \/ runs[i].serial = local[r].serial
  \/ runs[i].acct # 0 /\ runs[i].acct = local[r].acct
  \/ runs[i].serial > local[r].mark
  \/ Gone(runs[i].acct) \/ Gone(local[r].acct)

\* server.py, Store.delete: a run is withdrawn "for whoever can show one of
\* the two claims to it". A run that a withdrawal or a closing deletes is one
\* whose token was shown or one of the account it acts for, but for what ids
\* given out again can do: the run was stored under the id after the request
\* looked, or its account or the request's has been closed.
DeletesTheClaimed ==
  [][\A r \in Requests : \A i \in LiveRuns :
       (pc[r] \in {"delete", "closing"} /\ pc'[r] # pc[r] /\ runs'[i] = None)
         => Claimed(r, i)]_vars

\* The change that set the account's present password has still to end its
\* sessions.
SignOutAhead(u) ==
  \E r \in Requests : pc[r] = "signout" /\ local[r].user = u /\ SetByThis(r)

\* server.py, change_password: "Every other browser goes with it". A session
\* of an account that is older than its password has one of three reasons:
\* the change is still to end it, the change failed between its transactions,
\* or a request that had checked an older password opened it after the change
\* had ended them all.
StaleSessionsExplained ==
  \A s \in sessions :
    LET a == users[s.user] IN
    (s.user \in LiveUsers /\ a.acct = s.acct /\ s.epoch < a.epoch) =>
      \/ SignOutAhead(s.user)
      \/ a.lapsed = a.epoch
      \/ a.settled = a.epoch /\ s.sid > a.ended

-----------------------------------------------------------------------------
(* What the source says, and overlapping requests break. *)

\* server.py, SUBMITTER: a run is shown under the account that uploaded it;
\* one whose account has been closed is shown "with no submitter".
ShownUnderUploader ==
  \A i \in LiveRuns :
    runs[i].owner \in LiveUsers => users[runs[i].owner].acct = runs[i].acct

\* server.py, change_password: "Every other browser goes with it". Once a
\* change has ended the account's sessions, every session of the account was
\* opened with that password or a later one.
ChangeEndsSessions ==
  \A s \in sessions :
    (s.user \in LiveUsers /\ users[s.user].acct = s.acct)
      => s.epoch >= users[s.user].settled

=============================================================================
