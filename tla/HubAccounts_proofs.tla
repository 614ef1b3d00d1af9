-------------------------- MODULE HubAccounts_proofs --------------------------
(***************************************************************************)
(* What the unique index and the foreign keys keep, and what a closing, a  *)
(* withdrawal and a change of password keep of their promises, for every   *)
(* number of requests in progress, names, accounts, sessions and runs, and *)
(* however their transactions interleave.                                  *)
(***************************************************************************)
EXTENDS HubAccounts, TLAPS

\* A request that creates a user has a name for it, and one that acts for a
\* user knows which account that was when it read the row.
LocalOK ==
  \A r \in Requests :
    /\ pc[r] = "create" => local[r].name \in Names
    /\ local[r].user # 0 => local[r].acct # 0

IInv == TypeOK /\ LocalOK /\ NamesUnique /\ SessionsHaveUsers

LEMMA NothingIsKnown == Nothing \in Knows
BY HubAssumption DEF Acting, Nothing, Knows

LEMMA LiveAccount ==
  ASSUME TypeOK, NEW u \in LiveUsers
  PROVE  /\ u \in UserIds /\ users[u] \in Account
         /\ users[u].acct \in 1..MaxAccounts /\ users[u].name \in Names
         /\ users[u].epoch \in 0..MaxEpoch /\ users[u].settled \in 0..MaxEpoch
         /\ users[u].ended \in 0..MaxSessions /\ users[u].lapsed \in 0..MaxEpoch
         /\ users[u].told \in BOOLEAN
<1>1. u \in UserIds /\ users[u] \in Account
  BY DEF TypeOK, LiveUsers
<1> QED BY <1>1 DEF Account

LEMMA InitIInv == Init => IInv
<1> SUFFICES ASSUME Init PROVE IInv
  OBVIOUS
<1>1. TypeOK
  <2>1. Open \in Open..MaxUploads
    BY HubAssumption DEF Open
  <2> QED BY <2>1, NothingIsKnown, HubAssumption DEF Init, TypeOK
<1>2. LiveUsers = {}
  BY DEF Init, LiveUsers
<1>3. LocalOK
  BY DEF Init, LocalOK, Acting, Nothing
<1>4. NamesUnique /\ SessionsHaveUsers
  BY <1>2 DEF Init, NamesUnique, SessionsHaveUsers
<1> QED BY <1>1, <1>3, <1>4 DEF IInv

\* Steps that leave the tables of users and sessions as they are, and what a
\* request goes on with in order.
LEMMA TablesKept ==
  ASSUME IInv, TypeOK', LocalOK', UNCHANGED <<users, sessions>>
  PROVE  IInv'
BY DEF IInv, NamesUnique, SessionsHaveUsers, LiveUsers

LEMMA FinishStep ==
  ASSUME IInv, NEW r \in Requests, Finish(r), UNCHANGED <<users, sessions, counters, closed>>,
         runs' \in [RunIds -> Run \cup {None}]
  PROVE  IInv'
<1>1. local' = [local EXCEPT ![r] = Nothing] /\ pc' = [pc EXCEPT ![r] = "idle"]
  BY DEF Finish, Goto
<1>2. TypeOK'
  BY <1>1, NothingIsKnown DEF IInv, TypeOK, counters
<1>3. LocalOK'
  BY <1>1 DEF IInv, TypeOK, LocalOK, Acting, Nothing
<1> QED BY <1>2, <1>3, TablesKept

LEMMA RememberStep ==
  ASSUME IInv, NEW r \in Requests, NEW u \in LiveUsers, NEW sid \in 0..MaxSessions,
         NEW step \in {"session", "upload", "withdraw", "password", "close"},
         Remember(r, u, sid), Goto(r, step),
         UNCHANGED <<users, sessions, runs, counters, closed>>
  PROVE  IInv'
<1> DEFINE new == Acting(u, users[u].acct, users[u].epoch, sid)
<1>1. local' = [local EXCEPT ![r] = new] /\ pc' = [pc EXCEPT ![r] = step]
  BY DEF Remember, Goto
<1>2. new \in Knows /\ new.user = u /\ new.acct # 0
  BY LiveAccount, HubAssumption DEF Acting, Nothing, Knows, IInv, UserIds
<1> HIDE DEF new
<1>3. TypeOK'
  BY <1>1, <1>2 DEF IInv, TypeOK, counters
<1>4. LocalOK'
  BY <1>1, <1>2 DEF IInv, TypeOK, LocalOK
<1> QED BY <1>3, <1>4, TablesKept

LEMMA RegisterStep ==
  ASSUME IInv, NEW r \in Requests, NEW n \in Names, Register(r, n)
  PROVE  IInv'
<1> DEFINE new == [Nothing EXCEPT !.name = n]
<1>1. local' = [local EXCEPT ![r] = new] /\ pc' = [pc EXCEPT ![r] = "create"]
  BY DEF Register, Goto
<1>2. new \in Knows /\ new.name = n /\ new.user = 0
  BY HubAssumption DEF Acting, Nothing, Knows
<1> HIDE DEF new
<1>3. TypeOK'
  BY <1>1, <1>2 DEF Register, IInv, TypeOK, counters
<1>4. LocalOK'
  BY <1>1, <1>2 DEF IInv, TypeOK, LocalOK
<1> QED BY <1>3, <1>4, TablesKept DEF Register

\* The index: nobody alive has the name when the row goes in.
LEMMA CreateUserStep ==
  ASSUME IInv, NEW r \in Requests, CreateUser(r)
  PROVE  IInv'
<1>1. CASE \E u \in LiveUsers : users[u].name = local[r].name
  <2>1. Finish(r) /\ UNCHANGED <<users, sessions, runs, counters, closed>>
    BY <1>1 DEF CreateUser, counters
  <2> QED BY <2>1, FinishStep DEF IInv, TypeOK
<1>2. CASE ~ \E u \in LiveUsers : users[u].name = local[r].name
  <2>1. PICK id \in UserIds :
          /\ NextRowid(id, LiveUsers)
          /\ users' = [users EXCEPT ![id] = NewAccount(local[r].name)]
          /\ local' = [local EXCEPT ![r] = Acting(id, accounts + 1, 0, 0)]
    BY <1>2 DEF CreateUser
  <2>2. /\ pc[r] = "create" /\ pc' = [pc EXCEPT ![r] = "session"]
        /\ accounts < MaxAccounts /\ accounts' = accounts + 1
        /\ UNCHANGED <<sessions, runs, issued, uploads, closed>>
    BY <1>2 DEF CreateUser, Goto
  <2> DEFINE row == NewAccount(local[r].name)
             new == Acting(id, accounts + 1, 0, 0)
  <2>3. row \in Account /\ row # None /\ row.name = local[r].name
    <3>1. accounts + 1 \in 1..MaxAccounts /\ 0 \in 0..MaxEpoch /\ 0 \in 0..MaxSessions
          /\ local[r].name \in Names
      BY <2>2, HubAssumption DEF IInv, TypeOK, LocalOK
    <3>2. row \in Account /\ row.name = local[r].name
      BY <3>1 DEF NewAccount, Account
    <3> QED BY <3>2, NoRowAssumption
  <2>4. new \in Knows /\ new.user = id /\ new.acct # 0
    <3>1. /\ accounts + 1 \in 0..MaxAccounts /\ accounts + 1 # 0 /\ id \in 0..MaxAccounts
          /\ 0 \in 0..MaxEpoch /\ 0 \in 0..MaxSessions /\ 0 \in 0..MaxUploads
      BY <2>2, HubAssumption DEF IInv, TypeOK, UserIds
    <3> QED BY <3>1 DEF Acting, Knows
  <2> HIDE DEF row, new
  <2>5. TypeOK'
    <3>1. users' \in [UserIds -> Account \cup {None}]
      BY <2>1, <2>3 DEF IInv, TypeOK, row
    <3>2. local' \in [Requests -> Knows]
      BY <2>1, <2>4 DEF IInv, TypeOK, new
    <3>3. accounts' \in 0..MaxAccounts
      BY <2>2, HubAssumption DEF IInv, TypeOK
    <3> QED BY <2>2, <3>1, <3>2, <3>3 DEF IInv, TypeOK
  <2>6. LocalOK'
    BY <2>1, <2>2, <2>4 DEF IInv, TypeOK, LocalOK, new
  <2>7. LiveUsers' = LiveUsers \cup {id}
    BY <2>1, <2>3 DEF LiveUsers, IInv, TypeOK, row
  <2>8. users'[id].name = local[r].name
        /\ \A u \in LiveUsers \ {id} : users'[u] = users[u]
    BY <2>1, <2>3 DEF IInv, TypeOK, LiveUsers, row
  <2>9. NamesUnique'
    BY <1>2, <2>7, <2>8 DEF IInv, NamesUnique
  <2>10. SessionsHaveUsers'
    BY <2>2, <2>7 DEF IInv, SessionsHaveUsers
  <2> QED BY <2>5, <2>6, <2>9, <2>10 DEF IInv
<1> QED BY <1>1, <1>2

\* The foreign key: the user is there when the session goes in.
LEMMA CreateSessionStep ==
  ASSUME IInv, NEW r \in Requests, CreateSession(r)
  PROVE  IInv'
<1>1. /\ Finish(r) /\ issued < MaxSessions /\ UNCHANGED <<runs, accounts, uploads, closed>>
  BY DEF CreateSession
<1>2. CASE local[r].user \notin LiveUsers
  BY <1>1, <1>2, FinishStep DEF CreateSession, counters, IInv, TypeOK
<1>3. CASE local[r].user \in LiveUsers
  <2> DEFINE u == local[r].user
             s == [sid |-> issued + 1, user |-> u, acct |-> local[r].acct,
                   epoch |-> local[r].epoch]
             row == [users[u] EXCEPT !.told = TRUE]
  <2>1. /\ sessions' = sessions \cup {s}
        /\ issued' = issued + 1
        /\ users' = [users EXCEPT ![u].told = TRUE]
        /\ local' = [local EXCEPT ![r] = Nothing]
        /\ pc' = [pc EXCEPT ![r] = "idle"]
    BY <1>1, <1>3 DEF CreateSession, Finish, Goto
  <2>2. u \in UserIds /\ users[u] \in Account
    BY <1>3, LiveAccount DEF IInv
  <2>3. row \in Account /\ row # None /\ row.name = users[u].name
    BY <2>2, NoRowAssumption DEF Account
  <2>4. local[r] \in Knows /\ local[r].acct # 0
    BY <2>2 DEF IInv, TypeOK, LocalOK, UserIds
  <2>5. s \in Session /\ s.user = u
    BY <1>1, <2>2, <2>4, HubAssumption DEF Session, Knows, IInv, TypeOK
  <2>6. users' = [users EXCEPT ![u] = row]
    BY <2>1
  <2> HIDE DEF u, s, row
  <2>7. TypeOK'
    <3>1. users' \in [UserIds -> Account \cup {None}]
      BY <2>2, <2>3, <2>6 DEF IInv, TypeOK
    <3>2. sessions' \subseteq Session
      BY <2>1, <2>5 DEF IInv, TypeOK
    <3>3. issued' \in 0..MaxSessions
      BY <1>1, <2>1, HubAssumption DEF IInv, TypeOK
    <3>4. local' \in [Requests -> Knows]
      BY <2>1, NothingIsKnown DEF IInv, TypeOK
    <3> QED BY <1>1, <2>1, <3>1, <3>2, <3>3, <3>4 DEF IInv, TypeOK
  <2>8. LocalOK'
    BY <2>1 DEF IInv, TypeOK, LocalOK, Acting, Nothing
  <2>9. LiveUsers' = LiveUsers /\ \A v \in LiveUsers : users'[v].name = users[v].name
    BY <1>3, <2>2, <2>3, <2>6 DEF LiveUsers, IInv, TypeOK, u
  <2>10. NamesUnique'
    BY <2>9 DEF IInv, NamesUnique
  <2>11. SessionsHaveUsers'
    BY <1>3, <2>1, <2>5, <2>9 DEF IInv, SessionsHaveUsers, u
  <2> QED BY <2>7, <2>8, <2>10, <2>11 DEF IInv
<1> QED BY <1>2, <1>3

LEMMA UploadStep ==
  ASSUME IInv, NEW r \in Requests, Insert(r)
  PROVE  IInv'
<1>1. PICK id \in RunIds :
        runs' = [runs EXCEPT ![id] = [owner |-> local[r].user, acct |-> local[r].acct,
                                      serial |-> uploads + 1]]
  BY DEF Insert
<1>2. Finish(r) /\ uploads < MaxUploads /\ uploads' = uploads + 1
      /\ UNCHANGED <<users, sessions, accounts, issued, closed>>
  BY DEF Insert
<1>3. uploads' \in 0..MaxUploads /\ uploads + 1 \in 1..MaxUploads
  BY <1>2, HubAssumption DEF IInv, TypeOK
<1>4. local[r].user \in 0..MaxAccounts /\ local[r].acct \in 0..MaxAccounts
  BY DEF IInv, TypeOK, Knows
<1>5. runs' \in [RunIds -> Run \cup {None}]
  BY <1>1, <1>3, <1>4 DEF IInv, TypeOK, Run
<1>6. TypeOK'
  BY <1>2, <1>3, <1>5, NothingIsKnown DEF IInv, TypeOK, Finish, Goto
<1>7. LocalOK'
  BY <1>2 DEF IInv, TypeOK, LocalOK, Finish, Goto, Acting, Nothing
<1> QED BY <1>2, <1>6, <1>7, TablesKept

\* A step that keeps a request at work on the same account, whatever it does
\* to the tables as long as they stay tables.
LEMMA GoesOn ==
  ASSUME IInv, NEW r \in Requests, NEW row \in Knows,
         row.user = local[r].user, row.user # 0 => row.acct # 0,
         local' = [local EXCEPT ![r] = row],
         NEW step \in {"session", "delete", "signout", "closing", "leave"},
         pc' = [pc EXCEPT ![r] = step],
         users' \in [UserIds -> Account \cup {None}],
         sessions' \subseteq Session,
         runs' \in [RunIds -> Run \cup {None}],
         closed' \in [1..MaxAccounts -> Open..MaxUploads],
         UNCHANGED counters
  PROVE  TypeOK' /\ LocalOK'
<1>1. TypeOK'
  BY DEF IInv, TypeOK, counters
<1>2. LocalOK'
  BY DEF IInv, TypeOK, LocalOK
<1> QED BY <1>1, <1>2

\* No account comes, goes or changes its name, and no session is added.
LEMMA AccountsKept ==
  ASSUME IInv, LiveUsers' = LiveUsers,
         \A u \in LiveUsers : users'[u].name = users[u].name,
         sessions' \subseteq sessions
  PROVE  NamesUnique' /\ SessionsHaveUsers'
BY DEF IInv, NamesUnique, SessionsHaveUsers

LEMMA UpdateAccount ==
  ASSUME IInv, NEW u \in LiveUsers, NEW row \in Account, row.name = users[u].name,
         users' = [users EXCEPT ![u] = row]
  PROVE  /\ users' \in [UserIds -> Account \cup {None}]
         /\ LiveUsers' = LiveUsers
         /\ \A v \in LiveUsers : users'[v].name = users[v].name
<1>1. u \in UserIds /\ row # None
  BY LiveAccount, NoRowAssumption DEF IInv
<1> QED BY <1>1 DEF LiveUsers, IInv, TypeOK

LEMMA SelectStep ==
  ASSUME IInv, NEW r \in Requests, SelectRun(r) \/ SelectOwnRuns(r)
  PROVE  IInv'
<1>1. local[r] \in Knows
  BY DEF IInv, TypeOK
<1>2. PICK row \in Knows, step \in {"delete", "closing"} :
        /\ row.user = local[r].user /\ row.acct = local[r].acct
        /\ local' = [local EXCEPT ![r] = row]
        /\ pc' = [pc EXCEPT ![r] = step]
  <2>1. CASE SelectRun(r)
    <3>1. PICK i \in LiveRuns, holds \in BOOLEAN : Selected(r, i, holds)
      BY <2>1 DEF SelectRun
    <3> DEFINE serial == IF holds THEN runs[i].serial ELSE 0
               row == [local[r] EXCEPT !.ids = {i}, !.serial = serial, !.mark = uploads]
    <3>2. {i} \in SUBSET RunIds /\ serial \in 0..MaxUploads /\ uploads \in 0..MaxUploads
      BY HubAssumption DEF LiveRuns, IInv, TypeOK, Run
    <3>3. local' = [local EXCEPT ![r] = row] /\ pc' = [pc EXCEPT ![r] = "delete"]
      BY <3>1 DEF Selected, Goto, IInv, TypeOK
    <3> HIDE DEF serial
    <3>4. row \in Knows /\ row.user = local[r].user /\ row.acct = local[r].acct
      BY <1>1, <3>2 DEF Knows
    <3> HIDE DEF row
    <3> QED BY <3>3, <3>4
  <2>2. CASE SelectOwnRuns(r)
    <3> DEFINE ids == {i \in LiveRuns : runs[i].owner = local[r].user}
               row == [local[r] EXCEPT !.ids = ids, !.mark = uploads]
    <3>1. ids \in SUBSET RunIds /\ uploads \in 0..MaxUploads
      BY DEF LiveRuns, IInv, TypeOK
    <3>2. row \in Knows /\ row.user = local[r].user /\ row.acct = local[r].acct
      BY <1>1, <3>1 DEF Knows
    <3>3. local' = [local EXCEPT ![r] = row] /\ pc' = [pc EXCEPT ![r] = "closing"]
      BY <2>2 DEF SelectOwnRuns, Goto, IInv, TypeOK
    <3> HIDE DEF row
    <3> QED BY <3>2, <3>3
  <2> QED BY <2>1, <2>2
<1>3. UNCHANGED <<users, sessions, runs, counters, closed>>
  BY DEF SelectRun, Selected, SelectOwnRuns
<1>4. local[r].user # 0 => local[r].acct # 0
  BY DEF IInv, LocalOK
<1>5. TypeOK' /\ LocalOK'
  BY <1>2, <1>3, <1>4, GoesOn DEF IInv, TypeOK
<1> QED BY <1>3, <1>5, TablesKept

LEMMA DeleteStep ==
  ASSUME IInv, NEW r \in Requests, DeleteRun(r)
  PROVE  IInv'
<1>1. runs' \in [RunIds -> Run \cup {None}]
  BY DEF DeleteRun, WithoutRuns, IInv, TypeOK
<1> QED BY <1>1, FinishStep DEF DeleteRun

LEMMA SetPasswordStep ==
  ASSUME IInv, NEW r \in Requests, SetPassword(r)
  PROVE  IInv'
<1> DEFINE u == local[r].user
<1>1. local[r] \in Knows /\ pc' = [pc EXCEPT ![r] = "signout"]
      /\ UNCHANGED <<sessions, runs, counters, closed>>
  BY DEF SetPassword, Goto, IInv, TypeOK
<1>2. CASE u \notin LiveUsers
  <2>1. UNCHANGED users /\ local' = [local EXCEPT ![r] = local[r]]
    BY <1>2 DEF SetPassword, IInv, TypeOK
  <2>2. TypeOK' /\ LocalOK'
    BY <1>1, <2>1, GoesOn DEF IInv, TypeOK, LocalOK
  <2> QED BY <1>1, <2>1, <2>2, TablesKept
<1>3. CASE u \in LiveUsers
  <2> DEFINE e == users[u].epoch + 1
             row == [users[u] EXCEPT !.epoch = e]
             know == [local[r] EXCEPT !.acct = users[u].acct, !.epoch = e]
  <2>1. users[u] \in Account /\ users[u].epoch \in 0..MaxEpoch
        /\ users[u].acct \in 1..MaxAccounts
    BY <1>3, LiveAccount DEF IInv
  <2>2. e \in 0..MaxEpoch
    BY <1>3, <2>1, HubAssumption DEF SetPassword
  <2>3. users' = [users EXCEPT ![u] = row] /\ local' = [local EXCEPT ![r] = know]
    BY <1>3 DEF SetPassword, IInv, TypeOK
  <2> HIDE DEF e
  <2>4. row \in Account /\ row.name = users[u].name
    BY <2>1, <2>2 DEF Account
  <2>5. know \in Knows /\ know.user = local[r].user /\ know.acct # 0
    <3>1. users[u].acct \in 0..MaxAccounts /\ users[u].acct # 0
      BY <2>1, HubAssumption
    <3> QED BY <1>1, <2>2, <3>1 DEF Knows
  <2> HIDE DEF row, know, u
  <2>6. /\ users' \in [UserIds -> Account \cup {None}]
        /\ LiveUsers' = LiveUsers
        /\ \A v \in LiveUsers : users'[v].name = users[v].name
    BY <1>3, <2>3, <2>4, UpdateAccount
  <2>7. TypeOK' /\ LocalOK'
    BY <1>1, <2>3, <2>5, <2>6, GoesOn DEF IInv, TypeOK
  <2> QED BY <1>1, <2>6, <2>7, AccountsKept DEF IInv
<1> QED BY <1>2, <1>3

LEMMA EndAllSessionsStep ==
  ASSUME IInv, NEW r \in Requests, EndAllSessions(r)
  PROVE  IInv'
<1> DEFINE u == local[r].user
<1>1. /\ local[r] \in Knows /\ pc' = [pc EXCEPT ![r] = "session"]
      /\ local' = [local EXCEPT ![r] = local[r]]
      /\ sessions' \subseteq sessions
      /\ UNCHANGED <<runs, counters, closed>>
  BY DEF EndAllSessions, Goto, IInv, TypeOK
<1>2. /\ users' \in [UserIds -> Account \cup {None}]
      /\ LiveUsers' = LiveUsers
      /\ \A v \in LiveUsers : users'[v].name = users[v].name
  <2>1. CASE UNCHANGED users
    BY <2>1 DEF IInv, TypeOK, LiveUsers
  <2>2. CASE ~ UNCHANGED users
    <3> DEFINE row == [users[u] EXCEPT !.settled = local[r].epoch, !.ended = issued]
    <3>1. u \in LiveUsers /\ users' = [users EXCEPT ![u] = row]
      BY <2>2 DEF EndAllSessions, Settle, SetByThis, IInv, TypeOK
    <3>2. users[u] \in Account /\ local[r].epoch \in 0..MaxEpoch /\ issued \in 0..MaxSessions
      BY <1>1, <3>1, LiveAccount DEF IInv, TypeOK, Knows
    <3>3. row \in Account /\ row.name = users[u].name
      BY <3>2 DEF Account
    <3> HIDE DEF row, u
    <3> QED BY <3>1, <3>3, UpdateAccount
  <2> QED BY <2>1, <2>2
<1>3. TypeOK' /\ LocalOK'
  BY <1>1, <1>2, GoesOn DEF IInv, TypeOK, LocalOK
<1> QED BY <1>1, <1>2, <1>3, AccountsKept DEF IInv

\* The account goes, and with it every session that has its id.
LEMMA CloseAccountStep ==
  ASSUME IInv, NEW r \in Requests, CloseAccount(r)
  PROVE  IInv'
<1> DEFINE u == local[r].user
<1>1. /\ local[r] \in Knows /\ pc' = [pc EXCEPT ![r] = "leave"]
      /\ local' = [local EXCEPT ![r] = local[r]]
      /\ users' = [users EXCEPT ![u] = None]
      /\ sessions' = {s \in sessions : s.user # u}
      /\ UNCHANGED counters
  BY DEF CloseAccount, RemoveAccount, SessionsOf, Goto, IInv, TypeOK
<1>2. runs' \in [RunIds -> Run \cup {None}]
  BY DEF CloseAccount, WithoutRuns, IInv, TypeOK
<1>6. closed' \in [1..MaxAccounts -> Open..MaxUploads]
  <2>1. local[r].mark \in Open..MaxUploads
    BY <1>1, HubAssumption DEF Knows, Open
  <2> QED BY <2>1 DEF CloseAccount, RemoveAccount, IInv, TypeOK
<1>3. TypeOK' /\ LocalOK'
  BY <1>1, <1>2, <1>6, GoesOn DEF IInv, TypeOK, LocalOK
<1>4. LiveUsers' = LiveUsers \ {u} /\ \A v \in LiveUsers' : users'[v] = users[v]
  BY <1>1 DEF LiveUsers, IInv, TypeOK
<1>5. NamesUnique' /\ SessionsHaveUsers'
  BY <1>1, <1>4 DEF IInv, NamesUnique, SessionsHaveUsers
<1> QED BY <1>3, <1>5 DEF IInv

\* Steps that only end sessions.
LEMMA SessionsEnd ==
  ASSUME IInv, NEW r \in Requests,
         Leave(r) \/ (\E s \in sessions : Logout(r, s)) \/ UNCHANGED vars
  PROVE  IInv'
<1>1. sessions' \subseteq sessions /\ UNCHANGED <<users, runs, counters, closed>>
  BY DEF Leave, Logout, vars, counters
<1>2. TypeOK'
  BY <1>1, NothingIsKnown DEF Leave, Logout, vars, Finish, Goto, IInv, TypeOK, counters
<1>3. LocalOK'
  BY DEF Leave, Logout, vars, Finish, Goto, Acting, Nothing, IInv, TypeOK, LocalOK
<1>4. LiveUsers' = LiveUsers
  BY <1>1 DEF LiveUsers
<1> QED BY <1>1, <1>2, <1>3, <1>4, AccountsKept DEF IInv

\* A request that fails is remembered by the account whose password it set.
LEMMA FailStep ==
  ASSUME IInv, NEW r \in Requests, Fail(r)
  PROVE  IInv'
<1>1. CASE UNCHANGED users
  BY <1>1, FinishStep DEF Fail, IInv, TypeOK
<1>2. CASE ~ UNCHANGED users
  <2> DEFINE u == local[r].user
             row == [users[u] EXCEPT !.lapsed = local[r].epoch]
  <2>1. /\ u \in LiveUsers /\ users' = [users EXCEPT ![u] = row]
        /\ Finish(r) /\ UNCHANGED <<sessions, runs, counters, closed>>
    BY <1>2 DEF Fail, SetByThis, IInv, TypeOK
  <2>2. users[u] \in Account /\ local[r].epoch \in 0..MaxEpoch
    BY <2>1, LiveAccount DEF IInv, TypeOK, Knows
  <2>3. row \in Account /\ row.name = users[u].name
    BY <2>2 DEF Account
  <2> HIDE DEF row, u
  <2>4. /\ users' \in [UserIds -> Account \cup {None}]
        /\ LiveUsers' = LiveUsers
        /\ \A v \in LiveUsers : users'[v].name = users[v].name
    BY <2>1, <2>3, UpdateAccount
  <2>5. TypeOK'
    BY <2>1, <2>4, NothingIsKnown DEF Finish, Goto, IInv, TypeOK, counters
  <2>6. LocalOK'
    BY <2>1 DEF Finish, Goto, Acting, Nothing, IInv, TypeOK, LocalOK
  <2> QED BY <2>1, <2>4, <2>5, <2>6, AccountsKept DEF IInv
<1> QED BY <1>1, <1>2

LEMMA IdentifyStep ==
  ASSUME IInv, NEW r \in Requests,
         \/ \E u \in UserIds : Login(r, u)
         \/ \E op \in Ops : Anonymous(r, op)
         \/ \E op \in Ops, u \in UserIds : ByToken(r, op, u)
         \/ \E op \in Ops, s \in sessions : ByCookie(r, op, s)
  PROVE  IInv'
<1> DEFINE Ways == {"session", "upload", "withdraw", "password", "close"}
<1>1. ASSUME NEW u \in UserIds, Login(r, u) PROVE IInv'
  BY <1>1, RememberStep, HubAssumption DEF Login
<1>2. ASSUME NEW op \in Ops, NEW u \in UserIds, ByToken(r, op, u) PROVE IInv'
  BY <1>2, RememberStep, HubAssumption DEF ByToken
<1>3. ASSUME NEW op \in Ops, NEW s \in sessions, ByCookie(r, op, s) PROVE IInv'
  <2>1. s.sid \in 0..MaxSessions
    BY HubAssumption DEF IInv, TypeOK, Session
  <2> QED BY <1>3, <2>1, RememberStep DEF ByCookie
<1>4. ASSUME NEW op \in Ops, Anonymous(r, op) PROVE IInv'
  <2>1. TypeOK'
    BY <1>4, NothingIsKnown DEF Anonymous, Goto, IInv, TypeOK, counters
  <2>2. LocalOK'
    BY <1>4 DEF Anonymous, Goto, Acting, Nothing, IInv, TypeOK, LocalOK
  <2> QED BY <1>4, <2>1, <2>2, TablesKept DEF Anonymous
<1> QED BY <1>1, <1>2, <1>3, <1>4

\* A step of any request, or of none, keeps the invariant.
LEMMA NextIInv == IInv /\ [Next]_vars => IInv'
<1>1. ASSUME IInv, NEW r \in Requests, Step(r) PROVE IInv'
  BY <1>1, RegisterStep, IdentifyStep, CreateUserStep, CreateSessionStep, UploadStep,
     SelectStep, DeleteStep, SetPasswordStep, EndAllSessionsStep, CloseAccountStep,
     FailStep, SessionsEnd DEF Step
<1>2. ASSUME IInv, UNCHANGED vars PROVE IInv'
  <2>1. TypeOK' /\ LocalOK'
    BY <1>2 DEF IInv, TypeOK, LocalOK, vars, counters
  <2> QED BY <1>2, <2>1, TablesKept DEF vars
<1> QED BY <1>1, <1>2 DEF Next

\* Types, the index and the foreign key, together inductive.
THEOREM Inductive == Spec => []IInv
BY InitIInv, NextIInv, PTL DEF Spec

\* Every reachable state has the types declared for it.
THEOREM TypeCorrect == Spec => []TypeOK
<1>1. IInv => TypeOK
  BY DEF IInv
<1> QED BY <1>1, Inductive, PTL

\* One account to a name, however registrations race.
THEOREM OneAccountPerName == Spec => []NamesUnique
<1>1. IInv => NamesUnique
  BY DEF IInv
<1> QED BY <1>1, Inductive, PTL

\* No session without its user, however logins race closings.
THEOREM NoOrphanSession == Spec => []SessionsHaveUsers
<1>1. IInv => SessionsHaveUsers
  BY DEF IInv
<1> QED BY <1>1, Inductive, PTL

-----------------------------------------------------------------------------
(* What each step does, field by field. *)

\* What a request does leaves the others where they are.
Others(r) == \A q \in Requests \ {r} : pc'[q] = pc[q] /\ local'[q] = local[q]

LEMMA FinishDoes ==
  ASSUME IInv, NEW r \in Requests, Finish(r)
  PROVE  /\ Others(r) /\ pc'[r] = "idle"
         /\ local'[r].user = 0 /\ local'[r].acct = 0 /\ local'[r].mark = 0
BY DEF Finish, Goto, Acting, Nothing, Others, IInv, TypeOK

\* A request reads a row, or none.
LEMMA BeginDoes ==
  ASSUME IInv, NEW r \in Requests,
         \/ \E n \in Names : Register(r, n)
         \/ \E u \in UserIds : Login(r, u)
         \/ \E op \in Ops : Anonymous(r, op)
         \/ \E op \in Ops, u \in UserIds : ByToken(r, op, u)
         \/ \E op \in Ops, s \in sessions : ByCookie(r, op, s)
  PROVE  /\ UNCHANGED <<users, sessions, runs, counters, closed>> /\ Others(r)
         /\ pc[r] = "idle" /\ pc'[r] \notin {"signout", "delete", "closing"}
         /\ local'[r].mark = 0
         /\ \/ local'[r].user = 0 /\ local'[r].acct = 0 /\ pc'[r] # "close"
            \/ \E u \in LiveUsers : local'[r].user = u /\ local'[r].acct = users[u].acct
<1>1. CASE \E n \in Names : Register(r, n)
  BY <1>1 DEF Register, Goto, Acting, Nothing, Others, IInv, TypeOK
<1>2. CASE \E op \in Ops : Anonymous(r, op)
  BY <1>2 DEF Anonymous, Goto, Acting, Nothing, Others, IInv, TypeOK
<1>3. CASE \/ \E u \in UserIds : Login(r, u)
           \/ \E op \in Ops, u \in UserIds : ByToken(r, op, u)
           \/ \E op \in Ops, s \in sessions : ByCookie(r, op, s)
  <2>1. PICK u \in LiveUsers, sid \in Int,
             step \in {"session", "upload", "withdraw", "password", "close"} :
          Remember(r, u, sid) /\ Goto(r, step)
    BY <1>3 DEF Login, ByToken, ByCookie, IInv, TypeOK, Session
  <2>2. /\ local'[r] = Acting(u, users[u].acct, users[u].epoch, sid)
        /\ pc'[r] = step /\ Others(r)
    BY <2>1 DEF Remember, Goto, Others, IInv, TypeOK
  <2>3. UNCHANGED <<users, sessions, runs, counters, closed>> /\ pc[r] = "idle"
    BY <1>3 DEF Login, ByToken, ByCookie
  <2> QED BY <2>2, <2>3 DEF Acting
<1> QED BY <1>1, <1>2, <1>3

\* The rows of the accounts, but for what tells its owner.
SameRow(a, b) ==
  /\ a.acct = b.acct /\ a.epoch = b.epoch /\ a.settled = b.settled
  /\ a.ended = b.ended /\ a.lapsed = b.lapsed

LEMMA CreateUserDoes ==
  ASSUME IInv, NEW r \in Requests, CreateUser(r)
  PROVE  /\ Others(r) /\ pc[r] = "create" /\ pc'[r] \in {"idle", "session"}
         /\ local'[r].mark = 0
         /\ UNCHANGED <<sessions, runs, issued, uploads, closed>>
         /\ \/ UNCHANGED <<users, accounts>> /\ local'[r].user = 0 /\ local'[r].acct = 0
            \/ \E id \in UserIds \ LiveUsers :
                 /\ LiveUsers' = LiveUsers \cup {id}
                 /\ \A u \in LiveUsers : users'[u] = users[u]
                 /\ users'[id].acct = accounts + 1 /\ users'[id].epoch = 0
                 /\ users'[id].settled = 0 /\ users'[id].ended = 0
                 /\ accounts < MaxAccounts /\ accounts' = accounts + 1
                 /\ local'[r].user = id /\ local'[r].acct = accounts + 1
<1>1. UNCHANGED <<sessions, runs, issued, uploads, closed>> /\ pc[r] = "create"
  BY DEF CreateUser
<1>2. CASE Finish(r) /\ UNCHANGED <<users, accounts>>
  BY <1>1, <1>2, FinishDoes
<1>3. CASE ~ (Finish(r) /\ UNCHANGED <<users, accounts>>)
  <2>1. PICK id \in UserIds :
          /\ NextRowid(id, LiveUsers)
          /\ users' = [users EXCEPT ![id] = NewAccount(local[r].name)]
          /\ local' = [local EXCEPT ![r] = Acting(id, accounts + 1, 0, 0)]
    BY <1>3 DEF CreateUser
  <2>2. pc' = [pc EXCEPT ![r] = "session"] /\ accounts < MaxAccounts /\ accounts' = accounts + 1
    BY <1>3 DEF CreateUser, Goto
  <2>3. id \notin LiveUsers
    BY <2>1 DEF NextRowid, LiveUsers, UserIds
  <2> DEFINE row == NewAccount(local[r].name)
  <2>4. row.acct = accounts + 1 /\ row.epoch = 0 /\ row.settled = 0 /\ row.ended = 0
    BY DEF NewAccount
  <2>5. row \in Account
    <3>1. accounts + 1 \in 1..MaxAccounts /\ 0 \in 0..MaxEpoch /\ 0 \in 0..MaxSessions
          /\ local[r].name \in Names
      BY <1>1, <2>2, HubAssumption DEF IInv, TypeOK, LocalOK
    <3> QED BY <3>1 DEF NewAccount, Account
  <2> HIDE DEF row
  <2>6. users'[id] = row /\ row # None /\ \A u \in LiveUsers : users'[u] = users[u]
    BY <2>1, <2>3, <2>5, NoRowAssumption DEF LiveUsers, IInv, TypeOK, row
  <2>7. LiveUsers' = LiveUsers \cup {id}
    BY <2>1, <2>6 DEF LiveUsers, IInv, TypeOK
  <2>8. /\ local'[r] = Acting(id, accounts + 1, 0, 0) /\ pc'[r] = "session"
        /\ Others(r)
    BY <2>1, <2>2 DEF Others, IInv, TypeOK
  <2>9. /\ local'[r].user = id /\ local'[r].acct = accounts + 1 /\ local'[r].mark = 0
    BY <2>8 DEF Acting
  <2> QED BY <1>1, <2>2, <2>3, <2>4, <2>6, <2>7, <2>8, <2>9
<1> QED BY <1>2, <1>3

\* A change of one row.
LEMMA RowUpdate ==
  ASSUME IInv, NEW u \in LiveUsers, NEW row \in Account,
         users' = [users EXCEPT ![u] = row]
  PROVE  LiveUsers' = LiveUsers /\ users'[u] = row
         /\ \A v \in LiveUsers \ {u} : users'[v] = users[v]
<1>1. u \in UserIds /\ row # None
  BY LiveAccount, NoRowAssumption DEF IInv
<1> QED BY <1>1 DEF LiveUsers, IInv, TypeOK

LEMMA CreateSessionDoes ==
  ASSUME IInv, NEW r \in Requests, CreateSession(r)
  PROVE  /\ Finish(r) /\ pc[r] = "session" /\ UNCHANGED <<runs, accounts, uploads, closed>>
         /\ LiveUsers' = LiveUsers
         /\ \A v \in LiveUsers : SameRow(users'[v], users[v])
         /\ \/ UNCHANGED <<sessions, issued>>
            \/ /\ local[r].user \in LiveUsers /\ issued' = issued + 1
               /\ sessions' = sessions \cup
                    {[sid |-> issued + 1, user |-> local[r].user,
                      acct |-> local[r].acct, epoch |-> local[r].epoch]}
<1>1. Finish(r) /\ pc[r] = "session" /\ UNCHANGED <<runs, accounts, uploads, closed>>
  BY DEF CreateSession
<1>2. CASE local[r].user \notin LiveUsers
  BY <1>1, <1>2 DEF CreateSession, LiveUsers, SameRow
<1>3. CASE local[r].user \in LiveUsers
  <2> DEFINE u == local[r].user
             row == [users[u] EXCEPT !.told = TRUE]
  <2>1. /\ issued' = issued + 1
        /\ sessions' = sessions \cup
             {[sid |-> issued + 1, user |-> u, acct |-> local[r].acct,
               epoch |-> local[r].epoch]}
        /\ users' = [users EXCEPT ![u] = row]
    BY <1>3 DEF CreateSession
  <2>2. row \in Account /\ SameRow(row, users[u])
    BY <1>3, LiveAccount DEF Account, SameRow, IInv
  <2> HIDE DEF row
  <2>3. LiveUsers' = LiveUsers /\ users'[u] = row
        /\ \A v \in LiveUsers \ {u} : users'[v] = users[v]
    BY <1>3, <2>1, <2>2, RowUpdate
  <2>4. \A v \in LiveUsers : SameRow(users'[v], users[v])
    BY <2>2, <2>3 DEF SameRow
  <2> QED BY <1>1, <1>3, <2>1, <2>3, <2>4
<1> QED BY <1>2, <1>3

LEMMA SetPasswordDoes ==
  ASSUME IInv, NEW r \in Requests, SetPassword(r)
  PROVE  /\ Others(r) /\ pc[r] = "password" /\ pc'[r] = "signout"
         /\ UNCHANGED <<sessions, runs, counters, closed>> /\ LiveUsers' = LiveUsers
         /\ local'[r].user = local[r].user /\ local'[r].mark = local[r].mark
         /\ \A v \in LiveUsers \ {local[r].user} : users'[v] = users[v]
         /\ IF local[r].user \notin LiveUsers THEN local'[r].acct = local[r].acct
            ELSE LET a == users[local[r].user]
                     b == users'[local[r].user] IN
                 /\ b.acct = a.acct /\ b.settled = a.settled
                 /\ b.ended = a.ended /\ b.lapsed = a.lapsed
                 /\ local'[r].acct = b.acct /\ local'[r].epoch = b.epoch
<1> DEFINE u == local[r].user
<1>1. /\ UNCHANGED <<sessions, runs, counters, closed>> /\ pc[r] = "password"
      /\ pc' = [pc EXCEPT ![r] = "signout"] /\ local[r] \in Knows
  BY DEF SetPassword, Goto, IInv, TypeOK
<1>2. CASE u \notin LiveUsers
  <2>1. UNCHANGED <<users, local>> /\ LiveUsers' = LiveUsers
    BY <1>2 DEF SetPassword, LiveUsers
  <2> QED BY <1>1, <1>2, <2>1 DEF Others, IInv, TypeOK
<1>3. CASE u \in LiveUsers
  <2> DEFINE e == users[u].epoch + 1
             row == [users[u] EXCEPT !.epoch = e]
             know == [local[r] EXCEPT !.acct = users[u].acct, !.epoch = e]
  <2>1. users[u] \in Account /\ users[u].epoch \in 0..MaxEpoch
    BY <1>3, LiveAccount DEF IInv
  <2>2. e \in 0..MaxEpoch
    BY <1>3, <2>1, HubAssumption DEF SetPassword
  <2>3. users' = [users EXCEPT ![u] = row] /\ local' = [local EXCEPT ![r] = know]
    BY <1>3 DEF SetPassword, IInv, TypeOK
  <2> HIDE DEF e
  <2>4. /\ row \in Account /\ row.acct = users[u].acct /\ row.epoch = e
        /\ row.settled = users[u].settled /\ row.ended = users[u].ended
        /\ row.lapsed = users[u].lapsed
    BY <2>1, <2>2 DEF Account
  <2>5. /\ know.user = u /\ know.mark = local[r].mark /\ know.acct = users[u].acct
        /\ know.epoch = e
    BY <1>1 DEF Knows
  <2> HIDE DEF row, know
  <2>6. LiveUsers' = LiveUsers /\ users'[u] = row
        /\ \A v \in LiveUsers \ {u} : users'[v] = users[v]
    BY <1>3, <2>3, <2>4, RowUpdate
  <2>7. local'[r] = know /\ Others(r) /\ pc'[r] = "signout"
    BY <1>1, <2>3 DEF Others, IInv, TypeOK
  <2> QED BY <1>1, <1>3, <2>4, <2>5, <2>6, <2>7
<1> QED BY <1>2, <1>3

LEMMA EndAllSessionsDoes ==
  ASSUME IInv, NEW r \in Requests, EndAllSessions(r)
  PROVE  /\ Others(r) /\ pc[r] = "signout" /\ pc'[r] = "session" /\ local' = local
         /\ UNCHANGED <<runs, counters, closed>> /\ LiveUsers' = LiveUsers
         /\ sessions' = {s \in sessions : s.user # local[r].user}
         /\ \A v \in LiveUsers \ {local[r].user} : users'[v] = users[v]
         /\ IF SetByThis(r)
            THEN LET a == users[local[r].user]
                     b == users'[local[r].user] IN
                 /\ b.acct = a.acct /\ b.epoch = a.epoch /\ b.lapsed = a.lapsed
                 /\ b.settled = b.epoch /\ b.ended = issued
            ELSE UNCHANGED users
<1> DEFINE u == local[r].user
<1>1. /\ Others(r) /\ pc[r] = "signout" /\ pc'[r] = "session" /\ local' = local
      /\ UNCHANGED <<runs, counters, closed>>
      /\ sessions' = {s \in sessions : s.user # u} /\ Settle(r)
  BY DEF EndAllSessions, SessionsOf, Goto, Others, IInv, TypeOK
<1>2. CASE ~ SetByThis(r)
  BY <1>1, <1>2 DEF Settle, LiveUsers
<1>3. CASE SetByThis(r)
  <2> DEFINE row == [users[u] EXCEPT !.settled = local[r].epoch, !.ended = issued]
  <2>1. /\ u \in LiveUsers /\ users[u].epoch = local[r].epoch
        /\ users' = [users EXCEPT ![u] = row]
    BY <1>1, <1>3 DEF Settle, SetByThis, IInv, TypeOK
  <2>2. users[u] \in Account /\ local[r].epoch \in 0..MaxEpoch /\ issued \in 0..MaxSessions
    BY <2>1, LiveAccount DEF IInv, TypeOK, Knows
  <2>3. /\ row \in Account /\ row.acct = users[u].acct /\ row.epoch = users[u].epoch
        /\ row.lapsed = users[u].lapsed /\ row.settled = local[r].epoch /\ row.ended = issued
    BY <2>2 DEF Account
  <2> HIDE DEF row
  <2>4. LiveUsers' = LiveUsers /\ users'[u] = row
        /\ \A v \in LiveUsers \ {u} : users'[v] = users[v]
    BY <2>1, <2>3, RowUpdate
  <2> QED BY <1>1, <1>3, <2>1, <2>3, <2>4
<1> QED BY <1>2, <1>3

LEMMA FailDoes ==
  ASSUME IInv, NEW r \in Requests, Fail(r)
  PROVE  /\ Finish(r) /\ UNCHANGED <<sessions, runs, counters, closed>>
         /\ LiveUsers' = LiveUsers
         /\ \A v \in LiveUsers \ {local[r].user} : users'[v] = users[v]
         /\ IF pc[r] = "signout" /\ SetByThis(r)
            THEN LET a == users[local[r].user]
                     b == users'[local[r].user] IN
                 /\ b.acct = a.acct /\ b.epoch = a.epoch /\ b.settled = a.settled
                 /\ b.ended = a.ended /\ b.lapsed = b.epoch
            ELSE UNCHANGED users
<1> DEFINE u == local[r].user
<1>1. Finish(r) /\ UNCHANGED <<sessions, runs, counters, closed>>
  BY DEF Fail
<1>2. CASE ~ (pc[r] = "signout" /\ SetByThis(r))
  <2>1. UNCHANGED users
    BY <1>2 DEF Fail
  <2> QED BY <1>1, <1>2, <2>1 DEF LiveUsers
<1>3. CASE pc[r] = "signout" /\ SetByThis(r)
  <2> DEFINE row == [users[u] EXCEPT !.lapsed = local[r].epoch]
  <2>1. /\ u \in LiveUsers /\ users[u].epoch = local[r].epoch
        /\ users' = [users EXCEPT ![u] = row]
    BY <1>3 DEF Fail, SetByThis, IInv, TypeOK
  <2>2. users[u] \in Account /\ local[r].epoch \in 0..MaxEpoch
    BY <2>1, LiveAccount DEF IInv, TypeOK, Knows
  <2>3. /\ row \in Account /\ row.acct = users[u].acct /\ row.epoch = users[u].epoch
        /\ row.settled = users[u].settled /\ row.ended = users[u].ended
        /\ row.lapsed = local[r].epoch
    BY <2>2 DEF Account
  <2> HIDE DEF row
  <2>4. LiveUsers' = LiveUsers /\ users'[u] = row
        /\ \A v \in LiveUsers \ {u} : users'[v] = users[v]
    BY <2>1, <2>3, RowUpdate
  <2> QED BY <1>1, <1>3, <2>1, <2>3, <2>4
<1> QED BY <1>2, <1>3

LEMMA CloseAccountDoes ==
  ASSUME IInv, NEW r \in Requests, CloseAccount(r)
  PROVE  /\ Others(r) /\ pc[r] = "closing" /\ pc'[r] = "leave" /\ local' = local
         /\ UNCHANGED counters
         /\ sessions' = {s \in sessions : s.user # local[r].user}
         /\ LiveUsers' = LiveUsers \ {local[r].user}
         /\ \A v \in LiveUsers' : users'[v] = users[v]
         /\ LiveRuns' = LiveRuns \ local[r].ids
         /\ \A i \in LiveRuns' : runs'[i] = runs[i]
         /\ closed' = IF local[r].user \in LiveUsers
                      THEN [closed EXCEPT ![users[local[r].user].acct] = local[r].mark]
                      ELSE closed
<1>1. /\ Others(r) /\ pc[r] = "closing" /\ pc'[r] = "leave" /\ local' = local
      /\ UNCHANGED counters
      /\ runs' = WithoutRuns(local[r].ids)
      /\ users' = [users EXCEPT ![local[r].user] = None]
      /\ sessions' = {s \in sessions : s.user # local[r].user}
      /\ closed' = IF local[r].user \in LiveUsers
                   THEN [closed EXCEPT ![users[local[r].user].acct] = local[r].mark]
                   ELSE closed
  BY DEF CloseAccount, RemoveAccount, SessionsOf, Goto, Others, IInv, TypeOK
<1>2. LiveUsers' = LiveUsers \ {local[r].user} /\ \A v \in LiveUsers' : users'[v] = users[v]
  BY <1>1 DEF LiveUsers, IInv, TypeOK
<1>3. LiveRuns' = LiveRuns \ local[r].ids /\ \A i \in LiveRuns' : runs'[i] = runs[i]
  BY <1>1 DEF LiveRuns, WithoutRuns, IInv, TypeOK
<1> QED BY <1>1, <1>2, <1>3

LEMMA InsertDoes ==
  ASSUME IInv, NEW r \in Requests, Insert(r)
  PROVE  /\ Finish(r) /\ uploads' = uploads + 1
         /\ UNCHANGED <<users, sessions, accounts, issued, closed>>
         /\ \E id \in RunIds :
              /\ LiveRuns' = LiveRuns \cup {id}
              /\ \A i \in LiveRuns' \ {id} : runs'[i] = runs[i]
              /\ runs'[id].owner = local[r].user /\ runs'[id].acct = local[r].acct
              /\ runs'[id].serial = uploads + 1
<1> DEFINE row == [owner |-> local[r].user, acct |-> local[r].acct, serial |-> uploads + 1]
<1>1. PICK id \in RunIds : runs' = [runs EXCEPT ![id] = row]
  BY DEF Insert
<1>2. Finish(r) /\ uploads < MaxUploads /\ uploads' = uploads + 1
      /\ UNCHANGED <<users, sessions, accounts, issued, closed>>
  BY DEF Insert
<1>3. row \in Run
  <2>1. uploads + 1 \in 1..MaxUploads
    BY <1>2, HubAssumption DEF IInv, TypeOK
  <2> QED BY <2>1 DEF Run, IInv, TypeOK, Knows
<1>4. row # None
  BY <1>3, NoRowAssumption
<1>5. row.owner = local[r].user /\ row.acct = local[r].acct /\ row.serial = uploads + 1
  OBVIOUS
<1> HIDE DEF row
<1>6. /\ LiveRuns' = LiveRuns \cup {id} /\ runs'[id] = row
      /\ \A i \in LiveRuns' \ {id} : runs'[i] = runs[i]
  BY <1>1, <1>4 DEF LiveRuns, IInv, TypeOK
<1> QED BY <1>2, <1>5, <1>6

LEMMA DeleteDoes ==
  ASSUME IInv, NEW r \in Requests, DeleteRun(r)
  PROVE  /\ Finish(r) /\ UNCHANGED <<users, sessions, counters, closed>>
         /\ LiveRuns' \subseteq LiveRuns /\ \A i \in LiveRuns' : runs'[i] = runs[i]
BY DEF DeleteRun, WithoutRuns, LiveRuns, IInv, TypeOK

LEMMA SelectDoes ==
  ASSUME IInv, NEW r \in Requests, SelectRun(r) \/ SelectOwnRuns(r)
  PROVE  /\ Others(r) /\ UNCHANGED <<users, sessions, runs, counters, closed>>
         /\ pc[r] \in {"withdraw", "close"}
         /\ local'[r].user = local[r].user /\ local'[r].acct = local[r].acct
         /\ local'[r].mark = uploads
         /\ \/ /\ pc[r] = "withdraw" /\ pc'[r] = "delete"
               /\ \E i \in LiveRuns : /\ local'[r].ids = {i}
                                      /\ Owns(r, i) \/ local'[r].serial = runs[i].serial
            \/ /\ pc[r] = "close" /\ pc'[r] = "closing"
               /\ local'[r].ids = {i \in LiveRuns : runs[i].owner = local[r].user}
<1>1. CASE SelectRun(r)
  <2>1. PICK i \in LiveRuns, holds \in BOOLEAN : (holds \/ Owns(r, i)) /\ Selected(r, i, holds)
    BY <1>1 DEF SelectRun
  <2>2. pc[r] = "withdraw"
    BY <1>1 DEF SelectRun
  <2>3. /\ local'[r].user = local[r].user /\ local'[r].acct = local[r].acct
        /\ local'[r].mark = uploads /\ local'[r].ids = {i}
        /\ holds => local'[r].serial = runs[i].serial
    BY <2>1 DEF Selected, IInv, TypeOK, Knows
  <2>4. Others(r) /\ UNCHANGED <<users, sessions, runs, counters, closed>> /\ pc'[r] = "delete"
    BY <2>1 DEF Selected, Goto, Others, IInv, TypeOK
  <2> QED BY <2>1, <2>2, <2>3, <2>4
<1>2. CASE SelectOwnRuns(r)
  <2>1. /\ local'[r].user = local[r].user /\ local'[r].acct = local[r].acct
        /\ local'[r].mark = uploads
        /\ local'[r].ids = {i \in LiveRuns : runs[i].owner = local[r].user}
    BY <1>2 DEF SelectOwnRuns, IInv, TypeOK, Knows
  <2>2. /\ Others(r) /\ UNCHANGED <<users, sessions, runs, counters, closed>>
        /\ pc[r] = "close" /\ pc'[r] = "closing"
    BY <1>2 DEF SelectOwnRuns, Goto, Others, IInv, TypeOK
  <2> QED BY <2>1, <2>2
<1> QED BY <1>1, <1>2

LEMMA LeaveDoes ==
  ASSUME IInv, NEW r \in Requests, Leave(r) \/ \E s \in sessions : Logout(r, s)
  PROVE  /\ UNCHANGED <<users, runs, counters, closed>> /\ sessions' \subseteq sessions
         /\ pc[r] \in {"idle", "leave"} /\ Others(r)
         /\ Finish(r) \/ UNCHANGED <<pc, local>>
BY FinishDoes DEF Leave, Logout, Others
-----------------------------------------------------------------------------
(* Which account a row or a request means by an id: the one that has the   *)
(* id, unless its own has been closed since.                               *)

At(u, a) ==
  IF u = 0 THEN a = 0
  ELSE /\ a \in 1..accounts
       /\ closed[a] # Open \/ (u \in LiveUsers /\ users[u].acct = a)

Placed ==
  /\ \A u \in LiveUsers : users[u].acct \in 1..accounts /\ closed[users[u].acct] = Open
  /\ \A u, v \in LiveUsers : users[u].acct = users[v].acct => u = v
  /\ \A a \in 1..MaxAccounts : a > accounts => closed[a] = Open
  /\ \A i \in LiveRuns : At(runs[i].owner, runs[i].acct)
  /\ \A r \in Requests : At(local[r].user, local[r].acct)
  /\ \A r \in Requests : pc[r] = "close" => local[r].user # 0

LEMMA NobodyIsZero == 0 \notin LiveUsers
BY DEF LiveUsers, UserIds

\* No account comes, goes or is renumbered; what runs and requests mean is
\* judged as it was.
LEMMA AccountsStay ==
  ASSUME Placed, LiveUsers' = LiveUsers, UNCHANGED <<accounts, closed>>,
         \A u \in LiveUsers : users'[u].acct = users[u].acct,
         \A i \in LiveRuns' : At(runs'[i].owner, runs'[i].acct),
         \A q \in Requests : At(local'[q].user, local'[q].acct),
         \A q \in Requests : pc'[q] = "close" => local'[q].user # 0
  PROVE  Placed'
<1>1. ASSUME NEW u, NEW a, At(u, a) PROVE At(u, a)'
  BY <1>1 DEF At
<1>2. \A i \in LiveRuns' : At(runs[i].owner, runs[i].acct)'
  BY <1>1
<1>3. \A q \in Requests : At(local[q].user, local[q].acct)'
  BY <1>1
<1> QED BY <1>2, <1>3 DEF Placed

\* The same where one request goes on, with the runs there are.
LEMMA RequestPlaced ==
  ASSUME Placed, NEW r \in Requests, Others(r), LiveUsers' = LiveUsers,
         UNCHANGED <<accounts, closed>>,
         \A u \in LiveUsers : users'[u].acct = users[u].acct,
         LiveRuns' \subseteq LiveRuns, \A i \in LiveRuns' : runs'[i] = runs[i],
         At(local'[r].user, local'[r].acct),
         pc'[r] = "close" => local'[r].user # 0
  PROVE  Placed'
<1>1. \A i \in LiveRuns' : At(runs'[i].owner, runs'[i].acct)
  BY DEF Placed
<1>2. \A q \in Requests : At(local'[q].user, local'[q].acct)
  BY DEF Placed, Others
<1>3. \A q \in Requests : pc'[q] = "close" => local'[q].user # 0
  BY DEF Placed, Others
<1> QED BY <1>1, <1>2, <1>3, AccountsStay

\* An account whose id is taken again is closed; what meant it says so.
LEMMA CreateUserPlaced ==
  ASSUME IInv, Placed, NEW r \in Requests, CreateUser(r)
  PROVE  Placed'
<1>1. /\ Others(r) /\ pc'[r] \in {"idle", "session"}
      /\ UNCHANGED <<sessions, runs, issued, uploads, closed>>
      /\ LiveRuns' = LiveRuns
  BY CreateUserDoes DEF LiveRuns
<1>2. CASE UNCHANGED <<users, accounts>> /\ local'[r].user = 0 /\ local'[r].acct = 0
  BY <1>1, <1>2, RequestPlaced DEF At, LiveUsers
<1>3. CASE \E id \in UserIds \ LiveUsers :
             /\ LiveUsers' = LiveUsers \cup {id}
             /\ \A u \in LiveUsers : users'[u] = users[u]
             /\ users'[id].acct = accounts + 1
             /\ accounts < MaxAccounts /\ accounts' = accounts + 1
             /\ local'[r].user = id /\ local'[r].acct = accounts + 1
  <2>1. PICK id \in UserIds \ LiveUsers :
             /\ LiveUsers' = LiveUsers \cup {id}
             /\ \A u \in LiveUsers : users'[u] = users[u]
             /\ users'[id].acct = accounts + 1
             /\ accounts < MaxAccounts /\ accounts' = accounts + 1
             /\ local'[r].user = id /\ local'[r].acct = accounts + 1
    BY <1>3
  <2>2. accounts \in Nat /\ accounts + 1 \in 1..MaxAccounts /\ MaxAccounts \in Nat
    BY <2>1, HubAssumption DEF IInv, TypeOK
  <2>3. ASSUME NEW u, NEW a, At(u, a) PROVE At(u, a)'
    BY <1>1, <2>1, <2>2, <2>3 DEF At
  <2>4. \A u \in LiveUsers' : users'[u].acct \in 1..accounts' /\ closed'[users'[u].acct] = Open
    BY <1>1, <2>1, <2>2 DEF Placed
  <2>5. \A u, v \in LiveUsers' : users'[u].acct = users'[v].acct => u = v
    BY <2>1, <2>2 DEF Placed
  <2>6. \A a \in 1..MaxAccounts : a > accounts' => closed'[a] = Open
    BY <1>1, <2>1, <2>2 DEF Placed
  <2>7. \A i \in LiveRuns' : At(runs[i].owner, runs[i].acct)'
    <3>1. \A i \in LiveRuns : At(runs[i].owner, runs[i].acct)
      BY DEF Placed
    <3>2. \A i \in LiveRuns : At(runs'[i].owner, runs'[i].acct)
      BY <1>1, <3>1
    <3> QED BY <1>1, <2>3, <3>2
  <2>8. \A q \in Requests : At(local[q].user, local[q].acct)'
    <3>1. \A q \in Requests \ {r} : At(local'[q].user, local'[q].acct)
      BY <1>1 DEF Placed, Others
    <3>2. At(local[r].user, local[r].acct)'
      BY <2>1, <2>2 DEF At, UserIds
    <3> QED BY <2>3, <3>1, <3>2
  <2>9. \A q \in Requests : pc'[q] = "close" => local'[q].user # 0
    BY <1>1 DEF Placed, Others
  <2> QED BY <2>4, <2>5, <2>6, <2>7, <2>8, <2>9 DEF Placed
<1> QED BY <1>2, <1>3, CreateUserDoes

LEMMA CloseAccountPlaced ==
  ASSUME IInv, Placed, NEW r \in Requests, CloseAccount(r)
  PROVE  Placed'
<1> DEFINE u == local[r].user
<1>1. /\ Others(r) /\ pc'[r] = "leave" /\ local' = local /\ UNCHANGED counters
      /\ LiveUsers' = LiveUsers \ {u} /\ \A v \in LiveUsers' : users'[v] = users[v]
      /\ LiveRuns' \subseteq LiveRuns /\ \A i \in LiveRuns' : runs'[i] = runs[i]
      /\ closed' = IF u \in LiveUsers THEN [closed EXCEPT ![users[u].acct] = local[r].mark]
                   ELSE closed
  BY CloseAccountDoes
<1>2. accounts' = accounts /\ accounts \in 0..MaxAccounts /\ local[r].mark # Open
  BY <1>1, HubAssumption DEF counters, IInv, TypeOK, Knows, Open
<1>3. /\ u \in LiveUsers => closed'[users[u].acct] # Open
      /\ \A a \in 1..MaxAccounts : (u \in LiveUsers => a # users[u].acct) => closed'[a] = closed[a]
  BY <1>1, <1>2, LiveAccount DEF IInv, TypeOK
<1>4. \A a \in 1..accounts : a \in 1..MaxAccounts
  BY <1>2, HubAssumption
<1>5. ASSUME NEW v, NEW a, At(v, a) PROVE At(v, a)'
  <2>1. CASE v = 0
    BY <1>5, <2>1 DEF At
  <2>2. CASE v # 0
    <3>1. a \in 1..accounts /\ a \in 1..MaxAccounts
      BY <1>4, <1>5, <2>2 DEF At
    <3>2. closed[a] # Open => closed'[a] # Open
      BY <1>3, <3>1
    <3>3. CASE closed[a] # Open
      BY <1>2, <2>2, <3>1, <3>2, <3>3 DEF At
    <3>4. CASE v \in LiveUsers /\ users[v].acct = a /\ v = u
      BY <1>2, <1>3, <2>2, <3>1, <3>4 DEF At
    <3>5. CASE v \in LiveUsers /\ users[v].acct = a /\ v # u
      BY <1>1, <1>2, <2>2, <3>1, <3>5 DEF At
    <3> QED BY <1>5, <2>2, <3>3, <3>4, <3>5 DEF At
  <2> QED BY <2>1, <2>2
<1>6. \A v \in LiveUsers' : users'[v].acct \in 1..accounts' /\ closed'[users'[v].acct] = Open
  BY <1>1, <1>2, <1>3, <1>4 DEF Placed
<1>7. \A v, w \in LiveUsers' : users'[v].acct = users'[w].acct => v = w
  BY <1>1 DEF Placed
<1>8. \A a \in 1..MaxAccounts : a > accounts' => closed'[a] = Open
  BY <1>2, <1>3 DEF Placed
<1>9. \A i \in LiveRuns' : At(runs[i].owner, runs[i].acct)'
  <2>1. \A i \in LiveRuns' : At(runs'[i].owner, runs'[i].acct)
    BY <1>1 DEF Placed
  <2> QED BY <1>5, <2>1
<1>10. \A q \in Requests : At(local[q].user, local[q].acct)'
  <2>1. \A q \in Requests : At(local'[q].user, local'[q].acct)
    BY <1>1 DEF Placed
  <2> QED BY <1>5, <2>1
<1>11. \A q \in Requests : pc'[q] = "close" => local'[q].user # 0
  BY <1>1 DEF Placed, Others
<1> QED BY <1>6, <1>7, <1>8, <1>9, <1>10, <1>11 DEF Placed

LEMMA InsertPlaced ==
  ASSUME IInv, Placed, NEW r \in Requests, Insert(r)
  PROVE  Placed'
<1>1. /\ Finish(r) /\ UNCHANGED <<users, sessions, accounts, issued, closed>>
      /\ LiveUsers' = LiveUsers
  BY InsertDoes DEF LiveUsers
<1>2. PICK id \in RunIds :
        /\ LiveRuns' = LiveRuns \cup {id}
        /\ \A i \in LiveRuns' \ {id} : runs'[i] = runs[i]
        /\ runs'[id].owner = local[r].user /\ runs'[id].acct = local[r].acct
  BY InsertDoes
<1>3. \A i \in LiveRuns' : At(runs'[i].owner, runs'[i].acct)
  BY <1>2 DEF Placed
<1>4. Others(r) /\ pc'[r] = "idle" /\ local'[r].user = 0 /\ local'[r].acct = 0
  BY <1>1, FinishDoes
<1>5. \A q \in Requests : At(local'[q].user, local'[q].acct)
  BY <1>4 DEF Placed, Others, At
<1>6. \A q \in Requests : pc'[q] = "close" => local'[q].user # 0
  BY <1>4 DEF Placed, Others
<1> QED BY <1>1, <1>3, <1>5, <1>6, AccountsStay

\* Every step of a request keeps what ids mean.
LEMMA StepPlaced ==
  ASSUME IInv, Placed, NEW r \in Requests, Step(r)
  PROVE  Placed'
<1>1. CASE CreateUser(r)
  BY <1>1, CreateUserPlaced
<1>2. CASE CloseAccount(r)
  BY <1>2, CloseAccountPlaced
<1>3. CASE Insert(r)
  BY <1>3, InsertPlaced
<1>4. CASE \/ \E n \in Names : Register(r, n)
           \/ \E u \in UserIds : Login(r, u)
           \/ \E op \in Ops : Anonymous(r, op)
           \/ \E op \in Ops, u \in UserIds : ByToken(r, op, u)
           \/ \E op \in Ops, s \in sessions : ByCookie(r, op, s)
  <2>1. /\ UNCHANGED <<users, sessions, runs, counters, closed>> /\ Others(r)
        /\ \/ local'[r].user = 0 /\ local'[r].acct = 0 /\ pc'[r] # "close"
           \/ \E u \in LiveUsers : local'[r].user = u /\ local'[r].acct = users[u].acct
    BY <1>4, BeginDoes
  <2>2. UNCHANGED <<users, runs, accounts, closed>> /\ LiveUsers' = LiveUsers /\ LiveRuns' = LiveRuns
    BY <2>1 DEF counters, LiveUsers, LiveRuns
  <2>3. At(local'[r].user, local'[r].acct) /\ (pc'[r] = "close" => local'[r].user # 0)
    BY <2>1, NobodyIsZero DEF At, Placed
  <2> QED BY <2>1, <2>2, <2>3, RequestPlaced
<1>5. CASE CreateSession(r)
  <2>1. /\ Finish(r) /\ UNCHANGED <<runs, accounts, closed>> /\ LiveUsers' = LiveUsers
        /\ LiveRuns' = LiveRuns
        /\ \A v \in LiveUsers : users'[v].acct = users[v].acct
    BY <1>5, CreateSessionDoes DEF SameRow, LiveRuns
  <2> QED BY <2>1, FinishDoes, RequestPlaced DEF At
<1>6. CASE SelectRun(r) \/ SelectOwnRuns(r)
  <2>1. /\ Others(r) /\ UNCHANGED <<users, runs, accounts, closed>> /\ LiveUsers' = LiveUsers
        /\ LiveRuns' = LiveRuns /\ pc'[r] # "close"
        /\ local'[r].user = local[r].user /\ local'[r].acct = local[r].acct
    BY <1>6, SelectDoes DEF LiveUsers, LiveRuns, counters
  <2> QED BY <2>1, RequestPlaced DEF Placed
<1>7. CASE DeleteRun(r)
  <2>1. /\ Finish(r) /\ UNCHANGED <<users, accounts, closed>> /\ LiveUsers' = LiveUsers
        /\ LiveRuns' \subseteq LiveRuns /\ \A i \in LiveRuns' : runs'[i] = runs[i]
    BY <1>7, DeleteDoes DEF LiveUsers, counters
  <2> QED BY <2>1, FinishDoes, RequestPlaced DEF At
<1>8. CASE SetPassword(r)
  <2>1. /\ Others(r) /\ UNCHANGED <<runs, accounts, closed>> /\ LiveUsers' = LiveUsers
        /\ LiveRuns' = LiveRuns /\ pc'[r] # "close"
        /\ local'[r].user = local[r].user
        /\ \A v \in LiveUsers : users'[v].acct = users[v].acct
        /\ IF local[r].user \in LiveUsers THEN local'[r].acct = users[local[r].user].acct
           ELSE local'[r].acct = local[r].acct
    BY <1>8, SetPasswordDoes DEF LiveRuns, counters
  <2>2. At(local'[r].user, local'[r].acct)
    BY <2>1, NobodyIsZero DEF Placed, At
  <2> QED BY <2>1, <2>2, RequestPlaced
<1>9. CASE EndAllSessions(r)
  <2>1. /\ Others(r) /\ UNCHANGED <<runs, accounts, closed, local>> /\ LiveUsers' = LiveUsers
        /\ LiveRuns' = LiveRuns /\ pc'[r] # "close"
        /\ \A v \in LiveUsers : users'[v].acct = users[v].acct
    BY <1>9, EndAllSessionsDoes DEF LiveRuns, counters
  <2> QED BY <2>1, RequestPlaced DEF Placed
<1>10. CASE Fail(r)
  <2>1. /\ Finish(r) /\ UNCHANGED <<runs, accounts, closed>> /\ LiveUsers' = LiveUsers
        /\ LiveRuns' = LiveRuns
        /\ \A v \in LiveUsers : users'[v].acct = users[v].acct
    BY <1>10, FailDoes DEF LiveRuns, counters
  <2> QED BY <2>1, FinishDoes, RequestPlaced DEF At
<1>11. CASE Leave(r) \/ \E s \in sessions : Logout(r, s)
  <2>1. /\ UNCHANGED <<users, runs, accounts, closed>> /\ LiveUsers' = LiveUsers
        /\ LiveRuns' = LiveRuns /\ (Finish(r) \/ UNCHANGED <<pc, local>>)
    BY <1>11, LeaveDoes DEF LiveUsers, LiveRuns, counters
  <2>2. At(local'[r].user, local'[r].acct) /\ (pc'[r] = "close" => local'[r].user # 0)
    BY <2>1, FinishDoes DEF At, Placed
  <2>3. Others(r)
    BY <1>11, LeaveDoes
  <2> QED BY <2>1, <2>2, <2>3, RequestPlaced
<1> QED BY <1>1, <1>2, <1>3, <1>4, <1>5, <1>6, <1>7, <1>8, <1>9, <1>10, <1>11 DEF Step
-----------------------------------------------------------------------------
(* What a request that looked at the runs can still find there. *)

\* What a closing leaves behind is younger than its look.
Looked(r) ==
  pc[r] = "closing" =>
    \A i \in LiveRuns :
      (runs[i].owner = local[r].user /\ runs[i].serial <= local[r].mark) => i \in local[r].ids

Chosen(r) ==
  pc[r] \in {"delete", "closing"} => \A i \in local[r].ids \cap LiveRuns : Claimed(r, i)

Looks ==
  /\ \A i \in LiveRuns : runs[i].serial <= uploads
  /\ \A a \in 1..MaxAccounts : closed[a] <= uploads
  /\ \A r \in Requests : local[r].mark <= uploads
  /\ ClosingTakesStoredRuns
  /\ \A r \in Requests : Looked(r) /\ Chosen(r)

LEMMA Widths ==
  ASSUME IInv
  PROVE  /\ uploads \in Nat
         /\ \A i \in LiveRuns : runs[i].serial \in Nat /\ runs[i].acct \in Nat
         /\ \A a \in 1..MaxAccounts : closed[a] \in Int
         /\ \A r \in Requests : local[r].mark \in Nat /\ local[r].serial \in Nat
BY HubAssumption DEF IInv, TypeOK, LiveRuns, Run, Knows, Open

\* The runs there were, or some of them; accounts may have been closed.
LEMMA Fewer ==
  ASSUME Looks, LiveRuns' \subseteq LiveRuns, \A i \in LiveRuns' : runs'[i] = runs[i],
         \A a : Gone(a) => Gone(a)',
         NEW q \in Requests, pc'[q] = pc[q], local'[q] = local[q]
  PROVE  Looked(q)' /\ Chosen(q)'
<1>1. Looked(q)'
  BY DEF Looks, Looked
<1>2. ASSUME NEW i \in LiveRuns', Claimed(q, i) PROVE Claimed(q, i)'
  BY <1>2 DEF Claimed
<1>3. Chosen(q)'
  BY <1>2 DEF Looks, Chosen
<1> QED BY <1>1, <1>3

\* A step that stores no run and closes no account.
LEMMA NothingStored ==
  ASSUME Looks, NEW r \in Requests, Others(r), UNCHANGED <<uploads, closed>>,
         LiveRuns' \subseteq LiveRuns, \A i \in LiveRuns' : runs'[i] = runs[i],
         local'[r].mark <= uploads, Looked(r)', Chosen(r)'
  PROVE  Looks'
<1>1. ASSUME NEW q \in Requests \ {r} PROVE Looked(q)' /\ Chosen(q)' /\ local'[q].mark <= uploads
  <2>1. \A a : Gone(a) => Gone(a)'
    BY DEF Gone
  <2> QED BY <2>1, Fewer DEF Others, Looks
<1>2. ClosingTakesStoredRuns'
  BY DEF Looks, ClosingTakesStoredRuns
<1> QED BY <1>1, <1>2 DEF Looks

\* Nothing to look back on.
LEMMA NotLooking ==
  ASSUME NEW r \in Requests, pc'[r] \notin {"delete", "closing"}
  PROVE  Looked(r)' /\ Chosen(r)'
BY DEF Looked, Chosen

LEMMA SelectLooks ==
  ASSUME IInv, Placed, Looks, NEW r \in Requests, SelectRun(r) \/ SelectOwnRuns(r)
  PROVE  Looks'
<1>1. /\ Others(r) /\ UNCHANGED <<users, runs, uploads, closed>> /\ LiveRuns' = LiveRuns
      /\ local'[r].user = local[r].user /\ local'[r].acct = local[r].acct
      /\ local'[r].mark = uploads
  BY SelectDoes DEF LiveRuns, counters
<1>2. ASSUME NEW i \in LiveRuns, local[r].user # 0, runs[i].owner = local[r].user
      PROVE  Claimed(r, i)'
  <2>1. At(runs[i].owner, runs[i].acct) /\ At(local[r].user, local[r].acct)
    BY DEF Placed
  <2>2. accounts \in Nat
    BY HubAssumption DEF IInv, TypeOK
  <2>3. runs[i].acct # 0 /\ local[r].acct # 0
    BY <1>2, <2>1, <2>2 DEF At
  <2>4. Gone(runs[i].acct) \/ Gone(local[r].acct) \/ runs[i].acct = local[r].acct
    BY <1>2, <2>1, <2>3 DEF At, Gone
  <2> QED BY <1>1, <2>3, <2>4 DEF Claimed, Gone
<1>3. CASE /\ pc[r] = "withdraw" /\ pc'[r] = "delete"
           /\ \E i \in LiveRuns : /\ local'[r].ids = {i}
                                  /\ Owns(r, i) \/ local'[r].serial = runs[i].serial
  <2>1. PICK i \in LiveRuns : local'[r].ids = {i}
                              /\ (Owns(r, i) \/ local'[r].serial = runs[i].serial)
    BY <1>3
  <2>2. Claimed(r, i)'
    BY <1>1, <1>2, <2>1 DEF Owns, Claimed
  <2>3. Looked(r)' /\ Chosen(r)'
    BY <1>3, <2>1, <2>2 DEF Looked, Chosen
  <2> QED BY <1>1, <2>3, Widths, NothingStored
<1>4. CASE /\ pc[r] = "close" /\ pc'[r] = "closing"
           /\ local'[r].ids = {i \in LiveRuns : runs[i].owner = local[r].user}
  <2>1. local[r].user # 0
    BY <1>4 DEF Placed
  <2>2. Looked(r)'
    BY <1>1, <1>4 DEF Looked
  <2>3. Chosen(r)'
    BY <1>1, <1>2, <1>4, <2>1 DEF Chosen
  <2> QED BY <1>1, <2>2, <2>3, Widths, NothingStored
<1> QED BY <1>3, <1>4, SelectDoes

\* The run stored is younger than every look there has been.
LEMMA InsertLooks ==
  ASSUME IInv, Looks, NEW r \in Requests, Insert(r)
  PROVE  Looks'
<1>1. /\ Finish(r) /\ uploads' = uploads + 1
      /\ UNCHANGED <<users, sessions, accounts, issued, closed>>
      /\ LiveUsers' = LiveUsers
  BY InsertDoes DEF LiveUsers
<1>2. PICK id \in RunIds :
        /\ LiveRuns' = LiveRuns \cup {id}
        /\ \A i \in LiveRuns' \ {id} : runs'[i] = runs[i]
        /\ runs'[id].owner = local[r].user /\ runs'[id].acct = local[r].acct
        /\ runs'[id].serial = uploads + 1
  BY InsertDoes
<1>3. Others(r) /\ pc'[r] = "idle" /\ local'[r].mark = 0
  BY <1>1, FinishDoes
<1>4. uploads \in Nat
  BY Widths
<1>5. \A i \in LiveRuns' : runs'[i].serial <= uploads'
  BY <1>1, <1>2, <1>4, Widths DEF Looks
<1>6. \A a \in 1..MaxAccounts : closed'[a] <= uploads'
  BY <1>1, <1>4, Widths DEF Looks
<1>7. \A q \in Requests : local'[q].mark <= uploads'
  BY <1>1, <1>3, <1>4, Widths DEF Looks, Others
<1>8. ClosingTakesStoredRuns'
  <2> SUFFICES ASSUME NEW i \in LiveRuns', runs'[i].acct # 0
               PROVE  runs'[i].serial > closed'[runs'[i].acct]
    BY DEF ClosingTakesStoredRuns
  <2>1. CASE i = id
    <3>1. local[r].acct \in 1..MaxAccounts
      BY <1>2, <2>1 DEF IInv, TypeOK, Knows
    <3> QED BY <1>1, <1>2, <1>4, <2>1, <3>1, Widths DEF Looks
  <2>2. CASE i # id
    BY <1>1, <1>2, <2>2 DEF Looks, ClosingTakesStoredRuns
  <2> QED BY <2>1, <2>2
<1>9. ASSUME NEW q \in Requests PROVE Looked(q)' /\ Chosen(q)'
  <2>1. CASE q = r
    BY <1>3, <2>1, NotLooking
  <2>2. CASE q # r
    <3>1. pc'[q] = pc[q] /\ local'[q] = local[q] /\ local[q].mark <= uploads
      BY <1>3, <2>2 DEF Others, Looks
    <3>2. local[q].mark \in Nat
      BY Widths
    <3>3. Looked(q)'
      <4> SUFFICES ASSUME pc[q] = "closing", NEW i \in LiveRuns',
                          runs'[i].owner = local[q].user, runs'[i].serial <= local[q].mark
                   PROVE  i \in local[q].ids
        BY <3>1 DEF Looked
      <4>1. i # id
        BY <1>2, <1>4, <3>1, <3>2
      <4>2. i \in LiveRuns /\ runs'[i] = runs[i] /\ Looked(q)
        BY <1>2, <4>1 DEF Looks
      <4> QED BY <4>2 DEF Looked
    <3>4. ASSUME NEW i \in LiveRuns' \ {id}, Claimed(q, i) PROVE Claimed(q, i)'
      BY <1>1, <1>2, <3>1, <3>4 DEF Claimed, Gone
    <3>5. Claimed(q, id)'
      BY <1>2, <1>4, <3>1, <3>2 DEF Claimed
    <3>6. Chosen(q)'
      BY <1>2, <3>1, <3>4, <3>5 DEF Looks, Chosen
    <3> QED BY <3>3, <3>6
  <2> QED BY <2>1, <2>2
<1> QED BY <1>5, <1>6, <1>7, <1>8, <1>9 DEF Looks

\* What is left of the closed account's runs is younger than the look.
LEMMA CloseAccountLooks ==
  ASSUME IInv, Placed, Looks, NEW r \in Requests, CloseAccount(r)
  PROVE  Looks'
<1> DEFINE u == local[r].user
<1>1. /\ Others(r) /\ pc[r] = "closing" /\ pc'[r] = "leave" /\ local' = local
      /\ UNCHANGED counters
      /\ LiveRuns' = LiveRuns \ local[r].ids /\ \A i \in LiveRuns' : runs'[i] = runs[i]
      /\ closed' = IF u \in LiveUsers THEN [closed EXCEPT ![users[u].acct] = local[r].mark]
                   ELSE closed
  BY CloseAccountDoes
<1>2. uploads' = uploads /\ uploads \in Nat /\ local[r].mark \in Nat /\ local[r].mark <= uploads
  BY <1>1, Widths DEF counters, Looks
<1>3. \A a \in 1..MaxAccounts :
        \/ closed'[a] = closed[a]
        \/ u \in LiveUsers /\ a = users[u].acct /\ closed'[a] = local[r].mark
  BY <1>1, LiveAccount DEF IInv, TypeOK
<1>4. \A a \in 1..MaxAccounts : closed'[a] <= uploads'
  BY <1>2, <1>3 DEF Looks
<1>5. \A a : Gone(a) => Gone(a)'
  <2> SUFFICES ASSUME NEW a, Gone(a) PROVE closed'[a] # Open
    BY DEF Gone
  <2>1. CASE u \in LiveUsers /\ a = users[u].acct
    BY <2>1 DEF Gone, Placed
  <2>2. CASE ~ (u \in LiveUsers /\ a = users[u].acct)
    BY <1>1, <2>2 DEF Gone, IInv, TypeOK
  <2> QED BY <2>1, <2>2
<1>6. ClosingTakesStoredRuns'
  <2> SUFFICES ASSUME NEW i \in LiveRuns', runs'[i].acct # 0
               PROVE  runs'[i].serial > closed'[runs'[i].acct]
    BY DEF ClosingTakesStoredRuns
  <2>1. i \in LiveRuns /\ runs'[i] = runs[i] /\ i \notin local[r].ids
    BY <1>1
  <2>2. runs[i].acct \in 1..MaxAccounts
    BY <2>1 DEF LiveRuns, IInv, TypeOK, Run
  <2>3. CASE closed'[runs[i].acct] = closed[runs[i].acct]
    BY <2>1, <2>3 DEF Looks, ClosingTakesStoredRuns
  <2>4. CASE u \in LiveUsers /\ runs[i].acct = users[u].acct
             /\ closed'[runs[i].acct] = local[r].mark
    <3>1. At(runs[i].owner, runs[i].acct) /\ closed[users[u].acct] = Open
      BY <2>1, <2>4 DEF Placed
    <3>2. runs[i].owner # 0
      BY <2>1, <3>1 DEF At
    <3>3. runs[i].owner \in LiveUsers /\ users[runs[i].owner].acct = users[u].acct
      BY <2>4, <3>1, <3>2 DEF At
    <3>4. runs[i].owner = u
      BY <2>4, <3>3 DEF Placed
    <3>5. ~ (runs[i].serial <= local[r].mark)
      BY <1>1, <2>1, <3>4 DEF Looks, Looked
    <3> QED BY <1>2, <2>1, <2>4, <3>5, Widths
  <2> QED BY <1>3, <2>2, <2>3, <2>4
<1>7. ASSUME NEW q \in Requests PROVE Looked(q)' /\ Chosen(q)'
  <2>1. CASE q = r
    BY <1>1, <2>1, NotLooking
  <2>2. CASE q # r
    BY <1>1, <1>5, <2>2, Fewer DEF Others
  <2> QED BY <2>1, <2>2
<1>8. (\A i \in LiveRuns' : runs'[i].serial <= uploads')
      /\ \A q \in Requests : local'[q].mark <= uploads'
  BY <1>1, <1>2 DEF Looks
<1> QED BY <1>4, <1>6, <1>7, <1>8 DEF Looks

\* Every step of a request keeps what looks can promise.
LEMMA StepLooks ==
  ASSUME IInv, Placed, Looks, NEW r \in Requests, Step(r)
  PROVE  Looks'
<1>1. CASE CloseAccount(r)
  BY <1>1, CloseAccountLooks
<1>2. CASE Insert(r)
  BY <1>2, InsertLooks
<1>3. CASE SelectRun(r) \/ SelectOwnRuns(r)
  BY <1>3, SelectLooks
<1>4. CASE \/ \E n \in Names : Register(r, n)
           \/ \E u \in UserIds : Login(r, u)
           \/ \E op \in Ops : Anonymous(r, op)
           \/ \E op \in Ops, u \in UserIds : ByToken(r, op, u)
           \/ \E op \in Ops, s \in sessions : ByCookie(r, op, s)
  <2>1. /\ UNCHANGED <<runs, uploads, closed>> /\ Others(r) /\ LiveRuns' = LiveRuns
        /\ pc'[r] \notin {"delete", "closing"} /\ local'[r].mark <= uploads
    BY <1>4, BeginDoes, Widths DEF counters, LiveRuns
  <2> QED BY <2>1, NotLooking, NothingStored
<1>5. CASE CreateUser(r)
  <2>1. /\ UNCHANGED <<runs, uploads, closed>> /\ Others(r) /\ LiveRuns' = LiveRuns
        /\ pc'[r] \notin {"delete", "closing"} /\ local'[r].mark <= uploads
    BY <1>5, CreateUserDoes, Widths DEF LiveRuns
  <2> QED BY <2>1, NotLooking, NothingStored
<1>6. CASE CreateSession(r) \/ DeleteRun(r) \/ Fail(r)
  <2>1. /\ UNCHANGED <<uploads, closed>> /\ Finish(r)
        /\ LiveRuns' \subseteq LiveRuns /\ \A i \in LiveRuns' : runs'[i] = runs[i]
    BY <1>6, CreateSessionDoes, DeleteDoes, FailDoes DEF counters, LiveRuns
  <2>2. Others(r) /\ pc'[r] \notin {"delete", "closing"} /\ local'[r].mark <= uploads
    BY <2>1, FinishDoes, Widths
  <2> QED BY <2>1, <2>2, NotLooking, NothingStored
<1>7. CASE SetPassword(r) \/ EndAllSessions(r)
  <2>1. /\ UNCHANGED <<runs, uploads, closed>> /\ Others(r) /\ LiveRuns' = LiveRuns
        /\ pc'[r] \notin {"delete", "closing"} /\ local'[r].mark = local[r].mark
    BY <1>7, SetPasswordDoes, EndAllSessionsDoes DEF counters, LiveRuns
  <2> QED BY <2>1, NotLooking, NothingStored DEF Looks
<1>8. CASE Leave(r) \/ \E s \in sessions : Logout(r, s)
  <2>1. /\ UNCHANGED <<runs, uploads, closed>> /\ Others(r) /\ LiveRuns' = LiveRuns
        /\ pc[r] \in {"idle", "leave"} /\ (Finish(r) \/ UNCHANGED <<pc, local>>)
    BY <1>8, LeaveDoes DEF counters, LiveRuns
  <2>2. pc'[r] \notin {"delete", "closing"} /\ local'[r].mark <= uploads
    BY <2>1, FinishDoes, Widths DEF Looks
  <2> QED BY <2>1, <2>2, NotLooking, NothingStored
<1> QED BY <1>1, <1>2, <1>3, <1>4, <1>5, <1>6, <1>7, <1>8 DEF Step
-----------------------------------------------------------------------------
(* What becomes of the sessions of older passwords. *)

\* The sessions that an account had before its present password have been
\* ended, or are about to be, or the change failed.
Accounted(u) ==
  \/ SignOutAhead(u)
  \/ users[u].lapsed = users[u].epoch
  \/ users[u].settled = users[u].epoch

Explained ==
  /\ StaleSessionsExplained
  /\ \A u \in LiveUsers : Accounted(u) /\ users[u].ended <= issued

\* The rows that stay are what they were, for what a session is judged by.
LEMMA RowsStay ==
  ASSUME IInv, Explained, sessions' \subseteq sessions, UNCHANGED issued,
         LiveUsers' \subseteq LiveUsers,
         \A u \in LiveUsers' : SameRow(users'[u], users[u]),
         \A u \in LiveUsers' : SignOutAhead(u) => SignOutAhead(u)'
  PROVE  Explained'
<1>1. \A u \in LiveUsers' : Accounted(u)' /\ users'[u].ended <= issued'
  BY DEF Explained, Accounted, SameRow
<1>2. StaleSessionsExplained'
  BY DEF Explained, StaleSessionsExplained, SameRow
<1> QED BY <1>1, <1>2 DEF Explained

\* A request that was not about to end sessions goes on; the others still are.
LEMMA StillAhead ==
  ASSUME NEW r \in Requests, pc[r] # "signout", Others(r),
         NEW u \in LiveUsers', users'[u].acct = users[u].acct,
         users'[u].epoch = users[u].epoch, SignOutAhead(u)
  PROVE  SignOutAhead(u)'
<1>1. PICK q \in Requests : pc[q] = "signout" /\ local[q].user = u /\ SetByThis(q)
  BY DEF SignOutAhead
<1>2. pc'[q] = "signout" /\ local'[q] = local[q]
  BY <1>1 DEF Others
<1>3. SetByThis(q)'
  BY <1>1, <1>2 DEF SetByThis
<1> QED BY <1>1, <1>2, <1>3 DEF SignOutAhead

\* What another account's request does.
LEMMA AheadOfOthers ==
  ASSUME NEW r \in Requests, Others(r),
         NEW u \in LiveUsers', u # local[r].user, users'[u] = users[u], SignOutAhead(u)
  PROVE  SignOutAhead(u)'
<1>1. PICK q \in Requests : pc[q] = "signout" /\ local[q].user = u /\ SetByThis(q)
  BY DEF SignOutAhead
<1>2. pc'[q] = "signout" /\ local'[q] = local[q]
  BY <1>1 DEF Others
<1>3. SetByThis(q)'
  BY <1>1, <1>2 DEF SetByThis
<1> QED BY <1>1, <1>2, <1>3 DEF SignOutAhead

\* What a request does that has no sign-out of its own ahead.
LEMMA AheadOfIdle ==
  ASSUME NEW r \in Requests, Others(r), ~ (pc[r] = "signout" /\ SetByThis(r)),
         UNCHANGED users, NEW u \in LiveUsers', SignOutAhead(u)
  PROVE  SignOutAhead(u)'
<1>1. PICK q \in Requests : pc[q] = "signout" /\ local[q].user = u /\ SetByThis(q)
  BY DEF SignOutAhead
<1>2. pc'[q] = "signout" /\ local'[q] = local[q]
  BY <1>1 DEF Others
<1>3. LiveUsers' = LiveUsers
  BY DEF LiveUsers
<1>4. SetByThis(q)'
  BY <1>1, <1>2, <1>3 DEF SetByThis
<1> QED BY <1>1, <1>2, <1>4 DEF SignOutAhead

LEMMA CreateUserExplained ==
  ASSUME IInv, Explained, NEW r \in Requests, CreateUser(r)
  PROVE  Explained'
<1>1. /\ Others(r) /\ pc[r] = "create" /\ UNCHANGED <<sessions, issued>>
  BY CreateUserDoes
<1>2. CASE UNCHANGED users
  <2>1. LiveUsers' = LiveUsers /\ \A u \in LiveUsers' : SameRow(users'[u], users[u])
    BY <1>2 DEF LiveUsers, SameRow
  <2> QED BY <1>1, <2>1, RowsStay, StillAhead DEF SameRow
<1>3. CASE ~ UNCHANGED users
  <2>1. PICK id \in UserIds \ LiveUsers :
             /\ LiveUsers' = LiveUsers \cup {id}
             /\ \A u \in LiveUsers : users'[u] = users[u]
             /\ users'[id].epoch = 0 /\ users'[id].settled = 0 /\ users'[id].ended = 0
    BY <1>3, CreateUserDoes
  <2>2. \A u \in LiveUsers : SignOutAhead(u) => SignOutAhead(u)'
    BY <1>1, <2>1, StillAhead
  <2>3. \A u \in LiveUsers' : Accounted(u)' /\ users'[u].ended <= issued'
    <3>1. Accounted(id)' /\ users'[id].ended <= issued'
      BY <1>1, <2>1, HubAssumption DEF Accounted, IInv, TypeOK
    <3>2. ASSUME NEW u \in LiveUsers PROVE Accounted(u)' /\ users'[u].ended <= issued'
      BY <1>1, <2>1, <2>2 DEF Accounted, Explained
    <3> QED BY <2>1, <3>1, <3>2
  <2>4. StaleSessionsExplained'
    <3>1. \A s \in sessions' : s.user \in LiveUsers
      BY <1>1 DEF IInv, SessionsHaveUsers
    <3> QED BY <1>1, <2>1, <2>2, <3>1 DEF Explained, StaleSessionsExplained
  <2> QED BY <2>3, <2>4 DEF Explained
<1> QED BY <1>2, <1>3

\* The new session may be of an older password: then the change that made it
\* so has ended the sessions there were before this one, or has still to.
LEMMA CreateSessionExplained ==
  ASSUME IInv, Explained, NEW r \in Requests, CreateSession(r)
  PROVE  Explained'
<1>1. /\ Finish(r) /\ pc[r] = "session" /\ LiveUsers' = LiveUsers
      /\ \A v \in LiveUsers : SameRow(users'[v], users[v])
  BY CreateSessionDoes
<1>2. Others(r)
  BY <1>1, FinishDoes
<1>3. \A u \in LiveUsers : SignOutAhead(u) => SignOutAhead(u)'
  BY <1>1, <1>2, StillAhead DEF SameRow
<1>4. CASE UNCHANGED <<sessions, issued>>
  BY <1>1, <1>3, <1>4, RowsStay
<1>5. CASE ~ UNCHANGED <<sessions, issued>>
  <2> DEFINE s == [sid |-> issued + 1, user |-> local[r].user,
                   acct |-> local[r].acct, epoch |-> local[r].epoch]
  <2>1. /\ local[r].user \in LiveUsers /\ issued' = issued + 1
        /\ sessions' = sessions \cup {s}
    BY <1>5, CreateSessionDoes
  <2>2. s.user = local[r].user /\ s.sid = issued + 1
    OBVIOUS
  <2>3. issued \in Nat /\ \A u \in LiveUsers : users[u].ended \in Nat
    BY LiveAccount, HubAssumption DEF IInv, TypeOK
  <2> HIDE DEF s
  <2>4. \A u \in LiveUsers' : Accounted(u)' /\ users'[u].ended <= issued'
    BY <1>1, <1>3, <2>1, <2>3 DEF Explained, Accounted, SameRow
  <2>5. StaleSessionsExplained'
    <3> SUFFICES ASSUME NEW x \in sessions', x.user \in LiveUsers', users'[x.user].acct = x.acct,
                        x.epoch < users'[x.user].epoch
                 PROVE  \/ SignOutAhead(x.user)'
                        \/ users'[x.user].lapsed = users'[x.user].epoch
                        \/ /\ users'[x.user].settled = users'[x.user].epoch
                           /\ x.sid > users'[x.user].ended
      BY DEF StaleSessionsExplained
    <3>1. CASE x \in sessions
      BY <1>1, <1>3, <3>1 DEF Explained, StaleSessionsExplained, SameRow
    <3>2. CASE x = s
      <4>1. users[x.user].ended <= issued /\ users[x.user].ended \in Nat
        BY <1>1, <2>3 DEF Explained
      <4>2. x.sid > users'[x.user].ended
        BY <1>1, <2>2, <2>3, <3>2, <4>1 DEF SameRow
      <4> QED BY <2>4, <4>2 DEF Accounted
    <3> QED BY <2>1, <3>1, <3>2
  <2> QED BY <2>4, <2>5 DEF Explained
<1> QED BY <1>4, <1>5

\* The change is now the account's, and its sign-out lies ahead.
LEMMA SetPasswordExplained ==
  ASSUME IInv, Explained, NEW r \in Requests, SetPassword(r)
  PROVE  Explained'
<1> DEFINE u == local[r].user
<1>1. /\ Others(r) /\ pc[r] = "password" /\ pc'[r] = "signout"
      /\ UNCHANGED <<sessions, issued>> /\ LiveUsers' = LiveUsers
      /\ local'[r].user = u /\ \A v \in LiveUsers \ {u} : users'[v] = users[v]
  BY SetPasswordDoes DEF counters
<1>2. \A v \in LiveUsers \ {u} : SignOutAhead(v) => SignOutAhead(v)'
  BY <1>1, StillAhead
<1>3. u \in LiveUsers => SignOutAhead(u)' /\ users'[u].ended = users[u].ended
  BY <1>1, SetPasswordDoes DEF SignOutAhead, SetByThis
<1>4. \A v \in LiveUsers' : Accounted(v)' /\ users'[v].ended <= issued'
  BY <1>1, <1>2, <1>3 DEF Explained, Accounted
<1>5. StaleSessionsExplained'
  BY <1>1, <1>2, <1>3 DEF Explained, StaleSessionsExplained
<1> QED BY <1>4, <1>5 DEF Explained

LEMMA EndAllSessionsExplained ==
  ASSUME IInv, Explained, NEW r \in Requests, EndAllSessions(r)
  PROVE  Explained'
<1> DEFINE u == local[r].user
<1>1. /\ Others(r) /\ pc[r] = "signout" /\ local' = local
      /\ UNCHANGED issued /\ LiveUsers' = LiveUsers
      /\ sessions' = {s \in sessions : s.user # u}
      /\ \A v \in LiveUsers \ {u} : users'[v] = users[v]
  BY EndAllSessionsDoes DEF counters
<1>2. \A v \in LiveUsers \ {u} : SignOutAhead(v) => SignOutAhead(v)'
  BY <1>1, AheadOfOthers
<1>3. StaleSessionsExplained'
  BY <1>1, <1>2 DEF Explained, StaleSessionsExplained
<1>4. u \in LiveUsers => Accounted(u)' /\ users'[u].ended <= issued'
  <2>1. CASE SetByThis(r)
    <3>1. issued \in Nat
      BY HubAssumption DEF IInv, TypeOK
    <3> QED BY <1>1, <2>1, <3>1, EndAllSessionsDoes DEF Accounted
  <2>2. CASE ~ SetByThis(r)
    <3> SUFFICES ASSUME u \in LiveUsers PROVE Accounted(u)' /\ users'[u].ended <= issued'
      OBVIOUS
    <3>1. UNCHANGED users
      BY <2>2, EndAllSessionsDoes
    <3>2. SignOutAhead(u) => SignOutAhead(u)'
      BY <1>1, <2>2, <3>1, AheadOfIdle
    <3> QED BY <1>1, <3>1, <3>2 DEF Explained, Accounted
  <2> QED BY <2>1, <2>2
<1>5. \A v \in LiveUsers' : Accounted(v)' /\ users'[v].ended <= issued'
  BY <1>1, <1>2, <1>4 DEF Explained, Accounted
<1> QED BY <1>3, <1>5 DEF Explained

\* A change that fails here leaves the sessions to its account's account.
LEMMA FailExplained ==
  ASSUME IInv, Explained, NEW r \in Requests, Fail(r)
  PROVE  Explained'
<1> DEFINE u == local[r].user
<1>1. /\ Finish(r) /\ UNCHANGED <<sessions, issued>> /\ LiveUsers' = LiveUsers
      /\ \A v \in LiveUsers \ {u} : users'[v] = users[v]
  BY FailDoes DEF counters
<1>2. Others(r)
  BY <1>1, FinishDoes
<1>3. CASE pc[r] = "signout" /\ SetByThis(r)
  <2>1. \A v \in LiveUsers \ {u} : SignOutAhead(v) => SignOutAhead(v)'
    BY <1>1, <1>2, AheadOfOthers
  <2>2. /\ users'[u].lapsed = users'[u].epoch /\ users'[u].acct = users[u].acct
        /\ users'[u].ended = users[u].ended
    BY <1>3, FailDoes
  <2>3. \A v \in LiveUsers' : Accounted(v)' /\ users'[v].ended <= issued'
    BY <1>1, <2>1, <2>2 DEF Explained, Accounted
  <2>4. StaleSessionsExplained'
    BY <1>1, <2>1, <2>2 DEF Explained, StaleSessionsExplained
  <2> QED BY <2>3, <2>4 DEF Explained
<1>4. CASE ~ (pc[r] = "signout" /\ SetByThis(r))
  <2>1. UNCHANGED users
    BY <1>4, FailDoes
  <2>2. \A v \in LiveUsers' : SignOutAhead(v) => SignOutAhead(v)'
    BY <1>2, <1>4, <2>1, AheadOfIdle
  <2> QED BY <1>1, <2>1, <2>2, RowsStay DEF SameRow
<1> QED BY <1>3, <1>4

\* Every step of a request leaves each stale session its reason.
LEMMA StepExplained ==
  ASSUME IInv, Explained, NEW r \in Requests, Step(r)
  PROVE  Explained'
<1>1. CASE CreateUser(r)
  BY <1>1, CreateUserExplained
<1>2. CASE CreateSession(r)
  BY <1>2, CreateSessionExplained
<1>3. CASE SetPassword(r)
  BY <1>3, SetPasswordExplained
<1>4. CASE EndAllSessions(r)
  BY <1>4, EndAllSessionsExplained
<1>5. CASE Fail(r)
  BY <1>5, FailExplained
<1>6. CASE CloseAccount(r)
  <2>1. /\ Others(r) /\ pc[r] = "closing" /\ UNCHANGED issued /\ sessions' \subseteq sessions
        /\ LiveUsers' \subseteq LiveUsers /\ \A v \in LiveUsers' : users'[v] = users[v]
    BY <1>6, CloseAccountDoes DEF counters
  <2> QED BY <2>1, RowsStay, StillAhead DEF SameRow
<1>7. CASE \/ \E n \in Names : Register(r, n)
           \/ \E u \in UserIds : Login(r, u)
           \/ \E op \in Ops : Anonymous(r, op)
           \/ \E op \in Ops, u \in UserIds : ByToken(r, op, u)
           \/ \E op \in Ops, s \in sessions : ByCookie(r, op, s)
           \/ SelectRun(r) \/ SelectOwnRuns(r) \/ DeleteRun(r) \/ Insert(r)
           \/ Leave(r) \/ \E s \in sessions : Logout(r, s)
  <2>1. UNCHANGED <<users, issued>> /\ LiveUsers' = LiveUsers /\ sessions' \subseteq sessions
        /\ pc[r] # "signout"
    BY <1>7, BeginDoes, SelectDoes, LeaveDoes DEF counters, LiveUsers, DeleteRun, Insert
  <2>2. Others(r)
    BY <1>7, BeginDoes, SelectDoes, LeaveDoes, DeleteDoes, InsertDoes, FinishDoes
  <2> QED BY <2>1, <2>2, RowsStay, StillAhead DEF SameRow
<1> QED BY <1>1, <1>2, <1>3, <1>4, <1>5, <1>6, <1>7 DEF Step

-----------------------------------------------------------------------------

HInv == IInv /\ Placed /\ Looks /\ Explained

\* Whatever requests overlap: what ids mean, what a look at the runs can still
\* find and why sessions are stale, together inductive.
THEOREM InductiveOverlapping == Spec => []HInv
<1>1. Init => HInv
  <2> SUFFICES ASSUME Init PROVE HInv
    OBVIOUS
  <2>1. LiveUsers = {} /\ LiveRuns = {} /\ sessions = {}
    BY DEF Init, LiveUsers, LiveRuns
  <2>2. \A r \in Requests : /\ pc[r] = "idle" /\ local[r].user = 0 /\ local[r].acct = 0
                            /\ local[r].mark = 0
    BY DEF Init, Nothing, Acting
  <2>3. uploads = 0 /\ \A a \in 1..MaxAccounts : closed[a] = Open
    BY DEF Init
  <2>4. Placed
    BY <2>1, <2>2, <2>3 DEF Placed, At
  <2>5. Looks
    BY <2>1, <2>2, <2>3 DEF Looks, Looked, Chosen, ClosingTakesStoredRuns, Open
  <2>6. Explained
    BY <2>1 DEF Explained, StaleSessionsExplained
  <2> QED BY <2>4, <2>5, <2>6, InitIInv DEF HInv
<1>2. HInv /\ [Next]_vars => HInv'
  <2>1. ASSUME HInv, NEW r \in Requests, Step(r) PROVE Placed' /\ Looks' /\ Explained'
    BY <2>1, StepPlaced, StepLooks, StepExplained DEF HInv
  <2>2. ASSUME HInv, UNCHANGED vars PROVE Placed' /\ Looks' /\ Explained'
    <3>1. LiveUsers' = LiveUsers /\ LiveRuns' = LiveRuns
      BY <2>2 DEF vars, LiveUsers, LiveRuns
    <3>2. Placed'
      BY <2>2, <3>1 DEF vars, HInv, Placed, At
    <3>3. Looks'
      BY <2>2, <3>1 DEF vars, HInv, Looks, Looked, Chosen, Claimed, Gone, ClosingTakesStoredRuns
    <3>4. Explained'
      BY <2>2, <3>1 DEF vars, HInv, Explained, Accounted, StaleSessionsExplained, SignOutAhead,
         SetByThis
    <3> QED BY <3>2, <3>3, <3>4
  <2> QED BY <2>1, <2>2, NextIInv DEF HInv, Next
<1> QED BY <1>1, <1>2, PTL DEF Spec

\* "Closing one deletes its runs": however uploads, withdrawals and closings
\* overlap, all that is left under a closed account was stored after its
\* closing had looked.
THEOREM ClosingTakesItsRuns == Spec => []ClosingTakesStoredRuns
<1>1. HInv => ClosingTakesStoredRuns
  BY DEF HInv, Looks
<1> QED BY <1>1, InductiveOverlapping, PTL

\* "Every other browser goes with it": however logins, changes and closings
\* overlap, a session of an older password was opened after the sign-out, or
\* the sign-out is still to come, or its handler failed before it.
THEOREM StaleSessionsHaveReasons == Spec => []StaleSessionsExplained
<1>1. HInv => StaleSessionsExplained
  BY DEF HInv, Explained
<1> QED BY <1>1, InductiveOverlapping, PTL

\* However requests overlap, a withdrawal or a closing deletes no run of an
\* open account, and no anonymous one, but one that it was shown the token of,
\* one of the account it acts for, or one stored after it looked, unless that
\* account has been closed.
THEOREM ClaimsHold == Spec => DeletesTheClaimed
<1> DEFINE Deletes ==
      \A r \in Requests : \A i \in LiveRuns :
        (pc[r] \in {"delete", "closing"} /\ pc'[r] # pc[r] /\ runs'[i] = None) => Claimed(r, i)
<1>1. ASSUME HInv, Next, NEW r \in Requests, NEW i \in LiveRuns,
             pc[r] \in {"delete", "closing"}, pc'[r] # pc[r], runs'[i] = None
      PROVE  Claimed(r, i)
  <2>1. PICK q \in Requests : Step(q)
    BY <1>1 DEF Next
  <2>2. runs'[i] # runs[i]
    BY <1>1 DEF LiveRuns
  <2>3. DeleteRun(q) \/ CloseAccount(q)
    <3>1. ~ Insert(q)
      <4> SUFFICES ASSUME Insert(q) PROVE FALSE
        OBVIOUS
      <4>1. i \in LiveRuns'
        BY <1>1, InsertDoes DEF HInv
      <4> QED BY <1>1, <4>1 DEF LiveRuns
    <3> QED BY <2>1, <2>2, <3>1 DEF Step, Register, Login, Logout, Anonymous, ByToken, ByCookie,
       CreateUser, CreateSession, SelectRun, Selected, SetPassword, EndAllSessions,
       SelectOwnRuns, Leave, Fail
  <2>4. i \in local[q].ids /\ pc[q] \in {"delete", "closing"}
    BY <2>2, <2>3 DEF DeleteRun, CloseAccount, WithoutRuns, LiveRuns
  <2>5. q = r
    <3>1. Others(q)
      BY <1>1, <2>3, DeleteDoes, CloseAccountDoes, FinishDoes DEF HInv
    <3> QED BY <1>1, <3>1 DEF Others
  <2> QED BY <1>1, <2>4, <2>5 DEF HInv, Looks, Chosen
<1>2. HInv /\ [Next]_vars => [Deletes]_vars
  BY <1>1 DEF Next
<1>3. Spec => [][Deletes]_vars
  BY <1>2, InductiveOverlapping, PTL DEF Spec
<1> QED BY <1>3 DEF DeletesTheClaimed
=============================================================================
