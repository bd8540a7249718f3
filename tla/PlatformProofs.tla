---------------------------- MODULE PlatformProofs ----------------------------
(***************************************************************************)
(* Proofs about the platform around the agent. The accounts: an invite     *)
(* code is spent once, and an account that failed to log in too often is   *)
(* locked. The skill store: SKILL.md is the row's text, the registry       *)
(* follows the table of system skills. The log and alert services: what    *)
(* they accepted is held until its fate is known. The connection pool: it  *)
(* is the one that ConnectionPoolProofs is about.                          *)
(***************************************************************************)
EXTENDS PlatformParts, Integers, Sequences, FiniteSetTheorems, TLAPS

-----------------------------------------------------------------------------
(* Accounts: the inductive invariant.                                      *)

HandlerFields == {"pc", "acct", "role", "name", "mail", "code", "pw", "target", "seen", "revoke",
                  "part"}
RowFields == {"name", "mail", "role", "pw", "legacy", "limit", "code", "avatar"}

\* The handlers that write account_login_failures, those about to lock, and the
\* registrations that hold the code they reserved.
Failing(q) == q.pc \in {"login_check", "login_failed", "login_count", "login_lock", "login_reset"}
Locking(q) == q.pc \in {"login_count", "login_lock"}
Holding(q) == q.pc \in {"find_user", "find_mail", "create", "release"}

HandlerShape(q) ==
  /\ DOMAIN q = HandlerFields
  /\ Failing(q) => q.target \in Ids
  /\ q.pc = "reserve" => q.code \in Codes \cup {NoCode}

RowsTyped ==
  /\ DOMAIN accounts = Ids
  /\ \A id \in Ids : accounts[id] = NoAccount \/ DOMAIN accounts[id] = RowFields
  /\ nextId \in Nat \ {0} /\ \A id \in Ids : id >= nextId => ~Exists(id)
FailuresTyped ==
  /\ failures \in [Ids -> [count : Nat, locked : {"no", "until", "expired"}]]
CodesTyped ==
  /\ DOMAIN codes = Codes /\ \A c \in Codes : DOMAIN codes[c] = {"status", "usedBy"}

AccountsTyped ==
  /\ DOMAIN req = Requests /\ \A r \in Requests : HandlerShape(req[r])
  /\ RowsTyped /\ FailuresTyped /\ CodesTyped /\ faults \in Nat

\* A code is held by one registration at a time, is used while it is held or
\* named by an account, and is not held once an account names it.
Used(c) == c \in Codes /\ codes[c].status = "used"
Held ==
  /\ \A r \in Requests : Holding(req[r]) => Used(req[r].code)
  /\ \A r, s \in Requests : r # s /\ Holding(req[r]) /\ Holding(req[s])
        => req[r].code # req[s].code
  /\ \A r \in Requests, id \in Ids : Holding(req[r]) /\ Exists(id)
        => accounts[id].code # req[r].code
Spent ==
  /\ \A id \in Ids : Exists(id) /\ accounts[id].code # NoCode => Used(accounts[id].code)
  /\ \A i, j \in Ids : i # j /\ Exists(i) /\ Exists(j) /\ accounts[i].code = accounts[j].code
                         => accounts[i].code = NoCode

\* A code names an account that named it, and so will a registration about to
\* write it.
Named ==
  /\ \A c \in Codes : /\ codes[c].usedBy \in Nat /\ codes[c].usedBy < nextId
                      /\ Exists(codes[c].usedBy) => accounts[codes[c].usedBy].code = c
  /\ \A r \in Requests : req[r].pc = "assign" =>
       /\ req[r].target \in Ids /\ req[r].target < nextId
       /\ Exists(req[r].target) => accounts[req[r].target].code = req[r].code

Invites == (RequireInvite /\ faults = 0) => Held /\ Spent /\ Named

AccountsInv == AccountsTyped /\ LockedWhenExceeded /\ Invites

-----------------------------------------------------------------------------
(* Accounts: what a step does to the handlers.                             *)

\* Only r's handler moves.
HandlerMoves(r) ==
  /\ DOMAIN req' = Requests /\ DOMAIN req'[r] = HandlerFields
  /\ \A s \in Requests \ {r} : req'[s] = req[s]

\* An account is deleted or keeps its code.
KeepsRows ==
  /\ DOMAIN accounts' = Ids
  /\ \A id \in Ids : accounts'[id] = NoAccount
                     \/ /\ DOMAIN accounts'[id] = RowFields /\ accounts[id] # NoAccount
                        /\ accounts'[id].code = accounts[id].code

\* A step that concerns neither the locks nor the codes.
Plain(r) ==
  /\ HandlerMoves(r) /\ KeepsRows
  /\ ~Locking(req[r]) /\ ~Failing(req'[r]) /\ ~Holding(req'[r]) /\ req'[r].pc # "assign"
  /\ req'[r].pc = "reserve" => req'[r].code \in Codes \cup {NoCode}
  /\ UNCHANGED <<nextId, codes, failures, faults>>

\* A handler that goes on to its next statement.
LEMMA HandlerGoto ==
  ASSUME AccountsTyped, NEW r \in Requests, NEW pc, Goto(r, pc)
  PROVE  /\ HandlerMoves(r) /\ req'[r].pc = pc
         /\ req'[r].code = req[r].code /\ req'[r].target = req[r].target
<1>1. DOMAIN req = Requests /\ DOMAIN req[r] = HandlerFields
  BY DEF AccountsTyped, HandlerShape
<1> QED
  BY <1>1 DEF Goto, HandlerMoves, HandlerFields

\* A handler that has answered.
LEMMA HandlerDone ==
  ASSUME AccountsTyped, NEW r \in Requests, Done(r)
  PROVE  HandlerMoves(r) /\ req'[r].pc = "idle"
<1>1. DOMAIN req = Requests
  BY DEF AccountsTyped
<1> QED
  BY <1>1 DEF Done, Idle, HandlerMoves, HandlerFields

\* A handler that begins, or refuses at once.
LEMMA HandlerReceive ==
  ASSUME AccountsTyped, NEW r \in Requests, NEW handler, Receive(r, handler),
         DOMAIN handler = HandlerFields
  PROVE  HandlerMoves(r) /\ req[r].pc = "idle" /\ req'[r].pc = handler.pc
<1>1. DOMAIN req = Requests
  BY DEF AccountsTyped
<1> QED
  BY <1>1 DEF Receive, At, Idle, HandlerMoves, HandlerFields

\* Accounts that stay as they are.
LEMMA RowsSame == ASSUME AccountsTyped, accounts' = accounts PROVE KeepsRows
  BY DEF AccountsTyped, RowsTyped, KeepsRows

-----------------------------------------------------------------------------
(* What it leaves alone.                                                   *)

\* The shapes are kept when the handler and the tables keep theirs.
LEMMA AccountsStayTyped ==
  ASSUME AccountsTyped, NEW r \in Requests, HandlerMoves(r), HandlerShape(req'[r]),
         RowsTyped', FailuresTyped', CodesTyped', faults' \in Nat
  PROVE  AccountsTyped'
<1>1. \A s \in Requests : HandlerShape(req'[s])
  BY DEF HandlerMoves, AccountsTyped
<1> QED
  BY <1>1 DEF HandlerMoves, AccountsTyped

\* Accounts that are deleted or keep their code.
LEMMA RowsStayTyped ==
  ASSUME AccountsTyped, KeepsRows, nextId' = nextId
  PROVE  RowsTyped' /\ \A id \in Ids : Exists(id)' => Exists(id)
        /\ accounts'[id].code = accounts[id].code
  BY DEF AccountsTyped, RowsTyped, KeepsRows, Exists

\* A lock is kept by a step that is not about to lock and writes no failures.
LEMMA LocksSame ==
  ASSUME LockedWhenExceeded, NEW r \in Requests, HandlerMoves(r), ~Locking(req[r]),
         failures' = failures, faults' = faults
  PROVE  LockedWhenExceeded'
<1> SUFFICES ASSUME faults = 0, NEW id \in Ids, failures[id].count >= MaxFailures,
                    failures[id].locked = "no"
             PROVE  \E s \in Requests : req'[s].target = id /\ Locking(req'[s])
  BY DEF LockedWhenExceeded, Locking
<1>1. PICK s \in Requests : req[s].target = id /\ Locking(req[s])
  BY DEF LockedWhenExceeded, Locking
<1>2. req'[s] = req[s]
  BY <1>1 DEF HandlerMoves
<1> QED
  BY <1>1, <1>2

\* The codes are in order after a step that writes none, and whose handler
\* holds and assigns none.
LEMMA InvitesSame ==
  ASSUME AccountsTyped, Invites, NEW r \in Requests, HandlerMoves(r), KeepsRows,
         ~Holding(req'[r]), req'[r].pc # "assign", codes' = codes, nextId' = nextId,
         faults' = faults
  PROVE  Invites'
<1> SUFFICES ASSUME RequireInvite, faults = 0, Held, Spent, Named
             PROVE  Held' /\ Spent' /\ Named'
  BY DEF Invites
<1>1. \A id \in Ids : Exists(id)' => Exists(id) /\ accounts'[id].code = accounts[id].code
  BY RowsStayTyped
<1>2. \A s \in Requests : Holding(req'[s]) \/ req'[s].pc = "assign" => req'[s] = req[s]
  BY DEF HandlerMoves
<1>3. \A c : Used(c)' <=> Used(c)
  BY DEF Used
<1>4. \A id : Exists(id) => id \in Ids
  BY DEF Exists
<1>5. \A id : Exists(id)' => id \in Ids
  BY DEF Exists
<1>6. Held'
  BY <1>1, <1>2, <1>3 DEF Held
<1>7. Spent'
  BY <1>1, <1>3 DEF Spent
<1>8. Named'
  BY <1>1, <1>2, <1>4, <1>5 DEF Named
<1> QED
  BY <1>6, <1>7, <1>8

\* A step that concerns neither keeps the invariant.
LEMMA PlainKeeps == ASSUME AccountsInv, NEW r \in Requests, Plain(r) PROVE AccountsInv'
<1>1. HandlerShape(req'[r])
  BY DEF Plain, HandlerShape, HandlerMoves
<1>2. RowsTyped' /\ FailuresTyped' /\ CodesTyped' /\ faults' \in Nat
  BY RowsStayTyped DEF AccountsInv, AccountsTyped, Plain, FailuresTyped, CodesTyped
<1>3. AccountsTyped'
  BY <1>1, <1>2, AccountsStayTyped DEF AccountsInv, Plain
<1>4. LockedWhenExceeded'
  BY LocksSame DEF AccountsInv, Plain
<1>5. Invites'
  BY InvitesSame DEF AccountsInv, Plain
<1> QED
  BY <1>3, <1>4, <1>5 DEF AccountsInv

-----------------------------------------------------------------------------
(* The steps that concern neither the locks nor the codes.                 *)

PlainPc(pc) == pc \notin {"reserve", "login_check", "login_failed", "login_count", "login_lock",
                          "login_reset", "find_user", "find_mail", "create", "release", "assign"}

\* A handler that is elsewhere, or gets elsewhere.
LEMMA PlainStep ==
  ASSUME NEW r \in Requests, HandlerMoves(r), KeepsRows, ~Locking(req[r]), PlainPc(req'[r].pc),
         UNCHANGED <<nextId, codes, failures, faults>>
  PROVE  Plain(r)
  BY DEF Plain, PlainPc, Failing, Holding

\* A request that begins with a statement of that kind.
LEMMA PlainReceive ==
  ASSUME AccountsTyped, NEW r \in Requests, NEW handler, Receive(r, handler),
         DOMAIN handler = HandlerFields, PlainPc(handler.pc), UNCHANGED <<tables, faults>>
  PROVE  Plain(r)
<1>1. HandlerMoves(r) /\ ~Locking(req[r]) /\ PlainPc(req'[r].pc)
  BY HandlerReceive DEF Locking
<1> QED
  BY <1>1, RowsSame, PlainStep DEF tables

\* The same behind a token.
LEMMA PlainAuthenticated ==
  ASSUME AccountsTyped, NEW r \in Requests, NEW handler, Authenticated(r, handler),
         \A t \in access : DOMAIN handler[t] = HandlerFields /\ PlainPc(handler[t].pc),
         UNCHANGED <<tables, faults>>
  PROVE  Plain(r)
<1>1. PICK t \in access :
        Receive(r, [handler[t] EXCEPT !.acct = t.acct, !.role = accounts[t.acct].role])
  BY DEF Authenticated
<1> DEFINE q == [handler[t] EXCEPT !.acct = t.acct, !.role = accounts[t.acct].role]
<1>2. DOMAIN q = HandlerFields /\ q.pc = handler[t].pc
  BY DEF HandlerFields
<1> HIDE DEF q
<1> QED
  BY <1>1, <1>2, PlainReceive DEF q

\* The same behind an administrator's token.
LEMMA PlainAdmin ==
  ASSUME AccountsTyped, NEW r \in Requests, NEW handler, RequireAdmin(r, handler),
         \A t \in access : DOMAIN handler[t] = HandlerFields /\ PlainPc(handler[t].pc),
         UNCHANGED <<tables, faults>>
  PROVE  Plain(r)
<1>1. PICK t \in access : Receive(r, [handler[t] EXCEPT !.acct = t.acct, !.role = "admin"])
  BY DEF RequireAdmin
<1> DEFINE q == [handler[t] EXCEPT !.acct = t.acct, !.role = "admin"]
<1>2. DOMAIN q = HandlerFields /\ q.pc = handler[t].pc
  BY DEF HandlerFields
<1> HIDE DEF q
<1> QED
  BY <1>1, <1>2, PlainReceive DEF q

\* The requests for a token, and what they do to the two token tables.
LEMMA TokenStepsPlain == ASSUME AccountsTyped, NEW r \in Requests, TokenStep(r)
  PROVE Plain(r)
<1>1. CASE IssueAccess(r)
  BY <1>1, HandlerGoto, RowsSame, PlainStep DEF IssueAccess, At, tables, Locking, PlainPc
<1>2. CASE IssueRefresh(r)
  BY <1>2, HandlerDone, RowsSame, PlainStep DEF IssueRefresh, At, tables, Locking, PlainPc
<1>3. CASE RefreshEndpoint(r)
  <2>1. PICK t \in refresh : Receive(r, [Idle EXCEPT !.pc = "refresh_delete", !.target = t.acct,
                                                     !.seen = t])
    BY <1>3 DEF RefreshEndpoint
  <2> DEFINE q == [Idle EXCEPT !.pc = "refresh_delete", !.target = t.acct, !.seen = t]
  <2>2. DOMAIN q = HandlerFields /\ PlainPc(q.pc)
    BY DEF Idle, HandlerFields, PlainPc
  <2> HIDE DEF q
  <2> QED
    BY <1>3, <2>1, <2>2, PlainReceive DEF RefreshEndpoint, q
<1>4. CASE RefreshDelete(r)
  BY <1>4, HandlerGoto, RowsSame, PlainStep DEF RefreshDelete, At, tables, Locking, PlainPc
<1>5. CASE CreateTokenEndpoint(r)
  <2> DEFINE h == [t \in access |-> [Idle EXCEPT !.pc = "create_token", !.target = t.acct]]
  <2>1. \A t \in access : DOMAIN h[t] = HandlerFields /\ PlainPc(h[t].pc)
    BY DEF Idle, HandlerFields, PlainPc
  <2> HIDE DEF h
  <2> QED
    BY <1>5, <2>1, PlainAuthenticated DEF CreateTokenEndpoint, h
<1>6. CASE CreateToken(r)
  BY <1>6, HandlerDone, RowsSame, PlainStep DEF CreateToken, At, tables, Locking, PlainPc
<1>7. CASE LogoutEndpoint(r)
  <2> DEFINE h == [t \in access |-> [Idle EXCEPT !.pc = "revoke", !.seen = t]]
  <2>1. \A t \in access : DOMAIN h[t] = HandlerFields /\ PlainPc(h[t].pc)
    BY DEF Idle, HandlerFields, PlainPc
  <2> HIDE DEF h
  <2> QED
    BY <1>7, <2>1, PlainAuthenticated DEF LogoutEndpoint, h
<1>8. CASE RevokeTokenEndpoint(r)
  <2>1. PICK t \in access : Authenticated(r, [u \in access |->
          [Idle EXCEPT !.pc = IF t.acct = u.acct THEN "revoke" ELSE "idle", !.seen = t]])
    BY <1>8 DEF RevokeTokenEndpoint
  <2> DEFINE h == [u \in access |->
          [Idle EXCEPT !.pc = IF t.acct = u.acct THEN "revoke" ELSE "idle", !.seen = t]]
  <2>2. \A u \in access : DOMAIN h[u] = HandlerFields /\ PlainPc(h[u].pc)
    BY DEF Idle, HandlerFields, PlainPc
  <2> HIDE DEF h
  <2> QED
    BY <1>8, <2>1, <2>2, PlainAuthenticated DEF RevokeTokenEndpoint, h
<1>9. CASE RevokeToken(r)
  BY <1>9, HandlerDone, RowsSame, PlainStep DEF RevokeToken, At, tables, Locking, PlainPc
<1> QED
  BY <1>1, <1>2, <1>3, <1>4, <1>5, <1>6, <1>7, <1>8, <1>9 DEF TokenStep

\* A password that is written keeps the codes.
LEMMA PasswordWritten ==
  ASSUME AccountsTyped, NEW id, NEW pw, SetPassword(id, pw)
  PROVE  KeepsRows
<1>1. DOMAIN accounts = Ids /\ (Exists(id) => DOMAIN accounts[id] = RowFields)
  BY DEF AccountsTyped, RowsTyped, Exists
<1>2. \A j \in Ids \ {id} : accounts'[j] = accounts[j]
  BY <1>1 DEF SetPassword
<1>3. CASE Exists(id)
  <2>1. DOMAIN accounts' = Ids /\ DOMAIN accounts'[id] = RowFields
        /\ accounts'[id].code = accounts[id].code
    BY <1>1, <1>3 DEF SetPassword, Exists, RowFields
  <2> QED
    BY <1>2, <1>3, <2>1 DEF AccountsTyped, RowsTyped, KeepsRows, Exists
<1> QED
  BY <1>3, RowsSame DEF SetPassword

\* An address that is written keeps the codes.
LEMMA EmailWritten == ASSUME AccountsTyped, NEW r \in Requests, ChangeEmail(r)
  PROVE KeepsRows
<1> DEFINE id == req[r].target
<1>1. DOMAIN accounts = Ids /\ (Exists(id) => DOMAIN accounts[id] = RowFields)
  BY DEF AccountsTyped, RowsTyped, Exists
<1>2. CASE Exists(id) /\ FindByEmail(req[r].mail) \subseteq {id}
  <2>1. DOMAIN accounts' = Ids /\ \A j \in Ids \ {id} : accounts'[j] = accounts[j]
    BY <1>1, <1>2 DEF ChangeEmail
  <2>2. DOMAIN accounts'[id] = RowFields /\ accounts'[id].code = accounts[id].code
    BY <1>1, <1>2 DEF ChangeEmail, Exists, RowFields
  <2> QED
    BY <1>2, <2>1, <2>2 DEF AccountsTyped, RowsTyped, KeepsRows, Exists
<1>3. CASE ~(Exists(id) /\ FindByEmail(req[r].mail) \subseteq {id})
  BY <1>3, RowsSame DEF ChangeEmail
<1> QED
  BY <1>2, <1>3

\* A version key of an avatar that is written keeps the codes.
LEMMA AvatarWritten == ASSUME AccountsTyped, NEW r \in Requests, UpdateAvatarUrl(r)
  PROVE KeepsRows
<1> DEFINE id == req[r].target
<1>1. DOMAIN accounts = Ids /\ (Exists(id) => DOMAIN accounts[id] = RowFields)
  BY DEF AccountsTyped, RowsTyped, Exists
<1>2. CASE Exists(id)
  <2>1. DOMAIN accounts' = Ids /\ \A j \in Ids \ {id} : accounts'[j] = accounts[j]
    BY <1>1, <1>2 DEF UpdateAvatarUrl
  <2>2. DOMAIN accounts'[id] = RowFields /\ accounts'[id].code = accounts[id].code
    BY <1>1, <1>2 DEF UpdateAvatarUrl, Exists, RowFields
  <2> QED
    BY <1>2, <2>1, <2>2 DEF AccountsTyped, RowsTyped, KeepsRows, Exists
<1>3. CASE ~(Exists(id))
  BY <1>3, RowsSame DEF UpdateAvatarUrl
<1> QED
  BY <1>2, <1>3

\* A role that is written keeps the codes.
LEMMA RoleWritten == ASSUME AccountsTyped, NEW r \in Requests, UpdateRole(r) PROVE KeepsRows
<1> DEFINE id == req[r].target
<1>1. DOMAIN accounts = Ids /\ (Exists(id) => DOMAIN accounts[id] = RowFields)
  BY DEF AccountsTyped, RowsTyped, Exists
<1>2. CASE Exists(id)
  <2>1. DOMAIN accounts' = Ids /\ \A j \in Ids \ {id} : accounts'[j] = accounts[j]
    BY <1>1, <1>2 DEF UpdateRole
  <2>2. DOMAIN accounts'[id] = RowFields /\ accounts'[id].code = accounts[id].code
    BY <1>1, <1>2 DEF UpdateRole, Exists, RowFields
  <2> QED
    BY <1>2, <2>1, <2>2 DEF AccountsTyped, RowsTyped, KeepsRows, Exists
<1>3. CASE ~(Exists(id))
  BY <1>3, RowsSame DEF UpdateRole
<1> QED
  BY <1>2, <1>3

\* A limit that is written keeps the codes.
LEMMA LimitWritten == ASSUME AccountsTyped, NEW r \in Requests, UpdateDailyLimit(r)
  PROVE KeepsRows
<1> DEFINE id == req[r].target
<1>1. DOMAIN accounts = Ids /\ (Exists(id) => DOMAIN accounts[id] = RowFields)
  BY DEF AccountsTyped, RowsTyped, Exists
<1>2. CASE Exists(id)
  <2>1. DOMAIN accounts' = Ids /\ \A j \in Ids \ {id} : accounts'[j] = accounts[j]
    BY <1>1, <1>2 DEF UpdateDailyLimit
  <2>2. DOMAIN accounts'[id] = RowFields /\ accounts'[id].code = accounts[id].code
    BY <1>1, <1>2 DEF UpdateDailyLimit, Exists, RowFields
  <2> QED
    BY <1>2, <2>1, <2>2 DEF AccountsTyped, RowsTyped, KeepsRows, Exists
<1>3. CASE ~(Exists(id))
  BY <1>3, RowsSame DEF UpdateDailyLimit
<1> QED
  BY <1>2, <1>3

\* What an account does about itself.
LEMMA AccountStepsPlain ==
  ASSUME AccountsTyped, NEW r \in Requests, AccountStep(r)
  PROVE  Plain(r)
<1>1. CASE ChangePasswordEndpoint(r)
  <2>1. PICK old, new \in Passwords :
          Authenticated(r, [t \in access |->
            [Idle EXCEPT !.pc = "password_check", !.target = t.acct, !.name = old, !.pw = new]])
    BY <1>1 DEF ChangePasswordEndpoint
  <2> DEFINE h == [t \in access |->
            [Idle EXCEPT !.pc = "password_check", !.target = t.acct, !.name = old, !.pw = new]]
  <2>2. \A t \in access : DOMAIN h[t] = HandlerFields /\ PlainPc(h[t].pc)
    BY DEF Idle, HandlerFields, PlainPc
  <2> HIDE DEF h
  <2> QED
    BY <1>1, <2>1, <2>2, PlainAuthenticated DEF ChangePasswordEndpoint, h
<1>2. CASE ChangePasswordCheck(r)
  BY <1>2, HandlerGoto, HandlerDone, RowsSame, PlainStep DEF ChangePasswordCheck, At, tables,
     Locking, PlainPc
<1>3. CASE ChangePassword(r)
  BY <1>3, HandlerDone, PasswordWritten, PlainStep DEF ChangePassword, At, tables, Locking,
     PlainPc
<1>4. CASE ChangeEmailEndpoint(r)
  <2>1. PICK m \in Mails :
          Authenticated(r, [t \in access |->
            [Idle EXCEPT !.pc = "email_check", !.target = t.acct, !.mail = m]])
    BY <1>4 DEF ChangeEmailEndpoint
  <2> DEFINE h == [t \in access |->
            [Idle EXCEPT !.pc = "email_check", !.target = t.acct, !.mail = m]]
  <2>2. \A t \in access : DOMAIN h[t] = HandlerFields /\ PlainPc(h[t].pc)
    BY DEF Idle, HandlerFields, PlainPc
  <2> HIDE DEF h
  <2> QED
    BY <1>4, <2>1, <2>2, PlainAuthenticated DEF ChangeEmailEndpoint, h
<1>5. CASE ChangeEmailCheck(r)
  BY <1>5, HandlerGoto, HandlerDone, RowsSame, PlainStep DEF ChangeEmailCheck, At, tables,
     Locking, PlainPc
<1>6. CASE ChangeEmail(r)
  BY <1>6, HandlerDone, EmailWritten, PlainStep DEF ChangeEmail, At, tables, Locking, PlainPc
<1>7. CASE DeleteAccountEndpoint(r)
  <2> DEFINE h == [t \in access |->
            [Idle EXCEPT !.pc = "delete", !.target = t.acct]]
  <2>2. \A t \in access : DOMAIN h[t] = HandlerFields /\ PlainPc(h[t].pc)
    BY DEF Idle, HandlerFields, PlainPc
  <2> HIDE DEF h
  <2> QED
    BY <1>7, <2>2, PlainAuthenticated DEF DeleteAccountEndpoint, h
<1>8. CASE DeleteFiles(r)
  BY <1>8, HandlerGoto, RowsSame, PlainStep DEF DeleteFiles, At, tables, Locking, PlainPc
<1>9. CASE DeleteRefreshTokens(r)
  BY <1>9, HandlerGoto, RowsSame, PlainStep DEF DeleteRefreshTokens, At, tables, Locking, PlainPc
<1>10. CASE DeleteAccessTokens(r)
  BY <1>10, HandlerGoto, RowsSame, PlainStep DEF DeleteAccessTokens, At, tables, Locking, PlainPc
<1>11. CASE DeleteAccount(r)
  <2>1. KeepsRows
    BY <1>11 DEF DeleteAccount, AccountsTyped, RowsTyped, KeepsRows
  <2> QED
    BY <1>11, <2>1, HandlerDone, PlainStep DEF DeleteAccount, At, Locking, PlainPc
<1>12. CASE UploadAvatarEndpoint(r)
  <2>1. PICK p \in Parts :
          Authenticated(r, [t \in access |->
            [Idle EXCEPT !.pc = "avatar_save", !.target = t.acct, !.part = p]])
    BY <1>12 DEF UploadAvatarEndpoint
  <2> DEFINE h == [t \in access |->
            [Idle EXCEPT !.pc = "avatar_save", !.target = t.acct, !.part = p]]
  <2>2. \A t \in access : DOMAIN h[t] = HandlerFields /\ PlainPc(h[t].pc)
    BY DEF Idle, HandlerFields, PlainPc
  <2> HIDE DEF h
  <2> QED
    BY <1>12, <2>1, <2>2, PlainAuthenticated DEF UploadAvatarEndpoint, h
<1>13. CASE SaveAvatar(r)
  BY <1>13, HandlerGoto, RowsSame, PlainStep DEF SaveAvatar, At, tables, Locking, PlainPc
<1>14. CASE RemoveAvatarEndpoint(r)
  <2>1. PICK p \in Parts :
          Authenticated(r, [t \in access |->
            [Idle EXCEPT !.pc = "avatar_delete", !.target = t.acct, !.part = p]])
    BY <1>14 DEF RemoveAvatarEndpoint
  <2> DEFINE h == [t \in access |->
            [Idle EXCEPT !.pc = "avatar_delete", !.target = t.acct, !.part = p]]
  <2>2. \A t \in access : DOMAIN h[t] = HandlerFields /\ PlainPc(h[t].pc)
    BY DEF Idle, HandlerFields, PlainPc
  <2> HIDE DEF h
  <2> QED
    BY <1>14, <2>1, <2>2, PlainAuthenticated DEF RemoveAvatarEndpoint, h
<1>15. CASE DeleteAvatar(r)
  BY <1>15, HandlerGoto, RowsSame, PlainStep DEF DeleteAvatar, At, tables, Locking, PlainPc
<1>16. CASE GetAvatarEndpoint(r)
  <2>1. PICK p \in Parts :
          Authenticated(r, [t \in access |->
            [Idle EXCEPT !.pc = "avatar_get", !.target = t.acct, !.part = p]])
    BY <1>16 DEF GetAvatarEndpoint
  <2> DEFINE h == [t \in access |->
            [Idle EXCEPT !.pc = "avatar_get", !.target = t.acct, !.part = p]]
  <2>2. \A t \in access : DOMAIN h[t] = HandlerFields /\ PlainPc(h[t].pc)
    BY DEF Idle, HandlerFields, PlainPc
  <2> HIDE DEF h
  <2> QED
    BY <1>16, <2>1, <2>2, PlainAuthenticated DEF GetAvatarEndpoint, h
<1>17. CASE GetAvatarFile(r)
  BY <1>17, HandlerGoto, HandlerDone, RowsSame, PlainStep DEF GetAvatarFile, At, tables,
     Locking, PlainPc
<1>18. CASE UpdateAvatarUrl(r)
  BY <1>18, HandlerDone, AvatarWritten, PlainStep DEF UpdateAvatarUrl, At, tables, Locking,
     PlainPc
<1> QED
  BY <1>1, <1>2, <1>3, <1>4, <1>5, <1>6, <1>7, <1>8, <1>9, <1>10, <1>11, <1>12, <1>13, <1>14,
     <1>15, <1>16, <1>17, <1>18 DEF AccountStep

\* What an administrator does, the creation of codes excepted.
LEMMA AdminStepsPlain ==
  ASSUME AccountsTyped, NEW r \in Requests, AdminStep(r), ~CreateCode(r)
  PROVE  Plain(r)
<1>1. CASE AdminRoleEndpoint(r)
  <2>1. PICK target \in Ids, role \in Roles :
          RequireAdmin(r, [t \in access |->
            [Idle EXCEPT !.pc = IF target = t.acct THEN "idle" ELSE "role",
                         !.target = target, !.name = role]])
    BY <1>1 DEF AdminRoleEndpoint
  <2> DEFINE h == [t \in access |->
            [Idle EXCEPT !.pc = IF target = t.acct THEN "idle" ELSE "role",
                         !.target = target, !.name = role]]
  <2>2. \A t \in access : DOMAIN h[t] = HandlerFields /\ PlainPc(h[t].pc)
    BY DEF Idle, HandlerFields, PlainPc
  <2> HIDE DEF h
  <2> QED
    BY <1>1, <2>1, <2>2, PlainAdmin DEF AdminRoleEndpoint, h
<1>2. CASE UpdateRole(r)
  BY <1>2, HandlerDone, RoleWritten, PlainStep DEF UpdateRole, At, tables, Locking, PlainPc
<1>3. CASE AdminQuotaEndpoint(r)
  <2>1. PICK target \in Ids :
          RequireAdmin(r, [t \in access |->
            [Idle EXCEPT !.pc = "quota", !.target = target]])
    BY <1>3 DEF AdminQuotaEndpoint
  <2> DEFINE h == [t \in access |->
            [Idle EXCEPT !.pc = "quota", !.target = target]]
  <2>2. \A t \in access : DOMAIN h[t] = HandlerFields /\ PlainPc(h[t].pc)
    BY DEF Idle, HandlerFields, PlainPc
  <2> HIDE DEF h
  <2> QED
    BY <1>3, <2>1, <2>2, PlainAdmin DEF AdminQuotaEndpoint, h
<1>4. CASE UpdateDailyLimit(r)
  BY <1>4, HandlerDone, LimitWritten, PlainStep DEF UpdateDailyLimit, At, tables, Locking, PlainPc
<1>5. CASE AdminCreateCodesEndpoint(r)
  <2>1. PICK c \in Codes :
          RequireAdmin(r, [t \in access |->
            [Idle EXCEPT !.pc = "create_code", !.code = c]])
    BY <1>5 DEF AdminCreateCodesEndpoint
  <2> DEFINE h == [t \in access |->
            [Idle EXCEPT !.pc = "create_code", !.code = c]]
  <2>2. \A t \in access : DOMAIN h[t] = HandlerFields /\ PlainPc(h[t].pc)
    BY DEF Idle, HandlerFields, PlainPc
  <2> HIDE DEF h
  <2> QED
    BY <1>5, <2>1, <2>2, PlainAdmin DEF AdminCreateCodesEndpoint, h
<1> QED
  BY <1>1, <1>2, <1>3, <1>4, <1>5 DEF AdminStep

\* A login or a registration begins; a login is past the lock.
LEMMA EndpointsPlain ==
  ASSUME AccountsTyped, NEW r \in Requests,
         \/ LoginEndpoint(r) \/ RegisterEndpoint(r)
         \/ LoginRehash(r) \/ LoginRevoke(r) \/ LoginRevokeRefresh(r)
  PROVE  Plain(r)
<1>1. CASE LoginEndpoint(r)
  <2>1. PICK u \in Users, pw \in Passwords, revoke \in BOOLEAN :
          Receive(r, [Idle EXCEPT !.pc = "login_find", !.name = u, !.pw = pw, !.revoke = revoke])
    BY <1>1 DEF LoginEndpoint
  <2> DEFINE q == [Idle EXCEPT !.pc = "login_find", !.name = u, !.pw = pw, !.revoke = revoke]
  <2>2. DOMAIN q = HandlerFields /\ PlainPc(q.pc)
    BY DEF Idle, HandlerFields, PlainPc
  <2> HIDE DEF q
  <2> QED
    BY <1>1, <2>1, <2>2, PlainReceive DEF LoginEndpoint, q
<1>2. CASE RegisterEndpoint(r)
  <2>1. PICK form \in RegistrationForms, c \in Codes \cup {NoCode} :
          Receive(r, [Idle EXCEPT !.pc = "reserve", !.name = form.name,
                                  !.mail = form.mail, !.code = c, !.pw = form.pw])
    BY <1>2 DEF RegisterEndpoint
  <2> DEFINE q == [Idle EXCEPT !.pc = "reserve", !.name = form.name,
                                !.mail = form.mail, !.code = c, !.pw = form.pw]
  <2>2. DOMAIN q = HandlerFields /\ q.pc = "reserve" /\ q.code = c
    BY DEF Idle, HandlerFields
  <2> HIDE DEF q
  <2>3. HandlerMoves(r) /\ req[r].pc = "idle" /\ req'[r] = q
    <3>1. Receive(r, q)
      BY <2>1 DEF q
    <3> QED
      BY <3>1, <2>2, HandlerReceive DEF AccountsTyped, Receive
  <2> QED
    BY <1>2, <2>2, <2>3, RowsSame DEF RegisterEndpoint, tables, Plain, Locking, Failing, Holding
<1>3. CASE LoginRehash(r)
  BY <1>3, HandlerGoto, PasswordWritten, PlainStep DEF LoginRehash, At, Locking, PlainPc
<1>4. CASE LoginRevoke(r)
  BY <1>4, HandlerGoto, RowsSame, PlainStep DEF LoginRevoke, At, tables, Locking, PlainPc
<1>5. CASE LoginRevokeRefresh(r)
  BY <1>5, HandlerGoto, RowsSame, PlainStep DEF LoginRevokeRefresh, At, tables, Locking, PlainPc
<1> QED
  BY <1>1, <1>2, <1>3, <1>4, <1>5

-----------------------------------------------------------------------------
(* Logins: the failures and the lock.                                      *)

\* A step of a login that writes nothing but the failures.
LEMMA LoginKeeps ==
  ASSUME AccountsInv, NEW r \in Requests, HandlerMoves(r),
         Failing(req'[r]) => req'[r].target \in Ids, ~Holding(req'[r]),
         req'[r].pc \notin {"assign", "reserve"},
         UNCHANGED <<accounts, nextId, codes, faults>>, FailuresTyped', LockedWhenExceeded'
  PROVE  AccountsInv'
<1>1. HandlerShape(req'[r])
  BY DEF HandlerShape, HandlerMoves
<1>2. RowsTyped' /\ CodesTyped' /\ faults' \in Nat
  BY RowsSame, RowsStayTyped DEF AccountsInv, AccountsTyped, CodesTyped
<1>3. AccountsTyped'
  BY <1>1, <1>2, AccountsStayTyped DEF AccountsInv
<1>4. Invites'
  BY RowsSame, InvitesSame DEF AccountsInv
<1> QED
  BY <1>3, <1>4 DEF AccountsInv

\* The account is found; its lock and the password are looked at.
LEMMA LoginReads ==
  ASSUME AccountsInv, NEW r \in Requests, LoginFind(r) \/ LoginCheck(r)
  PROVE  AccountsInv'
<1>a. AccountsTyped /\ DOMAIN req = Requests /\ HandlerShape(req[r]) /\ LockedWhenExceeded
  BY DEF AccountsInv, AccountsTyped
<1>b. /\ UNCHANGED <<accounts, nextId, codes, failures, faults>> /\ ~Locking(req[r])
  BY DEF LoginFind, LoginCheck, tables, At, Locking
<1>1. HandlerMoves(r) /\ (Failing(req'[r]) => req'[r].target \in Ids)
      /\ ~Holding(req'[r]) /\ req'[r].pc \notin {"assign", "reserve"}
  <2>1. CASE LoginFind(r) /\ Done(r)
    BY <2>1, <1>a, HandlerDone DEF Failing, Holding
  <2>2. CASE LoginFind(r) /\ ~Done(r)
    <3>1. PICK id \in FindByUsername(req[r].name) :
            req' = [req EXCEPT ![r].pc = "login_check", ![r].target = id,
                                ![r].seen = accounts[id]]
      BY <2>2 DEF LoginFind
    <3>2. id \in Ids
      BY <3>1 DEF FindByUsername
    <3>3. /\ HandlerMoves(r) /\ req'[r].pc = "login_check" /\ req'[r].target = id
      BY <3>1, <1>a DEF HandlerShape, HandlerMoves, HandlerFields
    <3> QED
      BY <3>2, <3>3 DEF Holding
  <2>3. CASE LoginCheck(r)
    <3>1. req[r].target \in Ids
      BY <2>3, <1>a DEF LoginCheck, At, HandlerShape, Failing
    <3>2. \/ Done(r)
          \/ \E pc \in {"login_reset", "login_failed"} : Goto(r, pc)
      BY <2>3 DEF LoginCheck
    <3> QED
      BY <3>1, <3>2, <1>a, HandlerDone, HandlerGoto DEF Failing, Holding
  <2> QED
    BY <2>1, <2>2, <2>3
<1>2. FailuresTyped'
  BY <1>b DEF AccountsInv, AccountsTyped, FailuresTyped
<1>3. LockedWhenExceeded'
  BY <1>1, <1>a, <1>b, LocksSame
<1> QED
  BY <1>1, <1>2, <1>3, <1>b, LoginKeeps

\* The account of another request is not touched by a write to one account.
LEMMA OtherLocks ==
  ASSUME LockedWhenExceeded, faults = 0, NEW r \in Requests, HandlerMoves(r),
         NEW id \in Ids, failures'[id] = failures[id], req[r].target # id,
         failures[id].count >= MaxFailures
  PROVE  \/ failures'[id].locked # "no"
         \/ \E s \in Requests : req'[s].target = id /\ Locking(req'[s])
<1> SUFFICES ASSUME failures[id].locked = "no"
             PROVE  \E s \in Requests : req'[s].target = id /\ Locking(req'[s])
  OBVIOUS
<1>1. PICK s \in Requests : req[s].target = id /\ Locking(req[s])
  BY DEF LockedWhenExceeded, Locking
<1>2. req'[s] = req[s]
  BY <1>1 DEF HandlerMoves
<1> QED
  BY <1>1, <1>2

\* A failure is counted, a success deletes the count, the lock is set: what a
\* write to the row of one account keeps.
LEMMA FailureWritten ==
  ASSUME AccountsInv, NEW r \in Requests, HandlerMoves(r), req[r].target \in Ids,
         NEW row \in [count : Nat, locked : {"no", "until", "expired"}],
         failures' = [failures EXCEPT ![req[r].target] = row],
         row.count >= MaxFailures =>
           row.locked # "no" \/ (req'[r].target = req[r].target /\ Locking(req'[r])),
         Failing(req'[r]) => req'[r].target \in Ids, ~Holding(req'[r]),
         req'[r].pc \notin {"assign", "reserve"},
         UNCHANGED <<accounts, nextId, codes, faults>>
  PROVE  AccountsInv'
<1> DEFINE t == req[r].target
<1>a. DOMAIN failures = Ids /\ LockedWhenExceeded
      /\ failures \in [Ids -> [count : Nat, locked : {"no", "until", "expired"}]]
  BY DEF AccountsInv, AccountsTyped, FailuresTyped
<1>1. FailuresTyped'
  BY <1>a DEF FailuresTyped
<1>2. ASSUME faults = 0, NEW id \in Ids, failures'[id].count >= MaxFailures
      PROVE  \/ failures'[id].locked # "no"
             \/ \E s \in Requests : req'[s].target = id /\ Locking(req'[s])
  <2>1. CASE id = t
    BY <2>1, <1>2, <1>a
  <2>2. CASE id # t
    <3>1. failures'[id] = failures[id]
      BY <2>2, <1>a
    <3> QED
      BY <3>1, <2>2, <1>2, <1>a, OtherLocks
  <2> QED
    BY <2>1, <2>2
<1>3. LockedWhenExceeded'
  BY <1>2 DEF LockedWhenExceeded, Locking
<1> QED
  BY <1>1, <1>3, LoginKeeps

\* A row of failures that is written field by field is the row with that field.
LEMMA FailureFields ==
  ASSUME AccountsTyped, NEW id \in Ids
  PROVE  /\ \A n : [failures EXCEPT ![id].count = n]
                     = [failures EXCEPT ![id] = [count |-> n, locked |-> failures[id].locked]]
         /\ \A l : [failures EXCEPT ![id].locked = l]
                     = [failures EXCEPT ![id] = [count |-> failures[id].count, locked |-> l]]
         /\ failures[id].count \in Nat /\ failures[id].locked \in {"no", "until", "expired"}
  BY DEF AccountsTyped, FailuresTyped

\* The failure is counted; the count is read again; the account is locked; a
\* login that succeeds deletes its row.
LEMMA LoginWrites ==
  ASSUME AccountsInv, NEW r \in Requests,
         LoginFailed(r) \/ LoginCount(r) \/ LoginLock(r) \/ LoginReset(r)
  PROVE  AccountsInv'
<1> DEFINE t == req[r].target
           row == failures[t]
<1>a. AccountsTyped /\ DOMAIN req = Requests /\ HandlerShape(req[r]) /\ LockedWhenExceeded
  BY DEF AccountsInv, AccountsTyped
<1>b. UNCHANGED <<accounts, nextId, codes, faults>>
  BY DEF LoginFailed, LoginCount, LoginLock, LoginReset, tables
<1>c. t \in Ids
  BY <1>a DEF LoginFailed, LoginCount, LoginLock, LoginReset, At, HandlerShape, Failing
<1>d. row.count \in Nat /\ row.locked \in {"no", "until", "expired"}
      /\ MaxFailures \in Nat \ {0}
  BY <1>a, <1>c, FailureFields, AccountsBounds
<1>1. CASE LoginFailed(r)
  <2> DEFINE new == [count |-> row.count + 1, locked |-> row.locked]
  <2>1. failures' = [failures EXCEPT ![t] = new]
    BY <1>1, <1>a, <1>c, FailureFields DEF LoginFailed
  <2>2. new \in [count : Nat, locked : {"no", "until", "expired"}]
    BY <1>d
  <2>3. HandlerMoves(r) /\ req'[r].pc = "login_count" /\ req'[r].target = t
    BY <1>1, <1>a, HandlerGoto DEF LoginFailed
  <2> HIDE DEF new
  <2> QED
    BY <2>1, <2>2, <2>3, <1>b, <1>c, FailureWritten DEF Locking, Holding
<1>2. CASE LoginCount(r)
  <2>1. failures' = failures /\ req[r].pc = "login_count"
    BY <1>2 DEF LoginCount, tables, At
  <2>2. failures' = [failures EXCEPT ![t] = row]
    BY <2>1, <1>a, <1>c DEF AccountsTyped, FailuresTyped
  <2>3. \/ row.count >= MaxFailures /\ Goto(r, "login_lock")
        \/ ~(row.count >= MaxFailures) /\ Done(r)
    BY <1>2 DEF LoginCount, Exceeded
  <2>4. /\ HandlerMoves(r) /\ req'[r].pc \in {"idle", "login_lock"}
        /\ req'[r].pc = "login_lock" => req'[r].target = t
        /\ row.count >= MaxFailures => req'[r].pc = "login_lock"
    BY <2>3, <1>a, HandlerGoto, HandlerDone
  <2>5. row \in [count : Nat, locked : {"no", "until", "expired"}]
    BY <1>a, <1>c DEF AccountsTyped, FailuresTyped
  <2> HIDE DEF row
  <2> QED
    BY <2>2, <2>4, <2>5, <1>b, <1>c, FailureWritten DEF Locking, Failing, Holding
<1>3. CASE LoginLock(r)
  <2> DEFINE new == [count |-> row.count,
                     locked |-> IF row.count = 0 THEN row.locked ELSE "until"]
  <2>1. failures' = [failures EXCEPT ![t] = new]
    BY <1>3, <1>a, <1>c, FailureFields DEF LoginLock
  <2>2. /\ new \in [count : Nat, locked : {"no", "until", "expired"}]
        /\ new.count >= MaxFailures => new.locked # "no"
    BY <1>d
  <2>3. HandlerMoves(r) /\ req'[r].pc = "idle"
    BY <1>3, <1>a, HandlerDone DEF LoginLock
  <2> HIDE DEF new
  <2> QED
    BY <2>1, <2>2, <2>3, <1>b, <1>c, FailureWritten DEF Failing, Holding
<1>4. CASE LoginReset(r)
  <2> DEFINE new == [count |-> 0, locked |-> "no"]
  <2>1. failures' = [failures EXCEPT ![t] = new]
    BY <1>4 DEF LoginReset
  <2>2. /\ new \in [count : Nat, locked : {"no", "until", "expired"}]
        /\ ~(new.count >= MaxFailures)
    BY <1>d
  <2>3. HandlerMoves(r) /\ req'[r].pc \in {"login_rehash", "login_revoke", "issue"}
    BY <1>4, <1>a, HandlerGoto DEF LoginReset
  <2> HIDE DEF new
  <2> QED
    BY <2>1, <2>2, <2>3, <1>b, <1>c, FailureWritten DEF Failing, Holding
<1> QED
  BY <1>1, <1>2, <1>3, <1>4

\* A lock that expires is still a lock that was set.
LEMMA ExpiryKeeps == ASSUME AccountsInv, NEW id \in Ids, LockExpires(id) PROVE AccountsInv'
<1>a. AccountsTyped /\ LockedWhenExceeded /\ Invites
  BY DEF AccountsInv
<1>b. /\ failures \in [Ids -> [count : Nat, locked : {"no", "until", "expired"}]]
      /\ failures' = [failures EXCEPT ![id].locked = "expired"]
      /\ UNCHANGED <<accounts, nextId, codes, req, faults>>
  BY <1>a DEF LockExpires, AccountsTyped, FailuresTyped
<1>1. FailuresTyped'
  BY <1>b DEF FailuresTyped
<1>2. AccountsTyped'
  BY <1>1, <1>a, <1>b DEF AccountsTyped, RowsTyped, CodesTyped, Exists
<1>3. \A i \in Ids : failures'[i].count = failures[i].count
                     /\ (failures'[i].locked = "no" => failures[i].locked = "no")
  BY <1>b
<1>4. LockedWhenExceeded'
  BY <1>a, <1>b, <1>3 DEF LockedWhenExceeded
<1>5. Invites'
  BY <1>a, <1>b DEF Invites, Held, Spent, Named, Used, Exists
<1> QED
  BY <1>2, <1>4, <1>5 DEF AccountsInv

-----------------------------------------------------------------------------
(* Registrations: the invite codes.                                        *)

\* A step that writes no failures and leaves the codes in order.
LEMMA RegisterKeeps ==
  ASSUME AccountsInv, NEW r \in Requests, HandlerMoves(r), ~Locking(req[r]), ~Failing(req'[r]),
         req'[r].pc # "reserve",
         failures' = failures, faults' = faults, RowsTyped', CodesTyped',
         RequireInvite /\ faults = 0 => Held' /\ Spent' /\ Named'
  PROVE  AccountsInv'
<1>1. HandlerShape(req'[r])
  BY DEF HandlerShape, HandlerMoves
<1>2. FailuresTyped' /\ faults' \in Nat
  BY DEF AccountsInv, AccountsTyped, FailuresTyped
<1>3. AccountsTyped'
  BY <1>1, <1>2, AccountsStayTyped DEF AccountsInv
<1>4. LockedWhenExceeded'
  BY LocksSame DEF AccountsInv
<1>5. Invites'
  BY DEF Invites
<1> QED
  BY <1>3, <1>4, <1>5 DEF AccountsInv

\* A step that writes no account leaves them typed.
LEMMA SameRows ==
  ASSUME AccountsTyped, UNCHANGED <<accounts, nextId>>
  PROVE  RowsTyped' /\ \A id : Exists(id)' <=> Exists(id)
  BY DEF AccountsTyped, RowsTyped, Exists

\* The name and the address are looked for: the code stays held.
LEMMA FindKeeps ==
  ASSUME AccountsInv, NEW r \in Requests, FindUser(r) \/ FindMail(r)
  PROVE  AccountsInv'
<1>a. AccountsTyped /\ Invites
  BY DEF AccountsInv
<1>b. /\ UNCHANGED <<accounts, nextId, codes, failures, faults>>
      /\ Holding(req[r]) /\ ~Locking(req[r])
  BY DEF FindUser, FindMail, tables, At, Holding, Locking
<1>1. PICK pc \in {"find_mail", "create", "release"} : Goto(r, pc)
  BY DEF FindUser, FindMail
<1>2. HandlerMoves(r) /\ req'[r].pc = pc /\ req'[r].code = req[r].code
  BY <1>1, <1>a, HandlerGoto
<1>3. RowsTyped' /\ CodesTyped' /\ ~Failing(req'[r])
  BY <1>a, <1>b, <1>2, SameRows DEF AccountsTyped, CodesTyped, Failing
<1>4. ASSUME RequireInvite, faults = 0 PROVE Held' /\ Spent' /\ Named'
  <2>a. Held /\ Spent /\ Named
    BY <1>a, <1>4 DEF Invites
  <2>b. (\A id : Exists(id)' <=> Exists(id)) /\ (\A c : Used(c)' <=> Used(c))
    BY <1>b DEF Exists, Used
  <2>1. \A s \in Requests : Holding(req'[s]) => Holding(req[s]) /\ req'[s].code = req[s].code
    BY <1>b, <1>2 DEF HandlerMoves
  <2>2. Held'
    BY <2>a, <2>b, <2>1, <1>b DEF Held
  <2>3. Spent'
    BY <2>a, <2>b, <1>b DEF Spent
  <2>4. \A s \in Requests : req'[s].pc = "assign" => req'[s] = req[s]
    BY <1>2 DEF HandlerMoves
  <2>5. Named'
    BY <2>a, <2>b, <2>4, <1>b DEF Named
  <2> QED
    BY <2>2, <2>3, <2>5
<1> QED
  BY <1>2, <1>3, <1>4, <1>b, RegisterKeeps

\* A code that is unused is held by nobody and named by no account.
LEMMA ReserveKeeps == ASSUME AccountsInv, NEW r \in Requests, Reserve(r) PROVE AccountsInv'
<1> DEFINE c == req[r].code
           taken == RequireInvite /\ c # NoCode /\ Reservable(c)
           row == [status |-> "used", usedBy |-> 0]
<1>a. AccountsTyped /\ Invites /\ DOMAIN codes = Codes
      /\ \A x \in Codes : DOMAIN codes[x] = {"status", "usedBy"}
  BY DEF AccountsInv, AccountsTyped, CodesTyped
<1>b. /\ UNCHANGED <<accounts, nextId, failures, faults>> /\ req[r].pc = "reserve"
      /\ codes' = IF taken THEN [codes EXCEPT ![c] = row] ELSE codes
  BY DEF Reserve, At
<1>1. /\ HandlerMoves(r) /\ req'[r].pc \in {"find_user", "idle"}
      /\ req'[r].pc = "find_user" => req'[r].code = c /\ (RequireInvite => taken)
  BY <1>a, HandlerGoto, HandlerDone DEF Reserve
<1>2. ~Locking(req[r]) /\ ~Failing(req'[r]) /\ RowsTyped'
  BY <1>1, <1>a, <1>b, SameRows DEF Locking, Failing
<1>3. DOMAIN codes' = Codes /\ \A x \in Codes : IF taken /\ x = c THEN codes'[x] = row
                                                 ELSE codes'[x] = codes[x]
  <2> HIDE DEF row
  <2> QED
    BY <1>a, <1>b
<1>4. CodesTyped'
  BY <1>3, <1>a DEF CodesTyped
<1>5. ASSUME RequireInvite, faults = 0 PROVE Held' /\ Spent' /\ Named'
  <2>a. Held /\ Spent /\ Named
    BY <1>a, <1>5 DEF Invites
  <2>b. \A id : Exists(id)' <=> Exists(id)
    BY <1>b DEF Exists
  <2>c. taken => c \in Codes /\ codes[c].status = "unused"
    BY <1>a, <1>b DEF AccountsTyped, HandlerShape, Reservable
  <2>d. /\ \A x \in Codes \ {c} : codes'[x] = codes[x]
        /\ codes'[c] = codes[c] \/ (codes'[c].status = "used" /\ codes'[c].usedBy = 0)
        /\ taken => codes'[c].status = "used"
    BY <1>a, <1>b, <2>c
  <2>1. /\ \A s \in Requests \ {r} : req'[s] = req[s]
        /\ Holding(req'[r]) => taken /\ req'[r].code = c
        /\ req'[r].pc # "assign"
    BY <1>1, <1>5 DEF HandlerMoves, Holding
  <2>e. ~Exists(0)
    BY DEF Exists, Ids
  <2> HIDE DEF taken, c
  <2>f. \A x : Used(x) => x \in Codes /\ codes'[x].status = "used" /\ (taken => x # c)
    BY <2>c, <2>d DEF Used
  <2>2. Held'
    <3>1. \A s \in Requests : Holding(req'[s]) =>
            req'[s].code \in Codes /\ codes'[req'[s].code].status = "used"
      BY <2>a, <2>c, <2>d, <2>1, <2>f DEF Held
    <3>2. \A s, t \in Requests :
            s # t /\ Holding(req'[s]) /\ Holding(req'[t]) => req'[s].code # req'[t].code
      BY <2>a, <2>1, <2>f DEF Held
    <3>3. \A s \in Requests, id \in Ids : 
            Holding(req'[s]) /\ Exists(id) => accounts[id].code # req'[s].code
      <4>1. \A id \in Ids : Exists(id) /\ taken => accounts[id].code # c
        BY <2>a, <2>c, <2>f, AccountsBounds DEF Spent
      <4> QED
        BY <2>a, <2>1, <4>1 DEF Held
    <3> QED
      BY <3>1, <3>2, <3>3, <2>b, <1>b DEF Held, Used
  <2>3. Spent'
    BY <2>a, <2>b, <2>f, <1>b DEF Spent, Used
  <2>4. Named'
    <3>1. \A x \in Codes : codes'[x].usedBy = codes[x].usedBy \/ codes'[x].usedBy = 0
      BY <2>d
    <3>2. nextId \in Nat \ {0}
      BY <1>a DEF AccountsTyped, RowsTyped
    <3> QED
      BY <2>a, <2>b, <2>e, <2>1, <3>1, <3>2, <1>b DEF Named
  <2> QED
    BY <2>2, <2>3, <2>4
<1> QED
  BY <1>1, <1>2, <1>4, <1>5, <1>b, RegisterKeeps

\* The account that is created is the only one of its code, and no longer held.
LEMMA CreateKeeps == ASSUME AccountsInv, NEW r \in Requests, CreateAccount(r)
  PROVE AccountsInv'
<1> DEFINE c == req[r].code
           n == nextId
           row == [name |-> req[r].name, mail |-> req[r].mail, role |-> "user",
                   pw |-> req[r].pw, legacy |-> FALSE, limit |-> 1,
                   code |-> c, avatar |-> [p \in Parts |-> FALSE]]
           next == IF c = NoCode THEN "issue" ELSE "assign"
<1>a. AccountsTyped /\ Invites /\ DOMAIN accounts = Ids /\ nextId \in Nat \ {0}
      /\ DOMAIN req = Requests /\ DOMAIN req[r] = HandlerFields
      /\ \A id \in Ids : id >= nextId => ~Exists(id)
  BY DEF AccountsInv, AccountsTyped, RowsTyped, HandlerShape
<1>b. /\ UNCHANGED <<codes, failures, faults>> /\ req[r].pc = "create"
      /\ Holding(req[r]) /\ ~Locking(req[r])
  BY DEF CreateAccount, At, Holding, Locking
<1>1. CASE Goto(r, "release") /\ UNCHANGED <<accounts, nextId>>
  <2>1. HandlerMoves(r) /\ req'[r].pc = "release" /\ req'[r].code = c
    BY <1>1, <1>a, HandlerGoto
  <2>2. RowsTyped' /\ CodesTyped' /\ ~Failing(req'[r])
    BY <1>a, <1>b, <1>1, <2>1, SameRows DEF AccountsTyped, CodesTyped, Failing
  <2>3. ASSUME RequireInvite, faults = 0 PROVE Held' /\ Spent' /\ Named'
    <3>a. Held /\ Spent /\ Named
      BY <1>a, <2>3 DEF Invites
    <3>b. (\A id : Exists(id)' <=> Exists(id)) /\ (\A x : Used(x)' <=> Used(x))
      BY <1>b, <1>1 DEF Exists, Used
    <3>1. \A s \in Requests : Holding(req'[s]) => Holding(req[s]) /\ req'[s].code = req[s].code
      BY <1>b, <2>1 DEF HandlerMoves
    <3>2. Held'
      BY <3>a, <3>b, <3>1, <1>b, <1>1 DEF Held
    <3>3. Spent'
      BY <3>a, <3>b, <1>b, <1>1 DEF Spent
    <3>4. \A s \in Requests : req'[s].pc = "assign" => req'[s] = req[s]
      BY <2>1 DEF HandlerMoves
    <3>5. Named'
      BY <3>a, <3>b, <3>4, <1>b, <1>1 DEF Named
    <3> QED
      BY <3>2, <3>3, <3>5
  <2> QED
    BY <2>1, <2>2, <2>3, <1>b, RegisterKeeps
<1>2. CASE ~(Goto(r, "release") /\ UNCHANGED <<accounts, nextId>>)
  <2>1. /\ n \in Ids /\ accounts' = [accounts EXCEPT ![n] = row] /\ nextId' = n + 1
        /\ req' = [req EXCEPT ![r].target = n, ![r].pc = next]
    BY <1>2 DEF CreateAccount
  <2>2. /\ HandlerMoves(r) /\ req'[r].pc = next /\ req'[r].target = n /\ req'[r].code = c
    <3> HIDE DEF n, next
    <3> QED
      BY <2>1, <1>a DEF HandlerMoves, HandlerFields
  <2>3. next \in {"issue", "assign"} /\ row # NoAccount /\ DOMAIN row = RowFields /\ row.code = c
    BY DEF NoAccount, RowFields
  <2> HIDE DEF row
  <2>4. /\ DOMAIN accounts' = Ids /\ accounts'[n] = row
        /\ \A id \in Ids \ {n} : accounts'[id] = accounts[id]
    BY <2>1, <1>a
  <2>5. \A id : Exists(id)' <=> Exists(id) \/ id = n
    BY <2>1, <2>3, <2>4 DEF Exists
  <2>6. ~Exists(n) /\ n \in Ids /\ n \in Nat \ {0} /\ \A id : Exists(id) => id \in Ids /\ id # n
    BY <2>1, <1>a DEF Exists
  <2>7. RowsTyped'
    <3>1. \A id \in Ids : accounts'[id] = NoAccount \/ DOMAIN accounts'[id] = RowFields
      BY <2>3, <2>4, <1>a DEF AccountsTyped, RowsTyped
    <3>2. \A id \in Ids : id >= nextId' => id >= nextId /\ id # n
      BY <2>1, <1>a DEF Ids
    <3> QED
      BY <3>1, <3>2, <2>1, <2>4, <2>5, <1>a DEF RowsTyped
  <2>8. CodesTyped' /\ ~Failing(req'[r]) /\ req'[r].pc # "reserve"
    BY <1>a, <1>b, <2>2, <2>3 DEF AccountsTyped, CodesTyped, Failing
  <2>9. ASSUME RequireInvite, faults = 0 PROVE Held' /\ Spent' /\ Named'
    <3>a. Held /\ Spent /\ Named
      BY <1>a, <2>9 DEF Invites
    <3>b. \A x : Used(x)' <=> Used(x)
      BY <1>b DEF Used
    <3>c. Used(c) /\ \A id \in Ids : Exists(id) => accounts[id].code # c
      BY <3>a, <1>b DEF Held
    <3>d. \A s \in Requests : Holding(req'[s]) => s # r /\ req'[s] = req[s]
      BY <2>2, <2>3 DEF HandlerMoves, Holding
    <3>e. \A s \in Requests : Holding(req'[s]) => req[s].code # c
      BY <3>a, <3>d, <1>b DEF Held
    <3> HIDE DEF c, n, next
    <3>1. \A s \in Requests, id \in Ids : Holding(req'[s]) /\ Exists(id)'
            => accounts'[id].code # req'[s].code
      BY <3>a, <3>d, <3>e, <2>3, <2>4, <2>5 DEF Held
    <3>2. Held'
      BY <3>a, <3>b, <3>d, <3>1 DEF Held
    <3>3. Spent'
      <4>1. \A id \in Ids : Exists(id)' =>
              accounts'[id].code = IF id = n THEN c ELSE accounts[id].code
        BY <2>3, <2>4
      <4>2. \A id \in Ids : Exists(id)' /\ accounts'[id].code # NoCode =>
              accounts'[id].code \in Codes /\ codes'[accounts'[id].code].status = "used"
        BY <4>1, <3>a, <3>c, <2>5, <1>b DEF Spent, Used
      <4>3. \A i, j \in Ids : i # j /\ Exists(i)' /\ Exists(j)'
            /\ accounts'[i].code = accounts'[j].code
              => accounts'[i].code = NoCode
        BY <4>1, <3>a, <3>c, <2>5 DEF Spent
      <4> QED
        BY <4>2, <4>3 DEF Spent, Used
    <3>4. Named'
      <4>a. nextId' = nextId + 1 /\ n = nextId /\ nextId \in Nat
        BY <2>1, <1>a DEF n
      <4>1. \A x \in Codes : codes[x].usedBy # n /\ codes[x].usedBy < nextId'
        BY <3>a, <4>a DEF Named
      <4>2. \A x \in Codes : codes[x].usedBy \in Ids /\ accounts'[codes[x].usedBy] # NoAccount
                               => accounts'[codes[x].usedBy].code = x
        BY <4>1, <3>a, <2>4 DEF Named, Exists
      <4>3. \A s \in Requests : req'[s].pc = "assign" =>
              /\ req'[s].target \in Ids /\ req'[s].target < nextId'
              /\ accounts'[req'[s].target] # NoAccount
                   => accounts'[req'[s].target].code = req'[s].code
        <5>1. ASSUME NEW s \in Requests, s # r, req'[s].pc = "assign"
              PROVE  /\ req'[s] = req[s] /\ req[s].target \in Ids /\ req[s].target < nextId
                     /\ Exists(req[s].target) => accounts[req[s].target].code = req[s].code
          BY <5>1, <3>a, <2>2 DEF Named, HandlerMoves
        <5>2. \A id \in Ids : id < nextId => id # n /\ id < nextId'
          BY <4>a DEF Ids
        <5>3. n < nextId'
          BY <4>a
        <5>4. \A s \in Requests : s # r /\ req'[s].pc = "assign" =>
                /\ req'[s].target \in Ids /\ req'[s].target < nextId'
                /\ accounts'[req'[s].target] # NoAccount
                     => accounts'[req'[s].target].code = req'[s].code
          BY <5>1, <5>2, <2>4 DEF Exists
        <5> QED
          BY <5>3, <5>4, <2>2, <2>3, <2>4, <2>6
      <4>4. \A x \in Codes : codes'[x].usedBy = codes[x].usedBy /\ codes[x].usedBy \in Nat
        BY <3>a, <1>b DEF Named
      <4> QED
        BY <4>1, <4>2, <4>3, <4>4 DEF Named, Exists
    <3> QED
      BY <3>2, <3>3, <3>4
  <2> QED
    BY <2>2, <2>7, <2>8, <2>9, <1>b, RegisterKeeps
<1> QED
  BY <1>1, <1>2

\* A code is written down for the account that was registered with it.
LEMMA AssignKeeps == ASSUME AccountsInv, NEW r \in Requests, AssignCode(r)
  PROVE AccountsInv'
<1> DEFINE c == req[r].code
           t == req[r].target
           by == IF codes[c].status = "absent" THEN codes[c].usedBy ELSE t
<1>a. AccountsTyped /\ Invites /\ DOMAIN codes = Codes
      /\ \A x \in Codes : DOMAIN codes[x] = {"status", "usedBy"}
  BY DEF AccountsInv, AccountsTyped, CodesTyped
<1>b. /\ UNCHANGED <<accounts, nextId, failures, faults>> /\ req[r].pc = "assign"
      /\ codes' = [codes EXCEPT ![c].usedBy = by]
  BY DEF AssignCode, At
<1>1. HandlerMoves(r) /\ req'[r].pc = "issue"
  BY <1>a, HandlerGoto DEF AssignCode
<1>2. ~Locking(req[r]) /\ ~Failing(req'[r]) /\ ~Holding(req'[r]) /\ RowsTyped'
  BY <1>1, <1>a, <1>b, SameRows DEF Locking, Failing, Holding
<1>3. /\ DOMAIN codes' = Codes
      /\ \A x \in Codes : /\ DOMAIN codes'[x] = {"status", "usedBy"}
                          /\ codes'[x].status = codes[x].status
                          /\ codes'[x].usedBy = codes[x].usedBy \/ (x = c /\ codes'[x].usedBy = t)
  <2>1. /\ DOMAIN codes' = Codes /\ \A x \in Codes \ {c} : codes'[x] = codes[x]
        /\ c \in Codes => codes'[c] = [codes[c] EXCEPT !.usedBy = by]
    <3> HIDE DEF by
    <3> QED
      BY <1>a, <1>b
  <2> QED
    BY <2>1, <1>a
<1>4. CodesTyped'
  BY <1>3 DEF CodesTyped
<1>5. ASSUME RequireInvite, faults = 0 PROVE Held' /\ Spent' /\ Named'
  <2>a. Held /\ Spent /\ Named
    BY <1>a, <1>5 DEF Invites
  <2>b. (\A id : Exists(id)' <=> Exists(id)) /\ (\A x : Used(x)' <=> Used(x))
    BY <1>b, <1>3 DEF Exists, Used
  <2>1. \A s \in Requests : Holding(req'[s]) \/ req'[s].pc = "assign" => req'[s] = req[s]
    BY <1>1, <1>2 DEF HandlerMoves
  <2>2. Held'
    BY <2>a, <2>b, <2>1, <1>b DEF Held
  <2>3. Spent'
    BY <2>a, <2>b, <1>b DEF Spent
  <2>4. Named'
    <3>1. t \in Ids /\ t < nextId /\ (Exists(t) => accounts[t].code = c)
      BY <2>a, <1>b DEF Named
    <3> HIDE DEF t, c
    <3>2. \A x \in Codes : /\ codes'[x].usedBy \in Nat /\ codes'[x].usedBy < nextId
                           /\ Exists(codes'[x].usedBy) => accounts[codes'[x].usedBy].code = x
      BY <3>1, <1>3, <2>a DEF Named, Ids
    <3> QED
      BY <3>2, <2>a, <2>b, <2>1, <1>b DEF Named, Exists
  <2> QED
    BY <2>2, <2>3, <2>4
<1> QED
  BY <1>1, <1>2, <1>4, <1>5, <1>b, RegisterKeeps

\* A code that is released was held by this registration alone, and no account
\* names it.
LEMMA ReleaseKeeps == ASSUME AccountsInv, NEW r \in Requests, ReleaseCode(r)
  PROVE AccountsInv'
<1> DEFINE c == req[r].code
           row == [status |-> "unused", usedBy |-> 0]
<1>a. AccountsTyped /\ Invites /\ DOMAIN codes = Codes
      /\ \A x \in Codes : DOMAIN codes[x] = {"status", "usedBy"}
  BY DEF AccountsInv, AccountsTyped, CodesTyped
<1>b. /\ UNCHANGED <<accounts, nextId, failures, faults>> /\ req[r].pc = "release"
      /\ Holding(req[r])
      /\ codes' = codes \/ codes' = [codes EXCEPT ![c] = row]
  BY DEF ReleaseCode, At, Holding
<1>1. HandlerMoves(r) /\ req'[r].pc = "idle"
  BY <1>a, HandlerDone DEF ReleaseCode
<1>2. ~Locking(req[r]) /\ ~Failing(req'[r]) /\ ~Holding(req'[r]) /\ RowsTyped'
  BY <1>1, <1>a, <1>b, SameRows DEF Locking, Failing, Holding
<1>3. /\ DOMAIN codes' = Codes /\ \A x \in Codes \ {c} : codes'[x] = codes[x]
      /\ \A x \in Codes : codes'[x] = codes[x] \/ codes'[x] = row
  <2> HIDE DEF row
  <2> QED
    BY <1>a, <1>b
<1>4. CodesTyped'
  BY <1>3, <1>a DEF CodesTyped
<1>5. ASSUME RequireInvite, faults = 0 PROVE Held' /\ Spent' /\ Named'
  <2>a. Held /\ Spent /\ Named
    BY <1>a, <1>5 DEF Invites
  <2>b. \A id : Exists(id)' <=> Exists(id)
    BY <1>b DEF Exists
  <2>c. \A x : Used(x) /\ x # c => x \in Codes /\ codes'[x].status = "used"
    BY <1>3 DEF Used
  <2>1. \A s \in Requests : Holding(req'[s]) \/ req'[s].pc = "assign" => s # r /\ req'[s] = req[s]
    BY <1>1, <1>2 DEF HandlerMoves
  <2>2. Held'
    <3>1. \A s \in Requests : Holding(req'[s]) => req[s].code # c
      BY <2>a, <2>1, <1>b DEF Held
    <3> HIDE DEF c
    <3> QED
      BY <3>1, <2>a, <2>b, <2>c, <2>1, <1>b DEF Held, Used
  <2>3. Spent'
    <3>1. \A id \in Ids : Exists(id) => accounts[id].code # c
      BY <2>a, <1>b DEF Held
    <3> HIDE DEF c
    <3> QED
      BY <3>1, <2>a, <2>b, <2>c, <1>b DEF Spent, Used
  <2>4. Named'
    <3>1. \A x \in Codes : codes'[x].usedBy = codes[x].usedBy \/ codes'[x].usedBy = 0
      BY <1>3
    <3>2. nextId \in Nat \ {0} /\ ~Exists(0)
      BY <1>a DEF AccountsTyped, RowsTyped, Exists, Ids
    <3>3. \A x \in Codes : /\ codes'[x].usedBy \in Nat /\ codes'[x].usedBy < nextId
                           /\ Exists(codes'[x].usedBy) => accounts[codes'[x].usedBy].code = x
      BY <3>1, <3>2, <2>a DEF Named
    <3> QED
      BY <3>3, <2>a, <2>b, <2>1, <1>b DEF Named, Exists
  <2> QED
    BY <2>2, <2>3, <2>4
<1> QED
  BY <1>1, <1>2, <1>4, <1>5, <1>b, RegisterKeeps

\* A code that exists is not created again.
LEMMA CreateCodeKeeps == ASSUME AccountsInv, NEW r \in Requests, CreateCode(r)
  PROVE AccountsInv'
<1> DEFINE c == req[r].code
           new == IF codes[c].status = "absent" THEN "unused" ELSE codes[c].status
<1>a. AccountsTyped /\ Invites /\ DOMAIN codes = Codes
      /\ \A x \in Codes : DOMAIN codes[x] = {"status", "usedBy"}
  BY DEF AccountsInv, AccountsTyped, CodesTyped
<1>b. /\ UNCHANGED <<accounts, nextId, failures, faults>> /\ req[r].pc = "create_code"
      /\ codes' = [codes EXCEPT ![c].status = new]
  BY DEF CreateCode, At
<1>1. HandlerMoves(r) /\ req'[r].pc \in {"idle", "create_code"}
  <2>1. CASE Done(r)
    BY <2>1, <1>a, HandlerDone
  <2>2. CASE \E x \in Codes : req' = [req EXCEPT ![r].code = x]
    BY <2>2, <1>a, <1>b DEF AccountsTyped, HandlerShape, HandlerMoves, HandlerFields
  <2> QED
    BY <2>1, <2>2 DEF CreateCode
<1>2. ~Locking(req[r]) /\ ~Failing(req'[r]) /\ ~Holding(req'[r]) /\ RowsTyped'
  BY <1>1, <1>a, <1>b, SameRows DEF Locking, Failing, Holding
<1>3. /\ DOMAIN codes' = Codes
      /\ \A x \in Codes : /\ DOMAIN codes'[x] = {"status", "usedBy"}
                          /\ codes'[x].usedBy = codes[x].usedBy
                          /\ codes[x].status = "used" => codes'[x].status = "used"
  <2>1. /\ DOMAIN codes' = Codes /\ \A x \in Codes \ {c} : codes'[x] = codes[x]
        /\ c \in Codes => codes'[c] = [codes[c] EXCEPT !.status = new]
    <3> HIDE DEF new
    <3> QED
      BY <1>a, <1>b
  <2>2. codes[c].status = "used" => new = "used"
    OBVIOUS
  <2> HIDE DEF new, c
  <2> QED
    BY <2>1, <2>2, <1>a
<1>4. CodesTyped'
  BY <1>3 DEF CodesTyped
<1>5. ASSUME RequireInvite, faults = 0 PROVE Held' /\ Spent' /\ Named'
  <2>a. Held /\ Spent /\ Named
    BY <1>a, <1>5 DEF Invites
  <2>b. (\A id : Exists(id)' <=> Exists(id)) /\ (\A x : Used(x) => Used(x)')
    BY <1>b, <1>3 DEF Exists, Used
  <2>1. \A s \in Requests : Holding(req'[s]) \/ req'[s].pc = "assign" => req'[s] = req[s]
    BY <1>1, <1>2 DEF HandlerMoves
  <2>c. \A x : Used(x) => x \in Codes /\ codes'[x].status = "used"
    BY <1>3 DEF Used
  <2>2. Held'
    BY <2>a, <2>b, <2>c, <2>1, <1>b DEF Held, Used
  <2>3. Spent'
    BY <2>a, <2>b, <2>c, <1>b DEF Spent, Used
  <2>4. Named'
    BY <2>a, <2>b, <2>1, <1>b, <1>3 DEF Named
  <2> QED
    BY <2>2, <2>3, <2>4
<1> QED
  BY <1>1, <1>2, <1>4, <1>5, <1>b, RegisterKeeps

\* A statement that fails: the properties speak of no such behaviour.
LEMMA DbErrorKeeps == ASSUME AccountsInv, NEW r \in Requests, DbError(r) PROVE AccountsInv'
<1>a. AccountsTyped /\ faults \in Nat
  BY DEF AccountsInv, AccountsTyped
<1>b. UNCHANGED <<accounts, nextId, codes, failures>> /\ faults' = faults + 1
  BY DEF DbError, tables
<1>1. HandlerMoves(r) /\ req'[r].pc \in {"release", "idle"}
  BY <1>a, HandlerGoto, HandlerDone DEF DbError
<1>2. HandlerShape(req'[r])
  BY <1>1 DEF HandlerShape, HandlerMoves, Failing
<1>3. RowsTyped' /\ FailuresTyped' /\ CodesTyped' /\ faults' \in Nat /\ faults' # 0
  BY <1>a, <1>b, SameRows DEF AccountsTyped, FailuresTyped, CodesTyped
<1>4. AccountsTyped'
  BY <1>1, <1>2, <1>3, <1>a, AccountsStayTyped
<1> QED
  BY <1>3, <1>4 DEF AccountsInv, LockedWhenExceeded, Invites

-----------------------------------------------------------------------------
(* Accounts: the theorems.                                                 *)

\* The accounts at start spent no code, and no request is served.
LEMMA AccountsInit == Init => AccountsInv
<1> SUFFICES ASSUME Init PROVE AccountsInv
  OBVIOUS
<1>1. PICK n \in 0 .. MaxAccounts : /\ FirstAccounts \in [1 .. n -> Account]
                                    /\ \A id \in 1 .. n : FirstAccounts[id].code = NoCode
  BY FirstAccountsBounds
<1>2. n \in Nat /\ DOMAIN FirstAccounts = 1 .. n /\ MaxFailures \in Nat \ {0}
      /\ NoCode \notin Codes
  BY <1>1, AccountsBounds
<1>3. nextId = n + 1
  <2>1. 0 \in Int /\ 1 \in Int /\ n \in Int /\ n >= 0
    BY <1>2
  <2>2. Cardinality(1 .. n) = IF 1 > n THEN 0 ELSE n - 1 + 1
    BY <2>1, FS_Interval
  <2> QED
    BY <2>1, <2>2, <1>2 DEF Init
<1>4. \A id \in Ids : IF id \in 1 .. n THEN accounts[id] = FirstAccounts[id]
                      ELSE accounts[id] = NoAccount
  BY <1>2 DEF Init
<1>5. \A id \in 1 .. n : DOMAIN FirstAccounts[id] = RowFields /\ FirstAccounts[id].code = NoCode
  BY <1>1 DEF Account, RowFields
<1>6. \A id : Exists(id) => id \in 1 .. n /\ id \in Ids /\ accounts[id].code = NoCode
  BY <1>4, <1>5 DEF Exists
<1>7. RowsTyped
  <2>1. DOMAIN accounts = Ids
    BY DEF Init
  <2>2. \A id \in Ids : id >= n + 1 => id \notin 1 .. n
    BY <1>2 DEF Ids
  <2> QED
    BY <2>1, <2>2, <1>2, <1>3, <1>4, <1>5, <1>6 DEF RowsTyped
<1>8. FailuresTyped /\ CodesTyped /\ faults \in Nat
  BY DEF Init, FailuresTyped, CodesTyped
<1>9. DOMAIN req = Requests /\ \A r \in Requests : DOMAIN req[r] = HandlerFields
      /\ req[r].pc = "idle"
  BY DEF Init, Idle, HandlerFields
<1>10. AccountsTyped
  BY <1>7, <1>8, <1>9 DEF AccountsTyped, HandlerShape, Failing
<1>11. LockedWhenExceeded
  BY <1>2 DEF Init, LockedWhenExceeded
<1>12. Held /\ Spent
  BY <1>6, <1>9 DEF Held, Spent, Holding
<1>13. Named
  <2>1. ~Exists(0) /\ \A c \in Codes : codes[c].usedBy = 0
    BY DEF Init, Exists, Ids
  <2> QED
    BY <2>1, <1>2, <1>3, <1>9 DEF Named
<1> QED
  BY <1>10, <1>11, <1>12, <1>13 DEF AccountsInv, Invites

\* Every step keeps the invariant.
LEMMA AccountsStep == ASSUME AccountsInv, [Next]_vars PROVE AccountsInv'
<1>a. AccountsTyped
  BY DEF AccountsInv
<1>1. ASSUME NEW r \in Requests, Register(r) PROVE AccountsInv'
  BY <1>1, <1>a, EndpointsPlain, PlainKeeps, ReserveKeeps, FindKeeps, CreateKeeps, AssignKeeps,
     ReleaseKeeps DEF Register
<1>2. ASSUME NEW r \in Requests, Login(r) PROVE AccountsInv'
  BY <1>2, <1>a, EndpointsPlain, PlainKeeps, LoginReads, LoginWrites DEF Login
<1>3. ASSUME NEW r \in Requests, TokenStep(r) \/ AccountStep(r) PROVE AccountsInv'
  BY <1>3, <1>a, TokenStepsPlain, AccountStepsPlain, PlainKeeps
<1>4. ASSUME NEW r \in Requests, AdminStep(r) PROVE AccountsInv'
  BY <1>4, <1>a, AdminStepsPlain, CreateCodeKeeps, PlainKeeps
<1>5. CASE UNCHANGED vars
  BY <1>5 DEF vars, AccountsInv, AccountsTyped, RowsTyped, FailuresTyped, CodesTyped,
     LockedWhenExceeded, Invites, Held, Spent, Named, Used, Exists
<1> QED
  BY <1>1, <1>2, <1>3, <1>4, <1>5, DbErrorKeeps, ExpiryKeeps DEF Next

\* Where an invite code is required, no two accounts spend the same one.
LEMMA InvitesImply == AccountsInv => InviteSpentOnce
<1> SUFFICES ASSUME AccountsInv, RequireInvite, faults = 0 PROVE InviteSpentOnce
  BY DEF InviteSpentOnce
<1>1. Spent /\ Named
  BY DEF AccountsInv, Invites
<1> QED
  BY <1>1 DEF Spent, Named, InviteSpentOnce

\* An account that had login_max_failures failed logins in a row is locked, or
\* the request that counted them is about to lock it, whatever other logins do
\* meanwhile (AuthService.login, LoginFailureRepository).
THEOREM AlwaysLocked == Spec => []LockedWhenExceeded
<1>1. AccountsInv /\ [Next]_vars => AccountsInv'
  BY AccountsStep
<1>2. AccountsInv => LockedWhenExceeded
  BY DEF AccountsInv
<1> QED
  BY <1>1, <1>2, AccountsInit, PTL DEF Spec

\* However registrations, releases and deletions overlap, an invite code is
\* spent by one account, and the account it names was registered with it
\* (AuthService.register, InviteCodeRepository), as long as no statement fails.
THEOREM CodesSpentOnce == Spec => []InviteSpentOnce
<1>1. AccountsInv /\ [Next]_vars => AccountsInv'
  BY AccountsStep
<1> QED
  BY <1>1, AccountsInit, InvitesImply, PTL DEF Spec

-----------------------------------------------------------------------------
(* The skill store: the inductive invariant.                               *)

CallFields == {"pc", "id", "doc", "tag", "name", "words", "todo", "known", "left", "imported",
               "owner", "detail"}

\* Where an upload of the skill q.id stands, and a change of the system skills.
Filing(q) == q.pc \in {"insert_file", "save_file"}
Up(q)     == q.pc \in {"update", "insert_file", "save_file", "words_clear", "words"}
Sys(q)    == q.pc \in SK!SystemPcs

\* The shapes of a call, of a row of skill_registry and of skill_files.
CallShape(q) ==
  /\ DOMAIN q = CallFields
  /\ Up(q) \/ q.pc \in {"system_update", "system_delete", "system_replace"} => q.id \in SK!Ids
  /\ Sys(q) => q.pc \in {"system_delete", "system_unregister"}
        \/ SK!PersonalName(q.doc) \in SK!Names
RowShape(row) == DOMAIN row = {"dir", "doc", "status", "category", "count"}
SystemShape(row) == DOMAIN row = {"name", "doc"} /\ row.name \in SK!Names
FileShape(file) == DOMAIN file = {"main", "extra"}

TablesTyped ==
  /\ DOMAIN rows = SK!Ids /\ \A id \in SK!Ids : rows[id] = SK!NoRow \/ RowShape(rows[id])
  /\ DOMAIN docs = SK!Ids /\ \A id \in SK!Ids : FileShape(docs[id])
  /\ nextSkill \in [store : Nat, system : Nat, personal : Nat]
  /\ failed \in Nat /\ boots \in Nat
  /\ DOMAIN system = SK!Ids
  /\ \A id \in SK!Ids : system[id] = SK!NoRow \/ SystemShape(system[id])
  /\ DOMAIN registry = SK!Names

SkillTyped ==
  /\ DOMAIN calls = Requests /\ \A r \in Requests : CallShape(calls[r])
  /\ TablesTyped

\* An id is given once; two uploads of a skill are noted.
Fresh ==
  /\ \A id \in SK!Ids : id >= nextSkill.store => rows[id] = SK!NoRow
  /\ \A r \in Requests : Up(calls[r]) => calls[r].id < nextSkill.store
Alone ==
  \A r, s \in Requests : r # s /\ Up(calls[r]) /\ Up(calls[s]) /\ calls[r].id = calls[s].id
                           => calls[r].id \in overlap

\* SKILL.md is the row's text, or an upload is about to save it, or the last one ended
\* before it did.
Uploaded ==
  \A id \in SK!Ids \ overlap : rows[id] # SK!NoRow =>
    /\ \/ id \in torn
       \/ docs[id].main = rows[id].doc
       \/ \E r \in Requests : Filing(calls[r]) /\ calls[r].id = id
    /\ \A r \in Requests : Filing(calls[r]) /\ calls[r].id = id => calls[r].doc = rows[id].doc

\* A name, and an id, is that of one system skill.
UniqueNames ==
  /\ \A i, j \in SK!Ids : system[i] # SK!NoRow /\ system[j] # SK!NoRow
           /\ system[i].name = system[j].name
                            => i = j
  /\ \A id \in SK!Ids : id >= nextSkill.system => system[id] = SK!NoRow
AloneInSystem ==
  0 \notin overlap => \A r, s \in Requests : r # s => ~(Sys(calls[r]) /\ Sys(calls[s]))

Registered(id) ==
  system[id] # SK!NoRow => /\ registry[system[id].name].doc = system[id].doc
                           /\ registry[system[id].name].content \in SK!OfSystem
Matched(name) ==
  registry[name].content \in SK!OfSystem =>
    \E id \in SK!Ids : system[id] # SK!NoRow /\ system[id].name = name
NotNamed(name, id) == system[id] # SK!NoRow => system[id].name # name

InStep == (\A id \in SK!Ids : Registered(id)) /\ \A name \in SK!Names : Matched(name)

\* What a change under way still owes the registry.
Owed(q) ==
  /\ q.pc \in {"system_insert", "system_update", "system_delete"} => InStep
  /\ q.pc = "system_register" =>
       /\ \A id \in SK!Ids : /\ Registered(id) \/ ~NotNamed(q.name, id)
                             /\ NotNamed(q.name, id) \/ system[id].doc = q.doc
       /\ \E id \in SK!Ids : ~NotNamed(q.name, id)
       /\ \A name \in SK!Names : Matched(name)
  /\ q.pc \in {"system_update", "system_delete"} =>
       system[q.id] # SK!NoRow /\ system[q.id].name = q.name
  /\ q.pc = "system_replace" =>
       /\ \A id \in SK!Ids : id # q.id => Registered(id) /\ NotNamed(q.name, id)
       /\ system[q.id] = [name |-> SK!PersonalName(q.doc), doc |-> q.doc]
       /\ \A name \in SK!Names : name # q.name => Matched(name)
  /\ q.pc = "system_unregister" =>
       /\ \A id \in SK!Ids : Registered(id) /\ NotNamed(q.name, id)
       /\ \A name \in SK!Names : name # q.name => Matched(name)

Followed ==
  0 \notin overlap =>
     /\ \A r \in Requests : Sys(calls[r]) => Owed(calls[r])
     /\ (\A r \in Requests : ~Sys(calls[r])) => InStep

SkillInv == SkillTyped /\ Fresh /\ Alone /\ Uploaded /\ UniqueNames /\ AloneInSystem /\ Followed

\* What the runs check of the uploads, and of the registry.
LEMMA UploadsImply == Uploaded /\ SkillTyped => SK!PrimaryMatches
<1> SUFFICES ASSUME Uploaded, SkillTyped, NEW id \in SK!Ids \ (overlap \cup torn),
                    rows[id] # SK!NoRow, docs[id].main # rows[id].doc
             PROVE  SK!Uploading(id) # {}
  BY DEF SK!PrimaryMatches
<1>1. PICK r \in Requests : Filing(calls[r]) /\ calls[r].id = id
  BY DEF Uploaded
<1> QED
  BY <1>1 DEF SK!Uploading, SK!UploadPcs, Filing

\* The same of the registry.
LEMMA FollowedImplies == Followed => SK!RegistryFollowsTable
<1> SUFFICES ASSUME Followed, 0 \notin overlap, SK!ChangingSystem = {}
             PROVE  /\ \A id \in SK!Ids : system[id] # SK!NoRow =>
                          /\ registry[system[id].name].doc = system[id].doc
                          /\ registry[system[id].name].content \in SK!OfSystem
                    /\ \A n \in SK!Names : registry[n].content \in SK!OfSystem =>
                          \E id \in SK!Ids : system[id] # SK!NoRow /\ system[id].name = n
  BY DEF SK!RegistryFollowsTable
<1>1. \A r \in Requests : ~Sys(calls[r])
  BY DEF SK!ChangingSystem, Sys
<1>2. InStep
  BY <1>1 DEF Followed
<1> QED
  BY <1>2 DEF InStep, Registered, Matched

-----------------------------------------------------------------------------
(* What a step does to the calls.                                          *)

\* Only r's call changes.
Moves(r) ==
  /\ DOMAIN calls' = Requests /\ DOMAIN calls'[r] = CallFields
  /\ \A s \in Requests \ {r} : calls'[s] = calls[s]

\* A call whose next statement is another.
LEMMA GotoMoves ==
  ASSUME SkillTyped, NEW r \in Requests, NEW pc, SK!Goto(r, pc)
  PROVE  /\ Moves(r) /\ calls'[r].pc = pc
         /\ calls'[r].id = calls[r].id /\ calls'[r].doc = calls[r].doc
         /\ calls'[r].name = calls[r].name
<1>1. DOMAIN calls = Requests /\ DOMAIN calls[r] = CallFields
  BY DEF SkillTyped, CallShape
<1> QED
  BY <1>1 DEF SK!Goto, Moves, CallFields

\* A call that is over.
LEMMA DoneMoves ==
  ASSUME SkillTyped, NEW r \in Requests, SK!Done(r)
  PROVE  Moves(r) /\ calls'[r].pc = "idle"
<1>1. DOMAIN calls = Requests
  BY DEF SkillTyped
<1> QED
  BY <1>1 DEF SK!Done, SK!Idle, Moves, CallFields

\* A call that begins.
LEMMA ReceiveMoves ==
  ASSUME SkillTyped, NEW r \in Requests, NEW q, DOMAIN q = CallFields, SK!Receive(r, q)
  PROVE  /\ Moves(r) /\ calls'[r] = q /\ calls[r].pc = "idle"
         /\ failed' = failed /\ boots' = boots
<1>1. DOMAIN calls = Requests
  BY DEF SkillTyped
<1> QED
  BY <1>1 DEF SK!Receive, SK!At, Moves

\* The end of an entry of an import, or of a call.
LEMMA NextEntryMoves ==
  ASSUME SkillTyped, NEW r \in Requests, SK!NextEntry(r)
  PROVE  Moves(r) /\ calls'[r].pc \in {"entry", "idle"}
<1>1. DOMAIN calls = Requests /\ DOMAIN calls[r] = CallFields
  BY DEF SkillTyped, CallShape
<1>2. CASE SK!Importing(r)
  BY <1>1, <1>2 DEF SK!NextEntry, Moves, CallFields
<1>3. CASE ~SK!Importing(r)
  BY <1>3, DoneMoves DEF SK!NextEntry
<1> QED
  BY <1>2, <1>3

\* A skill is written.
LEMMA WrittenMoves ==
  ASSUME SkillTyped, NEW r \in Requests, SK!Written(r)
  PROVE  Moves(r) /\ calls'[r].pc \in {"extra", "idle"}
  BY GotoMoves, DoneMoves DEF SK!Written

-----------------------------------------------------------------------------
(* Steps that leave the system skills, or the uploads, alone.              *)

\* A step that is not about the system skills.
LEMMA SystemSame ==
  ASSUME SkillTyped, UniqueNames, AloneInSystem, Followed, NEW r \in Requests, Moves(r),
         ~Sys(calls[r]), ~Sys(calls'[r]), system' = system, registry' = registry,
         nextSkill'.system = nextSkill.system, 0 \notin overlap' => 0 \notin overlap
  PROVE  UniqueNames' /\ AloneInSystem' /\ Followed'
<1>1. UniqueNames'
  BY DEF UniqueNames
<1>2. \A s \in Requests : Sys(calls'[s]) => s # r /\ calls'[s] = calls[s] /\ Sys(calls[s])
  BY DEF Moves
<1>3. \A s \in Requests : Sys(calls[s]) => s # r /\ calls'[s] = calls[s]
  BY DEF Moves
<1>4. AloneInSystem'
  BY <1>2 DEF AloneInSystem
<1>5. /\ \A id : Registered(id)' <=> Registered(id)
      /\ \A n : Matched(n)' <=> Matched(n)
      /\ InStep' <=> InStep
  BY DEF InStep, Registered, Matched
<1>6. ASSUME 0 \notin overlap', NEW s \in Requests, Sys(calls'[s])
      PROVE  Owed(calls[s])'
  <2>1. Owed(calls[s]) /\ calls'[s] = calls[s]
    BY <1>2, <1>6 DEF Followed
  <2> QED
    BY <2>1, <1>5 DEF Owed, NotNamed
<1>7. ASSUME 0 \notin overlap', \A s \in Requests : ~Sys(calls'[s])
      PROVE  InStep'
  <2>1. \A s \in Requests : ~Sys(calls[s])
    BY <1>3, <1>7
  <2>2. InStep
    BY <2>1, <1>7 DEF Followed
  <2> QED
    BY <2>2, <1>5
<1>8. Followed'
  BY <1>6, <1>7 DEF Followed, Sys
<1> QED
  BY <1>1, <1>4, <1>8

\* A step that leaves r's upload where it is, or ends it.
LEMMA UploadsSame ==
  ASSUME SkillTyped, Fresh, Alone, Uploaded, NEW r \in Requests, Moves(r),
         ~Filing(calls[r]), ~Filing(calls'[r]),
         Up(calls'[r]) => Up(calls[r]) /\ calls'[r].id = calls[r].id,
         rows' = rows, docs' = docs, nextSkill'.store = nextSkill.store, overlap' = overlap,
         torn' = torn
  PROVE  Fresh' /\ Alone' /\ Uploaded'
<1>1. \A s \in Requests : Up(calls'[s]) => Up(calls[s]) /\ calls'[s].id = calls[s].id
  BY DEF Moves
<1>2. \A s \in Requests : /\ Filing(calls[s]) => s # r /\ calls'[s] = calls[s]
                          /\ Filing(calls'[s]) => s # r /\ calls'[s] = calls[s]
  BY DEF Moves
<1>3. Fresh'
  BY <1>1 DEF Fresh
<1>4. Alone'
  BY <1>1 DEF Alone
<1>5. Uploaded'
  BY <1>2 DEF Uploaded
<1> QED
  BY <1>3, <1>4, <1>5

\* The shapes are kept by a step that leaves a call and tables of their shapes.
LEMMA TypedMoves ==
  ASSUME SkillTyped, NEW r \in Requests, Moves(r), CallShape(calls'[r]), TablesTyped'
  PROVE  SkillTyped'
<1>1. \A s \in Requests : CallShape(calls'[s])
  BY DEF Moves, SkillTyped
<1> QED
  BY <1>1 DEF Moves, SkillTyped

-----------------------------------------------------------------------------
(* Steps that are about neither.                                           *)

QuietPcs == {"idle", "find", "insert", "entry", "extra", "delete", "deprecate", "tag", "untag",
             "resolve", "personal_update"}

Quiet(r) ==
  /\ Moves(r) /\ calls'[r].pc \in QuietPcs /\ ~Filing(calls[r]) /\ ~Sys(calls[r])
  /\ rows' = rows /\ docs' = docs /\ system' = system /\ registry' = registry
  /\ overlap' = overlap /\ torn' = torn /\ failed' = failed /\ boots' = boots
  /\ nextSkill' \in [store : Nat, system : Nat, personal : Nat]
  /\ nextSkill'.store = nextSkill.store /\ nextSkill'.system = nextSkill.system

\* The whole invariant is kept by them.
LEMMA QuietKeeps ==
  ASSUME SkillInv, NEW r \in Requests, Quiet(r)
  PROVE  SkillInv'
<1>1. ~Up(calls'[r]) /\ ~Sys(calls'[r])
  BY DEF Quiet, QuietPcs, Up, Sys, SK!SystemPcs
<1>2. CallShape(calls'[r])
  BY <1>1 DEF CallShape, Quiet, Moves, Up, Sys, SK!SystemPcs
<1>3. TablesTyped'
  BY DEF SkillInv, SkillTyped, TablesTyped, Quiet
<1>4. SkillTyped'
  BY <1>2, <1>3, TypedMoves DEF SkillInv, Quiet
<1>5. Fresh' /\ Alone' /\ Uploaded'
  <2>1. ~Filing(calls'[r])
    BY <1>1 DEF Up, Filing
  <2> QED
    BY <1>1, <2>1, UploadsSame DEF SkillInv, Quiet
<1>6. UniqueNames' /\ AloneInSystem' /\ Followed'
  BY <1>1, SystemSame DEF SkillInv, Quiet
<1> QED
  BY <1>4, <1>5, <1>6 DEF SkillInv

\* Steps of an upload around its statements.
LEMMA QuietUploads ==
  ASSUME SkillTyped, NEW r \in Requests,
         \/ SK!CreateEndpoint(r)
         \/ SK!CreateFind(r)
         \/ SK!KeywordsDone(r)
         \/ SK!DeleteEndpoint(r)
         \/ SK!AddTagEndpoint(r)
         \/ SK!RemoveTagEndpoint(r)
         \/ SK!AddTag(r)
         \/ SK!RemoveTag(r)
  PROVE  Quiet(r)
<1>a. DOMAIN calls = Requests /\ DOMAIN calls[r] = CallFields
      /\ nextSkill \in [store : Nat, system : Nat, personal : Nat]
  BY DEF SkillTyped, TablesTyped, CallShape
<1>1. CASE SK!CreateEndpoint(r)
  BY <1>a, <1>1 DEF SK!CreateEndpoint, SK!Receive, SK!At, SK!Idle, SK!store, SK!bounds,
     SK!history, Filing, Moves,
     CallFields, Quiet, QuietPcs, Sys, SK!SystemPcs
<1>2. CASE SK!CreateFind(r)
  BY <1>a, <1>2, GotoMoves, NextEntryMoves DEF SK!CreateFind, SK!store, SK!bounds, SK!history,
     Filing, SK!At,
     Quiet, QuietPcs, Sys, SK!SystemPcs
<1>3. CASE SK!KeywordsDone(r)
  BY <1>a, <1>3, WrittenMoves DEF SK!KeywordsDone, SK!store, SK!bounds, SK!history, Filing,
     SK!At, Quiet, QuietPcs,
     Sys, SK!SystemPcs
<1>4. CASE SK!DeleteEndpoint(r)
  BY <1>a, <1>4 DEF SK!DeleteEndpoint, SK!Receive, SK!At, SK!Idle, SK!store, SK!bounds,
     SK!history, Filing, Moves,
     CallFields, Quiet, QuietPcs, Sys, SK!SystemPcs
<1>5. CASE SK!AddTagEndpoint(r)
  BY <1>a, <1>5 DEF SK!AddTagEndpoint, SK!Receive, SK!At, SK!Idle, SK!store, SK!bounds,
     SK!history, Filing, Moves,
     CallFields, Quiet, QuietPcs, Sys, SK!SystemPcs
<1>6. CASE SK!RemoveTagEndpoint(r)
  BY <1>a, <1>6 DEF SK!RemoveTagEndpoint, SK!Receive, SK!At, SK!Idle, SK!store, SK!bounds,
     SK!history, Filing, Moves,
     CallFields, Quiet, QuietPcs, Sys, SK!SystemPcs
<1>7. CASE SK!AddTag(r)
  BY <1>a, <1>7, DoneMoves DEF SK!AddTag, SK!store, SK!bounds, SK!history, Filing, SK!At,
     Quiet, QuietPcs, Sys,
     SK!SystemPcs
<1>8. CASE SK!RemoveTag(r)
  BY <1>a, <1>8, DoneMoves DEF SK!RemoveTag, SK!store, SK!bounds, SK!history, Filing, SK!At,
     Quiet, QuietPcs, Sys,
     SK!SystemPcs
<1> QED
  BY <1>1, <1>2, <1>3, <1>4, <1>5, <1>6, <1>7, <1>8

\* Steps of an import, the files of a directory excepted.
LEMMA QuietImports ==
  ASSUME SkillTyped, NEW r \in Requests,
         \/ SK!ImportEndpoint(r)
         \/ SK!ImportEntry(r)
         \/ SK!ImportEnd(r)
         \/ SK!ImportResolve(r)
         \/ SK!ImportDone(r)
  PROVE  Quiet(r)
<1>a. DOMAIN calls = Requests /\ DOMAIN calls[r] = CallFields
      /\ nextSkill \in [store : Nat, system : Nat, personal : Nat]
  BY DEF SkillTyped, TablesTyped, CallShape
<1>1. CASE SK!ImportEndpoint(r)
  BY <1>a, <1>1 DEF SK!ImportEndpoint, SK!Receive, SK!At, SK!Idle, SK!store, SK!bounds,
     SK!history, Filing, Moves,
     CallFields, Quiet, QuietPcs, Sys, SK!SystemPcs
<1>2. CASE SK!ImportEntry(r)
  BY <1>a, <1>2 DEF SK!ImportEntry, SK!At, SK!store, SK!bounds, SK!history, Filing,
     SK!Importing, Moves, CallFields,
     Quiet, QuietPcs, Sys, SK!SystemPcs, SK!Idle, SK!Done
<1>3. CASE SK!ImportEnd(r)
  BY <1>a, <1>3 DEF SK!ImportEnd, SK!At, SK!store, SK!bounds, SK!history, Filing, SK!Importing,
     Moves, CallFields,
     Quiet, QuietPcs, Sys, SK!SystemPcs, SK!Idle, SK!Done
<1>4. CASE SK!ImportResolve(r)
  BY <1>a, <1>4 DEF SK!ImportResolve, SK!At, SK!store, SK!bounds, SK!history, Filing,
     SK!Importing, Moves, CallFields,
     Quiet, QuietPcs, Sys, SK!SystemPcs, SK!Idle, SK!Done
<1>5. CASE SK!ImportDone(r)
  BY <1>a, <1>5, DoneMoves DEF SK!ImportDone, SK!store, SK!bounds, SK!history, Filing, SK!At,
     Quiet, QuietPcs, Sys,
     SK!SystemPcs
<1> QED
  BY <1>1, <1>2, <1>3, <1>4, <1>5

\* The personal skills.
LEMMA QuietPersonal ==
  ASSUME SkillTyped, NEW r \in Requests,
         \/ SK!CreatePersonal(r)
         \/ SK!UpdatePersonalEndpoint(r)
         \/ SK!UpdatePersonal(r)
         \/ SK!DeletePersonal(r)
  PROVE  Quiet(r)
<1>a. DOMAIN calls = Requests /\ DOMAIN calls[r] = CallFields
      /\ nextSkill \in [store : Nat, system : Nat, personal : Nat]
  BY DEF SkillTyped, TablesTyped, CallShape
<1>1. CASE SK!CreatePersonal(r)
  BY <1>a, <1>1 DEF SK!CreatePersonal, SK!Receive, SK!At, SK!Idle, SK!store, SK!bounds,
     SK!history, Filing, Moves,
     CallFields, Quiet, QuietPcs, Sys, SK!SystemPcs
<1>2. CASE SK!UpdatePersonalEndpoint(r)
  BY <1>a, <1>2 DEF SK!UpdatePersonalEndpoint, SK!Receive, SK!At, SK!Idle, SK!store, SK!bounds,
     SK!history, Filing,
     Moves, CallFields, Quiet, QuietPcs, Sys, SK!SystemPcs
<1>3. CASE SK!UpdatePersonal(r)
  BY <1>a, <1>3, DoneMoves DEF SK!UpdatePersonal, SK!store, SK!bounds, SK!history, Filing,
     SK!At, Quiet, QuietPcs,
     Sys, SK!SystemPcs
<1>4. CASE SK!DeletePersonal(r)
  BY <1>a, <1>4 DEF SK!DeletePersonal, SK!Receive, SK!At, SK!Idle, SK!store, SK!bounds,
     SK!history, Filing, Moves,
     CallFields, Quiet, QuietPcs, Sys, SK!SystemPcs
<1> QED
  BY <1>1, <1>2, <1>3, <1>4

-----------------------------------------------------------------------------
(* The statements of an upload.                                            *)

\* Of another call nothing changes; what r's call is, before and after, decides.
LEMMA OthersSame ==
  ASSUME NEW r \in Requests, Moves(r)
  PROVE  \A s \in Requests : s = r \/ calls'[s] = calls[s]
  BY DEF Moves

\* The common part: the system skills, and the shapes.
LEMMA UploadFrame ==
  ASSUME SkillInv, NEW r \in Requests, Moves(r), CallShape(calls'[r]),
         ~Sys(calls[r]), ~Sys(calls'[r]), system' = system, registry' = registry,
         0 \notin overlap' => 0 \notin overlap, failed' \in Nat, boots' = boots,
         nextSkill' \in [store : Nat, system : Nat, personal : Nat],
         nextSkill'.system = nextSkill.system,
         DOMAIN rows' = SK!Ids, \A id \in SK!Ids : rows'[id] = SK!NoRow \/ RowShape(rows'[id]),
         DOMAIN docs' = SK!Ids, \A id \in SK!Ids : FileShape(docs'[id]),
         Fresh', Alone', Uploaded'
  PROVE  SkillInv'
<1>1. TablesTyped'
  BY DEF SkillInv, SkillTyped, TablesTyped
<1>2. SkillTyped'
  BY <1>1, TypedMoves DEF SkillInv
<1>3. UniqueNames' /\ AloneInSystem' /\ Followed'
  BY SystemSame DEF SkillInv
<1> QED
  BY <1>2, <1>3 DEF SkillInv

\* The row of a new skill.
LEMMA SkillCreateRow == ASSUME SkillInv, NEW r \in Requests, SK!CreateRow(r) PROVE SkillInv'
<1> DEFINE doc == calls[r].doc
           dir == SK!ResolveDirName(doc)
           n == nextSkill.store
           row == [dir |-> dir, doc |-> doc, status |-> "active",
                   category |-> SK!InferCategory(dir, doc), count |-> 1]
<1>a. DOMAIN calls = Requests /\ DOMAIN calls[r] = CallFields /\ SkillTyped
      /\ nextSkill \in [store : Nat, system : Nat, personal : Nat]
  BY DEF SkillInv, SkillTyped, TablesTyped, CallShape
<1>b. /\ calls[r].pc = "insert" /\ docs' = docs /\ system' = system /\ registry' = registry
      /\ overlap' = overlap /\ torn' = torn /\ failed' = failed /\ boots' = boots
  BY DEF SK!CreateRow, SK!At, SK!bounds, SK!history
<1>1. CASE SK!RowsWithDir(dir) # {}
  <2>1. SK!NextEntry(r) /\ rows' = rows /\ nextSkill' = nextSkill
    BY <1>1 DEF SK!CreateRow
  <2>2. Quiet(r)
    BY <2>1, <1>a, <1>b, NextEntryMoves DEF Quiet, QuietPcs, Filing, Sys, SK!SystemPcs
  <2> QED
    BY <2>2, QuietKeeps
<1>2. CASE SK!RowsWithDir(dir) = {}
  <2>1. /\ n \in SK!Ids /\ rows' = [rows EXCEPT ![n] = row]
        /\ nextSkill' = [nextSkill EXCEPT !.store = @ + 1]
        /\ calls' = [calls EXCEPT ![r].pc = "insert_file", ![r].id = n]
    BY <1>2 DEF SK!CreateRow
  <2>2. Moves(r) /\ calls'[r].pc = "insert_file" /\ calls'[r].id = n /\ calls'[r].doc = doc
    BY <2>1, <1>a DEF Moves, CallFields
  <2>3. /\ nextSkill' \in [store : Nat, system : Nat, personal : Nat]
        /\ nextSkill'.store = n + 1 /\ nextSkill'.system = nextSkill.system /\ n \in Nat
    BY <2>1, <1>a
  <2>4. row # SK!NoRow /\ RowShape(row) /\ row.doc = doc
    BY DEF SK!NoRow, RowShape
  <2>d. DOMAIN rows = SK!Ids /\ DOMAIN docs = SK!Ids
    BY <1>a DEF SkillTyped, TablesTyped
  <2> HIDE DEF row, n, doc
  <2>5. /\ DOMAIN rows' = SK!Ids /\ rows'[n] = row
        /\ \A id \in SK!Ids : id # n => rows'[id] = rows[id]
    BY <2>1, <2>d
  <2>6. CallShape(calls'[r]) /\ ~Sys(calls'[r]) /\ ~Sys(calls[r])
    BY <2>1, <2>2, <1>b DEF CallShape, Moves, Sys, SK!SystemPcs
  <2>7. \A s \in Requests : s # r => calls'[s] = calls[s]
    BY <2>2 DEF Moves
  <2>8. \A s \in Requests : Up(calls[s]) => calls[s].id < n /\ calls[s].id \in SK!Ids
    BY <1>a DEF SkillInv, Fresh, n, SkillTyped, CallShape
  <2>9. SK!Ids \subseteq Nat
    BY DEF SK!Ids
  <2>10. Fresh'
    <3>1. ASSUME NEW id \in SK!Ids, id >= n + 1 PROVE rows'[id] = SK!NoRow
      <4>1. id # n /\ id >= n
        BY <2>3, <2>9, <3>1
      <4> QED
        BY <4>1, <2>5 DEF SkillInv, Fresh, n
    <3>2. ASSUME NEW s \in Requests, Up(calls'[s]) PROVE calls'[s].id < n + 1
      <4>1. CASE s = r
        BY <4>1, <2>2, <2>3
      <4>2. CASE s # r
        <5>1. calls'[s] = calls[s] /\ Up(calls[s])
          BY <4>2, <3>2, <2>7
        <5>2. calls[s].id < n /\ calls[s].id \in Nat
          BY <5>1, <2>8, <2>9
        <5> QED
          BY <5>1, <5>2, <2>3
      <4> QED
        BY <4>1, <4>2
    <3> QED
      BY <3>1, <3>2, <2>3 DEF Fresh
  <2>11. Alone'
    <3>1. \A s \in Requests : s # r /\ Up(calls'[s]) => calls'[s].id # n
      BY <2>7, <2>8, <2>3, <2>9
    <3> QED
      BY <3>1, <2>2, <2>7, <1>b DEF SkillInv, Alone
  <2>12. Uploaded'
    <3> SUFFICES ASSUME NEW id \in SK!Ids \ overlap, rows'[id] # SK!NoRow
                 PROVE  /\ \/ id \in torn
                           \/ docs[id].main = rows'[id].doc
                           \/ \E s \in Requests : Filing(calls'[s]) /\ calls'[s].id = id
                        /\ \A s \in Requests : Filing(calls'[s]) /\ calls'[s].id = id
                                                 => calls'[s].doc = rows'[id].doc
      BY <1>b DEF Uploaded
    <3>a. Filing(calls'[r]) /\ ~Filing(calls[r])
      BY <2>2, <1>b DEF Filing
    <3>1. CASE id = n
      <4>1. \A s \in Requests : Filing(calls'[s]) /\ calls'[s].id = n => s = r
        BY <2>7, <2>8, <2>3, <2>9 DEF Up, Filing
      <4> QED
        BY <3>1, <3>a, <4>1, <2>2, <2>4, <2>5
    <3>2. CASE id # n
      <4>1. rows'[id] = rows[id]
        BY <3>2, <2>5
      <4>2. \A s \in Requests : Filing(calls'[s]) /\ calls'[s].id = id
                                  <=> Filing(calls[s]) /\ calls[s].id = id
        BY <3>2, <3>a, <2>2, <2>7
      <4>3. \A s \in Requests : Filing(calls[s]) => calls'[s].doc = calls[s].doc
        BY <3>a, <2>7
      <4> QED
        BY <4>1, <4>2, <4>3 DEF SkillInv, Uploaded
    <3> QED
      BY <3>1, <3>2
  <2>13. /\ \A id \in SK!Ids : rows'[id] = SK!NoRow \/ RowShape(rows'[id])
         /\ \A id \in SK!Ids : FileShape(docs'[id])
    BY <2>4, <2>5, <1>a, <1>b DEF SkillTyped, TablesTyped
  <2>14. failed \in Nat
    BY <1>a DEF SkillTyped, TablesTyped
  <2> QED
    BY <1>b, <2>2, <2>3, <2>5, <2>6, <2>10, <2>11, <2>12, <2>13, <2>14, <2>d, UploadFrame
<1> QED
  BY <1>1, <1>2

\* SKILL.md is written.
LEMMA SkillSaveFile ==
  ASSUME SkillInv, NEW r \in Requests, SK!InsertFile(r) \/ SK!SaveFile(r) PROVE SkillInv'
<1> DEFINE n == calls[r].id
<1>a. DOMAIN calls = Requests /\ DOMAIN calls[r] = CallFields /\ SkillTyped /\ CallShape(calls[r])
      /\ nextSkill \in [store : Nat, system : Nat, personal : Nat] /\ failed \in Nat
      /\ DOMAIN rows = SK!Ids /\ DOMAIN docs = SK!Ids
      /\ (\A id \in SK!Ids : FileShape(docs[id]))
      /\ \A id \in SK!Ids : rows[id] = SK!NoRow \/ RowShape(rows[id])
  BY DEF SkillInv, SkillTyped, TablesTyped, CallShape
<1>b. /\ Filing(calls[r]) /\ rows' = rows /\ system' = system /\ registry' = registry
      /\ overlap' = overlap /\ failed' = failed /\ boots' = boots /\ nextSkill' = nextSkill
  BY DEF SK!InsertFile, SK!SaveFile, SK!At, SK!bounds, Filing
<1>c. n \in SK!Ids /\ Up(calls[r]) /\ ~Sys(calls[r])
  BY <1>a, <1>b DEF CallShape, Filing, Up, Sys, SK!SystemPcs
<1>0. \/ SK!FileWritten(r) /\ rows[n] # SK!NoRow
      \/ SK!FileRefused(r)
  BY DEF SK!InsertFile, SK!SaveFile
<1>1. /\ Moves(r) /\ calls'[r].pc \in {"entry", "idle", "extra", "words_clear"}
      /\ calls'[r].pc = "words_clear" => calls'[r].id = n
  BY <1>0, <1>a, NextEntryMoves, WrittenMoves, GotoMoves DEF SK!FileWritten, SK!FileRefused
<1>2. \/ /\ docs' = [docs EXCEPT ![n].main = calls[r].doc] /\ torn' = torn \ {n}
         /\ rows[n] # SK!NoRow
      \/ docs' = docs /\ torn' = torn \cup {n}
  BY <1>0 DEF SK!FileWritten, SK!FileRefused, SK!Primary
<1>3. /\ DOMAIN docs' = SK!Ids /\ \A id \in SK!Ids : FileShape(docs'[id])
      /\ \A id \in SK!Ids : id # n => docs'[id] = docs[id] /\ (id \in torn' <=> id \in torn)
      /\ n \in torn' \/ docs'[n].main = calls[r].doc
  BY <1>a, <1>2, <1>c DEF FileShape
<1>4. CallShape(calls'[r]) /\ ~Sys(calls'[r])
  BY <1>1, <1>c DEF CallShape, Moves, Sys, Up, SK!SystemPcs
<1>5. \A s \in Requests : s # r => calls'[s] = calls[s]
  BY <1>1 DEF Moves
<1>6. \A s \in Requests : Up(calls'[s]) => Up(calls[s]) /\ calls'[s].id = calls[s].id
  BY <1>1, <1>5, <1>c DEF Up
<1>7. Fresh' /\ Alone'
  BY <1>6, <1>b DEF SkillInv, Fresh, Alone
<1>8. Uploaded'
  <2> SUFFICES ASSUME NEW id \in SK!Ids \ overlap, rows[id] # SK!NoRow
               PROVE  /\ \/ id \in torn'
                         \/ docs'[id].main = rows[id].doc
                         \/ \E s \in Requests : Filing(calls'[s]) /\ calls'[s].id = id
                      /\ \A s \in Requests : Filing(calls'[s]) /\ calls'[s].id = id
                                               => calls'[s].doc = rows[id].doc
    BY <1>b DEF Uploaded
  <2>a. /\ \/ id \in torn
           \/ docs[id].main = rows[id].doc
           \/ \E s \in Requests : Filing(calls[s]) /\ calls[s].id = id
        /\ \A s \in Requests : Filing(calls[s]) /\ calls[s].id = id
                                 => calls[s].doc = rows[id].doc
    BY DEF SkillInv, Uploaded
  <2>b. \A s \in Requests : Filing(calls'[s]) => s # r /\ calls'[s] = calls[s]
    BY <1>1, <1>5 DEF Filing
  <2>c. \A s \in Requests : s # r /\ Filing(calls[s]) => calls'[s] = calls[s]
    BY <1>5
  <2>1. CASE id = n
    <3>1. id \in torn' \/ docs'[id].main = rows[id].doc
      BY <2>1, <2>a, <1>b, <1>3
    <3> QED
      BY <3>1, <2>a, <2>b
  <2>2. CASE id # n
    <3>1. docs'[id] = docs[id] /\ (id \in torn' <=> id \in torn)
      BY <2>2, <1>3
    <3> QED
      BY <3>1, <2>2, <2>a, <2>b, <2>c
  <2> QED
    BY <2>1, <2>2
<1> QED
  BY <1>a, <1>b, <1>c, <1>1, <1>3, <1>4, <1>7, <1>8, UploadFrame

\* Keywords are replaced one by one.
LEMMA SkillKeywords ==
  ASSUME SkillInv, NEW r \in Requests, SK!ClearKeywords(r) \/ SK!AddKeyword(r)
    PROVE SkillInv'
<1>a. DOMAIN calls = Requests /\ DOMAIN calls[r] = CallFields /\ SkillTyped /\ CallShape(calls[r])
      /\ nextSkill \in [store : Nat, system : Nat, personal : Nat] /\ failed \in Nat
      /\ DOMAIN rows = SK!Ids /\ DOMAIN docs = SK!Ids
      /\ (\A id \in SK!Ids : FileShape(docs[id]))
      /\ \A id \in SK!Ids : rows[id] = SK!NoRow \/ RowShape(rows[id])
  BY DEF SkillInv, SkillTyped, TablesTyped, CallShape
<1>b. /\ calls[r].pc \in {"words_clear", "words"} /\ rows' = rows /\ docs' = docs
      /\ system' = system /\ registry' = registry
      /\ overlap' = overlap /\ torn' = torn /\ boots' = boots /\ nextSkill' = nextSkill
  BY DEF SK!ClearKeywords, SK!AddKeyword, SK!At, SK!bounds, SK!history
<1>1. failed' = failed \/ failed' = failed + 1
  BY DEF SK!ClearKeywords, SK!AddKeyword, SK!bounds
<1>2. Moves(r) /\ calls'[r].pc = "words" /\ calls'[r].id = calls[r].id
  <2>1. CASE SK!ClearKeywords(r)
    BY <1>a, <2>1 DEF SK!ClearKeywords, Moves, CallFields
  <2>2. CASE SK!AddKeyword(r)
    <3>1. calls[r].pc = "words"
      BY <2>2 DEF SK!AddKeyword, SK!At
    <3>2. PICK w : calls' = [calls EXCEPT ![r].words = @ \ {w}]
      BY <2>2 DEF SK!AddKeyword
    <3> QED
      BY <1>a, <3>1, <3>2 DEF Moves, CallFields
  <2> QED
    BY <2>1, <2>2
<1>3. CallShape(calls'[r]) /\ ~Sys(calls'[r]) /\ ~Sys(calls[r])
      /\ Up(calls[r]) /\ ~Filing(calls'[r]) /\ ~Filing(calls[r])
  BY <1>a, <1>b, <1>2 DEF CallShape, Moves, Sys, Up, Filing, SK!SystemPcs
<1>4. Fresh' /\ Alone' /\ Uploaded'
  BY <1>a, <1>b, <1>1, <1>2, <1>3, UploadsSame DEF SkillInv
<1>5. failed' \in Nat
  BY <1>a, <1>1
<1> QED
  BY <1>a, <1>b, <1>2, <1>3, <1>4, <1>5, UploadFrame

\* A second upload of a skill is noted.
LEMMA SkillUpdateEndpoint == ASSUME SkillInv, NEW r \in Requests, SK!UpdateEndpoint(r)
  PROVE SkillInv'
<1>a. DOMAIN calls = Requests /\ SkillTyped
      /\ nextSkill \in [store : Nat, system : Nat, personal : Nat] /\ failed \in Nat
      /\ DOMAIN rows = SK!Ids /\ DOMAIN docs = SK!Ids
      /\ (\A id \in SK!Ids : FileShape(docs[id]))
      /\ \A id \in SK!Ids : rows[id] = SK!NoRow \/ RowShape(rows[id])
  BY DEF SkillInv, SkillTyped, TablesTyped
<1>1. PICK n \in SK!Ids, doc \in Documents :
        /\ rows[n] # SK!NoRow
        /\ SK!Receive(r, [SK!Idle EXCEPT !.pc = "update", !.id = n, !.doc = doc])
        /\ overlap' = IF SK!Uploading(n) = {} THEN overlap ELSE overlap \cup {n}
        /\ UNCHANGED <<SK!store, nextSkill, system, personal, registry, torn>>
  BY DEF SK!UpdateEndpoint
<1>2. /\ Moves(r) /\ calls'[r].pc = "update" /\ calls'[r].id = n /\ calls[r].pc = "idle"
      /\ failed' = failed /\ boots' = boots
  BY <1>a, <1>1 DEF SK!Receive, SK!At, SK!Idle, Moves, CallFields
<1>3. rows' = rows /\ docs' = docs /\ system' = system /\ registry' = registry
      /\ nextSkill' = nextSkill /\ torn' = torn
  BY <1>1 DEF SK!store
<1>4. CallShape(calls'[r]) /\ ~Sys(calls'[r]) /\ ~Sys(calls[r])
  BY <1>2 DEF CallShape, Moves, Sys, SK!SystemPcs
<1>5. \A s \in Requests : s # r => calls'[s] = calls[s]
  BY <1>2 DEF Moves
<1>6. overlap \subseteq overlap' /\ \A s \in Requests : Up(calls[s]) /\ calls[s].id = n
      => n \in overlap'
  BY <1>1 DEF SK!Uploading, SK!UploadPcs, Up
<1>7. n < nextSkill.store
  <2>1. ~(n >= nextSkill.store)
    BY <1>1 DEF SkillInv, Fresh
  <2>2. n \in Nat /\ nextSkill.store \in Nat
    BY <1>a DEF SK!Ids
  <2> QED
    BY <2>1, <2>2
<1>8. Fresh'
  BY <1>2, <1>3, <1>5, <1>7 DEF SkillInv, Fresh
<1>9. Alone'
  <2> SUFFICES ASSUME NEW s \in Requests, NEW t \in Requests, s # t, Up(calls'[s]), Up(calls'[t]),
                      calls'[s].id = calls'[t].id
               PROVE  calls'[s].id \in overlap'
    BY DEF Alone
  <2>1. CASE s = r \/ t = r
    BY <2>1, <1>2, <1>5, <1>6
  <2>2. CASE s # r /\ t # r
    BY <2>2, <1>5, <1>6 DEF SkillInv, Alone
  <2> QED
    BY <2>1, <2>2
<1>10. Uploaded'
  <2>1. \A s \in Requests : /\ Filing(calls[s]) => s # r /\ calls'[s] = calls[s]
                            /\ Filing(calls'[s]) => s # r /\ calls'[s] = calls[s]
    BY <1>2, <1>5 DEF Filing
  <2>2. \A id \in SK!Ids : id \notin overlap' => id \notin overlap
    BY <1>6
  <2> QED
    BY <2>1, <2>2, <1>2, <1>3 DEF SkillInv, Uploaded
<1> QED
  BY <1>a, <1>2, <1>3, <1>4, <1>6, <1>8, <1>9, <1>10, UploadFrame

\* The row is written; SKILL.md is due.
LEMMA SkillUpdateRow == ASSUME SkillInv, NEW r \in Requests, SK!UpdateRow(r) PROVE SkillInv'
<1> DEFINE n == calls[r].id
           doc == calls[r].doc
<1>a. DOMAIN calls = Requests /\ DOMAIN calls[r] = CallFields /\ SkillTyped /\ CallShape(calls[r])
      /\ nextSkill \in [store : Nat, system : Nat, personal : Nat] /\ failed \in Nat
      /\ DOMAIN rows = SK!Ids /\ DOMAIN docs = SK!Ids
      /\ (\A id \in SK!Ids : FileShape(docs[id]))
      /\ \A id \in SK!Ids : rows[id] = SK!NoRow \/ RowShape(rows[id])
  BY DEF SkillInv, SkillTyped, TablesTyped, CallShape
<1>b. /\ calls[r].pc = "update" /\ docs' = docs /\ system' = system /\ registry' = registry
      /\ overlap' = overlap /\ torn' = torn /\ failed' = failed /\ boots' = boots
      /\ nextSkill' = nextSkill
  BY DEF SK!UpdateRow, SK!At, SK!bounds, SK!history
<1>c. n \in SK!Ids /\ Up(calls[r]) /\ ~Sys(calls[r])
  BY <1>a, <1>b DEF CallShape, Up, Sys, SK!SystemPcs
<1>1. CASE ~(rows[n] # SK!NoRow /\ rows[n].doc # doc)
  <2>1. SK!Done(r) /\ rows' = rows
    BY <1>1 DEF SK!UpdateRow
  <2>2. Quiet(r)
    BY <2>1, <1>a, <1>b, <1>c, DoneMoves DEF Quiet, QuietPcs, Filing
  <2> QED
    BY <2>2, QuietKeeps
<1>2. CASE rows[n] # SK!NoRow /\ rows[n].doc # doc
  <2>1. rows' = [rows EXCEPT ![n].doc = doc, ![n].count = 1] /\ SK!Goto(r, "save_file")
    BY <1>2 DEF SK!UpdateRow
  <2>2. Moves(r) /\ calls'[r].pc = "save_file" /\ calls'[r].id = n /\ calls'[r].doc = doc
    BY <2>1, <1>a, GotoMoves
  <2>3. RowShape(rows[n])
    BY <1>a, <1>c, <1>2
  <2> HIDE DEF n, doc
  <2>4. /\ DOMAIN rows' = SK!Ids /\ RowShape(rows'[n]) /\ rows'[n].doc = doc
        /\ \A id \in SK!Ids : id # n => rows'[id] = rows[id]
    BY <2>1, <2>3, <1>a, <1>c DEF RowShape
  <2>5. CallShape(calls'[r]) /\ ~Sys(calls'[r])
    BY <2>2, <1>c DEF CallShape, Moves, Sys, SK!SystemPcs, n
  <2>6. \A s \in Requests : s # r => calls'[s] = calls[s]
    BY <2>2 DEF Moves
  <2>7. \A s \in Requests : Up(calls'[s]) => Up(calls[s]) /\ calls'[s].id = calls[s].id
    BY <2>2, <2>6, <1>c DEF n
  <2>8. Fresh'
    <3>1. ASSUME NEW id \in SK!Ids, id >= nextSkill.store PROVE rows'[id] = SK!NoRow
      <4>1. id # n
        BY <3>1, <1>2 DEF SkillInv, Fresh, n
      <4> QED
        BY <4>1, <3>1, <2>4 DEF SkillInv, Fresh
    <3> QED
      BY <3>1, <2>7, <1>b DEF SkillInv, Fresh
  <2>9. Alone'
    BY <2>7, <1>b DEF SkillInv, Alone
  <2>10. n \notin overlap => \A s \in Requests : s # r => ~(Filing(calls[s])
        /\ calls[s].id = n)
    BY <1>c DEF SkillInv, Alone, Up, Filing, n
  <2>11. Uploaded'
    <3> SUFFICES ASSUME NEW id \in SK!Ids \ overlap, rows'[id] # SK!NoRow
                 PROVE  /\ \/ id \in torn
                           \/ docs[id].main = rows'[id].doc
                           \/ \E s \in Requests : Filing(calls'[s]) /\ calls'[s].id = id
                        /\ \A s \in Requests : Filing(calls'[s]) /\ calls'[s].id = id
                                                 => calls'[s].doc = rows'[id].doc
      BY <1>b DEF Uploaded
    <3>a. Filing(calls'[r]) /\ ~Filing(calls[r])
      BY <2>2, <1>b DEF Filing
    <3>1. CASE id = n
      BY <3>1, <3>a, <2>2, <2>4, <2>6, <2>10
    <3>2. CASE id # n
      <4>1. rows'[id] = rows[id]
        BY <3>2, <2>4
      <4>2. \A s \in Requests : Filing(calls'[s]) /\ calls'[s].id = id
                                  <=> Filing(calls[s]) /\ calls[s].id = id
        BY <3>2, <3>a, <2>2, <2>6
      <4>3. \A s \in Requests : Filing(calls[s]) => calls'[s].doc = calls[s].doc
        BY <3>a, <2>6
      <4> QED
        BY <4>1, <4>2, <4>3 DEF SkillInv, Uploaded
    <3> QED
      BY <3>1, <3>2
  <2>12. \A id \in SK!Ids : rows'[id] = SK!NoRow \/ RowShape(rows'[id])
    BY <2>4, <1>a
  <2> QED
    BY <1>a, <1>b, <1>c, <2>2, <2>4, <2>5, <2>8, <2>9, <2>11, <2>12, UploadFrame
<1> QED
  BY <1>1, <1>2

\* A skill is deleted with its files, or marked; an import adds other files.
LEMMA SkillChanges ==
  ASSUME SkillInv, NEW r \in Requests,
         SK!DeleteSkill(r) \/ SK!SoftDeleteSkill(r) \/ SK!ImportFiles(r)
  PROVE  SkillInv'
<1> DEFINE n == calls[r].id
<1>a. DOMAIN calls = Requests /\ DOMAIN calls[r] = CallFields /\ SkillTyped
      /\ nextSkill \in [store : Nat, system : Nat, personal : Nat] /\ failed \in Nat
      /\ DOMAIN rows = SK!Ids /\ DOMAIN docs = SK!Ids
      /\ (\A id \in SK!Ids : FileShape(docs[id]))
      /\ \A id \in SK!Ids : rows[id] = SK!NoRow \/ RowShape(rows[id])
  BY DEF SkillInv, SkillTyped, TablesTyped, CallShape
<1>b. /\ calls[r].pc \in {"delete", "deprecate", "extra"} /\ system' = system
      /\ registry' = registry /\ overlap' = overlap /\ failed' = failed /\ boots' = boots
      /\ nextSkill' = nextSkill /\ torn' = torn
  BY DEF SK!DeleteSkill, SK!SoftDeleteSkill, SK!ImportFiles, SK!At, SK!bounds, SK!history
<1>1. Moves(r) /\ calls'[r].pc \in {"idle", "entry"}
  <2>1. CASE SK!DeleteSkill(r) \/ SK!SoftDeleteSkill(r)
    BY <1>a, <2>1, DoneMoves DEF SK!DeleteSkill, SK!SoftDeleteSkill
  <2>2. CASE SK!ImportFiles(r)
    BY <1>a, <2>2 DEF SK!ImportFiles, Moves, CallFields
  <2> QED
    BY <2>1, <2>2
<1>2. CallShape(calls'[r]) /\ ~Sys(calls'[r]) /\ ~Sys(calls[r]) /\ ~Up(calls'[r]) /\ ~Up(calls[r])
  BY <1>1, <1>b DEF CallShape, Moves, Sys, Up, SK!SystemPcs
<1>3. /\ DOMAIN rows' = SK!Ids /\ \A id \in SK!Ids : rows'[id] = SK!NoRow \/ RowShape(rows'[id])
      /\ DOMAIN docs' = SK!Ids /\ \A id \in SK!Ids : FileShape(docs'[id])
      /\ \A id \in SK!Ids : rows'[id] # SK!NoRow =>
            rows[id] # SK!NoRow /\ rows'[id].doc = rows[id].doc /\ docs'[id].main = docs[id].main
  <2>1. CASE SK!DeleteSkill(r)
    <3>1. rows' = [rows EXCEPT ![n] = SK!NoRow] /\ docs' = [docs EXCEPT ![n] = SK!NoFiles]
      BY <2>1 DEF SK!DeleteSkill
    <3>2. FileShape(SK!NoFiles)
      BY DEF FileShape, SK!NoFiles
    <3> HIDE DEF n
    <3>3. /\ DOMAIN rows' = SK!Ids /\ DOMAIN docs' = SK!Ids
          /\ \A id \in SK!Ids : rows'[id] = IF id = n THEN SK!NoRow ELSE rows[id]
          /\ \A id \in SK!Ids : docs'[id] = IF id = n THEN SK!NoFiles ELSE docs[id]
      BY <3>1, <1>a
    <3> QED
      BY <3>2, <3>3, <1>a
  <2>2. CASE SK!SoftDeleteSkill(r)
    <3>1. docs' = docs /\ rows' = IF rows[n] = SK!NoRow THEN rows
                                  ELSE [rows EXCEPT ![n].status = "deprecated"]
      BY <2>2 DEF SK!SoftDeleteSkill
    <3> HIDE DEF n
    <3> QED
      BY <3>1, <1>a DEF RowShape
  <2>3. CASE SK!ImportFiles(r)
    <3>1. rows' = rows /\ (docs' = docs \/ docs' = [docs EXCEPT ![n].extra = TRUE])
      BY <2>3 DEF SK!ImportFiles
    <3> HIDE DEF n
    <3> QED
      BY <3>1, <1>a DEF FileShape
  <2> QED
    BY <2>1, <2>2, <2>3
<1>4. \A s \in Requests : s # r => calls'[s] = calls[s]
  BY <1>1 DEF Moves
<1>5. \A s \in Requests : Up(calls'[s]) => Up(calls[s]) /\ calls'[s] = calls[s]
  BY <1>2, <1>4
<1>6. Fresh' /\ Alone'
  BY <1>3, <1>5, <1>b DEF SkillInv, Fresh, Alone
<1>7. Uploaded'
  <2>1. \A s \in Requests : /\ Filing(calls[s]) => calls'[s] = calls[s]
                            /\ Filing(calls'[s]) => calls'[s] = calls[s]
    BY <1>1, <1>b, <1>4 DEF Filing
  <2> QED
    BY <2>1, <1>3, <1>b DEF SkillInv, Uploaded
<1> QED
  BY <1>a, <1>b, <1>1, <1>2, <1>3, <1>6, <1>7, UploadFrame

\* A statement fails: an upload may end half-way, a change of the system skills ends
\* in step with the registry, or is noted.
LEMMA SkillDbError == ASSUME SkillInv, NEW r \in Requests, SK!DbError(r) PROVE SkillInv'
<1>1. /\ Moves(r) /\ calls'[r].pc \in {"entry", "idle"} /\ failed \in Nat /\ failed' = failed + 1
      /\ rows' = rows /\ docs' = docs /\ system' = system /\ registry' = registry
      /\ boots' = boots /\ nextSkill' = nextSkill
      /\ torn' = IF Filing(calls[r]) THEN torn \cup {calls[r].id} ELSE torn
      /\ overlap' = IF calls[r].pc \in {"system_register", "system_replace", "system_unregister"}
                    THEN overlap \cup {0} ELSE overlap
  BY NextEntryMoves DEF SkillInv, SkillTyped, TablesTyped, SK!DbError, SK!store, SK!Filing, Filing
<1>2. CallShape(calls'[r]) /\ ~Sys(calls'[r]) /\ ~Up(calls'[r]) /\ ~Filing(calls'[r])
  BY <1>1 DEF CallShape, Moves, Sys, Up, Filing, SK!SystemPcs
<1>3. \A s \in Requests : /\ Up(calls'[s]) => Up(calls[s]) /\ calls'[s] = calls[s]
                          /\ Sys(calls'[s]) => Sys(calls[s]) /\ calls'[s] = calls[s]
                          /\ Filing(calls'[s]) => calls'[s] = calls[s]
                          /\ s # r => calls'[s] = calls[s]
  BY <1>1, <1>2 DEF Moves
<1>4. TablesTyped'
  BY <1>1 DEF SkillInv, SkillTyped, TablesTyped
<1>5. SkillTyped'
  BY <1>1, <1>2, <1>4, TypedMoves DEF SkillInv
<1>6. overlap \subseteq overlap' /\ \A id \in SK!Ids : id \in overlap' => id \in overlap
  <2>1. \A id \in SK!Ids : id # 0
    BY DEF SK!Ids
  <2> QED
    BY <2>1, <1>1
<1>7. Fresh' /\ Alone' /\ UniqueNames' /\ AloneInSystem'
  BY <1>1, <1>3, <1>6 DEF SkillInv, Fresh, Alone, UniqueNames, AloneInSystem
<1>8. Uploaded'
  <2> SUFFICES ASSUME NEW id \in SK!Ids \ overlap, rows[id] # SK!NoRow
               PROVE  /\ \/ id \in torn'
                         \/ docs[id].main = rows[id].doc
                         \/ \E s \in Requests : Filing(calls'[s]) /\ calls'[s].id = id
                      /\ \A s \in Requests : Filing(calls'[s]) /\ calls'[s].id = id
                                               => calls'[s].doc = rows[id].doc
    BY <1>1, <1>6 DEF Uploaded
  <2>1. /\ \/ id \in torn
           \/ docs[id].main = rows[id].doc
           \/ \E s \in Requests : Filing(calls[s]) /\ calls[s].id = id
        /\ \A s \in Requests : Filing(calls[s]) /\ calls[s].id = id
                                 => calls[s].doc = rows[id].doc
    BY DEF SkillInv, Uploaded
  <2>2. torn \subseteq torn' /\ (Filing(calls[r]) => calls[r].id \in torn')
    BY <1>1
  <2> QED
    BY <1>3, <2>1, <2>2
<1>9. Followed'
  <2> SUFFICES ASSUME 0 \notin overlap'
               PROVE  /\ \A s \in Requests : Sys(calls'[s]) => Owed(calls[s])'
                      /\ (\A s \in Requests : ~Sys(calls'[s])) => InStep'
    BY DEF Followed, Sys
  <2>1. 0 \notin overlap
    BY <1>6
  <2>2. InStep' <=> InStep
    BY <1>1 DEF InStep, Registered, Matched
  <2>3. ASSUME NEW s \in Requests, Sys(calls'[s]) PROVE Owed(calls[s])'
    <3>1. Owed(calls[s]) /\ calls'[s] = calls[s]
      BY <2>1, <2>3, <1>3 DEF SkillInv, Followed
    <3>2. /\ \A id : Registered(id)' <=> Registered(id)
          /\ \A n : Matched(n)' <=> Matched(n)
      BY <1>1 DEF Registered, Matched
    <3> QED
      BY <3>1, <3>2, <2>2, <1>1 DEF Owed, NotNamed
  <2>4. ASSUME \A s \in Requests : ~Sys(calls'[s]) PROVE InStep
    <3>1. CASE Sys(calls[r])
      <4>1. calls[r].pc \in {"system_insert", "system_update", "system_delete"}
        BY <3>1, <1>1 DEF Sys, SK!SystemPcs
      <4> QED
        BY <4>1, <3>1, <2>1 DEF SkillInv, Followed, Owed
    <3>2. CASE ~Sys(calls[r])
      BY <3>2, <2>1, <2>4, <1>3 DEF SkillInv, Followed
    <3> QED
      BY <3>1, <3>2
  <2> QED
    BY <2>2, <2>3, <2>4
<1> QED
  BY <1>5, <1>7, <1>8, <1>9 DEF SkillInv

-----------------------------------------------------------------------------
(* The system skills.                                                      *)

\* The common part: the uploads, and the shapes.
LEMMA SystemFrame ==
  ASSUME SkillInv, NEW r \in Requests, Moves(r), CallShape(calls'[r]),
         ~Up(calls[r]), ~Up(calls'[r]), rows' = rows, docs' = docs, overlap' = overlap,
         torn' = torn, failed' = failed, boots' = boots,
         nextSkill' \in [store : Nat, system : Nat, personal : Nat],
         nextSkill'.store = nextSkill.store,
         DOMAIN system' = SK!Ids, \A id \in SK!Ids : system'[id] = SK!NoRow
               \/ SystemShape(system'[id]),
         DOMAIN registry' = SK!Names,
         UniqueNames', AloneInSystem', Followed'
  PROVE  SkillInv'
<1>1. TablesTyped'
  BY DEF SkillInv, SkillTyped, TablesTyped
<1>2. SkillTyped'
  BY <1>1, TypedMoves DEF SkillInv
<1>3. ~Filing(calls[r]) /\ ~Filing(calls'[r])
  BY DEF Up, Filing
<1>4. Fresh' /\ Alone' /\ Uploaded'
  BY <1>3, UploadsSame DEF SkillInv
<1> QED
  BY <1>2, <1>4 DEF SkillInv

\* While one change is under way, its call is the only one.
LEMMA OnlyChange ==
  ASSUME SkillInv, 0 \notin overlap, NEW r \in Requests, Sys(calls[r]), Moves(r)
  PROVE  /\ \A s \in Requests : s # r => ~Sys(calls[s]) /\ ~Sys(calls'[s])
         /\ Owed(calls[r])
  BY DEF SkillInv, AloneInSystem, Followed, Moves

\* Then what the registry is still owed is what this call owes.
LEMMA ChangeGoesOn ==
  ASSUME SkillInv, NEW r \in Requests, Moves(r), Sys(calls[r]), overlap' = overlap,
         0 \notin overlap =>
            /\ Sys(calls'[r]) => Owed(calls[r])'
            /\ ~Sys(calls'[r]) => InStep'
  PROVE  AloneInSystem' /\ Followed'
<1>1. 0 \notin overlap => \A s \in Requests : s # r => ~Sys(calls'[s])
  BY OnlyChange
<1>2. AloneInSystem'
  BY <1>1 DEF AloneInSystem
<1>3. ASSUME 0 \notin overlap, NEW s \in Requests, Sys(calls'[s])
      PROVE Owed(calls[s])'
  BY <1>1, <1>3
<1>4. ASSUME 0 \notin overlap, \A s \in Requests : ~Sys(calls'[s])
      PROVE  InStep'
  BY <1>4
<1>5. Followed'
  BY <1>3, <1>4 DEF Followed, Sys
<1> QED
  BY <1>2, <1>5

\* A change begins, and a second one is noted.
LEMMA ChangeBegins ==
  ASSUME SkillInv, NEW r \in Requests,
         \/ SK!CreateSystemEndpoint(r) \/ SK!UpdateSystemEndpoint(r) \/ SK!DeleteSystemEndpoint(r)
  PROVE  SkillInv'
<1>a. DOMAIN calls = Requests /\ SkillTyped
      /\ nextSkill \in [store : Nat, system : Nat, personal : Nat]
  BY DEF SkillInv, SkillTyped, TablesTyped
<1>1. /\ Moves(r) /\ calls[r].pc = "idle" /\ failed' = failed /\ boots' = boots
      /\ calls'[r].pc \in {"system_insert", "system_update", "system_delete"}
      /\ calls'[r].pc # "system_delete" => calls'[r].doc \in Documents
      /\ calls'[r].pc # "system_insert" =>
            /\ calls'[r].id \in SK!Ids /\ system[calls'[r].id] # SK!NoRow
            /\ calls'[r].name = system[calls'[r].id].name
      /\ rows' = rows /\ docs' = docs /\ system' = system /\ registry' = registry
      /\ nextSkill' = nextSkill /\ SK!NoteSystem
  <2>1. CASE SK!CreateSystemEndpoint(r)
    <3>1. PICK doc \in Documents, detail \in BOOLEAN :
            SK!Receive(r, [SK!Idle EXCEPT !.pc = "system_insert", !.doc = doc,
                                          !.detail = detail])
      BY <2>1 DEF SK!CreateSystemEndpoint
    <3> DEFINE q == [SK!Idle EXCEPT !.pc = "system_insert", !.doc = doc, !.detail = detail]
    <3>2. DOMAIN q = CallFields /\ q.pc = "system_insert" /\ q.doc = doc
      BY DEF SK!Idle, CallFields
    <3>3. SK!Receive(r, q)
      BY <3>1
    <3>4. UNCHANGED <<SK!store, nextSkill, system, personal, registry>> /\ SK!NoteSystem
      BY <2>1 DEF SK!CreateSystemEndpoint
    <3> HIDE DEF q
    <3> QED
      BY <1>a, <3>1, <3>2, <3>3, <3>4, ReceiveMoves DEF SK!store
  <2>2. CASE SK!UpdateSystemEndpoint(r)
    <3>1. PICK id \in SK!Ids, doc \in Documents, detail \in BOOLEAN :
            /\ system[id] # SK!NoRow
            /\ SK!Receive(r, [SK!Idle EXCEPT !.pc = "system_update", !.id = id, !.doc = doc,
                                            !.detail = detail, !.name = system[id].name])
      BY <2>2 DEF SK!UpdateSystemEndpoint
    <3> DEFINE q == [SK!Idle EXCEPT !.pc = "system_update", !.id = id, !.doc = doc,
                                    !.detail = detail, !.name = system[id].name]
    <3>2. DOMAIN q = CallFields /\ q.pc = "system_update" /\ q.id = id /\ q.doc = doc
          /\ q.name = system[id].name
      BY DEF SK!Idle, CallFields
    <3>3. SK!Receive(r, q)
      BY <3>1
    <3>4. UNCHANGED <<SK!store, nextSkill, system, personal, registry>> /\ SK!NoteSystem
      BY <2>2 DEF SK!UpdateSystemEndpoint
    <3> HIDE DEF q
    <3> QED
      BY <1>a, <3>1, <3>2, <3>3, <3>4, ReceiveMoves DEF SK!store
  <2>3. CASE SK!DeleteSystemEndpoint(r)
    <3>1. PICK id \in SK!Ids :
            /\ system[id] # SK!NoRow
            /\ SK!Receive(r, [SK!Idle EXCEPT !.pc = "system_delete", !.id = id,
                                            !.name = system[id].name])
      BY <2>3 DEF SK!DeleteSystemEndpoint
    <3> DEFINE q == [SK!Idle EXCEPT !.pc = "system_delete", !.id = id, !.name = system[id].name]
    <3>2. DOMAIN q = CallFields /\ q.pc = "system_delete" /\ q.id = id /\ q.name = system[id].name
      BY DEF SK!Idle, CallFields
    <3>3. SK!Receive(r, q)
      BY <3>1
    <3>4. UNCHANGED <<SK!store, nextSkill, system, personal, registry>> /\ SK!NoteSystem
      BY <2>3 DEF SK!DeleteSystemEndpoint
    <3> HIDE DEF q
    <3> QED
      BY <1>a, <3>1, <3>2, <3>3, <3>4, ReceiveMoves DEF SK!store
  <2> QED
    BY <2>1, <2>2, <2>3
<1>2. \A d \in Documents : SK!PersonalName(d) \in SK!Names
  BY DEF SK!PersonalName, SK!Names
<1>3. /\ CallShape(calls'[r]) /\ Sys(calls'[r]) /\ ~Sys(calls[r])
      /\ ~Up(calls'[r]) /\ ~Up(calls[r]) /\ ~Filing(calls'[r]) /\ ~Filing(calls[r])
  BY <1>1, <1>2 DEF CallShape, Moves, Sys, Up, Filing, SK!SystemPcs
<1>4. \A s \in Requests : s # r => calls'[s] = calls[s]
  BY <1>1 DEF Moves
<1>5. /\ overlap \subseteq overlap' /\ \A s \in Requests : Sys(calls[s]) => 0 \in overlap'
      /\ torn' = torn /\ \A id \in SK!Ids : id \in overlap' => id \in overlap
  <2>1. \A id \in SK!Ids : id # 0
    BY DEF SK!Ids
  <2> QED
    BY <2>1, <1>1 DEF SK!NoteSystem, SK!ChangingSystem, Sys
<1>6. TablesTyped'
  BY <1>1 DEF SkillInv, SkillTyped, TablesTyped
<1>7. SkillTyped'
  BY <1>1, <1>3, <1>6, TypedMoves DEF SkillInv
<1>8. \A s \in Requests : Up(calls'[s]) => Up(calls[s]) /\ calls'[s] = calls[s]
  BY <1>3, <1>4
<1>9. Fresh' /\ Alone'
  BY <1>1, <1>5, <1>8 DEF SkillInv, Fresh, Alone
<1>10. Uploaded'
  <2>1. \A s \in Requests : /\ Filing(calls[s]) => calls'[s] = calls[s]
                            /\ Filing(calls'[s]) => calls'[s] = calls[s]
    BY <1>3, <1>4
  <2> QED
    BY <2>1, <1>1, <1>5 DEF SkillInv, Uploaded
<1>11. UniqueNames'
  BY <1>1 DEF SkillInv, UniqueNames
<1>12. 0 \notin overlap' => \A s \in Requests : s # r => ~Sys(calls'[s])
  BY <1>4, <1>5
<1>13. AloneInSystem'
  BY <1>12 DEF AloneInSystem
<1>14. Followed'
  <2> SUFFICES ASSUME 0 \notin overlap' PROVE Owed(calls[r])'
    BY <1>1, <1>3, <1>12 DEF Followed, Sys
  <2>1. \A s \in Requests : ~Sys(calls[s])
    BY <1>5
  <2>2. InStep
    BY <2>1, <1>5 DEF SkillInv, Followed
  <2>3. InStep'
    BY <2>2, <1>1 DEF InStep, Registered, Matched
  <2> QED
    BY <2>3, <1>1 DEF Owed
<1> QED
  BY <1>7, <1>9, <1>10, <1>11, <1>13, <1>14 DEF SkillInv

\* The row of a new system skill.
LEMMA ChangeInserts == ASSUME SkillInv, NEW r \in Requests, SK!CreateSystemRow(r)
  PROVE SkillInv'
<1> DEFINE name == SK!PersonalName(calls[r].doc)
           n == nextSkill.system
<1>a. /\ DOMAIN calls = Requests /\ DOMAIN calls[r] = CallFields /\ SkillTyped
      /\ CallShape(calls[r]) /\ nextSkill \in [store : Nat, system : Nat, personal : Nat]
      /\ DOMAIN system = SK!Ids /\ DOMAIN registry = SK!Names
      /\ \A id \in SK!Ids : system[id] = SK!NoRow \/ SystemShape(system[id])
  BY DEF SkillInv, SkillTyped, TablesTyped, CallShape
<1>b. /\ calls[r].pc = "system_insert" /\ rows' = rows /\ docs' = docs /\ registry' = registry
      /\ overlap' = overlap /\ torn' = torn /\ failed' = failed /\ boots' = boots
  BY DEF SK!CreateSystemRow, SK!At, SK!store, SK!bounds, SK!history
<1>c. Sys(calls[r]) /\ ~Up(calls[r]) /\ name \in SK!Names
  BY <1>a, <1>b DEF CallShape, Sys, Up, SK!SystemPcs
<1>d. 0 \notin overlap => InStep
  BY <1>b, <1>c DEF SkillInv, Followed, Owed
<1>1. CASE name \in SK!SystemNames(0)
  <2>1. SK!Done(r) /\ system' = system /\ nextSkill' = nextSkill
    BY <1>1 DEF SK!CreateSystemRow
  <2>2. Moves(r) /\ calls'[r].pc = "idle"
    BY <2>1, <1>a, DoneMoves
  <2>3. CallShape(calls'[r]) /\ ~Sys(calls'[r]) /\ ~Up(calls'[r])
    BY <2>2 DEF CallShape, Moves, Sys, Up, SK!SystemPcs
  <2>4. InStep' <=> InStep
    BY <2>1, <1>b DEF InStep, Registered, Matched
  <2>5. AloneInSystem' /\ Followed'
    BY <2>2, <2>3, <2>4, <1>b, <1>c, <1>d, ChangeGoesOn
  <2>6. UniqueNames'
    BY <2>1 DEF SkillInv, UniqueNames
  <2> QED
    BY <1>a, <1>b, <1>c, <2>1, <2>2, <2>3, <2>5, <2>6, SystemFrame
<1>2. CASE name \notin SK!SystemNames(0)
  <2> DEFINE row == [name |-> name, doc |-> calls[r].doc]
  <2>1. /\ n \in SK!Ids /\ system' = [system EXCEPT ![n] = row]
        /\ nextSkill' = [nextSkill EXCEPT !.system = @ + 1]
        /\ calls' = [calls EXCEPT ![r].pc = "system_register", ![r].name = name]
    BY <1>2 DEF SK!CreateSystemRow
  <2>2. /\ Moves(r) /\ calls'[r].pc = "system_register" /\ calls'[r].name = name
        /\ calls'[r].doc = calls[r].doc
    BY <2>1, <1>a DEF Moves, CallFields
  <2>3. CallShape(calls'[r]) /\ Sys(calls'[r]) /\ ~Up(calls'[r])
    BY <2>2, <1>c DEF CallShape, Moves, Sys, Up, SK!SystemPcs
  <2>4. row # SK!NoRow /\ SystemShape(row) /\ row.name = name /\ row.doc = calls[r].doc
    BY <1>c DEF SK!NoRow, SystemShape
  <2>5. \A id \in SK!Ids : system[id] # SK!NoRow => system[id].name # name
    <3>1. \A id \in SK!Ids : id # 0
      BY DEF SK!Ids
    <3> HIDE DEF name
    <3> QED
      BY <3>1, <1>2 DEF SK!SystemNames
  <2>6. /\ nextSkill' \in [store : Nat, system : Nat, personal : Nat]
        /\ nextSkill'.store = nextSkill.store /\ nextSkill'.system = n + 1 /\ n \in Nat
    BY <2>1, <1>a
  <2> HIDE DEF row, n, name
  <2>7. /\ DOMAIN system' = SK!Ids /\ system'[n] = row
        /\ \A id \in SK!Ids : id # n => system'[id] = system[id]
    BY <2>1, <1>a
  <2>8. \A id \in SK!Ids : system'[id] = SK!NoRow \/ SystemShape(system'[id])
    BY <2>4, <2>7, <1>a
  <2>9. UniqueNames'
    <3>1. \A i, j \in SK!Ids : system'[i] # SK!NoRow /\ system'[j] # SK!NoRow
                                /\ system'[i].name = system'[j].name => i = j
      BY <2>4, <2>5, <2>7 DEF SkillInv, UniqueNames
    <3>2. ASSUME NEW id \in SK!Ids, id >= nextSkill'.system PROVE system'[id] = SK!NoRow
      <4>1. id # n /\ id >= n
        BY <3>2, <2>6 DEF SK!Ids
      <4> QED
        BY <4>1, <2>7 DEF SkillInv, UniqueNames, n
    <3> QED
      BY <3>1, <3>2 DEF UniqueNames
  <2>9a. system[n] = SK!NoRow
    <3>1. n >= nextSkill.system
      BY <2>6 DEF n
    <3> QED
      BY <3>1, <2>1 DEF SkillInv, UniqueNames
  <2>10. ASSUME 0 \notin overlap PROVE Owed(calls[r])'
    <3>1. system'[n] # SK!NoRow /\ system'[n].name = name /\ system'[n].doc = calls[r].doc
      BY <2>4, <2>7
    <3>2. ASSUME NEW id \in SK!Ids, id # n, system'[id] # SK!NoRow
          PROVE  /\ system'[id].name # name
                 /\ registry'[system'[id].name].doc = system'[id].doc
                 /\ registry'[system'[id].name].content \in SK!OfSystem
      <4>1. system'[id] = system[id] /\ Registered(id)
        BY <3>2, <2>7, <2>10, <1>d DEF InStep
      <4> QED
        BY <4>1, <3>2, <2>5, <1>b DEF Registered
    <3>3. /\ calls'[r].pc = "system_register" /\ calls'[r].name = name
          /\ calls'[r].doc = calls[r].doc
      BY <2>2
    <3>4. \A id \in SK!Ids : \/ id = n
                             \/ /\ system'[id] # SK!NoRow => system'[id].name # name
                                /\ system'[id] # SK!NoRow
                                   => /\ registry'[system'[id].name].doc = system'[id].doc
                                      /\ registry'[system'[id].name].content \in SK!OfSystem
      BY <3>2
    <3>5. \A m \in SK!Names : Matched(m)'
      <4>1. \A id \in SK!Ids : system[id] # SK!NoRow => system'[id] = system[id]
        BY <2>7, <2>9a
      <4>2. \A m \in SK!Names : Matched(m)
        BY <2>10, <1>d DEF InStep
      <4> QED
        BY <4>1, <4>2, <1>b DEF Matched
    <3> QED
      BY <3>1, <3>3, <3>4, <3>5, <2>1 DEF Owed, NotNamed, Registered
  <2>11. AloneInSystem' /\ Followed'
    BY <2>2, <2>3, <2>10, <1>b, <1>c, ChangeGoesOn
  <2> QED
    BY <1>a, <1>b, <1>c, <2>2, <2>3, <2>6, <2>7, <2>8, <2>9, <2>11, SystemFrame
<1> QED
  BY <1>1, <1>2

\* The new skill is registered, the changed one replaced, the old one forgotten.
LEMMA ChangeEnds ==
  ASSUME SkillInv, NEW r \in Requests,
         SK!RegisterSystem(r) \/ SK!ReplaceSystem(r) \/ SK!UnregisterSystem(r)
  PROVE  SkillInv'
<1>a. /\ DOMAIN calls = Requests /\ DOMAIN calls[r] = CallFields /\ SkillTyped
      /\ CallShape(calls[r]) /\ nextSkill \in [store : Nat, system : Nat, personal : Nat]
      /\ DOMAIN system = SK!Ids /\ DOMAIN registry = SK!Names
      /\ \A id \in SK!Ids : system[id] = SK!NoRow \/ SystemShape(system[id])
  BY DEF SkillInv, SkillTyped, TablesTyped, CallShape
<1>b. /\ calls[r].pc \in {"system_register", "system_replace", "system_unregister"}
      /\ rows' = rows /\ docs' = docs /\ system' = system /\ nextSkill' = nextSkill
      /\ overlap' = overlap /\ torn' = torn /\ failed' = failed /\ boots' = boots
      /\ SK!Done(r)
  BY DEF SK!RegisterSystem, SK!ReplaceSystem, SK!UnregisterSystem, SK!At, SK!store, SK!bounds,
         SK!history
<1>c. Sys(calls[r]) /\ ~Up(calls[r])
  BY <1>b DEF Sys, Up, SK!SystemPcs
<1>1. Moves(r) /\ calls'[r].pc = "idle"
  BY <1>a, <1>b, DoneMoves
<1>2. CallShape(calls'[r]) /\ ~Sys(calls'[r]) /\ ~Up(calls'[r])
  BY <1>1 DEF CallShape, Moves, Sys, Up, SK!SystemPcs
<1>3. DOMAIN registry' = SK!Names
  BY <1>a DEF SK!RegisterSystem, SK!ReplaceSystem, SK!UnregisterSystem, SK!Put
<1>4. UniqueNames'
  BY <1>b DEF SkillInv, UniqueNames
<1>d. SK!FromRequest(r).doc = calls[r].doc /\ SK!FromRequest(r).content \in SK!OfSystem
  BY DEF SK!FromRequest, SK!Skill, SK!OfSystem
<1>e. SK!Absent.content \notin SK!OfSystem
  BY DEF SK!Absent, SK!Skill, SK!OfSystem
<1>5. ASSUME 0 \notin overlap, NEW id \in SK!Ids, system[id] # SK!NoRow
      PROVE  /\ registry'[system[id].name].doc = system[id].doc
             /\ registry'[system[id].name].content \in SK!OfSystem
  <2>1. Owed(calls[r])
    BY <1>5, <1>c DEF SkillInv, Followed
  <2>2. system[id].name \in SK!Names
    BY <1>5, <1>a DEF SystemShape
  <2>3. CASE SK!RegisterSystem(r)
    <3>1. /\ Registered(id) \/ system[id].name = calls[r].name
          /\ system[id].name # calls[r].name \/ system[id].doc = calls[r].doc
      BY <2>1, <2>3, <1>5 DEF SK!RegisterSystem, SK!At, Owed, NotNamed
    <3>2. registry' = [registry EXCEPT ![calls[r].name] = SK!FromRequest(r)]
      BY <2>3 DEF SK!RegisterSystem, SK!Put
    <3> QED
      BY <3>1, <3>2, <2>2, <1>5, <1>a, <1>d DEF Registered
  <2>4. CASE SK!ReplaceSystem(r)
    <3> DEFINE old == calls[r].name
               new == SK!PersonalName(calls[r].doc)
               doc == calls[r].doc
               freed == [registry EXCEPT ![old] = SK!Absent]
               put == SK!FromRequest(r)
    <3>1. registry' = [freed EXCEPT ![new] = put] /\ calls[r].pc = "system_replace"
      BY <2>4 DEF SK!ReplaceSystem, SK!Put, SK!At
    <3>2. calls[r].id \in SK!Ids /\ new \in SK!Names
      BY <3>1, <1>a DEF CallShape, Sys, SK!SystemPcs
    <3>3. /\ id # calls[r].id => Registered(id) /\ system[id].name # old
          /\ system[calls[r].id] = [name |-> new, doc |-> doc]
      BY <2>1, <3>1, <1>5 DEF Owed, NotNamed
    <3>4. [name |-> new, doc |-> doc] # SK!NoRow
      BY DEF SK!NoRow
    <3>5. id # calls[r].id => system[id].name # new
      BY <3>2, <3>3, <3>4, <1>5 DEF SkillInv, UniqueNames
    <3>6. DOMAIN freed = SK!Names
      BY <1>a
    <3>7. system[id].name # old => freed[system[id].name] = registry[system[id].name]
      BY <2>2, <1>a
    <3>d. put.doc = doc /\ put.content \in SK!OfSystem
      BY <1>d
    <3> HIDE DEF freed, old, new, doc, put
    <3>8. CASE id = calls[r].id
      BY <3>8, <3>1, <3>2, <3>3, <3>6, <3>d
    <3>9. CASE id # calls[r].id
      BY <3>9, <3>1, <3>3, <3>5, <3>6, <3>7, <2>2, <1>5 DEF Registered
    <3> QED
      BY <3>8, <3>9
  <2>5. CASE SK!UnregisterSystem(r)
    <3>1. Registered(id) /\ system[id].name # calls[r].name
      BY <2>1, <2>5, <1>5 DEF SK!UnregisterSystem, SK!At, Owed, NotNamed
    <3>2. registry' = [registry EXCEPT ![calls[r].name] = SK!Absent]
      BY <2>5 DEF SK!UnregisterSystem, SK!Put
    <3> QED
      BY <3>1, <3>2, <2>2, <1>5, <1>a DEF Registered
  <2> QED
    BY <2>3, <2>4, <2>5
<1>6. ASSUME 0 \notin overlap, NEW m \in SK!Names, registry'[m].content \in SK!OfSystem
      PROVE  \E id \in SK!Ids : system[id] # SK!NoRow /\ system[id].name = m
  <2>1. Owed(calls[r])
    BY <1>6, <1>c DEF SkillInv, Followed
  <2>2. CASE SK!RegisterSystem(r)
    <3>1. calls[r].pc = "system_register"
      BY <2>2 DEF SK!RegisterSystem, SK!At
    <3>2. registry' = [registry EXCEPT ![calls[r].name] = SK!FromRequest(r)]
      BY <2>2 DEF SK!RegisterSystem, SK!Put
    <3>3. m # calls[r].name => registry'[m] = registry[m]
      BY <3>2, <1>a
    <3>4. Matched(m) /\ \E id \in SK!Ids : ~NotNamed(calls[r].name, id)
      BY <2>1, <3>1 DEF Owed
    <3> QED
      BY <3>3, <3>4, <1>6 DEF Matched, NotNamed
  <2>3. CASE SK!ReplaceSystem(r)
    <3> DEFINE old == calls[r].name
               new == SK!PersonalName(calls[r].doc)
               freed == [registry EXCEPT ![old] = SK!Absent]
               put == SK!FromRequest(r)
    <3>1. registry' = [freed EXCEPT ![new] = put] /\ calls[r].pc = "system_replace"
      BY <2>3 DEF SK!ReplaceSystem, SK!Put, SK!At
    <3>2. calls[r].id \in SK!Ids
      BY <3>1, <1>a DEF CallShape
    <3>3. /\ m # old => Matched(m)
          /\ system[calls[r].id] = [name |-> new, doc |-> calls[r].doc]
      BY <2>1, <3>1 DEF Owed
    <3>4. [name |-> new, doc |-> calls[r].doc] # SK!NoRow
      BY DEF SK!NoRow
    <3>5. /\ DOMAIN freed = SK!Names
          /\ m # old => freed[m] = registry[m]
          /\ m = old => freed[m] = SK!Absent
      BY <1>a
    <3>6. system[calls[r].id].name = new
      BY <3>3
    <3> HIDE DEF freed, old, new, put
    <3>7. m # new => registry'[m] = freed[m]
      BY <3>1, <3>5
    <3>8. CASE m = new
      BY <3>8, <3>2, <3>3, <3>4, <3>6
    <3>9. CASE m # new
      <4>1. m # old /\ registry'[m] = registry[m]
        BY <3>9, <3>5, <3>7, <1>6, <1>e
      <4> QED
        BY <4>1, <3>3, <1>6 DEF Matched
    <3> QED
      BY <3>8, <3>9
  <2>4. CASE SK!UnregisterSystem(r)
    <3>1. calls[r].pc = "system_unregister"
      BY <2>4 DEF SK!UnregisterSystem, SK!At
    <3>2. registry' = [registry EXCEPT ![calls[r].name] = SK!Absent]
      BY <2>4 DEF SK!UnregisterSystem, SK!Put
    <3>3. m # calls[r].name /\ registry'[m] = registry[m]
      BY <3>2, <1>a, <1>e, <1>6
    <3>4. Matched(m)
      BY <2>1, <3>1, <3>3 DEF Owed
    <3> QED
      BY <3>3, <3>4, <1>6 DEF Matched
  <2> QED
    BY <2>2, <2>3, <2>4
<1>7. 0 \notin overlap => InStep'
  BY <1>5, <1>6, <1>b DEF InStep, Registered, Matched
<1>8. AloneInSystem' /\ Followed'
  BY <1>1, <1>2, <1>7, <1>b, <1>c, ChangeGoesOn
<1> QED
  BY <1>a, <1>b, <1>c, <1>1, <1>2, <1>3, <1>4, <1>8, SystemFrame

\* The row of a system skill is changed, or refused.
LEMMA ChangeUpdates == ASSUME SkillInv, NEW r \in Requests, SK!UpdateSystem(r)
  PROVE SkillInv'
<1> DEFINE n == calls[r].id
           name == SK!PersonalName(calls[r].doc)
           new == [name |-> name, doc |-> calls[r].doc]
           written == system[n] \notin {SK!NoRow, new} /\ new.name \notin SK!SystemNames(n)
<1>a. /\ DOMAIN calls = Requests /\ DOMAIN calls[r] = CallFields /\ SkillTyped
      /\ CallShape(calls[r]) /\ nextSkill \in [store : Nat, system : Nat, personal : Nat]
      /\ DOMAIN system = SK!Ids /\ DOMAIN registry = SK!Names
      /\ \A id \in SK!Ids : system[id] = SK!NoRow \/ SystemShape(system[id])
  BY DEF SkillInv, SkillTyped, TablesTyped, CallShape
<1>b. /\ calls[r].pc = "system_update" /\ rows' = rows /\ docs' = docs /\ registry' = registry
      /\ overlap' = overlap /\ torn' = torn /\ failed' = failed /\ boots' = boots
      /\ nextSkill' = nextSkill
  BY DEF SK!UpdateSystem, SK!At, SK!store, SK!bounds, SK!history
<1>c. Sys(calls[r]) /\ ~Up(calls[r]) /\ name \in SK!Names /\ n \in SK!Ids
  BY <1>a, <1>b DEF CallShape, Sys, Up, SK!SystemPcs
<1>d. 0 \notin overlap =>
        /\ InStep
        /\ system[n] # SK!NoRow /\ system[n].name = calls[r].name
  BY <1>b, <1>c DEF SkillInv, Followed, Owed
<1>1. CASE ~written
  <2>1. SK!Done(r) /\ system' = system
    BY <1>1 DEF SK!UpdateSystem
  <2>2. Moves(r) /\ calls'[r].pc = "idle"
    BY <2>1, <1>a, DoneMoves
  <2>3. CallShape(calls'[r]) /\ ~Sys(calls'[r]) /\ ~Up(calls'[r])
    BY <2>2 DEF CallShape, Moves, Sys, Up, SK!SystemPcs
  <2>4. InStep' <=> InStep
    BY <2>1, <1>b DEF InStep, Registered, Matched
  <2>5. AloneInSystem' /\ Followed'
    BY <2>2, <2>3, <2>4, <1>b, <1>c, <1>d, ChangeGoesOn
  <2>6. UniqueNames'
    BY <2>1, <1>b DEF SkillInv, UniqueNames
  <2> QED
    BY <1>a, <1>b, <1>c, <2>1, <2>2, <2>3, <2>5, <2>6, SystemFrame
<1>2. CASE written
  <2>1. system' = [system EXCEPT ![n] = new] /\ SK!Goto(r, "system_replace")
    BY <1>2 DEF SK!UpdateSystem
  <2>2. /\ Moves(r) /\ calls'[r].pc = "system_replace" /\ calls'[r].name = calls[r].name
        /\ calls'[r].doc = calls[r].doc /\ calls'[r].id = n
    BY <2>1, <1>a, GotoMoves
  <2>3. CallShape(calls'[r]) /\ Sys(calls'[r]) /\ ~Up(calls'[r])
    BY <2>2, <1>c DEF CallShape, Moves, Sys, Up, SK!SystemPcs
  <2>4. new # SK!NoRow /\ SystemShape(new) /\ new.name = name /\ system[n] # SK!NoRow
    BY <1>2, <1>c DEF SK!NoRow, SystemShape
  <2>5. \A id \in SK!Ids : id # n /\ system[id] # SK!NoRow => system[id].name # name
    <3>1. new.name \notin SK!SystemNames(n)
      BY <1>2
    <3> HIDE DEF n, new
    <3> QED
      BY <3>1, <2>4 DEF SK!SystemNames
  <2>6. /\ DOMAIN system' = SK!Ids /\ system'[n] = new
        /\ \A id \in SK!Ids : id # n => system'[id] = system[id]
    <3> HIDE DEF new, n
    <3> QED
      BY <2>1, <1>a, <1>c
  <2>7. \A id \in SK!Ids : system'[id] = SK!NoRow \/ SystemShape(system'[id])
    <3> HIDE DEF new, n
    <3> QED
      BY <2>4, <2>6, <1>a
  <2>8. UniqueNames'
    <3> HIDE DEF new, n, name
    <3> QED
      BY <2>4, <2>5, <2>6, <1>b, <1>c DEF SkillInv, UniqueNames
  <2>9. ASSUME 0 \notin overlap PROVE Owed(calls[r])'
    <3>1. ASSUME NEW id \in SK!Ids, id # n
          PROVE  Registered(id)' /\ NotNamed(calls[r].name, id)
      <4>1. system'[id] = system[id] /\ Registered(id)
        BY <3>1, <2>6, <2>9, <1>d DEF InStep
      <4>2. system[id] # SK!NoRow => system[id].name # system[n].name
        BY <3>1, <2>4, <1>c DEF SkillInv, UniqueNames
      <4> QED
        BY <4>1, <4>2, <2>9, <1>b, <1>d DEF Registered, NotNamed
    <3>2. \A id \in SK!Ids : id # n => (system'[id] # SK!NoRow
          => system'[id].name # calls[r].name)
      BY <3>1, <2>6 DEF NotNamed
    <3>3. system'[n] = [name |-> SK!PersonalName(calls[r].doc), doc |-> calls[r].doc]
      BY <2>6
    <3>4. ASSUME NEW m \in SK!Names, m # calls[r].name PROVE Matched(m)'
      <4>1. Matched(m)
        BY <2>9, <1>d DEF InStep
      <4>2. \A id \in SK!Ids : system[id] # SK!NoRow /\ system[id].name = m
                                 => system'[id] = system[id]
        BY <3>4, <2>6, <2>9, <1>d
      <4> QED
        BY <4>1, <4>2, <1>b DEF Matched
    <3> QED
      BY <3>1, <3>2, <3>3, <3>4, <2>2 DEF Owed, NotNamed
  <2>10. AloneInSystem' /\ Followed'
    BY <2>2, <2>3, <2>9, <1>b, <1>c, ChangeGoesOn
  <2> QED
    BY <1>a, <1>b, <1>c, <2>2, <2>3, <2>6, <2>7, <2>8, <2>10, SystemFrame
<1> QED
  BY <1>1, <1>2

\* The row of a system skill is deleted.
LEMMA ChangeDeletes == ASSUME SkillInv, NEW r \in Requests, SK!DeleteSystem(r)
  PROVE SkillInv'
<1> DEFINE n == calls[r].id
<1>a. /\ DOMAIN calls = Requests /\ DOMAIN calls[r] = CallFields /\ SkillTyped
      /\ CallShape(calls[r]) /\ nextSkill \in [store : Nat, system : Nat, personal : Nat]
      /\ DOMAIN system = SK!Ids /\ DOMAIN registry = SK!Names
      /\ \A id \in SK!Ids : system[id] = SK!NoRow \/ SystemShape(system[id])
  BY DEF SkillInv, SkillTyped, TablesTyped, CallShape
<1>b. /\ calls[r].pc = "system_delete" /\ rows' = rows /\ docs' = docs /\ registry' = registry
      /\ overlap' = overlap /\ torn' = torn /\ failed' = failed /\ boots' = boots
      /\ nextSkill' = nextSkill
      /\ system' = [system EXCEPT ![n] = SK!NoRow] /\ SK!Goto(r, "system_unregister")
  BY DEF SK!DeleteSystem, SK!At, SK!store, SK!bounds, SK!history
<1>c. Sys(calls[r]) /\ ~Up(calls[r]) /\ n \in SK!Ids
  BY <1>a, <1>b DEF CallShape, Sys, Up, SK!SystemPcs
<1>d. 0 \notin overlap =>
        /\ InStep
        /\ system[n] # SK!NoRow /\ system[n].name = calls[r].name
  BY <1>b, <1>c DEF SkillInv, Followed, Owed
<1>1. Moves(r) /\ calls'[r].pc = "system_unregister" /\ calls'[r].name = calls[r].name
  BY <1>a, <1>b, GotoMoves
<1>2. CallShape(calls'[r]) /\ Sys(calls'[r]) /\ ~Up(calls'[r])
  BY <1>1 DEF CallShape, Moves, Sys, Up, SK!SystemPcs
<1> HIDE DEF n
<1>3. /\ DOMAIN system' = SK!Ids /\ system'[n] = SK!NoRow
      /\ \A id \in SK!Ids : id # n => system'[id] = system[id]
  BY <1>a, <1>b, <1>c
<1>4. \A id \in SK!Ids : system'[id] = SK!NoRow \/ SystemShape(system'[id])
  BY <1>a, <1>3
<1>5. UniqueNames'
  BY <1>3, <1>b DEF SkillInv, UniqueNames
<1>6. ASSUME 0 \notin overlap PROVE Owed(calls[r])'
  <2>1. ASSUME NEW id \in SK!Ids, system'[id] # SK!NoRow
        PROVE  /\ registry'[system'[id].name].doc = system'[id].doc
               /\ registry'[system'[id].name].content \in SK!OfSystem
               /\ system'[id].name # calls[r].name
    <3>1. id # n /\ system'[id] = system[id] /\ system[id] # SK!NoRow
      BY <2>1, <1>3
    <3>2. Registered(id) /\ system[id].name # system[n].name
      BY <3>1, <1>c, <1>d, <1>6 DEF SkillInv, UniqueNames, InStep
    <3> QED
      BY <3>1, <3>2, <1>b, <1>d, <1>6 DEF Registered
  <2>2. ASSUME NEW m \in SK!Names, m # calls[r].name PROVE Matched(m)'
    <3>1. Matched(m)
      BY <1>6, <1>d DEF InStep
    <3>2. \A id \in SK!Ids : system[id] # SK!NoRow /\ system[id].name = m
                               => system'[id] = system[id]
      BY <2>2, <1>3, <1>6, <1>d
    <3> QED
      BY <3>1, <3>2, <1>b DEF Matched
  <2> QED
    BY <2>1, <2>2, <1>1 DEF Owed, Registered, NotNamed
<1>7. AloneInSystem' /\ Followed'
  BY <1>1, <1>2, <1>6, <1>b, <1>c, ChangeGoesOn
<1> QED
  BY <1>a, <1>b, <1>c, <1>1, <1>2, <1>3, <1>4, <1>5, <1>7, SystemFrame

-----------------------------------------------------------------------------
(* A start of the process, and the theorems.                               *)

\* It fills the registry from the tables, and no call is under way.
LEMMA SkillBoot == ASSUME SkillInv, SK!Boot PROVE SkillInv'
<1>1. /\ rows' = rows /\ docs' = docs /\ system' = system /\ nextSkill' = nextSkill
      /\ overlap' = overlap \ {0} /\ failed' = failed /\ boots' = boots + 1
      /\ torn' = torn \cup {calls[r].id : r \in {q \in Requests : Filing(calls[q])}}
      /\ calls' = [r \in Requests |-> SK!Idle]
  BY DEF SK!Boot, SK!store, SK!Filing, Filing
<1>2. /\ DOMAIN calls' = Requests
      /\ \A r \in Requests : DOMAIN calls'[r] = CallFields /\ calls'[r].pc = "idle"
  BY <1>1 DEF SK!Idle, CallFields
<1>3. \A r \in Requests : /\ CallShape(calls'[r]) /\ ~Up(calls'[r]) /\ ~Sys(calls'[r])
                          /\ ~Filing(calls'[r])
  BY <1>2 DEF CallShape, Up, Sys, Filing, SK!SystemPcs
<1>4. DOMAIN registry' = SK!Names
  BY DEF SK!Boot
<1>5. boots \in Nat
  BY <1>1 DEF SkillInv, SkillTyped, TablesTyped
<1>6. SkillTyped'
  BY <1>1, <1>2, <1>3, <1>4, <1>5 DEF SkillInv, SkillTyped, TablesTyped
<1>7. ASSUME NEW id \in SK!Ids, system[id] # SK!NoRow
      PROVE  registry'[system[id].name] = SK!Skill(system[id].doc, "row")
  <2> DEFINE n == system[id].name
             sys == {i \in SK!Ids : system[i] # SK!NoRow /\ system[i].name = n}
  <2>1. n \in SK!Names
    BY <1>7 DEF SkillInv, SkillTyped, TablesTyped, SystemShape
  <2>2. sys = {id}
    BY <1>7 DEF SkillInv, UniqueNames
  <2>3. registry'[n] = IF sys # {} THEN SK!Skill(system[CHOOSE i \in sys : TRUE].doc, "row")
                       ELSE registry'[n]
    <3> HIDE DEF n
    <3> QED
      BY <2>1 DEF SK!Boot
  <2>4. (CHOOSE i \in sys : TRUE) = id
    <3> HIDE DEF sys
    <3> QED
      BY <2>2
  <2> HIDE DEF sys
  <2> QED
    BY <2>2, <2>3, <2>4
<1>8. ASSUME NEW n \in SK!Names, registry'[n].content \in SK!OfSystem
      PROVE  \E id \in SK!Ids : system[id] # SK!NoRow /\ system[id].name = n
  <2> SUFFICES ASSUME ~\E id \in SK!Ids : system[id] # SK!NoRow /\ system[id].name = n
               PROVE  FALSE
    OBVIOUS
  <2>1. {i \in SK!Ids : system[i] # SK!NoRow /\ system[i].name = n} = {}
    OBVIOUS
  <2>2. \/ \E doc : registry'[n] = SK!Skill(doc, "file")
        \/ registry'[n] \in {SK!Code, SK!Absent}
    BY <2>1 DEF SK!Boot
  <2>3. /\ \A doc : SK!Skill(doc, "file").content = "file"
        /\ SK!Code.content = "code" /\ SK!Absent.content = "none"
    BY DEF SK!Skill, SK!Code, SK!Absent
  <2> QED
    BY <2>2, <2>3, <1>8 DEF SK!OfSystem
<1>9. InStep'
  <2>1. \A doc : SK!Skill(doc, "row").doc = doc /\ SK!Skill(doc, "row").content \in SK!OfSystem
    BY DEF SK!Skill, SK!OfSystem
  <2>2. \A id \in SK!Ids : Registered(id)'
    BY <2>1, <1>1, <1>7 DEF Registered
  <2> QED
    BY <2>2, <1>1, <1>8 DEF InStep, Matched
<1>10. Fresh' /\ Alone' /\ UniqueNames' /\ AloneInSystem'
  BY <1>1, <1>3 DEF SkillInv, Fresh, Alone, UniqueNames, AloneInSystem
<1>11. Uploaded'
  <2> SUFFICES ASSUME NEW id \in SK!Ids \ overlap', rows[id] # SK!NoRow
               PROVE  id \in torn' \/ docs[id].main = rows[id].doc
    BY <1>1, <1>3 DEF Uploaded
  <2>1. id \notin overlap
    BY <1>1 DEF SK!Ids
  <2> QED
    BY <2>1, <1>1 DEF SkillInv, Uploaded
<1>12. Followed'
  BY <1>3, <1>9 DEF Followed, Sys
<1> QED
  BY <1>6, <1>10, <1>11, <1>12 DEF SkillInv

\* It holds of empty tables.
LEMMA SkillInit == ASSUME MaxSkills \in Nat PROVE SK!Init => SkillInv
<1> SUFFICES ASSUME SK!Init PROVE SkillInv
  OBVIOUS
<1>1. /\ DOMAIN calls = Requests
      /\ \A r \in Requests : DOMAIN calls[r] = CallFields /\ calls[r].pc = "idle"
  BY DEF SK!Init, SK!Idle, CallFields
<1>2. \A r \in Requests : CallShape(calls[r]) /\ ~Up(calls[r]) /\ ~Sys(calls[r])
  BY <1>1 DEF CallShape, Up, Sys, SK!SystemPcs
<1>3. /\ rows = [id \in SK!Ids |-> SK!NoRow] /\ system = [id \in SK!Ids |-> SK!NoRow]
      /\ DOMAIN docs = SK!Ids /\ (\A id \in SK!Ids : docs[id] = SK!NoFiles)
      /\ nextSkill \in [store : Nat, system : Nat, personal : Nat]
      /\ DOMAIN registry = SK!Names /\ failed = 0 /\ boots = 0
      /\ \A n \in SK!Names : registry[n] \in {SK!Code, SK!Absent}
  BY DEF SK!Init
<1>4. FileShape(SK!NoFiles)
  BY DEF FileShape, SK!NoFiles
<1>5. SkillTyped
  BY <1>1, <1>2, <1>3, <1>4 DEF SkillTyped, TablesTyped
<1>6. InStep
  BY <1>3 DEF InStep, Registered, Matched, SK!Code, SK!Absent, SK!Skill, SK!OfSystem
<1> QED
  BY <1>2, <1>3, <1>5, <1>6 DEF SkillInv, Fresh, Alone, Uploaded, UniqueNames, AloneInSystem,
     Followed

\* No step breaks the invariant.
LEMMA SkillKept == ASSUME SkillInv, [SK!Next]_(SK!vars) PROVE SkillInv'
<1>a. SkillTyped
  BY DEF SkillInv
<1>1. ASSUME NEW r \in Requests, SK!CreateStep(r) PROVE SkillInv'
  <2>1. CASE SK!CreateEndpoint(r) \/ SK!CreateFind(r) \/ SK!KeywordsDone(r)
    BY <1>a, <2>1, QuietUploads, QuietKeeps
  <2> QED
    BY <1>1, <2>1, SkillCreateRow, SkillSaveFile, SkillKeywords DEF SK!CreateStep
<1>2. ASSUME NEW r \in Requests, SK!SkillStep(r) PROVE SkillInv'
  <2>1. CASE \/ SK!DeleteEndpoint(r) \/ SK!AddTagEndpoint(r) \/ SK!RemoveTagEndpoint(r)
             \/ SK!AddTag(r) \/ SK!RemoveTag(r)
    BY <1>a, <2>1, QuietUploads, QuietKeeps
  <2> QED
    BY <1>2, <2>1, SkillUpdateEndpoint, SkillUpdateRow, SkillChanges DEF SK!SkillStep
<1>3. ASSUME NEW r \in Requests, SK!ImportStep(r) PROVE SkillInv'
  BY <1>a, <1>3, QuietImports, QuietKeeps, SkillChanges DEF SK!ImportStep
<1>4. ASSUME NEW r \in Requests, SK!SystemStep(r) PROVE SkillInv'
  BY <1>4, ChangeBegins, ChangeInserts, ChangeEnds, ChangeUpdates, ChangeDeletes DEF SK!SystemStep
<1>5. ASSUME NEW r \in Requests, SK!PersonalStep(r) PROVE SkillInv'
  BY <1>a, <1>5, QuietPersonal, QuietKeeps DEF SK!PersonalStep
<1>6. ASSUME NEW r \in Requests, SK!DbError(r) PROVE SkillInv'
  BY <1>6, SkillDbError
<1>7. CASE SK!Boot
  BY <1>7, SkillBoot
<1>8. CASE UNCHANGED SK!vars
  <2>1. /\ rows' = rows /\ docs' = docs /\ nextSkill' = nextSkill /\ system' = system
        /\ registry' = registry /\ calls' = calls /\ failed' = failed /\ boots' = boots
        /\ overlap' = overlap /\ torn' = torn
    BY <1>8 DEF SK!vars
  <2> QED
    BY <2>1 DEF SkillInv, SkillTyped, TablesTyped, Fresh, Alone, Uploaded, UniqueNames,
                AloneInSystem, Followed, InStep, Owed, Registered, Matched, NotNamed
<1> QED
  BY <1>1, <1>2, <1>3, <1>4, <1>5, <1>6, <1>7, <1>8 DEF SK!Next

\* However uploads, imports, deletions, failed statements and starts of the process
\* interleave: once no upload of a skill is under way, its SKILL.md in skill_files, which
\* the agents load, is the text of its row, which the search reads. Two kinds of skill are
\* excepted: one that two uploads wrote at once, ever after, and one whose last upload
\* ended between the two statements, until an upload of it comes through.
THEOREM UploadsAlwaysMatch ==
  ASSUME MaxSkills \in Nat PROVE SK!Spec => []PrimaryMatches
<1>1. SkillInv /\ [SK!Next]_(SK!vars) => SkillInv'
  BY SkillKept
<1>2. SkillInv => PrimaryMatches
  BY UploadsImply DEF SkillInv, PrimaryMatches
<1> QED
  BY SkillInit, <1>1, <1>2, PTL DEF SK!Spec

\* Whatever the order of creations, renamings, deletions, failed statements and starts of
\* the process: between two changes the registry has each system skill of the table, made
\* of its row's document, and no system skill the table does not have. From the moment two
\* changes overlap, or one ends with its row written and the registry not told, until the
\* next start, nothing is claimed.
THEOREM RegistryAlwaysFollows ==
  ASSUME MaxSkills \in Nat PROVE SK!Spec => []RegistryFollowsTable
<1>1. SkillInv /\ [SK!Next]_(SK!vars) => SkillInv'
  BY SkillKept
<1>2. SkillInv => RegistryFollowsTable
  BY FollowedImplies DEF SkillInv, RegistryFollowsTable
<1> QED
  BY SkillInit, <1>1, <1>2, PTL DEF SK!Spec

-----------------------------------------------------------------------------
(* Sequences in which nothing comes twice.                                 *)

Rng(s) == {s[i] : i \in 1..Len(s)}

Distinct(s) == \A i, j \in 1..Len(s) : s[i] = s[j] => i = j

\* One at the end.
LEMMA AppendDistinct ==
  ASSUME NEW S, NEW s \in Seq(S), NEW m \in S
  PROVE  /\ Append(s, m) \in Seq(S) /\ Rng(Append(s, m)) = Rng(s) \cup {m}
         /\ Distinct(s) /\ m \notin Rng(s) => Distinct(Append(s, m))
<1>1. Len(Append(s, m)) = Len(s) + 1 /\ Len(s) \in Nat
  OBVIOUS
<1>2. \A i \in 1..Len(s) : Append(s, m)[i] = s[i]
  OBVIOUS
<1>3. Append(s, m)[Len(s) + 1] = m
  OBVIOUS
<1>4. Rng(Append(s, m)) = Rng(s) \cup {m}
  BY <1>1, <1>2, <1>3 DEF Rng
<1>5. Distinct(s) /\ m \notin Rng(s) => Distinct(Append(s, m))
  BY <1>1, <1>2, <1>3 DEF Rng, Distinct
<1> QED
  BY <1>4, <1>5

\* The first one taken away.
LEMMA TailDistinct ==
  ASSUME NEW S, NEW s \in Seq(S), s # <<>>
  PROVE  /\ Tail(s) \in Seq(S) /\ Head(s) \in S /\ Head(s) \in Rng(s)
         /\ Distinct(s) => Distinct(Tail(s)) /\ Rng(Tail(s)) = Rng(s) \ {Head(s)}
<1>1. /\ Len(s) \in Nat \ {0} /\ Len(Tail(s)) = Len(s) - 1 /\ Head(s) = s[1]
      /\ Tail(s) \in Seq(S) /\ Head(s) \in S
  OBVIOUS
<1>2. \A i \in 1..Len(Tail(s)) : Tail(s)[i] = s[i + 1]
  OBVIOUS
<1>3. Head(s) \in Rng(s)
  BY <1>1 DEF Rng
<1>4. ASSUME Distinct(s) PROVE Distinct(Tail(s)) /\ Rng(Tail(s)) = Rng(s) \ {Head(s)}
  <2>1. Distinct(Tail(s))
    BY <1>1, <1>2, <1>4 DEF Distinct
  <2>2. \A x \in Rng(Tail(s)) : x \in Rng(s) /\ x # Head(s)
    BY <1>1, <1>2, <1>4 DEF Rng, Distinct
  <2>3. ASSUME NEW x \in Rng(s), x # Head(s) PROVE x \in Rng(Tail(s))
    <3>1. PICK i \in 1..Len(s) : s[i] = x
      BY DEF Rng
    <3>2. i - 1 \in 1..Len(Tail(s)) /\ Tail(s)[i - 1] = x
      BY <3>1, <2>3, <1>1, <1>2
    <3> QED
      BY <3>2 DEF Rng
  <2> QED
    BY <2>1, <2>2, <2>3
<1> QED
  BY <1>1, <1>3, <1>4

-----------------------------------------------------------------------------
(* The log and alert services: the inductive invariant.                    *)

Fates == {"ignored", "suppressed", "accepted", "dropped", "file", "written", "failed",
          "timed_out", "broken_off"}

ServiceTyped ==
  /\ service \in {"log", "alert"} /\ running \in BOOLEAN
  /\ stop \in {"up", "drain", "cancel", "down"} /\ worker \in {"none", "get", "write"}
  /\ queue \in Seq(Nat) /\ held \in [worker : Nat, stop : Nat]
  /\ Len(sent) = Len(fate) /\ Len(fate) \in Nat /\ DOMAIN fate = 1..Len(fate)

\* Where the worker and stop() stand, and what they hold.
Stage ==
  /\ running <=> stop = "up"
  /\ worker = "write" <=> held.worker # 0
  /\ held.stop # 0 => stop = "drain"
  /\ stop \in {"cancel", "down"} => queue = <<>>
  /\ stop = "down" => worker = "none"

\* An accepted item is in one place.
Placed ==
  /\ Distinct(queue) /\ Rng(queue) \subseteq 1..Len(fate)
  /\ held.worker \in 0..Len(fate) /\ held.stop \in 0..Len(fate)
  /\ held.worker \notin Rng(queue) /\ held.stop \notin Rng(queue)
  /\ held.worker = held.stop => held.worker = 0
  /\ \A i \in 1..Len(fate) :
       fate[i] = "accepted" <=> i \in Rng(queue) \/ i = held.worker \/ i = held.stop

ServiceInv == ServiceTyped /\ Stage /\ Placed

\* It implies what the runs check.
LEMMA ServiceInvImplies == ServiceInv => OB!AcceptedIsHeld
<1> SUFFICES ASSUME ServiceInv, NEW i \in DOMAIN fate
             PROVE  LET places == (IF i \in OB!ToSet(queue) THEN 1 ELSE 0)
                           + (IF held.worker = i THEN 1 ELSE 0) + (IF held.stop = i THEN 1 ELSE 0)
                    IN  places = IF fate[i] = "accepted" THEN 1 ELSE 0
  BY DEF OB!AcceptedIsHeld
<1>1. i \in 1..Len(fate) /\ i # 0
  BY DEF ServiceInv, ServiceTyped
<1>2. OB!ToSet(queue) = Rng(queue)
  BY DEF ServiceInv, ServiceTyped, OB!ToSet, Rng
<1>3. /\ fate[i] = "accepted" <=> i \in Rng(queue) \/ i = held.worker \/ i = held.stop
      /\ held.worker \notin Rng(queue) /\ held.stop \notin Rng(queue)
      /\ held.worker = held.stop => held.worker = 0
  BY <1>1 DEF ServiceInv, Placed
<1> QED
  BY <1>1, <1>2, <1>3

\* It holds before the start.
LEMMA ServiceInit == OB!Init => ServiceInv
<1> SUFFICES ASSUME OB!Init PROVE ServiceInv
  OBVIOUS
<1>1. ServiceTyped
  <2>1. queue \in Seq(Nat) /\ held \in [worker : Nat, stop : Nat]
    BY DEF OB!Init
  <2>2. Len(fate) = 0 /\ DOMAIN fate = 1..Len(fate) /\ Len(sent) = 0
    BY DEF OB!Init
  <2> QED
    BY <2>1, <2>2 DEF OB!Init, ServiceTyped
<1>2. Stage
  BY DEF OB!Init, Stage
<1>3. Placed
  <2>1. Rng(queue) = {} /\ Distinct(queue)
    BY DEF OB!Init, Rng, Distinct
  <2> QED
    BY <2>1 DEF OB!Init, Placed
<1> QED
  BY <1>1, <1>2, <1>3 DEF ServiceInv

\* An item is taken off the queue, into a hand that is free.
LEMMA Taken ==
  ASSUME ServiceInv, queue # <<>>, queue' = Tail(queue), fate' = fate,
         \/ held' = [held EXCEPT !.worker = Head(queue)] /\ held.worker = 0
         \/ held' = [held EXCEPT !.stop = Head(queue)] /\ held.stop = 0
  PROVE  /\ Placed' /\ held' \in [worker : Nat, stop : Nat] /\ queue' \in Seq(Nat)
         /\ Head(queue) # 0
<1> DEFINE h == Head(queue)
<1>1. /\ queue' \in Seq(Nat) /\ h \in Nat /\ h \in Rng(queue) /\ Distinct(queue')
      /\ Rng(queue') = Rng(queue) \ {h}
  BY TailDistinct DEF ServiceInv, ServiceTyped, Placed
<1>2. h \in 1..Len(fate) /\ h # 0
  BY <1>1 DEF ServiceInv, Placed, ServiceTyped
<1>3. held \in [worker : Nat, stop : Nat] /\ Len(fate) \in Nat
  BY DEF ServiceInv, ServiceTyped
<1> HIDE DEF h
<1>4. CASE held' = [held EXCEPT !.worker = h] /\ held.worker = 0
  <2>1. held'.worker = h /\ held'.stop = held.stop /\ held' \in [worker : Nat, stop : Nat]
    BY <1>1, <1>3, <1>4
  <2>2. Placed'
    BY <1>1, <1>2, <1>3, <1>4, <2>1 DEF ServiceInv, Placed
  <2> QED
    BY <1>1, <1>2, <2>1, <2>2 DEF h
<1>5. CASE held' = [held EXCEPT !.stop = h] /\ held.stop = 0
  <2>1. held'.stop = h /\ held'.worker = held.worker /\ held' \in [worker : Nat, stop : Nat]
    BY <1>1, <1>3, <1>5
  <2>2. Placed'
    BY <1>1, <1>2, <1>3, <1>5, <2>1 DEF ServiceInv, Placed
  <2> QED
    BY <1>1, <1>2, <2>1, <2>2 DEF h
<1> QED
  BY <1>4, <1>5 DEF h

\* An item in a hand is settled.
LEMMA Settled ==
  ASSUME ServiceInv, NEW f \in Fates, f # "accepted", queue' = queue, sent' = sent,
         \/ held.worker # 0 /\ fate' = [fate EXCEPT ![held.worker] = f]
               /\ held' = [held EXCEPT !.worker = 0]
         \/ held.stop # 0 /\ fate' = [fate EXCEPT ![held.stop] = f]
               /\ held' = [held EXCEPT !.stop = 0]
  PROVE  Placed' /\ held' \in [worker : Nat, stop : Nat] /\ Len(fate') = Len(fate)
         /\ DOMAIN fate' = 1..Len(fate')
<1>1. /\ held \in [worker : Nat, stop : Nat] /\ Len(fate) \in Nat /\ DOMAIN fate = 1..Len(fate)
  BY DEF ServiceInv, ServiceTyped
<1>2. CASE held.worker # 0 /\ fate' = [fate EXCEPT ![held.worker] = f]
           /\ held' = [held EXCEPT !.worker = 0]
  <2>1. held'.worker = 0 /\ held'.stop = held.stop /\ held' \in [worker : Nat, stop : Nat]
    BY <1>1, <1>2
  <2>2. DOMAIN fate' = 1..Len(fate) /\ Len(fate') = Len(fate)
    BY <1>1, <1>2
  <2>3. \A i \in 1..Len(fate) : fate'[i] = IF i = held.worker THEN f ELSE fate[i]
    BY <1>1, <1>2
  <2>4. Placed'
    BY <1>1, <1>2, <2>1, <2>2, <2>3 DEF ServiceInv, Placed
  <2> QED
    BY <2>1, <2>2, <2>4
<1>3. CASE held.stop # 0 /\ fate' = [fate EXCEPT ![held.stop] = f]
           /\ held' = [held EXCEPT !.stop = 0]
  <2>1. held'.stop = 0 /\ held'.worker = held.worker /\ held' \in [worker : Nat, stop : Nat]
    BY <1>1, <1>3
  <2>2. DOMAIN fate' = 1..Len(fate) /\ Len(fate') = Len(fate)
    BY <1>1, <1>3
  <2>3. \A i \in 1..Len(fate) : fate'[i] = IF i = held.stop THEN f ELSE fate[i]
    BY <1>1, <1>3
  <2>4. Placed'
    BY <1>1, <1>3, <2>1, <2>2, <2>3 DEF ServiceInv, Placed
  <2> QED
    BY <2>1, <2>2, <2>4
<1> QED
  BY <1>2, <1>3

\* An item is handed in.
LEMMA ServiceHandIn ==
  ASSUME ServiceInv, NEW critical \in BOOLEAN, NEW key \in 0..1, OB!HandIn(critical, key)
  PROVE  ServiceInv'
<1> DEFINE n == Len(fate) + 1
<1>1. PICK f \in OB!Hand(critical, key) :
        /\ fate' = Append(fate, f)
        /\ queue' = IF f = "accepted" THEN Append(queue, Len(sent) + 1) ELSE queue
  BY DEF OB!HandIn
<1>2. /\ sent' = Append(sent, key) /\ Len(sent) = Len(fate) /\ Len(fate) \in Nat
      /\ queue \in Seq(Nat) /\ DOMAIN fate = 1..Len(fate)
      /\ service' = service /\ running' = running /\ stop' = stop /\ worker' = worker
      /\ held' = held
  BY DEF OB!HandIn, ServiceInv, ServiceTyped
<1>3. /\ Len(fate') = n /\ DOMAIN fate' = 1..n /\ fate'[n] = f
      /\ \A i \in 1..Len(fate) : fate'[i] = fate[i]
  BY <1>1, <1>2
<1>4. Len(sent') = n
  BY <1>2
<1>5. f = "accepted" => running
  BY <1>1 DEF OB!Hand
<1>6. /\ Distinct(queue) /\ Rng(queue) \subseteq 1..Len(fate)
      /\ held.worker \in 0..Len(fate) /\ held.stop \in 0..Len(fate)
  BY DEF ServiceInv, Placed
<1>7. n \notin Rng(queue) /\ n # held.worker /\ n # held.stop /\ n \in Nat /\ n # 0
  BY <1>2, <1>6
<1>8. /\ queue' \in Seq(Nat) /\ Distinct(queue')
      /\ Rng(queue') = IF f = "accepted" THEN Rng(queue) \cup {n} ELSE Rng(queue)
  <2>1. CASE f = "accepted"
    <3>1. queue' = Append(queue, n)
      BY <1>1, <1>2, <2>1
    <3> HIDE DEF n
    <3> QED
      BY <3>1, <1>2, <1>6, <1>7, <2>1, AppendDistinct
  <2>2. CASE f # "accepted"
    BY <1>1, <1>2, <1>6, <2>2
  <2> QED
    BY <2>1, <2>2
<1>9. \A i \in 1..n : i \in 1..Len(fate) \/ i = n
  BY <1>2
<1>10. Placed'
  BY <1>2, <1>3, <1>6, <1>7, <1>8, <1>9 DEF ServiceInv, Placed
<1>11. ServiceTyped'
  BY <1>2, <1>3, <1>4, <1>7, <1>8 DEF ServiceInv, ServiceTyped
<1>12. Stage'
  BY <1>1, <1>2, <1>5 DEF ServiceInv, Stage
<1> QED
  BY <1>10, <1>11, <1>12 DEF ServiceInv

\* What waits in the queue longer than stop() waits is given up.
LEMMA ServiceTimeout == ASSUME ServiceInv, OB!DrainTimeout PROVE ServiceInv'
<1>1. /\ stop = "drain" /\ stop' = "cancel" /\ held' = [held EXCEPT !.stop = 0] /\ queue' = <<>>
      /\ fate' = [i \in DOMAIN fate |-> IF i \in OB!ToSet(queue) THEN "timed_out"
                                        ELSE IF i = held.stop THEN "written" ELSE fate[i]]
      /\ service' = service /\ running' = running /\ worker' = worker /\ sent' = sent
  BY DEF OB!DrainTimeout
<1>2. /\ held \in [worker : Nat, stop : Nat] /\ Len(fate) \in Nat /\ DOMAIN fate = 1..Len(fate)
      /\ OB!ToSet(queue) = Rng(queue)
  BY DEF ServiceInv, ServiceTyped, OB!ToSet, Rng
<1>3. /\ held'.worker = held.worker /\ held'.stop = 0 /\ held' \in [worker : Nat, stop : Nat]
  BY <1>1, <1>2
<1>4. /\ DOMAIN fate' = 1..Len(fate) /\ Len(fate') = Len(fate)
      /\ \A i \in 1..Len(fate) : fate'[i] = IF i \in Rng(queue) THEN "timed_out"
                                            ELSE IF i = held.stop THEN "written" ELSE fate[i]
  BY <1>1, <1>2
<1>5. Rng(queue') = {} /\ Distinct(queue') /\ queue' \in Seq(Nat)
  BY <1>1 DEF Rng, Distinct
<1>6. Placed'
  BY <1>2, <1>3, <1>4, <1>5 DEF ServiceInv, Placed
<1>7. ServiceTyped'
  BY <1>1, <1>2, <1>3, <1>4, <1>5 DEF ServiceInv, ServiceTyped
<1>8. Stage'
  BY <1>1, <1>3 DEF ServiceInv, Stage
<1> QED
  BY <1>6, <1>7, <1>8 DEF ServiceInv

\* No step loses an item or puts it in two places.
LEMMA ServiceKept == ASSUME ServiceInv, [OB!Next]_(OB!vars) PROVE ServiceInv'
<1>a. /\ held \in [worker : Nat, stop : Nat] /\ Len(fate) \in Nat /\ DOMAIN fate = 1..Len(fate)
      /\ Rng(<<>>) = {} /\ Distinct(<<>>)
  BY DEF ServiceInv, ServiceTyped, Rng, Distinct
<1>1. CASE OB!Start
  <2>1. queue = <<>>
    BY <1>1 DEF OB!Start, ServiceInv, Stage
  <2>2. Placed'
    BY <1>1, <2>1 DEF OB!Start, ServiceInv, Placed
  <2>3. ServiceTyped'
    BY <1>1, <2>1 DEF OB!Start, ServiceInv, ServiceTyped
  <2>4. Stage'
    BY <1>1 DEF OB!Start, ServiceInv, Stage
  <2> QED
    BY <2>2, <2>3, <2>4 DEF ServiceInv
<1>2. CASE OB!Get
  <2>1. held.worker = 0
    BY <1>2 DEF OB!Get, ServiceInv, Stage
  <2>2. /\ Placed' /\ held' \in [worker : Nat, stop : Nat] /\ queue' \in Seq(Nat)
        /\ Head(queue) # 0
    BY <1>2, <2>1, Taken DEF OB!Get, OB!Rest
  <2>3. ServiceTyped'
    BY <1>2, <2>2 DEF OB!Get, ServiceInv, ServiceTyped
  <2>4. held'.worker = Head(queue) /\ held'.stop = held.stop
    BY <1>2, <1>a DEF OB!Get
  <2>5. Stage'
    BY <1>2, <2>2, <2>4 DEF OB!Get, ServiceInv, Stage
  <2> QED
    BY <2>2, <2>3, <2>5 DEF ServiceInv
<1>3. CASE OB!Written
  <2>1. held.worker # 0
    BY <1>3 DEF OB!Written, ServiceInv, Stage
  <2>2. PICK f \in {"written", "failed"} : fate' = [fate EXCEPT ![held.worker] = f]
    BY <1>3 DEF OB!Written
  <2>3. f \in Fates /\ f # "accepted"
    BY DEF Fates
  <2>4. /\ Placed' /\ held' \in [worker : Nat, stop : Nat] /\ Len(fate') = Len(fate)
        /\ DOMAIN fate' = 1..Len(fate')
    BY <1>3, <2>1, <2>2, <2>3, Settled DEF OB!Written
  <2>5. held'.worker = 0 /\ held'.stop = held.stop
    BY <1>3, <1>a DEF OB!Written
  <2>6. ServiceTyped'
    BY <1>3, <1>a, <2>4 DEF OB!Written, ServiceInv, ServiceTyped
  <2>7. Stage'
    BY <1>3, <2>5 DEF OB!Written, ServiceInv, Stage
  <2> QED
    BY <2>4, <2>6, <2>7 DEF ServiceInv
<1>4. CASE OB!BeginStop
  <2>1. Placed'
    BY <1>4 DEF OB!BeginStop, ServiceInv, Placed
  <2>2. ServiceTyped'
    BY <1>4 DEF OB!BeginStop, ServiceInv, ServiceTyped
  <2>3. Stage'
    BY <1>4 DEF OB!BeginStop, ServiceInv, Stage
  <2> QED
    BY <2>1, <2>2, <2>3 DEF ServiceInv
<1>5. ASSUME NEW critical \in BOOLEAN, NEW key \in 0..1, OB!HandIn(critical, key)
      PROVE  ServiceInv'
  BY <1>5, ServiceHandIn
<1>6. CASE OB!Forget(1)
  BY <1>6 DEF OB!Forget, ServiceInv, ServiceTyped, Stage, Placed
<1>7. CASE OB!Drain
  <2>1. /\ Placed' /\ held' \in [worker : Nat, stop : Nat] /\ queue' \in Seq(Nat)
        /\ Head(queue) # 0
    BY <1>7, Taken DEF OB!Drain, OB!Rest
  <2>2. ServiceTyped'
    BY <1>7, <2>1 DEF OB!Drain, ServiceInv, ServiceTyped
  <2>3. held'.worker = held.worker /\ held'.stop = Head(queue)
    BY <1>7, <1>a DEF OB!Drain
  <2>4. Stage'
    BY <1>7, <2>1, <2>3 DEF OB!Drain, ServiceInv, Stage
  <2> QED
    BY <2>1, <2>2, <2>4 DEF ServiceInv
<1>8. CASE OB!DrainWritten
  <2>1. PICK f \in {"written", "failed"} : fate' = [fate EXCEPT ![held.stop] = f]
    BY <1>8 DEF OB!DrainWritten
  <2>2. f \in Fates /\ f # "accepted"
    BY DEF Fates
  <2>3. /\ Placed' /\ held' \in [worker : Nat, stop : Nat] /\ Len(fate') = Len(fate)
        /\ DOMAIN fate' = 1..Len(fate')
    BY <1>8, <2>1, <2>2, Settled DEF OB!DrainWritten
  <2>4. held'.worker = held.worker /\ held'.stop = 0
    BY <1>8, <1>a DEF OB!DrainWritten
  <2>5. ServiceTyped'
    BY <1>8, <1>a, <2>3 DEF OB!DrainWritten, ServiceInv, ServiceTyped
  <2>6. Stage'
    BY <1>8, <2>4 DEF OB!DrainWritten, ServiceInv, Stage
  <2> QED
    BY <2>3, <2>5, <2>6 DEF ServiceInv
<1>9. CASE OB!DrainDone
  <2>1. Placed'
    BY <1>9 DEF OB!DrainDone, ServiceInv, Placed
  <2>2. ServiceTyped'
    BY <1>9 DEF OB!DrainDone, ServiceInv, ServiceTyped
  <2>3. Stage'
    BY <1>9 DEF OB!DrainDone, ServiceInv, Stage
  <2> QED
    BY <2>1, <2>2, <2>3 DEF ServiceInv
<1>10. CASE OB!DrainTimeout
  BY <1>10, ServiceTimeout
<1>11. CASE OB!Cancel
  <2>1. queue = <<>> /\ queue' = <<>> /\ queue' = queue /\ held.stop = 0
    BY <1>11 DEF OB!Cancel, ServiceInv, Stage
  <2>2. /\ held'.worker = 0 /\ held'.stop = held.stop /\ held' \in [worker : Nat, stop : Nat]
        /\ held' = [held EXCEPT !.worker = 0]
    BY <1>11, <1>a DEF OB!Cancel
  <2>3. Placed' /\ Len(fate') = Len(fate) /\ DOMAIN fate' = 1..Len(fate')
    <3>1. CASE held.worker = 0
      BY <3>1, <1>11, <2>1, <2>2, <1>a DEF OB!Cancel, ServiceInv, Placed
    <3>2. CASE held.worker # 0
      <4> DEFINE f == IF service = "log" THEN "written" ELSE "broken_off"
      <4>1. f \in Fates /\ f # "accepted"
        BY DEF Fates
      <4>2. fate' = [fate EXCEPT ![held.worker] = f] /\ sent' = sent
        BY <3>2, <1>11 DEF OB!Cancel
      <4> HIDE DEF f
      <4> QED
        BY <4>1, <4>2, <3>2, <2>1, <2>2, Settled
    <3> QED
      BY <3>1, <3>2
  <2>4. ServiceTyped'
    BY <1>11, <1>a, <2>1, <2>2, <2>3 DEF OB!Cancel, ServiceInv, ServiceTyped
  <2>5. Stage'
    BY <1>11, <2>1, <2>2 DEF OB!Cancel, ServiceInv, Stage
  <2> QED
    BY <2>3, <2>4, <2>5 DEF ServiceInv
<1>12. CASE UNCHANGED OB!vars
  BY <1>12 DEF OB!vars, ServiceInv, ServiceTyped, Stage, Placed
<1> QED
  BY <1>1, <1>2, <1>3, <1>4, <1>5, <1>6, <1>7, <1>8, <1>9, <1>10, <1>11, <1>12 DEF OB!Next

\* Whenever stop() gives up, the worker is cancelled or the service starts again:
\* an item that was accepted is in the queue, in one hand, or settled.
THEOREM AcceptedAlwaysHeld == OB!Spec => []AcceptedIsHeld
<1>1. ServiceInv /\ [OB!Next]_(OB!vars) => ServiceInv'
  BY ServiceKept
<1>2. ServiceInv => AcceptedIsHeld
  BY ServiceInvImplies DEF AcceptedIsHeld
<1> QED
  BY ServiceInit, <1>1, <1>2, PTL DEF OB!Spec

-----------------------------------------------------------------------------
(* The connection pool.                                                    *)

\* The pool with what is proved of it.
Pool == INSTANCE ConnectionPoolProofs WITH pc <- at, reply <- told, begun <- txns

\* It counts as the platform's pool does.
LEMMA SameCount == \A S : CP!Cardinality(S) = Pool!Cardinality(S)
BY DEF CP!Cardinality, Pool!Cardinality

\* It has the same connections, and so has each of its callers.
LEMMA SameConnections ==
  /\ CP!Pool = Pool!Pool /\ CP!Connection = Pool!Connection /\ CP!Writes = Pool!Writes
  /\ CP!NoConnection = Pool!NoConnection /\ CP!Used = Pool!Used
  /\ \A c : CP!NextWrite(c) = Pool!NextWrite(c)
  BY SameCount DEF CP!Pool, Pool!Pool, CP!Connection, Pool!Connection, CP!Writes, Pool!Writes,
     CP!NoConnection, Pool!NoConnection, CP!Used, Pool!Used, CP!NextWrite, Pool!NextWrite,
     CP!Written, Pool!Written

\* Its steps are those of the platform's pool.
LEMMA SameStep == CP!Next => Pool!Next
<1>1. CP!StartUp => Pool!StartUp
  BY SameConnections DEF CP!StartUp, Pool!StartUp, CP!InitPools, Pool!InitPools
<1>2. CP!ClosePools => Pool!ClosePools
  BY SameConnections DEF CP!ClosePools, Pool!ClosePools
<1>3. CP!WaitClosed => Pool!WaitClosed
  BY SameConnections DEF CP!WaitClosed, Pool!WaitClosed
<1>4. \A c, k : CP!Call(c, k) => Pool!Call(c, k)
  BY SameConnections DEF CP!Call, Pool!Call, CP!Goto, Pool!Goto, CP!PoolFrame, Pool!PoolFrame
<1>5. \A c : CP!InitOnDemand(c) => Pool!InitOnDemand(c)
  BY SameConnections DEF CP!InitOnDemand, Pool!InitOnDemand, CP!Goto, Pool!Goto, CP!PoolFrame,
     Pool!PoolFrame, CP!InitPools, Pool!InitPools
<1>6. \A c : CP!Acquire(c) => Pool!Acquire(c)
  BY SameConnections DEF CP!Acquire, Pool!Acquire, CP!Goto, Pool!Goto, CP!PoolFrame,
     Pool!PoolFrame
<1>7. \A c : CP!BeginTransaction(c) => Pool!BeginTransaction(c)
  BY SameConnections DEF CP!BeginTransaction, Pool!BeginTransaction, CP!Goto, Pool!Goto,
     CP!PoolFrame, Pool!PoolFrame, CP!Begin, Pool!Begin
<1>8. \A c : CP!Execute(c) => Pool!Execute(c)
  BY SameConnections DEF CP!Execute, Pool!Execute, CP!PoolFrame, Pool!PoolFrame
<1>9. \A c : CP!Commit(c) => Pool!Commit(c)
  BY SameConnections DEF CP!Commit, Pool!Commit, CP!Goto, Pool!Goto, CP!PoolFrame,
     Pool!PoolFrame, CP!Written, Pool!Written
<1>10. \A c : CP!Fails(c) => Pool!Fails(c)
  BY SameConnections DEF CP!Fails, Pool!Fails, CP!Goto, Pool!Goto, CP!PoolFrame, Pool!PoolFrame
<1>11. \A c : CP!Rollback(c) => Pool!Rollback(c)
  BY SameConnections DEF CP!Rollback, Pool!Rollback, CP!Goto, Pool!Goto, CP!PoolFrame,
     Pool!PoolFrame
<1>12. \A c : CP!Cancelled(c) => Pool!Cancelled(c)
  BY SameConnections DEF CP!Cancelled, Pool!Cancelled, CP!Goto, Pool!Goto, CP!PoolFrame,
     Pool!PoolFrame
<1>13. \A c : CP!Release(c) => Pool!Release(c)
  BY SameConnections DEF CP!Release, Pool!Release, CP!Goto, Pool!Goto, CP!PoolFrame,
     Pool!PoolFrame
<1> QED
  BY <1>1, <1>2, <1>3, <1>4, <1>5, <1>6, <1>7, <1>8, <1>9, <1>10, <1>11, <1>12, <1>13,
     SameConnections DEF CP!Next, Pool!Next

\* Whatever fails or is cancelled, and whoever uses a connection next: of the writes of
\* a transaction, or of a single row, over the platform's pool all are committed or none.
\* A batch may be there in part, but what a caller was told is written is there to the
\* last row, of a batch too.
THEOREM PoolCommitsWhole ==
  ASSUME MaxSize \in Nat, MaxPools \in Nat PROVE CP!Spec => []CommittedWhole
<1>1. Pool!Spec => []Pool!CommittedWhole
  BY Pool!CallsCommitWhole
<1>2. Pool!CommittedWhole => CommittedWhole
  BY SameCount, SameConnections DEF Pool!CommittedWhole, CP!CommittedWhole, CommittedWhole
<1>3. CP!Init => Pool!Init
  BY SameConnections DEF CP!Init, Pool!Init
<1>4. [CP!Next]_(CP!vars) => [Pool!Next]_(Pool!vars)
  BY SameStep DEF CP!vars, Pool!vars
<1> QED
  BY <1>1, <1>2, <1>3, <1>4, PTL DEF CP!Spec, Pool!Spec
===============================================================================
