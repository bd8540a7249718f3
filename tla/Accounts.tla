------------------------------ MODULE Accounts ------------------------------
(***************************************************************************)
(* Accounts, credentials and invite codes: the endpoints of                *)
(* api/v1/endpoints/auth.py, AuthService and its repositories, and the     *)
(* authentication that precedes every request (auth/middleware.py).        *)
(*                                                                         *)
(* The pool commits every statement by itself, so an operation of the      *)
(* service is a sequence of statements with other requests between them:   *)
(* each action below is one statement, or one synchronous stretch of code. *)
(* What a request read earlier stays in its own record and may be stale.   *)
(* A statement may fail (DbError): only register undoes anything then.     *)
(* Hashes, e-mail syntax, expiry dates and pages are left out: a password  *)
(* is a value, an address is allowed or not, a lock is on or has expired.  *)
(***************************************************************************)
EXTENDS Naturals, FiniteSets

CONSTANTS
    Requests,       \* request handlers that run at the same time
    Users,          \* user names; those of the initial accounts among them
    Mails,          \* e-mail addresses
    AllowedMails,   \* those whose domain is in allowed_email_domains
    Codes,          \* invite codes that may ever be created
    Passwords,
    RegistrationForms,  \* what is submitted: [name, mail, pw]
    FirstAccounts,  \* accounts at start: a function from ids to rows
    MaxAccounts,    \* bound: accounts ever created
    MaxStarts,      \* bound: requests ever received
    MaxFaults,      \* bound: statements that fail
    MaxFailures,    \* AuthConfig.login_max_failures
    RequireInvite,  \* AuthConfig.registration_require_invite
    NoCode          \* no invite code was given

ASSUME AccountsBounds == /\ MaxAccounts \in Nat /\ MaxStarts \in Nat
                         /\ MaxFaults \in Nat /\ MaxFailures \in Nat \ {0}
                         /\ RequireInvite \in BOOLEAN
                         /\ NoCode \notin Codes

VARIABLES
    accounts,   \* table accounts: id -> row, or NoAccount
    nextId,     \* its AUTO_INCREMENT
    access,     \* table access_tokens: [acct, n]
    refresh,    \* table refresh_tokens: [acct, n]
    nextToken,  \* numbers the tokens that generate_token draws
    codes,      \* table invite_codes: code -> row
    failures,   \* table account_login_failures: id -> row, count 0 when absent
    files,      \* avatar files on disk: [acct, part]
    req,        \* request -> what its handler holds
    starts,     \* requests received so far
    faults      \* statements that failed so far

tables == <<accounts, nextId, codes, failures, files>>
tokens == <<access, refresh, nextToken>>
vars == <<accounts, nextId, access, refresh, nextToken, codes, failures,
          files, req, starts, faults>>

-----------------------------------------------------------------------------
\* The rows

Ids == 1 .. MaxAccounts
Parts == {"user", "agent"}          \* AvatarRole
Roles == {"admin", "user"}
NoAccount == [name |-> "none"]
Account == [name : Users, mail : Mails, role : Roles, pw : Passwords,
            legacy : BOOLEAN, limit : Nat, code : Codes \cup {NoCode},
            avatar : [Parts -> BOOLEAN]]
Token == [acct : Ids, n : Nat]

\* The accounts at start are numbered from 1 and spent no invite code.
ASSUME FirstAccountsBounds ==
    \E n \in 0 .. MaxAccounts : /\ FirstAccounts \in [1 .. n -> Account]
                               /\ \A id \in 1 .. n : FirstAccounts[id].code = NoCode

Exists(id) == id \in Ids /\ accounts[id] # NoAccount

FindByUsername(name) == {id \in Ids : Exists(id) /\ accounts[id].name = name}
FindByEmail(mail) == {id \in Ids : Exists(id) /\ accounts[id].mail = mail}

\* generate_token draws a token nobody has.
GenerateToken(id) == [acct |-> id, n |-> nextToken]

\* What a handler knows: its statement, whose token it came with, the role read
\* by the middleware, its arguments, and the row it read.
Idle == [pc |-> "idle", acct |-> 0, role |-> "user", name |-> "none",
         mail |-> "none", code |-> NoCode, pw |-> "none", target |-> 0,
         seen |-> NoAccount, revoke |-> FALSE, part |-> "user"]

At(r, pc) == req[r].pc = pc
Goto(r, pc) == req' = [req EXCEPT ![r].pc = pc]
Done(r) == req' = [req EXCEPT ![r] = Idle]

\* A request arrives. The slot is free and the bound not reached.
Receive(r, handler) ==
    /\ At(r, "idle") /\ starts < MaxStarts
    /\ starts' = starts + 1
    /\ req' = [req EXCEPT ![r] = IF handler.pc = "idle" THEN Idle ELSE handler]

\* AuthMiddleware._before_request: the token's row joined with its account;
\* the role is read here, once, and kept for the whole request.
Authenticated(r, handler) ==
    \E t \in access :
        /\ Exists(t.acct)
        /\ Receive(r, [handler[t] EXCEPT !.acct = t.acct,
                                         !.role = accounts[t.acct].role])

\* require_role("admin"): compares the role the middleware read.
RequireAdmin(r, handler) ==
    \E t \in access :
        /\ Exists(t.acct) /\ accounts[t.acct].role = "admin"
        /\ Receive(r, [handler[t] EXCEPT !.acct = t.acct, !.role = "admin"])

Init ==
    /\ accounts = [id \in Ids |-> IF id \in DOMAIN FirstAccounts
                                  THEN FirstAccounts[id] ELSE NoAccount]
    /\ nextId = Cardinality(DOMAIN FirstAccounts) + 1
    /\ access = {[acct |-> id, n |-> 0] : id \in DOMAIN FirstAccounts}
    /\ refresh = {[acct |-> id, n |-> 0] : id \in DOMAIN FirstAccounts}
    /\ nextToken = 1
    /\ codes \in [Codes -> [status : {"absent", "unused"}, usedBy : {0}]]
    /\ failures = [id \in Ids |-> [count |-> 0, locked |-> "no"]]
    /\ files = {}
    /\ req = [r \in Requests |-> Idle]
    /\ starts = 0 /\ faults = 0

-----------------------------------------------------------------------------
\* Registration: AuthService.register

RegisterEndpoint(r) ==
    /\ \E form \in RegistrationForms, c \in Codes \cup {NoCode} :
          Receive(r, [Idle EXCEPT !.pc = "reserve", !.name = form.name,
                                  !.mail = form.mail, !.code = c, !.pw = form.pw])
    /\ UNCHANGED <<tables, tokens, faults>>

\* Mutant of Reservable: the UPDATE looks at the code alone.
ReservableAlways(c) == codes[c].status # "absent"
\* InviteCodeRepository.reserve: one UPDATE, guarded by the code's status.
Reservable(c) == codes[c].status = "unused"

\* The code is reserved before the address is looked at, and outside the try
\* block: an address that is not allowed leaves the code reserved.
Reserve(r) ==
    LET c == req[r].code
        taken == RequireInvite /\ c # NoCode /\ Reservable(c)
    IN  /\ At(r, "reserve")
        /\ codes' = IF taken THEN [codes EXCEPT ![c] = [status |-> "used", usedBy |-> 0]]
                             ELSE codes
        /\ IF (RequireInvite => taken) /\ req[r].mail \in AllowedMails
           THEN Goto(r, "find_user")
           ELSE Done(r)
        /\ UNCHANGED <<accounts, nextId, failures, files, tokens, starts, faults>>

\* DuplicateError inside the try block: to the except clause.
FindUser(r) ==
    /\ At(r, "find_user")
    /\ Goto(r, IF FindByUsername(req[r].name) = {} THEN "find_mail" ELSE "release")
    /\ UNCHANGED <<tables, tokens, starts, faults>>

FindMail(r) ==
    /\ At(r, "find_mail")
    /\ Goto(r, IF FindByEmail(req[r].mail) = {} THEN "create" ELSE "release")
    /\ UNCHANGED <<tables, tokens, starts, faults>>

\* AccountRepository.create; uk_username and uk_email refuse a duplicate.
CreateAccount(r) ==
    /\ At(r, "create")
    /\ IF FindByUsername(req[r].name) \cup FindByEmail(req[r].mail) # {}
       THEN Goto(r, "release") /\ UNCHANGED <<accounts, nextId>>
       ELSE /\ nextId \in Ids
            /\ accounts' = [accounts EXCEPT ![nextId] =
                  [name |-> req[r].name, mail |-> req[r].mail, role |-> "user",
                   pw |-> req[r].pw, legacy |-> FALSE, limit |-> 1,
                   code |-> req[r].code, avatar |-> [p \in Parts |-> FALSE]]]
            /\ nextId' = nextId + 1
            /\ req' = [req EXCEPT ![r].target = nextId,
                                  ![r].pc = IF req[r].code = NoCode THEN "issue" ELSE "assign"]
    /\ UNCHANGED <<codes, failures, files, tokens, starts, faults>>

\* InviteCodeRepository.assign: whatever the code's status.
AssignCode(r) ==
    /\ At(r, "assign")
    /\ codes' = [codes EXCEPT ![req[r].code].usedBy =
                    IF codes[req[r].code].status = "absent" THEN @ ELSE req[r].target]
    /\ Goto(r, "issue")
    /\ UNCHANGED <<accounts, nextId, failures, files, tokens, starts, faults>>

\* The except clause: InviteCodeRepository.release, whoever used the code.
ReleaseCode(r) ==
    /\ At(r, "release")
    /\ codes' = IF req[r].code = NoCode \/ codes[req[r].code].status = "absent" THEN codes
                ELSE [codes EXCEPT ![req[r].code] = [status |-> "unused", usedBy |-> 0]]
    /\ Done(r)
    /\ UNCHANGED <<accounts, nextId, failures, files, tokens, starts, faults>>

-----------------------------------------------------------------------------
\* Tokens: _issue_tokens, create_token, refresh_access_token, revocation

IssueAccess(r) ==
    /\ At(r, "issue")
    /\ access' = access \cup {GenerateToken(req[r].target)}
    /\ nextToken' = nextToken + 1
    /\ Goto(r, "issue_refresh")
    /\ UNCHANGED <<tables, refresh, starts, faults>>

IssueRefresh(r) ==
    /\ At(r, "issue_refresh")
    /\ refresh' = refresh \cup {GenerateToken(req[r].target)}
    /\ nextToken' = nextToken + 1
    /\ Done(r)
    /\ UNCHANGED <<tables, access, starts, faults>>

\* The row of the refresh token, joined with its account, is read ...
RefreshEndpoint(r) ==
    /\ \E t \in refresh :
          /\ Exists(t.acct)
          /\ Receive(r, [Idle EXCEPT !.pc = "refresh_delete", !.target = t.acct,
                                     !.seen = t])
    /\ UNCHANGED <<tables, tokens, faults>>

\* ... and deleted; the number of rows deleted is not looked at.
RefreshDelete(r) ==
    /\ At(r, "refresh_delete")
    /\ refresh' = refresh \ {req[r].seen}
    /\ Goto(r, "issue")
    /\ UNCHANGED <<tables, access, nextToken, starts, faults>>

CreateTokenEndpoint(r) ==
    /\ Authenticated(r, [t \in access |-> [Idle EXCEPT !.pc = "create_token", !.target = t.acct]])
    /\ UNCHANGED <<tables, tokens, faults>>

CreateToken(r) ==
    /\ At(r, "create_token")
    /\ access' = access \cup {GenerateToken(req[r].target)}
    /\ nextToken' = nextToken + 1
    /\ Done(r)
    /\ UNCHANGED <<tables, refresh, starts, faults>>

LogoutEndpoint(r) ==
    /\ Authenticated(r, [t \in access |-> [Idle EXCEPT !.pc = "revoke", !.seen = t]])
    /\ UNCHANGED <<tables, tokens, faults>>

\* revoke_token: DELETE by id and account_id, so a token of another account stays.
RevokeTokenEndpoint(r) ==
    /\ \E t \in access : Authenticated(r, [u \in access |->
          [Idle EXCEPT !.pc = IF t.acct = u.acct THEN "revoke" ELSE "idle", !.seen = t]])
    /\ UNCHANGED <<tables, tokens, faults>>

RevokeToken(r) ==
    /\ At(r, "revoke")
    /\ access' = access \ {req[r].seen}
    /\ Done(r)
    /\ UNCHANGED <<tables, refresh, nextToken, starts, faults>>

-----------------------------------------------------------------------------
\* Login: AuthService.login

LoginEndpoint(r) ==
    /\ \E u \in Users, pw \in Passwords, revoke \in BOOLEAN :
          Receive(r, [Idle EXCEPT !.pc = "login_find", !.name = u, !.pw = pw,
                                  !.revoke = revoke])
    /\ UNCHANGED <<tables, tokens, faults>>

LoginFind(r) ==
    /\ At(r, "login_find")
    /\ \/ FindByUsername(req[r].name) = {} /\ Done(r)
       \/ \E id \in FindByUsername(req[r].name) :
             req' = [req EXCEPT ![r].pc = "login_check", ![r].target = id,
                                ![r].seen = accounts[id]]
    /\ UNCHANGED <<tables, tokens, starts, faults>>

\* LoginFailureRepository.check_locked, on the database's clock.
IsLocked(id) == failures[id].locked = "until"

\* verify_password_with_legacy, on the row that was read.
Verifies(row, pw) == row.pw = pw

LoginCheck(r) ==
    /\ At(r, "login_check")
    /\ IF IsLocked(req[r].target) THEN Done(r)
       ELSE Goto(r, IF Verifies(req[r].seen, req[r].pw) THEN "login_reset" ELSE "login_failed")
    /\ UNCHANGED <<tables, tokens, starts, faults>>

\* LoginFailureRepository.record_failure: INSERT or count + 1, in one statement.
LoginFailed(r) ==
    /\ At(r, "login_failed")
    /\ failures' = [failures EXCEPT ![req[r].target].count = @ + 1]
    /\ Goto(r, "login_count")
    /\ UNCHANGED <<accounts, nextId, codes, files, tokens, starts, faults>>

\* Mutant of Exceeded: one failure too late.
ExceededLate(n) == n > MaxFailures
\* The count is read again: other failures may have been counted meanwhile.
Exceeded(n) == n >= MaxFailures

LoginCount(r) ==
    /\ At(r, "login_count")
    /\ IF Exceeded(failures[req[r].target].count) THEN Goto(r, "login_lock") ELSE Done(r)
    /\ UNCHANGED <<tables, tokens, starts, faults>>

\* LoginFailureRepository.lock_account: an UPDATE, without effect when a
\* successful login has deleted the row.
LoginLock(r) ==
    /\ At(r, "login_lock")
    /\ failures' = [failures EXCEPT ![req[r].target].locked =
                       IF failures[req[r].target].count = 0 THEN @ ELSE "until"]
    /\ Done(r)
    /\ UNCHANGED <<accounts, nextId, codes, files, tokens, starts, faults>>

\* reset_failures deletes the row, the lock of another request with it.
LoginReset(r) ==
    /\ At(r, "login_reset")
    /\ failures' = [failures EXCEPT ![req[r].target] = [count |-> 0, locked |-> "no"]]
    /\ Goto(r, IF req[r].seen.legacy THEN "login_rehash"
               ELSE IF req[r].revoke THEN "login_revoke" ELSE "issue")
    /\ UNCHANGED <<accounts, nextId, codes, files, tokens, starts, faults>>

\* AccountRepository.update_password_hash
SetPassword(id, pw) ==
    accounts' = IF Exists(id) THEN [accounts EXCEPT ![id].pw = pw, ![id].legacy = FALSE]
                              ELSE accounts

\* A legacy hash is replaced by a bcrypt hash of the password just verified.
LoginRehash(r) ==
    /\ At(r, "login_rehash")
    /\ SetPassword(req[r].target, req[r].pw)
    /\ Goto(r, IF req[r].revoke THEN "login_revoke" ELSE "issue")
    /\ UNCHANGED <<nextId, codes, failures, files, tokens, starts, faults>>

\* revoke_others: first the access tokens, then the refresh tokens.
LoginRevoke(r) ==
    /\ At(r, "login_revoke")
    /\ access' = {t \in access : t.acct # req[r].target}
    /\ Goto(r, "login_revoke_refresh")
    /\ UNCHANGED <<tables, refresh, nextToken, starts, faults>>

LoginRevokeRefresh(r) ==
    /\ At(r, "login_revoke_refresh")
    /\ refresh' = {t \in refresh : t.acct # req[r].target}
    /\ Goto(r, "issue")
    /\ UNCHANGED <<tables, access, nextToken, starts, faults>>

\* locked_until passes.
LockExpires(id) ==
    /\ IsLocked(id)
    /\ failures' = [failures EXCEPT ![id].locked = "expired"]
    /\ UNCHANGED <<accounts, nextId, codes, files, tokens, req, starts, faults>>

-----------------------------------------------------------------------------
\* The account itself

ChangePasswordEndpoint(r) ==
    /\ \E old, new \in Passwords : Authenticated(r, [t \in access |->
          [Idle EXCEPT !.pc = "password_check", !.target = t.acct, !.name = old, !.pw = new]])
    /\ UNCHANGED <<tables, tokens, faults>>

ChangePasswordCheck(r) ==
    /\ At(r, "password_check")
    /\ IF Exists(req[r].target) /\ Verifies(accounts[req[r].target], req[r].name)
       THEN Goto(r, "password") ELSE Done(r)
    /\ UNCHANGED <<tables, tokens, starts, faults>>

ChangePassword(r) ==
    /\ At(r, "password")
    /\ SetPassword(req[r].target, req[r].pw)
    /\ Done(r)
    /\ UNCHANGED <<nextId, codes, failures, files, tokens, starts, faults>>

\* change_email looks for the address, then writes it; uk_email has the last word.
ChangeEmailEndpoint(r) ==
    /\ \E m \in Mails : Authenticated(r, [t \in access |->
          [Idle EXCEPT !.pc = "email_check", !.target = t.acct, !.mail = m]])
    /\ UNCHANGED <<tables, tokens, faults>>

ChangeEmailCheck(r) ==
    /\ At(r, "email_check")
    /\ IF FindByEmail(req[r].mail) \subseteq {req[r].target} THEN Goto(r, "email") ELSE Done(r)
    /\ UNCHANGED <<tables, tokens, starts, faults>>

ChangeEmail(r) ==
    /\ At(r, "email")
    /\ accounts' = IF Exists(req[r].target) /\ FindByEmail(req[r].mail) \subseteq {req[r].target}
                   THEN [accounts EXCEPT ![req[r].target].mail = req[r].mail]
                   ELSE accounts
    /\ Done(r)
    /\ UNCHANGED <<nextId, codes, failures, files, tokens, starts, faults>>

\* delete_account removes the files without an await, then deletes table by table:
\* usage (not modelled), refresh tokens, access tokens, the account. The row of
\* account_login_failures stays.
DeleteAccountEndpoint(r) ==
    /\ Authenticated(r, [t \in access |-> [Idle EXCEPT !.pc = "delete", !.target = t.acct]])
    /\ UNCHANGED <<tables, tokens, faults>>

\* delete_avatar, for both parts
DeleteFiles(r) ==
    /\ At(r, "delete")
    /\ files' = {f \in files : f.acct # req[r].target}
    /\ Goto(r, "delete_refresh")
    /\ UNCHANGED <<accounts, nextId, codes, failures, tokens, starts, faults>>

DeleteRefreshTokens(r) ==
    /\ At(r, "delete_refresh")
    /\ refresh' = {t \in refresh : t.acct # req[r].target}
    /\ Goto(r, "delete_access")
    /\ UNCHANGED <<tables, access, nextToken, starts, faults>>

DeleteAccessTokens(r) ==
    /\ At(r, "delete_access")
    /\ access' = {t \in access : t.acct # req[r].target}
    /\ Goto(r, "delete_account")
    /\ UNCHANGED <<tables, refresh, nextToken, starts, faults>>

DeleteAccount(r) ==
    /\ At(r, "delete_account")
    /\ accounts' = [accounts EXCEPT ![req[r].target] = NoAccount]
    /\ Done(r)
    /\ UNCHANGED <<nextId, codes, failures, files, tokens, starts, faults>>

-----------------------------------------------------------------------------
\* Avatars: a file on disk and a version key in the account's row

UploadAvatarEndpoint(r) ==
    /\ \E p \in Parts : Authenticated(r, [t \in access |->
          [Idle EXCEPT !.pc = "avatar_save", !.target = t.acct, !.part = p]])
    /\ UNCHANGED <<tables, tokens, faults>>

Avatar(r) == [acct |-> req[r].target, part |-> req[r].part]

\* save_avatar: the checks and the write are one synchronous stretch.
SaveAvatar(r) ==
    /\ At(r, "avatar_save")
    /\ files' = files \cup {Avatar(r)}
    /\ Goto(r, "avatar_set")
    /\ UNCHANGED <<accounts, nextId, codes, failures, tokens, starts, faults>>

RemoveAvatarEndpoint(r) ==
    /\ \E p \in Parts : Authenticated(r, [t \in access |->
          [Idle EXCEPT !.pc = "avatar_delete", !.target = t.acct, !.part = p]])
    /\ UNCHANGED <<tables, tokens, faults>>

DeleteAvatar(r) ==
    /\ At(r, "avatar_delete")
    /\ files' = files \ {Avatar(r)}
    /\ Goto(r, "avatar_clear")
    /\ UNCHANGED <<accounts, nextId, codes, failures, tokens, starts, faults>>

GetAvatarEndpoint(r) ==
    /\ \E p \in Parts : Authenticated(r, [t \in access |->
          [Idle EXCEPT !.pc = "avatar_get", !.target = t.acct, !.part = p]])
    /\ UNCHANGED <<tables, tokens, faults>>

\* get_avatar_file: a version key without a file is cleared.
GetAvatarFile(r) ==
    /\ At(r, "avatar_get")
    /\ IF /\ Exists(req[r].target) /\ accounts[req[r].target].avatar[req[r].part]
          /\ Avatar(r) \notin files
       THEN Goto(r, "avatar_clear") ELSE Done(r)
    /\ UNCHANGED <<tables, tokens, starts, faults>>

\* AccountRepository.update_avatar_url
UpdateAvatarUrl(r) ==
    /\ At(r, "avatar_set") \/ At(r, "avatar_clear")
    /\ accounts' = IF Exists(req[r].target)
                   THEN [accounts EXCEPT ![req[r].target].avatar[req[r].part] = At(r, "avatar_set")]
                   ELSE accounts
    /\ Done(r)
    /\ UNCHANGED <<nextId, codes, failures, files, tokens, starts, faults>>

-----------------------------------------------------------------------------
\* Administration

\* An administrator may not change his own role.
AdminRoleEndpoint(r) ==
    /\ \E target \in Ids, role \in Roles : RequireAdmin(r, [t \in access |->
          [Idle EXCEPT !.pc = IF target = t.acct THEN "idle" ELSE "role",
                       !.target = target, !.name = role]])
    /\ UNCHANGED <<tables, tokens, faults>>

UpdateRole(r) ==
    /\ At(r, "role")
    /\ accounts' = IF Exists(req[r].target)
                   THEN [accounts EXCEPT ![req[r].target].role = req[r].name] ELSE accounts
    /\ Done(r)
    /\ UNCHANGED <<nextId, codes, failures, files, tokens, starts, faults>>

AdminQuotaEndpoint(r) ==
    /\ \E target \in Ids : RequireAdmin(r, [t \in access |->
          [Idle EXCEPT !.pc = "quota", !.target = target]])
    /\ UNCHANGED <<tables, tokens, faults>>

UpdateDailyLimit(r) ==
    /\ At(r, "quota")
    /\ accounts' = IF Exists(req[r].target)
                   THEN [accounts EXCEPT ![req[r].target].limit = 0] ELSE accounts
    /\ Done(r)
    /\ UNCHANGED <<nextId, codes, failures, files, tokens, starts, faults>>

AdminCreateCodesEndpoint(r) ==
    /\ \E c \in Codes : RequireAdmin(r, [t \in access |->
          [Idle EXCEPT !.pc = "create_code", !.code = c]])
    /\ UNCHANGED <<tables, tokens, faults>>

\* InviteCodeRepository.create_batch: an INSERT for each code of the batch, each
\* committed by itself. uk_code refuses a known code, and ends the batch.
CreateCode(r) ==
    /\ At(r, "create_code")
    /\ codes' = [codes EXCEPT ![req[r].code].status = IF @ = "absent" THEN "unused" ELSE @]
    /\ \/ Done(r)
       \/ /\ codes[req[r].code].status = "absent"
          /\ \E c \in Codes : req' = [req EXCEPT ![r].code = c]
    /\ UNCHANGED <<accounts, nextId, failures, files, tokens, starts, faults>>

-----------------------------------------------------------------------------
\* A statement fails: async_save rolls it back and raises. Inside register's try
\* block the code is released; any other handler answers 500.
RegisterTry == {"find_user", "find_mail", "create", "assign"}

DbError(r) ==
    /\ ~At(r, "idle") /\ faults < MaxFaults
    /\ faults' = faults + 1
    /\ IF req[r].pc \in RegisterTry \/ (req[r].pc \in {"issue", "issue_refresh"} /\ req[r].mail # "none")
       THEN Goto(r, "release") ELSE Done(r)
    /\ UNCHANGED <<tables, tokens, starts>>

Register(r) == \/ RegisterEndpoint(r) \/ Reserve(r) \/ FindUser(r) \/ FindMail(r)
               \/ CreateAccount(r) \/ AssignCode(r) \/ ReleaseCode(r)

Login(r) == \/ LoginEndpoint(r) \/ LoginFind(r) \/ LoginCheck(r) \/ LoginFailed(r)
            \/ LoginCount(r) \/ LoginLock(r) \/ LoginReset(r) \/ LoginRehash(r)
            \/ LoginRevoke(r) \/ LoginRevokeRefresh(r)

TokenStep(r) == \/ IssueAccess(r) \/ IssueRefresh(r) \/ RefreshEndpoint(r)
                \/ RefreshDelete(r) \/ CreateTokenEndpoint(r) \/ CreateToken(r)
                \/ LogoutEndpoint(r) \/ RevokeTokenEndpoint(r) \/ RevokeToken(r)

AccountStep(r) == \/ ChangePasswordEndpoint(r) \/ ChangePasswordCheck(r) \/ ChangePassword(r)
                  \/ ChangeEmailEndpoint(r) \/ ChangeEmailCheck(r) \/ ChangeEmail(r)
                  \/ DeleteAccountEndpoint(r) \/ DeleteFiles(r) \/ DeleteRefreshTokens(r)
                  \/ DeleteAccessTokens(r) \/ DeleteAccount(r)
                  \/ UploadAvatarEndpoint(r) \/ SaveAvatar(r)
                  \/ RemoveAvatarEndpoint(r) \/ DeleteAvatar(r)
                  \/ GetAvatarEndpoint(r) \/ GetAvatarFile(r) \/ UpdateAvatarUrl(r)

AdminStep(r) == \/ AdminRoleEndpoint(r) \/ UpdateRole(r) \/ AdminQuotaEndpoint(r)
                \/ UpdateDailyLimit(r) \/ AdminCreateCodesEndpoint(r) \/ CreateCode(r)

Next == \/ \E r \in Requests : Register(r) \/ Login(r) \/ TokenStep(r)
                               \/ AccountStep(r) \/ AdminStep(r) \/ DbError(r)
        \/ \E id \in Ids : LockExpires(id)

Spec == Init /\ [][Next]_vars

-----------------------------------------------------------------------------
\* Properties

\* Every row and every handler has its shape, and no id is given twice: the
\* next id is past every account.
TypeOK ==
    /\ accounts \in [Ids -> Account \cup {NoAccount}]
    /\ nextId \in Nat /\ \A id \in Ids : id >= nextId => ~Exists(id)
    /\ access \cup refresh \subseteq Token
    /\ \A t \in access \cup refresh : t.n < nextToken /\ t.acct < nextId
    /\ codes \in [Codes -> [status : {"absent", "unused", "used"}, usedBy : 0 .. MaxAccounts]]
    /\ failures \in [Ids -> [count : Nat, locked : {"no", "until", "expired"}]]
    /\ files \subseteq [acct : Ids, part : Parts]
    /\ starts \in 0 .. MaxStarts /\ faults \in 0 .. MaxFaults

\* Where an invite code is required, no two accounts were registered with the
\* same code, however registrations overlap; and a code that names an account
\* names one that was registered with it. A statement that fails after the
\* account was created is the exception: register then releases the code.
InviteSpentOnce ==
    (RequireInvite /\ faults = 0) =>
       /\ \A i, j \in Ids : (i # j /\ Exists(i) /\ Exists(j)) =>
             (accounts[i].code # accounts[j].code \/ accounts[i].code = NoCode)
       /\ \A c \in Codes : Exists(codes[c].usedBy) => accounts[codes[c].usedBy].code = c

\* An account with login_max_failures failed logins in a row has been locked,
\* unless the request that counted the last of them is about to lock it; a
\* concurrent success or failure does not make the lock slip.
LockedWhenExceeded ==
    faults = 0 => \A id \in Ids :
       failures[id].count >= MaxFailures =>
          \/ failures[id].locked # "no"
          \/ \E r \in Requests : req[r].target = id /\ req[r].pc \in {"login_count", "login_lock"}
=============================================================================
