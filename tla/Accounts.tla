------------------------------ MODULE Accounts ------------------------------
(***************************************************************************)
(* The account store (web/account.rs), its REST handlers (web/api.rs) and  *)
(* the check at the WebSocket door (ws_handler): registration, login,      *)
(* opaque tokens that expire and can be revoked.                           *)
(*                                                                         *)
(* A user name is abstracted to its number of characters once trimmed and  *)
(* lowercased (names of one length are one name), a password to its        *)
(* length; a spelling is what the user typed, with its case and blanks.    *)
(* Hashing is external: a password verifies against its own hash only.     *)
(***************************************************************************)
EXTENDS Naturals

CONSTANTS Names,          \* user names, as numbers of characters
          Passwords,      \* passwords, as numbers of characters
          AccountTasks,   \* handler tasks that may run at once
          MaxUserIds,     \* bound: user ids handed out
          MaxTokens,      \* bound: tokens issued
          TokenTtl,       \* TOKEN_TTL, in ticks of the clock
          MaxClock        \* bound: ticks of the clock

ASSUME AccountsAssumption == /\ Names \subseteq Nat /\ Passwords \subseteq Nat
                             /\ {MaxUserIds, MaxTokens, TokenTtl, MaxClock} \subseteq Nat

VARIABLES users,      \* users: rows [id, username, password]
          tokens,     \* tokens: rows [token, user, expires]
          acalls,     \* the handler each task runs
          lastUser,   \* last user id handed out
          lastToken,  \* last token drawn
          now,        \* the database's now()
          upgraded    \* sockets upgraded so far: [user, at, expires]

accountVars == <<users, tokens, acalls, lastUser, lastToken, now, upgraded>>

Spellings == [name : Names, style : {"plain", "capital", "padded"}]

NoCall == [at |-> "idle", raw |-> [name |-> 0, style |-> "plain"], password |-> 0,
           id |-> 0, code |-> 0]

\* Mutant of Lowercased: the registration keeps the letters' case.
Lowercased_Trimmed(raw) == [raw EXCEPT !.style = IF @ = "padded" THEN "plain" ELSE @]

\* username.trim().to_lowercase()
Lowercased(raw) == [raw EXCEPT !.style = "plain"]

validate_credentials(raw, password) == raw.name \in 3..32 /\ password >= 6

Finish(t, code) ==
    acalls' = [acalls EXCEPT ![t] = [NoCall EXCEPT !.at = "answered", !.code = code]]

AccountsInit ==
    /\ users = {}
    /\ tokens = {}
    /\ acalls = [t \in AccountTasks |-> NoCall]
    /\ lastUser = 0
    /\ lastToken = 0
    /\ now = 0
    /\ upgraded = {}

Free(t) == acalls[t].at \in {"idle", "answered"}

\* POST /api/register, to the point where the row is about to be inserted.
\* `blank` is an empty display name.
RegisterCall(t, raw, password, blank) ==
    /\ Free(t)
    /\ \/ /\ ~validate_credentials(raw, password) \/ blank
          /\ Finish(t, 400)
          /\ UNCHANGED lastUser
       \/ /\ validate_credentials(raw, password) /\ ~blank
          /\ \/ /\ Finish(t, 503)
                /\ UNCHANGED lastUser
             \/ /\ lastUser < MaxUserIds
                /\ lastUser' = lastUser + 1
                /\ acalls' = [acalls EXCEPT ![t] =
                      [NoCall EXCEPT !.at = "insert", !.raw = Lowercased(raw),
                                     !.password = password, !.id = lastUser + 1]]
    /\ UNCHANGED <<users, tokens, lastToken, now, upgraded>>

\* INSERT INTO users: the unique key on username is the database's.
RegisterInsert(t) ==
    LET c == acalls[t]
    IN /\ c.at = "insert"
       /\ \/ /\ \A u \in users : u.username # c.raw
             /\ users' = users \cup {[id |-> c.id, username |-> c.raw,
                                      password |-> c.password]}
             /\ \E code \in {201, 500} : Finish(t, code)
          \/ /\ \E u \in users : u.username = c.raw
             /\ Finish(t, 409)
             /\ UNCHANGED users
          \/ /\ Finish(t, 500)
             /\ UNCHANGED users
       /\ UNCHANGED <<tokens, lastUser, lastToken, now, upgraded>>

find_by_username(raw) == {u \in users : u.username = Lowercased(raw)}

\* GET /api/users: the name is trimmed once more, and null is an answer.
find_user(raw) == find_by_username([raw EXCEPT !.style = IF @ = "padded" THEN "plain" ELSE @])

LoginCall(t, raw, password) ==
    /\ Free(t)
    /\ \/ /\ ~validate_credentials(raw, password)
          /\ Finish(t, 400)
       \/ /\ validate_credentials(raw, password)
          /\ acalls' = [acalls EXCEPT ![t] = [NoCall EXCEPT !.at = "verify", !.raw = raw,
                                                            !.password = password]]
    /\ UNCHANGED <<users, tokens, lastUser, lastToken, now, upgraded>>

\* verify_login: unknown user and wrong password are one answer.
VerifyLogin(t) ==
    LET c == acalls[t]
        match == {u \in find_by_username(c.raw) : u.password = c.password}
    IN /\ c.at = "verify"
       /\ \/ /\ match = {}
             /\ Finish(t, 401)
          \/ \E u \in match : acalls' = [acalls EXCEPT ![t].at = "issue", ![t].id = u.id]
          \/ Finish(t, 500)
       /\ UNCHANGED <<users, tokens, lastUser, lastToken, now, upgraded>>

issue_token(t) ==
    /\ acalls[t].at = "issue"
    /\ \/ /\ lastToken < MaxTokens
          /\ lastToken' = lastToken + 1
          /\ tokens' = tokens \cup {[token |-> lastToken + 1, user |-> acalls[t].id,
                                     expires |-> now + TokenTtl]}
          /\ \E code \in {200, 500} : Finish(t, code)
       \/ /\ Finish(t, 500)
          /\ UNCHANGED <<tokens, lastToken>>
    /\ UNCHANGED <<users, lastUser, now, upgraded>>

\* Mutant of user_by_token: the comparison with now() is dropped.
user_by_token_Expired(k) ==
    {u \in users : \E row \in tokens : row.token = k /\ row.user = u.id}

\* The user a token stands for: none once it expired or was revoked.
user_by_token(k) ==
    {u \in users : \E row \in tokens : row.token = k /\ row.user = u.id /\ row.expires > now}

\* GET /ws?token=...: checked before the upgrade, and only then.
UpgradeSocket(k) ==
    \E u \in user_by_token(k), row \in tokens :
       /\ row.token = k
       /\ upgraded' = upgraded \cup {[user |-> u.id, at |-> now, expires |-> row.expires]}
       /\ UNCHANGED <<users, tokens, acalls, lastUser, lastToken, now>>

revoke_token(k) ==
    /\ \E row \in tokens : row.token = k
    /\ tokens' = {row \in tokens : row.token # k}
    /\ UNCHANGED <<users, acalls, lastUser, lastToken, now, upgraded>>

revoke_all_tokens(u) ==
    /\ \E row \in tokens : row.user = u
    /\ tokens' = {row \in tokens : row.user # u}
    /\ UNCHANGED <<users, acalls, lastUser, lastToken, now, upgraded>>

Tick ==
    /\ now < MaxClock
    /\ now' = now + 1
    /\ UNCHANGED <<users, tokens, acalls, lastUser, lastToken, upgraded>>

AccountsNext ==
    \/ \E t \in AccountTasks :
          \/ \E raw \in Spellings, p \in Passwords :
                \/ \E blank \in BOOLEAN : RegisterCall(t, raw, p, blank)
                \/ LoginCall(t, raw, p)
          \/ RegisterInsert(t) \/ VerifyLogin(t) \/ issue_token(t)
    \/ \E k \in 1..MaxTokens : UpgradeSocket(k) \/ revoke_token(k)
    \/ \E u \in 1..MaxUserIds : revoke_all_tokens(u)
    \/ Tick

AccountsSpec == AccountsInit /\ [][AccountsNext]_accountVars

-----------------------------------------------------------------------------
\* A socket is opened for a user only while the token shown is valid: never at
\* or after its expiry, and only for the user it was issued to.
UpgradedInTime ==
    \A s \in upgraded : s.at < s.expires /\ \E u \in users : u.id = s.user

\* However registrations race and however a name is spelled, one name is one
\* account: the spellings of a name find at most one user, every token and
\* every login under way belongs to a user that exists, and a socket is opened
\* with a valid token only.
OneAccountPerName ==
    /\ \A u, v \in users : u.username.name = v.username.name \/ u.id = v.id => u = v
    /\ \A raw, other \in Spellings : raw.name = other.name => find_user(raw) = find_user(other)
    /\ \A row \in tokens : \E u \in users : u.id = row.user
    /\ \A t \in AccountTasks : acalls[t].at = "issue" =>
          \E u \in users : u.id = acalls[t].id /\ u.username.name = acalls[t].raw.name
    /\ UpgradedInTime

=============================================================================
