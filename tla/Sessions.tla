------------------------------ MODULE Sessions ------------------------------
(***************************************************************************)
(* Sign-in sessions: their keys and the index of a user's keys in Redis     *)
(* (backend/app/services/sessions.py), and the handlers that create, check  *)
(* and revoke them (routers/auth.py, routers/profile.py, dependencies.py).  *)
(*                                                                          *)
(* A step is what a handler does between two awaits: one Redis command, one *)
(* MULTI, or one statement with its commit.  Time is counted in seconds.    *)
(*                                                                          *)
(*   login:          login [-> rehash] -> create                            *)
(*   with a cookie:  session [-> expired] -> touch -> account, and then     *)
(*     view, or change | close -> members -> keys -> index -> sign_out      *)
(*   logout:         sign_out                                               *)
(***************************************************************************)
EXTENDS Naturals

CONSTANTS
    Users, Passwords,
    Txns,            \* requests; a login names the session it creates after itself
    StartTokens,     \* sessions that exist at the start
    StartOwner,      \* whose they are
    StartPassword,   \* the password of each user
    Outdated,        \* users whose hash was made with older Argon2 parameters
    Requests,
    Crashable,
    Idle, Absolute,  \* session_idle_seconds, session_absolute_seconds
    StartTime,       \* when the model starts: the sessions are as old as this, and in use
    MaxTime          \* the clock stops here

Tokens == Txns \cup StartTokens
\* Handlers that depend on require_user.
SignedInOps == {"view", "change", "close"}

RequestSpace ==
    [op : {"login"}, user : Users, password : Passwords]
        \cup [op : {"view", "logout"}, token : Tokens]
        \cup [op : {"change"}, token : Tokens, password : Passwords, new : Passwords]
        \cup [op : {"close"}, token : Tokens, password : Passwords]

ASSUME TokensAssumption == Txns \cap StartTokens = {} /\ StartOwner \in [StartTokens -> Users]
ASSUME PasswordsAssumption == StartPassword \in [Users -> Passwords]
ASSUME TimesAssumption == /\ Idle \in Nat \ {0} /\ Absolute \in Nat \ {0} /\ MaxTime \in Nat
                          /\ StartTime \in 0 .. Absolute /\ StartTime <= MaxTime
ASSUME SessionRequestsAssumption == Requests \subseteq RequestSpace

VARIABLES
    clock,
    hash, active,        \* users: the password behind password_hash and whether the hash is
                         \* outdated; is_active
    sess,                \* session:<sha256>: issued_at, and when the key expires
    index, indexEnd,     \* user-sessions:<id>, and when it expires
    pc, req, reply,
    read, members,       \* a handler's copies: password_hash, the members of the index
    before, ended, late  \* history: see the properties

vars == <<clock, hash, active, sess, index, indexEnd, pc, req, reply, read, members, before,
          ended, late>>
redis == <<sess, index, indexEnd>>
users == <<hash, active>>
history == <<before, ended, late>>

NoSession == [issued |-> 0, ends |-> 0]
NoRequest == [op |-> "none"]
Fresh(u) == [password |-> StartPassword[u], outdated |-> FALSE]

\* A key whose TTL has run out is not there.
Live(s) == sess[s].ends > clock
Members(u) == IF indexEnd[u] > clock THEN index[u] ELSE {}

\* The user a session belongs to; it never changes.
Owner(s) == IF s \in StartTokens THEN StartOwner[s] ELSE req[s].user
UserOf(t) == IF req[t].op = "login" THEN req[t].user ELSE Owner(req[t].token)

\* Sessions that exist or existed; a browser has the cookie of one once its login is answered.
Created == StartTokens \cup {t \in Txns : pc[t] = "done" /\ req[t].op = "login" /\ reply[t] = "ok"}
Possible == {r \in Requests : r.op = "login" \/ r.token \in Created}

Init ==
    /\ clock = StartTime
    /\ hash = [u \in Users |-> [Fresh(u) EXCEPT !.outdated = u \in Outdated]]
    /\ active = [u \in Users |-> TRUE]
    /\ sess = [s \in Tokens |-> IF s \in StartTokens THEN [issued |-> 0, ends |-> StartTime + Idle] ELSE NoSession]
    /\ index = [u \in Users |-> {s \in StartTokens : StartOwner[s] = u}]
    /\ indexEnd = [u \in Users |-> Absolute]
    /\ pc = [t \in Txns |-> "idle"] /\ req = [t \in Txns |-> NoRequest]
    /\ reply = [t \in Txns |-> "none"]
    /\ read = [t \in Txns |-> ""] /\ members = [t \in Txns |-> {}]
    /\ before = [t \in Txns |-> {}] /\ ended = {} /\ late = {}

-----------------------------------------------------------------------------
(* What the steps of a handler are made of. *)

Goto(t, label) == pc' = [pc EXCEPT ![t] = label] /\ UNCHANGED <<clock, req, reply, history>>

Answer(t, answer) ==
    /\ pc' = [pc EXCEPT ![t] = "done"]
    /\ reply' = [reply EXCEPT ![t] = answer]
    /\ read' = [read EXCEPT ![t] = ""] /\ members' = [members EXCEPT ![t] = {}]
    /\ before' = [before EXCEPT ![t] = {}]
    /\ UNCHANGED <<clock, req, late>>

\* A refusal: nothing is written by this step.
Refuse(t) == Answer(t, "unauthorized") /\ UNCHANGED <<redis, users, ended>>

\* A revocation of the user's sessions that has listed them, or is about to.
Revoking(u) == \E t \in Txns : pc[t] \in {"members", "keys", "index"} /\ UserOf(t) = u

Receive(t, r) ==
    /\ pc[t] = "idle"
    /\ LET u == IF r.op = "login" THEN r.user ELSE Owner(r.token) IN
       /\ late' = IF active[u] THEN late ELSE late \cup {t}
       /\ before' = [before EXCEPT ![t] = IF r.op \notin {"change", "close"} \/ Revoking(u) THEN {}
                                         ELSE {s \in Members(u) : Live(s)}]
    /\ req' = [req EXCEPT ![t] = r]
    /\ pc' = [pc EXCEPT ![t] = CASE r.op = "login" -> "login"
                                 [] r.op = "logout" -> "sign_out"
                                 [] OTHER -> "session"]
    /\ UNCHANGED <<clock, redis, users, reply, read, members, ended>>

-----------------------------------------------------------------------------
(* login, and admin_login but for its TOTP code. *)

LoginCheck(t) ==
    LET u == req[t].user IN
    /\ pc[t] = "login"
    /\ \/ (~active[u] \/ hash[u].password # req[t].password) /\ Refuse(t)
       \/ /\ active[u] /\ hash[u].password = req[t].password
          /\ Goto(t, IF hash[u].outdated THEN "rehash" ELSE "create")
          /\ UNCHANGED <<redis, users, read, members>>

\* UPDATE ... SET password_hash WHERE id: whatever the row holds by now.
LoginRehash(t) ==
    /\ pc[t] = "rehash"
    /\ hash' = [hash EXCEPT ![req[t].user] = [password |-> req[t].password, outdated |-> FALSE]]
    /\ Goto(t, "create")
    /\ UNCHANGED <<redis, active, read, members>>

\* Wrong on purpose: the index expires with the session.
CreateForIdle(t) ==
    LET u == req[t].user IN
    /\ pc[t] = "create"
    /\ sess' = [sess EXCEPT ![t] = [issued |-> clock, ends |-> clock + Idle]]
    /\ index' = [index EXCEPT ![u] = Members(u) \cup {t}]
    /\ indexEnd' = [indexEnd EXCEPT ![u] = clock + Idle]
    /\ Answer(t, "ok")
    /\ UNCHANGED <<users, ended>>

\* create_session: SET, SADD and EXPIRE in one MULTI.
CreateSession(t) ==
    LET u == req[t].user IN
    /\ pc[t] = "create"
    /\ sess' = [sess EXCEPT ![t] = [issued |-> clock, ends |-> clock + Idle]]
    /\ index' = [index EXCEPT ![u] = Members(u) \cup {t}]
    /\ indexEnd' = [indexEnd EXCEPT ![u] = clock + Absolute]
    /\ Answer(t, "ok")
    /\ UNCHANGED <<users, ended>>

-----------------------------------------------------------------------------
(* read_session and require_user. *)

ReadSession(t) ==
    LET s == req[t].token IN
    /\ pc[t] = "session"
    /\ \/ ~Live(s) /\ Refuse(t)
       \/ /\ Live(s)
          /\ Goto(t, IF clock - sess[s].issued > Absolute THEN "expired" ELSE "touch")
          /\ UNCHANGED <<redis, users, read, members>>

DropSession(t) ==
    /\ pc[t] = "expired"
    /\ sess' = [sess EXCEPT ![req[t].token] = NoSession]
    /\ Answer(t, "unauthorized")
    /\ UNCHANGED <<index, indexEnd, users, ended>>

\* Wrong on purpose: a SET of the payload instead of EXPIRE.
TouchAnew(t) ==
    /\ pc[t] = "touch"
    /\ sess' = [sess EXCEPT ![req[t].token].ends = clock + Idle]
    /\ Goto(t, "account")
    /\ UNCHANGED <<index, indexEnd, users, read, members>>

\* Wrong on purpose: the other setting.
TouchForAbsolute(t) ==
    LET s == req[t].token IN
    /\ pc[t] = "touch"
    /\ sess' = IF Live(s) THEN [sess EXCEPT ![s].ends = clock + Absolute] ELSE sess
    /\ Goto(t, "account")
    /\ UNCHANGED <<index, indexEnd, users, read, members>>

\* EXPIRE does nothing to a key that is gone by now.
TouchSession(t) ==
    LET s == req[t].token IN
    /\ pc[t] = "touch"
    /\ sess' = IF Live(s) THEN [sess EXCEPT ![s].ends = clock + Idle] ELSE sess
    /\ Goto(t, "account")
    /\ UNCHANGED <<index, indexEnd, users, read, members>>

\* The body of the handler: one that only reads is answered.
Admit(t) ==
    /\ UNCHANGED <<redis, users>>
    /\ \/ req[t].op = "view" /\ Answer(t, "ok") /\ UNCHANGED ended
       \/ /\ req[t].op # "view"
          /\ read' = [read EXCEPT ![t] = hash[UserOf(t)].password]
          /\ Goto(t, req[t].op)
          /\ UNCHANGED members

\* Wrong on purpose: is_active is not in the WHERE clause.
AccountAnyState(t) ==
    /\ pc[t] = "account"
    /\ Admit(t)

ReadAccount(t) ==
    /\ pc[t] = "account"
    /\ \/ ~active[UserOf(t)] /\ Refuse(t)
       \/ /\ active[UserOf(t)]
          /\ Admit(t)

-----------------------------------------------------------------------------
(* change_password and delete_profile: commit first, then revoke. *)

WrongPassword(t) ==
    /\ pc[t] \in {"change", "close"}
    /\ read[t] # req[t].password
    /\ Refuse(t)

ChangePassword(t) ==
    /\ pc[t] = "change" /\ read[t] = req[t].password
    /\ hash' = [hash EXCEPT ![UserOf(t)] = [password |-> req[t].new, outdated |-> FALSE]]
    /\ Goto(t, "members")
    /\ UNCHANGED <<redis, active, read, members>>

CloseAccount(t) ==
    /\ pc[t] = "close" /\ read[t] = req[t].password
    /\ active' = [active EXCEPT ![UserOf(t)] = FALSE]
    /\ Goto(t, "members")
    /\ UNCHANGED <<redis, hash, read, members>>

\* revoke_user_sessions: SMEMBERS, DEL of the sessions, DEL of the index.
ListSessions(t) ==
    /\ pc[t] = "members"
    /\ members' = [members EXCEPT ![t] = Members(UserOf(t))]
    /\ Goto(t, "keys")
    /\ UNCHANGED <<redis, users, read>>

DeleteSessions(t) ==
    /\ pc[t] = "keys"
    /\ sess' = [s \in Tokens |-> IF s \in members[t] THEN NoSession ELSE sess[s]]
    /\ Goto(t, "index")
    /\ UNCHANGED <<index, indexEnd, users, read, members>>

DeleteIndex(t) ==
    /\ pc[t] = "index"
    /\ index' = [index EXCEPT ![UserOf(t)] = {}]
    /\ Goto(t, "sign_out")
    /\ UNCHANGED <<sess, indexEnd, users, read, members>>

\* delete_current_session, which leaves the index alone.
SignOut(t) ==
    /\ pc[t] = "sign_out"
    /\ sess' = [sess EXCEPT ![req[t].token] = NoSession]
    /\ Answer(t, "ok")
    /\ ended' = ended \cup {req[t].token} \cup before[t]
    /\ UNCHANGED <<index, indexEnd, users>>

-----------------------------------------------------------------------------

Step(t) ==
    \/ LoginCheck(t) \/ LoginRehash(t) \/ CreateSession(t)
    \/ ReadSession(t) \/ DropSession(t) \/ TouchSession(t) \/ ReadAccount(t)
    \/ WrongPassword(t) \/ ChangePassword(t) \/ CloseAccount(t)
    \/ ListSessions(t) \/ DeleteSessions(t) \/ DeleteIndex(t) \/ SignOut(t)

\* The worker dies: what was written stays, the rest is not done.
Crash(t) ==
    /\ t \in Crashable /\ pc[t] \notin {"idle", "done"}
    /\ Answer(t, "lost")
    /\ UNCHANGED <<redis, users, ended>>

Tick ==
    /\ clock < MaxTime
    /\ clock' = clock + 1
    /\ UNCHANGED <<redis, users, pc, req, reply, read, members, history>>

Next ==
    \/ \E t \in Txns : (\E r \in Possible : Receive(t, r)) \/ Step(t) \/ Crash(t)
    \/ Tick

Spec == Init /\ [][Next]_vars

-----------------------------------------------------------------------------
(* Properties *)

Labels == {"idle", "done", "login", "rehash", "create", "session", "expired", "touch", "account",
           "change", "close", "members", "keys", "index", "sign_out"}

\* The types; no session outlives session_idle_seconds unless it is used, none is issued in
\* the future, and the index of a user lists sessions of his that were really created.
TypeOK ==
    /\ clock \in 0 .. MaxTime
    /\ hash \in [Users -> [password : Passwords, outdated : BOOLEAN]] /\ active \in [Users -> BOOLEAN]
    /\ \A s \in Tokens : sess[s].issued \in 0 .. clock /\ sess[s].ends \in 0 .. clock + Idle
    /\ \A u \in Users : \A s \in index[u] : s \in Created /\ Owner(s) = u
    /\ indexEnd \in [Users -> 0 .. MaxTime + Absolute]
    /\ pc \in [Txns -> Labels] /\ req \in [Txns -> RequestSpace \cup {NoRequest}]
    /\ reply \in [Txns -> {"none", "ok", "unauthorized", "lost"}]
    /\ read \in [Txns -> Passwords \cup {""}] /\ members \in [Txns -> SUBSET Tokens]
    /\ before \in [Txns -> SUBSET Tokens] /\ ended \subseteq Tokens /\ late \subseteq Txns

\* Once a password change, the closing of an account or a logout is answered, the sessions
\* it was to end are ended for good: those in the user's index when the request came, if no
\* other revocation was running, and its own.  Sessions being used meanwhile, their TTL
\* renewed, and the TTL of the index itself do not save one, but for the second in which it
\* reaches session_absolute_seconds.
RevokedForGood ==
    \A s \in ended : Live(s) => clock - sess[s].issued >= Absolute

\* A request that comes after an account was closed is refused, whatever sessions the closing
\* left behind: those of a login under way, or all of them if its worker died half-way.
ClosedIsRefused ==
    \A t \in late : reply[t] = "ok" => req[t].op = "logout"

\* A session that was deleted or has expired never comes back: not by the renewal of a
\* request that had read it before.
GoneStaysGone ==
    [][\A s \in Created : ~Live(s) => ~Live(s)']_vars

\* "Password changed. Please sign in again." (routers/profile.py:61): the password is the new
\* one until somebody changes it again.
PasswordSticks ==
    [][\A u \in Users : hash'[u].password # hash[u].password =>
          \E t \in Txns : pc[t] = "change" /\ pc'[t] = "members" /\ UserOf(t) = u]_vars
=============================================================================
