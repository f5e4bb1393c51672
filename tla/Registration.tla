---------------------------- MODULE Registration -----------------------------
(***************************************************************************)
(* Opening an account by e-mail: the pending registration of an address in  *)
(* Redis (backend/app/services/otp.py) and its handlers in routers/auth.py; *)
(* an account opened on the command line (cli.py) and one that changes its  *)
(* name (routers/profile.py) meanwhile.                                     *)
(*                                                                          *)
(* A step is what a handler does between two awaits.  A handler that makes  *)
(* a code gives it its own name, and so does one that hashes a password:    *)
(* two codes are never the same by chance, and a guess is never right.      *)
(*                                                                          *)
(*   register: register -> store -> mail                                    *)
(*   resend:   resend -> resend_ttl -> resend_store -> mail                 *)
(*   verify:   verify -> claim -> lookup -> create                          *)
(*                    -> count_ttl -> count_store,  or -> drop              *)
(*   admin:    admin -> create      rename: one step                        *)
(***************************************************************************)
EXTENDS Naturals

CONSTANTS
    Emails, Names, Txns, Requests,
    Crashable,                    \* operations whose worker may die
    Ttl, Cooldown, MaxAttempts,   \* otp_ttl_seconds, otp_resend_cooldown_seconds, otp_max_attempts
    MaxTime,                      \* the clock stops here
    Guess                         \* a code that was not mailed

Nobody == "nobody"

RequestSpace ==
    [op : {"register"}, email : Emails, name : Names]
        \cup [op : {"resend"}, email : Emails]
        \cup [op : {"verify"}, email : Emails, code : Txns \cup {Guess}]
        \cup [op : {"admin", "rename"}, email : Emails, name : Names]

ASSUME RegistrationRequestsAssumption == Requests \subseteq RequestSpace
ASSUME LimitsAssumption == /\ Ttl \in Nat \ {0} /\ Cooldown \in Nat
                           /\ MaxAttempts \in Nat /\ MaxTime \in Nat
ASSUME CodesAssumption == Guess \notin Txns /\ Nobody \notin Txns

VARIABLES
    clock,
    pending, ends,     \* registration:<email>: its payload, and when the key expires
    accounts,          \* rows of users: who opened one, with which code, who named it last
    queue, inbox,      \* mails the worker has to send, and those that arrived
    pc, req, reply,
    payload, ttl       \* a handler's copies

vars == <<clock, pending, ends, accounts, queue, inbox, pc, req, reply, payload, ttl>>
redis == <<pending, ends>>
mails == <<queue, inbox>>

NoPayload == [reg |-> Nobody, code |-> Nobody, attempts |-> 0, sent |-> 0]
NoRequest == [op |-> "none"]

Pending(e) == ends[e] > clock
Name(a) == req[a.named].name
Taken(e, n) == \E a \in accounts : a.email = e \/ Name(a) = n

\* A customer can type a code that has reached him, or guess; he renames his own account.
Possible ==
    {r \in Requests :
        /\ r.op = "verify" /\ r.code # Guess => \E m \in inbox : m.email = r.email /\ m.code = r.code
        /\ r.op = "rename" => \E a \in accounts : a.email = r.email}

Init ==
    /\ clock = 0
    /\ pending = [e \in Emails |-> NoPayload] /\ ends = [e \in Emails |-> 0]
    /\ accounts = {} /\ queue = {} /\ inbox = {}
    /\ pc = [t \in Txns |-> "idle"] /\ req = [t \in Txns |-> NoRequest]
    /\ reply = [t \in Txns |-> "none"]
    /\ payload = [t \in Txns |-> NoPayload] /\ ttl = [t \in Txns |-> 0]

-----------------------------------------------------------------------------
(* What the steps of a handler are made of. *)

Goto(t, label) == pc' = [pc EXCEPT ![t] = label] /\ UNCHANGED <<clock, req, reply>>

Answer(t, answer) ==
    /\ pc' = [pc EXCEPT ![t] = "done"] /\ reply' = [reply EXCEPT ![t] = answer]
    /\ payload' = [payload EXCEPT ![t] = NoPayload] /\ ttl' = [ttl EXCEPT ![t] = 0]
    /\ UNCHANGED <<clock, req>>

Set(e, value, life) ==
    /\ pending' = [pending EXCEPT ![e] = value]
    /\ ends' = [ends EXCEPT ![e] = clock + life]

Delete(e) ==
    /\ pending' = [pending EXCEPT ![e] = NoPayload]
    /\ ends' = [ends EXCEPT ![e] = 0]

Receive(t, r) ==
    /\ pc[t] = "idle"
    /\ req' = [req EXCEPT ![t] = r]
    /\ pc' = [pc EXCEPT ![t] = r.op]
    /\ UNCHANGED <<clock, redis, accounts, mails, reply, payload, ttl>>

-----------------------------------------------------------------------------
(* register and create_pending_registration: a later registration of an     *)
(* address replaces the one that is pending.                                *)

NewRecord(t) == [reg |-> t, code |-> t, attempts |-> 0, sent |-> clock]

RegisterLookup(t) ==
    /\ pc[t] = "register"
    /\ \/ Taken(req[t].email, req[t].name) /\ Answer(t, "pending")
       \/ /\ ~Taken(req[t].email, req[t].name)
          /\ payload' = [payload EXCEPT ![t] = NewRecord(t)]
          /\ Goto(t, "store")
          /\ UNCHANGED ttl
    /\ UNCHANGED <<redis, accounts, mails>>

StorePending(t) ==
    /\ pc[t] = "store"
    /\ Set(req[t].email, payload[t], Ttl)
    /\ Goto(t, "mail")
    /\ UNCHANGED <<accounts, mails, payload, ttl>>

\* _enqueue_email, of a registration and of a resend.
Mail(t) ==
    /\ pc[t] = "mail"
    /\ queue' = queue \cup {[email |-> req[t].email, reg |-> payload[t].reg, code |-> t]}
    /\ Answer(t, "pending")
    /\ UNCHANGED <<redis, accounts, inbox>>

-----------------------------------------------------------------------------
(* resend_pending_registration, and the write of a refused attempt: GET,    *)
(* TTL and SET are three commands.                                          *)

ResendRead(t) ==
    LET e == req[t].email IN
    /\ pc[t] = "resend"
    /\ \/ ~Pending(e) /\ Answer(t, "pending")
       \/ Pending(e) /\ clock - pending[e].sent < Cooldown /\ Answer(t, "cooldown")
       \/ /\ Pending(e) /\ clock - pending[e].sent >= Cooldown
          /\ payload' = [payload EXCEPT ![t] = [pending[e] EXCEPT !.code = t, !.attempts = 0, !.sent = clock]]
          /\ Goto(t, "resend_ttl")
          /\ UNCHANGED ttl
    /\ UNCHANGED <<redis, accounts, mails>>

\* max(1, TTL): the TTL of a key that is gone is -2.
ReadTtl(t) ==
    LET e == req[t].email IN
    /\ pc[t] \in {"resend_ttl", "count_ttl"}
    /\ ttl' = [ttl EXCEPT ![t] = IF Pending(e) THEN ends[e] - clock ELSE 1]
    /\ Goto(t, IF pc[t] = "resend_ttl" THEN "resend_store" ELSE "count_store")
    /\ UNCHANGED <<redis, accounts, mails, payload>>

ResendStore(t) ==
    /\ pc[t] = "resend_store"
    /\ Set(req[t].email, payload[t], ttl[t])
    /\ Goto(t, "mail")
    /\ UNCHANGED <<accounts, mails, payload, ttl>>

-----------------------------------------------------------------------------
(* verify_pending_registration and verify_otp. *)

\* Wrong on purpose: the limit is dropped.
VerifyUncounted(t) ==
    LET e == req[t].email
        now == [pending[e] EXCEPT !.attempts = @ + 1]
    IN  /\ pc[t] = "verify"
        /\ \/ ~Pending(e) /\ Answer(t, "invalid")
           \/ /\ Pending(e)
              /\ payload' = [payload EXCEPT ![t] = now]
              /\ Goto(t, IF now.code = req[t].code THEN "claim" ELSE "count_ttl")
              /\ UNCHANGED ttl
        /\ UNCHANGED <<redis, accounts, mails>>

VerifyRead(t) ==
    LET e == req[t].email
        now == [pending[e] EXCEPT !.attempts = @ + 1]
    IN  /\ pc[t] = "verify"
        /\ \/ ~Pending(e) /\ Answer(t, "invalid")
           \/ /\ Pending(e)
              /\ payload' = [payload EXCEPT ![t] = now]
              /\ Goto(t, CASE now.attempts > MaxAttempts -> "drop"
                           [] now.attempts <= MaxAttempts /\ now.code = req[t].code -> "claim"
                           [] OTHER -> "count_ttl")
              /\ UNCHANGED ttl
        /\ UNCHANGED <<redis, accounts, mails>>

DropPending(t) ==
    /\ pc[t] = "drop"
    /\ Delete(req[t].email)
    /\ Answer(t, "invalid")
    /\ UNCHANGED <<accounts, mails>>

CountStore(t) ==
    /\ pc[t] = "count_store"
    /\ Set(req[t].email, payload[t], ttl[t])
    /\ Answer(t, "invalid")
    /\ UNCHANGED <<accounts, mails>>

\* Wrong on purpose: the record of the moment is used, not the one compared.
ClaimCurrent(t) ==
    /\ pc[t] = "claim"
    /\ payload' = [payload EXCEPT ![t] = pending[req[t].email]]
    /\ Delete(req[t].email)
    /\ Goto(t, "lookup")
    /\ UNCHANGED <<accounts, mails, ttl>>

\* The registration that is used is the one that was read with the code.
Claim(t) ==
    /\ pc[t] = "claim"
    /\ Delete(req[t].email)
    /\ Goto(t, "lookup")
    /\ UNCHANGED <<accounts, mails, payload, ttl>>

NameOf(t) == req[payload[t].reg].name

AccountLookup(t) ==
    /\ pc[t] = "lookup"
    /\ \/ Taken(req[t].email, NameOf(t)) /\ Answer(t, "conflict")
       \/ ~Taken(req[t].email, NameOf(t)) /\ Goto(t, "create") /\ UNCHANGED <<payload, ttl>>
    /\ UNCHANGED <<redis, accounts, mails>>

NewAccount(t) ==
    accounts' = accounts \cup {[email |-> req[t].email, reg |-> payload[t].reg, named |-> payload[t].reg,
                                code |-> IF req[t].op = "admin" THEN Nobody ELSE req[t].code]}

\* Wrong on purpose: no unique indexes.
CreateUnchecked(t) ==
    /\ pc[t] = "create"
    /\ NewAccount(t)
    /\ Answer(t, "ok")
    /\ UNCHANGED <<redis, mails>>

\* users_email_idx and users_username_idx: nobody catches their IntegrityError.
CreateAccount(t) ==
    /\ pc[t] = "create"
    /\ \/ Taken(req[t].email, NameOf(t)) /\ Answer(t, "integrity_error") /\ UNCHANGED accounts
       \/ ~Taken(req[t].email, NameOf(t)) /\ NewAccount(t) /\ Answer(t, "ok")
    /\ UNCHANGED <<redis, mails>>

-----------------------------------------------------------------------------
(* create_admin: no mail, but the same two checks.  update_username. *)

AdminLookup(t) ==
    /\ pc[t] = "admin"
    /\ \/ Taken(req[t].email, req[t].name) /\ Answer(t, "conflict")
       \/ /\ ~Taken(req[t].email, req[t].name)
          /\ payload' = [payload EXCEPT ![t] = NewRecord(t)]
          /\ Goto(t, "create")
          /\ UNCHANGED ttl
    /\ UNCHANGED <<redis, accounts, mails>>

\* The UPDATE and its commit; here the IntegrityError is caught.
Rename(t) ==
    LET e == req[t].email IN
    /\ pc[t] = "rename"
    /\ \/ /\ \E a \in accounts : a.email # e /\ Name(a) = req[t].name
          /\ Answer(t, "conflict")
          /\ UNCHANGED accounts
       \/ /\ \A a \in accounts : a.email # e => Name(a) # req[t].name
          /\ accounts' = {IF a.email = e THEN [a EXCEPT !.named = t] ELSE a : a \in accounts}
          /\ Answer(t, "ok")
    /\ UNCHANGED <<redis, mails>>

-----------------------------------------------------------------------------

Step(t) ==
    \/ RegisterLookup(t) \/ StorePending(t) \/ Mail(t)
    \/ ResendRead(t) \/ ReadTtl(t) \/ ResendStore(t)
    \/ VerifyRead(t) \/ DropPending(t) \/ CountStore(t)
    \/ Claim(t) \/ AccountLookup(t) \/ CreateAccount(t)
    \/ AdminLookup(t) \/ Rename(t)

Crash(t) ==
    /\ pc[t] \notin {"idle", "done"} /\ req[t].op \in Crashable
    /\ Answer(t, "lost")
    /\ UNCHANGED <<redis, accounts, mails>>

\* send_otp_email on the worker: mails arrive in any order, or fail and are not sent again.
SendMail(m) ==
    /\ queue' = queue \ {m}
    /\ inbox' = inbox \cup {m}
    /\ UNCHANGED <<clock, redis, accounts, pc, req, reply, payload, ttl>>

MailFails(m) ==
    /\ queue' = queue \ {m}
    /\ UNCHANGED <<clock, redis, accounts, inbox, pc, req, reply, payload, ttl>>

Tick ==
    /\ clock < MaxTime
    /\ clock' = clock + 1
    /\ UNCHANGED <<redis, accounts, mails, pc, req, reply, payload, ttl>>

Next ==
    \/ \E t \in Txns : (\E r \in Possible : Receive(t, r)) \/ Step(t) \/ Crash(t)
    \/ \E m \in queue : SendMail(m) \/ MailFails(m)
    \/ Tick

Spec == Init /\ [][Next]_vars

-----------------------------------------------------------------------------
(* Properties *)

Labels == {"idle", "done", "register", "store", "mail", "resend", "resend_ttl", "resend_store",
           "verify", "count_ttl", "count_store", "drop", "claim", "lookup", "create", "admin", "rename"}
Payloads == [reg : Txns, code : Txns, attempts : 0 .. MaxAttempts, sent : 0 .. MaxTime]
Letters == [email : Emails, reg : Txns, code : Txns]

\* The types; no registration is kept for longer than otp_ttl_seconds from when it was last
\* written, and the count stored with it never passes otp_max_attempts: the verification that
\* would make it do so deletes the record.  That bounds the count, not the comparisons: two
\* verifications that overlap read the same count and store the same next one.
TypeOK ==
    /\ clock \in 0 .. MaxTime
    /\ pending \in [Emails -> Payloads \cup {NoPayload}]
    /\ \A e \in Emails : ends[e] \in 0 .. clock + Ttl /\ (Pending(e) => pending[e] # NoPayload)
    /\ accounts \subseteq [email : Emails, reg : Txns, code : Txns \cup {Nobody}, named : Txns]
    /\ queue \subseteq Letters /\ inbox \subseteq Letters
    /\ pc \in [Txns -> Labels] /\ req \in [Txns -> RequestSpace \cup {NoRequest}]
    /\ reply \in [Txns -> {"none", "pending", "cooldown", "invalid", "conflict", "integrity_error",
                           "ok", "lost"}]
    /\ \A t \in Txns : [payload[t] EXCEPT !.attempts = 0] \in Payloads \cup {NoPayload}
    /\ ttl \in [Txns -> 0 .. Ttl]

\* An account has the name and the password of the registration whose code reached the
\* address and was typed in, though other registrations of the address, resends and wrong
\* codes may have rewritten the pending record since; another name only from a renaming of
\* this account.  Only the command line opens one without a code.
AccountIsProven ==
    \A a \in accounts :
        /\ req[a.reg].email = a.email /\ req[a.named].email = a.email
        /\ \/ req[a.reg].op = "register" /\ [email |-> a.email, reg |-> a.reg, code |-> a.code] \in inbox
           \/ req[a.reg].op = "admin" /\ a.code = Nobody
        /\ a.named = a.reg \/ req[a.named].op = "rename"

\* Addresses and names are given once, with one code sent in twice at the same time, two
\* addresses that registered the same name, and a name taken by a renaming or on the command
\* line after it was found free.
OneAccountEach ==
    \A a, b \in accounts : a.email = b.email \/ Name(a) = Name(b) => a = b

\* "It expires in 10 minutes." (services/email_jobs.py:18, frontend/app.js:643): when a new
\* code is stored to be mailed, it is stored for otp_ttl_seconds.
MailedCodeLives ==
    [][\A t \in Txns :
        pc[t] \in {"store", "resend_store"} /\ pc'[t] = "mail" =>
            ends'[req[t].email] >= clock + Ttl]_vars
=============================================================================
