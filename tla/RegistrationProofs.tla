------------------------- MODULE RegistrationProofs --------------------------
(***************************************************************************)
(* Theorems of Registration, for any addresses, names, requests and limits. *)
(***************************************************************************)
EXTENDS Registration, TLAPS

\* Where a handler may be.
Path(op) ==
    CASE op = "register" -> {"register", "store", "mail", "done"}
      [] op = "resend" -> {"resend", "resend_ttl", "resend_store", "mail", "done"}
      [] op = "verify" -> {"verify", "claim", "lookup", "create", "count_ttl", "count_store", "drop", "done"}
      [] op = "admin" -> {"admin", "create", "done"}
      [] OTHER -> {"rename", "done"}

\* Where it carries a record, and where it may yet store the one it carries.
Carrying == {"store", "mail", "resend_ttl", "resend_store", "claim", "lookup", "create",
             "count_ttl", "count_store", "drop"}
Storing == {"store", "resend_ttl", "resend_store", "count_ttl", "count_store"}

\* What a handler carries: the attempt it counts may be one too many.
Copies == [reg : Txns, code : Txns, attempts : Nat, sent : 0 .. MaxTime]

Types ==
    /\ clock \in 0 .. MaxTime
    /\ pending \in [Emails -> Payloads \cup {NoPayload}] /\ ends \in [Emails -> Nat]
    /\ accounts \subseteq [email : Emails, reg : Txns, code : Txns \cup {Nobody}, named : Txns]
    /\ queue \subseteq Letters /\ inbox \subseteq Letters
    /\ pc \in [Txns -> Labels] /\ req \in [Txns -> RequestSpace \cup {NoRequest}]
    /\ reply \in [Txns -> {"none", "pending", "cooldown", "invalid", "conflict", "integrity_error",
                           "ok", "lost"}]
    /\ payload \in [Txns -> Copies \cup {NoPayload}] /\ ttl \in [Txns -> 0 .. Ttl]

KeyOK(e) == ends[e] <= clock + Ttl /\ (Pending(e) => pending[e] # NoPayload)

\* What a record says: for which address, which registration and under which code; and
\* wherever that is said: in the store, by a handler, in a mail.
Letter(e, p) == [email |-> e, reg |-> p.reg, code |-> p.code]
Stored == {e \in Emails : pending[e] # NoPayload}
Carriers == {t \in Txns : payload[t] # NoPayload /\ req[t].op # "admin"}
Said == {Letter(e, pending[e]) : e \in Stored} \cup {Letter(req[t].email, payload[t]) : t \in Carriers}
            \cup queue \cup inbox

\* The registration was of this address, and the handler that made the code is past that.
Genuine(m) ==
    /\ m \in Letters
    /\ req[m.reg].op = "register" /\ req[m.reg].email = m.email
    /\ req[m.code].op \in {"register", "resend"} /\ pc[m.code] \notin {"register", "resend"}

HandlerOK(t) ==
    /\ pc[t] = "idle" => req[t] = NoRequest
    /\ pc[t] # "idle" => req[t] \in RequestSpace /\ pc[t] \in Path(req[t].op)
    /\ pc[t] \in Carrying <=> payload[t] # NoPayload
    /\ pc[t] \in Carrying => /\ req[t].op \in {"register", "resend", "admin"} => payload[t].code = t
                             /\ req[t].op \in {"register", "admin"} => payload[t].reg = t
    /\ pc[t] \in Storing => payload[t].attempts <= MaxAttempts
    /\ req[t].op = "verify" =>
          /\ req[t].code # Guess => \E m \in inbox : m.email = req[t].email /\ m.code = req[t].code
          /\ pc[t] \in {"claim", "lookup", "create"} =>
                payload[t].code = req[t].code /\ Letter(req[t].email, payload[t]) \in inbox

IInv ==
    /\ Types
    /\ \A e \in Emails : KeyOK(e)
    /\ \A t \in Txns : HandlerOK(t)
    /\ \A m \in Said : Genuine(m)
    /\ \A m, n \in Said : m.code = n.code => m = n
    /\ AccountIsProven
    /\ OneAccountEach

-----------------------------------------------------------------------------
(* What a step of one handler leaves as it is.                              *)

\* What a request carries.
LEMMA RequestFields ==
    ASSUME NEW r \in RequestSpace
    PROVE  /\ r.op \in {"register", "resend", "verify", "admin", "rename"}
           /\ r.email \in Emails
           /\ r.op = "verify" => r.code \in Txns \cup {Guess}
BY DEF RequestSpace

\* Which request a handler at a label answers.
LEMMA Labelled ==
    ASSUME IInv, NEW t \in Txns, pc[t] # "idle"
    PROVE  /\ req[t] \in RequestSpace /\ req[t].email \in Emails /\ pc[t] \in Path(req[t].op)
           /\ req[t].op \in {"register", "resend", "verify", "admin", "rename"}
           /\ pc[t] \in {"register", "store"} => req[t].op = "register"
           /\ pc[t] = "mail" => req[t].op \in {"register", "resend"}
           /\ pc[t] \in {"resend", "resend_ttl", "resend_store"} => req[t].op = "resend"
           /\ pc[t] \in {"verify", "claim", "lookup", "count_ttl", "count_store", "drop"} => req[t].op = "verify"
           /\ pc[t] = "create" => req[t].op \in {"verify", "admin"}
           /\ pc[t] = "admin" => req[t].op = "admin"
           /\ pc[t] = "rename" => req[t].op = "rename"
<1>1. HandlerOK(t)
    BY DEF IInv
<1>2. req[t] \in RequestSpace /\ pc[t] \in Path(req[t].op)
    BY <1>1 DEF HandlerOK
<1>3. req[t].email \in Emails /\ req[t].op \in {"register", "resend", "verify", "admin", "rename"}
    BY <1>2, RequestFields
<1> QED
    BY <1>2, <1>3 DEF Path

\* What a handler carries where it carries something.
LEMMA Carried ==
    ASSUME IInv, NEW t \in Txns, pc[t] \in Carrying
    PROVE  payload[t] \in Copies
<1>1. payload[t] # NoPayload
    BY DEF IInv, HandlerOK
<1> QED
    BY <1>1 DEF IInv, Types

\* A record is not the empty one.
LEMMA CopyIsNone ==
    ASSUME NEW p \in Copies
    PROVE  p # NoPayload
<1>1. p.reg \in Txns /\ NoPayload.reg = Nobody
    BY DEF Copies, NoPayload
<1> QED
    BY <1>1, CodesAssumption DEF Nobody

\* What is stored may be carried.
LEMMA PayloadIsCopy == Payloads \subseteq Copies
BY LimitsAssumption DEF Payloads, Copies

\* What is stored under an address.
LEMMA StoredIs ==
    ASSUME IInv, NEW e \in Emails, pending[e] # NoPayload
    PROVE  /\ pending[e] \in Payloads /\ Letter(e, pending[e]) \in Said
           /\ pending[e].reg \in Txns /\ pending[e].code \in Txns
<1>1. pending[e] \in Payloads
    BY DEF IInv, Types
<1>2. Letter(e, pending[e]) \in Said
    BY DEF Said, Stored
<1> QED
    BY <1>1, <1>2 DEF Payloads

Acts(t) ==
    /\ pc[t] \notin {"idle", "done"} /\ pc'[t] \notin {"idle", "register", "resend"}
    /\ clock' = clock /\ req' = req /\ inbox' = inbox
    /\ \A x \in Txns \ {t} : pc'[x] = pc[x] /\ payload'[x] = payload[x]

\* The other handlers are where they were, and what was genuine is.
LEMMA Frame ==
    ASSUME IInv, NEW t \in Txns, Acts(t)
    PROVE  /\ \A x \in Txns \ {t} : HandlerOK(x)'
           /\ \A m : Genuine(m) => Genuine(m)'
<1>1. ASSUME NEW x \in Txns \ {t} PROVE HandlerOK(x)'
    <2>1. HandlerOK(x)
        BY DEF IInv
    <2> QED
        BY <2>1 DEF Acts, HandlerOK, Letter
<1>2. ASSUME NEW m, Genuine(m) PROVE Genuine(m)'
    <2>1. m.code \in Txns
        BY <1>2 DEF Genuine, Letters
    <2> QED
        BY <1>2, <2>1 DEF Genuine, Acts
<1> QED
    BY <1>1, <1>2

\* A step that stores or mails nothing but what its handler carries, and carries on nothing
\* but what it carried or found.
Repeats(t) ==
    /\ \A e \in Emails : \/ pending'[e] = pending[e]
                         \/ pending'[e] = NoPayload
                         \/ /\ e = req[t].email /\ t \in Carriers
                            /\ pending'[e] = payload[t]
    /\ \/ payload'[t] \in {NoPayload, payload[t]} \/ req[t].op = "admin"
       \/ /\ pending[req[t].email] # NoPayload
          /\ payload'[t].reg = pending[req[t].email].reg
          /\ payload'[t].code = pending[req[t].email].code
    /\ queue' \subseteq queue \/ (t \in Carriers /\ queue' = queue \cup {Letter(req[t].email, payload[t])})

\* A step that copies records says nothing that was not said before.
LEMMA NothingNew ==
    ASSUME IInv, NEW t \in Txns, Acts(t), Repeats(t)
    PROVE  Said' \subseteq Said
<1>1. ASSUME NEW e \in Stored' PROVE Letter(e, pending'[e]) \in Said
    <2>1. e \in Emails /\ pending'[e] # NoPayload
        BY <1>1 DEF Stored
    <2>2. CASE pending'[e] = pending[e]
        BY <2>1, <2>2, StoredIs
    <2>3. CASE e = req[t].email /\ t \in Carriers /\ pending'[e] = payload[t]
        BY <2>3 DEF Said
    <2> QED
        BY <2>1, <2>2, <2>3 DEF Repeats
<1>2. ASSUME NEW x \in Carriers' PROVE Letter(req'[x].email, payload'[x]) \in Said
    <2>1. x \in Txns /\ payload'[x] # NoPayload /\ req'[x] = req[x] /\ req[x].op # "admin"
        BY <1>2 DEF Carriers, Acts
    <2>2. CASE payload'[x] = payload[x]
        <3>1. x \in Carriers
            BY <2>1, <2>2 DEF Carriers
        <3> QED
            BY <2>1, <2>2, <3>1 DEF Said
    <2>3. CASE x = t /\ payload'[t] # payload[t]
        <3>1. /\ pending[req[t].email] # NoPayload
              /\ payload'[t].reg = pending[req[t].email].reg
              /\ payload'[t].code = pending[req[t].email].code
            BY <2>1, <2>3 DEF Repeats
        <3>2. req[t].email \in Emails
            BY Labelled DEF Acts
        <3>3. Letter(req[t].email, payload'[t]) = Letter(req[t].email, pending[req[t].email])
            BY <3>1 DEF Letter
        <3> QED
            BY <2>1, <2>3, <3>1, <3>2, <3>3, StoredIs
    <2> QED
        BY <2>1, <2>2, <2>3 DEF Acts
<1>3. queue' \subseteq Said
    BY DEF Repeats, Said
<1>4. inbox' \subseteq Said
    BY DEF Acts, Said
<1>5. Said' = {Letter(e, pending'[e]) : e \in Stored'}
                 \cup {Letter(req'[x].email, payload'[x]) : x \in Carriers'} \cup queue' \cup inbox'
    BY DEF Said, Letter
<1> QED
    BY <1>1, <1>2, <1>3, <1>4, <1>5

\* Accounts are what they were, as long as their requests and their letters are.
LEMMA AccountsKept ==
    ASSUME IInv, accounts' = accounts, inbox \subseteq inbox',
           \A x \in Txns : pc[x] # "idle" => req'[x] = req[x]
    PROVE  AccountIsProven' /\ OneAccountEach'
<1>1. ASSUME NEW a \in accounts PROVE req'[a.reg] = req[a.reg] /\ req'[a.named] = req[a.named]
    <2>1. a.reg \in Txns /\ a.named \in Txns
        BY DEF IInv, Types
    <2>2. req[a.reg].op # "none" /\ req[a.named].op # "none"
        BY DEF IInv, AccountIsProven
    <2>3. \A x \in Txns : pc[x] = "idle" => req[x].op = "none"
        BY DEF IInv, HandlerOK, NoRequest
    <2> QED
        BY <2>1, <2>2, <2>3
<1>2. AccountIsProven'
    BY <1>1 DEF IInv, AccountIsProven
<1>3. OneAccountEach'
    BY <1>1 DEF IInv, OneAccountEach, Name
<1> QED
    BY <1>2, <1>3

\* What is left to show of a step that opens no account and makes no code.
LEMMA StepKeeps ==
    ASSUME IInv, NEW t \in Txns, Acts(t), Repeats(t), accounts' = accounts,
           Types', \A e \in Emails : KeyOK(e)', HandlerOK(t)'
    PROVE  IInv'
<1>1. \A x \in Txns : HandlerOK(x)'
    BY Frame
<1>2. Said' \subseteq Said
    BY NothingNew
<1>3. \A m \in Said' : Genuine(m)'
    BY <1>2, Frame DEF IInv
<1>4. \A m, n \in Said' : m.code = n.code => m = n
    BY <1>2 DEF IInv
<1>5. AccountIsProven' /\ OneAccountEach'
    BY AccountsKept DEF Acts
<1> QED
    BY <1>1, <1>3, <1>4, <1>5 DEF IInv

\* A lookup of a name, a rename or a store leaves the keys of the others alone.
LEMMA KeysKept ==
    ASSUME IInv, clock' = clock,
           \A e \in Emails : \/ pending'[e] = pending[e] /\ ends'[e] = ends[e]
                             \/ ends'[e] = 0
                             \/ pending'[e] # NoPayload /\ ends'[e] <= clock + Ttl
    PROVE  \A e \in Emails : KeyOK(e)'
<1> SUFFICES ASSUME NEW e \in Emails PROVE KeyOK(e)'
    OBVIOUS
<1>1. clock \in Nat /\ Ttl \in Nat
    <2>1. clock \in 0 .. MaxTime
        BY DEF IInv, Types
    <2> QED
        BY <2>1, LimitsAssumption
<1>2. KeyOK(e)
    BY DEF IInv
<1> QED
    BY <1>1, <1>2 DEF KeyOK, Pending

\* A handler that answers carries nothing any more.
LEMMA Answered ==
    ASSUME IInv, NEW t \in Txns, NEW a, pc[t] \notin {"idle", "done"}, Answer(t, a), inbox' = inbox
    PROVE  /\ Acts(t) /\ HandlerOK(t)' /\ payload'[t] = NoPayload
           /\ pc' \in [Txns -> Labels] /\ payload' \in [Txns -> Copies \cup {NoPayload}]
           /\ ttl' \in [Txns -> 0 .. Ttl]
<1>1. /\ pc \in [Txns -> Labels] /\ payload \in [Txns -> Copies \cup {NoPayload}]
      /\ ttl \in [Txns -> 0 .. Ttl]
    BY DEF IInv, Types
<1>2. /\ pc'[t] = "done" /\ payload'[t] = NoPayload /\ req' = req /\ clock' = clock
      /\ \A x \in Txns \ {t} : pc'[x] = pc[x] /\ payload'[x] = payload[x]
    BY <1>1 DEF Answer
<1>3. Acts(t)
    BY <1>2 DEF Acts
<1>4. HandlerOK(t)'
    <2>1. HandlerOK(t)
        BY DEF IInv
    <2>2. "done" \in Path(req[t].op)
        BY DEF Path
    <2> QED
        BY <1>2, <2>1, <2>2 DEF HandlerOK, Carrying, Storing
<1>5. pc' \in [Txns -> Labels]
    BY <1>1 DEF Answer, Labels
<1>6. payload' \in [Txns -> Copies \cup {NoPayload}]
    BY <1>1 DEF Answer
<1>7. ttl' \in [Txns -> 0 .. Ttl]
    <2>1. 0 \in 0 .. Ttl
        BY LimitsAssumption
    <2> QED
        BY <1>1, <2>1 DEF Answer
<1> QED
    BY <1>2, <1>3, <1>4, <1>5, <1>6, <1>7

\* An answer that writes nothing, an answer that forgets the record, and one that stores it.
LEMMA AnswerKeeps ==
    ASSUME IInv, NEW t \in Txns, NEW a \in {"pending", "cooldown", "invalid", "conflict", "integrity_error", "lost"},
           pc[t] \notin {"idle", "done"}, Answer(t, a), UNCHANGED <<accounts, mails>>,
           \/ UNCHANGED redis
           \/ Delete(req[t].email)
           \/ pc[t] = "count_store" /\ Set(req[t].email, payload[t], ttl[t])
    PROVE  IInv'
<1>1. inbox' = inbox /\ queue' = queue /\ accounts' = accounts
    BY DEF mails
<1>2. /\ Acts(t) /\ HandlerOK(t)' /\ payload'[t] = NoPayload
      /\ pc' \in [Txns -> Labels] /\ payload' \in [Txns -> Copies \cup {NoPayload}]
      /\ ttl' \in [Txns -> 0 .. Ttl] /\ req' = req /\ clock' = clock
    BY <1>1, Answered DEF Acts
<1>3. req[t].email \in Emails
    BY Labelled
<1>4. /\ pending' \in [Emails -> Payloads \cup {NoPayload}] /\ ends' \in [Emails -> Nat]
      /\ \A e \in Emails : \/ pending'[e] = pending[e] /\ ends'[e] = ends[e]
                           \/ ends'[e] = 0 /\ pending'[e] = NoPayload
                           \/ /\ e = req[t].email /\ t \in Carriers
                              /\ pending'[e] = payload[t] /\ payload[t] # NoPayload
                              /\ ends'[e] <= clock + Ttl
    <2>1. pending \in [Emails -> Payloads \cup {NoPayload}] /\ ends \in [Emails -> Nat]
        BY DEF IInv, Types
    <2>2. CASE UNCHANGED redis
        BY <2>1, <2>2 DEF redis
    <2>3. CASE Delete(req[t].email)
        BY <2>1, <2>3, <1>3 DEF Delete
    <2>4. CASE pc[t] = "count_store" /\ Set(req[t].email, payload[t], ttl[t])
        <3>1. payload[t] \in Copies /\ payload[t].attempts <= MaxAttempts /\ payload[t] # NoPayload
            BY <2>4, Carried, CopyIsNone DEF IInv, HandlerOK, Carrying, Storing
        <3>2. payload[t] \in Payloads
            BY <3>1, LimitsAssumption DEF Copies, Payloads
        <3>3. t \in Carriers
            BY <2>4, <3>1, Labelled DEF Carriers
        <3>4. clock \in 0 .. MaxTime /\ ttl[t] \in 0 .. Ttl
            BY DEF IInv, Types
        <3>5. clock + ttl[t] \in Nat /\ clock + ttl[t] <= clock + Ttl
            BY <3>4, LimitsAssumption
        <3> QED
            BY <2>1, <2>4, <3>1, <3>2, <3>3, <3>5, <1>3 DEF Set
    <2> QED
        BY <2>2, <2>3, <2>4
<1>5. Repeats(t)
    <2>1. \A e \in Emails : \/ pending'[e] = pending[e]
                           \/ pending'[e] = NoPayload
                           \/ (e = req[t].email /\ t \in Carriers /\ pending'[e] = payload[t])
        BY <1>4
    <2>2. payload'[t] \in {NoPayload, payload[t]} /\ queue' \subseteq queue
        BY <1>1, <1>2
    <2> QED
        BY <2>1, <2>2 DEF Repeats
<1>6. \A e \in Emails : KeyOK(e)'
    BY <1>2, <1>4, KeysKept
<1>7. Types'
    BY <1>1, <1>2, <1>4 DEF IInv, Types, Answer
<1> QED
    BY <1>1, <1>2, <1>5, <1>6, <1>7, StepKeeps

\* A handler that goes on.
LEMMA Went ==
    ASSUME IInv, NEW t \in Txns, NEW l \in Labels \ {"idle", "register", "resend"}, Goto(t, l),
           pc[t] \notin {"idle", "done"}, inbox' = inbox,
           \A x \in Txns \ {t} : payload'[x] = payload[x]
    PROVE  /\ Acts(t) /\ pc' \in [Txns -> Labels] /\ pc'[t] = l
           /\ req' = req /\ clock' = clock /\ reply' = reply
<1>1. pc \in [Txns -> Labels]
    BY DEF IInv, Types
<1>2. /\ pc'[t] = l /\ pc' \in [Txns -> Labels] /\ \A x \in Txns \ {t} : pc'[x] = pc[x]
      /\ req' = req /\ clock' = clock /\ reply' = reply
    BY <1>1 DEF Goto
<1> QED
    BY <1>2 DEF Acts

\* A record that a handler carries may be stored for as long as a registration is kept.
LEMMA SetKeeps ==
    ASSUME IInv, NEW t \in Txns, pc[t] \in {"store", "resend_store"}, NEW life \in 0 .. Ttl,
           Set(req[t].email, payload[t], life), Goto(t, "mail"), UNCHANGED <<accounts, mails, payload, ttl>>
    PROVE  IInv'
<1>1. inbox' = inbox /\ queue' = queue /\ accounts' = accounts /\ payload' = payload /\ ttl' = ttl
    BY DEF mails
<1>2. /\ Acts(t) /\ pc' \in [Txns -> Labels] /\ pc'[t] = "mail"
      /\ req' = req /\ clock' = clock /\ reply' = reply
    BY <1>1, Went DEF Labels
<1>3. req[t].email \in Emails /\ req[t].op \in {"register", "resend"}
    BY Labelled
<1>4. payload[t] \in Payloads /\ payload[t] # NoPayload
    <2>1. payload[t] \in Copies /\ payload[t].attempts <= MaxAttempts
        BY Carried DEF IInv, HandlerOK, Carrying, Storing
    <2> QED
        BY <2>1, CopyIsNone, LimitsAssumption DEF Copies, Payloads
<1>5. t \in Carriers
    BY <1>3, <1>4 DEF Carriers
<1>6. clock + life \in Nat /\ clock + life <= clock + Ttl
    <2>1. clock \in 0 .. MaxTime
        BY DEF IInv, Types
    <2> QED
        BY <2>1, LimitsAssumption
<1>7. /\ pending' \in [Emails -> Payloads \cup {NoPayload}] /\ ends' \in [Emails -> Nat]
      /\ \A e \in Emails : \/ pending'[e] = pending[e] /\ ends'[e] = ends[e]
                           \/ /\ e = req[t].email /\ pending'[e] = payload[t]
                              /\ ends'[e] = clock + life
    <2>1. pending \in [Emails -> Payloads \cup {NoPayload}] /\ ends \in [Emails -> Nat]
        BY DEF IInv, Types
    <2> QED
        BY <1>3, <1>4, <1>6, <2>1 DEF Set
<1>8. Repeats(t)
    BY <1>1, <1>5, <1>7 DEF Repeats
<1>9. \A e \in Emails : KeyOK(e)'
    BY <1>2, <1>4, <1>6, <1>7, KeysKept
<1>10. Types'
    BY <1>1, <1>2, <1>7 DEF IInv, Types
<1>11. HandlerOK(t)'
    <2>1. HandlerOK(t)
        BY DEF IInv
    <2>2. "mail" \in Path(req[t].op)
        BY <1>3 DEF Path
    <2> QED
        BY <1>1, <1>2, <1>3, <2>1, <2>2 DEF HandlerOK, Carrying, Storing
<1> QED
    BY <1>1, <1>2, <1>8, <1>9, <1>10, <1>11, StepKeeps

\* The SET of a registration replaces what was pending under the address.
LEMMA StorePendingKeeps ==
    ASSUME IInv, NEW t \in Txns, StorePending(t)
    PROVE  IInv'
<1>1. Ttl \in 0 .. Ttl
    BY LimitsAssumption
<1> QED
    BY <1>1, SetKeeps DEF StorePending

\* The SET of a resend keeps the TTL it has read.
LEMMA ResendStoreKeeps ==
    ASSUME IInv, NEW t \in Txns, ResendStore(t)
    PROVE  IInv'
<1>1. ttl[t] \in 0 .. Ttl
    BY DEF IInv, Types
<1> QED
    BY <1>1, SetKeeps DEF ResendStore

\* The mail that is queued carries the code the handler has stored.
LEMMA MailKeeps ==
    ASSUME IInv, NEW t \in Txns, Mail(t)
    PROVE  IInv'
<1>1. /\ inbox' = inbox /\ accounts' = accounts /\ pending' = pending /\ ends' = ends
      /\ pc[t] = "mail" /\ Answer(t, "pending")
    BY DEF Mail, redis
<1>2. /\ Acts(t) /\ HandlerOK(t)' /\ payload'[t] = NoPayload
      /\ pc' \in [Txns -> Labels] /\ payload' \in [Txns -> Copies \cup {NoPayload}]
      /\ ttl' \in [Txns -> 0 .. Ttl] /\ req' = req /\ clock' = clock
    BY <1>1, Answered DEF Acts
<1>3. req[t].email \in Emails /\ req[t].op \in {"register", "resend"}
    BY <1>1, Labelled
<1>4. payload[t] \in Copies /\ payload[t] # NoPayload /\ payload[t].code = t
    BY <1>1, <1>3, Carried DEF IInv, HandlerOK, Carrying
<1>5. t \in Carriers
    BY <1>3, <1>4 DEF Carriers
<1>6. queue' = queue \cup {Letter(req[t].email, payload[t])}
    BY <1>4 DEF Mail, Letter
<1>7. Repeats(t)
    BY <1>1, <1>2, <1>5, <1>6 DEF Repeats
<1>8. \A e \in Emails : KeyOK(e)'
    BY <1>1, <1>2, KeysKept
<1>9. Types'
    <2>1. Letter(req[t].email, payload[t]) \in Letters
        BY <1>3, <1>4 DEF Letter, Letters, Copies
    <2>2. queue' \subseteq Letters
        BY <1>6, <2>1 DEF IInv, Types
    <2>3. reply' \in [Txns -> {"none", "pending", "cooldown", "invalid", "conflict", "integrity_error",
                               "ok", "lost"}]
        BY <1>1 DEF IInv, Types, Answer
    <2> QED
        BY <1>1, <1>2, <2>2, <2>3 DEF IInv, Types
<1> QED
    BY <1>1, <1>2, <1>7, <1>8, <1>9, StepKeeps

\* A TTL that was read is no longer than the longest.
LEMMA ReadTtlKeeps ==
    ASSUME IInv, NEW t \in Txns, ReadTtl(t)
    PROVE  IInv'
<1>1. /\ inbox' = inbox /\ queue' = queue /\ accounts' = accounts /\ pending' = pending /\ ends' = ends
      /\ payload' = payload /\ pc[t] \in {"resend_ttl", "count_ttl"}
    BY DEF ReadTtl, redis, mails
<1>2. PICK l \in {"resend_store", "count_store"} :
          Goto(t, l) /\ l = IF pc[t] = "resend_ttl" THEN "resend_store" ELSE "count_store"
    BY DEF ReadTtl
<1>3. /\ Acts(t) /\ pc' \in [Txns -> Labels] /\ pc'[t] = l
      /\ req' = req /\ clock' = clock /\ reply' = reply
    BY <1>1, <1>2, Went DEF Labels
<1>4. req[t].email \in Emails /\ l \in Path(req[t].op)
    BY <1>1, <1>2, Labelled DEF Path
<1>5. ttl' \in [Txns -> 0 .. Ttl]
    <2>1. clock \in 0 .. MaxTime /\ ends[req[t].email] \in Nat /\ KeyOK(req[t].email)
        BY <1>4 DEF IInv, Types
    <2>2. Pending(req[t].email) => ends[req[t].email] - clock \in 0 .. Ttl
        BY <2>1, LimitsAssumption DEF KeyOK, Pending
    <2>3. 1 \in 0 .. Ttl
        BY LimitsAssumption
    <2> QED
        BY <2>2, <2>3 DEF ReadTtl, IInv, Types
<1>6. Repeats(t)
    BY <1>1 DEF Repeats
<1>7. \A e \in Emails : KeyOK(e)'
    BY <1>1, <1>3, KeysKept
<1>8. Types'
    BY <1>1, <1>3, <1>5 DEF IInv, Types
<1>9. HandlerOK(t)'
    <2>1. HandlerOK(t)
        BY DEF IInv
    <2> QED
        BY <1>1, <1>2, <1>3, <1>4, <2>1 DEF HandlerOK, Carrying, Storing
<1> QED
    BY <1>1, <1>3, <1>6, <1>7, <1>8, <1>9, StepKeeps

\* Deleting the record leaves the handler with what it has read.
LEMMA ClaimKeeps ==
    ASSUME IInv, NEW t \in Txns, Claim(t)
    PROVE  IInv'
<1>1. /\ inbox' = inbox /\ queue' = queue /\ accounts' = accounts /\ payload' = payload /\ ttl' = ttl
      /\ pc[t] = "claim" /\ Goto(t, "lookup") /\ Delete(req[t].email)
    BY DEF Claim, mails
<1>2. /\ Acts(t) /\ pc' \in [Txns -> Labels] /\ pc'[t] = "lookup"
      /\ req' = req /\ clock' = clock /\ reply' = reply
    BY <1>1, Went DEF Labels
<1>3. req[t].email \in Emails /\ "lookup" \in Path(req[t].op)
    BY <1>1, Labelled DEF Path
<1>4. /\ pending' \in [Emails -> Payloads \cup {NoPayload}] /\ ends' \in [Emails -> Nat]
      /\ \A e \in Emails : \/ pending'[e] = pending[e] /\ ends'[e] = ends[e]
                           \/ ends'[e] = 0 /\ pending'[e] = NoPayload
    BY <1>1, <1>3 DEF Delete, IInv, Types
<1>5. Repeats(t)
    BY <1>1, <1>4 DEF Repeats
<1>6. \A e \in Emails : KeyOK(e)'
    BY <1>2, <1>4, KeysKept
<1>7. Types'
    BY <1>1, <1>2, <1>4 DEF IInv, Types
<1>8. HandlerOK(t)'
    <2>1. HandlerOK(t)
        BY DEF IInv
    <2> QED
        BY <1>1, <1>2, <1>3, <2>1 DEF HandlerOK, Carrying, Storing, Letter
<1> QED
    BY <1>1, <1>2, <1>5, <1>6, <1>7, <1>8, StepKeeps

\* The unlocked look for the address and the name promises nothing.
LEMMA AccountLookupKeeps ==
    ASSUME IInv, NEW t \in Txns, AccountLookup(t)
    PROVE  IInv'
<1>1. pc[t] = "lookup" /\ UNCHANGED <<redis, accounts, mails>>
    BY DEF AccountLookup
<1>2. CASE Answer(t, "conflict")
    BY <1>1, <1>2, AnswerKeeps
<1>3. CASE Goto(t, "create") /\ UNCHANGED <<payload, ttl>>
    <2>1. /\ inbox' = inbox /\ queue' = queue /\ accounts' = accounts /\ payload' = payload /\ ttl' = ttl
          /\ pending' = pending /\ ends' = ends
        BY <1>1, <1>3 DEF mails, redis
    <2>2. /\ Acts(t) /\ pc' \in [Txns -> Labels] /\ pc'[t] = "create"
          /\ req' = req /\ clock' = clock /\ reply' = reply
        BY <1>1, <1>3, <2>1, Went DEF Labels
    <2>3. "create" \in Path(req[t].op)
        BY <1>1, Labelled DEF Path
    <2>4. Repeats(t)
        BY <2>1 DEF Repeats
    <2>5. \A e \in Emails : KeyOK(e)'
        BY <2>1, <2>2, KeysKept
    <2>6. Types'
        BY <2>1, <2>2 DEF IInv, Types
    <2>7. HandlerOK(t)'
        <3>1. HandlerOK(t)
            BY DEF IInv
        <3> QED
            BY <1>1, <2>1, <2>2, <2>3, <3>1 DEF HandlerOK, Carrying, Storing, Letter
    <2> QED
        BY <2>1, <2>2, <2>4, <2>5, <2>6, <2>7, StepKeeps
<1> QED
    BY <1>2, <1>3 DEF AccountLookup

\* A code that matches the record is the one that was said of it.
LEMMA VerifyReadKeeps ==
    ASSUME IInv, NEW t \in Txns, VerifyRead(t)
    PROVE  IInv'
<1>1. pc[t] = "verify" /\ UNCHANGED <<redis, accounts, mails>>
    BY DEF VerifyRead
<1>2. CASE Answer(t, "invalid")
    BY <1>1, <1>2, AnswerKeeps
<1>3. CASE ~Answer(t, "invalid")
    <2>1. PICK e \in Emails : e = req[t].email
        BY <1>1, Labelled
    <2>2. PICK now : now = [pending[e] EXCEPT !.attempts = @ + 1]
        OBVIOUS
    <2>3. PICK l \in {"drop", "claim", "count_ttl"} :
              /\ l = CASE now.attempts > MaxAttempts -> "drop"
                       [] now.attempts <= MaxAttempts /\ now.code = req[t].code -> "claim"
                       [] OTHER -> "count_ttl"
              /\ Pending(e) /\ payload' = [payload EXCEPT ![t] = now] /\ Goto(t, l) /\ ttl' = ttl
        BY <1>3, <2>1, <2>2 DEF VerifyRead
    <2>4. pending[e] # NoPayload
        BY <2>3 DEF IInv, KeyOK
    <2>5. /\ now \in Copies /\ now.attempts \in Nat
          /\ now.reg = pending[e].reg /\ now.code = pending[e].code /\ now.code \in Txns
        BY <2>2, <2>4, StoredIs, LimitsAssumption DEF Payloads, Copies
    <2>6. /\ inbox' = inbox /\ queue' = queue /\ accounts' = accounts
          /\ pending' = pending /\ ends' = ends
        BY <1>1 DEF mails, redis
    <2>7. /\ payload' \in [Txns -> Copies \cup {NoPayload}] /\ payload'[t] = now
          /\ \A x \in Txns \ {t} : payload'[x] = payload[x]
        BY <2>3, <2>5 DEF IInv, Types
    <2>8. /\ Acts(t) /\ pc' \in [Txns -> Labels] /\ pc'[t] = l
          /\ req' = req /\ clock' = clock /\ reply' = reply
        BY <1>1, <2>3, <2>6, <2>7, Went DEF Labels
    <2>9. req[t].op = "verify" /\ l \in Path(req[t].op)
        BY <1>1, <2>3, Labelled DEF Path
    <2>10. Repeats(t)
        BY <2>1, <2>4, <2>5, <2>6, <2>7 DEF Repeats
    <2>11. \A x \in Emails : KeyOK(x)'
        BY <2>6, <2>8, KeysKept
    <2>12. Types'
        BY <2>3, <2>6, <2>7, <2>8 DEF IInv, Types
    <2>13. l = "claim" => now.code = req[t].code /\ Letter(e, now) \in inbox
        <3> SUFFICES ASSUME l = "claim" PROVE now.code = req[t].code /\ Letter(e, now) \in inbox
            OBVIOUS
        <3>1. now.code = req[t].code
            BY <2>3
        <3>2. PICK m \in inbox : m.email = e /\ m.code = now.code
            BY <2>1, <2>5, <2>9, <3>1, CodesAssumption DEF IInv, HandlerOK
        <3>3. m \in Said /\ Letter(e, pending[e]) \in Said
            BY <2>4, <3>2, StoredIs DEF Said
        <3>4. Letter(e, pending[e]).code = pending[e].code /\ Letter(e, now) = Letter(e, pending[e])
            BY <2>5 DEF Letter
        <3>5. m = Letter(e, pending[e])
            BY <2>5, <3>2, <3>3, <3>4 DEF IInv
        <3> QED
            BY <3>1, <3>2, <3>4, <3>5
    <2>14. l = "count_ttl" => now.attempts <= MaxAttempts
        BY <2>3, <2>5, LimitsAssumption
    <2>15. HandlerOK(t)'
        <3>1. HandlerOK(t)
            BY DEF IInv
        <3>2. now # NoPayload
            BY <2>5, CopyIsNone
        <3> QED
            BY <1>1, <2>1, <2>3, <2>6, <2>7, <2>8, <2>9, <2>13, <2>14, <3>1, <3>2
               DEF HandlerOK, Carrying, Storing, Letter
    <2> QED
        BY <2>6, <2>8, <2>10, <2>11, <2>12, <2>15, StepKeeps
<1> QED
    BY <1>2, <1>3

\* Two answers of a verification, and one that comes never.
LEMMA DropPendingKeeps ==
    ASSUME IInv, NEW t \in Txns, DropPending(t)
    PROVE  IInv'
BY AnswerKeeps DEF DropPending

\* A refused attempt writes back the record with one attempt more.
LEMMA CountStoreKeeps ==
    ASSUME IInv, NEW t \in Txns, CountStore(t)
    PROVE  IInv'
BY AnswerKeeps DEF CountStore

\* A worker that dies stops between two commands.
LEMMA CrashKeeps ==
    ASSUME IInv, NEW t \in Txns, Crash(t)
    PROVE  IInv'
BY AnswerKeeps DEF Crash

\* A handler that makes a code: nobody has said it before.
LEMMA MakeKeeps ==
    ASSUME IInv, NEW t \in Txns, pc[t] \in {"register", "resend"}, NEW p \in Copies,
           p.code = t, p.attempts = 0,
           req[t].op = "register" => p.reg = t,
           req[p.reg].op = "register", req[p.reg].email = req[t].email,
           payload' = [payload EXCEPT ![t] = p],
           NEW l \in {"store", "resend_ttl"}, l \in Path(req[t].op), Goto(t, l),
           UNCHANGED <<redis, accounts, mails, ttl>>
    PROVE  IInv'
<1>1. /\ inbox' = inbox /\ queue' = queue /\ accounts' = accounts
      /\ pending' = pending /\ ends' = ends /\ ttl' = ttl
    BY DEF mails, redis
<1>2. /\ payload' \in [Txns -> Copies \cup {NoPayload}] /\ payload'[t] = p
      /\ \A x \in Txns \ {t} : payload'[x] = payload[x]
    BY DEF IInv, Types
<1>3. /\ Acts(t) /\ pc' \in [Txns -> Labels] /\ pc'[t] = l
      /\ req' = req /\ clock' = clock /\ reply' = reply
    BY <1>1, <1>2, Went DEF Labels
<1>4. req[t].email \in Emails /\ req[t].op \in {"register", "resend"}
    BY Labelled
<1>5. PICK n : n = Letter(req[t].email, p)
    OBVIOUS
<1>6. Said' \subseteq Said \cup {n}
    <2>1. ASSUME NEW e \in Stored' PROVE Letter(e, pending'[e]) \in Said
        <3>1. e \in Emails /\ pending[e] # NoPayload /\ pending'[e] = pending[e]
            BY <1>1, <2>1 DEF Stored
        <3> QED
            BY <3>1, StoredIs
    <2>2. ASSUME NEW x \in Carriers' PROVE Letter(req'[x].email, payload'[x]) \in Said \cup {n}
        <3>1. x \in Txns /\ payload'[x] # NoPayload /\ req'[x] = req[x] /\ req[x].op # "admin"
            BY <1>3, <2>2 DEF Carriers
        <3>2. CASE x = t
            BY <1>2, <1>5, <3>1, <3>2
        <3>3. CASE x # t
            <4>1. payload'[x] = payload[x] /\ x \in Carriers
                BY <1>2, <3>1, <3>3 DEF Carriers
            <4> QED
                BY <3>1, <4>1 DEF Said
        <3> QED
            BY <3>2, <3>3
    <2>3. queue' \subseteq Said /\ inbox' \subseteq Said
        BY <1>1 DEF Said
    <2>4. Said' = {Letter(e, pending'[e]) : e \in Stored'}
                     \cup {Letter(req'[x].email, payload'[x]) : x \in Carriers'} \cup queue' \cup inbox'
        BY DEF Said, Letter
    <2> QED
        BY <2>1, <2>2, <2>3, <2>4
<1>7. Genuine(n)'
    <2>1. n \in Letters /\ n.code = t /\ n.reg = p.reg /\ n.email = req[t].email
        BY <1>4, <1>5 DEF Letter, Letters, Copies
    <2> QED
        BY <1>3, <1>4, <2>1 DEF Genuine
<1>8. \A m \in Said : m.code # t
    <2>1. \A m \in Said : Genuine(m)
        BY DEF IInv
    <2> QED
        BY <2>1 DEF Genuine
<1>9. \A m \in Said' : Genuine(m)'
    BY <1>3, <1>6, <1>7, Frame DEF IInv
<1>10. \A m, k \in Said' : m.code = k.code => m = k
    <2>1. n.code = t
        BY <1>5 DEF Letter
    <2>2. \A m, k \in Said : m.code = k.code => m = k
        BY DEF IInv
    <2> QED
        BY <1>6, <1>8, <2>1, <2>2
<1>11. HandlerOK(t)'
    <2>1. HandlerOK(t)
        BY DEF IInv
    <2>2. p # NoPayload
        BY CopyIsNone
    <2>3. p.attempts <= MaxAttempts
        BY LimitsAssumption
    <2> QED
        BY <1>2, <1>3, <1>4, <2>1, <2>2, <2>3 DEF HandlerOK, Carrying, Storing
<1>12. \A x \in Txns : HandlerOK(x)'
    BY <1>3, <1>11, Frame
<1>13. \A e \in Emails : KeyOK(e)'
    BY <1>1, <1>3, KeysKept
<1>14. Types'
    BY <1>1, <1>2, <1>3 DEF IInv, Types
<1>15. AccountIsProven' /\ OneAccountEach'
    BY <1>1, <1>3, AccountsKept
<1> QED
    BY <1>9, <1>10, <1>12, <1>13, <1>14, <1>15 DEF IInv

\* A new record carries its own request's code and registration.
LEMMA NewRecordIs ==
    ASSUME IInv, NEW t \in Txns
    PROVE  /\ NewRecord(t) \in Copies /\ NewRecord(t).attempts = 0
           /\ NewRecord(t).code = t /\ NewRecord(t).reg = t
BY DEF IInv, Types, NewRecord, Copies

\* A registration looks for the address and goes on with a code of its own.
LEMMA RegisterLookupKeeps ==
    ASSUME IInv, NEW t \in Txns, RegisterLookup(t)
    PROVE  IInv'
<1>1. pc[t] = "register" /\ UNCHANGED <<redis, accounts, mails>>
    BY DEF RegisterLookup
<1>2. CASE Answer(t, "pending")
    BY <1>1, <1>2, AnswerKeeps
<1>3. CASE payload' = [payload EXCEPT ![t] = NewRecord(t)] /\ Goto(t, "store") /\ UNCHANGED ttl
    <2>1. req[t].op = "register" /\ "store" \in Path(req[t].op)
        BY <1>1, Labelled DEF Path
    <2> QED
        BY <1>1, <1>3, <2>1, NewRecordIs, MakeKeeps
<1> QED
    BY <1>2, <1>3 DEF RegisterLookup

\* A resend goes on with the registration it has read and a code of its own.
LEMMA ResendReadKeeps ==
    ASSUME IInv, NEW t \in Txns, ResendRead(t)
    PROVE  IInv'
<1>1. pc[t] = "resend" /\ UNCHANGED <<redis, accounts, mails>>
    BY DEF ResendRead
<1>2. CASE Answer(t, "pending")
    BY <1>1, <1>2, AnswerKeeps
<1>3. CASE Answer(t, "cooldown")
    BY <1>1, <1>3, AnswerKeeps
<1>4. CASE ~Answer(t, "pending") /\ ~Answer(t, "cooldown")
    <2>1. PICK e \in Emails : e = req[t].email
        BY <1>1, Labelled
    <2>2. PICK p : p = [pending[e] EXCEPT !.code = t, !.attempts = 0, !.sent = clock]
        OBVIOUS
    <2>3. /\ Pending(e) /\ payload' = [payload EXCEPT ![t] = p] /\ Goto(t, "resend_ttl") /\ ttl' = ttl
        BY <1>4, <2>1, <2>2 DEF ResendRead
    <2>4. pending[e] # NoPayload
        BY <2>3 DEF IInv, KeyOK
    <2>5. clock \in 0 .. MaxTime
        BY DEF IInv, Types
    <2>6. p \in Copies /\ p.attempts = 0 /\ p.code = t /\ p.reg = pending[e].reg
        BY <2>2, <2>4, <2>5, StoredIs DEF Payloads, Copies
    <2>7. req[p.reg].op = "register" /\ req[p.reg].email = e
        <3>1. Genuine(Letter(e, pending[e]))
            BY <2>4, StoredIs DEF IInv
        <3> QED
            BY <2>6, <3>1 DEF Genuine, Letter
    <2>8. req[t].op = "resend" /\ "resend_ttl" \in Path(req[t].op)
        BY <1>1, Labelled DEF Path
    <2> QED
        BY <1>1, <2>1, <2>3, <2>6, <2>7, <2>8, MakeKeeps
<1> QED
    BY <1>2, <1>3, <1>4

\* The command line makes no code: what it carries is stored nowhere and mailed to nobody.
LEMMA AdminLookupKeeps ==
    ASSUME IInv, NEW t \in Txns, AdminLookup(t)
    PROVE  IInv'
<1>1. pc[t] = "admin" /\ UNCHANGED <<redis, accounts, mails>>
    BY DEF AdminLookup
<1>2. CASE Answer(t, "conflict")
    BY <1>1, <1>2, AnswerKeeps
<1>3. CASE payload' = [payload EXCEPT ![t] = NewRecord(t)] /\ Goto(t, "create") /\ UNCHANGED ttl
    <2>1. /\ inbox' = inbox /\ queue' = queue /\ accounts' = accounts
          /\ pending' = pending /\ ends' = ends /\ ttl' = ttl
        BY <1>1, <1>3 DEF mails, redis
    <2>2. /\ payload' \in [Txns -> Copies \cup {NoPayload}] /\ payload'[t] = NewRecord(t)
          /\ \A x \in Txns \ {t} : payload'[x] = payload[x]
        BY <1>3, NewRecordIs DEF IInv, Types
    <2>3. /\ Acts(t) /\ pc' \in [Txns -> Labels] /\ pc'[t] = "create"
          /\ req' = req /\ clock' = clock /\ reply' = reply
        BY <1>1, <1>3, <2>1, <2>2, Went DEF Labels
    <2>4. req[t].op = "admin" /\ "create" \in Path(req[t].op)
        BY <1>1, Labelled DEF Path
    <2>5. Repeats(t)
        BY <2>1, <2>4 DEF Repeats
    <2>6. \A e \in Emails : KeyOK(e)'
        BY <2>1, <2>3, KeysKept
    <2>7. Types'
        BY <2>1, <2>2, <2>3 DEF IInv, Types
    <2>8. HandlerOK(t)'
        <3>1. HandlerOK(t)
            BY DEF IInv
        <3>2. NewRecord(t) # NoPayload
            BY NewRecordIs, CopyIsNone
        <3> QED
            BY <1>1, <2>2, <2>3, <2>4, <3>1, <3>2, NewRecordIs DEF HandlerOK, Carrying, Storing
    <2> QED
        BY <2>1, <2>3, <2>5, <2>6, <2>7, <2>8, StepKeeps
<1> QED
    BY <1>2, <1>3 DEF AdminLookup

\* A handler that is answered and changed accounts only.
LEMMA AccountsWritten ==
    ASSUME IInv, NEW t \in Txns, pc[t] \notin {"idle", "done"}, Answer(t, "ok"), UNCHANGED <<redis, mails>>,
           accounts' \subseteq [email : Emails, reg : Txns, code : Txns \cup {Nobody}, named : Txns],
           AccountIsProven', OneAccountEach'
    PROVE  IInv'
<1>1. inbox' = inbox /\ queue' = queue /\ pending' = pending /\ ends' = ends
    BY DEF mails, redis
<1>2. /\ Acts(t) /\ HandlerOK(t)' /\ payload'[t] = NoPayload
      /\ pc' \in [Txns -> Labels] /\ payload' \in [Txns -> Copies \cup {NoPayload}]
      /\ ttl' \in [Txns -> 0 .. Ttl] /\ req' = req /\ clock' = clock
    BY <1>1, Answered DEF Acts
<1>3. Repeats(t)
    BY <1>1, <1>2 DEF Repeats
<1>4. Said' \subseteq Said
    BY <1>2, <1>3, NothingNew
<1>5. \A m \in Said' : Genuine(m)'
    BY <1>2, <1>4, Frame DEF IInv
<1>6. \A m, n \in Said' : m.code = n.code => m = n
    BY <1>4 DEF IInv
<1>7. \A x \in Txns : HandlerOK(x)'
    BY <1>2, Frame
<1>8. \A e \in Emails : KeyOK(e)'
    BY <1>1, <1>2, KeysKept
<1>9. Types'
    BY <1>1, <1>2 DEF IInv, Types, Answer
<1> QED
    BY <1>5, <1>6, <1>7, <1>8, <1>9 DEF IInv

\* The account opened is that of the registration whose code was typed in, or of the command
\* line; its address and its name are nobody's.
LEMMA CreateAccountKeeps ==
    ASSUME IInv, NEW t \in Txns, CreateAccount(t)
    PROVE  IInv'
<1>1. pc[t] = "create" /\ UNCHANGED <<redis, mails>>
    BY DEF CreateAccount
<1>2. CASE Answer(t, "integrity_error") /\ accounts' = accounts
    BY <1>1, <1>2, AnswerKeeps
<1>3. CASE ~Taken(req[t].email, NameOf(t)) /\ NewAccount(t) /\ Answer(t, "ok")
    <2>1. req' = req /\ inbox' = inbox
        BY <1>1, <1>3 DEF Answer, mails
    <2>2. PICK n : n = [email |-> req[t].email, reg |-> payload[t].reg, named |-> payload[t].reg,
                        code |-> IF req[t].op = "admin" THEN Nobody ELSE req[t].code]
        OBVIOUS
    <2>3. accounts' = accounts \cup {n}
        BY <1>3, <2>2 DEF NewAccount
    <2>4. /\ HandlerOK(t) /\ payload[t] # NoPayload /\ payload[t] \in Copies
          /\ req[t].email \in Emails /\ req[t].op \in {"verify", "admin"}
        BY <1>1, Carried, Labelled DEF IInv, HandlerOK, Carrying
    <2>5. /\ payload[t].reg \in Txns /\ payload[t].code \in Txns
          /\ req[t].op = "admin" => payload[t].reg = t
          /\ req[t].op = "verify" =>
                payload[t].code = req[t].code /\ Letter(req[t].email, payload[t]) \in inbox
        BY <1>1, <2>4 DEF HandlerOK, Carrying, Copies
    <2>6. /\ n.email = req[t].email /\ n.reg = payload[t].reg /\ n.named = n.reg
          /\ n.code = IF req[t].op = "admin" THEN Nobody ELSE payload[t].code
          /\ n \in [email : Emails, reg : Txns, code : Txns \cup {Nobody}, named : Txns]
        BY <2>2, <2>4, <2>5
    <2>7. accounts' \subseteq [email : Emails, reg : Txns, code : Txns \cup {Nobody}, named : Txns]
        BY <2>3, <2>6 DEF IInv, Types
    <2>8. /\ req[n.reg].email = n.email
          /\ \/ (req[n.reg].op = "register" /\ [email |-> n.email, reg |-> n.reg, code |-> n.code] \in inbox)
             \/ (req[n.reg].op = "admin" /\ n.code = Nobody)
        <3>1. CASE req[t].op = "admin"
            BY <2>5, <2>6, <3>1
        <3>2. CASE req[t].op = "verify"
            <4>1. Letter(req[t].email, payload[t]) = [email |-> n.email, reg |-> n.reg, code |-> n.code]
                BY <2>6, <3>2 DEF Letter
            <4>2. Genuine(Letter(req[t].email, payload[t]))
                BY <2>5, <3>2 DEF IInv, Said
            <4> QED
                BY <2>5, <2>6, <3>2, <4>1, <4>2 DEF Genuine
        <3> QED
            BY <2>4, <3>1, <3>2
    <2>9. AccountIsProven'
        BY <2>1, <2>3, <2>6, <2>8 DEF IInv, AccountIsProven
    <2>10. \A a \in accounts : a.email # n.email /\ Name(a) # Name(n)
        BY <1>3, <2>6 DEF Taken, NameOf, Name
    <2>11. OneAccountEach'
        BY <2>1, <2>3, <2>10 DEF IInv, OneAccountEach, Name
    <2> QED
        BY <1>1, <1>3, <2>7, <2>9, <2>11, AccountsWritten
<1> QED
    BY <1>2, <1>3 DEF CreateAccount

\* A renaming changes one account at most, and its new name is nobody else's.
LEMMA RenameKeeps ==
    ASSUME IInv, NEW t \in Txns, Rename(t)
    PROVE  IInv'
<1>1. pc[t] = "rename" /\ UNCHANGED <<redis, mails>>
    BY DEF Rename
<1>2. CASE Answer(t, "conflict") /\ accounts' = accounts
    BY <1>1, <1>2, AnswerKeeps
<1>3. CASE ~(Answer(t, "conflict") /\ accounts' = accounts)
    <2>1. PICK e \in Emails : e = req[t].email
        BY <1>1, Labelled
    <2>2. /\ \A a \in accounts : a.email # e => Name(a) # req[t].name
          /\ accounts' = {IF a.email = e THEN [a EXCEPT !.named = t] ELSE a : a \in accounts}
          /\ Answer(t, "ok")
        BY <1>3, <2>1 DEF Rename
    <2>3. req' = req /\ inbox' = inbox /\ req[t].op = "rename"
        BY <1>1, <2>2, Labelled DEF Answer, mails
    <2>4. \A a \in accounts : a \in [email : Emails, reg : Txns, code : Txns \cup {Nobody}, named : Txns]
        BY DEF IInv, Types
    <2>5. ASSUME NEW b \in accounts'
          PROVE  /\ b \in [email : Emails, reg : Txns, code : Txns \cup {Nobody}, named : Txns]
                 /\ \E a \in accounts :
                       /\ b.email = a.email /\ b.reg = a.reg /\ b.code = a.code
                       /\ a.email = e => b.named = t
                       /\ a.email # e => b = a
        <3>1. PICK a \in accounts : b = IF a.email = e THEN [a EXCEPT !.named = t] ELSE a
            BY <2>2
        <3> QED
            BY <2>4, <3>1
    <2>6. accounts' \subseteq [email : Emails, reg : Txns, code : Txns \cup {Nobody}, named : Txns]
        BY <2>5
    <2>7. AccountIsProven'
        <3>1. ASSUME NEW b \in accounts'
              PROVE  /\ req[b.reg].email = b.email /\ req[b.named].email = b.email
                     /\ \/ (req[b.reg].op = "register" /\ [email |-> b.email, reg |-> b.reg, code |-> b.code] \in inbox)
                        \/ (req[b.reg].op = "admin" /\ b.code = Nobody)
                     /\ b.named = b.reg \/ req[b.named].op = "rename"
            <4>1. PICK a \in accounts :
                       /\ b.email = a.email /\ b.reg = a.reg /\ b.code = a.code
                       /\ a.email = e => b.named = t
                       /\ a.email # e => b = a
                BY <2>5
            <4> QED
                BY <2>1, <2>3, <4>1 DEF IInv, AccountIsProven
        <3> QED
            BY <2>3, <3>1 DEF AccountIsProven
    <2>8. OneAccountEach'
        <3>1. ASSUME NEW b \in accounts', NEW c \in accounts',
                     b.email = c.email \/ req[b.named].name = req[c.named].name
              PROVE  b = c
            <4>1. PICK a \in accounts :
                       /\ b.email = a.email /\ b.reg = a.reg /\ b.code = a.code
                       /\ a.email = e => b.named = t
                       /\ a.email # e => b = a
                BY <2>5
            <4>2. PICK d \in accounts :
                       /\ c.email = d.email /\ c.reg = d.reg /\ c.code = d.code
                       /\ d.email = e => c.named = t
                       /\ d.email # e => c = d
                BY <2>5
            <4>3. a.email = d.email \/ req[a.named].name = req[d.named].name \/ (a.email = e /\ d.email = e)
                BY <2>1, <2>2, <3>1, <4>1, <4>2 DEF Name
            <4>4. a = d
                BY <4>3 DEF IInv, OneAccountEach, Name
            <4> QED
                BY <2>5, <4>1, <4>2, <4>4
        <3> QED
            BY <2>3, <3>1 DEF OneAccountEach, Name
    <2> QED
        BY <1>1, <2>2, <2>6, <2>7, <2>8, AccountsWritten
<1> QED
    BY <1>2, <1>3

-----------------------------------------------------------------------------
(* Requests that come, mails on their way, and time.                        *)

\* A request arrives with a code some mail has brought, or a guess.
LEMMA ReceiveKeeps ==
    ASSUME IInv, NEW t \in Txns, NEW r \in Possible, Receive(t, r)
    PROVE  IInv'
<1>1. /\ clock' = clock /\ pending' = pending /\ ends' = ends /\ accounts' = accounts
      /\ queue' = queue /\ inbox' = inbox /\ reply' = reply /\ payload' = payload /\ ttl' = ttl
    BY DEF Receive, redis, mails
<1>2. r \in RequestSpace /\ r.op \in {"register", "resend", "verify", "admin", "rename"}
    BY RequestFields, RegistrationRequestsAssumption DEF Possible
<1>3. /\ pc[t] = "idle" /\ req[t] = NoRequest /\ req[t].op = "none" /\ payload[t] = NoPayload
    BY DEF Receive, IInv, HandlerOK, Carrying, NoRequest
<1>4. /\ req' \in [Txns -> RequestSpace \cup {NoRequest}] /\ req'[t] = r
      /\ \A x \in Txns \ {t} : req'[x] = req[x]
    BY <1>2 DEF Receive, IInv, Types
<1>5. /\ pc' \in [Txns -> Labels] /\ pc'[t] = r.op
      /\ \A x \in Txns \ {t} : pc'[x] = pc[x]
    BY <1>2 DEF Receive, IInv, Types, Labels
<1>6. Types'
    BY <1>1, <1>4, <1>5 DEF IInv, Types
<1>7. \A e \in Emails : KeyOK(e)'
    BY <1>1, KeysKept
<1>8. \A x \in Txns : HandlerOK(x)'
    <2>1. ASSUME NEW x \in Txns \ {t} PROVE HandlerOK(x)'
        <3>1. HandlerOK(x)
            BY DEF IInv
        <3> QED
            BY <1>1, <1>4, <1>5, <3>1 DEF HandlerOK, Letter
    <2>2. HandlerOK(t)'
        <3>1. r.op \in Path(r.op) /\ r.op \notin Carrying /\ r.op \notin Storing /\ r.op # "idle"
            BY <1>2 DEF Path, Carrying, Storing
        <3>2. r.op = "verify" /\ r.code # Guess => \E m \in inbox : m.email = r.email /\ m.code = r.code
            BY DEF Possible
        <3> QED
            BY <1>1, <1>2, <1>3, <1>4, <1>5, <3>1, <3>2 DEF HandlerOK
    <2> QED
        BY <2>1, <2>2
<1>9. Said' \subseteq Said
    <2>1. Stored' = Stored
        BY <1>1 DEF Stored
    <2>2. ASSUME NEW x \in Carriers' PROVE Letter(req'[x].email, payload'[x]) \in Said
        <3>1. x \in Txns \ {t} /\ req'[x] = req[x] /\ payload'[x] = payload[x] /\ x \in Carriers
            BY <1>1, <1>3, <1>4, <2>2 DEF Carriers
        <3> QED
            BY <3>1 DEF Said
    <2>3. Said' = {Letter(e, pending'[e]) : e \in Stored'}
                     \cup {Letter(req'[x].email, payload'[x]) : x \in Carriers'} \cup queue' \cup inbox'
        BY DEF Said, Letter
    <2> QED
        BY <1>1, <2>1, <2>2, <2>3 DEF Said
<1>10. \A m \in Said' : Genuine(m)'
    <2>1. ASSUME NEW m \in Said PROVE Genuine(m)'
        <3>1. Genuine(m)
            BY DEF IInv
        <3>2. m.reg \in Txns \ {t} /\ m.code \in Txns \ {t}
            BY <1>3, <3>1 DEF Genuine, Letters
        <3> QED
            BY <1>4, <1>5, <3>1, <3>2 DEF Genuine
    <2> QED
        BY <1>9, <2>1
<1>11. \A m, n \in Said' : m.code = n.code => m = n
    BY <1>9 DEF IInv
<1>12. AccountIsProven' /\ OneAccountEach'
    BY <1>1, <1>3, <1>4, AccountsKept
<1> QED
    BY <1>6, <1>7, <1>8, <1>10, <1>11, <1>12 DEF IInv

\* A mail that arrives or is lost, and a second that passes.
LEMMA OutsideKeeps ==
    ASSUME IInv, UNCHANGED <<redis, accounts, pc, req, reply, payload, ttl>>,
           clock' \in 0 .. MaxTime, clock' >= clock,
           queue' \subseteq queue, inbox \subseteq inbox', inbox' \subseteq inbox \cup queue
    PROVE  IInv'
<1>1. /\ pending' = pending /\ ends' = ends /\ accounts' = accounts
      /\ pc' = pc /\ req' = req /\ reply' = reply /\ payload' = payload /\ ttl' = ttl
    BY DEF redis
<1>2. Types'
    BY <1>1 DEF IInv, Types
<1>3. \A e \in Emails : KeyOK(e)'
    <2> SUFFICES ASSUME NEW e \in Emails PROVE KeyOK(e)'
        OBVIOUS
    <2>1. KeyOK(e) /\ ends[e] \in Nat /\ clock \in 0 .. MaxTime
        BY DEF IInv, Types
    <2>2. clock \in Nat /\ clock' \in Nat /\ Ttl \in Nat
        BY <2>1, LimitsAssumption
    <2> QED
        BY <1>1, <2>1, <2>2 DEF KeyOK, Pending
<1>4. \A x \in Txns : HandlerOK(x)'
    <2> SUFFICES ASSUME NEW x \in Txns PROVE HandlerOK(x)'
        OBVIOUS
    <2>1. HandlerOK(x)
        BY DEF IInv
    <2> QED
        BY <1>1, <2>1 DEF HandlerOK, Letter
<1>5. Said' \subseteq Said
    BY <1>1 DEF Said, Stored, Carriers, Letter
<1>6. \A m \in Said' : Genuine(m)'
    BY <1>1, <1>5 DEF IInv, Genuine
<1>7. \A m, n \in Said' : m.code = n.code => m = n
    BY <1>5 DEF IInv
<1>8. AccountIsProven' /\ OneAccountEach'
    BY <1>1, AccountsKept
<1> QED
    BY <1>2, <1>3, <1>4, <1>6, <1>7, <1>8 DEF IInv

\* At first nothing is pending, mailed or opened.
LEMMA InitHolds == Init => IInv
<1> SUFFICES ASSUME Init PROVE IInv
    OBVIOUS
<1>1. Types
    <2>1. 0 \in 0 .. MaxTime /\ 0 \in 0 .. Ttl /\ 0 \in Nat
        BY LimitsAssumption
    <2> QED
        BY <2>1 DEF Init, Types, Labels
<1>2. \A e \in Emails : KeyOK(e)
    <2> SUFFICES ASSUME NEW e \in Emails PROVE KeyOK(e)
        OBVIOUS
    <2>1. Ttl \in Nat /\ clock = 0 /\ ends[e] = 0
        BY LimitsAssumption DEF Init
    <2>2. ends[e] <= clock + Ttl /\ ~Pending(e)
        BY <2>1 DEF Pending
    <2> QED
        BY <2>2 DEF KeyOK
<1>3. \A t \in Txns : HandlerOK(t)
    BY DEF Init, HandlerOK, Carrying, Storing, NoRequest
<1>4. Said = {}
    BY DEF Init, Said, Stored, Carriers
<1>5. AccountIsProven /\ OneAccountEach
    BY DEF Init, AccountIsProven, OneAccountEach
<1> QED
    BY <1>1, <1>2, <1>3, <1>4, <1>5 DEF IInv

\* IInv is inductive: one case for each step of the module.
LEMMA NextKeeps == IInv /\ [Next]_vars => IInv'
<1> SUFFICES ASSUME IInv, [Next]_vars PROVE IInv'
    OBVIOUS
<1>1. ASSUME NEW t \in Txns, Step(t) PROVE IInv'
    BY <1>1, RegisterLookupKeeps, StorePendingKeeps, MailKeeps, ResendReadKeeps, ReadTtlKeeps,
       ResendStoreKeeps, VerifyReadKeeps, DropPendingKeeps, CountStoreKeeps, ClaimKeeps,
       AccountLookupKeeps, CreateAccountKeeps, AdminLookupKeeps, RenameKeeps DEF Step
<1>2. clock \in 0 .. MaxTime /\ clock \in Nat
    BY DEF IInv, Types
<1>3. ASSUME NEW m \in queue, SendMail(m) \/ MailFails(m) PROVE IInv'
    BY <1>2, <1>3, OutsideKeeps DEF SendMail, MailFails
<1>4. CASE Tick
    <2>1. clock' \in 0 .. MaxTime /\ clock' >= clock
        BY <1>2, <1>4, LimitsAssumption DEF Tick
    <2> QED
        BY <1>4, <2>1, OutsideKeeps DEF Tick, mails
<1>5. CASE UNCHANGED vars
    BY <1>2, <1>5, OutsideKeeps DEF vars, redis
<1> QED
    BY <1>1, <1>3, <1>4, <1>5, ReceiveKeeps, CrashKeeps DEF Next

\* IInv holds in every reachable state.
LEMMA AccountsHold == Spec => []IInv
BY InitHolds, NextKeeps, PTL DEF Spec

-----------------------------------------------------------------------------
(* The theorems.                                                            *)

\* Nothing is kept for longer than otp_ttl_seconds, or after more refused attempts than
\* otp_max_attempts; what expires was there, and every handler is where its request leads it.
THEOREM TypesHold == Spec => []TypeOK
<1>1. IInv => TypeOK
    <2> SUFFICES ASSUME IInv PROVE TypeOK
        OBVIOUS
    <2>1. \A e \in Emails : ends[e] \in 0 .. clock + Ttl /\ (Pending(e) => pending[e] # NoPayload)
        <3> SUFFICES ASSUME NEW e \in Emails
                     PROVE  ends[e] \in 0 .. clock + Ttl /\ (Pending(e) => pending[e] # NoPayload)
            OBVIOUS
        <3>1. KeyOK(e) /\ ends[e] \in Nat /\ clock \in 0 .. MaxTime
            BY DEF IInv, Types
        <3> QED
            BY <3>1, LimitsAssumption DEF KeyOK
    <2>2. \A t \in Txns : [payload[t] EXCEPT !.attempts = 0] \in Payloads \cup {NoPayload}
        <3> SUFFICES ASSUME NEW t \in Txns
                     PROVE  [payload[t] EXCEPT !.attempts = 0] \in Payloads \cup {NoPayload}
            OBVIOUS
        <3>1. CASE payload[t] \in Copies
            BY <3>1, LimitsAssumption DEF Copies, Payloads
        <3>2. CASE payload[t] = NoPayload
            BY <3>2 DEF NoPayload
        <3> QED
            BY <3>1, <3>2 DEF IInv, Types
    <2> QED
        BY <2>1, <2>2 DEF IInv, Types, TypeOK
<1> QED
    BY <1>1, AccountsHold, PTL

\* Whoever has an account opened it himself, with a code that reached its address, for the
\* registration this code was made for; or it was opened on the command line.
THEOREM AccountsAreProven == Spec => []AccountIsProven
<1>1. IInv => AccountIsProven
    BY DEF IInv
<1> QED
    BY <1>1, AccountsHold, PTL

\* No two accounts have an address or a name in common.
THEOREM AccountsAreUnique == Spec => []OneAccountEach
<1>1. IInv => OneAccountEach
    BY DEF IInv
<1> QED
    BY <1>1, AccountsHold, PTL
=============================================================================
