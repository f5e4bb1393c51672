--------------------------- MODULE SessionProofs ----------------------------
(***************************************************************************)
(* Theorems of Sessions, for any users, sessions, requests and times.       *)
(***************************************************************************)
EXTENDS Sessions, TLAPS

\* Where a handler may be.
Path(op) ==
    CASE op = "login" -> {"login", "rehash", "create", "done"}
      [] op = "logout" -> {"sign_out", "done"}
      [] op = "view" -> {"session", "expired", "touch", "account", "done"}
      [] op = "change" -> {"session", "expired", "touch", "account", "change", "members", "keys",
                           "index", "sign_out", "done"}
      [] OTHER -> {"session", "expired", "touch", "account", "close", "members", "keys",
                   "index", "sign_out", "done"}

\* What a request that came after its user's account was closed may still do.
Barred == {"login", "session", "expired", "touch", "account", "done"}

Types ==
    /\ clock \in 0 .. MaxTime
    /\ hash \in [Users -> [password : Passwords, outdated : BOOLEAN]] /\ active \in [Users -> BOOLEAN]
    /\ sess \in [Tokens -> [issued : Nat, ends : Nat]]
    /\ index \in [Users -> SUBSET Tokens] /\ indexEnd \in [Users -> Nat]
    /\ pc \in [Txns -> Labels] /\ req \in [Txns -> RequestSpace \cup {NoRequest}]
    /\ reply \in [Txns -> {"none", "ok", "unauthorized", "lost"}]
    /\ read \in [Txns -> Passwords \cup {""}] /\ members \in [Txns -> SUBSET Tokens]
    /\ before \in [Txns -> SUBSET Tokens] /\ ended \subseteq Tokens /\ late \subseteq Txns

\* Ended, or so old that it is not accepted any more: and it stays so.
Spent(s) == Live(s) => clock - sess[s].issued >= Absolute

SessionOK(s) == sess[s].issued <= clock /\ sess[s].ends <= clock + Idle

\* The index outlives the sessions it lists.
IndexOK(u) ==
    /\ indexEnd[u] \in Absolute .. clock + Absolute
    /\ \A s \in index[u] : /\ s \in Created /\ Owner(s) = u
                           /\ sess[s].issued + Absolute <= indexEnd[u]

RequestOK(t) ==
    /\ pc[t] = "idle" => req[t] = NoRequest /\ t \notin late
    /\ pc[t] # "idle" => /\ req[t] \in RequestSpace /\ pc[t] \in Path(req[t].op)
                         /\ req[t].op # "login" => req[t].token \in Created
    /\ pc[t] # "done" => reply[t] = "none"
    /\ pc[t] \in {"idle", "done"} \/ req[t].op \in {"login", "view", "logout"} => before[t] = {}
    /\ t \in late => /\ ~active[UserOf(t)]
                     /\ req[t].op # "logout" => pc[t] \in Barred /\ reply[t] # "ok"

\* A session that a revocation is to end is in the index, and on the list of every revocation
\* that has made one; and it is ended once this one has deleted what it listed.
Listed(t, s) ==
    /\ s \in index[UserOf(t)]
    /\ \A r \in Txns : pc[r] \in {"keys", "index"} /\ UserOf(r) = UserOf(t) =>
                          pc[r] = "keys" /\ s \in members[r]
RevocationOK(t) ==
    \A s \in before[t] :
        /\ s \in Created
        /\ Spent(s) \/ Listed(t, s)
        /\ pc[t] \in {"index", "sign_out"} => Spent(s)

IInv ==
    /\ Types
    /\ \A s \in Tokens : SessionOK(s)
    /\ \A u \in Users : IndexOK(u)
    /\ \A t \in Txns : RequestOK(t) /\ RevocationOK(t)
    /\ \A s \in ended : s \in Created /\ Spent(s)

-----------------------------------------------------------------------------
(* What a step of one handler leaves to the others.                         *)

\* Times are naturals.
LEMMA Times ==
    ASSUME IInv
    PROVE  /\ clock \in Nat /\ Idle \in Nat \ {0} /\ Absolute \in Nat \ {0}
           /\ \A s \in Tokens : /\ sess[s].issued \in Nat /\ sess[s].ends \in Nat
                               /\ sess[s].issued <= clock /\ sess[s].ends <= clock + Idle
<1>1. clock \in Nat /\ Idle \in Nat \ {0} /\ Absolute \in Nat \ {0}
    <2>1. clock \in 0 .. MaxTime
        BY DEF IInv, Types
    <2> QED
        BY <2>1, TimesAssumption
<1>2. \A s \in Tokens : SessionOK(s) /\ sess[s] \in [issued : Nat, ends : Nat]
    BY DEF IInv, Types
<1> QED
    BY <1>1, <1>2 DEF SessionOK

\* What a request carries.
LEMMA RequestFields ==
    ASSUME NEW r \in RequestSpace
    PROVE  /\ r.op \in {"login", "view", "logout", "change", "close"}
           /\ r.op = "login" => r.user \in Users /\ r.password \in Passwords
           /\ r.op # "login" => r.token \in Tokens
           /\ r.op \in {"change", "close"} => r.password \in Passwords
           /\ r.op = "change" => r.new \in Passwords
BY DEF RequestSpace

\* A session that was created has an owner.
LEMMA CreatedOwned ==
    ASSUME IInv, NEW s \in Created
    PROVE  s \in Tokens /\ Owner(s) \in Users
<1>1. s \in Tokens
    BY DEF Created, Tokens
<1>2. CASE s \in StartTokens
    BY <1>1, <1>2, TokensAssumption DEF Owner
<1>3. CASE s \notin StartTokens
    <2>1. s \in Txns /\ pc[s] = "done" /\ req[s].op = "login" /\ RequestOK(s)
        BY <1>3 DEF Created, IInv
    <2> QED
        BY <1>1, <1>3, <2>1, RequestFields DEF RequestOK, Owner
<1> QED
    BY <1>2, <1>3

\* The user of a request that has begun.
LEMMA UserKnown ==
    ASSUME IInv, NEW t \in Txns, pc[t] # "idle"
    PROVE  UserOf(t) \in Users
<1>1. req[t] \in RequestSpace /\ (req[t].op # "login" => req[t].token \in Created)
    BY DEF IInv, RequestOK
<1> QED
    BY <1>1, RequestFields, CreatedOwned DEF UserOf

Moves(t) ==
    /\ pc[t] # "done" /\ (pc[t] # "idle" => req'[t] = req[t])
    /\ \A x \in Txns \ {t} :
          /\ pc'[x] = pc[x] /\ req'[x] = req[x] /\ reply'[x] = reply[x]
          /\ members'[x] = members[x] /\ before'[x] = before[x]

\* Sessions that were created stay so, and belong to whom they belonged.
LEMMA Same ==
    ASSUME IInv, NEW t \in Txns, Moves(t)
    PROVE  /\ \A s \in Created : s \in Created' /\ Owner(s)' = Owner(s)
           /\ \A x \in Txns : pc[x] # "idle" => UserOf(x)' = UserOf(x)
<1>1. ASSUME NEW s \in Created PROVE s \in Created' /\ Owner(s)' = Owner(s)
    BY <1>1, TokensAssumption DEF Moves, Created, Owner
<1>2. ASSUME NEW x \in Txns, pc[x] # "idle" PROVE UserOf(x)' = UserOf(x)
    <2>1. req'[x] = req[x] /\ (req[x].op # "login" => req[x].token \in Created)
        BY <1>2 DEF Moves, IInv, RequestOK
    <2> QED
        BY <1>1, <2>1 DEF UserOf
<1> QED
    BY <1>1, <1>2

\* What may happen to a session that was created: nothing, its end, or a renewal while it lives.
Kept(s) == \/ sess'[s] = sess[s]
           \/ sess'[s] = NoSession
           \/ Live(s) /\ sess'[s].issued = sess[s].issued

\* What is spent stays spent as long as nobody writes the session anew.
LEMMA SpentStays ==
    ASSUME IInv, NEW s \in Created, Kept(s), clock' \in Nat, clock' >= clock, Spent(s)
    PROVE  Spent(s)'
<1>1. s \in Tokens
    BY CreatedOwned
<1>2. /\ clock \in Nat /\ sess[s].issued \in Nat /\ sess[s].ends \in Nat
      /\ sess[s].issued <= clock /\ Absolute \in Nat
    BY <1>1, Times
<1> QED
    BY <1>2 DEF Kept, Spent, Live, NoSession

\* The index, left alone, still lists what it may list.
LEMMA IndexKept ==
    ASSUME IInv, NEW t \in Txns, Moves(t), NEW u \in Users, index'[u] = index[u], indexEnd'[u] = indexEnd[u],
           clock' \in Nat, clock' >= clock, \A s \in Created : Kept(s)
    PROVE  IndexOK(u)'
<1>1. indexEnd'[u] \in Absolute .. clock' + Absolute
    <2>1. indexEnd[u] \in Absolute .. clock + Absolute
        BY DEF IInv, IndexOK
    <2> QED
        BY <2>1, Times
<1>2. ASSUME NEW s \in index[u] PROVE s \in Created' /\ Owner(s)' = u /\ sess'[s].issued + Absolute <= indexEnd'[u]
    <2>1. s \in Created /\ Owner(s) = u /\ sess[s].issued + Absolute <= indexEnd[u]
        BY DEF IInv, IndexOK
    <2>2. Absolute <= indexEnd[u] /\ Absolute \in Nat
        BY TimesAssumption DEF IInv, IndexOK
    <2>3. sess'[s].issued = sess[s].issued \/ sess'[s].issued = 0
        BY <2>1 DEF Kept, NoSession
    <2> QED
        BY <2>1, <2>2, <2>3, Same
<1> QED
    BY <1>1, <1>2 DEF IndexOK

\* Another request is where it was.
LEMMA OthersKept ==
    ASSUME IInv, NEW t \in Txns, Moves(t), NEW x \in Txns \ {t},
           \A u \in Users : active'[u] => active[u], late' \subseteq late \cup {t}
    PROVE  RequestOK(x)'
<1>1. RequestOK(x)
    BY DEF IInv
<1>2. CASE pc[x] = "idle"
    BY <1>1, <1>2 DEF Moves, RequestOK
<1>3. CASE pc[x] # "idle"
    <2>1. UserOf(x)' = UserOf(x) /\ UserOf(x) \in Users
        BY <1>3, Same, UserKnown
    <2>2. req[x].op # "login" => req[x].token \in Created'
        BY <1>1, <1>3, Same DEF RequestOK
    <2>3. x \in late' => ~active'[UserOf(x)'] /\ x \in late
        BY <1>1, <2>1 DEF RequestOK
    <2> QED
        BY <1>1, <1>3, <2>1, <2>2, <2>3 DEF Moves, RequestOK
<1> QED
    BY <1>2, <1>3

\* Everything but what the step does itself.
LEMMA OneMoves ==
    ASSUME IInv, NEW t \in Txns, Moves(t), Types', clock' = clock,
           \A u \in Users : active'[u] => active[u], late' \subseteq late \cup {t},
           \A s \in Tokens : SessionOK(s)', \A s \in Created : Kept(s),
           RequestOK(t)', \A u \in Users : IndexOK(u)', RevocationOK(t)',
           \A x \in Txns \ {t} : \A s \in before[x] : Listed(x, s) => Spent(s)' \/ Listed(x, s)',
           \A s \in ended' \ ended : s \in Created' /\ Spent(s)'
    PROVE  IInv'
<1>1. clock' \in Nat /\ clock' >= clock
    BY Times
<1>2. \A s \in Created : Spent(s) => Spent(s)'
    BY <1>1, SpentStays
<1>3. \A s \in ended' : s \in Created' /\ Spent(s)'
    BY <1>2, Same DEF IInv
<1>4. ASSUME NEW x \in Txns \ {t} PROVE RevocationOK(x)'
    <2>1. RevocationOK(x) /\ before'[x] = before[x] /\ pc'[x] = pc[x]
        BY DEF IInv, Moves
    <2>2. ASSUME NEW s \in before[x]
          PROVE  /\ s \in Created' /\ (Spent(s)' \/ Listed(x, s)')
                 /\ pc[x] \in {"index", "sign_out"} => Spent(s)'
        <3>1. s \in Created /\ (Spent(s) \/ Listed(x, s)) /\ (pc[x] \in {"index", "sign_out"} => Spent(s))
            BY <2>1 DEF RevocationOK
        <3>2. s \in Created'
            BY <3>1, Same
        <3>3. Spent(s)' \/ Listed(x, s)'
            BY <1>2, <3>1
        <3> QED
            BY <1>2, <3>1, <3>2, <3>3
    <2> QED
        BY <2>1, <2>2 DEF RevocationOK
<1>5. \A x \in Txns : RequestOK(x)' /\ RevocationOK(x)'
    BY <1>4, OthersKept
<1> QED
    BY <1>3, <1>5 DEF IInv

\* A session stays on the lists as long as the index keeps it and a new list has it.
LEMMA ListedKept ==
    ASSUME IInv, NEW t \in Txns, Moves(t), pc[t] # "idle" \/ pc'[t] \notin {"keys", "index"},
           NEW x \in Txns, NEW s \in before[x], Listed(x, s), s \in index'[UserOf(x)],
           pc'[t] \in {"keys", "index"} /\ UserOf(t) = UserOf(x) => pc'[t] = "keys" /\ s \in members'[t]
    PROVE  Listed(x, s)'
<1>1. pc[x] # "idle" /\ UserOf(x)' = UserOf(x)
    BY Same DEF IInv, RequestOK
<1>2. ASSUME NEW r \in Txns, pc'[r] \in {"keys", "index"}, UserOf(r)' = UserOf(x)'
      PROVE  pc'[r] = "keys" /\ s \in members'[r]
    <2>1. pc[r] # "idle"
        BY <1>2 DEF Moves
    <2>2. UserOf(r) = UserOf(x)
        BY <1>1, <1>2, <2>1, Same
    <2>3. CASE r = t
        BY <1>2, <2>2, <2>3
    <2>4. CASE r # t
        BY <1>2, <2>2, <2>4 DEF Listed, Moves
    <2> QED
        BY <2>3, <2>4
<1> QED
    BY <1>1, <1>2 DEF Listed

\* Most steps leave the indexes alone, and end no request's revocation.
LEMMA PlainStep ==
    ASSUME IInv, NEW t \in Txns, Moves(t), pc[t] # "idle", Types', clock' = clock,
           index' = index, indexEnd' = indexEnd, ended' = ended, late' = late,
           \A u \in Users : active'[u] => active[u],
           \A s \in Tokens : SessionOK(s)', \A s \in Created : Kept(s),
           RequestOK(t)', before'[t] \in {before[t], {}}, pc'[t] \notin {"keys", "index", "sign_out"}
    PROVE  IInv'
<1>1. \A u \in Users : IndexOK(u)'
    BY IndexKept, Times
<1>2. ASSUME NEW x \in Txns, NEW s \in before[x], Listed(x, s) PROVE Listed(x, s)'
    <2>1. s \in index'[UserOf(x)]
        BY <1>2 DEF Listed
    <2> QED
        BY <1>2, <2>1, ListedKept
<1>3. RevocationOK(t)'
    <2> SUFFICES ASSUME NEW s \in before'[t] PROVE s \in Created' /\ (Spent(s)' \/ Listed(t, s)')
        BY DEF RevocationOK
    <2>1. s \in before[t]
        OBVIOUS
    <2>2. s \in Created /\ (Spent(s) \/ Listed(t, s))
        BY <2>1 DEF IInv, RevocationOK
    <2>3. Spent(s) => Spent(s)'
        BY <2>2, SpentStays, Times
    <2> QED
        BY <1>2, <2>1, <2>2, <2>3, Same
<1> QED
    BY <1>1, <1>2, <1>3, OneMoves

\* What a step changes that takes its request to another place.
LEMMA GotoFacts ==
    ASSUME IInv, NEW t \in Txns, NEW label \in Labels, Goto(t, label), pc[t] # "done"
    PROVE  /\ pc'[t] = label /\ pc' \in [Txns -> Labels] /\ \A x \in Txns \ {t} : pc'[x] = pc[x]
           /\ UNCHANGED <<clock, req, reply, before, ended, late>>
           /\ members' = members => Moves(t)
BY DEF Goto, history, Moves, IInv, Types

\* What a step changes that answers its request.
LEMMA AnswerFacts ==
    ASSUME IInv, NEW t \in Txns, NEW answer \in {"ok", "unauthorized", "lost"}, Answer(t, answer),
           pc[t] # "done"
    PROVE  /\ pc'[t] = "done" /\ reply'[t] = answer /\ before'[t] = {}
           /\ pc' \in [Txns -> Labels] /\ reply' \in [Txns -> {"none", "ok", "unauthorized", "lost"}]
           /\ read' \in [Txns -> Passwords \cup {""}] /\ members' \in [Txns -> SUBSET Tokens]
           /\ before' \in [Txns -> SUBSET Tokens]
           /\ UNCHANGED <<clock, req, late>> /\ Moves(t)
<1>1. /\ pc' \in [Txns -> Labels] /\ reply' \in [Txns -> {"none", "ok", "unauthorized", "lost"}]
      /\ read' \in [Txns -> Passwords \cup {""}] /\ members' \in [Txns -> SUBSET Tokens]
      /\ before' \in [Txns -> SUBSET Tokens]
    BY DEF Answer, IInv, Types, Labels
<1> QED
    BY <1>1 DEF Answer, Moves, IInv, Types

\* A step that goes on, without a request changing hands, leaves what is known of its request.
LEMMA RequestGoes ==
    ASSUME IInv, NEW t \in Txns, Moves(t), pc[t] # "idle", late' = late, before'[t] \in {before[t], {}},
           \A u \in Users : active'[u] => active[u],
           pc'[t] \in Path(req[t].op), pc'[t] # "idle",
           IF pc'[t] = "done" THEN before'[t] = {} ELSE reply'[t] = "none",
           t \in late /\ req[t].op # "logout" => pc'[t] \in Barred /\ reply'[t] # "ok"
    PROVE  RequestOK(t)'
<1>1. RequestOK(t) /\ req'[t] = req[t]
    BY DEF IInv, Moves
<1>2. UserOf(t)' = UserOf(t) /\ UserOf(t) \in Users
    BY Same, UserKnown
<1>3. req[t].op # "login" => req[t].token \in Created'
    BY <1>1, Same DEF RequestOK
<1> QED
    BY <1>1, <1>2, <1>3 DEF RequestOK

\* Sessions that are left alone.
LEMMA SessLeft ==
    ASSUME IInv, sess' = sess, clock' = clock
    PROVE  (\A s \in Tokens : SessionOK(s)') /\ \A s \in Created : Kept(s)
BY DEF IInv, SessionOK, Kept

\* A refusal, the answer to a view, or a crash.
LEMMA AnswerKeeps ==
    ASSUME IInv, NEW t \in Txns, NEW answer \in {"ok", "unauthorized", "lost"}, Answer(t, answer),
           pc[t] \notin {"idle", "done"}, UNCHANGED <<redis, users, ended>>,
           answer = "ok" => t \notin late
    PROVE  IInv'
<1>1. /\ pc'[t] = "done" /\ reply'[t] = answer /\ before'[t] = {}
      /\ pc' \in [Txns -> Labels] /\ reply' \in [Txns -> {"none", "ok", "unauthorized", "lost"}]
      /\ read' \in [Txns -> Passwords \cup {""}] /\ members' \in [Txns -> SUBSET Tokens]
      /\ before' \in [Txns -> SUBSET Tokens]
      /\ UNCHANGED <<clock, req, late>> /\ Moves(t)
    BY AnswerFacts
<1>2. Types'
    BY <1>1 DEF redis, users, IInv, Types
<1>3. "done" \in Path(req[t].op)
    BY DEF Path
<1>4. RequestOK(t)'
    BY <1>1, <1>3, RequestGoes DEF users, Barred
<1> QED
    BY <1>1, <1>2, <1>4, SessLeft, PlainStep DEF redis, users

\* A step of a handler that goes on and writes no more than the users' rows.
LEMMA GotoKeeps ==
    ASSUME IInv, NEW t \in Txns, NEW label \in Labels \ {"idle", "done", "keys", "index", "sign_out"},
           Goto(t, label), pc[t] \notin {"idle", "done"}, UNCHANGED <<redis, members>>,
           hash' \in [Users -> [password : Passwords, outdated : BOOLEAN]],
           active' \in [Users -> BOOLEAN], \A u \in Users : active'[u] => active[u],
           read' \in [Txns -> Passwords \cup {""}],
           label \in Path(req[t].op), t \in late /\ req[t].op # "logout" => label \in Barred
    PROVE  IInv'
<1>1. /\ pc'[t] = label /\ pc' \in [Txns -> Labels] /\ \A x \in Txns \ {t} : pc'[x] = pc[x]
      /\ UNCHANGED <<clock, req, reply, before, ended, late>> /\ Moves(t)
    BY GotoFacts
<1>2. Types'
    BY <1>1 DEF redis, IInv, Types
<1>3. reply[t] = "none"
    BY DEF IInv, RequestOK
<1>4. RequestOK(t)'
    BY <1>1, <1>3, RequestGoes
<1> QED
    BY <1>1, <1>2, <1>4, SessLeft, PlainStep DEF redis

\* Where a request is tells what it is.
LEMMA Where ==
    ASSUME IInv, NEW t \in Txns, pc[t] \notin {"idle", "done"}
    PROVE  /\ req[t] \in RequestSpace /\ pc[t] \in Path(req[t].op) /\ reply[t] = "none"
           /\ UserOf(t) \in Users
           /\ req[t].op \in {"login", "view", "logout", "change", "close"}
           /\ req[t].op = "login" <=> pc[t] \in {"login", "rehash", "create"}
           /\ req[t].op # "login" => req[t].token \in Created
           /\ t \in late => ~active[UserOf(t)] /\ (req[t].op = "logout" \/ pc[t] \in Barred)
           /\ pc[t] \in {"change", "close"} => req[t].op = pc[t]
           /\ pc[t] \in {"members", "keys", "index"} => req[t].op \in {"change", "close"}
           /\ pc[t] = "sign_out" => req[t].op \in {"logout", "change", "close"}
           /\ pc[t] \in {"session", "expired", "touch", "account"} => req[t].op \in {"view", "change", "close"}
<1>1. RequestOK(t)
    BY DEF IInv
<1>2. req[t] \in RequestSpace /\ pc[t] \in Path(req[t].op) /\ reply[t] = "none"
      /\ (req[t].op # "login" => req[t].token \in Created)
      /\ (t \in late => ~active[UserOf(t)] /\ (req[t].op = "logout" \/ pc[t] \in Barred))
    BY <1>1 DEF RequestOK
<1>3. req[t].op \in {"login", "view", "logout", "change", "close"}
    BY <1>2, RequestFields
<1> QED
    BY <1>2, <1>3, UserKnown DEF Path

-----------------------------------------------------------------------------
(* The steps. *)

\* Checking a password, and renewing its hash, touches no session.
LEMMA LoginKeeps ==
    ASSUME IInv, NEW t \in Txns, LoginCheck(t) \/ LoginRehash(t)
    PROVE  IInv'
<1>1. pc[t] \notin {"idle", "done"} /\ pc[t] \in {"login", "rehash"}
    BY DEF LoginCheck, LoginRehash
<1>2. /\ req[t].op = "login" /\ UserOf(t) = req[t].user /\ UserOf(t) \in Users
      /\ req[t].password \in Passwords
      /\ t \in late => ~active[UserOf(t)] /\ pc[t] = "login"
    BY <1>1, Where, RequestFields DEF UserOf, Barred
<1>3. {"rehash", "create"} \subseteq Path(req[t].op) /\ {"rehash", "create"} \subseteq Labels
    BY <1>2 DEF Path, Labels
<1>4. CASE LoginCheck(t)
    <2>1. CASE Refuse(t)
        BY <1>1, <2>1, AnswerKeeps DEF Refuse
    <2>2. CASE /\ active[req[t].user]
               /\ Goto(t, IF hash[req[t].user].outdated THEN "rehash" ELSE "create")
               /\ UNCHANGED <<redis, users, read, members>>
        <3>1. PICK label \in {"rehash", "create"} : Goto(t, label)
            BY <2>2
        <3>2. /\ hash' \in [Users -> [password : Passwords, outdated : BOOLEAN]]
              /\ active' \in [Users -> BOOLEAN] /\ \A u \in Users : active'[u] => active[u]
              /\ read' \in [Txns -> Passwords \cup {""}] /\ UNCHANGED <<redis, members>>
            BY <2>2 DEF users, IInv, Types
        <3>3. t \notin late
            BY <1>2, <2>2
        <3> QED
            BY <1>1, <1>3, <3>1, <3>2, <3>3, GotoKeeps
    <2> QED
        BY <1>4, <2>1, <2>2 DEF LoginCheck
<1>5. CASE LoginRehash(t)
    <2>1. /\ hash' \in [Users -> [password : Passwords, outdated : BOOLEAN]]
          /\ active' \in [Users -> BOOLEAN] /\ \A u \in Users : active'[u] => active[u]
          /\ read' \in [Txns -> Passwords \cup {""}] /\ UNCHANGED <<redis, members>>
        BY <1>2, <1>5 DEF LoginRehash, IInv, Types
    <2>2. t \notin late
        BY <1>2, <1>5 DEF LoginRehash
    <2> QED
        BY <1>1, <1>3, <1>5, <2>1, <2>2, GotoKeeps DEF LoginRehash
<1> QED
    BY <1>4, <1>5

\* A new session is one that was never created.
LEMMA CreateKeeps ==
    ASSUME IInv, NEW t \in Txns, CreateSession(t)
    PROVE  IInv'
<1> DEFINE u == req[t].user
<1>1. /\ pc[t] \notin {"idle", "done"} /\ req[t].op = "login" /\ UserOf(t) = u /\ u \in Users
      /\ t \notin late
    BY Where DEF CreateSession, UserOf, Barred
<1>2. /\ pc'[t] = "done" /\ reply'[t] = "ok" /\ before'[t] = {}
      /\ pc' \in [Txns -> Labels] /\ reply' \in [Txns -> {"none", "ok", "unauthorized", "lost"}]
      /\ read' \in [Txns -> Passwords \cup {""}] /\ members' \in [Txns -> SUBSET Tokens]
      /\ before' \in [Txns -> SUBSET Tokens]
      /\ UNCHANGED <<clock, req, late>> /\ Moves(t)
    BY <1>1, AnswerFacts DEF CreateSession
<1>3. t \in Tokens /\ t \notin Created
    BY <1>1, TokensAssumption DEF Tokens, Created
<1>4. /\ clock \in Nat /\ Idle \in Nat /\ Absolute \in Nat /\ clock + Idle \in Nat
      /\ clock + Absolute \in Nat /\ clock' = clock
    <2>1. clock \in Nat /\ Idle \in Nat /\ Absolute \in Nat
        BY Times
    <2>2. clock' = clock
        BY <1>2
    <2> QED
        BY <2>1, <2>2
<1>5. /\ sess' \in [Tokens -> [issued : Nat, ends : Nat]]
      /\ sess'[t] = [issued |-> clock, ends |-> clock + Idle]
      /\ \A s \in Tokens \ {t} : sess'[s] = sess[s]
    BY <1>3, <1>4 DEF CreateSession, IInv, Types
<1>6. /\ index' \in [Users -> SUBSET Tokens] /\ indexEnd' \in [Users -> Nat]
      /\ index'[u] = Members(u) \cup {t} /\ indexEnd'[u] = clock + Absolute
      /\ \A v \in Users \ {u} : index'[v] = index[v] /\ indexEnd'[v] = indexEnd[v]
    <2>1. index \in [Users -> SUBSET Tokens] /\ indexEnd \in [Users -> Nat]
        BY DEF IInv, Types
    <2>2. Members(u) \cup {t} \in SUBSET Tokens
        BY <1>1, <1>3, <2>1 DEF Members
    <2>3. /\ index' = [index EXCEPT ![u] = Members(u) \cup {t}]
          /\ indexEnd' = [indexEnd EXCEPT ![u] = clock + Absolute]
        BY DEF CreateSession
    <2> HIDE DEF u
    <2> QED
        BY <1>1, <1>4, <2>1, <2>2, <2>3
<1>7. Types'
    BY <1>2, <1>5, <1>6 DEF CreateSession, users, IInv, Types
<1>8. \A s \in Tokens : SessionOK(s)'
    <2>1. ASSUME NEW s \in Tokens \ {t} PROVE SessionOK(s)'
        BY <1>2, <1>5, <2>1 DEF SessionOK, IInv
    <2>2. SessionOK(t)'
        BY <1>5, <1>4 DEF SessionOK
    <2> QED
        BY <2>1, <2>2
<1>9. \A s \in Created : Kept(s)
    BY <1>3, <1>5, CreatedOwned DEF Kept
<1>10. RequestOK(t)'
    <2>1. "done" \in Path(req[t].op)
        BY DEF Path
    <2> QED
        BY <1>1, <1>2, <2>1, RequestGoes DEF CreateSession, users
<1>11. t \in Created' /\ Owner(t)' = u
    BY <1>1, <1>2, TokensAssumption DEF Created, Owner
<1>12. ASSUME NEW v \in Users PROVE IndexOK(v)'
    <2>1. CASE v # u
        <3>1. index'[v] = index[v] /\ indexEnd'[v] = indexEnd[v] /\ clock' \in Nat /\ clock' >= clock
            BY <1>4, <1>6, <2>1
        <3> QED
            BY <1>2, <1>9, <3>1, IndexKept
    <2>2. CASE v = u
        <3>1. indexEnd'[u] \in Absolute .. clock' + Absolute
            BY <1>6, <1>4
        <3>2. ASSUME NEW s \in index'[u]
              PROVE  s \in Created' /\ Owner(s)' = u /\ sess'[s].issued + Absolute <= indexEnd'[u]
            <4>1. CASE s = t
                BY <1>5, <1>6, <1>11, <4>1, Times
            <4>2. CASE s # t
                <5>1. s \in index[u]
                    BY <1>6, <4>2 DEF Members
                <5>2. s \in Created /\ Owner(s) = u
                    BY <1>1, <5>1 DEF IInv, IndexOK
                <5>3. s \in Tokens /\ sess'[s] = sess[s]
                    BY <1>5, <4>2, <5>2, CreatedOwned
                <5>4. sess'[s].issued + Absolute <= indexEnd'[u]
                    BY <1>6, <5>3, Times
                <5> QED
                    BY <1>2, <5>2, <5>4, Same
            <4> QED
                BY <4>1, <4>2
        <3> QED
            BY <2>2, <3>1, <3>2 DEF IndexOK
    <2> QED
        BY <2>1, <2>2
<1>13. ASSUME NEW x \in Txns \ {t}, NEW s \in before[x], Listed(x, s) PROVE Spent(s)' \/ Listed(x, s)'
    <2>1. s \in Created /\ UserOf(x) \in Users
        BY UserKnown DEF IInv, RevocationOK, RequestOK
    <2>2. CASE s \in index'[UserOf(x)]
        BY <1>1, <1>2, <1>13, <2>2, ListedKept
    <2>3. CASE s \notin index'[UserOf(x)]
        <3>1. UserOf(x) = u /\ s \in index[u] /\ s \notin Members(u)
            BY <1>6, <1>13, <2>1, <2>3 DEF Listed
        <3>2. indexEnd[u] <= clock /\ sess[s].issued + Absolute <= indexEnd[u]
            <4>1. indexEnd[u] \in Nat /\ ~(indexEnd[u] > clock)
                BY <1>1, <3>1 DEF Members, IInv, Types
            <4> QED
                BY <1>1, <3>1, <4>1, Times DEF IInv, IndexOK
        <3>3. s \in Tokens /\ indexEnd[u] \in Nat
            BY <1>1, <2>1, CreatedOwned DEF IInv, Types
        <3>4. Spent(s)
            BY <3>2, <3>3, Times DEF Spent
        <3> QED
            BY <1>9, <1>4, <2>1, <3>4, SpentStays
    <2> QED
        BY <2>2, <2>3
<1>14. RevocationOK(t)'
    BY <1>2 DEF RevocationOK
<1> QED
    BY <1>2, <1>7, <1>8, <1>9, <1>10, <1>12, <1>13, <1>14, OneMoves DEF CreateSession, users

\* The token a signed-in handler carries, and what may be written of its session.
LEMMA ReadSessionKeeps ==
    ASSUME IInv, NEW t \in Txns, ReadSession(t)
    PROVE  IInv'
<1>1. pc[t] \notin {"idle", "done"} /\ req[t].op \in {"view", "change", "close"}
    BY Where DEF ReadSession
<1>2. CASE Refuse(t)
    BY <1>1, <1>2, AnswerKeeps DEF Refuse
<1>3. CASE /\ \E label \in {"expired", "touch"} : Goto(t, label)
           /\ UNCHANGED <<redis, users, read, members>>
    <2>1. PICK label \in {"expired", "touch"} : Goto(t, label)
        BY <1>3
    <2>2. /\ hash' \in [Users -> [password : Passwords, outdated : BOOLEAN]]
          /\ active' \in [Users -> BOOLEAN] /\ \A u \in Users : active'[u] => active[u]
          /\ read' \in [Txns -> Passwords \cup {""}] /\ UNCHANGED <<redis, members>>
        BY <1>3 DEF users, IInv, Types
    <2>3. label \in Path(req[t].op) /\ label \in Labels \ {"idle", "done", "keys", "index", "sign_out"}
          /\ label \in Barred
        BY <1>1 DEF Path, Labels, Barred
    <2> QED
        BY <1>1, <2>1, <2>2, <2>3, GotoKeeps
<1> QED
    BY <1>2, <1>3 DEF ReadSession

\* The session of the logout, or one that is too old, is deleted.
LEMMA DropKeeps ==
    ASSUME IInv, NEW t \in Txns, DropSession(t)
    PROVE  IInv'
<1>1. pc[t] \notin {"idle", "done"} /\ req[t].token \in Tokens
    BY Where, RequestFields DEF DropSession
<1> PICK s \in Tokens : s = req[t].token
    BY <1>1
<1>2. /\ pc'[t] = "done" /\ reply'[t] = "unauthorized" /\ before'[t] = {}
      /\ pc' \in [Txns -> Labels] /\ reply' \in [Txns -> {"none", "ok", "unauthorized", "lost"}]
      /\ read' \in [Txns -> Passwords \cup {""}] /\ members' \in [Txns -> SUBSET Tokens]
      /\ before' \in [Txns -> SUBSET Tokens]
      /\ UNCHANGED <<clock, req, late>> /\ Moves(t)
    BY <1>1, AnswerFacts DEF DropSession
<1>3. /\ sess' \in [Tokens -> [issued : Nat, ends : Nat]] /\ sess'[s] = NoSession
      /\ \A x \in Tokens \ {s} : sess'[x] = sess[x]
    BY <1>1 DEF DropSession, IInv, Types, NoSession
<1>4. Types'
    BY <1>2, <1>3 DEF DropSession, users, IInv, Types
<1>5. ASSUME NEW x \in Tokens PROVE SessionOK(x)'
    <2>1. clock' = clock
        BY <1>2
    <2>2. SessionOK(s)'
        <3>1. 0 <= clock' /\ 0 <= clock' + Idle
            BY <2>1, Times
        <3>2. sess'[s].issued = 0 /\ sess'[s].ends = 0
            BY <1>3 DEF NoSession
        <3> QED
            BY <3>1, <3>2 DEF SessionOK
    <2>3. CASE x # s
        <3>1. SessionOK(x) /\ sess'[x] = sess[x]
            BY <1>3, <2>3 DEF IInv
        <3> QED
            BY <2>1, <3>1 DEF SessionOK
    <2> QED
        BY <2>2, <2>3
<1>6. \A x \in Created : Kept(x)
    BY <1>3, CreatedOwned DEF Kept
<1>7. RequestOK(t)'
    <2>1. "done" \in Path(req[t].op)
        BY DEF Path
    <2> QED
        BY <1>1, <1>2, <2>1, RequestGoes DEF DropSession, users, Barred
<1> QED
    BY <1>1, <1>2, <1>4, <1>5, <1>6, <1>7, PlainStep DEF DropSession, users

\* A session that is in use is renewed only while it is there.
LEMMA TouchKeeps ==
    ASSUME IInv, NEW t \in Txns, TouchSession(t)
    PROVE  IInv'
<1> DEFINE s == req[t].token
<1>1. /\ pc[t] \notin {"idle", "done"} /\ s \in Tokens /\ req[t].op \in {"view", "change", "close"}
      /\ reply[t] = "none"
    BY Where, RequestFields DEF TouchSession
<1>2. "account" \in Path(req[t].op) /\ "account" \in Labels /\ "account" \in Barred
    BY <1>1 DEF Path, Labels, Barred
<1>3. /\ pc'[t] = "account" /\ pc' \in [Txns -> Labels]
      /\ UNCHANGED <<clock, req, reply, before, ended, late>> /\ Moves(t)
    BY <1>1, <1>2, GotoFacts DEF TouchSession
<1>4. clock' = clock /\ clock \in Nat /\ Idle \in Nat /\ clock + Idle \in Nat
    <2>1. clock' = clock
        BY <1>3
    <2> QED
        BY <2>1, Times
<1>5. /\ sess' \in [Tokens -> [issued : Nat, ends : Nat]]
      /\ \A x \in Tokens \ {s} : sess'[x] = sess[x]
      /\ sess'[s] = sess[s] \/ (Live(s) /\ sess'[s].issued = sess[s].issued /\ sess'[s].ends = clock + Idle)
    <2>1. sess \in [Tokens -> [issued : Nat, ends : Nat]]
        BY DEF IInv, Types
    <2>2. CASE Live(s) /\ sess' = [sess EXCEPT ![s].ends = clock + Idle]
        <3> HIDE DEF s
        <3> QED
            BY <1>1, <1>4, <2>1, <2>2
    <2>3. CASE sess' = sess
        BY <2>1, <2>3
    <2> QED
        BY <2>2, <2>3 DEF TouchSession
<1>6. Types'
    BY <1>3, <1>5 DEF TouchSession, users, IInv, Types
<1>7. ASSUME NEW x \in Tokens PROVE SessionOK(x)'
    <2>1. SessionOK(x) /\ SessionOK(s)
        BY <1>1 DEF IInv
    <2> QED
        BY <1>4, <1>5, <2>1 DEF SessionOK
<1>8. \A x \in Created : Kept(x)
    BY <1>5, CreatedOwned DEF Kept
<1>9. RequestOK(t)'
    BY <1>1, <1>2, <1>3, RequestGoes DEF TouchSession, users
<1> QED
    BY <1>1, <1>3, <1>6, <1>7, <1>8, <1>9, PlainStep DEF TouchSession, users

\* A request of a closed account goes no further.
LEMMA ReadAccountKeeps ==
    ASSUME IInv, NEW t \in Txns, ReadAccount(t)
    PROVE  IInv'
<1>1. /\ pc[t] \notin {"idle", "done"} /\ req[t].op \in {"view", "change", "close"} /\ UserOf(t) \in Users
      /\ t \in late => ~active[UserOf(t)]
    BY Where DEF ReadAccount
<1>2. CASE Refuse(t)
    BY <1>1, <1>2, AnswerKeeps DEF Refuse
<1>3. CASE active[UserOf(t)] /\ Admit(t)
    <2>1. t \notin late
        BY <1>1, <1>3
    <2>2. CASE Answer(t, "ok") /\ UNCHANGED <<redis, users, ended>>
        BY <1>1, <2>1, <2>2, AnswerKeeps
    <2>3. CASE /\ req[t].op # "view" /\ UNCHANGED <<redis, users>>
               /\ read' = [read EXCEPT ![t] = hash[UserOf(t)].password]
               /\ Goto(t, req[t].op)
               /\ UNCHANGED members
        <3>1. /\ hash' \in [Users -> [password : Passwords, outdated : BOOLEAN]]
              /\ active' \in [Users -> BOOLEAN] /\ \A u \in Users : active'[u] => active[u]
              /\ read' \in [Txns -> Passwords \cup {""}] /\ UNCHANGED <<redis, members>>
            BY <1>1, <2>3 DEF users, IInv, Types
        <3>2. PICK label \in {"change", "close"} : label = req[t].op
            BY <1>1, <2>3
        <3>3. label \in Path(req[t].op) /\ label \in Labels \ {"idle", "done", "keys", "index", "sign_out"}
            BY <3>2 DEF Path, Labels
        <3> QED
            BY <1>1, <2>1, <2>3, <3>1, <3>2, <3>3, GotoKeeps
    <2> QED
        BY <1>3, <2>2, <2>3 DEF Admit
<1> QED
    BY <1>2, <1>3 DEF ReadAccount

\* A wrong password ends the request.
LEMMA WrongPasswordKeeps ==
    ASSUME IInv, NEW t \in Txns, WrongPassword(t)
    PROVE  IInv'
BY AnswerKeeps DEF WrongPassword, Refuse

\* The commit that revokes makes spent every session it will find.
LEMMA ChangeKeeps ==
    ASSUME IInv, NEW t \in Txns, ChangePassword(t) \/ CloseAccount(t)
    PROVE  IInv'
<1>1. /\ pc[t] \notin {"idle", "done"} /\ req[t].op \in {"change", "close"} /\ UserOf(t) \in Users
      /\ req[t].op = pc[t] /\ t \notin late
    BY Where DEF ChangePassword, CloseAccount, Barred
<1>2. ChangePassword(t) => req[t].new \in Passwords
    BY <1>1, Where, RequestFields DEF ChangePassword
<1>3. /\ hash' \in [Users -> [password : Passwords, outdated : BOOLEAN]]
      /\ read' \in [Txns -> Passwords \cup {""}] /\ UNCHANGED <<redis, members>>
    <2>1. /\ hash \in [Users -> [password : Passwords, outdated : BOOLEAN]]
          /\ read \in [Txns -> Passwords \cup {""}]
        BY DEF IInv, Types
    <2>2. CASE ChangePassword(t)
        <3>1. [password |-> req[t].new, outdated |-> FALSE] \in [password : Passwords, outdated : BOOLEAN]
            BY <1>2, <2>2
        <3> QED
            BY <2>1, <2>2, <3>1 DEF ChangePassword
    <2>3. CASE CloseAccount(t)
        BY <2>1, <2>3 DEF CloseAccount
    <2> QED
        BY <2>2, <2>3
<1>4. active' \in [Users -> BOOLEAN] /\ \A u \in Users : active'[u] => active[u]
    BY <1>1, Zenon DEF ChangePassword, CloseAccount, IInv, Types
<1>5. "members" \in Path(req[t].op) /\ "members" \in Labels \ {"idle", "done", "keys", "index", "sign_out"}
    BY <1>1 DEF Path, Labels
<1> QED
    BY <1>1, <1>3, <1>4, <1>5, GotoKeeps DEF ChangePassword, CloseAccount

\* What a step of a revocation that goes on leaves alone.
LEMMA RevocationGoes ==
    ASSUME IInv, NEW t \in Txns, NEW label \in {"keys", "index", "sign_out"}, Goto(t, label),
           pc[t] \in {"members", "keys", "index"}, members' \in [Txns -> SUBSET Tokens],
           \A x \in Txns \ {t} : members'[x] = members[x], UNCHANGED <<users, read, indexEnd>>,
           sess' \in [Tokens -> [issued : Nat, ends : Nat]], index' \in [Users -> SUBSET Tokens]
    PROVE  /\ pc'[t] = label /\ clock' = clock /\ before' = before /\ ended' = ended
           /\ Moves(t) /\ Types' /\ RequestOK(t)'
<1>1. req[t].op \in {"change", "close"} /\ t \notin late /\ UserOf(t) \in Users /\ reply[t] = "none"
    BY Where DEF Barred
<1>2. label \in Labels /\ label \in Path(req[t].op)
    BY <1>1 DEF Labels, Path
<1>3. /\ pc'[t] = label /\ pc' \in [Txns -> Labels] /\ \A x \in Txns \ {t} : pc'[x] = pc[x]
      /\ UNCHANGED <<clock, req, reply, before, ended, late>>
    BY <1>2, GotoFacts
<1>4. Moves(t)
    BY <1>3 DEF Moves
<1>5. Types'
    BY <1>3 DEF users, IInv, Types
<1>6. RequestOK(t)'
    BY <1>1, <1>2, <1>3, <1>4, RequestGoes DEF users
<1> QED
    BY <1>3, <1>4, <1>5, <1>6

\* The index is read: it lists what is to be ended, or has expired with it.
LEMMA ListKeeps ==
    ASSUME IInv, NEW t \in Txns, ListSessions(t)
    PROVE  IInv'
<1> DEFINE u == UserOf(t)
<1>1. u \in Users
    BY Where DEF ListSessions
<1>2. /\ members' \in [Txns -> SUBSET Tokens] /\ members'[t] = Members(u)
      /\ \A x \in Txns \ {t} : members'[x] = members[x]
    <2>1. Members(u) \in SUBSET Tokens /\ members \in [Txns -> SUBSET Tokens]
        BY <1>1 DEF Members, IInv, Types
    <2>2. members' = [members EXCEPT ![t] = Members(u)]
        BY DEF ListSessions
    <2> HIDE DEF u
    <2> QED
        BY <2>1, <2>2
<1>3. /\ pc'[t] = "keys" /\ clock' = clock /\ before' = before /\ ended' = ended
      /\ Moves(t) /\ Types' /\ RequestOK(t)'
    BY <1>2, RevocationGoes DEF ListSessions, redis, users, IInv, Types
<1>4. UNCHANGED <<sess, index, indexEnd, active, late>>
    BY DEF ListSessions, redis, users, Goto, history
<1>5. clock' \in Nat /\ clock' >= clock
    BY <1>3, Times
<1>6. (\A s \in Tokens : SessionOK(s)') /\ \A s \in Created : Kept(s)
    BY <1>3, <1>4, SessLeft
<1>7. \A v \in Users : IndexOK(v)'
    BY <1>3, <1>4, <1>5, <1>6, IndexKept
<1>8. ASSUME NEW x \in Txns, NEW s \in before[x], Listed(x, s) PROVE Spent(s)' \/ Listed(x, s)'
    <2>1. s \in Created /\ s \in index[UserOf(x)]
        BY <1>8 DEF IInv, RevocationOK, Listed
    <2>2. CASE UserOf(x) = u => s \in Members(u)
        <3>1. pc[t] # "idle" /\ s \in index'[UserOf(x)]
            BY <1>4, <2>1 DEF ListSessions
        <3> QED
            BY <1>2, <1>3, <1>8, <2>2, <3>1, ListedKept
    <2>3. CASE UserOf(x) = u /\ s \notin Members(u)
        <3>1. s \in index[u] /\ ~(indexEnd[u] > clock)
            BY <2>1, <2>3 DEF Members
        <3>2. /\ s \in Tokens /\ indexEnd[u] \in Nat /\ sess[s].issued + Absolute <= indexEnd[u]
            BY <1>1, <2>1, <3>1, CreatedOwned DEF IInv, Types, IndexOK
        <3>3. Spent(s)
            BY <3>1, <3>2, Times DEF Spent
        <3> QED
            BY <1>5, <1>6, <2>1, <3>3, SpentStays
    <2> QED
        BY <2>2, <2>3
<1>9. RevocationOK(t)'
    <2> SUFFICES ASSUME NEW s \in before[t] PROVE s \in Created' /\ (Spent(s)' \/ Listed(t, s)')
        BY <1>3 DEF RevocationOK
    <2>1. s \in Created /\ (Spent(s) \/ Listed(t, s))
        BY DEF IInv, RevocationOK
    <2>2. Spent(s) => Spent(s)'
        BY <1>5, <1>6, <2>1, SpentStays
    <2> QED
        BY <1>3, <1>8, <2>1, <2>2, Same
<1> QED
    BY <1>3, <1>4, <1>6, <1>7, <1>8, <1>9, OneMoves

\* The sessions on the list are deleted.
LEMMA DeleteKeeps ==
    ASSUME IInv, NEW t \in Txns, DeleteSessions(t)
    PROVE  IInv'
<1> DEFINE u == UserOf(t)
<1>1. u \in Users
    BY Where DEF DeleteSessions
<1>2. /\ sess' \in [Tokens -> [issued : Nat, ends : Nat]]
      /\ \A s \in Tokens : sess'[s] = IF s \in members[t] THEN NoSession ELSE sess[s]
    BY DEF DeleteSessions, NoSession, IInv, Types
<1>3. /\ pc'[t] = "index" /\ clock' = clock /\ before' = before /\ ended' = ended
      /\ Moves(t) /\ Types' /\ RequestOK(t)'
    BY <1>2, RevocationGoes DEF DeleteSessions, users, IInv, Types
<1>4. UNCHANGED <<index, indexEnd, active, late>>
    BY DEF DeleteSessions, users, Goto, history
<1>5. clock' \in Nat /\ clock' >= clock
    BY <1>3, Times
<1>6. \A s \in Created : Kept(s)
    BY <1>2, CreatedOwned DEF Kept
<1>7. ASSUME NEW s \in Tokens PROVE SessionOK(s)'
    <2>1. CASE s \in members[t]
        <3>1. sess'[s].issued = 0 /\ sess'[s].ends = 0
            BY <1>2, <2>1 DEF NoSession
        <3>2. 0 <= clock' /\ 0 <= clock' + Idle
            BY <1>3, Times
        <3> QED
            BY <3>1, <3>2 DEF SessionOK
    <2>2. CASE s \notin members[t]
        BY <1>2, <1>3, <2>2 DEF SessionOK, IInv
    <2> QED
        BY <2>1, <2>2
<1>8. \A v \in Users : IndexOK(v)'
    BY <1>3, <1>4, <1>5, <1>6, IndexKept
<1>9. ASSUME NEW x \in Txns, NEW s \in before[x], Listed(x, s)
      PROVE  (Spent(s)' \/ Listed(x, s)') /\ (UserOf(x) = u => Spent(s)')
    <2>1. s \in Created /\ s \in Tokens /\ s \in index[UserOf(x)]
        BY <1>9, CreatedOwned DEF IInv, RevocationOK, Listed
    <2>2. CASE UserOf(x) = u
        <3>1. s \in members[t]
            BY <1>9, <2>2 DEF Listed, DeleteSessions
        <3>2. sess'[s].ends = 0
            BY <1>2, <2>1, <3>1 DEF NoSession
        <3>3. ~Live(s)'
            BY <1>5, <3>2 DEF Live
        <3> QED
            BY <3>3 DEF Spent
    <2>3. CASE UserOf(x) # u
        <3>1. pc[t] # "idle" /\ s \in index'[UserOf(x)]
            BY <1>4, <2>1 DEF DeleteSessions
        <3> QED
            BY <1>3, <1>9, <2>3, <3>1, ListedKept
    <2> QED
        BY <2>2, <2>3
<1>10. RevocationOK(t)'
    <2> SUFFICES ASSUME NEW s \in before[t] PROVE s \in Created' /\ Spent(s)'
        BY <1>3 DEF RevocationOK
    <2>1. s \in Created /\ (Spent(s) \/ Listed(t, s))
        BY DEF IInv, RevocationOK
    <2>2. Spent(s) => Spent(s)'
        BY <1>5, <1>6, <2>1, SpentStays
    <2> QED
        BY <1>3, <1>9, <2>1, <2>2, Same
<1> QED
    BY <1>3, <1>4, <1>6, <1>7, <1>8, <1>9, <1>10, OneMoves

\* The index goes when the sessions it listed have gone.
LEMMA DeleteIndexKeeps ==
    ASSUME IInv, NEW t \in Txns, DeleteIndex(t)
    PROVE  IInv'
<1>1. UserOf(t) \in Users
    BY Where DEF DeleteIndex
<1> PICK u \in Users : u = UserOf(t)
    BY <1>1
<1>2. /\ index' \in [Users -> SUBSET Tokens] /\ index'[u] = {}
      /\ \A v \in Users \ {u} : index'[v] = index[v]
    BY DEF DeleteIndex, IInv, Types
<1>3. /\ pc'[t] = "sign_out" /\ clock' = clock /\ before' = before /\ ended' = ended
      /\ Moves(t) /\ Types' /\ RequestOK(t)'
    BY <1>2, RevocationGoes DEF DeleteIndex, users, IInv, Types
<1>4. UNCHANGED <<sess, indexEnd, active, late>>
    BY DEF DeleteIndex, users, Goto, history
<1>5. clock' \in Nat /\ clock' >= clock
    BY <1>3, Times
<1>6. (\A s \in Tokens : SessionOK(s)') /\ \A s \in Created : Kept(s)
    BY <1>3, <1>4, SessLeft
<1>7. ASSUME NEW v \in Users PROVE IndexOK(v)'
    <2>1. CASE v # u
        BY <1>2, <1>3, <1>4, <1>5, <1>6, <2>1, IndexKept
    <2>2. CASE v = u
        BY <1>2, <1>3, <1>4, <2>2 DEF IndexOK, IInv
    <2> QED
        BY <2>1, <2>2
<1>8. ASSUME NEW x \in Txns, NEW s \in before[x], Listed(x, s) PROVE Spent(s)' \/ Listed(x, s)'
    <2>1. s \in Created /\ s \in index[UserOf(x)]
        BY <1>8 DEF IInv, RevocationOK, Listed
    <2>2. UserOf(x) # u /\ UserOf(x) \in Users
        <3>1. pc[x] # "idle"
            BY DEF IInv, RequestOK
        <3> QED
            BY <1>8, <3>1, UserKnown DEF Listed, DeleteIndex
    <2>3. pc[t] # "idle" /\ s \in index'[UserOf(x)]
        BY <1>2, <2>1, <2>2 DEF DeleteIndex
    <2> QED
        BY <1>3, <1>8, <2>2, <2>3, ListedKept
<1>9. RevocationOK(t)'
    <2> SUFFICES ASSUME NEW s \in before[t] PROVE s \in Created' /\ Spent(s)'
        BY <1>3 DEF RevocationOK
    <2>1. s \in Created /\ Spent(s)
        BY DEF IInv, RevocationOK, DeleteIndex
    <2>2. Spent(s)'
        BY <1>5, <1>6, <2>1, SpentStays
    <2> QED
        BY <1>3, <2>1, <2>2, Same
<1> QED
    BY <1>3, <1>4, <1>6, <1>7, <1>8, <1>9, OneMoves

\* The answer: what was to be ended is.
LEMMA SignOutKeeps ==
    ASSUME IInv, NEW t \in Txns, SignOut(t)
    PROVE  IInv'
<1>1. /\ pc[t] \notin {"idle", "done"} /\ req[t].token \in Tokens /\ req[t].token \in Created
      /\ t \in late => req[t].op = "logout"
    BY Where, RequestFields DEF SignOut, Barred
<1> PICK s \in Tokens : s = req[t].token
    BY <1>1
<1>2. /\ pc'[t] = "done" /\ reply'[t] = "ok" /\ before'[t] = {}
      /\ pc' \in [Txns -> Labels] /\ reply' \in [Txns -> {"none", "ok", "unauthorized", "lost"}]
      /\ read' \in [Txns -> Passwords \cup {""}] /\ members' \in [Txns -> SUBSET Tokens]
      /\ before' \in [Txns -> SUBSET Tokens]
      /\ UNCHANGED <<clock, req, late>> /\ Moves(t)
    BY <1>1, AnswerFacts DEF SignOut
<1>3. clock' = clock /\ clock \in Nat /\ late' = late
    <2>1. clock' = clock /\ late' = late
        BY <1>2
    <2> QED
        BY <2>1, Times
<1>4. /\ sess' \in [Tokens -> [issued : Nat, ends : Nat]] /\ sess'[s] = NoSession
      /\ \A x \in Tokens \ {s} : sess'[x] = sess[x]
    BY DEF SignOut, IInv, Types, NoSession
<1>5. UNCHANGED <<index, indexEnd, active, hash>> /\ ended' = ended \cup {s} \cup before[t]
    BY DEF SignOut, users
<1>6. Types'
    BY <1>2, <1>4, <1>5 DEF IInv, Types
<1>7. ASSUME NEW x \in Tokens PROVE SessionOK(x)'
    <2>1. CASE x = s
        <3>1. 0 <= clock' /\ 0 <= clock' + Idle
            BY <1>3, Times
        <3>2. sess'[s].issued = 0 /\ sess'[s].ends = 0
            BY <1>4 DEF NoSession
        <3> QED
            BY <2>1, <3>1, <3>2 DEF SessionOK
    <2>2. CASE x # s
        <3>1. SessionOK(x) /\ sess'[x] = sess[x]
            BY <1>4, <2>2 DEF IInv
        <3> QED
            BY <1>3, <3>1 DEF SessionOK
    <2> QED
        BY <2>1, <2>2
<1>8. \A x \in Created : Kept(x)
    BY <1>4, CreatedOwned DEF Kept
<1>9. RequestOK(t)'
    <2>1. "done" \in Path(req[t].op) /\ "done" \in Barred
        BY DEF Path, Barred
    <2> QED
        BY <1>1, <1>2, <1>3, <1>5, <2>1, RequestGoes
<1>10. clock' \in Nat /\ clock' >= clock
    BY <1>3
<1>11. \A v \in Users : IndexOK(v)'
    BY <1>2, <1>5, <1>8, <1>10, IndexKept
<1>12. ASSUME NEW x \in Txns, NEW y \in before[x], Listed(x, y) PROVE Listed(x, y)'
    <2>1. pc[t] # "idle" /\ y \in index'[UserOf(x)]
        BY <1>5, <1>12 DEF Listed, SignOut
    <2> QED
        BY <1>2, <1>12, <2>1, ListedKept
<1>13. ASSUME NEW x \in ended' \ ended PROVE x \in Created' /\ Spent(x)'
    <2>1. CASE x = s
        <3>1. ~Live(s)'
            BY <1>3, <1>4 DEF Live, NoSession
        <3> QED
            BY <1>1, <1>2, <2>1, <3>1, Same DEF Spent
    <2>2. CASE x \in before[t]
        <3>1. x \in Created /\ Spent(x)
            BY <2>2 DEF IInv, RevocationOK, SignOut
        <3> QED
            BY <1>2, <1>8, <1>10, <3>1, Same, SpentStays
    <2> QED
        BY <1>5, <2>1, <2>2
<1>14. RevocationOK(t)'
    BY <1>2 DEF RevocationOK
<1> QED
    BY <1>2, <1>3, <1>5, <1>6, <1>7, <1>8, <1>9, <1>11, <1>12, <1>13, <1>14, OneMoves

\* A request comes; a password change finds every session it is to end in the index, and nobody
\* who has listed that index before.
LEMMA ReceiveKeeps ==
    ASSUME IInv, NEW t \in Txns, NEW r \in Possible, Receive(t, r)
    PROVE  IInv'
<1>1. r \in RequestSpace /\ (r.op # "login" => r.token \in Created) /\ pc[t] = "idle"
    BY SessionRequestsAssumption DEF Possible, Receive
<1>2. IF r.op = "login" THEN r.user \in Users ELSE Owner(r.token) \in Users
    BY <1>1, RequestFields, CreatedOwned
<1> PICK u \in Users : u = IF r.op = "login" THEN r.user ELSE Owner(r.token)
    BY <1>2
<1>3. req[t] = NoRequest /\ t \notin late /\ before[t] = {} /\ reply[t] = "none"
    BY <1>1 DEF IInv, RequestOK
<1>4. /\ late' = IF active[u] THEN late ELSE late \cup {t}
      /\ before' = [before EXCEPT ![t] = IF r.op \notin {"change", "close"} \/ Revoking(u) THEN {}
                                         ELSE {s \in Members(u) : Live(s)}]
      /\ req' = [req EXCEPT ![t] = r]
      /\ pc' = [pc EXCEPT ![t] = CASE r.op = "login" -> "login"
                                   [] r.op = "logout" -> "sign_out"
                                   [] OTHER -> "session"]
      /\ UNCHANGED <<redis, users>> /\ clock' = clock /\ reply' = reply /\ read' = read
      /\ members' = members /\ ended' = ended
    BY DEF Receive
<1>5. Members(u) \in SUBSET Tokens
    BY DEF IInv, Types, Members
<1>6. /\ before' \in [Txns -> SUBSET Tokens] /\ req' \in [Txns -> RequestSpace \cup {NoRequest}]
      /\ before'[t] \subseteq {s \in Members(u) : Live(s)}
      /\ before'[t] # {} => r.op \in {"change", "close"} /\ ~Revoking(u)
      /\ req'[t] = r /\ \A x \in Txns \ {t} : req'[x] = req[x] /\ before'[x] = before[x]
    BY <1>1, <1>4, <1>5 DEF IInv, Types
<1>7. /\ pc' \in [Txns -> Labels] /\ \A x \in Txns \ {t} : pc'[x] = pc[x]
      /\ pc'[t] \in {"login", "sign_out", "session"} /\ pc'[t] \in Path(r.op)
      /\ pc'[t] = "sign_out" => r.op = "logout"
    BY <1>1, <1>4, RequestFields DEF IInv, Types, Labels, Path
<1>8. Moves(t)
    BY <1>1, <1>4, <1>6, <1>7 DEF Moves
<1>9. Types'
    BY <1>4, <1>6, <1>7 DEF redis, users, IInv, Types
<1>10. UserOf(t)' = u
    <2>1. CASE r.op = "login"
        BY <1>6, <2>1 DEF UserOf
    <2>2. CASE r.op # "login"
        BY <1>1, <1>6, <1>8, <2>2, Same DEF UserOf
    <2> QED
        BY <2>1, <2>2
<1>11. RequestOK(t)'
    <2>1. t \in late' => ~active'[u]
        BY <1>3, <1>4 DEF users
    <2>2. r.op # "login" => r.token \in Created'
        BY <1>1, <1>8, Same
    <2>3. r.op # "logout" => pc'[t] \in Barred
        BY <1>7 DEF Barred
    <2>4. pc'[t] \in {"idle", "done"} \/ r.op \in {"login", "view", "logout"} => before'[t] = {}
        BY <1>6, <1>7
    <2>5. pc'[t] # "idle" /\ reply'[t] = "none"
        BY <1>3, <1>4, <1>7
    <2> QED
        BY <1>1, <1>6, <1>7, <1>10, <2>1, <2>2, <2>3, <2>4, <2>5 DEF RequestOK
<1>12. clock' \in Nat /\ clock' >= clock
    BY <1>4, Times
<1>13. (\A s \in Tokens : SessionOK(s)') /\ \A s \in Created : Kept(s)
    BY <1>4, SessLeft DEF redis
<1>14. \A v \in Users : IndexOK(v)'
    BY <1>4, <1>8, <1>12, <1>13, IndexKept DEF redis
<1>15. ASSUME NEW x \in Txns, NEW s \in before[x], Listed(x, s) PROVE Listed(x, s)'
    <2>1. s \in index'[UserOf(x)]
        BY <1>4, <1>15 DEF Listed, redis
    <2>2. pc'[t] \notin {"keys", "index"}
        BY <1>7
    <2> QED
        BY <1>8, <1>15, <2>1, <2>2, ListedKept
<1>16. RevocationOK(t)'
    <2> SUFFICES ASSUME NEW s \in before'[t] PROVE s \in Created' /\ Listed(t, s)'
        BY <1>6, <1>7 DEF RevocationOK
    <2>1. s \in index[u] /\ ~Revoking(u)
        BY <1>6 DEF Members
    <2>2. s \in Created'
        BY <1>8, <2>1, Same DEF IInv, IndexOK
    <2>3. ASSUME NEW x \in Txns, pc'[x] \in {"keys", "index"}, UserOf(x)' = u PROVE FALSE
        <3>1. x # t /\ pc[x] = pc'[x] /\ pc[x] # "idle"
            BY <1>7, <2>3
        <3>2. UserOf(x)' = UserOf(x)
            BY <1>8, <3>1, Same
        <3> QED
            BY <2>1, <2>3, <3>1, <3>2 DEF Revoking
    <2>4. s \in index'[UserOf(t)']
        BY <1>4, <1>10, <2>1 DEF redis
    <2> QED
        BY <1>10, <2>2, <2>3, <2>4 DEF Listed
<1>17. late' \subseteq late \cup {t} /\ \A v \in Users : active'[v] => active[v]
    BY <1>4 DEF users
<1> QED
    BY <1>4, <1>8, <1>9, <1>11, <1>13, <1>14, <1>15, <1>16, <1>17, OneMoves

\* A worker that dies leaves the sessions it has not deleted to the others.
LEMMA CrashKeeps ==
    ASSUME IInv, NEW t \in Txns, Crash(t)
    PROVE  IInv'
BY AnswerKeeps DEF Crash

\* Time ends sessions and indexes, and brings none back.
LEMMA TickKeeps ==
    ASSUME IInv, Tick
    PROVE  IInv'
<1>1. /\ UNCHANGED <<sess, index, indexEnd, hash, active, pc, req, reply, read, members, before, ended, late>>
      /\ clock' = clock + 1 /\ clock < MaxTime
    BY DEF Tick, redis, users, history
<1>2. clock \in Nat /\ clock' \in Nat /\ clock' >= clock /\ Absolute \in Nat /\ Idle \in Nat
    BY <1>1, Times
<1>3. Types'
    <2>1. clock' \in 0 .. MaxTime
        BY <1>1, <1>2, TimesAssumption
    <2> QED
        BY <1>1, <2>1 DEF IInv, Types
<1>4. Created' = Created /\ \A s \in Tokens : Owner(s)' = Owner(s)
    BY <1>1 DEF Created, Owner
<1>5. \A t \in Txns : UserOf(t)' = UserOf(t)
    BY <1>1 DEF UserOf, Owner
<1>6. \A s \in Created : Spent(s) => Spent(s)'
    BY <1>1, <1>2, SpentStays DEF Kept
<1>7. ASSUME NEW s \in Tokens PROVE SessionOK(s)'
    <2>1. sess[s].issued \in Nat /\ sess[s].ends \in Nat /\ sess[s].issued <= clock /\ sess[s].ends <= clock + Idle
        BY Times
    <2> QED
        BY <1>1, <1>2, <2>1 DEF SessionOK
<1>8. ASSUME NEW u \in Users PROVE IndexOK(u)'
    <2>1. indexEnd[u] \in Absolute .. clock + Absolute
        BY DEF IInv, IndexOK
    <2>2. indexEnd'[u] \in Absolute .. clock' + Absolute
        BY <1>1, <1>2, <2>1
    <2>3. \A s \in index'[u] : s \in Created /\ s \in Tokens /\ Owner(s) = u /\ sess'[s].issued + Absolute <= indexEnd'[u]
        BY <1>1, CreatedOwned DEF IInv, IndexOK
    <2> QED
        BY <1>4, <2>2, <2>3 DEF IndexOK
<1>9. ASSUME NEW t \in Txns PROVE RequestOK(t)' /\ RevocationOK(t)'
    <2>1. RequestOK(t)'
        BY <1>1, <1>4, <1>5 DEF IInv, RequestOK
    <2>2. \A s \in before[t] : Listed(t, s) => Listed(t, s)'
        BY <1>1, <1>5 DEF Listed
    <2>3. RevocationOK(t)'
        BY <1>1, <1>4, <1>6, <2>2 DEF IInv, RevocationOK
    <2> QED
        BY <2>1, <2>3
<1>10. \A s \in ended' : s \in Created' /\ Spent(s)'
    BY <1>1, <1>4, <1>6 DEF IInv
<1> QED
    BY <1>3, <1>7, <1>8, <1>9, <1>10 DEF IInv

\* The sessions at hand are indexed and none is revoked.
LEMMA InitHolds == Init => IInv
<1> SUFFICES ASSUME Init PROVE IInv
    OBVIOUS
<1>1. /\ clock = StartTime /\ clock \in Nat /\ clock \in 0 .. MaxTime /\ clock <= Absolute
      /\ Absolute \in Nat /\ Idle \in Nat /\ StartTime + Idle \in Nat
    <2>1. clock = StartTime
        BY DEF Init
    <2>2. StartTime \in Nat /\ StartTime <= Absolute /\ StartTime <= MaxTime /\ MaxTime \in Nat
          /\ Absolute \in Nat /\ Idle \in Nat
        BY TimesAssumption
    <2> QED
        BY <2>1, <2>2
<1>2. /\ sess \in [Tokens -> [issued : Nat, ends : Nat]]
      /\ \A s \in Tokens : sess[s].issued = 0 /\ sess[s].ends <= clock + Idle
    <2>1. sess = [s \in Tokens |-> IF s \in StartTokens THEN [issued |-> 0, ends |-> StartTime + Idle]
                                   ELSE NoSession]
        BY DEF Init
    <2>2. 0 <= clock + Idle /\ StartTime + Idle <= clock + Idle
        BY <1>1
    <2>3. \A s \in Tokens : /\ sess[s] \in [issued : Nat, ends : Nat] /\ sess[s].issued = 0
                            /\ sess[s].ends \in {0, StartTime + Idle}
        BY <1>1, <2>1 DEF NoSession
    <2> QED
        BY <2>1, <2>2, <2>3
<1>3. index \in [Users -> SUBSET Tokens] /\ indexEnd \in [Users -> Nat]
    BY <1>1 DEF Init, Tokens
<1>4. hash \in [Users -> [password : Passwords, outdated : BOOLEAN]]
    <2>1. ASSUME NEW u \in Users
          PROVE  [Fresh(u) EXCEPT !.outdated = u \in Outdated] \in [password : Passwords, outdated : BOOLEAN]
        <3>1. [Fresh(u) EXCEPT !.outdated = u \in Outdated]
                = [password |-> StartPassword[u], outdated |-> u \in Outdated]
            BY DEF Fresh
        <3>2. StartPassword[u] \in Passwords /\ (u \in Outdated) \in BOOLEAN
            BY PasswordsAssumption
        <3> QED
            BY <3>1, <3>2
    <2> QED
        BY <2>1 DEF Init
<1>5. active \in [Users -> BOOLEAN]
    BY DEF Init
<1>6. Types
    BY <1>1, <1>2, <1>3, <1>4, <1>5 DEF Init, Types, Labels
<1>7. ASSUME NEW u \in Users PROVE IndexOK(u)
    <2>1. indexEnd[u] \in Absolute .. clock + Absolute
        <3>1. indexEnd[u] = Absolute
            BY DEF Init
        <3> QED
            BY <1>1, <3>1
    <2>2. ASSUME NEW s \in index[u] PROVE s \in Created /\ Owner(s) = u /\ sess[s].issued + Absolute <= indexEnd[u]
        <3>1. s \in StartTokens /\ StartOwner[s] = u /\ s \in Tokens
            BY DEF Init, Tokens
        <3>2. sess[s].issued + Absolute <= indexEnd[u]
            <4>1. indexEnd[u] = Absolute /\ sess[s].issued = 0
                BY <1>2, <3>1 DEF Init
            <4> QED
                BY <1>1, <4>1
        <3> QED
            BY <3>1, <3>2 DEF Created, Owner
    <2> QED
        BY <2>1, <2>2 DEF IndexOK
<1>8. \A s \in Tokens : SessionOK(s)
    BY <1>1, <1>2 DEF SessionOK
<1>9. \A t \in Txns : RequestOK(t) /\ RevocationOK(t)
    BY DEF Init, RequestOK, RevocationOK
<1> QED
    BY <1>6, <1>7, <1>8, <1>9 DEF Init, IInv

-----------------------------------------------------------------------------

\* IInv is inductive: one case for each step of the module.
LEMMA NextKeeps ==
    ASSUME IInv, [Next]_vars
    PROVE  IInv'
<1>1. ASSUME NEW t \in Txns, Step(t) PROVE IInv'
    BY <1>1, LoginKeeps, CreateKeeps, ReadSessionKeeps, DropKeeps, TouchKeeps, ReadAccountKeeps,
       WrongPasswordKeeps, ChangeKeeps, ListKeeps, DeleteKeeps, DeleteIndexKeeps, SignOutKeeps DEF Step
<1>2. CASE UNCHANGED vars
    <2>1. UNCHANGED <<clock, hash, active, sess, index, indexEnd, pc, req, reply, read, members, before, ended, late>>
        BY <1>2 DEF vars
    <2>2. /\ Created' = Created /\ \A s : Owner(s)' = Owner(s) /\ Live(s)' = Live(s) /\ Spent(s)' = Spent(s)
        BY <2>1 DEF Created, Owner, Live, Spent
    <2>3. \A t : UserOf(t)' = UserOf(t)
        BY <2>1 DEF UserOf, Owner
    <2>4. Types' /\ \A s \in Tokens : SessionOK(s)'
        BY <2>1 DEF IInv, Types, SessionOK
    <2>5. \A u \in Users : IndexOK(u)'
        BY <2>1, <2>2 DEF IInv, IndexOK
    <2>6. \A t \in Txns : RequestOK(t)'
        BY <2>1, <2>2, <2>3 DEF IInv, RequestOK
    <2>7. \A t \in Txns : \A s \in before[t] : Listed(t, s) => Listed(t, s)'
        BY <2>1, <2>3 DEF Listed
    <2>8. \A t \in Txns : RevocationOK(t)'
        BY <2>1, <2>2, <2>7 DEF IInv, RevocationOK
    <2> QED
        BY <2>1, <2>2, <2>4, <2>5, <2>6, <2>8 DEF IInv
<1> QED
    BY <1>1, <1>2, ReceiveKeeps, CrashKeeps, TickKeeps DEF Next

\* IInv holds in every reachable state.
LEMMA SessionsHold == Spec => []IInv
<1>1. IInv /\ [Next]_vars => IInv'
    BY NextKeeps
<1> QED
    BY <1>1, InitHolds, PTL DEF Spec

\* No session outlives the idle time unless it is used, none is issued in the future, and a
\* user's index lists his own sessions only, created ones.
THEOREM TypesHold == Spec => []TypeOK
<1>1. IInv => TypeOK
    <2> SUFFICES ASSUME IInv PROVE TypeOK
        OBVIOUS
    <2>1. \A s \in Tokens : sess[s].issued \in 0 .. clock /\ sess[s].ends \in 0 .. clock + Idle
        BY Times
    <2>2. \A u \in Users : \A s \in index[u] : s \in Created /\ Owner(s) = u
        BY DEF IInv, IndexOK
    <2>3. indexEnd \in [Users -> 0 .. MaxTime + Absolute]
        <3>1. ASSUME NEW u \in Users PROVE indexEnd[u] \in 0 .. MaxTime + Absolute
            <4>1. indexEnd[u] \in Absolute .. clock + Absolute /\ clock \in 0 .. MaxTime
                BY DEF IInv, IndexOK, Types
            <4> QED
                BY <4>1, TimesAssumption
        <3> QED
            BY <3>1 DEF IInv, Types
    <2> QED
        BY <2>1, <2>2, <2>3 DEF IInv, Types, TypeOK
<1> QED
    BY <1>1, SessionsHold, PTL

\* What a password change, the closing of an account or a logout has ended stays ended, however
\* many other revocations, logins and requests run beside it, whoever dies half-way, and
\* although the index it relies on is deleted by others and expires by itself.
THEOREM RevocationsHold == Spec => []RevokedForGood
<1>1. IInv => RevokedForGood
    BY DEF IInv, Spent, RevokedForGood
<1> QED
    BY <1>1, SessionsHold, PTL

\* A request that comes after its account was closed is refused, whichever sessions are left.
THEOREM ClosedStaysClosed == Spec => []ClosedIsRefused
<1>1. IInv => ClosedIsRefused
    BY DEF IInv, Types, RequestOK, ClosedIsRefused
<1> QED
    BY <1>1, SessionsHold, PTL

\* No step brings back a session that was deleted or has expired.
THEOREM GoneIsGone == Spec => GoneStaysGone
<1>1. IInv /\ [Next]_vars => [\A s \in Created : ~Live(s) => ~Live(s)']_vars
    <2> SUFFICES ASSUME IInv, Next, NEW s \in Created, ~Live(s) PROVE ~Live(s)'
        OBVIOUS
    <2>1. s \in Tokens /\ clock \in Nat /\ sess[s].ends \in Nat /\ ~(sess[s].ends > clock)
        BY CreatedOwned, Times DEF Live
    <2>2. clock' \in {clock, clock + 1}
        BY DEF Next, Receive, Step, Crash, Tick, Goto, Answer, Refuse, Admit, LoginCheck, LoginRehash,
               CreateSession, ReadSession, DropSession, TouchSession, ReadAccount, WrongPassword,
               ChangePassword, CloseAccount, ListSessions, DeleteSessions, DeleteIndex, SignOut
    <2>3. sess'[s] = sess[s] \/ sess'[s] = NoSession
        <3>1. ASSUME NEW t \in Txns, CreateSession(t) PROVE sess'[s] = sess[s]
            <4>1. s # t
                BY <3>1, TokensAssumption DEF CreateSession, Created
            <4> QED
                BY <2>1, <3>1, <4>1 DEF CreateSession, IInv, Types
        <3>2. ASSUME NEW t \in Txns, TouchSession(t) PROVE sess'[s] = sess[s]
            <4>1. CASE req[t].token = s
                BY <3>2, <4>1 DEF TouchSession
            <4>2. CASE req[t].token # s
                BY <2>1, <3>2, <4>2 DEF TouchSession, IInv, Types
            <4> QED
                BY <4>1, <4>2
        <3>3. ASSUME NEW t \in Txns, DropSession(t) \/ DeleteSessions(t) \/ SignOut(t)
              PROVE  sess'[s] = sess[s] \/ sess'[s] = NoSession
            BY <2>1, <3>3 DEF DropSession, DeleteSessions, SignOut, IInv, Types
        <3>4. ASSUME NEW t \in Txns,
                     \/ \E r \in Possible : Receive(t, r)
                     \/ LoginCheck(t) \/ LoginRehash(t) \/ ReadSession(t) \/ ReadAccount(t)
                     \/ WrongPassword(t) \/ ChangePassword(t) \/ CloseAccount(t)
                     \/ ListSessions(t) \/ DeleteIndex(t) \/ Crash(t)
              PROVE  sess' = sess
            BY <3>4 DEF Receive, Crash, Refuse, Admit, LoginCheck, LoginRehash, ReadSession, ReadAccount,
                        WrongPassword, ChangePassword, CloseAccount, ListSessions, DeleteIndex, redis
        <3>5. CASE Tick
            BY <3>5 DEF Tick, redis
        <3> QED
            BY <3>1, <3>2, <3>3, <3>4, <3>5 DEF Next, Step
    <2>4. sess'[s].ends = sess[s].ends \/ sess'[s].ends = 0
        BY <2>3 DEF NoSession
    <2> QED
        BY <2>1, <2>2, <2>4 DEF Live
<1> QED
    BY <1>1, SessionsHold, PTL DEF Spec, GoneStaysGone
=============================================================================
