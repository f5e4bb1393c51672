-------------------------------- MODULE Csrf --------------------------------
(***************************************************************************)
(* The CSRF token of a browser (backend/app/services/csrf.py, ensureCsrf of *)
(* frontend/app.js): every tab keeps the token it has fetched in memory as  *)
(* long as it is open, all tabs share one cookie, and a change must carry   *)
(* the token that is in the cookie.                                         *)
(*                                                                          *)
(* A token is told apart only by its relation to the cookie: "cookie", the  *)
(* one that was set last, or "old", one that was replaced.  Both carry the  *)
(* same expiry, so the cookie's remaining life is the only time.            *)
(*                                                                          *)
(*   at: idle -> (get -> json ->) send -> idle | forbidden                  *)
(***************************************************************************)
EXTENDS Naturals

CONSTANTS
    Clicks, Tabs, TabOf,   \* requests for a change, and the tab each comes from
    TokenTtl               \* TOKEN_TTL_SECONDS

ASSUME TabAssumption == TabOf \in [Clicks -> Tabs] /\ TokenTtl \in Nat \ {0}

VARIABLES
    life,        \* seconds the cookie has left; 0 when there is none
    memory,      \* state.csrfToken of each tab
    at, carries, \* where a click is, and the token it will send
    crowded      \* history: a fetch was begun beside another one or beside a tab that had a token

browser == <<life, memory, at, carries, crowded>>

Held == {"none", "cookie", "old"}

CsrfInit ==
    /\ life = 0
    /\ memory = [b \in Tabs |-> "none"]
    /\ at = [c \in Clicks |-> "idle"] /\ carries = [c \in Clicks |-> "none"]
    /\ crowded = FALSE

\* ensureCsrf: the tab's token, or a fetch of one.
Click(c) ==
    LET tab == TabOf[c] IN
    /\ at[c] \in {"idle", "forbidden"}
    /\ at' = [at EXCEPT ![c] = IF memory[tab] = "none" THEN "get" ELSE "send"]
    /\ carries' = [carries EXCEPT ![c] = memory[tab]]
    /\ crowded' = (crowded \/ (memory[tab] = "none" /\
                      (\/ \E b \in Tabs : memory[b] # "none"
                       \/ \E d \in Clicks \ {c} : at[d] \in {"get", "json"})))
    /\ UNCHANGED <<life, memory>>

Replaced(f) == [x \in DOMAIN f |-> IF f[x] = "cookie" THEN "old" ELSE f[x]]

\* create_csrf_token: the answer sets the cookie of all tabs.
Answer(c) ==
    /\ at[c] = "get"
    /\ life' = TokenTtl
    /\ memory' = Replaced(memory)
    /\ carries' = [Replaced(carries) EXCEPT ![c] = "cookie"]
    /\ at' = [at EXCEPT ![c] = "json"]
    /\ UNCHANGED crowded

\* The body of the answer is read later than its headers; the last to be read stays.
Keep(c) ==
    /\ at[c] = "json"
    /\ memory' = [memory EXCEPT ![TabOf[c]] = carries[c]]
    /\ at' = [at EXCEPT ![c] = "send"]
    /\ UNCHANGED <<life, carries, crowded>>

\* enforce_csrf: header and cookie agree, and the token has not expired.
Valid(c) == carries[c] = "cookie" /\ life > 0

\* Wrong on purpose: every accepted change is answered with a new token.
SentRotating(c) ==
    /\ at' = [at EXCEPT ![c] = "idle"]
    /\ life' = TokenTtl /\ memory' = Replaced(memory)
    /\ carries' = [Replaced(carries) EXCEPT ![c] = "none"]
    /\ UNCHANGED crowded

\* The request goes on to its handler.
Sent(c) ==
    /\ at' = [at EXCEPT ![c] = "idle"]
    /\ carries' = [carries EXCEPT ![c] = "none"]
    /\ UNCHANGED <<life, memory, crowded>>

Pass(c) == at[c] = "send" /\ Valid(c) /\ Sent(c)

\* The 403; the page keeps the token it has.
Forbid(c) ==
    /\ at[c] = "send" /\ ~Valid(c)
    /\ at' = [at EXCEPT ![c] = "forbidden"]
    /\ carries' = [carries EXCEPT ![c] = "none"]
    /\ UNCHANGED <<life, memory, crowded>>

\* The page is loaded again: its memory and its requests under way are gone.
Reload(b) ==
    LET mine == {c \in Clicks : TabOf[c] = b} IN
    /\ memory[b] # "none"
    /\ memory' = [memory EXCEPT ![b] = "none"]
    /\ at' = [c \in Clicks |-> IF c \in mine THEN "idle" ELSE at[c]]
    /\ carries' = [c \in Clicks |-> IF c \in mine THEN "none" ELSE carries[c]]
    /\ UNCHANGED <<life, crowded>>

CsrfSecond ==
    /\ life' = IF life = 0 THEN 0 ELSE life - 1
    /\ UNCHANGED <<memory, at, carries, crowded>>

-----------------------------------------------------------------------------

CsrfTypeOK ==
    /\ life \in 0 .. TokenTtl
    /\ memory \in [Tabs -> Held] /\ carries \in [Clicks -> Held]
    /\ at \in [Clicks -> {"idle", "get", "json", "send", "forbidden"}]
    /\ crowded \in BOOLEAN

\* A page that has the browser for itself and fetches its token once is never refused within
\* the token's two hours, over any number of changes and reloads: a 403 means that the token
\* has expired, or that two fetches overlapped, or that a second tab fetched one.
AloneIsNotRefused ==
    [][\A c \in Clicks : at[c] = "send" /\ at'[c] = "forbidden" => life = 0 \/ crowded]_browser
=============================================================================
