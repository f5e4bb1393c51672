-------------------------------- MODULE Gate --------------------------------
(***************************************************************************)
(* What a change has to pass before its handler: security_middleware        *)
(* (backend/app/main.py) checks the CSRF token, then the handlers of        *)
(* routers/auth.py count the request.  Csrf and RateLimit composed: one     *)
(* browser with several tabs, one counter.                                  *)
(***************************************************************************)
EXTENDS Csrf, RateLimit

ASSUME ClicksAssumption == Calls = Clicks

vars == <<browser, limiter>>

Init == CsrfInit /\ RateInit

\* Browser steps; a tab waits for the answer of a click before the next.
Browse ==
    \/ \E c \in Clicks : /\ Click(c) \/ Answer(c) \/ Keep(c) \/ Forbid(c)
                         /\ call[c] = "idle" /\ UNCHANGED limiter
    \/ \E b \in Tabs : Reload(b) /\ UNCHANGED limiter

Admit(c) == Pass(c) /\ Enforce(c)

Serve(c) == LimiterStep(c) /\ UNCHANGED browser

Second == CsrfSecond /\ RateSecond

Next ==
    \/ Browse
    \/ \E c \in Clicks : Admit(c) \/ Serve(c) \/ (CrashCall(c) /\ UNCHANGED browser)
    \/ Second

\* The clock runs and a call that has begun goes on; the customer need not do anything.
Spec == Init /\ [][Next]_vars /\ WF_vars(Second) /\ \A c \in Clicks : WF_vars(Serve(c))

TypeOK == CsrfTypeOK /\ RateTypeOK
=============================================================================
