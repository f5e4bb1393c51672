----------------------------- MODULE GateProofs -----------------------------
(***************************************************************************)
(* Theorems of Gate, for any limit, window and life of a token, any number  *)
(* of tabs and of requests in flight.                                       *)
(***************************************************************************)
EXTENDS Gate, Sums

Fetching(c) == at[c] \in {"get", "json"}

\* As long as no two fetches met: one token is under way, or it is in the cookie and in the
\* memory of the tabs that send it.
Alone ==
    /\ \A b \in Tabs : memory[b] \in {"none", "cookie"}
    /\ \A c \in Clicks :
        /\ at[c] = "send" => carries[c] = "cookie" /\ memory[TabOf[c]] = "cookie"
        /\ at[c] = "json" => carries[c] = "cookie"
        /\ Fetching(c) => \A b \in Tabs : memory[b] = "none"
        /\ \A d \in Clicks : Fetching(c) /\ Fetching(d) => c = d

CInv == CsrfTypeOK /\ (~crowded => Alone)

\* At first no tab has a token.
LEMMA BrowserStarts == CsrfInit => CInv
<1> SUFFICES ASSUME CsrfInit PROVE CInv
    OBVIOUS
<1>1. CsrfTypeOK
    <2>1. life \in 0 .. TokenTtl
        BY TabAssumption DEF CsrfInit
    <2>2. /\ memory \in [Tabs -> Held] /\ carries \in [Clicks -> Held]
          /\ at \in [Clicks -> {"idle", "get", "json", "send", "forbidden"}]
        BY DEF CsrfInit, Held
    <2>3. crowded \in BOOLEAN
        BY DEF CsrfInit
    <2> QED
        BY <2>1, <2>2, <2>3 DEF CsrfTypeOK
<1>2. Alone
    BY TabAssumption DEF CsrfInit, Alone, Fetching
<1> QED
    BY <1>1, <1>2 DEF CInv

\* A click goes on with the tab's token or asks for one.
LEMMA ClickKeeps ==
    ASSUME CInv, NEW c \in Clicks, Click(c)
    PROVE  CInv'
<1>1. TabOf[c] \in Tabs
    BY TabAssumption
<1>2. CsrfTypeOK'
    BY <1>1 DEF Click, CInv, CsrfTypeOK
<1>3. ASSUME ~crowded' PROVE Alone'
    <2>1. /\ ~crowded /\ Alone /\ memory' = memory
          /\ at'[c] = IF memory[TabOf[c]] = "none" THEN "get" ELSE "send"
          /\ carries'[c] = memory[TabOf[c]]
          /\ \A d \in Clicks \ {c} : at'[d] = at[d] /\ carries'[d] = carries[d]
        BY <1>3 DEF Click, CInv, CsrfTypeOK
    <2>2. CASE memory[TabOf[c]] = "none"
        <3>1. (\A b \in Tabs : memory[b] = "none") /\ \A d \in Clicks \ {c} : ~Fetching(d)
            BY <1>3, <2>2 DEF Click, CInv, CsrfTypeOK, Fetching
        <3> QED
            BY <2>1, <2>2, <3>1 DEF Alone, Fetching
    <2>3. CASE memory[TabOf[c]] # "none"
        <3>1. memory[TabOf[c]] = "cookie" /\ \A d \in Clicks : ~Fetching(d)
            BY <1>1, <2>1, <2>3 DEF Alone
        <3> QED
            BY <2>1, <2>3, <3>1 DEF Alone, Fetching
    <2> QED
        BY <2>2, <2>3
<1> QED
    BY <1>2, <1>3 DEF CInv

\* A new cookie makes every other token old; only tabs that fetched meanwhile can tell.
LEMMA AnswerKeeps ==
    ASSUME CInv, NEW c \in Clicks, Answer(c)
    PROVE  CInv'
<1>1. /\ \A b \in Tabs : memory'[b] = IF memory[b] = "cookie" THEN "old" ELSE memory[b]
      /\ \A d \in Clicks \ {c} : /\ carries'[d] = IF carries[d] = "cookie" THEN "old" ELSE carries[d]
                                 /\ at'[d] = at[d]
      /\ carries'[c] = "cookie" /\ at'[c] = "json" /\ at[c] = "get" /\ crowded' = crowded
    BY DEF Answer, Replaced, CInv, CsrfTypeOK
<1>2. CsrfTypeOK'
    BY TabAssumption DEF Answer, Replaced, CInv, CsrfTypeOK, Held
<1>3. ASSUME ~crowded PROVE Alone'
    <2>1. (\A b \in Tabs : memory[b] = "none") /\ \A d \in Clicks \ {c} : ~Fetching(d) /\ at[d] # "send"
        BY <1>1, <1>3, TabAssumption DEF CInv, Alone, Fetching
    <2> QED
        BY <1>1, <2>1 DEF Alone, Fetching
<1> QED
    BY <1>1, <1>2, <1>3 DEF CInv

\* The page keeps the token of the answer.
LEMMA KeepKeeps ==
    ASSUME CInv, NEW c \in Clicks, Keep(c)
    PROVE  CInv'
<1>1. /\ TabOf[c] \in Tabs /\ memory'[TabOf[c]] = carries[c]
      /\ \A b \in Tabs \ {TabOf[c]} : memory'[b] = memory[b]
      /\ \A d \in Clicks \ {c} : at'[d] = at[d]
      /\ at'[c] = "send" /\ at[c] = "json" /\ carries' = carries /\ crowded' = crowded
    BY TabAssumption DEF Keep, CInv, CsrfTypeOK
<1>2. CsrfTypeOK'
    BY TabAssumption DEF Keep, CInv, CsrfTypeOK, Held
<1>3. ASSUME ~crowded PROVE Alone'
    <2>1. carries[c] = "cookie" /\ \A d \in Clicks \ {c} : ~Fetching(d) /\ at[d] # "send"
        BY <1>1, <1>3, TabAssumption DEF CInv, Alone, Fetching
    <2> QED
        BY <1>1, <1>3, <2>1 DEF CInv, Alone, Fetching
<1> QED
    BY <1>1, <1>2, <1>3 DEF CInv

\* A request that is sent or refused leaves the tokens.
LEMMA SentKeeps ==
    ASSUME CInv, NEW c \in Clicks, Sent(c) \/ Forbid(c)
    PROVE  CInv'
<1>1. /\ at'[c] \in {"idle", "forbidden"} /\ \A d \in Clicks \ {c} : at'[d] = at[d] /\ carries'[d] = carries[d]
      /\ memory' = memory /\ crowded' = crowded
    BY DEF Sent, Forbid, CInv, CsrfTypeOK
<1>2. CsrfTypeOK'
    BY DEF Sent, Forbid, CInv, CsrfTypeOK, Held
<1> QED
    BY <1>1, <1>2 DEF CInv, Alone, Fetching

\* A page that is loaded again has forgotten its token and its clicks.
LEMMA ReloadKeeps ==
    ASSUME CInv, NEW b \in Tabs, Reload(b)
    PROVE  CInv'
<1>1. /\ memory'[b] = "none" /\ \A d \in Tabs \ {b} : memory'[d] = memory[d]
      /\ \A c \in Clicks : /\ at'[c] = IF TabOf[c] = b THEN "idle" ELSE at[c]
                           /\ carries'[c] = IF TabOf[c] = b THEN "none" ELSE carries[c]
      /\ crowded' = crowded
    BY DEF Reload, CInv, CsrfTypeOK
<1>2. CsrfTypeOK'
    BY DEF Reload, CInv, CsrfTypeOK, Held
<1> QED
    BY <1>1, <1>2, TabAssumption DEF CInv, Alone, Fetching

\* The cookie ages; an expired one leaves no current token.
LEMMA BrowserSecond ==
    ASSUME CInv, CsrfSecond
    PROVE  CInv'
<1>1. CsrfTypeOK'
    BY TabAssumption DEF CsrfSecond, CInv, CsrfTypeOK
<1> QED
    BY <1>1 DEF CsrfSecond, CInv, Alone, Fetching

-----------------------------------------------------------------------------

Ages == 0 .. Window - 1

\* A change of the youngest entry; and a split of the table in two.
LEMMA YoungestChanges ==
    ASSUME NEW f \in [Ages -> Nat], NEW g \in [Ages -> Nat], \A i \in 1 .. Window - 1 : g[i] = f[i],
           NEW k \in 1 .. Window
    PROVE  /\ SumFunctionOnSet(f, 0 .. k - 1) \in Nat /\ SumFunctionOnSet(f, k .. Window - 1) \in Nat
           /\ SumFunctionOnSet(g, 0 .. k - 1) + f[0] = SumFunctionOnSet(f, 0 .. k - 1) + g[0]
           /\ SumFunctionOnSet(g, k .. Window - 1) = SumFunctionOnSet(f, k .. Window - 1)
<1>1. Window \in Nat \ {0} /\ k \in Nat
    BY LimitAssumption
<1>2. /\ IsFiniteSet(0 .. k - 1) /\ IsFiniteSet(k .. Window - 1) /\ IsFiniteSet((0 .. k - 1) \ {0})
    <2>1. IsFiniteSet(0 .. k - 1) /\ IsFiniteSet(k .. Window - 1)
        BY <1>1, FS_Interval
    <2>2. IsFiniteSet((0 .. k - 1) \ {0})
        BY <2>1, FS_Subset
    <2> QED
        BY <2>1, <2>2
<1>3. /\ 0 \in 0 .. k - 1
      /\ \A i \in 0 .. k - 1 : f[i] \in Nat /\ g[i] \in Nat
      /\ \A i \in k .. Window - 1 : f[i] \in Nat /\ g[i] = f[i]
      /\ \A i \in (0 .. k - 1) \ {0} : f[i] \in Nat /\ g[i] = f[i]
    BY <1>1 DEF Ages
<1>4. SumFunctionOnSet(f, 0 .. k - 1) \in Nat /\ SumFunctionOnSet(f, k .. Window - 1) \in Nat
      /\ SumFunctionOnSet(f, (0 .. k - 1) \ {0}) \in Nat
    BY <1>2, <1>3, SumType
<1>5. SumFunctionOnSet(g, k .. Window - 1) = SumFunctionOnSet(f, k .. Window - 1)
    BY <1>2, <1>3, SumSame
<1>6. SumFunctionOnSet(g, (0 .. k - 1) \ {0}) = SumFunctionOnSet(f, (0 .. k - 1) \ {0})
    BY <1>2, <1>3, SumSame
<1>7. /\ SumFunctionOnSet(g, 0 .. k - 1) = g[0] + SumFunctionOnSet(g, (0 .. k - 1) \ {0})
      /\ SumFunctionOnSet(f, 0 .. k - 1) = f[0] + SumFunctionOnSet(f, (0 .. k - 1) \ {0})
    BY <1>2, <1>3, SumRemove
<1> QED
    BY <1>3, <1>4, <1>5, <1>6, <1>7

\* The table may be summed up in two parts.
LEMMA TwoParts ==
    ASSUME NEW f \in [Ages -> Nat], NEW k \in 0 .. Window
    PROVE  /\ SumFunctionOnSet(f, 0 .. k - 1) \in Nat /\ SumFunctionOnSet(f, k .. Window - 1) \in Nat
           /\ SumFunctionOnSet(f, Ages) = SumFunctionOnSet(f, 0 .. k - 1) + SumFunctionOnSet(f, k .. Window - 1)
<1>1. Window \in Nat \ {0} /\ k \in Nat
    BY LimitAssumption
<1>2. /\ IsFiniteSet(0 .. k - 1) /\ IsFiniteSet(k .. Window - 1)
    BY <1>1, FS_Interval
<1>3. /\ \A i \in (0 .. k - 1) \cup (k .. Window - 1) : f[i] \in Nat
      /\ (0 .. k - 1) \cap (k .. Window - 1) = {}
      /\ (0 .. k - 1) \cup (k .. Window - 1) = Ages
    BY <1>1 DEF Ages
<1>4. SumFunctionOnSet(f, 0 .. k - 1) \in Nat /\ SumFunctionOnSet(f, k .. Window - 1) \in Nat
    BY <1>2, <1>3, SumType
<1>5. SumFunctionOnSet(f, (0 .. k - 1) \cup (k .. Window - 1))
        = SumFunctionOnSet(f, 0 .. k - 1) + SumFunctionOnSet(f, k .. Window - 1)
    BY <1>2, <1>3, SumUnion
<1> QED
    BY <1>3, <1>4, <1>5

\* A second passes: what was split at k is split at k + 1, and the oldest entry is dropped.
LEMMA EverythingAges ==
    ASSUME NEW f \in [Ages -> Nat], NEW g \in [Ages -> Nat], g[0] = 0,
           \A i \in 1 .. Window - 1 : g[i] = f[i - 1], NEW k \in 0 .. Window - 1
    PROVE  /\ SumFunctionOnSet(g, 0 .. k) = SumFunctionOnSet(f, 0 .. k - 1)
           /\ SumFunctionOnSet(g, k + 1 .. Window - 1) <= SumFunctionOnSet(f, k .. Window - 1)
<1>1. Window \in Nat \ {0} /\ k \in Nat
    BY LimitAssumption
<1>2. ASSUME NEW a \in Nat, NEW b \in Nat, b < Window
      PROVE  SumFunctionOnSet(g, a + 1 .. b) = SumFunctionOnSet(f, a .. b - 1)
    <2>1. CASE b = 0
        <3>1. a + 1 .. b = {} /\ a .. b - 1 = {}
            BY <2>1
        <3> QED
            BY <3>1, SumEmpty
    <2>2. CASE b # 0
        <3>1. b - 1 \in Nat /\ (b - 1) + 1 = b
            BY <2>2
        <3>2. \A i \in a .. b - 1 : f[i] \in Nat /\ g[i + 1] = f[i]
            <4> SUFFICES ASSUME NEW i \in a .. b - 1 PROVE f[i] \in Nat /\ g[i + 1] = f[i]
                OBVIOUS
            <4>1. i \in Ages /\ i + 1 \in 1 .. Window - 1 /\ (i + 1) - 1 = i
                BY <1>1, <1>2 DEF Ages
            <4> QED
                BY <4>1
        <3>3. SumFunctionOnSet(g, a + 1 .. (b - 1) + 1) = SumFunctionOnSet(f, a .. b - 1)
            <4> DEFINE c == b - 1
            <4>1. c \in Nat /\ \A i \in a .. c : f[i] \in Nat /\ g[i + 1] = f[i]
                BY <3>1, <3>2
            <4> HIDE DEF c
            <4>2. SumFunctionOnSet(g, a + 1 .. c + 1) = SumFunctionOnSet(f, a .. c)
                BY <4>1, SumShift
            <4> QED
                BY <4>2 DEF c
        <3> QED
            BY <3>1, <3>3
    <2> QED
        BY <2>1, <2>2
<1>3. SumFunctionOnSet(g, 0 .. k) = SumFunctionOnSet(f, 0 .. k - 1)
    <2>1. IsFiniteSet(0 .. k)
        BY <1>1, FS_Interval
    <2>2. SumFunctionOnSet(g, 0 .. k) = g[0] + SumFunctionOnSet(g, (0 .. k) \ {0})
        <3>1. 0 \in 0 .. k /\ 0 .. k \subseteq Ages
            BY <1>1 DEF Ages
        <3>2. \A i \in 0 .. k : g[i] \in Nat
            BY <3>1
        <3> QED
            BY <2>1, <3>1, <3>2, SumRemove
    <2>3. (0 .. k) \ {0} = 0 + 1 .. k
        BY <1>1
    <2>4. SumFunctionOnSet(g, 0 + 1 .. k) = SumFunctionOnSet(f, 0 .. k - 1)
        BY <1>1, <1>2
    <2>5. SumFunctionOnSet(f, 0 .. k - 1) \in Nat
        <3>1. k \in 0 .. Window
            BY <1>1
        <3> QED
            BY <3>1, TwoParts
    <2>6. SumFunctionOnSet(g, 0 .. k) = 0 + SumFunctionOnSet(f, 0 .. k - 1)
        BY <2>2, <2>3, <2>4
    <2> QED
        BY <2>5, <2>6
<1>4. SumFunctionOnSet(g, k + 1 .. Window - 1) <= SumFunctionOnSet(f, k .. Window - 1)
    <2> DEFINE w == Window - 1
    <2>1. w \in Nat /\ w < Window /\ k <= w
        BY <1>1
    <2>2. SumFunctionOnSet(g, k + 1 .. w) = SumFunctionOnSet(f, k .. w - 1)
        <3> HIDE DEF w
        <3> QED
            BY <1>1, <1>2, <2>1
    <2>3. IsFiniteSet(k .. w) /\ w \in k .. w /\ (k .. w) \ {w} = k .. w - 1
        <3> HIDE DEF w
        <3>1. IsFiniteSet(k .. w)
            BY <1>1, <2>1, FS_Interval
        <3>2. w \in k .. w /\ (k .. w) \ {w} = k .. w - 1
            BY <1>1, <2>1
        <3> QED
            BY <3>1, <3>2
    <2>4. \A i \in k .. w : f[i] \in Nat
        BY <1>1 DEF Ages
    <2> HIDE DEF w
    <2>5. SumFunctionOnSet(f, k .. w) = f[w] + SumFunctionOnSet(f, (k .. w) \ {w})
        BY <2>3, <2>4, SumRemove
    <2>6. IsFiniteSet((k .. w) \ {w}) /\ \A i \in (k .. w) \ {w} : f[i] \in Nat
        BY <2>3, <2>4, FS_RemoveElement
    <2>7. SumFunctionOnSet(f, (k .. w) \ {w}) \in Nat /\ f[w] \in Nat
        BY <2>3, <2>4, <2>6, SumType
    <2>8. SumFunctionOnSet(f, k .. w) = f[w] + SumFunctionOnSet(g, k + 1 .. w)
        BY <2>2, <2>3, <2>5
    <2>9. SumFunctionOnSet(g, k + 1 .. w) \in Nat /\ f[w] \in Nat
        BY <2>2, <2>3, <2>7
    <2>10. SumFunctionOnSet(g, k + 1 .. w) <= SumFunctionOnSet(f, k .. w)
        BY <2>8, <2>9
    <2> QED
        BY <2>10 DEF w
<1> QED
    BY <1>3, <1>4

-----------------------------------------------------------------------------

\* The last life of the counter began k seconds ago, rounded up: what was admitted since is
\* counted, what was admitted before belongs to one life at most, and the counter will not be
\* gone before the table forgets that life.
Split(k) ==
    /\ SumFunctionOnSet(recent, 0 .. k - 1) <= count
    /\ SumFunctionOnSet(recent, 0 .. k - 1) <= Limit
    /\ SumFunctionOnSet(recent, k .. Window - 1) <= Limit
    /\ ttl > 0 => k + ttl > Window

RInv ==
    /\ RateTypeOK
    /\ count = 0 => recent[0] = 0 /\ SumFunctionOnSet(recent, Ages) <= Limit
    /\ count > 0 => \E k \in 1 .. Window : Split(k)

\* At first there is no counter and nobody got through.
LEMMA LimiterStarts == RateInit => RInv
<1> SUFFICES ASSUME RateInit PROVE RInv
    OBVIOUS
<1>1. RateTypeOK
    BY LimitAssumption DEF RateInit, RateTypeOK, NoTtl
<1>2. IsFiniteSet(Ages) /\ \A i \in Ages : recent[i] = 0
    BY LimitAssumption, FS_Interval DEF RateInit, Ages
<1>3. SumFunctionOnSet(recent, Ages) = 0
    BY <1>2, SumZero
<1>4. 0 \in Ages
    BY LimitAssumption DEF Ages
<1> QED
    BY <1>1, <1>2, <1>3, <1>4, LimitAssumption DEF RateInit, RInv

\* A request that gets through is one that the counter has counted.
LEMMA IncrementKeeps ==
    ASSUME RInv, NEW c \in Calls, Increment(c)
    PROVE  RInv'
<1>1. /\ recent \in [Ages -> Nat] /\ count \in 0 .. Limit + 2 /\ count \in Nat /\ Limit \in Nat \ {0}
      /\ ttl \in NoTtl .. Window /\ Window \in Nat \ {0} /\ 0 \in Ages
    BY LimitAssumption DEF RInv, RateTypeOK, Ages
<1>2. /\ count' = IF count + 1 > Limit + 2 THEN count ELSE count + 1
      /\ ttl' = IF count = 0 THEN NoTtl ELSE ttl
      /\ recent' = [recent EXCEPT ![0] = IF count + 1 > Limit THEN @ ELSE @ + 1]
    BY DEF Increment, Over
<1>3. /\ recent' \in [Ages -> Nat] /\ \A i \in 1 .. Window - 1 : recent'[i] = recent[i]
      /\ recent'[0] = IF count + 1 > Limit THEN recent[0] ELSE recent[0] + 1
    BY <1>1, <1>2 DEF Ages
<1>4. count' > 0 /\ RateTypeOK'
    <2>1. call' \in [Calls -> {"idle", "incr", "expire"}] /\ crashes' \in 0 .. MaxCrashes
        BY DEF Increment, RInv, RateTypeOK
    <2>2. count' \in 0 .. Limit + 2 /\ count' > 0 /\ ttl' \in NoTtl .. Window /\ ttl' # 0
        BY <1>1, <1>2 DEF RInv, RateTypeOK, NoTtl
    <2> QED
        BY <1>3, <2>1, <2>2 DEF RateTypeOK, Ages
<1>5. \E k \in 1 .. Window : Split(k)'
    <2>1. CASE count = 0
        <3>1. 1 \in 1 .. Window
            BY <1>1
        <3>2. /\ SumFunctionOnSet(recent, 0 .. 1 - 1) \in Nat /\ SumFunctionOnSet(recent, 1 .. Window - 1) \in Nat
              /\ SumFunctionOnSet(recent', 0 .. 1 - 1) + recent[0]
                   = SumFunctionOnSet(recent, 0 .. 1 - 1) + recent'[0]
              /\ SumFunctionOnSet(recent', 1 .. Window - 1) = SumFunctionOnSet(recent, 1 .. Window - 1)
            BY <1>1, <1>3, <3>1, YoungestChanges
        <3>3. SumFunctionOnSet(recent, Ages)
                 = SumFunctionOnSet(recent, 0 .. 1 - 1) + SumFunctionOnSet(recent, 1 .. Window - 1)
            <4>1. 1 \in 0 .. Window
                BY <1>1
            <4> QED
                BY <1>1, <4>1, TwoParts
        <3>4. SumFunctionOnSet(recent, 0 .. 1 - 1) = 0
            <4>1. IsFiniteSet(0 .. 1 - 1)
                <5>1. 0 .. 1 - 1 = {0}
                    OBVIOUS
                <5> QED
                    BY <5>1, FS_Singleton
            <4>2. \A i \in 0 .. 1 - 1 : recent[i] = 0
                BY <2>1 DEF RInv
            <4> QED
                BY <4>1, <4>2, SumZero
        <3>5. recent[0] = 0 /\ recent'[0] = 1
            BY <1>1, <1>3, <2>1 DEF RInv
        <3>6. SumFunctionOnSet(recent', 0 .. 1 - 1) = 1
            <4>1. 1 \in 0 .. Window
                BY <1>1
            <4>2. SumFunctionOnSet(recent', 0 .. 1 - 1) \in Nat
                BY <1>3, <4>1, TwoParts
            <4> QED
                BY <3>2, <3>4, <3>5, <4>2
        <3>7. SumFunctionOnSet(recent, Ages) <= Limit
            BY <2>1 DEF RInv
        <3>8. SumFunctionOnSet(recent', 1 .. Window - 1) <= Limit
            BY <1>1, <3>2, <3>3, <3>4, <3>7
        <3>9. count' = 1 /\ ~(ttl' > 0)
            BY <1>1, <1>2, <2>1 DEF NoTtl
        <3>10. Split(1)'
            BY <1>1, <3>6, <3>8, <3>9 DEF Split
        <3> QED
            BY <3>1, <3>10
    <2>2. CASE count > 0
        <3>1. PICK k \in 1 .. Window : Split(k)
            BY <2>2 DEF RInv
        <3>2. /\ SumFunctionOnSet(recent, 0 .. k - 1) \in Nat /\ SumFunctionOnSet(recent, k .. Window - 1) \in Nat
              /\ SumFunctionOnSet(recent', 0 .. k - 1) + recent[0]
                   = SumFunctionOnSet(recent, 0 .. k - 1) + recent'[0]
              /\ SumFunctionOnSet(recent', k .. Window - 1) = SumFunctionOnSet(recent, k .. Window - 1)
            BY <1>1, <1>3, YoungestChanges
        <3> DEFINE old == SumFunctionOnSet(recent, 0 .. k - 1)
                   new == SumFunctionOnSet(recent', 0 .. k - 1)
        <3>3. recent[0] \in Nat
            BY <1>1
        <3>4. ttl' = ttl /\ old <= count /\ old <= Limit /\ (ttl > 0 => k + ttl > Window)
            BY <1>2, <2>2, <3>1 DEF Split
        <3>5. SumFunctionOnSet(recent', k .. Window - 1) <= Limit
            BY <3>1, <3>2 DEF Split
        <3> HIDE DEF old, new
        <3>6. new \in Nat
            <4>1. k \in 0 .. Window
                BY <1>1
            <4> QED
                BY <1>3, <4>1, TwoParts DEF new
        <3>7. old \in Nat /\ new + recent[0] = old + recent'[0]
            BY <3>2 DEF old, new
        <3>8. CASE count + 1 > Limit
            <4>1. recent'[0] = recent[0] /\ count' >= count /\ count' \in Nat
                BY <1>1, <1>2, <1>3, <3>8
            <4>2. new = old
                BY <3>3, <3>6, <3>7, <4>1
            <4>3. new <= count' /\ new <= Limit
                BY <1>1, <3>4, <3>7, <4>1, <4>2
            <4> QED
                BY <3>4, <3>5, <4>3 DEF Split, new
        <3>9. CASE count + 1 <= Limit
            <4>1. recent'[0] = recent[0] + 1 /\ count' = count + 1
                BY <1>1, <1>2, <1>3, <3>9
            <4>2. new = old + 1
                BY <3>3, <3>6, <3>7, <4>1
            <4>3. new <= count' /\ new <= Limit
                BY <1>1, <3>4, <3>7, <3>9, <4>1, <4>2
            <4> QED
                BY <3>4, <3>5, <4>3 DEF Split, new
        <3> QED
            BY <1>1, <3>8, <3>9
    <2> QED
        BY <1>1, <2>1, <2>2
<1> QED
    BY <1>4, <1>5 DEF RInv

\* An EXPIRE, or a crash before it, counts nobody; it may only lengthen a window.
LEMMA ExpireKeeps ==
    ASSUME RInv, NEW c \in Calls, Expire(c) \/ CrashCall(c)
    PROVE  RInv'
<1>1. /\ Limit \in Nat \ {0} /\ count \in 0 .. Limit + 2 /\ Window \in Nat \ {0} /\ ttl \in NoTtl .. Window
    BY LimitAssumption DEF RInv, RateTypeOK
<1>2. /\ count' = count /\ recent' = recent
      /\ ttl' = ttl \/ (ttl' = IF count = 0 THEN 0 ELSE Window)
    BY DEF Expire, CrashCall
<1>3. RateTypeOK'
    <2>1. call' \in [Calls -> {"idle", "incr", "expire"}]
        BY DEF Expire, CrashCall, RInv, RateTypeOK
    <2>2. crashes' \in 0 .. MaxCrashes
        BY LimitAssumption DEF Expire, CrashCall, RInv, RateTypeOK
    <2>3. ttl' \in NoTtl .. Window /\ (count' = 0 <=> ttl' = 0)
        BY <1>1, <1>2 DEF RInv, RateTypeOK, NoTtl
    <2> QED
        BY <1>2, <2>1, <2>2, <2>3 DEF RInv, RateTypeOK
<1>4. ASSUME NEW k \in 1 .. Window, Split(k), count > 0 PROVE Split(k)'
    <2>1. ttl' > 0 => k + ttl' > Window
        BY <1>1, <1>2, <1>4 DEF Split
    <2> QED
        BY <1>2, <1>4, <2>1 DEF Split
<1> QED
    BY <1>2, <1>3, <1>4 DEF RInv

\* A second later every request is a second older, and the counter may end.
LEMMA LimiterSecond ==
    ASSUME RInv, RateSecond
    PROVE  RInv'
<1>1. /\ recent \in [Ages -> Nat] /\ count \in 0 .. Limit + 2 /\ count \in Nat /\ Limit \in Nat \ {0}
      /\ ttl \in NoTtl .. Window /\ Window \in Nat \ {0} /\ 0 \in Ages
    BY LimitAssumption DEF RInv, RateTypeOK, Ages
<1>2. /\ recent' \in [Ages -> Nat] /\ recent'[0] = 0
      /\ \A i \in 1 .. Window - 1 : recent'[i] = recent[i - 1]
    BY <1>1 DEF RateSecond, Ages
<1>3. /\ ttl' = IF ttl > 0 THEN ttl - 1 ELSE ttl
      /\ count' = IF ttl = 1 THEN 0 ELSE count
    BY DEF RateSecond
<1>4. RateTypeOK'
    <2>1. call' \in [Calls -> {"idle", "incr", "expire"}] /\ crashes' \in 0 .. MaxCrashes
        BY DEF RateSecond, RInv, RateTypeOK
    <2>2. count' \in 0 .. Limit + 2 /\ ttl' \in NoTtl .. Window /\ (count' = 0 <=> ttl' = 0)
        BY <1>1, <1>3 DEF RInv, RateTypeOK, NoTtl
    <2> QED
        BY <1>2, <2>1, <2>2 DEF RateTypeOK, Ages
<1>5. ASSUME NEW k \in 0 .. Window - 1
      PROVE  /\ SumFunctionOnSet(recent', 0 .. k) = SumFunctionOnSet(recent, 0 .. k - 1)
             /\ SumFunctionOnSet(recent', k + 1 .. Window - 1) <= SumFunctionOnSet(recent, k .. Window - 1)
    BY <1>1, <1>2, EverythingAges
<1>6. SumFunctionOnSet(recent', Ages) <= SumFunctionOnSet(recent, Ages)
    <2> DEFINE w == Window - 1
    <2>1. w \in 0 .. Window - 1 /\ w \in 0 .. Window /\ 0 .. w = Ages
        BY <1>1 DEF Ages
    <2>2. SumFunctionOnSet(recent', 0 .. w) = SumFunctionOnSet(recent, 0 .. w - 1)
        BY <1>5, <2>1
    <2>3. /\ SumFunctionOnSet(recent, 0 .. w - 1) \in Nat /\ SumFunctionOnSet(recent, w .. Window - 1) \in Nat
          /\ SumFunctionOnSet(recent, Ages) = SumFunctionOnSet(recent, 0 .. w - 1)
                                                + SumFunctionOnSet(recent, w .. Window - 1)
        <3> HIDE DEF w
        <3> QED
            BY <1>1, <2>1, TwoParts
    <2> HIDE DEF w
    <2>4. SumFunctionOnSet(recent', Ages) = SumFunctionOnSet(recent, 0 .. w - 1)
        BY <2>1, <2>2
    <2> QED
        BY <2>3, <2>4
<1>7. SumFunctionOnSet(recent, Ages) \in Nat /\ SumFunctionOnSet(recent', Ages) \in Nat
    <2>1. IsFiniteSet(Ages)
        BY <1>1, FS_Interval DEF Ages
    <2> QED
        BY <1>1, <1>2, <2>1, SumType
<1>8. ASSUME count' = 0 PROVE SumFunctionOnSet(recent', Ages) <= Limit
    <2>1. CASE count = 0
        BY <1>1, <1>6, <1>7, <2>1 DEF RInv
    <2>2. CASE count > 0
        <3>1. ttl = 1
            BY <1>3, <1>8, <2>2
        <3>2. PICK k \in 1 .. Window : Split(k)
            BY <2>2 DEF RInv
        <3>3. k = Window
            BY <1>1, <3>1, <3>2 DEF Split
        <3>4. SumFunctionOnSet(recent, Ages) <= Limit
            BY <3>2, <3>3 DEF Split, Ages
        <3> QED
            BY <1>1, <1>6, <1>7, <3>4
    <2> QED
        BY <1>1, <2>1, <2>2
<1>9. ASSUME count' > 0 PROVE \E k \in 1 .. Window : Split(k)'
    <2>1. count' = count /\ count > 0 /\ ttl # 1 /\ (ttl' > 0 => ttl' = ttl - 1)
        BY <1>1, <1>3, <1>9
    <2>2. PICK k \in 1 .. Window : Split(k)
        BY <2>1 DEF RInv
    <2>3. CASE k = Window
        <3>1. SumFunctionOnSet(recent, Ages) <= count /\ SumFunctionOnSet(recent, Ages) <= Limit
            BY <2>2, <2>3 DEF Split, Ages
        <3>2. SumFunctionOnSet(recent', 0 .. Window - 1) <= count'
            BY <1>1, <1>6, <1>7, <2>1, <3>1 DEF Ages
        <3>3. SumFunctionOnSet(recent', 0 .. Window - 1) <= Limit
            BY <1>1, <1>6, <1>7, <3>1 DEF Ages
        <3>4. SumFunctionOnSet(recent', Window .. Window - 1) <= Limit
            <4>1. Window .. Window - 1 = {}
                BY <1>1
            <4> QED
                BY <1>1, <4>1, SumEmpty
        <3>5. ttl' > 0 => Window + ttl' > Window
            BY <1>1, <1>3
        <3>6. Split(Window)' /\ Window \in 1 .. Window
            BY <1>1, <3>2, <3>3, <3>4, <3>5 DEF Split
        <3> QED
            BY <3>6
    <2>4. CASE k # Window
        <3>1. k \in 0 .. Window - 1 /\ k + 1 \in 1 .. Window /\ (k + 1) - 1 = k
            BY <1>1, <2>4
        <3>2. SumFunctionOnSet(recent', 0 .. (k + 1) - 1) = SumFunctionOnSet(recent, 0 .. k - 1)
            BY <1>5, <3>1
        <3>3. SumFunctionOnSet(recent', k + 1 .. Window - 1) <= Limit
            <4>1. SumFunctionOnSet(recent', k + 1 .. Window - 1) <= SumFunctionOnSet(recent, k .. Window - 1)
                BY <1>5, <3>1
            <4>2. SumFunctionOnSet(recent, k .. Window - 1) \in Nat
                <5>1. k \in 0 .. Window
                    BY <1>1
                <5> QED
                    BY <1>1, <5>1, TwoParts
            <4>3. SumFunctionOnSet(recent', k + 1 .. Window - 1) \in Nat
                <5>1. k + 1 \in 0 .. Window
                    BY <1>1, <3>1
                <5> QED
                    BY <1>2, <5>1, TwoParts
            <4>4. SumFunctionOnSet(recent, k .. Window - 1) <= Limit
                BY <2>2 DEF Split
            <4> QED
                BY <1>1, <4>1, <4>2, <4>3, <4>4
        <3>4. ttl' > 0 => (k + 1) + ttl' > Window
            BY <1>1, <1>3, <2>1, <2>2 DEF Split
        <3>5. Split(k + 1)'
            BY <2>1, <2>2, <3>2, <3>3, <3>4 DEF Split
        <3> QED
            BY <3>1, <3>5
    <2> QED
        BY <2>3, <2>4
<1> QED
    BY <1>2, <1>4, <1>8, <1>9 DEF RInv

-----------------------------------------------------------------------------

\* A step of the gate is a step of the browser, of the limiter, or of both.
LEMMA GateKeeps ==
    ASSUME CInv, RInv, [Next]_vars
    PROVE  CInv' /\ RInv'
<1>1. UNCHANGED browser => CInv'
    BY DEF browser, CInv, CsrfTypeOK, Alone, Fetching
<1>2. UNCHANGED limiter => RInv'
    BY DEF limiter, RInv, RateTypeOK, Split
<1>3. CASE Browse
    <2>1. RInv'
        BY <1>2, <1>3 DEF Browse
    <2>2. CInv'
        BY <1>3, ClickKeeps, AnswerKeeps, KeepKeeps, SentKeeps, ReloadKeeps DEF Browse
    <2> QED
        BY <2>1, <2>2
<1>4. ASSUME NEW c \in Clicks, Admit(c) PROVE CInv' /\ RInv'
    <2>1. CInv'
        BY <1>4, SentKeeps DEF Admit, Pass
    <2>2. call' \in [Calls -> {"idle", "incr", "expire"}] /\ UNCHANGED <<count, ttl, crashes, recent>>
        BY <1>4 DEF Admit, Enforce, RInv, RateTypeOK
    <2>3. RInv'
        BY <2>2 DEF RInv, RateTypeOK, Split
    <2> QED
        BY <2>1, <2>3
<1>5. ASSUME NEW c \in Clicks, Serve(c) \/ (CrashCall(c) /\ UNCHANGED browser) PROVE CInv' /\ RInv'
    <2>1. c \in Calls
        BY ClicksAssumption
    <2>2. RInv'
        BY <1>5, <2>1, IncrementKeeps, ExpireKeeps DEF Serve, LimiterStep
    <2> QED
        BY <1>1, <1>5, <2>2 DEF Serve
<1>6. CASE Second
    BY <1>6, BrowserSecond, LimiterSecond DEF Second
<1> QED
    BY <1>1, <1>2, <1>3, <1>4, <1>5, <1>6 DEF Next, vars

\* Both invariants hold in every reachable state.
LEMMA GateHolds == Spec => [](CInv /\ RInv)
<1>1. Init => CInv /\ RInv
    BY BrowserStarts, LimiterStarts DEF Init
<1>2. CInv /\ RInv /\ [Next]_vars => (CInv /\ RInv)'
    BY GateKeeps
<1> QED
    BY <1>1, <1>2, PTL DEF Spec

\* The tab's tokens and the counter have their types; there is a counter exactly as long as it
\* has a time to live, or none yet.
THEOREM TypesHold == Spec => []TypeOK
<1>1. CInv /\ RInv => TypeOK
    BY DEF CInv, RInv, TypeOK
<1> QED
    BY <1>1, GateHolds, PTL

\* In any Window seconds at most twice the limit gets through, for every limit and window,
\* however late, often, or out of its own life the EXPIRE is sent, and whoever dies before it.
THEOREM LimitHolds == Spec => []TwiceTheLimitAtMost
<1>1. RInv => TwiceTheLimitAtMost
    <2> SUFFICES ASSUME RInv PROVE SumFunction(recent) <= 2 * Limit
        BY DEF TwiceTheLimitAtMost
    <2>1. recent \in [Ages -> Nat] /\ Limit \in Nat /\ Window \in Nat \ {0} /\ count \in Nat
        BY LimitAssumption DEF RInv, RateTypeOK, Ages
    <2>2. SumFunction(recent) = SumFunctionOnSet(recent, Ages)
        BY <2>1 DEF SumFunction
    <2>3. SumFunctionOnSet(recent, Ages) \in Nat
        <3>1. IsFiniteSet(Ages)
            BY <2>1, FS_Interval DEF Ages
        <3> QED
            BY <2>1, <3>1, SumType
    <2>4. CASE count = 0
        <3>1. SumFunctionOnSet(recent, Ages) <= Limit
            BY <2>4 DEF RInv
        <3> QED
            BY <2>1, <2>2, <2>3, <3>1
    <2>5. CASE count > 0
        <3>1. PICK k \in 1 .. Window : Split(k)
            BY <2>5 DEF RInv
        <3>2. /\ SumFunctionOnSet(recent, 0 .. k - 1) \in Nat /\ SumFunctionOnSet(recent, k .. Window - 1) \in Nat
              /\ SumFunctionOnSet(recent, Ages)
                   = SumFunctionOnSet(recent, 0 .. k - 1) + SumFunctionOnSet(recent, k .. Window - 1)
            <4>1. k \in 0 .. Window
                BY <2>1
            <4> QED
                BY <2>1, <4>1, TwoParts
        <3>3. /\ SumFunctionOnSet(recent, 0 .. k - 1) <= Limit
              /\ SumFunctionOnSet(recent, k .. Window - 1) <= Limit
            BY <3>1 DEF Split
        <3> QED
            BY <2>1, <2>2, <3>2, <3>3
    <2> QED
        BY <2>1, <2>4, <2>5
<1> QED
    BY <1>1, GateHolds, PTL

\* A browser in which no two fetches of a token met is refused only when its token has expired,
\* whatever is reloaded and however many tabs there are.
THEOREM AloneIsAdmitted == Spec => AloneIsNotRefused
<1>1. CInv /\ [Next]_vars => [\A c \in Clicks : at[c] = "send" /\ at'[c] = "forbidden" => life = 0 \/ crowded]_browser
    <2> SUFFICES ASSUME CInv, Next, NEW c \in Clicks, at[c] = "send", at'[c] = "forbidden",
                        life # 0, ~crowded
                 PROVE  FALSE
        BY DEF vars, browser
    <2>1. carries[c] = "cookie" /\ life > 0
        BY TabAssumption DEF CInv, Alone, CsrfTypeOK
    <2>2. ~Forbid(c)
        BY <2>1 DEF Forbid, Valid
    <2>3. ASSUME NEW d \in Clicks, d # c \/ ~Forbid(d),
                 Click(d) \/ Answer(d) \/ Keep(d) \/ Forbid(d) \/ Pass(d)
          PROVE  at'[c] # "forbidden"
        BY <2>3 DEF Click, Answer, Keep, Forbid, Pass, Sent, CInv, CsrfTypeOK
    <2>4. CASE Browse
        <3>1. CASE \E b \in Tabs : Reload(b)
            BY <3>1 DEF Reload, CInv, CsrfTypeOK
        <3> QED
            BY <2>2, <2>3, <2>4, <3>1 DEF Browse
    <2>5. CASE \E d \in Clicks : Admit(d)
        BY <2>2, <2>3, <2>5 DEF Admit
    <2>6. CASE Second \/ UNCHANGED browser
        BY <2>6 DEF Second, CsrfSecond, browser
    <2> QED
        BY <2>4, <2>5, <2>6 DEF Next, Serve
<1> QED
    BY <1>1, GateHolds, PTL DEF Spec, AloneIsNotRefused
=============================================================================
