----------------------------- MODULE ApiProofs -----------------------------
(* Safety proofs about RateLimit and Api, for any number of requests and     *)
(* addresses, any limit, window and delay.  First the limiter by itself;     *)
(* then the process, which takes its steps with the limiter and the hub as   *)
(* their modules describe them, so that what is proved of each of them holds *)
(* of the process.                                                           *)
EXTENDS Api, TLAPS

HubFacts == INSTANCE HubProofs WITH Conns <- Requests, Probes <- Requests

-----------------------------------------------------------------------------
(* The limiter.                                                              *)
USE RateLimitAssumption DEF RateLimitAssumption

LEMMA InitType == LimiterInit => LimiterTypeOK
  BY DEF LimiterInit, LimiterTypeOK, Before, PassageState

(* The address a request is counted at.                                    *)
LEMMA PassageType ==
  ASSUME LimiterTypeOK, NEW r \in Requests
  PROVE  /\ passage[r] \in PassageState
         /\ passage[r].ip \in IPs
         /\ grants[passage[r].ip] \in Seq(Nat)
         /\ visitors[passage[r].ip] \in Visitor \cup {NoVisitor}
  BY DEF LimiterTypeOK, PassageState

(* What the two ends of CountInWindow leave behind.                        *)
LEMMA CountSteps ==
  ASSUME LimiterTypeOK, NEW r \in Requests, CountInWindow(r)
  PROVE  LET ip == passage[r].ip
             v  == Count(ip, passage[r].at)
         IN  /\ visitors' = [visitors EXCEPT ![ip] = v]
             /\ v \in Visitor
             /\ now' = now /\ opener' = opener
             /\ \/ /\ v.count <= Limit
                   /\ passage' = Moved(r, "through")
                   /\ grants' = [grants EXCEPT ![ip] = Append(grants[ip], now)]
                \/ /\ v.count > Limit
                   /\ passage' = Moved(r, "refused")
                   /\ grants' = grants
<1> DEFINE ip == passage[r].ip
           v  == Count(ip, passage[r].at)
<1>1. visitors[ip] \in Visitor
  BY PassageType DEF CountInWindow, OverBy
<1>2. v \in Visitor
  BY <1>1 DEF Count, Visitor
<1> HIDE DEF v
<1>3. v.count \in Nat
  BY <1>2 DEF Visitor
<1>4. /\ visitors' = [visitors EXCEPT ![ip] = v]
      /\ now' = now /\ opener' = opener
      /\ \/ Admits(v.count) /\ passage' = Moved(r, "through") /\ Granted(ip)
         \/ ~Admits(v.count) /\ passage' = Moved(r, "refused") /\ grants' = grants
  BY Zenon DEF CountInWindow, v
<1>5. Admits(v.count) <=> v.count <= Limit
  BY DEF Admits
<1>6. ~(v.count <= Limit) => v.count > Limit
  BY <1>3
<1> QED BY <1>2, <1>4, <1>5, <1>6 DEF Granted, v

LEMMA MovedType ==
  ASSUME LimiterTypeOK, NEW r \in Requests, NEW pc \in {"through", "refused"},
         passage' = Moved(r, pc), now' = now
  PROVE  /\ passage' \in [Requests -> PassageState]
         /\ \A q \in Requests :
              passage'[q].pc = "waits" => passage'[q].at <= now' /\ now' <= passage'[q].at + Delay
  BY DEF LimiterTypeOK, Moved, PassageState

LEMMA StepType == LimiterTypeOK /\ [LimiterNext]_limiterVars => LimiterTypeOK'
<1> SUFFICES ASSUME LimiterTypeOK, [LimiterNext]_limiterVars PROVE LimiterTypeOK'
  OBVIOUS
<1>1. ASSUME NEW r \in Requests, ReadClock(r) PROVE LimiterTypeOK'
  BY <1>1 DEF ReadClock, LimiterTypeOK, PassageState
<1>2. ASSUME NEW r \in Requests, OpenWindow(r) PROVE LimiterTypeOK'
  <2> DEFINE ip == passage[r].ip
  <2>1. ip \in IPs /\ grants[ip] \in Seq(Nat) /\ passage[r] \in PassageState
    BY PassageType
  <2>2. grants' \in [IPs -> Seq(Nat)] /\ opener' \in [IPs -> Nat]
    BY <1>2, <2>1 DEF OpenWindow, Granted, LimiterTypeOK
  <2>3. \A a \in IPs : opener'[a] <= Len(grants'[a])
    BY <1>2, <2>1 DEF OpenWindow, Granted, LimiterTypeOK
  <2>4. visitors' \in [IPs -> Visitor \cup {NoVisitor}]
    BY <1>2, <2>1 DEF OpenWindow, LimiterTypeOK, Visitor, PassageState
  <2>5. passage' = Moved(r, "through") /\ now' = now
    BY <1>2 DEF OpenWindow
  <2> QED BY <2>2, <2>3, <2>4, <2>5, MovedType DEF LimiterTypeOK
<1>3. ASSUME NEW r \in Requests, CountInWindow(r) PROVE LimiterTypeOK'
  <2> DEFINE ip == passage[r].ip
             v  == Count(ip, passage[r].at)
  <2>1. ip \in IPs /\ grants[ip] \in Seq(Nat)
    BY PassageType
  <2>2. v \in Visitor /\ visitors' = [visitors EXCEPT ![ip] = v] /\ now' = now /\ opener' = opener
    BY <1>3, CountSteps
  <2>3. visitors' \in [IPs -> Visitor \cup {NoVisitor}]
    BY <2>1, <2>2 DEF LimiterTypeOK
  <2>4. grants' = [grants EXCEPT ![ip] = Append(grants[ip], now)] \/ grants' = grants
    BY <1>3, CountSteps
  <2>5. /\ grants' \in [IPs -> Seq(Nat)]
        /\ \A a \in IPs : opener'[a] <= Len(grants'[a])
    <3> HIDE DEF v
    <3>1. opener' = opener
      BY <2>2
    <3>2. CASE grants' = grants
      BY <3>1, <3>2 DEF LimiterTypeOK
    <3>3. CASE grants' = [grants EXCEPT ![ip] = Append(grants[ip], now)]
      BY <2>1, <3>1, <3>3 DEF LimiterTypeOK
    <3> QED BY <2>4, <3>2, <3>3
  <2>6. passage' = Moved(r, "through") \/ passage' = Moved(r, "refused")
    BY <1>3, CountSteps
  <2>7. /\ passage' \in [Requests -> PassageState]
        /\ \A q \in Requests :
             passage'[q].pc = "waits" => passage'[q].at <= now' /\ now' <= passage'[q].at + Delay
    BY <2>2, <2>6, MovedType
  <2>8. now' \in Nat /\ opener' \in [IPs -> Nat]
    BY <2>2 DEF LimiterTypeOK
  <2> QED BY <2>3, <2>5, <2>7, <2>8 DEF LimiterTypeOK
<1>4. CASE Purge
  BY <1>4 DEF Purge, LimiterTypeOK
<1>5. CASE Tick
  BY <1>5 DEF Tick, LimiterTypeOK, PassageState
<1>6. CASE UNCHANGED limiterVars
  BY <1>6 DEF limiterVars, LimiterTypeOK
<1> QED BY <1>1, <1>2, <1>3, <1>4, <1>5, <1>6 DEF LimiterNext

(* TypeCorrect: the types, and that nobody waits for the mutex too long.   *)
THEOREM TypeCorrect == LimiterSpec => []LimiterTypeOK
  BY InitType, StepType, PTL DEF LimiterSpec

-----------------------------------------------------------------------------
(* The invariant about windows, with AtMostTwice, which the next windows   *)
(* do not disturb.                                                         *)
IInv == LimiterTypeOK /\ WindowInv /\ AtMostTwice

LEMMA InitWindows == LimiterInit => WindowInv /\ AtMostTwice
  BY DEF LimiterInit, WindowInv, Ordered, Dated, Forgotten, Spread, AtMostTwice, NoVisitor

(* A window opens only Window - Delay after the last one: the request read *)
(* the clock after the last window was over, or the purge found it over.   *)
LEMMA Apart ==
  ASSUME IInv, NEW r \in Requests, OpenWindow(r), opener[passage[r].ip] # 0
  PROVE  now - grants[passage[r].ip][opener[passage[r].ip]] > Window - Delay
<1> DEFINE ip == passage[r].ip
           o  == grants[ip][opener[ip]]
<1>1. /\ ip \in IPs /\ grants[ip] \in Seq(Nat) /\ now \in Nat
      /\ passage[r].at \in Nat /\ passage[r].at <= now
      /\ opener[ip] \in Nat /\ opener[ip] <= Len(grants[ip])
  BY PassageType DEF IInv, LimiterTypeOK, OpenWindow, PassageState
<1>2. o \in Nat
  BY <1>1
<1>3. CASE visitors[ip] = NoVisitor
  BY <1>1, <1>3 DEF IInv, WindowInv, Forgotten
<1>4. CASE visitors[ip] # NoVisitor
  <2> DEFINE w == visitors[ip].windowAt
             a == passage[r].at
  <2>1. o <= w + Delay
    BY <1>1, <1>4 DEF IInv, WindowInv, Dated
  <2>2. a - w > Window
    BY <1>4 DEF OpenWindow, OverBy
  <2>3. w \in Nat
    <3>1. LimiterTypeOK
      BY DEF IInv
    <3>2. visitors[ip] \in Visitor
      BY <1>4, <3>1, PassageType
    <3> QED BY <3>2 DEF Visitor
  <2>4. a \in Nat /\ a <= now
    BY <1>1
  <2>5. now \in Nat
    BY <1>1
  <2> HIDE DEF o, w, a
  <2>6. now - o > Window - Delay
    BY <1>2, <2>1, <2>2, <2>3, <2>4, <2>5
  <2> QED BY <2>6 DEF o
<1> QED BY <1>3, <1>4

LEMMA AppendFacts ==
  ASSUME NEW times \in Seq(Nat), NEW t \in Nat
  PROVE  /\ Append(times, t) \in Seq(Nat)
         /\ Len(Append(times, t)) = Len(times) + 1
         /\ \A i \in 1..Len(times) : Append(times, t)[i] = times[i]
         /\ Append(times, t)[Len(times) + 1] = t
  OBVIOUS

(* The conjuncts of the invariant for one address.                         *)
AddressInv(ip) == Ordered(ip) /\ Dated(ip) /\ Forgotten(ip) /\ Spread(ip)

TwiceAt(ip) ==
    \A i \in DOMAIN grants[ip] :
        i + 2 * Limit \in DOMAIN grants[ip] =>
            grants[ip][i + 2 * Limit] - grants[ip][i] > Window - Delay

(* An address nothing happens to keeps its invariant.                      *)
LEMMA Untouched ==
  ASSUME NEW ip \in IPs, AddressInv(ip), TwiceAt(ip), now' = now,
         visitors'[ip] = visitors[ip], grants'[ip] = grants[ip], opener'[ip] = opener[ip]
  PROVE  AddressInv(ip)' /\ TwiceAt(ip)'
  BY DEF AddressInv, TwiceAt, Ordered, Dated, Forgotten, Spread, InLast

LEMMA OpenKeeps ==
  ASSUME IInv, NEW r \in Requests, OpenWindow(r), NEW ip \in IPs, passage[r].ip = ip
  PROVE  AddressInv(ip)' /\ TwiceAt(ip)'
<1>0. PICK g, n, o : g = grants[ip] /\ n = Len(g) /\ o = opener[ip]
  OBVIOUS
<1>1. /\ g \in Seq(Nat) /\ now \in Nat /\ now' = now
      /\ passage[r].at \in Nat /\ passage[r].at <= now /\ now <= passage[r].at + Delay
      /\ o \in Nat /\ o <= n
  BY <1>0, PassageType DEF IInv, LimiterTypeOK, OpenWindow, PassageState
<1>2. /\ grants'[ip] = Append(g, now)
      /\ opener'[ip] = n + 1
      /\ visitors'[ip] = [count |-> 1, windowAt |-> passage[r].at]
  BY <1>0, <1>1 DEF OpenWindow, Granted, IInv, LimiterTypeOK
<1>14. /\ DOMAIN g = 1..n /\ n \in Nat
       /\ \A i \in 1..n : g[i] \in Nat
  BY <1>0, <1>1
<1>3. /\ Len(grants'[ip]) = n + 1
      /\ \A i \in 1..n : grants'[ip][i] = g[i] /\ g[i] \in Nat
      /\ grants'[ip][n + 1] = now
      /\ n \in Nat /\ grants'[ip] \in Seq(Nat)
  BY <1>0, <1>1, <1>2, <1>14, AppendFacts
<1>4. AddressInv(ip) /\ TwiceAt(ip)
  BY <1>0, <1>1 DEF IInv, WindowInv, AtMostTwice, AddressInv, TwiceAt
<1>5. o # 0 => now - g[o] > Window - Delay
  BY <1>0, Apart
<1>15. DOMAIN grants'[ip] = 1..n + 1
  BY <1>0, <1>3
<1>6. \A i \in 1..n : g[i] <= now
  BY <1>0, <1>1, <1>4, <1>14 DEF AddressInv, Ordered
<1>7. \A i, j \in 1..n : i <= j => g[i] <= g[j]
  BY <1>0, <1>1, <1>4, <1>14 DEF AddressInv, Ordered
<1>8. Ordered(ip)'
  <2>1. \A i \in 1..n + 1 : grants'[ip][i] <= now
    <3> TAKE i \in 1..n + 1
    <3>1. i \in 1..n \/ i = n + 1
      BY <1>0, <1>14
    <3>2. CASE i \in 1..n
      BY <1>3, <1>6, <3>2
    <3>3. CASE i = n + 1
      BY <1>1, <1>3, <3>3
    <3> QED BY <3>1, <3>2, <3>3
  <2>2. ASSUME NEW i \in 1..n + 1, NEW j \in 1..n + 1, i <= j
        PROVE  grants'[ip][i] <= grants'[ip][j]
    <3>1. j \in 1..n \/ j = n + 1
      BY <1>0, <1>14
    <3>2. CASE j = n + 1
      BY <1>0, <1>3, <2>1, <3>2
    <3>3. CASE j \in 1..n
      <4>1. i \in 1..n
        BY <1>0, <1>14, <2>2, <3>3
      <4> QED BY <1>0, <1>3, <1>7, <2>2, <3>3, <4>1
    <3> QED BY <3>1, <3>2, <3>3
  <2> QED BY <1>0, <1>1, <1>15, <2>1, <2>2 DEF Ordered
<1>9. Dated(ip)'
  <2>1. grants'[ip][opener'[ip]] = now /\ InLast(ip)' = 1
    BY <1>0, <1>2, <1>3, <1>14 DEF InLast
  <2>2. opener'[ip] > 0
    BY <1>0, <1>2, <1>14
  <2> QED BY <1>0, <1>1, <1>2, <2>1, <2>2 DEF Dated
<1>10. Forgotten(ip)'
  BY <1>0, <1>2 DEF Forgotten, NoVisitor
(* Limit requests back lies in the last window or at its opening.          *)
<1>11. \A i \in 1..n + 1 - Limit : now - g[i] > Window - Delay
  <2> SUFFICES ASSUME NEW i \in 1..n + 1 - Limit PROVE now - g[i] > Window - Delay
    OBVIOUS
  <2>1. i \in 1..n /\ n # 0
    BY <1>0, <1>3
  <2>2. o > 0
    BY <1>0, <1>1, <1>3, <1>4, <2>1 DEF AddressInv, Spread
  <2>3. n - o + 1 <= Limit
    BY <1>0, <1>4, <2>2 DEF AddressInv, Spread, InLast
  <2>8. o \in Nat /\ n \in Nat /\ o <= n /\ Limit \in Nat
    BY <1>1, <1>14
  <2>4. i <= o /\ o \in 1..n
    BY <2>2, <2>3, <2>8
  <2>5. g[i] <= g[o] /\ g[i] \in Nat /\ g[o] \in Nat
    BY <1>0, <1>3, <1>7, <2>1, <2>4
  <2>6. now - g[o] > Window - Delay
    BY <1>5, <2>2, <2>4
  <2>7. now \in Nat
    BY <1>1
  <2> QED BY <2>5, <2>6, <2>7
<1>12. Spread(ip)'
  <2>1. grants'[ip][opener'[ip]] = now /\ InLast(ip)' = 1 /\ opener'[ip] > 0
    BY <1>0, <1>2, <1>3, <1>14 DEF InLast
  <2>2. \A i \in 1..opener'[ip] - Limit : grants'[ip][i] = g[i] /\ now - g[i] > Window - Delay
    <3> SUFFICES ASSUME NEW i \in 1..n + 1 - Limit
                 PROVE  grants'[ip][i] = g[i] /\ now - g[i] > Window - Delay
      BY <1>0, <1>2
    <3>1. i \in 1..n
      BY <1>0, <1>14
    <3> QED BY <1>0, <1>3, <1>11, <3>1
  <2> QED BY <2>1, <2>2 DEF Spread
<1>16. \A m \in 1..n + 1 : m \in 1..n \/ m = n + 1
  BY <1>14
<1>13. TwiceAt(ip)'
  <2> SUFFICES ASSUME NEW i \in 1..n + 1, i + 2 * Limit \in 1..n + 1
               PROVE  grants'[ip][i + 2 * Limit] - grants'[ip][i] > Window - Delay
    BY <1>0, <1>3, <1>15 DEF TwiceAt
  <2>1. i \in 1..n
    BY <1>0, <1>3
  <2>2. CASE i + 2 * Limit \in 1..n
    BY <1>0, <1>3, <1>4, <1>14, <2>1, <2>2 DEF TwiceAt
  <2>3. CASE i + 2 * Limit = n + 1
    <3>1. i \in 1..n + 1 - Limit
      BY <1>0, <1>3, <2>1, <2>3
    <3> QED BY <1>0, <1>3, <1>11, <2>1, <2>3, <3>1
  <2>4. i + 2 * Limit \in 1..n \/ i + 2 * Limit = n + 1
    BY <1>16
  <2> QED BY <2>2, <2>3, <2>4
<1> QED BY <1>0, <1>8, <1>9, <1>10, <1>12, <1>13 DEF AddressInv

LEMMA CountKeeps ==
  ASSUME IInv, NEW r \in Requests, CountInWindow(r), NEW ip \in IPs, passage[r].ip = ip
  PROVE  AddressInv(ip)' /\ TwiceAt(ip)'
<1>0. PICK g, n, o, c : /\ g = grants[ip] /\ n = Len(g) /\ o = opener[ip]
                        /\ c = Count(ip, passage[r].at)
  OBVIOUS
<1>1. /\ g \in Seq(Nat) /\ now \in Nat /\ o \in Nat /\ o <= n
      /\ visitors[ip] \in Visitor
  BY <1>0, PassageType DEF IInv, LimiterTypeOK, CountInWindow, OverBy
<1>2. /\ DOMAIN g = 1..n /\ n \in Nat
      /\ \A i \in 1..n : g[i] \in Nat
  BY <1>0, <1>1
<1>3. AddressInv(ip) /\ TwiceAt(ip)
  BY DEF IInv, WindowInv, AtMostTwice, AddressInv, TwiceAt
<1>4. visitors[ip] # NoVisitor
  BY DEF CountInWindow, OverBy
<1>5. PICK w, k : w = visitors[ip].windowAt /\ k = visitors[ip].count
  OBVIOUS
<1>6. w \in Nat /\ k \in 1..Limit + 1
  BY <1>1, <1>5 DEF Visitor
<1>7. c = [count |-> IF k > Limit THEN Limit + 1 ELSE k + 1, windowAt |-> w]
  BY <1>0, <1>5 DEF Count
<1>8. c.count \in 2..Limit + 1 /\ c.windowAt = w /\ c # NoVisitor
  BY <1>6, <1>7 DEF NoVisitor
<1>9. /\ visitors'[ip] = c /\ now' = now /\ opener'[ip] = o
      /\ \/ c.count <= Limit /\ grants' = [grants EXCEPT ![ip] = Append(grants[ip], now)]
         \/ c.count > Limit /\ grants' = grants
  BY <1>0, CountSteps DEF IInv, LimiterTypeOK
<1>10. /\ o > 0 /\ w <= g[o] /\ g[o] <= w + Delay
       /\ n - o + 1 = IF k > Limit THEN Limit ELSE k
  BY <1>0, <1>3, <1>4, <1>5 DEF AddressInv, Dated, InLast
<1>11. /\ \A i \in 1..n : g[i] <= now
       /\ \A i, j \in 1..n : i <= j => g[i] <= g[j]
  BY <1>0, <1>2, <1>3 DEF AddressInv, Ordered
<1>12. \A i \in 1..o - Limit : g[o] - g[i] > Window - Delay
  BY <1>0, <1>3 DEF AddressInv, Spread
<1>13. CASE c.count > Limit /\ grants' = grants
  <2>1. Ordered(ip)' /\ TwiceAt(ip)'
    BY <1>3, <1>9, <1>13 DEF AddressInv, Ordered, TwiceAt
  <2>2. n - o + 1 = Limit
    BY <1>6, <1>7, <1>10, <1>13
  <2>3. Dated(ip)'
    <3>1. InLast(ip)' = Limit
      BY <1>0, <1>9, <1>13, <2>2 DEF InLast
    <3>2. grants'[ip][opener'[ip]] = g[o] /\ opener'[ip] = o
      BY <1>0, <1>9, <1>13
    <3> QED BY <1>8, <1>9, <1>10, <1>13, <3>1, <3>2 DEF Dated
  <2>4. Spread(ip)'
    <3>1. opener'[ip] = opener[ip] /\ grants'[ip] = grants[ip]
      BY <1>0, <1>9, <1>13
    <3> QED BY <1>3, <3>1 DEF AddressInv, Spread, InLast
  <2>5. Forgotten(ip)'
    BY <1>8, <1>9 DEF Forgotten
  <2> QED BY <2>1, <2>3, <2>4, <2>5 DEF AddressInv
<1>14. CASE c.count <= Limit /\ grants' = [grants EXCEPT ![ip] = Append(grants[ip], now)]
  <2>1. grants'[ip] = Append(g, now)
    BY <1>0, <1>14 DEF IInv, LimiterTypeOK
  <2>2. PICK h : h = grants'[ip]
    OBVIOUS
  <2>3. /\ Len(h) = n + 1 /\ DOMAIN h = 1..n + 1
        /\ \A i \in 1..n : h[i] = g[i]
        /\ h[n + 1] = now
    BY <1>0, <1>1, <2>1, <2>2, AppendFacts
  <2>4. k < Limit /\ n - o + 1 = k /\ c.count = k + 1 /\ o \in 1..n
    BY <1>1, <1>2, <1>6, <1>7, <1>10, <1>14
  <2>5. \A i \in 1..n + 1 : i \in 1..n \/ i = n + 1
    BY <1>2
  <2>6. Ordered(ip)'
    <3>1. \A i \in 1..n + 1 : h[i] <= now
      BY <1>1, <1>11, <2>3, <2>5
    <3>2. ASSUME NEW i \in 1..n + 1, NEW j \in 1..n + 1, i <= j
          PROVE  h[i] <= h[j]
      <4>1. CASE j = n + 1
        BY <2>3, <3>1, <4>1
      <4>2. CASE j \in 1..n
        <5>1. i \in 1..n
          BY <1>2, <3>2, <4>2
        <5> QED BY <1>11, <2>3, <3>2, <4>2, <5>1
      <4> QED BY <2>5, <4>1, <4>2
    <3> QED BY <1>9, <2>2, <2>3, <3>1, <3>2 DEF Ordered
  <2>7. Dated(ip)'
    <3>1. h[o] = g[o]
      BY <2>3, <2>4
    <3>2. Len(h) - o + 1 = k + 1
      BY <1>1, <1>2, <1>6, <2>3, <2>4
    <3> QED BY <1>6, <1>8, <1>9, <1>10, <2>2, <2>4, <3>1, <3>2 DEF Dated, InLast
  <2>8. Forgotten(ip)'
    BY <1>8, <1>9 DEF Forgotten
  <2>9. Spread(ip)'
    <3>1. h[o] = g[o] /\ \A i \in 1..o - Limit : h[i] = g[i]
      BY <1>1, <1>2, <2>3, <2>4
    <3>2. Len(h) - o + 1 <= Limit
      BY <1>1, <1>2, <1>6, <2>3, <2>4
    <3> QED BY <1>9, <1>10, <1>12, <2>2, <3>1, <3>2 DEF Spread, InLast
  <2>10. TwiceAt(ip)'
    <3> SUFFICES ASSUME NEW i \in 1..n + 1, NEW j \in 1..n + 1, j = i + 2 * Limit
                 PROVE  h[j] - h[i] > Window - Delay
      BY <2>2, <2>3 DEF TwiceAt
    <3>1. i \in 1..n /\ h[i] = g[i] /\ g[i] \in Nat
      BY <1>2, <2>3
    <3>2. CASE j \in 1..n
      BY <1>0, <1>2, <1>3, <2>3, <3>1, <3>2 DEF TwiceAt
    <3>3. CASE j = n + 1
      <4>1. i \in 1..o - Limit
        BY <1>1, <1>2, <1>6, <2>4, <3>1, <3>3
      <4>2. g[o] - g[i] > Window - Delay /\ g[o] <= now /\ g[o] \in Nat
        BY <1>2, <1>11, <1>12, <2>4, <4>1
      <4>3. h[j] = now
        BY <2>3, <3>3
      <4>4. now - g[i] > Window - Delay
        BY <1>1, <3>1, <4>2
      <4> QED BY <3>1, <4>3, <4>4
    <3> QED BY <2>5, <3>2, <3>3
  <2> QED BY <2>6, <2>7, <2>8, <2>9, <2>10 DEF AddressInv
<1> QED BY <1>9, <1>13, <1>14

(* Every step keeps the invariant of every address.                        *)
LEMMA StepWindows == IInv /\ [LimiterNext]_limiterVars => (WindowInv /\ AtMostTwice)'
<1> SUFFICES ASSUME IInv, [LimiterNext]_limiterVars, NEW ip \in IPs
             PROVE  AddressInv(ip)' /\ TwiceAt(ip)'
  BY DEF WindowInv, AtMostTwice, AddressInv, TwiceAt
<1>1. AddressInv(ip) /\ TwiceAt(ip) /\ LimiterTypeOK
  BY DEF IInv, WindowInv, AtMostTwice, AddressInv, TwiceAt
<1>2. ASSUME NEW r \in Requests, ReadClock(r) PROVE AddressInv(ip)' /\ TwiceAt(ip)'
  BY <1>1, <1>2, Untouched DEF ReadClock
<1>3. ASSUME NEW r \in Requests, OpenWindow(r) PROVE AddressInv(ip)' /\ TwiceAt(ip)'
  <2>1. CASE passage[r].ip = ip
    BY <1>3, <2>1, OpenKeeps
  <2>2. CASE passage[r].ip # ip
    <3>1. /\ now' = now /\ visitors'[ip] = visitors[ip]
          /\ grants'[ip] = grants[ip] /\ opener'[ip] = opener[ip]
      BY <1>1, <1>3, <2>2 DEF OpenWindow, Granted, LimiterTypeOK
    <3> QED BY <1>1, <3>1, Untouched
  <2> QED BY <2>1, <2>2
<1>4. ASSUME NEW r \in Requests, CountInWindow(r) PROVE AddressInv(ip)' /\ TwiceAt(ip)'
  <2>1. CASE passage[r].ip = ip
    BY <1>4, <2>1, CountKeeps
  <2>2. CASE passage[r].ip # ip
    <3>1. /\ now' = now /\ opener' = opener
          /\ \/ grants' = grants
             \/ grants' = [grants EXCEPT ![passage[r].ip] = Append(grants[passage[r].ip], now)]
      BY <1>1, <1>4, CountSteps
    <3>2. visitors'[ip] = visitors[ip]
      BY <1>1, <1>4, <2>2 DEF CountInWindow, LimiterTypeOK
    <3>3. grants'[ip] = grants[ip]
      BY <1>1, <2>2, <3>1 DEF LimiterTypeOK
    <3> QED BY <1>1, <3>1, <3>2, <3>3, Untouched
  <2> QED BY <2>1, <2>2
<1>5. CASE Purge
  <2>1. now' = now /\ grants' = grants /\ opener' = opener
    BY <1>5 DEF Purge
  <2>2. CASE visitors'[ip] = visitors[ip]
    BY <1>1, <2>1, <2>2, Untouched
  <2>3. CASE visitors'[ip] # visitors[ip]
    <3>1. visitors[ip] # NoVisitor /\ visitors'[ip] = NoVisitor
          /\ now - visitors[ip].windowAt > Window
      BY <1>1, <1>5, <2>3 DEF Purge, Outlived, LimiterTypeOK
    <3>2. visitors[ip] \in Visitor /\ now \in Nat
      BY <1>1, <3>1 DEF LimiterTypeOK
    <3>3. PICK w, o : w = visitors[ip].windowAt /\ o = grants[ip][opener[ip]]
      OBVIOUS
    <3>4. w \in Nat /\ opener[ip] > 0 /\ o <= w + Delay
      BY <1>1, <3>1, <3>2, <3>3 DEF AddressInv, Dated, Visitor
    <3>5. o \in Nat
      BY <1>1, <3>3, <3>4 DEF LimiterTypeOK
    <3>6. now - o > Window - Delay
      BY <3>1, <3>2, <3>3, <3>4, <3>5
    <3>7. Forgotten(ip)'
      BY <2>1, <3>3, <3>6 DEF Forgotten
    <3>8. Dated(ip)'
      BY <3>1 DEF Dated
    <3>9. Ordered(ip)' /\ Spread(ip)' /\ TwiceAt(ip)'
      BY <1>1, <2>1 DEF AddressInv, Ordered, Spread, InLast, TwiceAt
    <3> QED BY <3>7, <3>8, <3>9 DEF AddressInv
  <2> QED BY <2>2, <2>3
<1>6. CASE Tick
  <2>1. /\ now \in Nat /\ now' = now + 1 /\ grants[ip] \in Seq(Nat)
        /\ visitors' = visitors /\ grants' = grants /\ opener' = opener
    BY <1>1, <1>6 DEF Tick, LimiterTypeOK
  <2>2. \A i \in DOMAIN grants[ip] : grants[ip][i] \in Nat
    BY <2>1
  <2>3. Ordered(ip)'
    BY <1>1, <2>1, <2>2 DEF AddressInv, Ordered
  <2>4. Forgotten(ip)'
    <3>1. CASE opener[ip] = 0
      BY <2>1, <3>1 DEF Forgotten
    <3>2. CASE opener[ip] # 0
      <4>1. opener[ip] \in DOMAIN grants[ip]
        BY <1>1, <2>1, <3>2 DEF LimiterTypeOK
      <4>2. PICK o : o = grants[ip][opener[ip]]
        OBVIOUS
      <4>3. o \in Nat
        BY <2>2, <4>1, <4>2
      <4>4. now - o > Window - Delay => now' - o > Window - Delay
        BY <2>1, <4>3
      <4>5. visitors[ip] = NoVisitor => now - o > Window - Delay
        BY <1>1, <3>2, <4>2 DEF AddressInv, Forgotten
      <4>6. visitors' = visitors /\ grants'[ip][opener'[ip]] = o
        BY <2>1, <4>2
      <4>7. visitors'[ip] = NoVisitor => now' - grants'[ip][opener'[ip]] > Window - Delay
        BY <4>4, <4>5, <4>6
      <4> QED BY <4>7 DEF Forgotten
    <3> QED BY <3>1, <3>2
  <2>5. Dated(ip)' /\ Spread(ip)' /\ TwiceAt(ip)'
    BY <1>1, <2>1 DEF AddressInv, Dated, Spread, InLast, TwiceAt
  <2> QED BY <2>3, <2>4, <2>5 DEF AddressInv
<1>7. CASE UNCHANGED limiterVars
  BY <1>1, <1>7, Untouched DEF limiterVars
<1> QED BY <1>2, <1>3, <1>4, <1>5, <1>6, <1>7 DEF LimiterNext

LEMMA Inductive == LimiterSpec => []IInv
<1>1. LimiterInit => IInv
  BY InitType, InitWindows DEF IInv
<1>2. IInv /\ [LimiterNext]_limiterVars => IInv'
  BY StepType, StepWindows DEF IInv
<1> QED BY <1>1, <1>2, PTL DEF LimiterSpec

-----------------------------------------------------------------------------
(* TwiceTheLimit: in no time of Window - Delay does an address get more    *)
(* than twice the limit through, for any traffic and any number of         *)
(* addresses (ratelimit.go:47).                                            *)
THEOREM TwiceTheLimit == LimiterSpec => []AtMostTwice
<1>1. IInv => AtMostTwice
  BY DEF IInv
<1> QED BY <1>1, Inductive, PTL

(* WindowsApart: two windows of an address open more than Window - Delay   *)
(* apart, whatever the purge does between the reading of the clock and the *)
(* decision (ratelimit.go:44).                                             *)
THEOREM WindowsApart == LimiterSpec => OpeningsApart
<1>1. ASSUME IInv, [LimiterNext]_limiterVars, NEW ip \in IPs, opener'[ip] # opener[ip], opener[ip] # 0
      PROVE  grants'[ip][opener'[ip]] - grants[ip][opener[ip]] > Window - Delay
  <2>1. PICK r \in Requests : OpenWindow(r)
    BY <1>1, CountSteps DEF LimiterNext, ReadClock, Purge, Tick, limiterVars, IInv
  <2>2. passage[r].ip = ip /\ LimiterTypeOK
    BY <1>1, <2>1 DEF OpenWindow, IInv, LimiterTypeOK
  <2>3. grants[ip] \in Seq(Nat) /\ now \in Nat
    BY <2>2 DEF LimiterTypeOK
  <2>4. grants'[ip] = Append(grants[ip], now) /\ opener'[ip] = Len(grants[ip]) + 1
    BY <2>1, <2>2 DEF OpenWindow, Granted, LimiterTypeOK
  <2>5. grants'[ip][opener'[ip]] = now
    BY <2>3, <2>4, AppendFacts
  <2> QED BY <1>1, <2>1, <2>2, <2>5, Apart
<1>2. IInv /\ [LimiterNext]_limiterVars =>
        [\A ip \in IPs :
           opener'[ip] # opener[ip] /\ opener[ip] # 0 =>
              grants'[ip][opener'[ip]] - grants[ip][opener[ip]] > Window - Delay]_limiterVars
  BY <1>1
<1> QED BY <1>2, Inductive, PTL DEF LimiterSpec, OpeningsApart

(* RefusalsJustified: an address is only refused when it got as many       *)
(* requests as the limit allows through within the last Window + Delay     *)
(* (ratelimit.go:55).                                                      *)
THEOREM RefusalsJustified == LimiterSpec => RefusalsEarned
<1> DEFINE Earned(r) ==
             passage[r].pc = "waits" /\ passage'[r].pc = "refused" =>
                LET times == grants[passage[r].ip]
                    first == Len(times) - Limit + 1
                IN  first > 0 /\ now - times[first] <= Window + Delay
<1>1. ASSUME IInv, [LimiterNext]_limiterVars, NEW r \in Requests,
             passage[r].pc = "waits", passage'[r].pc = "refused"
      PROVE  Earned(r)
  <2>1. LimiterTypeOK
    BY <1>1 DEF IInv
  <2>2. ~OpenWindow(r) /\ ~ReadClock(r)
    BY <1>1, <2>1 DEF OpenWindow, ReadClock, Moved, LimiterTypeOK
  <2>3. CountInWindow(r)
    BY <1>1, <2>1, <2>2, CountSteps
       DEF LimiterNext, ReadClock, OpenWindow, CountInWindow, Moved, Purge, Tick, limiterVars, LimiterTypeOK
  <2>4. PICK ip, w, k, o, n :
          /\ ip \in IPs
          /\ ip = passage[r].ip /\ w = visitors[ip].windowAt /\ k = visitors[ip].count
          /\ o = opener[ip] /\ n = Len(grants[ip])
    BY <2>1, PassageType
  <2>5. visitors[ip] # NoVisitor /\ visitors[ip] \in Visitor
        /\ passage[r].at - w <= Window
    <3>1. ~OverBy(ip, passage[r].at)
      BY <2>3, <2>4 DEF CountInWindow
    <3>2. visitors[ip] # NoVisitor /\ visitors[ip] \in Visitor
      BY <2>1, <2>4, <3>1, PassageType DEF OverBy
    <3>3. ~(passage[r].at - w > Window)
      BY <2>4, <3>1 DEF OverBy
    <3>4. passage[r].at \in Nat /\ w \in Nat
      BY <2>1, <2>4, <3>2, PassageType DEF PassageState, Visitor
    <3> QED BY <3>2, <3>3, <3>4
  <2>6. Count(ip, passage[r].at).count > Limit
    <3>1. passage'[r].pc # "through"
      BY <1>1
    <3> QED BY <2>1, <2>3, <2>4, <3>1, CountSteps DEF Moved, LimiterTypeOK
  <2>7. k \in Nat /\ w \in Nat /\ k >= Limit
    BY <2>4, <2>5, <2>6 DEF Count, Visitor
  <2>8. /\ o > 0 /\ w <= grants[ip][o]
        /\ n - o + 1 = IF k > Limit THEN Limit ELSE k
    BY <1>1, <2>4, <2>5 DEF IInv, WindowInv, Dated, InLast
  <2>9. n - o + 1 = Limit
    BY <2>7, <2>8
  <2>10. /\ o \in Nat /\ n \in Nat /\ now \in Nat /\ grants[ip] \in Seq(Nat)
         /\ o <= n
    BY <2>1, <2>4 DEF LimiterTypeOK
  <2>11. n - Limit + 1 = o
    BY <2>9, <2>10
  <2>12. /\ passage[r].at \in Nat /\ now <= passage[r].at + Delay
    BY <1>1, <2>1, PassageType DEF LimiterTypeOK, PassageState
  <2>13. PICK t : t = grants[ip][o]
    OBVIOUS
  <2>14. t \in Nat /\ w <= t
    <3>1. o \in 1..n
      BY <2>8, <2>10
    <3>2. \A i \in 1..n : grants[ip][i] \in Nat
      BY <2>4, <2>10
    <3> QED BY <2>8, <2>13, <3>1, <3>2
  <2>15. now - t <= Window + Delay
    <3>1. PICK a \in Nat : a = passage[r].at
      BY <2>12
    <3>2. a - w <= Window /\ now <= a + Delay /\ now \in Nat /\ w \in Nat
      BY <2>5, <2>7, <2>10, <2>12, <3>1
    <3> QED BY <2>14, <3>1, <3>2
  <2> QED BY <2>4, <2>8, <2>11, <2>13, <2>15
<1>2. IInv /\ [LimiterNext]_limiterVars => [\A r \in Requests : Earned(r)]_limiterVars
  BY <1>1
<1> QED BY <1>2, Inductive, PTL DEF LimiterSpec, RefusalsEarned

-----------------------------------------------------------------------------
(* Every step of the process is a step of the limiter or leaves it alone.   *)
LEMMA LimiterStep == [Next]_vars => [LimiterNext]_limiterVars
<1> SUFFICES ASSUME [Next]_vars PROVE [LimiterNext]_limiterVars
  OBVIOUS
<1>1. ASSUME NEW r \in Requests, RequestStep(r) PROVE [LimiterNext]_limiterVars
  BY <1>1 DEF RequestStep, Preflight, Arrive, Decide, Authorize, Reply, UpgradeFails,
              Upgrade, Connected, Disconnected, Ping, HealthStats, LimiterNext
<1>2. CASE Signal \/ Exit \/ ListenFails
  BY <1>2 DEF Signal, Exit, ListenFails
<1>3. CASE Background
  BY <1>3 DEF Background, LimiterNext
<1>4. CASE UNCHANGED vars
  BY <1>4 DEF vars
<1> QED BY <1>1, <1>2, <1>3, <1>4 DEF Next

(* LimiterKept: the process implements the limiter's specification.         *)
THEOREM LimiterKept == Spec => LimiterSpec
<1>1. Init => LimiterInit
  BY DEF Init
<1> QED BY <1>1, LimiterStep, PTL DEF Spec, LimiterSpec

-----------------------------------------------------------------------------
(* The same of the hub.                                                     *)
LEMMA HubInit == Init => HubFacts!Init
  BY DEF Init, TheHub!Init, HubFacts!Init, TheHub!Unread, HubFacts!Unread

LEMMA HubStep == [Next]_vars => [HubFacts!Next]_hubVars
<1> SUFFICES ASSUME [Next]_vars PROVE [HubFacts!Next]_hubVars
  OBVIOUS
<1>1. ASSUME NEW r \in Requests, RequestStep(r) PROVE [HubFacts!Next]_hubVars
  <2>1. CASE Preflight(r) \/ Arrive(r) \/ Decide(r) \/ Authorize(r) \/ Reply(r)
             \/ UpgradeFails(r) \/ Ping(r)
    BY <2>1 DEF Preflight, Arrive, Decide, Authorize, Reply, UpgradeFails, Ping
  <2>2. CASE Upgrade(r)
    BY <2>2 DEF Upgrade, HubFacts!Next, TheHub!Enter, HubFacts!Enter,
                TheHub!Goes, HubFacts!Goes
  <2>3. CASE Connected(r)
    BY <2>3 DEF Connected, HubFacts!Next, TheHub!CountTotal, HubFacts!CountTotal,
                TheHub!CountActive, HubFacts!CountActive, TheHub!Leave, HubFacts!Leave,
                TheHub!Goes, HubFacts!Goes
  <2>4. CASE Disconnected(r)
    BY <2>4 DEF Disconnected, HubFacts!Next, TheHub!UncountActive, HubFacts!UncountActive,
                TheHub!Goes, HubFacts!Goes
  <2>5. CASE HealthStats(r)
    <3>1. TheHub!LoadOrder = HubFacts!LoadOrder
      BY DEF TheHub!LoadOrder, HubFacts!LoadOrder
    <3>2. TheHub!StatsLoads(r) => HubFacts!StatsLoads(r)
      BY <3>1 DEF TheHub!StatsLoads, HubFacts!StatsLoads, TheHub!Load, HubFacts!Load
    <3> QED BY <2>5, <3>2 DEF HealthStats, HubFacts!Next
  <2> QED BY <1>1, <2>1, <2>2, <2>3, <2>4, <2>5 DEF RequestStep
<1>2. CASE Signal \/ Exit \/ ListenFails
  BY <1>2 DEF Signal, Exit, ListenFails
<1>3. CASE Background
  BY <1>3 DEF Background
<1>4. CASE UNCHANGED vars
  BY <1>4 DEF vars
<1> QED BY <1>1, <1>2, <1>3, <1>4 DEF Next

(* HubKept: the process implements the hub's specification: a connection   *)
(* joins and leaves the hub in its order although it comes through the     *)
(* limiter and outlives the listener.                                      *)
THEOREM HubKept == Spec => HubFacts!Spec
<1>1. hubVars = HubFacts!vars
  BY DEF hubVars, HubFacts!vars
<1>2. [Next]_vars => [HubFacts!Next]_(HubFacts!vars)
  BY HubStep DEF hubVars, HubFacts!vars
<1> QED BY <1>2, HubInit, PTL DEF Spec, HubFacts!Spec

-----------------------------------------------------------------------------
(* What follows for the process.                                            *)

(* Where a request is, as the process itself keeps it.                      *)
StageOK ==
  /\ stage \in [Requests -> Stages]
  /\ server \in {"up", "draining", "down"} /\ since \in 0..now
  /\ \A r \in Requests :
       /\ stage[r] = "limited" <=> passage[r].pc = "waits"
       /\ stage[r] = "hijacked" <=> serve[r] \in {"entered", "counted", "live", "left"}

LEMMA TypeSplit == TypeOK <=> LimiterTypeOK /\ HubFacts!TypeOK /\ StageOK
<1>0. \A stages : HubFacts!At(stages) = TheHub!At(stages)
  BY DEF TheHub!At, HubFacts!At
<1>1. HubFacts!TypeOK <=> TheHub!TypeOK
  BY <1>0 DEF TheHub!TypeOK, HubFacts!TypeOK, TheHub!Stages, HubFacts!Stages
<1> QED BY <1>1 DEF TypeOK, StageOK

LEMMA StageInit == Init => StageOK
<1> SUFFICES ASSUME Init PROVE StageOK
  OBVIOUS
<1>1. /\ \A r \in Requests : stage[r] = "new" /\ serve[r] = "new"
      /\ stage \in [Requests -> Stages]
  BY DEF Init, Stages, TheHub!Init
<1>2. ASSUME NEW r \in Requests PROVE passage[r].pc = "before"
  <2>1. PICK ip \in IPs : passage[r] = Before(ip)
    BY DEF Init, LimiterInit
  <2> QED BY <2>1 DEF Before
<1>3. since \in 0..now /\ server = "up"
  BY DEF Init, LimiterInit
<1> QED BY <1>1, <1>2, <1>3 DEF StageOK

(* A request goes on; the others, and the server, stay where they are.      *)
LEMMA Moves ==
  ASSUME StageOK, NEW r \in Requests, NEW from, NEW to \in Stages, Goes(r, from, to)
  PROVE  /\ stage' \in [Requests -> Stages]
         /\ stage[r] = from /\ stage'[r] = to
         /\ \A d \in Requests : d # r => stage'[d] = stage[d]
         /\ server' = server /\ since' = since
  BY DEF Goes, StageOK, serverVars

LEMMA LimiterMoves ==
  ASSUME LimiterTypeOK, NEW r \in Requests,
         ReadClock(r) \/ OpenWindow(r) \/ CountInWindow(r)
  PROVE  /\ now' = now
         /\ \A d \in Requests : d # r => passage'[d] = passage[d]
         /\ ReadClock(r) => passage'[r].pc = "waits"
         /\ ~ReadClock(r) => passage'[r].pc \in {"through", "refused"}
  BY DEF LimiterTypeOK, ReadClock, OpenWindow, CountInWindow, Moved

(* Enough for a step of one request.                                        *)
LEMMA OneMoves ==
  ASSUME StageOK, NEW r \in Requests,
         stage' \in [Requests -> Stages],
         server' = server, since' = since, now' = now,
         \A d \in Requests : d # r => /\ stage'[d] = stage[d]
                                     /\ passage'[d] = passage[d]
                                     /\ serve'[d] = serve[d],
         stage'[r] = "limited" <=> passage'[r].pc = "waits",
         stage'[r] = "hijacked" <=> serve'[r] \in {"entered", "counted", "live", "left"}
  PROVE  StageOK'
<1>1. ASSUME NEW d \in Requests
      PROVE  /\ stage'[d] = "limited" <=> passage'[d].pc = "waits"
             /\ stage'[d] = "hijacked" <=> serve'[d] \in {"entered", "counted", "live", "left"}
  <2>1. CASE d = r
    BY <2>1
  <2>2. CASE d # r
    BY <2>2 DEF StageOK
  <2> QED BY <2>1, <2>2
<1> QED BY <1>1 DEF StageOK

LEMMA StageStep == TypeOK /\ StageOK /\ [Next]_vars => StageOK'
<1> SUFFICES ASSUME TypeOK, StageOK, [Next]_vars PROVE StageOK'
  OBVIOUS
<1>t. LimiterTypeOK /\ HubFacts!TypeOK
  BY TypeSplit
<1>s. \A x \in {"new", "limited", "routed", "handled", "pinged", "hijacked", "done"} : x \in Stages
  BY DEF Stages
<1>l. ASSUME NEW r \in Requests
      PROVE  /\ stage[r] = "limited" <=> passage[r].pc = "waits"
             /\ stage[r] = "hijacked" <=> serve[r] \in {"entered", "counted", "live", "left"}
  BY DEF StageOK
(* The request goes on, its limiter and hub state stays.                    *)
<1>1. ASSUME NEW r \in Requests, NEW from \in {"new", "routed", "handled", "pinged"},
             NEW to \in {"routed", "handled", "pinged", "done"}, Goes(r, from, to),
             passage' = passage, now' = now, serve' = serve
      PROVE  StageOK'
  <2>1. to \in Stages /\ from \notin {"limited", "hijacked"} /\ to \notin {"limited", "hijacked"}
    BY <1>s
  <2>2. /\ stage' \in [Requests -> Stages] /\ stage[r] = from /\ stage'[r] = to
        /\ \A d \in Requests : d # r => stage'[d] = stage[d]
        /\ server' = server /\ since' = since
    BY <1>1, <2>1, Moves
  <2>3. passage'[r].pc # "waits" /\ serve'[r] \notin {"entered", "counted", "live", "left"}
    BY <1>1, <1>l, <2>1, <2>2
  <2> QED BY <1>1, <2>1, <2>2, <2>3, OneMoves
<1>2. ASSUME NEW r \in Requests,
             Preflight(r) \/ Authorize(r) \/ Reply(r) \/ UpgradeFails(r) \/ Ping(r)
      PROVE  StageOK'
  <2>1. passage' = passage /\ now' = now /\ serve' = serve
    BY <1>2 DEF Preflight, Authorize, Reply, UpgradeFails, Ping, limiterVars, hubVars
  <2>2. CASE Preflight(r)
    BY <2>1, <2>2, <1>1 DEF Preflight
  <2>3. CASE Authorize(r)
    <3>1. PICK to \in {"handled", "done"} : Goes(r, "routed", to)
      BY <2>3 DEF Authorize
    <3> QED BY <2>1, <3>1, <1>1
  <2>4. CASE Reply(r)
    BY <2>1, <2>4, <1>1 DEF Reply
  <2>5. CASE UpgradeFails(r)
    BY <2>1, <2>5, <1>1 DEF UpgradeFails
  <2>6. CASE Ping(r)
    BY <2>1, <2>6, <1>1 DEF Ping
  <2> QED BY <1>2, <2>2, <2>3, <2>4, <2>5, <2>6
<1>3. ASSUME NEW r \in Requests, HealthStats(r) PROVE StageOK'
  <2>1. passage' = passage /\ now' = now /\ serve' = serve
    BY <1>3 DEF HealthStats, limiterVars, TheHub!StatsLoads
  <2>2. PICK to \in {"handled", "pinged"} : Goes(r, "pinged", to)
    BY <1>3 DEF HealthStats
  <2> QED BY <2>1, <2>2, <1>1
<1>4. ASSUME NEW r \in Requests, Arrive(r) PROVE StageOK'
  <2>1. Goes(r, "new", "limited") /\ ReadClock(r) /\ serve' = serve
    BY <1>4 DEF Arrive, hubVars
  <2>2. /\ stage' \in [Requests -> Stages] /\ stage[r] = "new" /\ stage'[r] = "limited"
        /\ \A d \in Requests : d # r => stage'[d] = stage[d]
        /\ server' = server /\ since' = since
    BY <2>1, <1>s, Moves
  <2>3. /\ now' = now /\ passage'[r].pc = "waits"
        /\ \A d \in Requests : d # r => passage'[d] = passage[d]
    BY <2>1, <1>t, LimiterMoves
  <2> QED BY <1>l, <2>1, <2>2, <2>3, OneMoves
<1>5. ASSUME NEW r \in Requests, Decide(r) PROVE StageOK'
  <2>1. PICK to \in {"routed", "done"} : Goes(r, "limited", to)
    BY <1>5 DEF Decide
  <2>2. (OpenWindow(r) \/ CountInWindow(r)) /\ ~ReadClock(r) /\ serve' = serve
    BY <1>5 DEF Decide, hubVars, OpenWindow, CountInWindow, ReadClock
  <2>3. /\ stage' \in [Requests -> Stages] /\ stage[r] = "limited" /\ stage'[r] = to
        /\ \A d \in Requests : d # r => stage'[d] = stage[d]
        /\ server' = server /\ since' = since
    BY <2>1, <1>s, Moves
  <2>4. /\ now' = now /\ passage'[r].pc # "waits"
        /\ \A d \in Requests : d # r => passage'[d] = passage[d]
    BY <2>2, <1>t, LimiterMoves
  <2> QED BY <1>l, <2>1, <2>2, <2>3, <2>4, OneMoves
(* The hub's steps of a connection.                                         *)
<1>6. ASSUME NEW r \in Requests, NEW from \in Stages, NEW to \in Stages, Goes(r, from, to),
             from # "limited", to # "limited",
             NEW f, NEW t \in HubFacts!Stages, HubFacts!Goes(r, f, t),
             to = "hijacked" <=> t \in {"entered", "counted", "live", "left"},
             passage' = passage, now' = now
      PROVE  StageOK'
  <2>1. /\ stage' \in [Requests -> Stages] /\ stage[r] = from /\ stage'[r] = to
        /\ \A d \in Requests : d # r => stage'[d] = stage[d]
        /\ server' = server /\ since' = since
    BY <1>6, Moves
  <2>2. serve'[r] = t /\ \A d \in Requests : d # r => serve'[d] = serve[d]
    BY <1>6, <1>t, HubFacts!GoesType
  <2> QED BY <1>6, <1>l, <2>1, <2>2, OneMoves
<1>7. ASSUME NEW r \in Requests, Upgrade(r) \/ Connected(r) \/ Disconnected(r) PROVE StageOK'
  <2>1. passage' = passage /\ now' = now
    BY <1>7 DEF Upgrade, Connected, Disconnected, limiterVars
  <2>2. \A f, t : TheHub!Goes(r, f, t) => HubFacts!Goes(r, f, t)
    BY DEF TheHub!Goes, HubFacts!Goes
  <2>3. \A x \in {"entered", "counted", "live", "left", "gone"} : x \in HubFacts!Stages
    BY DEF HubFacts!Stages
  <2>4. CASE Upgrade(r)
    <3>1. Goes(r, "routed", "hijacked") /\ HubFacts!Goes(r, "new", "entered")
      BY <2>2, <2>4 DEF Upgrade, TheHub!Enter
    <3> QED BY <3>1, <2>1, <2>3, <1>s, <1>6
  <2>5. CASE Connected(r)
    <3>1. Goes(r, "hijacked", "hijacked")
      BY <2>5 DEF Connected
    <3>2. PICK f, t : t \in {"counted", "live", "left"} /\ HubFacts!Goes(r, f, t)
      BY <2>2, <2>5 DEF Connected, TheHub!CountTotal, TheHub!CountActive, TheHub!Leave
    <3> QED BY <3>1, <3>2, <2>1, <2>3, <1>s, <1>6
  <2>6. CASE Disconnected(r)
    <3>1. Goes(r, "hijacked", "done") /\ HubFacts!Goes(r, "left", "gone")
      BY <2>2, <2>6 DEF Disconnected, TheHub!UncountActive
    <3> QED BY <3>1, <2>1, <2>3, <1>s, <1>6
  <2> QED BY <1>7, <2>4, <2>5, <2>6
(* The steps of the process itself.                                         *)
<1>8. CASE Signal \/ Exit \/ ListenFails
  <2>1. /\ passage' = passage /\ now' = now /\ serve' = serve /\ stage' = stage
        /\ server' \in {"draining", "down"} /\ since' \in {since, now}
    BY <1>8 DEF Signal, Exit, ListenFails, limiterVars, hubVars
  <2>2. now \in 0..now
    BY <1>t DEF LimiterTypeOK
  <2> QED BY <2>1, <2>2 DEF StageOK
<1>9. CASE Background
  <2>1. /\ passage' = passage /\ serve' = serve /\ stage' = stage
        /\ server' = server /\ since' = since /\ now' \in {now, now + 1}
    BY <1>9 DEF Background, Purge, Tick, hubVars, serverVars
  <2>2. since \in 0..now'
    BY <2>1, <1>t DEF LimiterTypeOK, StageOK
  <2> QED BY <2>1, <2>2 DEF StageOK
<1>10. CASE UNCHANGED vars
  BY <1>10 DEF vars, limiterVars, hubVars, serverVars, StageOK
<1> QED BY <1>2, <1>3, <1>4, <1>5, <1>7, <1>8, <1>9, <1>10 DEF Next, RequestStep

(* TypeServed: the variables keep their types, and where a request is      *)
(* agrees with what the limiter and the hub hold of it.                    *)
THEOREM TypeServed == Spec => []TypeOK
<1>1. Init => TypeOK
  BY HubInit, StageInit, InitType, HubFacts!TypeInit, TypeSplit DEF Init
<1>2. TypeOK /\ [Next]_vars => TypeOK'
  <2> SUFFICES ASSUME TypeOK, [Next]_vars PROVE TypeOK'
    OBVIOUS
  <2>1. LimiterTypeOK /\ HubFacts!TypeOK /\ StageOK
    BY TypeSplit
  <2>2. LimiterTypeOK'
    BY <2>1, LimiterStep, StepType
  <2>3. HubFacts!TypeOK'
    BY <2>1, HubStep, HubFacts!TypeStep DEF hubVars, HubFacts!vars
  <2>4. StageOK'
    BY <2>1, StageStep
  <2> QED BY <2>2, <2>3, <2>4, TypeSplit, PTL
<1> QED BY <1>1, <1>2, PTL DEF Spec

(* TwiceTheLimitServed: an address gets no more than twice the limit       *)
(* through the middleware chain in any time of Window - Delay.             *)
THEOREM TwiceTheLimitServed == Spec => []AtMostTwice
  BY LimiterKept, TwiceTheLimit, PTL

(* WindowsApartServed: two windows of an address open more than            *)
(* Window - Delay apart, through CORS and a shutdown.                      *)
THEOREM WindowsApartServed == Spec => OpeningsApart
  BY LimiterKept, WindowsApart, PTL

(* RefusalsServed: a request is only refused when its address got Limit    *)
(* others through within the last Window + Delay.                          *)
THEOREM RefusalsServed == Spec => RefusalsEarned
  BY LimiterKept, RefusalsJustified, PTL

(* CountsServed: the hub's counters agree with the connections that came   *)
(* through the limiter, some of them cut off by the end of the process.    *)
THEOREM CountsServed == Spec => []CountsAgree
<1>0. /\ HubFacts!At({"counted", "live", "left", "gone"}) = TheHub!At({"counted", "live", "left", "gone"})
      /\ HubFacts!At({"live", "left"}) = TheHub!At({"live", "left"})
  BY DEF TheHub!At, HubFacts!At
<1>c. \A S : HubFacts!Cardinality(S) = TheHub!Cardinality(S)
  BY DEF HubFacts!Cardinality, TheHub!Cardinality
<1>1. HubFacts!CountsAgree => CountsAgree
  BY <1>0, <1>c DEF CountsAgree, TheHub!CountsAgree, HubFacts!CountsAgree
<1> QED BY <1>1, HubKept, HubFacts!CountsCorrect, PTL

(* HealthPlausible: a health answer never shows a negative number, nor     *)
(* more active connections than there ever were.                           *)
THEOREM HealthPlausible == Spec => []StatsPlausible
<1>1. HubFacts!StatsPlausible => StatsPlausible
  BY DEF StatsPlausible, TheHub!StatsPlausible, HubFacts!StatsPlausible
<1> QED BY <1>1, HubKept, HubFacts!StatsCorrect, PTL
=============================================================================
