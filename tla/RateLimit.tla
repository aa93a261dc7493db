----------------------------- MODULE RateLimit -----------------------------
(***************************************************************************)
(* The limiter of requests per client address (middleware/ratelimit.go):   *)
(* a fixed window that opens with the first request after the last one is  *)
(* over, a count in it, and a goroutine that drops the windows that are    *)
(* over.  A request reads the clock, then waits for the mutex, so it may   *)
(* be decided some time after the moment it is counted at.                 *)
(***************************************************************************)
EXTENDS Integers, Sequences

CONSTANTS
    Requests,  \* requests that pass the limiter, each once
    IPs,       \* client addresses, after RealIP and without the port
    Limit,     \* requests per window (200)
    Window,    \* its length (one minute)
    Delay,     \* a request gets the mutex within this time of reading the clock
    MaxTime    \* bound on the clock

ASSUME RateLimitAssumption ==
    /\ Limit \in Nat \ {0} /\ Window \in Nat \ {0}
    /\ Delay \in Nat /\ MaxTime \in Nat

VARIABLES
    now,       \* the clock
    visitors,  \* per address: the count of its window and when it opened
    passage,   \* per request: how far it is, its address, the clock it read
    grants,    \* history, per address: when its requests were let through
    opener     \* history, per address: which of them opened its last window

limiterVars == <<now, visitors, passage, grants, opener>>

NoVisitor == [count |-> 0, windowAt |-> 0]   \* the address is not in the map

Before(ip) == [pc |-> "before", ip |-> ip, at |-> 0]

LimiterInit ==
    /\ now = 0
    /\ visitors = [ip \in IPs |-> NoVisitor]
    /\ passage \in [Requests -> {Before(ip) : ip \in IPs}]
    /\ grants = [ip \in IPs |-> <<>>]
    /\ opener = [ip \in IPs |-> 0]

-----------------------------------------------------------------------------
Moved(r, pc) == [passage EXCEPT ![r] = [pc |-> pc, ip |-> passage[r].ip, at |-> 0]]

(* The request reads the clock, before it asks for the mutex.              *)
ReadClock(r) ==
    /\ passage[r].pc = "before"
    /\ passage' = [passage EXCEPT ![r] = [pc |-> "waits", ip |-> passage[r].ip, at |-> now]]
    /\ UNCHANGED <<now, visitors, grants, opener>>

OverBy(ip, time) == visitors[ip] = NoVisitor \/ time - visitors[ip].windowAt > Window

Granted(ip) == grants' = [grants EXCEPT ![ip] = Append(grants[ip], now)]

(* With the mutex: open a window, ...                                      *)
OpenWindow(r) ==
    LET ip == passage[r].ip IN
    /\ passage[r].pc = "waits"
    /\ OverBy(ip, passage[r].at)
    /\ visitors' = [visitors EXCEPT ![ip] = [count |-> 1, windowAt |-> passage[r].at]]
    /\ passage' = Moved(r, "through")
    /\ Granted(ip)
    /\ opener' = [opener EXCEPT ![ip] = Len(grants[ip]) + 1]
    /\ UNCHANGED now

(* ... or count in the open one, past the limit too.  How far past does    *)
(* not matter, so the count stops there.                                   *)
CountSliding(ip, time) ==   \* mutant: every request prolongs the window
    [count |-> IF visitors[ip].count > Limit THEN Limit + 1 ELSE visitors[ip].count + 1,
     windowAt |-> time]

Count(ip, time) ==
    [count |-> IF visitors[ip].count > Limit THEN Limit + 1 ELSE visitors[ip].count + 1,
     windowAt |-> visitors[ip].windowAt]

AdmitsOneMore(count) == count <= Limit + 1   \* mutant: the limit is counted from zero

Admits(count) == count <= Limit

CountInWindow(r) ==
    LET ip == passage[r].ip
        v  == Count(ip, passage[r].at)
    IN
    /\ passage[r].pc = "waits"
    /\ ~OverBy(ip, passage[r].at)
    /\ visitors' = [visitors EXCEPT ![ip] = v]
    /\ IF Admits(v.count) THEN passage' = Moved(r, "through") /\ Granted(ip)
                          ELSE passage' = Moved(r, "refused") /\ UNCHANGED grants
    /\ UNCHANGED <<now, opener>>

(* The ticker's goroutine drops the windows that are over.                 *)
OutlivedSoon(ip) ==   \* mutant: windows are dropped early
    now - visitors[ip].windowAt > Window \div 2

Outlived(ip) == now - visitors[ip].windowAt > Window

Purge ==
    LET stale == {ip \in IPs : visitors[ip] # NoVisitor /\ Outlived(ip)} IN
    /\ stale # {}
    /\ visitors' = [ip \in IPs |-> IF ip \in stale THEN NoVisitor ELSE visitors[ip]]
    /\ UNCHANGED <<now, passage, grants, opener>>

(* Time passes, but nobody waits for the mutex longer than Delay.          *)
Tick ==
    /\ now < MaxTime
    /\ \A r \in Requests : passage[r].pc = "waits" => now < passage[r].at + Delay
    /\ now' = now + 1
    /\ UNCHANGED <<visitors, passage, grants, opener>>

-----------------------------------------------------------------------------
LimiterNext ==
    \/ \E r \in Requests : ReadClock(r) \/ OpenWindow(r) \/ CountInWindow(r)
    \/ Purge
    \/ Tick

LimiterSpec == LimiterInit /\ [][LimiterNext]_limiterVars

-----------------------------------------------------------------------------
(* LimiterTypeOK: the variables have their types; nobody has read the      *)
(* clock in the future, nor waits longer than Delay.                       *)
Visitor == [count : 1..Limit + 1, windowAt : Nat]

PassageState == [pc : {"before", "waits", "through", "refused"}, ip : IPs, at : Nat]

LimiterTypeOK ==
    /\ now \in Nat
    /\ visitors \in [IPs -> Visitor \cup {NoVisitor}]
    /\ passage \in [Requests -> PassageState]
    /\ grants \in [IPs -> Seq(Nat)]
    /\ opener \in [IPs -> Nat]
    /\ \A ip \in IPs : opener[ip] <= Len(grants[ip])
    /\ \A r \in Requests :
         passage[r].pc = "waits" => passage[r].at <= now /\ now <= passage[r].at + Delay

(* OpeningsApart: two windows of an address open more than Window - Delay  *)
(* apart, although the second may be opened by a request that read the     *)
(* clock before the purge dropped the first (ratelimit.go:44).             *)
OpeningsApart ==
    [][\A ip \in IPs :
         opener'[ip] # opener[ip] /\ opener[ip] # 0 =>
            grants'[ip][opener'[ip]] - grants[ip][opener[ip]] > Window - Delay]_limiterVars

(* AtMostTwice: however requests, waits and purges fall, an address gets   *)
(* no more than twice the limit through in any time of Window - Delay: two *)
(* windows can meet, three cannot.                                         *)
AtMostTwice ==
    \A ip \in IPs : \A i \in DOMAIN grants[ip] :
        i + 2 * Limit \in DOMAIN grants[ip] =>
            grants[ip][i + 2 * Limit] - grants[ip][i] > Window - Delay

(* RefusalsEarned: a request is only refused when its address got Limit    *)
(* others through within the last Window + Delay; refused requests count   *)
(* too (ratelimit.go:54), yet they do not prolong the window, so a client  *)
(* that keeps trying is served again.                                      *)
RefusalsEarned ==
    [][\A r \in Requests :
         passage[r].pc = "waits" /\ passage'[r].pc = "refused" =>
            LET times == grants[passage[r].ip]
                first == Len(times) - Limit + 1
            IN  first > 0 /\ now - times[first] <= Window + Delay]_limiterVars

(* Why: the history is in order; a window is dated at most Delay before it *)
(* really opens, and its count is that of the requests it let through, up  *)
(* to the limit; an address is without a window only when its last one is  *)
(* over; and Limit requests back, the window before had opened.            *)
Ordered(ip) ==
    /\ \A i \in DOMAIN grants[ip] : grants[ip][i] <= now
    /\ \A i, j \in DOMAIN grants[ip] : i <= j => grants[ip][i] <= grants[ip][j]

InLast(ip) == Len(grants[ip]) - opener[ip] + 1

Dated(ip) ==
    visitors[ip] # NoVisitor =>
        /\ opener[ip] > 0
        /\ visitors[ip].windowAt <= grants[ip][opener[ip]]
        /\ grants[ip][opener[ip]] <= visitors[ip].windowAt + Delay
        /\ InLast(ip) = IF visitors[ip].count > Limit THEN Limit ELSE visitors[ip].count

Forgotten(ip) ==
    visitors[ip] = NoVisitor =>
        opener[ip] = 0 \/ now - grants[ip][opener[ip]] > Window - Delay

Spread(ip) ==
    /\ opener[ip] = 0 => grants[ip] = <<>>
    /\ opener[ip] > 0 => InLast(ip) <= Limit
    /\ \A i \in 1..opener[ip] - Limit :
         grants[ip][opener[ip]] - grants[ip][i] > Window - Delay

WindowInv ==
    \A ip \in IPs : Ordered(ip) /\ Dated(ip) /\ Forgotten(ip) /\ Spread(ip)
=============================================================================
