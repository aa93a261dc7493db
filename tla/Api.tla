-------------------------------- MODULE Api --------------------------------
(***************************************************************************)
(* The API process as cmd/api/main.go assembles it: every request goes     *)
(* through CORS and the limiter before it is routed; the REST routes ask   *)
(* for the key, the dictionary for a client id too, the WebSocket route    *)
(* upgrades and joins the hub, the health route reads the hub's counters.  *)
(* A signal ends the process: the server stops listening and waits, for a  *)
(* time, for the requests it is serving; connections it has handed over    *)
(* to the hub are not among them.                                          *)
(*                                                                         *)
(* Limiter and hub are the modules RateLimit and Hub, composed; what the   *)
(* check and dictionary handlers do is in their own modules.               *)
(***************************************************************************)
EXTENDS RateLimit, FiniteSets

CONSTANT
    Grace      \* how long Shutdown waits for requests (10 seconds)

ASSUME ApiAssumption == Grace \in Nat

VARIABLES serve, conns, totalConnections, activeConns, probe, \* Hub
          stage,    \* per request: how far it is
          server,   \* "up", "draining" after a signal, "down"
          since     \* when the signal came

TheHub == INSTANCE Hub WITH Conns <- Requests, Probes <- Requests

hubVars == <<serve, conns, totalConnections, activeConns, probe>>
serverVars == <<server, since>>
vars == <<limiterVars, hubVars, stage, serverVars>>

Headers == {"none", "key", "key and client"}   \* the valid ones of a request

Init ==
    /\ LimiterInit
    /\ TheHub!Init
    /\ stage = [r \in Requests |-> "new"]
    /\ server = "up" /\ since = 0

-----------------------------------------------------------------------------
Goes(r, from, to) ==
    /\ server # "down"
    /\ stage[r] = from
    /\ stage' = [stage EXCEPT ![r] = to]
    /\ UNCHANGED serverVars

(* A request arrives.  CORS answers a preflight before the limiter.        *)
Preflight(r) ==
    /\ server = "up"
    /\ Goes(r, "new", "done")
    /\ UNCHANGED <<limiterVars, hubVars>>

Arrive(r) ==
    /\ server = "up"
    /\ Goes(r, "new", "limited")
    /\ ReadClock(r)
    /\ UNCHANGED hubVars

Decide(r) ==
    /\ OpenWindow(r) \/ CountInWindow(r)
    /\ Goes(r, "limited", IF passage'[r].pc = "refused" THEN "done" ELSE "routed")
    /\ UNCHANGED hubVars

(* A REST route: APIKey, then RequireClientID in front of the dictionary.  *)
(* Route and headers are the request's; nothing looks at them before.      *)
Authorized(route, headers) ==
    \/ route = "check" /\ headers # "none"
    \/ route = "dictionary" /\ headers = "key and client"

Authorize(r) ==
    /\ \E route \in {"check", "dictionary"}, headers \in Headers :
         Goes(r, "routed", IF Authorized(route, headers) THEN "handled" ELSE "done")
    /\ UNCHANGED <<limiterVars, hubVars>>

Reply(r) ==
    /\ Goes(r, "handled", "done")
    /\ UNCHANGED <<limiterVars, hubVars>>

(* ServeWS: a failed upgrade is answered, a good one takes the connection  *)
(* away from the server; the key is asked for on the connection.           *)
UpgradeFails(r) ==
    /\ Goes(r, "routed", "done")
    /\ UNCHANGED <<limiterVars, hubVars>>

Upgrade(r) ==
    /\ Goes(r, "routed", "hijacked")
    /\ TheHub!Enter(r)
    /\ UNCHANGED limiterVars

Connected(r) ==
    /\ Goes(r, "hijacked", "hijacked")
    /\ TheHub!CountTotal(r) \/ TheHub!CountActive(r) \/ TheHub!Leave(r)
    /\ UNCHANGED limiterVars

Disconnected(r) ==
    /\ Goes(r, "hijacked", "done")
    /\ TheHub!UncountActive(r)
    /\ UNCHANGED limiterVars

(* Health pings LanguageTool and Redis, for three seconds at most, then    *)
(* reads the counters one by one and answers.                              *)
Ping(r) ==
    /\ Goes(r, "routed", "pinged")
    /\ UNCHANGED <<limiterVars, hubVars>>

HealthStats(r) ==
    /\ TheHub!StatsLoads(r)
    /\ Goes(r, "pinged", IF probe'[r].loaded = 2 THEN "handled" ELSE "pinged")
    /\ UNCHANGED limiterVars

-----------------------------------------------------------------------------
(* A signal: Shutdown stops listening and waits for the requests being     *)
(* served or for the end of its context, then main returns.                *)
Signal ==
    /\ server = "up"
    /\ now + Grace <= MaxTime      \* bound: the clock gets as far as the deadline
    /\ server' = "draining" /\ since' = now
    /\ UNCHANGED <<limiterVars, hubVars, stage>>

InService == {r \in Requests : stage[r] \notin {"new", "hijacked", "done"}}

ShutdownWaitsForAll ==   \* mutant: for the connections too, however long
    \A r \in Requests : stage[r] \in {"new", "done"}

ShutdownReturns == InService = {} \/ now >= since + Grace

Exit ==
    /\ server = "draining"
    /\ ShutdownReturns
    /\ server' = "down"
    /\ UNCHANGED <<limiterVars, hubVars, stage, since>>

(* The listener fails: the process exits at once.                          *)
ListenFails ==
    /\ server = "up"
    /\ server' = "down"
    /\ UNCHANGED <<limiterVars, hubVars, stage, since>>

Background ==
    /\ server # "down"
    /\ Purge \/ Tick
    /\ UNCHANGED <<hubVars, stage, serverVars>>

-----------------------------------------------------------------------------
RequestStep(r) ==
    \/ Preflight(r) \/ Arrive(r) \/ Decide(r)
    \/ Authorize(r) \/ Reply(r)
    \/ UpgradeFails(r) \/ Upgrade(r) \/ Connected(r) \/ Disconnected(r)
    \/ Ping(r) \/ HealthStats(r)

Next ==
    \/ \E r \in Requests : RequestStep(r)
    \/ Signal \/ Exit \/ ListenFails
    \/ Background

(* Time goes on, nobody starves for the mutex, and main gets to return.    *)
(* Nothing is asked of handlers, connections or their peers.               *)
Spec ==
    /\ Init /\ [][Next]_vars
    /\ WF_vars(Background) /\ WF_vars(Exit)
    /\ \A r \in Requests : WF_vars(Decide(r))

-----------------------------------------------------------------------------
(* TypeOK: the variables have their types, and where a request is agrees   *)
(* with what the limiter and the hub hold of it.                           *)
Stages == {"new", "limited", "routed", "handled", "pinged", "hijacked", "done"}

TypeOK ==
    /\ LimiterTypeOK /\ TheHub!TypeOK
    /\ stage \in [Requests -> Stages]
    /\ server \in {"up", "draining", "down"} /\ since \in 0..now
    /\ \A r \in Requests :
         /\ stage[r] = "limited" <=> passage[r].pc = "waits"
         /\ stage[r] = "hijacked" <=> serve[r] \in {"entered", "counted", "live", "left"}

(* The limiter's promises are stated in RateLimit; here they are kept      *)
(* behind CORS and through a shutdown.  The hub's are stated in Hub, here  *)
(* with connections and health requests that come through the limiter and  *)
(* may be cut off.                                                         *)
CountsAgree == TheHub!CountsAgree
StatsPlausible == TheHub!StatsPlausible

(* ShutdownEnds: after a signal the process ends, although connections may *)
(* stay open and handlers may hang for longer than Shutdown waits          *)
(* (main.go:177).                                                          *)
ShutdownEnds == server = "draining" ~> server = "down"
=============================================================================
