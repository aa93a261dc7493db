-------------------------------- MODULE Hub --------------------------------
(***************************************************************************)
(* The hub of the WebSocket connections (internal/ws/hub.go): a map under  *)
(* a mutex and two atomic counters that are changed after it, one by one,  *)
(* by the goroutines that serve the connections, and read one by one by    *)
(* the health endpoint.                                                    *)
(***************************************************************************)
EXTENDS Integers, FiniteSets

CONSTANTS
    Conns,   \* connection ids: eight random bytes, taken to be distinct
    Probes   \* calls of Stats, each once

VARIABLES
    serve,             \* per connection: how far ServeWS has come
    conns,             \* the ids in the map
    totalConnections,
    activeConns,
    probe              \* per Stats call: how far it is, what it has loaded

vars == <<serve, conns, totalConnections, activeConns, probe>>

Unread == [loaded |-> 0, active |-> 0, total |-> 0]

Init ==
    /\ serve = [c \in Conns |-> "new"]
    /\ conns = {}
    /\ totalConnections = 0
    /\ activeConns = 0
    /\ probe = [s \in Probes |-> Unread]

-----------------------------------------------------------------------------
Goes(c, from, to) == serve[c] = from /\ serve' = [serve EXCEPT ![c] = to]

(* Register: enter the map, count the connection, count it as active.      *)
Enter(c) ==
    /\ Goes(c, "new", "entered")
    /\ conns' = conns \cup {c}
    /\ UNCHANGED <<totalConnections, activeConns, probe>>

CountTotal(c) ==
    /\ Goes(c, "entered", "counted")
    /\ totalConnections' = totalConnections + 1
    /\ UNCHANGED <<conns, activeConns, probe>>

CountActive(c) ==
    /\ Goes(c, "counted", "live")
    /\ activeConns' = activeConns + 1
    /\ UNCHANGED <<conns, totalConnections, probe>>

LeaveNot(c) ==    \* mutant: the connection stays in the map
    /\ Goes(c, "live", "left")
    /\ UNCHANGED <<conns, totalConnections, activeConns, probe>>

(* Unregister, once Run has returned: leave the map, then the count.       *)
Leave(c) ==
    /\ Goes(c, "live", "left")
    /\ conns' = conns \ {c}
    /\ UNCHANGED <<totalConnections, activeConns, probe>>

UncountNot(c) ==   \* mutant: nobody decrements
    /\ Goes(c, "left", "gone")
    /\ UNCHANGED <<conns, totalConnections, activeConns, probe>>

UncountActive(c) ==
    /\ Goes(c, "left", "gone")
    /\ activeConns' = activeConns - 1
    /\ UNCHANGED <<conns, totalConnections, probe>>

(* Stats loads the active count, then the total.                           *)
TotalFirst == <<"total", "active">>   \* mutant: the other way round

LoadOrder == <<"active", "total">>

Load(p, counter) ==
    [loaded |-> p.loaded + 1,
     active |-> IF counter = "active" THEN activeConns ELSE p.active,
     total  |-> IF counter = "total" THEN totalConnections ELSE p.total]

StatsLoads(s) ==
    /\ probe[s].loaded < 2
    /\ probe' = [probe EXCEPT ![s] = Load(@, LoadOrder[@.loaded + 1])]
    /\ UNCHANGED <<serve, conns, totalConnections, activeConns>>

-----------------------------------------------------------------------------
Next ==
    \/ \E c \in Conns : \/ Enter(c)
                        \/ CountTotal(c)
                        \/ CountActive(c)
                        \/ Leave(c)
                        \/ UncountActive(c)
    \/ \E s \in Probes : StatsLoads(s)

Spec == Init /\ [][Next]_vars

-----------------------------------------------------------------------------
Stages == {"new", "entered", "counted", "live", "left", "gone"}
At(stages) == {c \in Conns : serve[c] \in stages}

(* TypeOK: the variables have their types, and the map holds exactly the   *)
(* connections between Register and Unregister.                            *)
TypeOK ==
    /\ serve \in [Conns -> Stages]
    /\ conns = At({"entered", "counted", "live"})
    /\ totalConnections \in Nat
    /\ activeConns \in Int
    /\ probe \in [Probes -> [loaded : 0..2, active : Int, total : Nat]]

(* CountsAgree: the counters count the steps that were taken: no path      *)
(* through Register and Unregister counts a connection twice or leaves it  *)
(* counted, so between requests the active count is the size of the map.   *)
CountsAgree ==
    /\ totalConnections = Cardinality(At({"counted", "live", "left", "gone"}))
    /\ activeConns = Cardinality(At({"live", "left"}))

(* StatsPlausible: a health answer never shows a negative number, nor more *)
(* active connections than there ever were, although the two numbers are   *)
(* loaded at different times (hub.go:54, main.go's health endpoint).       *)
StatsPlausible ==
    \A s \in Probes : probe[s].loaded = 2 =>
        0 <= probe[s].active /\ probe[s].active <= probe[s].total
=============================================================================
