----------------------------- MODULE HubProofs -----------------------------
(* Safety proofs about Hub, for any sets of connections and of Stats calls, *)
(* finite or not.                                                           *)
EXTENDS Hub, FiniteSetTheorems, TLAPS

-----------------------------------------------------------------------------
(* Type correctness.                                                        *)
ProbeState == [loaded : 0..2, active : Int, total : Nat]

LEMMA UnreadType == Unread \in ProbeState
  BY DEF Unread, ProbeState

LEMMA TypeInit == Init => TypeOK
<1> SUFFICES ASSUME Init PROVE TypeOK
  OBVIOUS
<1>1. probe \in [Probes -> ProbeState]
  BY UnreadType DEF Init
<1>2. serve \in [Conns -> Stages] /\ conns = At({"entered", "counted", "live"})
  BY DEF Init, Stages, At
<1> QED BY <1>1, <1>2 DEF Init, TypeOK, ProbeState

(* One connection goes from one stage to another.                           *)
LEMMA GoesType ==
  ASSUME TypeOK, NEW c \in Conns, NEW from, NEW to \in Stages, Goes(c, from, to)
  PROVE  /\ serve' \in [Conns -> Stages]
         /\ serve[c] = from /\ serve'[c] = to
         /\ \A d \in Conns : d # c => serve'[d] = serve[d]
  BY DEF Goes, TypeOK

(* What the set of connections at some stages becomes.                      *)
LEMMA GoesAt ==
  ASSUME TypeOK, NEW c \in Conns, NEW from, NEW to \in Stages, Goes(c, from, to),
         NEW S
  PROVE  /\ from \in S /\ to \in S => At(S)' = At(S)
         /\ from \notin S /\ to \notin S => At(S)' = At(S)
         /\ from \notin S /\ to \in S => At(S)' = At(S) \cup {c} /\ c \notin At(S)
         /\ from \in S /\ to \notin S => At(S)' = At(S) \ {c} /\ c \in At(S)
  BY GoesType, Zenon DEF At

(* A Stats call loads the active count, then the total.                     *)
LEMMA Loads ==
  ASSUME TypeOK, NEW s \in Probes, StatsLoads(s)
  PROVE  /\ probe' \in [Probes -> ProbeState]
         /\ \A t \in Probes : t # s => probe'[t] = probe[t]
         /\ \/ /\ probe[s].loaded = 0 /\ probe'[s].loaded = 1
               /\ probe'[s].active = activeConns
            \/ /\ probe[s].loaded = 1 /\ probe'[s].loaded = 2
               /\ probe'[s].active = probe[s].active
               /\ probe'[s].total = totalConnections
<1>1. probe[s] \in ProbeState /\ probe \in [Probes -> ProbeState]
  BY DEF TypeOK, ProbeState
<1>2. LoadOrder[1] = "active" /\ LoadOrder[2] = "total"
  BY DEF LoadOrder
<1>3. activeConns \in Int /\ totalConnections \in Nat
  BY DEF TypeOK
<1>4. PICK p \in ProbeState : p = probe[s]
  BY <1>1
<1>5. probe' = [probe EXCEPT ![s] = Load(p, LoadOrder[p.loaded + 1])]
  BY <1>4 DEF StatsLoads
<1>6. CASE p.loaded = 0
  <2>1. PICK q : q = [loaded |-> 1, active |-> activeConns, total |-> p.total]
    OBVIOUS
  <2>2. q \in ProbeState
    BY <1>3, <2>1 DEF ProbeState
  <2>3. p.loaded + 1 = 1
    BY <1>6
  <2>4. Load(p, LoadOrder[p.loaded + 1]) = q
    BY <1>2, <2>1, <2>3 DEF Load
  <2> QED BY <1>1, <1>4, <1>5, <1>6, <2>1, <2>2, <2>4
<1>7. CASE p.loaded = 1
  <2>1. PICK q : q = [loaded |-> 2, active |-> p.active, total |-> totalConnections]
    OBVIOUS
  <2>2. q \in ProbeState
    BY <1>3, <2>1 DEF ProbeState
  <2>3. p.loaded + 1 = 2
    BY <1>7
  <2>4. Load(p, LoadOrder[p.loaded + 1]) = q
    BY <1>2, <2>1, <2>3 DEF Load
  <2> QED BY <1>1, <1>4, <1>5, <1>7, <2>1, <2>2, <2>4
<1> QED BY <1>4, <1>6, <1>7 DEF StatsLoads, ProbeState

LEMMA TypeStep == TypeOK /\ [Next]_vars => TypeOK'
<1> SUFFICES ASSUME TypeOK, [Next]_vars PROVE TypeOK'
  OBVIOUS
<1> DEFINE Held == {"entered", "counted", "live"}
<1>t. /\ serve \in [Conns -> Stages] /\ conns = At(Held)
      /\ totalConnections \in Nat /\ activeConns \in Int
      /\ probe \in [Probes -> ProbeState]
  BY DEF TypeOK, ProbeState
<1>g. ASSUME /\ serve' \in [Conns -> Stages] /\ conns' = At(Held)'
             /\ totalConnections' \in Nat /\ activeConns' \in Int
             /\ probe' \in [Probes -> ProbeState]
      PROVE  TypeOK'
  BY <1>g DEF TypeOK, ProbeState
<1>s. \A x \in {"new", "entered", "counted", "live", "left", "gone"} : x \in Stages
  BY DEF Stages
<1>1. ASSUME NEW c \in Conns, Enter(c) PROVE TypeOK'
  <2>1. Goes(c, "new", "entered") /\ "entered" \in Stages
    BY <1>1, <1>s DEF Enter
  <2>2. At(Held)' = At(Held) \cup {c}
    BY <2>1, GoesAt
  <2>3. serve' \in [Conns -> Stages]
    BY <2>1, GoesType
  <2> QED BY <1>g, <1>t, <1>1, <2>2, <2>3 DEF Enter
<1>2. ASSUME NEW c \in Conns, CountTotal(c) PROVE TypeOK'
  <2>1. Goes(c, "entered", "counted") /\ "counted" \in Stages
    BY <1>2, <1>s DEF CountTotal
  <2>2. At(Held)' = At(Held)
    BY <2>1, GoesAt
  <2>3. serve' \in [Conns -> Stages]
    BY <2>1, GoesType
  <2> QED BY <1>g, <1>t, <1>2, <2>2, <2>3 DEF CountTotal
<1>3. ASSUME NEW c \in Conns, CountActive(c) PROVE TypeOK'
  <2>1. Goes(c, "counted", "live") /\ "live" \in Stages
    BY <1>3, <1>s DEF CountActive
  <2>2. At(Held)' = At(Held)
    BY <2>1, GoesAt
  <2>3. serve' \in [Conns -> Stages]
    BY <2>1, GoesType
  <2> QED BY <1>g, <1>t, <1>3, <2>2, <2>3 DEF CountActive
<1>4. ASSUME NEW c \in Conns, Leave(c) PROVE TypeOK'
  <2>1. Goes(c, "live", "left") /\ "left" \in Stages
    BY <1>4, <1>s DEF Leave
  <2>2. At(Held)' = At(Held) \ {c}
    BY <2>1, GoesAt
  <2>3. serve' \in [Conns -> Stages]
    BY <2>1, GoesType
  <2> QED BY <1>g, <1>t, <1>4, <2>2, <2>3 DEF Leave
<1>5. ASSUME NEW c \in Conns, UncountActive(c) PROVE TypeOK'
  <2>1. Goes(c, "left", "gone") /\ "gone" \in Stages
    BY <1>5, <1>s DEF UncountActive
  <2>2. At(Held)' = At(Held)
    BY <2>1, GoesAt
  <2>3. serve' \in [Conns -> Stages]
    BY <2>1, GoesType
  <2> QED BY <1>g, <1>t, <1>5, <2>2, <2>3 DEF UncountActive
<1>6. ASSUME NEW s \in Probes, StatsLoads(s) PROVE TypeOK'
  <2>1. probe' \in [Probes -> ProbeState]
    BY <1>6, Loads
  <2> QED BY <1>g, <1>t, <1>6, <2>1 DEF StatsLoads, At
<1>7. CASE UNCHANGED vars
  BY <1>g, <1>t, <1>7 DEF vars, At
<1> QED BY <1>1, <1>2, <1>3, <1>4, <1>5, <1>6, <1>7 DEF Next

(* TypeCorrect: the variables keep their types, and the map holds exactly  *)
(* the connections between Register and Unregister.                        *)
THEOREM TypeCorrect == Spec => []TypeOK
<1> QED BY TypeInit, TypeStep, PTL DEF Spec

-----------------------------------------------------------------------------
(* The counters.  A step counts one connection of a finite set of them: the *)
(* strengthening is that only finitely many have been registered.           *)
Registered == {"entered", "counted", "live", "left", "gone"}
Counted == {"counted", "live", "left", "gone"}
Active == {"live", "left"}

CountsInv ==
  /\ IsFiniteSet(At(Registered))
  /\ totalConnections = Cardinality(At(Counted))
  /\ activeConns = Cardinality(At(Active))

LEMMA CountsInit == Init => CountsInv
<1> SUFFICES ASSUME Init PROVE CountsInv
  OBVIOUS
<1>1. At(Registered) = {} /\ At(Counted) = {} /\ At(Active) = {}
  BY DEF Init, At, Registered, Counted, Active
<1> QED BY <1>1, FS_EmptySet DEF Init, CountsInv

(* The active were counted, the counted were registered.                    *)
LEMMA Finite ==
  ASSUME CountsInv
  PROVE  /\ At(Active) \subseteq At(Counted)
         /\ IsFiniteSet(At(Counted)) /\ IsFiniteSet(At(Active))
<1>1. At(Counted) \subseteq At(Registered) /\ At(Active) \subseteq At(Counted)
  BY DEF At, Registered, Counted, Active
<1> QED BY <1>1, FS_Subset DEF CountsInv

LEMMA CountsStep == TypeOK /\ CountsInv /\ [Next]_vars => CountsInv'
<1> SUFFICES ASSUME TypeOK, CountsInv, [Next]_vars PROVE CountsInv'
  OBVIOUS
<1>t. totalConnections \in Nat /\ activeConns \in Int
  BY DEF TypeOK
<1>f. /\ IsFiniteSet(At(Registered)) /\ IsFiniteSet(At(Counted)) /\ IsFiniteSet(At(Active))
      /\ totalConnections = Cardinality(At(Counted))
      /\ activeConns = Cardinality(At(Active))
  BY Finite DEF CountsInv
<1>s. \A x \in {"new", "entered", "counted", "live", "left", "gone"} : x \in Stages
  BY DEF Stages
<1>m. /\ \A x \in {"entered", "counted", "live", "left", "gone"} : x \in Registered
      /\ "new" \notin Registered
      /\ \A x \in {"counted", "live", "left", "gone"} : x \in Counted
      /\ "new" \notin Counted /\ "entered" \notin Counted
      /\ "live" \in Active /\ "left" \in Active
      /\ \A x \in {"new", "entered", "counted", "gone"} : x \notin Active
  BY DEF Registered, Counted, Active
<1>1. ASSUME NEW c \in Conns, Enter(c) PROVE CountsInv'
  <2>1. Goes(c, "new", "entered") /\ "entered" \in Stages
    BY <1>1, <1>s DEF Enter
  <2>2. /\ At(Registered)' = At(Registered) \cup {c}
        /\ At(Counted)' = At(Counted) /\ At(Active)' = At(Active)
    BY <2>1, <1>m, GoesAt
  <2>3. IsFiniteSet(At(Registered) \cup {c})
    BY <1>f, FS_AddElement
  <2> QED BY <1>f, <1>1, <2>2, <2>3 DEF CountsInv, Enter
<1>2. ASSUME NEW c \in Conns, CountTotal(c) PROVE CountsInv'
  <2>1. Goes(c, "entered", "counted") /\ "counted" \in Stages
    BY <1>2, <1>s DEF CountTotal
  <2>2. /\ At(Registered)' = At(Registered) /\ At(Active)' = At(Active)
        /\ At(Counted)' = At(Counted) \cup {c} /\ c \notin At(Counted)
    BY <2>1, <1>m, GoesAt
  <2>3. Cardinality(At(Counted) \cup {c}) = Cardinality(At(Counted)) + 1
    BY <1>f, <2>2, FS_AddElement
  <2> QED BY <1>f, <1>2, <2>2, <2>3 DEF CountsInv, CountTotal
<1>3. ASSUME NEW c \in Conns, CountActive(c) PROVE CountsInv'
  <2>1. Goes(c, "counted", "live") /\ "live" \in Stages
    BY <1>3, <1>s DEF CountActive
  <2>2. /\ At(Registered)' = At(Registered) /\ At(Counted)' = At(Counted)
        /\ At(Active)' = At(Active) \cup {c} /\ c \notin At(Active)
    BY <2>1, <1>m, GoesAt
  <2>3. Cardinality(At(Active) \cup {c}) = Cardinality(At(Active)) + 1
    BY <1>f, <2>2, FS_AddElement
  <2> QED BY <1>f, <1>3, <2>2, <2>3 DEF CountsInv, CountActive
<1>4. ASSUME NEW c \in Conns, Leave(c) PROVE CountsInv'
  <2>1. Goes(c, "live", "left") /\ "left" \in Stages
    BY <1>4, <1>s DEF Leave
  <2>2. /\ At(Registered)' = At(Registered)
        /\ At(Counted)' = At(Counted) /\ At(Active)' = At(Active)
    BY <2>1, <1>m, GoesAt
  <2> QED BY <1>f, <1>4, <2>2 DEF CountsInv, Leave
<1>5. ASSUME NEW c \in Conns, UncountActive(c) PROVE CountsInv'
  <2>1. Goes(c, "left", "gone") /\ "gone" \in Stages
    BY <1>5, <1>s DEF UncountActive
  <2>2. /\ At(Registered)' = At(Registered) /\ At(Counted)' = At(Counted)
        /\ At(Active)' = At(Active) \ {c} /\ c \in At(Active)
    BY <2>1, <1>m, GoesAt
  <2>3. Cardinality(At(Active) \ {c}) = Cardinality(At(Active)) - 1
    BY <1>f, <2>2, FS_RemoveElement
  <2> QED BY <1>f, <1>5, <2>2, <2>3 DEF CountsInv, UncountActive
<1>6. ASSUME NEW s \in Probes, StatsLoads(s) PROVE CountsInv'
  BY <1>6 DEF CountsInv, StatsLoads, At
<1>7. CASE UNCHANGED vars
  BY <1>7 DEF CountsInv, vars, At
<1> QED BY <1>1, <1>2, <1>3, <1>4, <1>5, <1>6, <1>7 DEF Next

(* CountsCorrect: no path through Register and Unregister counts a         *)
(* connection twice or leaves it counted.                                  *)
THEOREM CountsCorrect == Spec => []CountsAgree
<1>1. CountsInv => CountsAgree
  BY DEF CountsInv, CountsAgree, Counted, Active
<1> QED BY <1>1, TypeInit, TypeStep, CountsInit, CountsStep, PTL DEF Spec

-----------------------------------------------------------------------------
(* What Stats reports.  Between its two loads the active count it has seen  *)
(* is bounded by the total, which only grows until it loads that too.       *)
StatsInv ==
  \A s \in Probes :
    /\ probe[s].loaded = 1 =>
         0 <= probe[s].active /\ probe[s].active <= totalConnections
    /\ probe[s].loaded = 2 =>
         0 <= probe[s].active /\ probe[s].active <= probe[s].total

LEMMA StatsInit == Init => StatsInv
<1> SUFFICES ASSUME Init, NEW s \in Probes PROVE probe[s].loaded = 0
  BY DEF StatsInv
<1> QED BY DEF Init, Unread

(* There are never more active connections than there ever were.            *)
LEMMA ActiveBounded ==
  ASSUME TypeOK, CountsInv PROVE 0 <= activeConns /\ activeConns <= totalConnections
<1>1. Cardinality(At(Active)) <= Cardinality(At(Counted))
  BY Finite, FS_Subset
<1>2. Cardinality(At(Active)) \in Nat
  BY Finite, FS_CardinalityType
<1> QED BY <1>1, <1>2 DEF CountsInv

(* The total never goes down.                                               *)
LEMMA TotalGrows ==
  ASSUME TypeOK, [Next]_vars
  PROVE  totalConnections' \in Nat /\ totalConnections <= totalConnections'
<1>1. totalConnections' = totalConnections \/ totalConnections' = totalConnections + 1
  BY DEF Next, Enter, CountTotal, CountActive, Leave, UncountActive, StatsLoads, vars
<1> QED BY <1>1 DEF TypeOK

LEMMA StatsStep == TypeOK /\ CountsInv /\ StatsInv /\ [Next]_vars => StatsInv'
<1> SUFFICES ASSUME TypeOK, CountsInv, StatsInv, [Next]_vars, NEW t \in Probes
             PROVE  /\ probe'[t].loaded = 1 =>
                         0 <= probe'[t].active /\ probe'[t].active <= totalConnections'
                    /\ probe'[t].loaded = 2 =>
                         0 <= probe'[t].active /\ probe'[t].active <= probe'[t].total
  BY DEF StatsInv
<1>1. /\ totalConnections \in Nat /\ totalConnections' \in Nat
      /\ totalConnections <= totalConnections'
  BY TotalGrows DEF TypeOK
<1>2. probe[t] \in ProbeState /\ probe[t].active \in Int
  BY DEF TypeOK, ProbeState
<1>3. 0 <= activeConns /\ activeConns <= totalConnections /\ activeConns \in Int
  BY ActiveBounded DEF TypeOK
<1>4. CASE probe'[t] = probe[t]
  <2>1. PICK p : p = probe[t]
    OBVIOUS
  <2> QED BY <1>1, <1>2, <1>4, <2>1 DEF StatsInv
<1>5. CASE StatsLoads(t)
  <2>1. CASE probe[t].loaded = 0
    BY <1>1, <1>3, <1>5, <2>1, Loads
  <2>2. CASE probe[t].loaded = 1
    <3>1. /\ probe'[t].active = probe[t].active /\ probe'[t].total = totalConnections
          /\ probe'[t].loaded = 2
      BY <1>5, <2>2, Loads
    <3>2. 0 <= probe[t].active /\ probe[t].active <= totalConnections
      BY <2>2 DEF StatsInv
    <3> QED BY <3>1, <3>2
  <2> QED BY <1>5, <2>1, <2>2, Loads
<1>6. ASSUME NEW s \in Probes, StatsLoads(s), s # t PROVE probe'[t] = probe[t]
  BY <1>6, Loads
<1> QED BY <1>4, <1>5, <1>6
    DEF Next, Enter, CountTotal, CountActive, Leave, UncountActive, vars

(* StatsCorrect: a health answer never shows a negative number, nor more   *)
(* active connections than there ever were.                                *)
THEOREM StatsCorrect == Spec => []StatsPlausible
<1>1. StatsInv => StatsPlausible
  BY DEF StatsInv, StatsPlausible
<1> QED BY <1>1, TypeInit, TypeStep, CountsInit, CountsStep, StatsInit, StatsStep,
           PTL DEF Spec
=============================================================================
