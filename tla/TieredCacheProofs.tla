------------------------- MODULE TieredCacheProofs -------------------------
(* Safety proofs about TieredCache, for any sets of processes and calls,   *)
(* any times to live and any bounds.                                       *)
EXTENDS TieredCache, SequenceTheorems, TLAPS

-----------------------------------------------------------------------------
(* The numbered answers.                                                   *)

(* A new answer takes the next number and leaves the others alone.         *)
LEMMA NewAnswer ==
  ASSUME TypeOK, born' = Append(born, now)
  PROVE  /\ born' \in Seq(Nat)
         /\ Len(born') = Len(born) + 1
         /\ Len(born) \in Nat
         /\ Answers' = Answers \cup {Len(born) + 1}
         /\ \A n \in Answers : born'[n] = born[n]
         /\ born'[Len(born) + 1] = now
<1>1. born \in Seq(Nat) /\ now \in Nat
  BY DEF TypeOK
<1>2. Len(born) \in Nat
  BY <1>1, LenProperties
<1> QED
  BY <1>1, <1>2, AppendProperties DEF Answers

(* No entry, no answer.                                                    *)
LEMMA Zero == /\ CallIdle \in CallState /\ ClearIdle \in ClearState
              /\ NoEntry \in EntryState /\ NoEntry.answer = 0
              /\ 0 \notin Answers
  BY DEF CallIdle, CallState, ClearIdle, ClearState, NoEntry, Entry, EntryState,
         Answers, Answered

-----------------------------------------------------------------------------
(* Type correctness.                                                       *)

(* What the first tier holds after a Get or a Set is well typed.           *)
LEMMA TypeL1 ==
  ASSUME TypeOK, NEW p \in Processes
  PROVE  /\ GetKept(p) \in EntryState
         /\ GetKept(p) = NoEntry \/ Filled(GetKept(p), L1TTL)
         /\ \A answer \in Answers, ttl \in Nat :
              L1Set(p, answer, ttl) =>
                /\ l1' \in [Processes -> EntryState]
                /\ \A q \in Processes : l1'[q] = l1[q] \/
                     (q = p /\ l1'[q].answer = answer /\ l1'[q].exp <= now + L1TTL)
<1>1. GetKept(p) \in {NoEntry, l1[p]}
  BY DEF GetKept
<1>2. ASSUME NEW answer \in Answers, NEW ttl \in Nat, L1Set(p, answer, ttl)
      PROVE  /\ l1' \in [Processes -> EntryState]
             /\ \A q \in Processes : l1'[q] = l1[q] \/
                  (q = p /\ l1'[q].answer = answer /\ l1'[q].exp <= now + L1TTL)
  <2>1. Effective(ttl) \in Nat /\ Effective(ttl) <= L1TTL
    BY TieredCacheAssumption DEF Effective
  <2>2. Entry(answer, now + Effective(ttl)) \in EntryState
    BY <2>1, LenProperties DEF Entry, EntryState, TypeOK, Answers
  <2>3. now + Effective(ttl) <= now + L1TTL
    BY <2>1, TieredCacheAssumption DEF TypeOK
  <2> QED
    BY <1>2, <2>2, <2>3 DEF L1Set, TypeOK, Entry
<1> QED
  BY <1>1, <1>2, Zero DEF TypeOK

(* The initial state is well typed.                                        *)
LEMMA TypeInit == Init => TypeOK
<1> SUFFICES ASSUME Init PROVE TypeOK
  OBVIOUS
<1>1. born \in Seq(Nat) /\ Len(born) = 0 /\ Answers = {}
  BY DEF Init, Answers
<1>2. \A c \in Calls : call[c] = CallIdle
  BY DEF Init
<1>3. \A c \in Calls : /\ call[c].at <= now
                       /\ call[c].pc \notin Answered
                       /\ call[c].answer = 0
  BY <1>2 DEF CallIdle, Answered, Init
<1> QED
  BY <1>1, <1>3, Zero DEF Init, TypeOK

(* What TypeOK asks of the record of a call.                               *)
Typed(r) == /\ r \in CallState
            /\ r.at <= now
            /\ IF r.pc \in Answered THEN r.answer \in Answers ELSE r.answer = 0

(* The records the steps leave, with the old or the present time.          *)
LEMMA TypedRecords ==
  ASSUME TypeOK
  PROVE  /\ Typed(CallIdle)
         /\ \A pc \in Answered, at \in 0..now, answer \in Answers :
              Typed([pc |-> pc, at |-> at, answer |-> answer])
         /\ \A pc \in {"get2", "ask"}, at \in 0..now :
              Typed([pc |-> pc, at |-> at, answer |-> 0])
  BY LenProperties DEF TypeOK, Typed, CallIdle, CallState, Answered, Answers

(* A step that replaces one call's record and writes the tiers keeps the   *)
(* types, if no answer is born and no time passes.                         *)
LEMMA TypeStep ==
  ASSUME TypeOK,
         NEW c \in Calls, NEW r, Typed(r), call' = [call EXCEPT ![c] = r],
         now' = now, born' = born, clear' = clear, clears' = clears, forgotten' = forgotten,
         settled' \in [Processes -> SUBSET Answers],
         stored' \subseteq Answers,
         l1' \in [Processes -> EntryState],
         \A q \in Processes : l1'[q] = NoEntry \/ Filled(l1'[q], L1TTL),
         l2' \in EntryState,
         l2' = NoEntry \/ Filled(l2', L2TTL)
  PROVE  TypeOK'
<1>1. Answers' = Answers
  BY DEF Answers
<1>2. call' \in [Calls -> CallState]
  BY DEF TypeOK, Typed
<1>3. \A d \in Calls :
        /\ call'[d].at <= now
        /\ IF call'[d].pc \in Answered THEN call'[d].answer \in Answers
                                      ELSE call'[d].answer = 0
  BY DEF TypeOK, Typed
<1> QED
  BY <1>1, <1>2, <1>3 DEF TypeOK, Filled

(* A write to Redis is well typed.                                         *)
LEMMA TypeRedisSet ==
  ASSUME TypeOK, NEW c \in Calls, call[c].answer \in Answers, RedisSet(c)
  PROVE  /\ stored' \subseteq Answers
         /\ l2' \in EntryState
         /\ Filled(l2', L2TTL)
<1>1. now \in Nat /\ L2TTL \in Nat /\ stored \subseteq Answers
  BY TieredCacheAssumption DEF TypeOK
<1>2. call[c].answer \in Nat
  BY LenProperties DEF TypeOK, Answers
<1>3. l2' = [answer |-> call[c].answer, exp |-> now + L2TTL]
  BY DEF RedisSet, Entry
<1>4. stored' \subseteq Answers
  BY <1>1 DEF RedisSet
<1> QED
  BY <1>1, <1>2, <1>3, <1>4 DEF EntryState, Filled

(* The steps of a request and its fill preserve TypeOK.                    *)
LEMMA TypeCallStep ==
  ASSUME TypeOK, NEW c \in Calls, CallStep(c)
  PROVE  TypeOK'
<1> DEFINE p == Process(c)
<1>0. p \in Processes
  BY DEF Calls, Process
<1>1. /\ call[c].at \in 0..now /\ now \in 0..now
      /\ call[c].pc \in Answered => call[c].answer \in Answers
      /\ l2 \in EntryState /\ (l2 = NoEntry \/ Filled(l2, L2TTL))
      /\ l1 \in [Processes -> EntryState]
      /\ \A q \in Processes : l1[q] = NoEntry \/ Filled(l1[q], L1TTL)
      /\ settled \in [Processes -> SUBSET Answers]
      /\ stored \subseteq Answers
  BY DEF TypeOK, CallState
<1>2. ASSUME NEW answer \in Answers, NEW ttl \in Nat, L1Set(p, answer, ttl)
      PROVE  /\ l1' \in [Processes -> EntryState]
             /\ \A q \in Processes : l1'[q] = NoEntry \/ Filled(l1'[q], L1TTL)
  BY <1>0, <1>1, <1>2, TypeL1 DEF Filled
<1>3. CASE Get(c)
  <2>1. /\ l1' \in [Processes -> EntryState]
        /\ \A q \in Processes : l1'[q] = NoEntry \/ Filled(l1'[q], L1TTL)
    BY <1>0, <1>1, <1>3, TypeL1 DEF Get
  <2>2. PICK r : Typed(r) /\ call' = [call EXCEPT ![c] = r]
    <3>1. CASE Live(l1[p])
      <4>1. l1[p].answer \in Answers
        BY <1>0, <1>1, <3>1 DEF Live, Filled
      <4> QED
        BY <1>1, <1>3, <3>1, <4>1, TypedRecords DEF Get, Served, Answered
    <3>2. CASE ~Live(l1[p])
      BY <1>1, <1>3, <3>2, TypedRecords DEF Get
    <3> QED
      BY <3>1, <3>2
  <2> QED
    BY <1>1, <1>3, <2>1, <2>2, TypeStep DEF Get, clearVars
<1>4. CASE GetL2(c)
  <2>1. Live(l2) => l2.answer \in Answers
    BY <1>1 DEF Live, Filled
  <2>2. PICK r : Typed(r) /\ call' = [call EXCEPT ![c] = r]
    BY <1>1, <1>4, <2>1, TypedRecords DEF GetL2, Becomes, Answered
  <2>3. settled' \in [Processes -> SUBSET Answers]
    BY <1>1, <1>4 DEF GetL2
  <2> QED
    BY <1>1, <1>4, <2>2, <2>3, TypeStep DEF GetL2, tiers
<1>5. CASE Backfill(c)
  <2>1. call[c].answer \in Answers
    BY <1>1, <1>5 DEF Backfill, Answered
  <2>2. PICK r : Typed(r) /\ call' = [call EXCEPT ![c] = r]
    BY <1>1, <1>5, <2>1, TypedRecords DEF Backfill, Served, Answered
  <2>3. /\ l1' \in [Processes -> EntryState]
        /\ \A q \in Processes : l1'[q] = NoEntry \/ Filled(l1'[q], L1TTL)
    BY <1>2, <1>5, <2>1, TieredCacheAssumption DEF Backfill
  <2> QED
    BY <1>1, <1>5, <2>2, <2>3, TypeStep DEF Backfill, clearVars
<1>6. CASE Ask(c)
  <2>1. CASE UNCHANGED born
    <3>1. PICK r : Typed(r) /\ call' = [call EXCEPT ![c] = r]
      <4>1. born' # Append(born, now)
        BY <2>1, <1>1, AppendProperties DEF TypeOK
      <4> QED
        BY <1>6, <4>1, TypedRecords DEF Ask, Returns
    <3> QED
      BY <1>1, <1>6, <2>1, <3>1, TypeStep DEF Ask, tiers, clearVars
  <2>2. CASE born' = Append(born, now)
    <3>1. /\ born' \in Seq(Nat)
          /\ \A n \in Answers' : born'[n] <= now
          /\ Answers \subseteq Answers' /\ Len(born) + 1 \in Answers'
          /\ Len(born) + 1 \in Nat
      <4>1. \A n \in Answers : born[n] <= now
        BY DEF TypeOK
      <4>2. now <= now
        BY DEF TypeOK
      <4>3. /\ born' \in Seq(Nat) /\ Len(born) \in Nat
            /\ Answers' = Answers \cup {Len(born) + 1}
            /\ \A n \in Answers : born'[n] = born[n]
            /\ born'[Len(born) + 1] = now
        BY <2>2, NewAnswer
      <4> QED
        BY <4>1, <4>2, <4>3
    <3>2. born' # born
      BY <2>2, NewAnswer
    <3>3. call' = [call EXCEPT ![c] = [pc |-> "set2", at |-> now, answer |-> Len(born) + 1]]
      BY <1>6, <3>2 DEF Ask
    <3>4. [pc |-> "set2", at |-> now, answer |-> Len(born) + 1] \in CallState
      BY <1>1, <3>1 DEF CallState, Answered, TypeOK
    <3>5. /\ call' \in [Calls -> CallState]
          /\ \A d \in Calls :
               /\ call'[d].at <= now
               /\ IF call'[d].pc \in Answered THEN call'[d].answer \in Answers'
                                             ELSE call'[d].answer = 0
      BY <1>1, <3>1, <3>3, <3>4 DEF TypeOK, Answered
    <3> QED
      BY <1>6, <3>1, <3>5 DEF Ask, TypeOK, Filled, tiers, clearVars
  <2> QED
    BY <1>6, <2>1, <2>2 DEF Ask
<1>7. CASE SetL2(c)
  <2>1. call[c].answer \in Answers
    BY <1>1, <1>7 DEF SetL2, Answered
  <2>2. PICK r : Typed(r) /\ call' = [call EXCEPT ![c] = r]
    <3>1. CASE UNCHANGED call
      <4>1. Typed(call[c]) /\ call' = [call EXCEPT ![c] = call[c]]
        BY <3>1 DEF TypeOK, Typed
      <4> QED
        BY <4>1
    <3>2. CASE Returns(c) \/ Becomes(c, "set1", call[c].answer)
      BY <1>1, <2>1, <3>2, TypedRecords DEF Returns, Becomes, Answered
    <3> QED
      BY <1>7, <3>1, <3>2 DEF SetL2
  <2>3. /\ stored' \subseteq Answers
        /\ l2' \in EntryState
        /\ l2' = NoEntry \/ Filled(l2', L2TTL)
    BY <1>1, <1>7, <2>1, TypeRedisSet DEF SetL2, Filled
  <2> QED
    BY <1>1, <1>7, <2>2, <2>3, TypeStep DEF SetL2, clearVars
<1>8. CASE SetL1(c)
  <2>1. call[c].answer \in Answers
    BY <1>1, <1>8 DEF SetL1, Answered
  <2>2. PICK r : Typed(r) /\ call' = [call EXCEPT ![c] = r]
    BY <1>8, TypedRecords DEF SetL1, Returns
  <2>3. /\ l1' \in [Processes -> EntryState]
        /\ \A q \in Processes : l1'[q] = NoEntry \/ Filled(l1'[q], L1TTL)
    BY <1>2, <1>8, <2>1, TieredCacheAssumption DEF SetL1
  <2> QED
    BY <1>1, <1>8, <2>2, <2>3, TypeStep DEF SetL1, clearVars
<1>9. CASE Finish(c)
  <2>1. PICK r : Typed(r) /\ call' = [call EXCEPT ![c] = r]
    BY <1>9, TypedRecords DEF Finish, Returns
  <2> QED
    BY <1>1, <1>9, <2>1, TypeStep DEF Finish, tiers, clearVars
<1> QED
  BY <1>3, <1>4, <1>5, <1>6, <1>7, <1>8, <1>9 DEF CallStep

(* The steps of a clear preserve TypeOK.                                   *)
LEMMA TypeClearStep ==
  ASSUME TypeOK, NEW p \in Processes, ClearStep(p)
  PROVE  TypeOK'
<1>1. ASSUME born' = born PROVE Answers' = Answers
  BY <1>1 DEF Answers
<1>2. CASE ClearL1(p)
  <2>1. [pc |-> "keys", found |-> FALSE] \in ClearState
    BY DEF ClearState
  <2>2. clear' \in [Processes -> ClearState] /\ clears' \in Nat
    BY <1>2, <2>1 DEF ClearL1, ClearBegins, TypeOK
  <2>3. settled' \in [Processes -> SUBSET Answers]
    BY <1>2 DEF ClearL1, ClearBegins, TypeOK
  <2>4. /\ l1' \in [Processes -> EntryState]
        /\ \A q \in Processes : l1'[q] \in {l1[q], NoEntry}
    BY <1>2, Zero DEF ClearL1, TypeOK
  <2> QED
    BY <1>1, <1>2, <2>2, <2>3, <2>4 DEF ClearL1, ClearBegins, TypeOK, Filled
<1>3. CASE ClearKeys(p)
  <2>1. [pc |-> "del", found |-> Matched /\ Live(l2)] \in ClearState
    BY DEF ClearState, Matched, Live
  <2>2. clear' \in [Processes -> ClearState]
    BY <1>3, <2>1 DEF ClearKeys, TypeOK
  <2> QED
    BY <1>1, <1>3, <2>2 DEF ClearKeys, tiers, TypeOK, Filled
<1>4. ASSUME ClearEnds(p)
      PROVE  /\ clear' \in [Processes -> ClearState]
             /\ settled' \in [Processes -> SUBSET Answers]
  BY <1>4, Zero DEF ClearEnds, TypeOK
<1>5. CASE ClearDel(p)
  <2>1. l2' \in {l2, NoEntry} /\ forgotten' \subseteq Answers
    BY <1>5 DEF ClearDel, TypeOK
  <2> QED
    BY <1>1, <1>4, <1>5, <2>1, Zero DEF ClearDel, TypeOK, Filled
<1>6. CASE ClearFails(p)
  <2>1. l2' \in {l2, NoEntry}
    BY <1>6 DEF ClearFails
  <2> QED
    BY <1>1, <1>4, <1>6, <2>1, Zero DEF ClearFails, TypeOK, Filled
<1> QED
  BY <1>2, <1>3, <1>5, <1>6 DEF ClearStep

(* The steps of the environment preserve TypeOK.                           *)
LEMMA TypeEnvironment ==
  ASSUME TypeOK
  PROVE  /\ \A p \in Processes : EvictL1(p) \/ Restart(p) => TypeOK'
         /\ EvictL2 \/ Tick => TypeOK'
<1>1. ASSUME born' = born PROVE Answers' = Answers
  BY <1>1 DEF Answers
<1>2. ASSUME NEW p \in Processes, l1' = [l1 EXCEPT ![p] = NoEntry]
      PROVE  /\ l1' \in [Processes -> EntryState]
             /\ \A q \in Processes : l1'[q] \in {l1[q], NoEntry}
  BY <1>2, Zero DEF TypeOK
<1>3. ASSUME NEW p \in Processes, EvictL1(p) PROVE TypeOK'
  BY <1>1, <1>2, <1>3 DEF EvictL1, clearVars, TypeOK, Filled
<1>4. ASSUME NEW p \in Processes, Restart(p) PROVE TypeOK'
  <2>1. \A c \in Calls : call'[c] \in {CallIdle, call[c]}
    BY <1>4 DEF Restart
  <2>2. /\ Typed(CallIdle)
        /\ \A c \in Calls : Typed(call[c])
    BY TypedRecords DEF TypeOK, Typed
  <2>3. call' \in [Calls -> CallState]
    BY <1>4, <2>1, <2>2 DEF Restart, Typed
  <2>4. \A c \in Calls :
          /\ call'[c].at <= now
          /\ IF call'[c].pc \in Answered THEN call'[c].answer \in Answers
                                        ELSE call'[c].answer = 0
    BY <2>1, <2>2 DEF Typed
  <2>5. /\ clear' \in [Processes -> ClearState]
        /\ settled' \in [Processes -> SUBSET Answers]
    BY <1>4, Zero DEF Restart, ClearEnds, TypeOK
  <2> QED
    BY <1>1, <1>2, <1>4, <2>3, <2>4, <2>5 DEF Restart, TypeOK, Filled
<1>5. CASE EvictL2
  BY <1>1, <1>5, Zero DEF EvictL2, clearVars, TypeOK, Filled
<1>6. CASE Tick
  <2>1. /\ now \in Nat /\ now' = now + 1 /\ l2' \in {l2, NoEntry} /\ l2' \in EntryState
        /\ l1 \in [Processes -> EntryState] /\ l2 \in EntryState
        /\ born \in Seq(Nat) /\ call \in [Calls -> CallState]
        /\ UNCHANGED <<l1, call, clear, clears, settled, forgotten, born, stored>>
    BY <1>6, Zero DEF Tick, TypeOK, clearVars
  <2>2. \A e \in EntryState, ttl \in Nat :
          Filled(e, ttl) => e.answer \in Answers' /\ e.exp <= now' + ttl
    BY <1>1, <2>1 DEF Filled, EntryState
  <2>3. \A c \in Calls : call'[c].at <= now'
    BY <2>1 DEF TypeOK, CallState
  <2>4. \A n \in Answers' : born'[n] <= now'
    BY <1>1, <2>1, ElementOfSeq DEF TypeOK, Answers
  <2>5. now' \in Nat /\ born' \in Seq(Nat)
    BY <2>1
  <2>6. /\ l2' = NoEntry \/ (l2' = l2 /\ Filled(l2, L2TTL))
        /\ \A p \in Processes : l1[p] = NoEntry \/ Filled(l1[p], L1TTL)
        /\ \A p \in Processes : l1[p] \in EntryState
    BY <2>1 DEF TypeOK
  <2>7. l2' = NoEntry \/ (l2'.answer \in Answers' /\ l2'.exp <= now' + L2TTL)
    BY <2>1, <2>2, <2>6, TieredCacheAssumption
  <2>8. \A p \in Processes :
          l1'[p] = NoEntry \/ (l1'[p].answer \in Answers' /\ l1'[p].exp <= now' + L1TTL)
    BY <2>1, <2>2, <2>6, TieredCacheAssumption
  <2> QED
    BY <1>1, <2>1, <2>3, <2>4, <2>5, <2>7, <2>8 DEF TypeOK, Filled
<1> QED
  BY <1>3, <1>4, <1>5, <1>6

(* Every step preserves TypeOK.                                            *)
LEMMA TypeNext == TypeOK /\ [Next]_vars => TypeOK'
<1> SUFFICES ASSUME TypeOK, [Next]_vars PROVE TypeOK'
  OBVIOUS
<1>1. CASE UNCHANGED vars
  <2>1. Answers' = Answers
    BY <1>1 DEF vars, Answers
  <2> QED
    BY <1>1, <2>1 DEF vars, TypeOK, Filled
<1>2. CASE Next
  BY <1>2, TypeCallStep, TypeClearStep, TypeEnvironment DEF Next
<1> QED
  BY <1>1, <1>2

(* The variables keep their types, and no entry of either tier lives       *)
(* longer than the tier allows, whoever wrote it and whenever (lru.go:62). *)
THEOREM TypeCorrect == Spec => []TypeOK
BY TypeInit, TypeNext, PTL DEF Spec

-----------------------------------------------------------------------------
(* What steps do to the cache.                                             *)

(* Clears and the environment only remove: entries and calls.              *)
Removes ==
    /\ \A p \in Processes : l1'[p] \in {l1[p], NoEntry}
    /\ l2' \in {l2, NoEntry}
    /\ \A c \in Calls : call'[c] \in {call[c], CallIdle}
    /\ UNCHANGED <<born, stored>>

LEMMA OnlyRemove ==
  ASSUME TypeOK
  PROVE  /\ \A p \in Processes :
              ClearStep(p) \/ EvictL1(p) \/ Restart(p) => Removes /\ now' = now
         /\ EvictL2 => Removes /\ now' = now
         /\ Tick => Removes
         /\ UNCHANGED vars => Removes /\ now' = now
<1>1. ASSUME NEW p \in Processes, ClearStep(p) PROVE Removes /\ now' = now
  <2>1. CASE ClearL1(p)
    BY <2>1 DEF ClearL1, ClearBegins, Removes, TypeOK
  <2>2. CASE ClearKeys(p)
    BY <2>2 DEF ClearKeys, tiers, Removes
  <2>3. CASE ClearDel(p)
    BY <2>3 DEF ClearDel, Removes
  <2>4. CASE ClearFails(p)
    BY <2>4 DEF ClearFails, Removes
  <2> QED
    BY <1>1, <2>1, <2>2, <2>3, <2>4 DEF ClearStep
<1>2. ASSUME NEW p \in Processes, EvictL1(p) PROVE Removes /\ now' = now
  BY <1>2 DEF EvictL1, clearVars, Removes, TypeOK
<1>3. ASSUME NEW p \in Processes, Restart(p) PROVE Removes /\ now' = now
  BY <1>3 DEF Restart, Removes, TypeOK
<1>4. EvictL2 => Removes /\ now' = now
  BY DEF EvictL2, clearVars, Removes
<1>5. Tick => Removes
  BY DEF Tick, clearVars, Removes
<1>6. UNCHANGED vars => Removes /\ now' = now
  BY DEF vars, Removes
<1> QED
  BY <1>1, <1>2, <1>3, <1>4, <1>5, <1>6

(* Besides, the step of a call touches its own record and its process's    *)
(* first tier, and nothing leaves stored.                                  *)
Own(c) ==
    /\ now' = now
    /\ \A d \in Calls \ {c} : call'[d] = call[d]
    /\ \A p \in Processes \ {Process(c)} : l1'[p] = l1[p]
    /\ stored \subseteq stored'

LEMMA OnlyOwn ==
  ASSUME TypeOK, NEW c \in Calls, CallStep(c)
  PROVE  Own(c)
<1>0. /\ \A r : call' = [call EXCEPT ![c] = r] => \A d \in Calls \ {c} : call'[d] = call[d]
      /\ \A e : l1' = [l1 EXCEPT ![Process(c)] = e] =>
                 \A p \in Processes \ {Process(c)} : l1'[p] = l1[p]
  BY DEF TypeOK
<1>1. CASE Get(c)
  BY <1>0, <1>1 DEF Get, Served, Own, clearVars
<1>2. CASE GetL2(c)
  BY <1>0, <1>2 DEF GetL2, Becomes, Own, tiers
<1>3. CASE Backfill(c)
  BY <1>0, <1>3 DEF Backfill, L1Set, Served, Own, clearVars
<1>4. CASE Ask(c)
  BY <1>0, <1>4 DEF Ask, Returns, Own, tiers, clearVars
<1>5. CASE SetL2(c)
  BY <1>0, <1>5 DEF SetL2, RedisSet, Becomes, Returns, Own, clearVars
<1>6. CASE SetL1(c)
  BY <1>0, <1>6 DEF SetL1, L1Set, Returns, Own, clearVars
<1>7. CASE Finish(c)
  BY <1>0, <1>7 DEF Finish, Returns, Own, tiers, clearVars
<1> QED
  BY <1>1, <1>2, <1>3, <1>4, <1>5, <1>6, <1>7 DEF CallStep

-----------------------------------------------------------------------------
(* RedisFirst.                                                             *)

LEMMA StoredInit == Init => StoredInv
BY DEF Init, StoredInv, RedisFirst, CallIdle

(* The steps of a call: what it copies was in Redis, and what it writes to *)
(* its first tier was confirmed by Redis.                                  *)
LEMMA StoredCallStep ==
  ASSUME TypeOK, StoredInv, NEW c \in Calls, CallStep(c)
  PROVE  StoredInv'
<1> DEFINE p == Process(c)
<1>0. p \in Processes /\ l1 \in [Processes -> EntryState] /\ call \in [Calls -> CallState]
  BY DEF Calls, Process, TypeOK
<1>1. /\ stored \subseteq stored'
      /\ \A d \in Calls \ {c} : call'[d] = call[d]
      /\ \A q \in Processes \ {p} : l1'[q] = l1[q]
  BY OnlyOwn DEF Own
<1>2. SUFFICES /\ l1'[p] # NoEntry => l1'[p].answer \in stored'
               /\ l2' # NoEntry => l2'.answer \in stored'
               /\ call'[c].pc \in {"backfill", "set1"} => call'[c].answer \in stored'
  BY <1>1 DEF StoredInv, RedisFirst
<1>3. /\ l1[p] # NoEntry => l1[p].answer \in stored
      /\ l2 # NoEntry => l2.answer \in stored
      /\ call[c].pc \in {"backfill", "set1"} => call[c].answer \in stored
  BY <1>0 DEF StoredInv, RedisFirst
<1>4. CASE Get(c)
  BY <1>0, <1>1, <1>3, <1>4 DEF Get, GetKept, Served, clearVars
<1>5. CASE GetL2(c)
  BY <1>0, <1>1, <1>3, <1>5 DEF GetL2, Becomes, Live, tiers
<1>6. CASE Backfill(c)
  BY <1>0, <1>1, <1>3, <1>6 DEF Backfill, L1Set, Entry, Served, clearVars
<1>7. CASE Ask(c)
  BY <1>0, <1>1, <1>3, <1>7 DEF Ask, Returns, CallIdle, tiers, clearVars
<1>8. CASE SetL2(c)
  <2>1. CASE RedisSet(c)
    <3>1. l2'.answer \in stored' /\ call[c].answer \in stored'
      BY <2>1 DEF RedisSet, Entry
    <3>2. l1' = l1 /\ call'[c].answer \in {call[c].answer, 0}
      BY <1>0, <1>8 DEF SetL2, Becomes, Returns, CallIdle
    <3>3. call'[c].answer = call[c].answer \/ call'[c].pc = "idle"
      BY <1>0, <1>8 DEF SetL2, Becomes, Returns, CallIdle
    <3> QED
      BY <1>1, <1>3, <3>1, <3>2, <3>3
  <2>2. CASE ~RedisSet(c)
    BY <1>0, <1>1, <1>3, <1>8, <2>2 DEF SetL2, Returns, CallIdle
  <2> QED
    BY <2>1, <2>2
<1>9. CASE SetL1(c)
  BY <1>0, <1>1, <1>3, <1>9 DEF SetL1, L1Set, Entry, Returns, CallIdle, clearVars
<1>10. CASE Finish(c)
  BY <1>0, <1>1, <1>3, <1>10 DEF Finish, Returns, CallIdle, tiers, clearVars
<1> QED
  BY <1>4, <1>5, <1>6, <1>7, <1>8, <1>9, <1>10 DEF CallStep

LEMMA StoredNext == TypeOK /\ StoredInv /\ [Next]_vars => StoredInv'
<1> SUFFICES ASSUME TypeOK, StoredInv, [Next]_vars PROVE StoredInv'
  OBVIOUS
<1>1. ASSUME Removes PROVE StoredInv'
  BY <1>1 DEF Removes, StoredInv, RedisFirst, CallIdle
<1>2. ASSUME NEW c \in Calls, CallStep(c) PROVE StoredInv'
  BY <1>2, StoredCallStep
<1> QED
  BY <1>1, <1>2, OnlyRemove DEF Next

(* A first tier never holds what was not in Redis (tiered.go:43).          *)
THEOREM RedisFirstHolds == Spec => []RedisFirst
<1>1. StoredInv => RedisFirst
  BY DEF StoredInv
<1> QED
  BY <1>1, TypeCorrect, StoredInit, StoredNext, PTL DEF Spec

-----------------------------------------------------------------------------
(* AnswersFresh.                                                           *)

(* What FreshInv says of the record of a call and of an entry, for entries *)
(* whose age is bounded by max.                                            *)
FreshCall(r) ==
    /\ r.pc \notin {"idle", "served"} => now <= r.at + CallTime
    /\ r.pc \in {"set2", "set1"} => r.at = born[r.answer]
    /\ r.pc = "backfill" => r.at <= born[r.answer] + L2TTL + CallTime
    /\ r.pc = "served" => r.at - born[r.answer] <= MaxAge

FreshEntry(e, max) == e # NoEntry => e.exp <= born[e.answer] + max

LEMMA FreshParts ==
  FreshInv <=> /\ \A c \in Calls : FreshCall(call[c])
               /\ FreshEntry(l2, L2TTL + CallTime)
               /\ \A p \in Processes : FreshEntry(l1[p], MaxAge)
  BY DEF FreshInv, OnTime, Busy, FreshCalls, FreshTiers, AnswersFresh, FreshCall, FreshEntry

LEMMA FreshInit == Init => FreshInv
<1> SUFFICES ASSUME Init PROVE FreshInv
  OBVIOUS
<1>1. /\ \A c \in Calls : FreshCall(call[c])
      /\ FreshEntry(l2, L2TTL + CallTime)
      /\ \A p \in Processes : FreshEntry(l1[p], MaxAge)
  BY DEF Init, CallIdle, FreshCall, FreshEntry
<1> QED
  BY <1>1, FreshParts

(* The step of a call leaves the dates of earlier answers.                 *)
LEMMA Dates ==
  ASSUME TypeOK, NEW c \in Calls, CallStep(c)
  PROVE  \A n \in Answers : born'[n] = born[n]
<1>1. CASE Ask(c)
  BY <1>1, NewAnswer DEF Ask
<1>2. CASE ~Ask(c)
  BY <1>2 DEF CallStep, Get, GetL2, Backfill, SetL2, SetL1, Finish
<1> QED
  BY <1>1, <1>2

(* The numbers the argument adds up.                                       *)
LEMMA Numbers ==
  ASSUME TypeOK
  PROVE  /\ now \in Nat /\ L1TTL \in Nat /\ L2TTL \in Nat /\ CallTime \in Nat
         /\ MaxAge = L2TTL + L1TTL + 2 * CallTime
         /\ \A n \in Answers : born[n] \in Nat
         /\ \A ttl \in Nat : Effective(ttl) \in Nat /\ Effective(ttl) <= L1TTL
<1>1. \A n \in Answers : born[n] \in Nat
  BY ElementOfSeq DEF TypeOK, Answers
<1>2. \A ttl \in Nat : Effective(ttl) \in Nat /\ Effective(ttl) <= L1TTL
  BY TieredCacheAssumption DEF Effective
<1> QED
  BY <1>1, <1>2, TieredCacheAssumption DEF TypeOK, MaxAge

(* The steps of a call: every copy adds at most the time of one call.      *)
LEMMA FreshCallStep ==
  ASSUME TypeOK, FreshInv, NEW c \in Calls, CallStep(c)
  PROVE  FreshInv'
<1> DEFINE p == Process(c)
           r == call[c]
           e == l1[p]
<1>0. /\ p \in Processes /\ l1 \in [Processes -> EntryState] /\ l2 \in EntryState
      /\ call \in [Calls -> CallState]
      /\ r \in CallState /\ e \in EntryState
      /\ r.at \in Nat /\ r.at <= now /\ e.exp \in Nat /\ l2.exp \in Nat
  BY DEF Calls, Process, TypeOK, CallState, EntryState
<1>1. /\ now' = now
      /\ \A d \in Calls \ {c} : call'[d] = call[d]
      /\ \A q \in Processes \ {p} : l1'[q] = l1[q]
      /\ \A n \in Answers : born'[n] = born[n]
  BY OnlyOwn, Dates DEF Own
<1>2. /\ \A d \in Calls : FreshCall(call[d])
      /\ FreshEntry(l2, L2TTL + CallTime)
      /\ \A q \in Processes : FreshEntry(l1[q], MaxAge)
  BY FreshParts
<1>3. /\ \A d \in Calls : call[d].pc \in Answered => call[d].answer \in Answers
      /\ l2 # NoEntry => l2.answer \in Answers
      /\ \A q \in Processes : l1[q] # NoEntry => l1[q].answer \in Answers
  BY DEF TypeOK, Filled
<1>4. /\ \A d \in Calls : call'[d] = call[d] => FreshCall(call[d])'
      /\ l2' = l2 => FreshEntry(l2, L2TTL + CallTime)'
      /\ \A q \in Processes : l1'[q] = l1[q] => FreshEntry(l1[q], MaxAge)'
  BY <1>1, <1>2, <1>3 DEF FreshCall, FreshEntry, Answered, MaxAge
<1>5. SUFFICES FreshCall(call[c])' /\ FreshEntry(l2, L2TTL + CallTime)' /\ FreshEntry(l1[p], MaxAge)'
  <2>1. /\ \A d \in Calls : FreshCall(call[d])'
        /\ FreshEntry(l2, L2TTL + CallTime)'
        /\ \A q \in Processes : FreshEntry(l1[q], MaxAge)'
    BY <1>1, <1>4, <1>5
  <2> QED
    BY <2>1 DEF FreshInv, OnTime, Busy, FreshCalls, FreshTiers, AnswersFresh,
           FreshCall, FreshEntry
<1>6. call'[c] = CallIdle => FreshCall(call[c])'
  BY DEF CallIdle, FreshCall
<1>7. CASE Get(c)
  <2>1. l2' = l2 /\ l1'[p] \in {e, NoEntry}
    BY <1>0, <1>7 DEF Get, GetKept, clearVars
  <2>2. FreshEntry(l1[p], MaxAge)'
    BY <1>0, <1>4, <2>1 DEF FreshEntry
  <2>3. CASE Live(e)
    <3>1. call'[c] = [pc |-> "served", at |-> now, answer |-> e.answer]
      BY <1>0, <1>7, <2>3 DEF Get, Served
    <3>2. e # NoEntry /\ now <= e.exp /\ e.exp <= born[e.answer] + MaxAge
      BY <1>0, <1>2, <2>3 DEF Live, FreshEntry
    <3>3. now - born[e.answer] <= MaxAge /\ born'[e.answer] = born[e.answer]
      BY <1>0, <1>1, <1>3, <3>2, Numbers
    <3> QED
      BY <1>4, <2>1, <2>2, <3>1, <3>3 DEF FreshCall, MaxAge
  <2>4. CASE ~Live(e)
    <3>1. call'[c] = [pc |-> "get2", at |-> now, answer |-> 0]
      BY <1>0, <1>7, <2>4 DEF Get
    <3>2. now <= now + CallTime
      BY Numbers
    <3> QED
      BY <1>1, <1>4, <2>1, <2>2, <3>1, <3>2 DEF FreshCall
  <2> QED
    BY <2>3, <2>4
<1>8. CASE GetL2(c)
  <2>1. /\ l2' = l2 /\ l1' = l1
        /\ r.pc = "get2" /\ now <= r.at + CallTime
    BY <1>2, <1>8 DEF GetL2, tiers, FreshCall
  <2>2. CASE Becomes(c, "ask", 0)
    <3>1. call'[c] = [pc |-> "ask", at |-> r.at, answer |-> 0]
      BY <1>0, <2>2 DEF Becomes
    <3> QED
      BY <1>0, <1>1, <1>4, <2>1, <3>1 DEF FreshCall
  <2>3. CASE Live(l2) /\ Becomes(c, "backfill", l2.answer)
    <3>1. call'[c] = [pc |-> "backfill", at |-> r.at, answer |-> l2.answer]
      BY <1>0, <2>3 DEF Becomes
    <3>2. l2 # NoEntry /\ now <= l2.exp /\ l2.exp <= born[l2.answer] + (L2TTL + CallTime)
      BY <1>2, <2>3 DEF Live, FreshEntry
    <3>3. /\ r.at <= born[l2.answer] + L2TTL + CallTime
          /\ born'[l2.answer] = born[l2.answer]
      BY <1>0, <1>1, <1>3, <3>2, Numbers
    <3> QED
      BY <1>0, <1>1, <1>4, <2>1, <3>1, <3>3 DEF FreshCall
  <2> QED
    BY <1>8, <2>2, <2>3 DEF GetL2
<1>9. CASE Backfill(c)
  <2>1. /\ l2' = l2 /\ r.pc = "backfill" /\ r.answer \in Answers
        /\ now <= r.at + CallTime /\ r.at <= born[r.answer] + L2TTL + CallTime
        /\ born'[r.answer] = born[r.answer]
    BY <1>1, <1>2, <1>3, <1>9 DEF Backfill, clearVars, FreshCall, Answered
  <2>2. /\ call'[c] = [pc |-> "served", at |-> now, answer |-> r.answer]
        /\ l1'[p] = [answer |-> r.answer, exp |-> now + Effective(L1TTL)]
    BY <1>0, <1>9 DEF Backfill, Served, L1Set, Entry
  <2>3. /\ now - born[r.answer] <= MaxAge
        /\ now + Effective(L1TTL) <= born[r.answer] + MaxAge
    BY <1>0, <2>1, Numbers
  <2> QED
    BY <1>4, <2>1, <2>2, <2>3 DEF FreshCall, FreshEntry, MaxAge
<1>10. CASE Ask(c)
  <2>1. l2' = l2 /\ l1' = l1
    BY <1>10 DEF Ask, tiers
  <2>2. CASE Returns(c)
    BY <1>0, <1>4, <1>6, <2>1, <2>2 DEF Returns
  <2>3. CASE /\ born' = Append(born, now)
             /\ call' = [call EXCEPT ![c] = [pc |-> "set2", at |-> now, answer |-> Len(born) + 1]]
    <3>1. born'[Len(born) + 1] = now /\ now <= now + CallTime
      BY <2>3, NewAnswer, Numbers
    <3>2. call'[c] = [pc |-> "set2", at |-> now, answer |-> Len(born) + 1]
      BY <1>0, <2>3
    <3>3. FreshCall(call[c])'
      BY <1>1, <3>1, <3>2 DEF FreshCall
    <3> QED
      BY <1>0, <1>4, <2>1, <3>3
  <2> QED
    BY <1>10, <2>2, <2>3 DEF Ask
<1>11. CASE SetL2(c)
  <2>1. /\ l1' = l1 /\ r.pc = "set2" /\ r.answer \in Answers
        /\ now <= r.at + CallTime /\ r.at = born[r.answer]
        /\ born'[r.answer] = born[r.answer]
    BY <1>1, <1>2, <1>3, <1>11 DEF SetL2, FreshCall, Answered
  <2>2. FreshEntry(l2, L2TTL + CallTime)'
    <3>1. CASE RedisSet(c)
      <4>1. l2' = [answer |-> r.answer, exp |-> now + L2TTL]
        BY <3>1 DEF RedisSet, Entry
      <4>2. now + L2TTL <= born[r.answer] + (L2TTL + CallTime)
        BY <1>0, <2>1, Numbers
      <4> QED
        BY <2>1, <4>1, <4>2 DEF FreshEntry
    <3>2. CASE ~RedisSet(c)
      BY <1>4, <1>11, <3>2 DEF SetL2
    <3> QED
      BY <3>1, <3>2
  <2>3. CASE Becomes(c, "set1", r.answer)
    <3>1. call'[c] = [pc |-> "set1", at |-> r.at, answer |-> r.answer]
      BY <1>0, <2>3 DEF Becomes
    <3>2. FreshCall(call[c])'
      BY <1>1, <2>1, <3>1 DEF FreshCall
    <3> QED
      BY <1>0, <1>4, <2>1, <2>2, <3>2
  <2>4. CASE Returns(c) \/ UNCHANGED call
    BY <1>0, <1>4, <1>6, <2>1, <2>2, <2>4 DEF Returns
  <2> QED
    BY <1>11, <2>3, <2>4 DEF SetL2
<1>12. CASE SetL1(c)
  <2>1. /\ l2' = l2 /\ r.pc = "set1" /\ r.answer \in Answers
        /\ now <= r.at + CallTime /\ r.at = born[r.answer]
        /\ born'[r.answer] = born[r.answer]
    BY <1>1, <1>2, <1>3, <1>12 DEF SetL1, FreshCall, Answered
  <2>2. /\ call'[c] = CallIdle
        /\ l1'[p] = [answer |-> r.answer, exp |-> now + Effective(L2TTL)]
    BY <1>0, <1>12 DEF SetL1, Returns, L1Set, Entry
  <2>3. now + Effective(L2TTL) <= born[r.answer] + MaxAge
    BY <1>0, <2>1, Numbers
  <2> QED
    BY <1>4, <1>6, <2>1, <2>2, <2>3 DEF FreshEntry, MaxAge
<1>13. CASE Finish(c)
  BY <1>0, <1>4, <1>6, <1>13 DEF Finish, Returns, tiers
<1> QED
  BY <1>7, <1>8, <1>9, <1>10, <1>11, <1>12, <1>13 DEF CallStep

(* Time passes only while every call in progress has time left.            *)
LEMMA FreshNext == TypeOK /\ FreshInv /\ [Next]_vars => FreshInv'
<1> SUFFICES ASSUME TypeOK, FreshInv, [Next]_vars PROVE FreshInv'
  OBVIOUS
<1>1. /\ \A c \in Calls : FreshCall(call[c])
      /\ FreshEntry(l2, L2TTL + CallTime)
      /\ \A p \in Processes : FreshEntry(l1[p], MaxAge)
  BY FreshParts
<1>2. ASSUME Removes, \A c \in Busy : now' <= call[c].at + CallTime PROVE FreshInv'
  <2>1. ASSUME NEW c \in Calls PROVE FreshCall(call[c])'
    <3>1. CASE call'[c] = CallIdle
      BY <3>1 DEF CallIdle, FreshCall
    <3>2. CASE call'[c] = call[c]
      BY <1>1, <1>2, <3>2 DEF FreshCall, Removes, Busy, MaxAge
    <3> QED
      BY <1>2, <3>1, <3>2 DEF Removes
  <2>2. /\ FreshEntry(l2, L2TTL + CallTime)'
        /\ \A p \in Processes : FreshEntry(l1[p], MaxAge)'
    BY <1>1, <1>2 DEF Removes, FreshEntry, MaxAge
  <2> QED
    BY <2>1, <2>2 DEF FreshInv, OnTime, Busy, FreshCalls, FreshTiers, AnswersFresh,
           FreshCall, FreshEntry
<1>3. \A c \in Busy : now <= call[c].at + CallTime
  BY DEF FreshInv, OnTime
<1>4. CASE Tick
  <2>1. \A c \in Busy : now' <= call[c].at + CallTime
    <3>1. \A c \in Busy : call[c].at \in Nat /\ now < call[c].at + CallTime
      BY <1>4 DEF Tick, Busy, TypeOK, CallState
    <3>2. now' = now + 1
      BY <1>4 DEF Tick
    <3> QED
      BY <3>1, <3>2, Numbers
  <2> QED
    BY <1>2, <1>4, <2>1, OnlyRemove
<1>5. CASE UNCHANGED vars
  BY <1>2, <1>3, <1>5, OnlyRemove
<1>6. CASE EvictL2
  BY <1>2, <1>3, <1>6, OnlyRemove
<1>7. ASSUME NEW p \in Processes, ClearStep(p) \/ EvictL1(p) \/ Restart(p) PROVE FreshInv'
  BY <1>2, <1>3, <1>7, OnlyRemove
<1>8. ASSUME NEW c \in Calls, CallStep(c) PROVE FreshInv'
  BY <1>8, FreshCallStep
<1> QED
  BY <1>4, <1>5, <1>6, <1>7, <1>8 DEF Next

(* No request is served from the cache what LanguageTool said longer ago   *)
(* than both times to live and two calls.                                  *)
THEOREM AnswersFreshHolds == Spec => []AnswersFresh
<1>1. FreshInv => AnswersFresh
  BY DEF FreshInv
<1> QED
  BY <1>1, TypeCorrect, FreshInit, FreshNext, PTL DEF Spec

-----------------------------------------------------------------------------
(* ForgottenStay, for the keys whose prefix is cleared.                    *)

(* No call carries an answer of S, and no first tier holds one.            *)
Free(S) ==
    /\ \A c \in Calls : call[c].pc # "served" => call[c].answer \notin S
    /\ \A p \in Processes : l1[p].answer \notin S

LEMMA ForgottenParts ==
  ForgottenInv <=>
    /\ Free(forgotten) /\ l2.answer \notin forgotten
    /\ \A p \in Processes :
         /\ clear[p].pc = "idle" => settled[p] = {}
         /\ Free(settled[p])
         /\ clear[p].pc = "del" /\ ~clear[p].found => l2.answer \notin settled[p]
    /\ Prompt
  BY DEF ForgottenInv, ForgottenGone, SettledHeld, Free

LEMMA ForgottenInit == Init => ForgottenInv
  BY DEF Init, ForgottenInv, ForgottenGone, SettledHeld, Prompt, ClearIdle

(* No entry and no call in progress carry the number 0, which no set of    *)
(* answers has.                                                            *)
LEMMA NotZero ==
  ASSUME TypeOK
  PROVE  /\ 0 \notin forgotten /\ \A p \in Processes : 0 \notin settled[p]
         /\ NoEntry.answer = 0 /\ CallIdle.answer = 0
  BY Zero DEF TypeOK, CallIdle

(* The step of a call puts nothing of a set of answers anywhere, if it     *)
(* reads none of it from Redis.                                            *)
LEMMA FreeCallStep ==
  ASSUME TypeOK, NEW c \in Calls, CallStep(c), NEW S \in SUBSET Answers, Free(S),
         call'[c].pc = "backfill" => call'[c].answer \notin S
  PROVE  /\ Free(S)'
         /\ l2' = l2 \/ (l2'.answer \notin S /\ now' <= l2'.exp)
<1> DEFINE p == Process(c)
<1>0. /\ p \in Processes /\ l1 \in [Processes -> EntryState] /\ call \in [Calls -> CallState]
      /\ 0 \notin S /\ NoEntry.answer = 0 /\ CallIdle.answer = 0
  BY Zero DEF Calls, Process, TypeOK, CallIdle
<1>1. /\ now' = now
      /\ \A d \in Calls \ {c} : call'[d] = call[d]
      /\ \A q \in Processes \ {p} : l1'[q] = l1[q]
  BY OnlyOwn DEF Own
<1>2. SUFFICES /\ call'[c].pc # "served" => call'[c].answer \notin S
               /\ l1'[p].answer \notin S
               /\ l2' = l2 \/ (l2'.answer \notin S /\ now' <= l2'.exp)
  BY <1>1, <1>2 DEF Free
<1>3. /\ call[c].pc # "served" => call[c].answer \notin S
      /\ l1[p].answer \notin S
  BY <1>0 DEF Free
<1>4. CASE Get(c)
  BY <1>0, <1>3, <1>4 DEF Get, GetKept, Served, clearVars
<1>5. CASE GetL2(c)
  BY <1>0, <1>3, <1>5 DEF GetL2, Becomes, tiers
<1>6. CASE Backfill(c)
  BY <1>0, <1>3, <1>6 DEF Backfill, L1Set, Entry, Served, clearVars
<1>7. CASE Ask(c)
  <2>1. Len(born) + 1 \notin S
    BY LenProperties DEF TypeOK, Answers
  <2> QED
    BY <1>0, <1>3, <1>7, <2>1 DEF Ask, Returns, tiers, clearVars
<1>8. CASE SetL2(c)
  <2>1. call[c].answer \notin S /\ l1' = l1
    BY <1>3, <1>8 DEF SetL2
  <2>2. call'[c].answer \in {call[c].answer, 0}
    BY <1>0, <1>8 DEF SetL2, Becomes, Returns
  <2>3. now <= now + L2TTL
    BY Numbers
  <2>4. l2' = l2 \/ (l2'.answer = call[c].answer /\ l2'.exp = now + L2TTL)
    BY <1>8 DEF SetL2, RedisSet, Entry
  <2> QED
    BY <1>0, <1>1, <1>3, <2>1, <2>2, <2>3, <2>4
<1>9. CASE SetL1(c)
  BY <1>0, <1>3, <1>9 DEF SetL1, L1Set, Entry, Returns, clearVars
<1>10. CASE Finish(c)
  BY <1>0, <1>3, <1>10 DEF Finish, Returns, tiers, clearVars
<1> QED
  BY <1>4, <1>5, <1>6, <1>7, <1>8, <1>9, <1>10 DEF CallStep

(* A call that reads an answer from Redis takes it out of settled, and     *)
(* forgotten answers are not in Redis.                                     *)
LEMMA ForgottenCallStep ==
  ASSUME TypeOK, ForgottenInv, NEW c \in Calls, CallStep(c)
  PROVE  ForgottenInv'
<1>1. /\ Free(forgotten) /\ l2.answer \notin forgotten
      /\ \A p \in Processes :
           /\ clear[p].pc = "idle" => settled[p] = {}
           /\ Free(settled[p])
           /\ clear[p].pc = "del" /\ ~clear[p].found => l2.answer \notin settled[p]
      /\ Prompt
  BY ForgottenParts
<1>2. /\ forgotten \in SUBSET Answers
      /\ \A p \in Processes : settled[p] \in SUBSET Answers
      /\ settled \in [Processes -> SUBSET Answers]
  BY DEF TypeOK
<1>3. /\ forgotten' = forgotten /\ clear' = clear
      /\ \A p \in Processes : settled'[p] \subseteq settled[p]
  <2>1. CASE GetL2(c)
    BY <1>2, <2>1 DEF GetL2
  <2>2. CASE ~GetL2(c)
    BY <2>2 DEF CallStep, Get, Backfill, Ask, SetL2, SetL1, Finish, clearVars, tiers
  <2> QED
    BY <2>1, <2>2
<1>4. call'[c].pc = "backfill" =>
        /\ call'[c].answer \notin forgotten
        /\ \A p \in Processes : call'[c].answer \notin settled'[p]
  <2>0. call \in [Calls -> CallState]
    BY DEF TypeOK
  <2>1. CASE GetL2(c)
    BY <1>1, <1>2, <2>0, <2>1 DEF GetL2, Becomes
  <2>2. CASE ~GetL2(c)
    <3>1. CASE SetL2(c)
      BY <2>0, <3>1 DEF SetL2, Becomes, Returns, CallIdle
    <3>2. CASE ~SetL2(c)
      BY <2>0, <2>2, <3>2 DEF CallStep, Get, Backfill, Ask, SetL1, Finish,
                              Served, Returns, CallIdle
    <3> QED
      BY <3>1, <3>2
  <2> QED
    BY <2>1, <2>2
<1>5. Free(forgotten)' /\ l2'.answer \notin forgotten'
  <2>1. /\ \A d \in Calls : call'[d].pc # "served" => call'[d].answer \notin forgotten
        /\ \A p \in Processes : l1'[p].answer \notin forgotten
        /\ l2' = l2 \/ l2'.answer \notin forgotten
    BY <1>1, <1>2, <1>4, FreeCallStep DEF Free
  <2> QED
    BY <1>1, <1>3, <2>1 DEF Free
<1>6. ASSUME NEW p \in Processes
      PROVE  /\ Free(settled[p])'
             /\ clear'[p].pc = "del" /\ ~clear'[p].found => l2'.answer \notin settled'[p]
  <2>1. settled'[p] \in SUBSET Answers /\ Free(settled'[p])
    BY <1>1, <1>2, <1>3 DEF Free
  <2>2. /\ \A d \in Calls : call'[d].pc # "served" => call'[d].answer \notin settled'[p]
        /\ \A q \in Processes : l1'[q].answer \notin settled'[p]
        /\ l2' = l2 \/ l2'.answer \notin settled'[p]
    BY <1>4, <2>1, FreeCallStep DEF Free
  <2> QED
    BY <1>1, <1>3, <2>2 DEF Free
<1>7. Prompt'
  <2>1. Free({})
    BY DEF Free
  <2>2. l2' = l2 \/ now' <= l2'.exp
    BY <2>1, FreeCallStep
  <2>3. now' = now
    BY OnlyOwn DEF Own
  <2> QED
    BY <1>1, <2>2, <2>3 DEF Prompt
<1> QED
  BY <1>1, <1>2, <1>3, <1>5, <1>6, <1>7
  DEF ForgottenInv, ForgottenGone, SettledHeld, Free

(* Removing entries and calls brings nothing back.                         *)
LEMMA FreeRemoves ==
  ASSUME TypeOK, Removes
  PROVE  /\ \A S : 0 \notin S /\ Free(S) =>
               /\ \A c \in Calls : call'[c].pc # "served" => call'[c].answer \notin S
               /\ \A p \in Processes : l1'[p].answer \notin S
         /\ \A S : 0 \notin S /\ l2.answer \notin S => l2'.answer \notin S
         /\ Prompt /\ now' = now => Prompt'
<1>1. CallIdle.answer = 0 /\ NoEntry.answer = 0
  BY NotZero
<1> QED
  BY <1>1 DEF Removes, Free, Prompt

(* What a clear begins with is carried by nobody and in no first tier, and *)
(* it ends only after Redis had deleted the key or did not have it.        *)
LEMMA ForgottenClearStep ==
  ASSUME Matched, TypeOK, ForgottenInv, NEW p \in Processes, ClearStep(p)
  PROVE  ForgottenInv'
<1>0. /\ 0 \notin forgotten /\ \A q \in Processes : 0 \notin settled[q]
      /\ NoEntry.answer = 0
      /\ clear \in [Processes -> ClearState] /\ settled \in [Processes -> SUBSET Answers]
      /\ l1 \in [Processes -> EntryState]
  BY NotZero DEF TypeOK
<1>1. /\ Free(forgotten) /\ l2.answer \notin forgotten
      /\ \A q \in Processes :
           /\ clear[q].pc = "idle" => settled[q] = {}
           /\ Free(settled[q])
           /\ clear[q].pc = "del" /\ ~clear[q].found => l2.answer \notin settled[q]
      /\ Prompt
  BY ForgottenParts
<1>2. Removes /\ now' = now
  BY OnlyRemove
<1>3. \A q \in Processes \ {p} : clear'[q] = clear[q] /\ settled'[q] = settled[q]
  BY <1>0 DEF ClearStep, ClearL1, ClearBegins, ClearKeys, ClearDel, ClearFails, ClearEnds
<1>4. SUFFICES
        /\ \A c \in Calls : call'[c].pc # "served" => call'[c].answer \notin forgotten'
        /\ \A q \in Processes : l1'[q].answer \notin forgotten'
        /\ l2'.answer \notin forgotten'
        /\ clear'[p].pc = "idle" => settled'[p] = {}
        /\ \A c \in Calls : call'[c].pc # "served" => call'[c].answer \notin settled'[p]
        /\ \A q \in Processes : l1'[q].answer \notin settled'[p]
        /\ clear'[p].pc = "del" /\ ~clear'[p].found => l2'.answer \notin settled'[p]
  <2>1. ASSUME NEW q \in Processes \ {p}
        PROVE  /\ clear'[q].pc = "idle" => settled'[q] = {}
               /\ \A c \in Calls : call'[c].pc # "served" => call'[c].answer \notin settled'[q]
               /\ \A o \in Processes : l1'[o].answer \notin settled'[q]
               /\ clear'[q].pc = "del" /\ ~clear'[q].found => l2'.answer \notin settled'[q]
    BY <1>0, <1>1, <1>2, <1>3, FreeRemoves
  <2>2. Prompt'
    BY <1>1, <1>2, FreeRemoves
  <2> QED
    BY <1>4, <2>1, <2>2 DEF ForgottenInv, ForgottenGone, SettledHeld
<1>5. CASE ClearL1(p)
  <2>1. /\ call' = call /\ l2' = l2 /\ forgotten' = forgotten
        /\ l1' = [l1 EXCEPT ![p] = NoEntry]
        /\ clear'[p].pc = "keys"
        /\ settled'[p] = Answers \ (Writing \cup {l1[q].answer : q \in Processes \ {p}})
    BY <1>0, <1>5 DEF ClearL1, ClearBegins
  <2>2. 0 \notin settled'[p]
    BY <2>1, Zero
  <2>3. \A c \in Calls : call[c].pc # "served" => call[c].answer \notin settled'[p]
    <3>1. ASSUME NEW c \in Calls, call[c].pc \in {"backfill", "set2", "set1"}
          PROVE  call[c].answer \in Writing
      BY <3>1 DEF Writing
    <3>2. ASSUME NEW c \in Calls, call[c].pc \notin Answered
          PROVE  call[c].answer = 0
      BY <3>2 DEF TypeOK
    <3> QED
      BY <2>1, <2>2, <3>1, <3>2 DEF Answered
  <2>4. \A q \in Processes : l1'[q].answer \notin settled'[p]
    BY <1>0, <2>1, <2>2
  <2>5. /\ \A c \in Calls : call'[c].pc # "served" => call'[c].answer \notin forgotten'
        /\ \A q \in Processes : l1'[q].answer \notin forgotten'
        /\ l2'.answer \notin forgotten'
    BY <1>0, <1>1, <1>2, <2>1, FreeRemoves
  <2>6. /\ clear'[p].pc # "idle" /\ clear'[p].pc # "del"
        /\ \A c \in Calls : call'[c].pc # "served" => call'[c].answer \notin settled'[p]
    BY <2>1, <2>3
  <2> QED
    BY <2>4, <2>5, <2>6
<1>6. CASE ClearKeys(p)
  <2>1. /\ l2' = l2 /\ forgotten' = forgotten /\ settled' = settled
        /\ clear'[p] = [pc |-> "del", found |-> Live(l2)]
    BY <1>0, <1>6 DEF ClearKeys, tiers, Matched, Live
  <2>2. ~Live(l2) => l2.answer = 0
    BY <1>0, <1>1 DEF Live, Prompt
  <2> QED
    BY <1>0, <1>1, <1>2, <2>1, <2>2, FreeRemoves
<1>7. ASSUME ClearEnds(p)
      PROVE  settled'[p] = {} /\ clear'[p].pc = "idle"
  BY <1>0, <1>7 DEF ClearEnds, ClearIdle
<1>8. CASE ClearDel(p)
  <2>1. /\ clear[p].pc = "del" /\ forgotten' = forgotten \cup settled[p]
        /\ clear[p].found => l2' = NoEntry
    BY <1>8 DEF ClearDel
  <2>2. l2'.answer \notin settled[p]
    BY <1>0, <1>1, <1>8, <2>1 DEF ClearDel
  <2>3. Free(settled[p])
    BY <1>1
  <2> QED
    BY <1>0, <1>1, <1>2, <1>7, <1>8, <2>1, <2>2, <2>3, FreeRemoves DEF ClearDel
<1>9. CASE ClearFails(p)
  BY <1>0, <1>1, <1>2, <1>7, <1>9, FreeRemoves DEF ClearFails
<1> QED
  BY <1>5, <1>6, <1>8, <1>9 DEF ClearStep

LEMMA ForgottenNext == Matched /\ TypeOK /\ ForgottenInv /\ [Next]_vars => ForgottenInv'
<1> SUFFICES ASSUME Matched, TypeOK, ForgottenInv, [Next]_vars PROVE ForgottenInv'
  OBVIOUS
<1>0. /\ 0 \notin forgotten /\ \A q \in Processes : 0 \notin settled[q]
      /\ clear \in [Processes -> ClearState] /\ settled \in [Processes -> SUBSET Answers]
  BY NotZero DEF TypeOK
<1>1. /\ Free(forgotten) /\ l2.answer \notin forgotten
      /\ \A q \in Processes :
           /\ clear[q].pc = "idle" => settled[q] = {}
           /\ Free(settled[q])
           /\ clear[q].pc = "del" /\ ~clear[q].found => l2.answer \notin settled[q]
      /\ Prompt
  BY ForgottenParts
<1>2. ASSUME Removes, Prompt', forgotten' = forgotten,
             \A q \in Processes : \/ clear'[q] = clear[q] /\ settled'[q] = settled[q]
                                  \/ clear'[q] = ClearIdle /\ settled'[q] = {}
      PROVE  ForgottenInv'
  <2>1. Free(forgotten)' /\ l2'.answer \notin forgotten'
    BY <1>0, <1>1, <1>2, FreeRemoves DEF Free
  <2>2. ASSUME NEW q \in Processes
        PROVE  /\ clear'[q].pc = "idle" => settled'[q] = {}
               /\ Free(settled[q])'
               /\ clear'[q].pc = "del" /\ ~clear'[q].found => l2'.answer \notin settled'[q]
    BY <1>0, <1>1, <1>2, FreeRemoves DEF Free, ClearIdle
  <2> QED
    BY <1>2, <2>1, <2>2 DEF ForgottenInv, ForgottenGone, SettledHeld, Free
<1>3. CASE UNCHANGED vars
  BY <1>1, <1>2, <1>3, OnlyRemove, FreeRemoves DEF vars
<1>4. CASE EvictL2
  BY <1>1, <1>2, <1>4, OnlyRemove, FreeRemoves DEF EvictL2, clearVars
<1>5. CASE Tick
  <2>1. Prompt'
    <3>1. now \in Nat /\ l2.exp \in Nat /\ now' = now + 1
      BY <1>5 DEF Tick, TypeOK, EntryState
    <3> QED
      BY <1>5, <3>1 DEF Tick, Prompt
  <2> QED
    BY <1>2, <1>5, <2>1, OnlyRemove DEF Tick, clearVars
<1>6. ASSUME NEW p \in Processes, EvictL1(p) PROVE ForgottenInv'
  BY <1>1, <1>2, <1>6, OnlyRemove, FreeRemoves DEF EvictL1, clearVars
<1>7. ASSUME NEW p \in Processes, Restart(p) PROVE ForgottenInv'
  <2>1. \A q \in Processes : \/ clear'[q] = clear[q] /\ settled'[q] = settled[q]
                             \/ clear'[q] = ClearIdle /\ settled'[q] = {}
    BY <1>0, <1>7 DEF Restart, ClearEnds
  <2>2. Removes /\ now' = now /\ forgotten' = forgotten
    BY <1>7, OnlyRemove DEF Restart
  <2>3. Prompt'
    BY <1>1, <2>2, FreeRemoves
  <2> QED
    BY <1>2, <2>1, <2>2, <2>3
<1>8. ASSUME NEW p \in Processes, ClearStep(p) PROVE ForgottenInv'
  BY <1>8, ForgottenClearStep
<1>9. ASSUME NEW c \in Calls, CallStep(c) PROVE ForgottenInv'
  BY <1>9, ForgottenCallStep
<1> QED
  BY <1>3, <1>4, <1>5, <1>6, <1>7, <1>8, <1>9 DEF Next

(* For the prefix ClearCache clears, an answer it removed and nobody was   *)
(* carrying is never served again (handler.go:157).                        *)
THEOREM ForgottenStayHolds == Matched => (Spec => []ForgottenStay)
<1>1. ForgottenInv => ForgottenStay
  BY DEF ForgottenInv, ForgottenGone, ForgottenStay
<1> SUFFICES ASSUME Matched PROVE Spec => []ForgottenStay
  OBVIOUS
<1>2. TypeOK /\ ForgottenInv /\ [Next]_vars => ForgottenInv'
  BY ForgottenNext
<1> QED
  BY <1>1, <1>2, TypeCorrect, ForgottenInit, PTL DEF Spec
=============================================================================
