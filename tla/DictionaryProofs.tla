-------------------------- MODULE DictionaryProofs --------------------------
(* Safety proofs about Dictionary, for any sets of words, requests and     *)
(* reads, any batch size, any selection of operations and faults.          *)
EXTENDS Dictionary, TLAPS

-----------------------------------------------------------------------------
(* Type correctness: one lemma per group of actions.                       *)

(* The idle records have their types.                                      *)
LEMMA IdleStates == WriterIdle \in WriterState /\ ReaderIdle \in ReaderState
  BY DEF WriterIdle, WriterState, ReaderIdle, ReaderState

(* The initial state is well typed.                                        *)
LEMMA TypeInit == Init => TypeOK
<1> SUFFICES ASSUME Init PROVE TypeOK
  OBVIOUS
<1>1. wr \in [Writers -> WriterState] /\ rd \in [Readers -> ReaderState]
  BY IdleStates DEF Init
<1>2. \A r \in Readers : rd[r] = ReaderIdle
  BY DEF Init
<1>3. \A r \in Readers : /\ rd[r].ver <= ver
                         /\ rd[r].got \cap rd[r].todo = {}
                         /\ rd[r].pc \in {"hit", "fill", "exec"} => rd[r].todo = {}
  BY <1>2 DEF Init, ReaderIdle
<1>4. ttl \in {"none", "24h"} /\ (dict = {} <=> ttl = "none")
  BY DEF Init
<1>5. requests \in 0..MaxRequests /\ ver \in Nat
  BY DictionaryAssumption DEF Init
<1>d. /\ log \in [dict : SUBSET (Words \cup {Sentinel}), ttl : {"none", "24h"},
                  ver : Nat, dirty : SUBSET Words, stale : SUBSET Words]
      /\ log.dict = {} <=> log.ttl = "none"
      /\ crashes \in 0..MaxCrashes
  BY DictionaryAssumption DEF Init
<1>6. lag \in [Readers -> SUBSET Words] /\ touched \in [Readers -> SUBSET Words]
  BY DEF Init
<1>7. /\ store \in SUBSET Words
      /\ replica \in SUBSET Words
      /\ dict \in SUBSET (Words \cup {Sentinel})
      /\ dirty \in SUBSET Words /\ lost \in SUBSET Words /\ stale \in SUBSET Words
  BY DEF Init
<1> QED
  BY <1>1, <1>3, <1>4, <1>5, <1>6, <1>7, <1>d DEF TypeOK

(* What the file holds is well typed.                                      *)
LogOK ==
    /\ log \in [dict : SUBSET (Words \cup {Sentinel}), ttl : {"none", "24h"},
                ver : Nat, dirty : SUBSET Words, stale : SUBSET Words]
    /\ log.dict = {} <=> log.ttl = "none"

LEMMA LogKept ==
  ASSUME TypeOK, NEW S \in SUBSET Words, StoreBecomes(S)
  PROVE  LogOK'
<1>1. ChangedBy(S) \subseteq Words
  BY DEF ChangedBy, TypeOK
<1>2. PICK l : /\ log = l /\ LogOK
  BY DEF TypeOK, LogOK
<1>3. l.dirty \cup ChangedBy(S) \subseteq Words
  BY <1>1, <1>2 DEF LogOK
<1>4. PICK m : m = [l EXCEPT !.dirty = l.dirty \cup ChangedBy(S)]
  OBVIOUS
<1>5. /\ m \in [dict : SUBSET (Words \cup {Sentinel}), ttl : {"none", "24h"},
                ver : Nat, dirty : SUBSET Words, stale : SUBSET Words]
      /\ m.dict = l.dict /\ m.ttl = l.ttl
  BY <1>2, <1>3, <1>4 DEF LogOK
<1>6. log' = m \/ log' = l
  BY <1>2, <1>4 DEF StoreBecomes
<1> QED
  BY <1>2, <1>5, <1>6 DEF LogOK

(* Accepting a request preserves TypeOK.                                   *)
LEMMA TypeRequest ==
  ASSUME TypeOK, NEW p \in Writers, Request(p)
  PROVE  TypeOK'
<1>1. CASE ClearAll(p)
  <2>1. [WriterIdle EXCEPT !.pc = "list", !.todo = Words] \in WriterState
    BY DEF WriterIdle, WriterState
  <2>2. wr' \in [Writers -> WriterState]
    BY <1>1, <2>1 DEF ClearAll, TypeOK
  <2> QED
    BY <1>1, <2>2, DictionaryAssumption DEF TypeOK, ClearAll, Accept, redisVars, diskVars,
       history, writeHistory, readHistory
<1>2. ASSUME NEW w \in Words, NEW S \in SUBSET Words, StoreThenBump(p, w, S)
      PROVE  TypeOK'
  <2>1. /\ store' \in SUBSET Words
        /\ dirty' \in SUBSET Words /\ lost' \in SUBSET Words /\ stale' \in SUBSET Words
        /\ lag' \in [Readers -> SUBSET Words]
    BY <1>2 DEF TypeOK, StoreThenBump, StoreBecomes, ChangedBy, NoBump
  <2>2. touched' \in [Readers -> SUBSET Words]
    BY <1>2 DEF TypeOK, StoreThenBump, StoreBecomes, ChangedBy
  <2>3. [WriterIdle EXCEPT !.pc = "bump", !.changed = {w}] \in WriterState
    BY DEF WriterIdle, WriterState
  <2>4. wr' \in [Writers -> WriterState]
    BY <1>2, <2>3 DEF TypeOK, StoreThenBump
  <2>5. requests' \in 0..MaxRequests
    BY <1>2, DictionaryAssumption DEF TypeOK, StoreThenBump, Accept
  <2>6. LogOK'
    BY <1>2, LogKept DEF StoreThenBump
  <2> QED
    BY <1>2, <2>1, <2>2, <2>4, <2>5, <2>6 DEF TypeOK, LogOK, StoreThenBump, redisVars
<1>3. CASE \E w \in Words : AddWord(p, w) \/ RemoveWord(p, w)
  BY <1>2, <1>3 DEF AddWord, RemoveWord, TypeOK
<1> QED
  BY <1>1, <1>3 DEF Request

(* The steps of a request preserve TypeOK.                                 *)
LEMMA TypeWriterStep ==
  ASSUME TypeOK, NEW p \in Writers, WriterStep(p)
  PROVE  TypeOK'
<1>0. ASSUME WriterEnds(p) PROVE wr' \in [Writers -> WriterState]
  BY <1>0, IdleStates DEF TypeOK, WriterEnds
<1>1. CASE BumpAndInvalidate(p)
  <2>1. ver' \in Nat /\ ver <= ver'
    BY <1>1 DEF TypeOK, BumpAndInvalidate, IncrAndDel, Del, redisVars
  <2>2. \A r \in Readers : rd[r].ver <= ver'
    BY <2>1 DEF TypeOK, ReaderState
  <2>3. /\ dict' \in SUBSET (Words \cup {Sentinel})
        /\ dirty' \in SUBSET Words /\ lost' \in SUBSET Words /\ stale' \in SUBSET Words
    BY <1>1 DEF TypeOK, BumpAndInvalidate, IncrAndDel, Del, NoBump, redisVars
  <2>4. ttl' \in {"none", "24h"} /\ (dict' = {} <=> ttl' = "none")
    BY <1>1 DEF TypeOK, BumpAndInvalidate, IncrAndDel, Del, redisVars
  <2> QED
    BY <1>0, <1>1, <2>1, <2>2, <2>3, <2>4 DEF TypeOK, BumpAndInvalidate, diskVars, readHistory
<1>2. CASE ClearListPage(p)
  <2> DEFINE todo(P) == wr[p].todo \ P
             got(P, src) == wr[p].got \cup (src \cap P)
             pc(P, src) == IF todo(P) # {} THEN "list"
                           ELSE IF got(P, src) # {} THEN "batch" ELSE "del"
             next(P, src) == [wr[p] EXCEPT !.pc = pc(P, src),
                                           !.todo = todo(P), !.got = got(P, src)]
  <2>1. PICK P \in SUBSET wr[p].todo \ {{}}, src \in QuerySources :
          wr' = [wr EXCEPT ![p] = next(P, src)]
    BY <1>2 DEF ClearListPage
  <2>2. src \in SUBSET Words /\ wr[p] \in WriterState
    BY DEF QuerySources, TypeOK
  <2>3. /\ pc(P, src) \in {"idle", "bump", "list", "batch", "del"}
        /\ todo(P) \in SUBSET Words
        /\ got(P, src) \in SUBSET Words
    BY <2>2 DEF WriterState
  <2> HIDE DEF todo, got, pc
  <2>4. next(P, src) \in WriterState
    BY <2>2, <2>3 DEF WriterState
  <2>5. wr' \in [Writers -> WriterState]
    BY <2>1, <2>4 DEF TypeOK
  <2> QED
    BY <1>2, <2>5 DEF ClearListPage, TypeOK, redisVars, diskVars,
       history, writeHistory, readHistory
<1>3. CASE ClearListFails(p)
  BY <1>0, <1>3 DEF TypeOK, ClearListFails, redisVars, diskVars,
     history, writeHistory, readHistory
<1>4. CASE BatchWriteItem(p)
  <2> DEFINE next(B, P) == [pc      |-> IF B \ P = {} /\ wr[p].got \ B = {}
                                        THEN "del" ELSE "batch",
                            changed |-> wr[p].changed \cup P,
                            todo    |-> B \ P,
                            got     |-> wr[p].got \ B]
  <2>1. PICK B \in NextBatches(p) : \E P \in SUBSET B \ {{}} :
          /\ StoreBecomes(store \ P)
          /\ \/ wr' = [wr EXCEPT ![p] = next(B, P)]
             \/ WriterEnds(p)
          /\ UNCHANGED lost \/ NoBump(wr[p].changed \cup P)
    BY <1>4 DEF BatchWriteItem
  <2>2. PICK P \in SUBSET B \ {{}} :
          /\ StoreBecomes(store \ P)
          /\ \/ wr' = [wr EXCEPT ![p] = next(B, P)]
             \/ WriterEnds(p)
          /\ UNCHANGED lost \/ NoBump(wr[p].changed \cup P)
    BY <2>1
  <2>3. B \in SUBSET Words /\ wr[p] \in WriterState
    BY DEF NextBatches, TypeOK, WriterState
  <2>4. next(B, P) \in WriterState
    BY <2>2, <2>3 DEF WriterState
  <2> HIDE DEF next
  <2>5. wr' \in [Writers -> WriterState]
    BY <1>0, <2>2, <2>4 DEF TypeOK
  <2>6. /\ store' \in SUBSET Words
        /\ dirty' \in SUBSET Words /\ lost' \in SUBSET Words
        /\ touched' \in [Readers -> SUBSET Words]
    BY <2>2 DEF TypeOK, StoreBecomes, ChangedBy, NoBump
  <2>7. LogOK'
    BY <2>2, LogKept DEF TypeOK
  <2> QED
    BY <1>4, <2>5, <2>6, <2>7 DEF BatchWriteItem, TypeOK, LogOK, redisVars
<1>5. CASE Invalidate(p)
  <2>1. /\ dict' \in SUBSET (Words \cup {Sentinel})
        /\ lost' \in SUBSET Words /\ stale' \in SUBSET Words
    BY <1>5 DEF TypeOK, Invalidate, Del, NoBump
  <2>2. ttl' \in {"none", "24h"} /\ (dict' = {} <=> ttl' = "none")
    BY <1>5 DEF TypeOK, Invalidate, Del
  <2> QED
    BY <1>0, <1>5, <2>1, <2>2 DEF TypeOK, Invalidate, diskVars, readHistory
<1> QED
  BY <1>1, <1>2, <1>3, <1>4, <1>5 DEF WriterStep

(* The steps of a read and of its fill preserve TypeOK.                    *)
LEMMA TypeReader ==
  ASSUME TypeOK, NEW r \in Readers, GetWords(r) \/ ReaderStep(r)
  PROVE  TypeOK'
<1> DEFINE Fits(s) == /\ s \in ReaderState
                      /\ s.ver <= ver
                      /\ s.got \cap s.todo = {}
                      /\ s.pc \in {"hit", "fill", "exec"} => s.todo = {}
           RestOK == /\ store' \in SUBSET Words
                     /\ replica' \in SUBSET Words
                     /\ dict' \in SUBSET (Words \cup {Sentinel})
                     /\ ttl' \in {"none", "24h"}
                     /\ dict' = {} <=> ttl' = "none"
                     /\ ver' = ver
                     /\ UNCHANGED diskVars
                     /\ requests' = requests
                     /\ wr' = wr
                     /\ UNCHANGED writeHistory
                     /\ stale' \in SUBSET Words
                     /\ lag' \in [Readers -> SUBSET Words]
                     /\ touched' \in [Readers -> SUBSET Words]
<1>1. ASSUME RestOK, NEW s, Fits(s), rd' = [rd EXCEPT ![r] = s]
      PROVE  TypeOK'
  <2>1. rd' \in [Readers -> ReaderState]
    BY <1>1 DEF TypeOK
  <2>2. \A q \in Readers : rd'[q] = IF q = r THEN s ELSE rd[q]
    BY <1>1 DEF TypeOK
  <2>3. \A q \in Readers : /\ rd'[q].ver <= ver'
                           /\ rd'[q].got \cap rd'[q].todo = {}
                           /\ rd'[q].pc \in {"hit", "fill", "exec"} => rd'[q].todo = {}
    BY <1>1, <2>2 DEF TypeOK
  <2> QED
    BY <1>1, <2>1, <2>3 DEF TypeOK, diskVars, writeHistory
<1>2. Fits(ReaderIdle)
  BY IdleStates DEF TypeOK, ReaderIdle
<1>3. rd[r] \in ReaderState /\ Fits(rd[r])
  BY DEF TypeOK
<1>4. ASSUME ReadEnds(r),
             UNCHANGED <<store, replica, ver, diskVars, requests, wr, writeHistory>>,
             dict' \in SUBSET (Words \cup {Sentinel}), stale' \in SUBSET Words,
             ttl' \in {"none", "24h"}, dict' = {} <=> ttl' = "none"
      PROVE  TypeOK'
  <2>1. RestOK
    BY <1>4 DEF ReadEnds, TypeOK
  <2> QED
    BY <1>1, <1>2, <1>4, <2>1 DEF ReadEnds
<1>5. ASSUME UNCHANGED <<store, replica, redisVars, diskVars, requests, wr, writeHistory, stale>>,
             lag' \in [Readers -> SUBSET Words],
             touched' \in [Readers -> SUBSET Words]
      PROVE  RestOK
  BY <1>5 DEF TypeOK, redisVars
<1> HIDE DEF RestOK
<1>6. Fits([ReaderIdle EXCEPT !.pc = "getver"])
  BY DEF TypeOK, ReaderIdle, ReaderState
<1>7. CASE GetWords(r)
  <2>1. RestOK
    BY <1>5, <1>7 DEF GetWords, TypeOK
  <2>2. Fits([pc |-> "hit", ver |-> 0, todo |-> {}, got |-> dict \ {Sentinel}])
    BY DEF TypeOK, ReaderState
  <2> HIDE DEF Fits
  <2> QED
    BY <1>1, <1>6, <1>7, <2>1, <2>2 DEF GetWords
<1>8. CASE Hit(r)
  <2>1. CASE ReadEnds(r)
    BY <1>4, <1>8, <2>1 DEF Hit, redisVars, TypeOK
  <2>2. CASE ~ReadEnds(r)
    <3>1. RestOK
      BY <1>5, <1>8, <2>2 DEF Hit, TypeOK, readHistory
    <3> HIDE DEF Fits
    <3> QED
      BY <1>1, <1>6, <1>8, <2>2, <3>1 DEF Hit
  <2> QED
    BY <2>1, <2>2
<1>9. CASE GetVersion(r)
  <2>1. PICK v \in Snapshots :
          rd' = [rd EXCEPT ![r] = [pc |-> "query", ver |-> v, todo |-> Words, got |-> {}]]
    BY <1>9 DEF GetVersion
  <2>2. v \in Nat /\ v <= ver
    BY DEF Snapshots, TypeOK
  <2>3. Fits([pc |-> "query", ver |-> v, todo |-> Words, got |-> {}])
    BY <2>2 DEF ReaderState
  <2>4. RestOK
    BY <1>5, <1>9 DEF GetVersion, TypeOK, history, readHistory
  <2> HIDE DEF Fits
  <2> QED
    BY <1>1, <2>1, <2>3, <2>4
<1>10. CASE QueryPage(r)
  <2> DEFINE next(P, src) ==
               [pc   |-> IF P = rd[r].todo THEN "fill" ELSE "query",
                ver  |-> rd[r].ver,
                todo |-> rd[r].todo \ P,
                got  |-> rd[r].got \cup (src \cap P)]
  <2>1. PICK P \in SUBSET rd[r].todo \ {{}}, src \in QuerySources :
          rd' = [rd EXCEPT ![r] = next(P, src)] /\ PageLags(r, P)
    BY <1>10 DEF QueryPage
  <2>2. src \in SUBSET Words
    BY DEF QuerySources, TypeOK
  <2>3. Fits(next(P, src))
    BY <1>3, <2>1, <2>2 DEF ReaderState
  <2>4. /\ lag' \in [Readers -> SUBSET Words]
        /\ touched' \in [Readers -> SUBSET Words]
    BY <2>1 DEF PageLags, Lagging, ChangedBy, TypeOK
  <2>5. RestOK
    BY <1>5, <1>10, <2>4 DEF QueryPage, TypeOK
  <2> HIDE DEF Fits, next
  <2> QED
    BY <1>1, <2>1, <2>3, <2>5
<1>11. CASE QueryFails(r)
  BY <1>4, <1>11 DEF QueryFails, redisVars, TypeOK
<1>12. CASE Watch(r)
  <2>1. CASE ReadEnds(r)
    BY <1>4, <1>12, <2>1 DEF Watch, redisVars, TypeOK
  <2>2. CASE ~ReadEnds(r)
    <3>1. RestOK
      BY <1>5, <1>12, <2>2 DEF Watch, TypeOK, readHistory
    <3>2. rd' = [rd EXCEPT ![r] = [rd[r] EXCEPT !.pc = "exec"]]
      BY <1>12, <2>2 DEF Watch
    <3>3. rd[r].pc = "fill"
      BY <1>12 DEF Watch
    <3>4. Fits([rd[r] EXCEPT !.pc = "exec"])
      BY <1>3, <3>3 DEF ReaderState
    <3> HIDE DEF Fits
    <3> QED
      BY <1>1, <3>1, <3>2, <3>4
  <2> QED
    BY <2>1, <2>2
<1>13. CASE Exec(r)
  <2>1. /\ dict' \in SUBSET (Words \cup {Sentinel}) /\ stale' \in SUBSET Words
        /\ ttl' \in {"none", "24h"}
        /\ dict' = {} <=> ttl' = "none"
    BY <1>3, <1>13 DEF Exec, SetMembers, TypeOK, ReaderState
  <2> QED
    BY <1>4, <1>13, <2>1 DEF Exec
<1> QED
  BY <1>7, <1>8, <1>9, <1>10, <1>11, <1>12, <1>13 DEF ReaderStep

(* Every step preserves TypeOK.                                            *)
LEMMA TypeStep == TypeOK /\ [Next]_vars => TypeOK'
<1> SUFFICES ASSUME TypeOK, [Next]_vars PROVE TypeOK'
  OBVIOUS
<1>1. CASE Expire
  BY <1>1 DEF Expire, Del, TypeOK, diskVars, history, writeHistory, readHistory
<1>2. CASE Replicate
  BY <1>2 DEF Replicate, TypeOK, Lagging, ChangedBy, redisVars, diskVars,
     history, writeHistory, readHistory
<1>3. CASE UNCHANGED vars
  BY <1>3 DEF vars, TypeOK, redisVars, diskVars, history, writeHistory, readHistory
<1>4. CASE Fsync
  BY <1>4 DEF Fsync, TypeOK, redisVars, history, writeHistory, readHistory
<1>5. CASE Crash
  <2>1. wr' \in [Writers -> WriterState] /\ rd' \in [Readers -> ReaderState]
    BY <1>5, IdleStates DEF Crash
  <2>2. \A r \in Readers : rd'[r] = ReaderIdle
    BY <1>5 DEF Crash
  <2>3. /\ ver' \in Nat /\ dict' \in SUBSET (Words \cup {Sentinel})
        /\ ttl' \in {"none", "24h"} /\ (dict' = {} <=> ttl' = "none")
        /\ dirty' \in SUBSET Words /\ lost' \in SUBSET Words /\ stale' \in SUBSET Words
    BY <1>5 DEF Crash, TypeOK
  <2>4. \A r \in Readers :
           /\ rd'[r].ver <= ver'
           /\ rd'[r].got \cap rd'[r].todo = {}
           /\ rd'[r].pc \in {"hit", "fill", "exec"} => rd'[r].todo = {}
    BY <2>2, <2>3 DEF ReaderIdle
  <2>5. /\ lag' \in [Readers -> SUBSET Words]
        /\ touched' \in [Readers -> SUBSET Words]
        /\ crashes' \in 0..MaxCrashes
    BY <1>5, DictionaryAssumption DEF Crash, TypeOK
  <2> QED
    BY <1>5, <2>1, <2>3, <2>4, <2>5 DEF Crash, TypeOK
<1> QED
  BY <1>1, <1>2, <1>3, <1>4, <1>5, TypeRequest, TypeWriterStep, TypeReader DEF Next

(* Spec keeps its variables well typed, snapshots never run ahead of the   *)
(* version counter, and the cached set always carries a time to live.      *)
THEOREM TypeCorrect == Spec => []TypeOK
<1> QED
  BY TypeInit, TypeStep, PTL DEF Spec

-----------------------------------------------------------------------------
(* Coherence.  The lemmas are per kind of step: a change of the store, a   *)
(* transaction that bumps the version, the loss of the key, a sync and a   *)
(* crash, steps of a read.                                                 *)

(* The initial state satisfies it: nothing is cached and nobody reads.    *)
LEMMA CoherenceInit == Init => CoherenceInv
  BY DEF Init, ReaderIdle, CoherenceInv, Coherent, LogCoherent, FreshFills, DirtyTouched,
         FreshReads

(* A changed word becomes dirty, and touched for every read in progress.   *)
LEMMA StoreChange ==
  ASSUME TypeOK, CoherenceInv, NEW S \in SUBSET Words,
         StoreBecomes(S), UNCHANGED <<dict, ver, crashes, rd, lag, stale>>
  PROVE  CoherenceInv'
<1>1. \A w \in Words : w \notin ChangedBy(S) => (w \in store' <=> w \in store)
  BY DEF StoreBecomes, ChangedBy
<1>2. dirty' = dirty \cup ChangedBy(S)
  BY DEF StoreBecomes
<1>3. \A r \in Readers : rd[r].pc # "idle" => touched'[r] = touched[r] \cup ChangedBy(S)
  BY DEF StoreBecomes
<1>4. Coherent'
  BY <1>1, <1>2 DEF CoherenceInv, Coherent, Plain
<1>5. FreshFills'
  BY <1>1, <1>2 DEF CoherenceInv, FreshFills, Plain
<1>6. DirtyTouched'
  BY <1>2, <1>3 DEF CoherenceInv, DirtyTouched
<1>7. FreshReads'
  BY <1>1, <1>3 DEF CoherenceInv, FreshReads, Plain
<1>8. LogCoherent'
  <2>1. PICK l : log = l /\ l \in [dict : SUBSET (Words \cup {Sentinel}), ttl : {"none", "24h"},
                                   ver : Nat, dirty : SUBSET Words, stale : SUBSET Words]
    BY DEF TypeOK
  <2>2. CASE crashes < MaxCrashes
    <3>1. PICK m : m = [l EXCEPT !.dirty = l.dirty \cup ChangedBy(S)]
      OBVIOUS
    <3>2. /\ log' = m /\ m.dict = l.dict /\ m.stale = l.stale
          /\ m.dirty = l.dirty \cup ChangedBy(S)
      BY <2>1, <2>2, <3>1 DEF StoreBecomes
    <3> QED
      BY <1>1, <2>1, <2>2, <3>2 DEF CoherenceInv, LogCoherent, Plain
  <2> QED
    BY <2>2 DEF LogCoherent
<1> QED
  BY <1>4, <1>5, <1>6, <1>7, <1>8 DEF CoherenceInv

(* A bump leaves no fill whose snapshot is current.                        *)
LEMMA BumpChange ==
  ASSUME TypeOK, CoherenceInv, IncrAndDel, UNCHANGED <<store, diskVars, rd, readHistory>>
  PROVE  CoherenceInv'
<1>1. Coherent' /\ DirtyTouched'
  BY DEF IncrAndDel, Del, Coherent, DirtyTouched
<1>2. FreshFills'
  <2>1. \A r \in Readers : rd[r].ver <= ver /\ rd[r].ver \in Nat /\ ver \in Nat
    BY DEF TypeOK, ReaderState
  <2>2. \A r \in Readers : rd'[r].ver # ver'
    BY <2>1 DEF IncrAndDel
  <2> QED
    BY <2>2 DEF FreshFills
<1>3. FreshReads' /\ LogCoherent'
  BY DEF CoherenceInv, FreshReads, LogCoherent, diskVars, readHistory
<1> QED
  BY <1>1, <1>2, <1>3 DEF CoherenceInv

(* Losing the key, or changing none of this state, harms nothing.          *)
LEMMA KeyChange ==
  ASSUME CoherenceInv, UNCHANGED <<dict, stale>> \/ dict' = {},
         UNCHANGED <<store, ver, diskVars, rd, dirty, readHistory>>
  PROVE  CoherenceInv'
  BY DEF CoherenceInv, Coherent, LogCoherent, FreshFills, DirtyTouched, FreshReads,
         diskVars, readHistory

(* A crash leaves no read and no fill, and what the file held.             *)
LEMMA CrashChange ==
  ASSUME CoherenceInv, Crash
  PROVE  CoherenceInv'
<1>1. Coherent' /\ LogCoherent'
  BY DEF CoherenceInv, Coherent, LogCoherent, Crash
<1>2. \A r \in Readers : rd'[r].pc = "idle"
  BY DEF Crash, ReaderIdle
<1> QED
  BY <1>1, <1>2 DEF CoherenceInv, FreshFills, DirtyTouched, FreshReads

(* A sync copies what agrees with the store but for the dirty words.       *)
LEMMA FsyncChange ==
  ASSUME CoherenceInv, Fsync
  PROVE  CoherenceInv'
<1>1. LogCoherent'
  BY DEF CoherenceInv, Coherent, LogCoherent, Fsync, redisVars
<1> QED
  BY <1>1 DEF CoherenceInv, Coherent, FreshFills, DirtyTouched, FreshReads, Fsync, redisVars,
              history, writeHistory, readHistory

(* The steps of the write requests.                                        *)
LEMMA CoherenceWriter ==
  ASSUME TypeOK, CoherenceInv, NEW p \in Writers, Request(p) \/ WriterStep(p)
  PROVE  CoherenceInv'
<1>1. ASSUME NEW w \in Words, NEW S \in SUBSET Words, StoreThenBump(p, w, S)
      PROVE  CoherenceInv'
  BY <1>1, StoreChange DEF StoreThenBump, redisVars
<1>2. CASE \E w \in Words : AddWord(p, w) \/ RemoveWord(p, w)
  BY <1>1, <1>2 DEF AddWord, RemoveWord, TypeOK
<1>3. CASE BumpAndInvalidate(p)
  BY <1>3, BumpChange, KeyChange DEF BumpAndInvalidate, redisVars, diskVars
<1>4. CASE BatchWriteItem(p)
  <2>1. PICK P : StoreBecomes(store \ P)
    BY <1>4 DEF BatchWriteItem
  <2> QED
    BY <1>4, <2>1, StoreChange DEF BatchWriteItem, redisVars, TypeOK
<1>5. CASE ClearAll(p) \/ ClearListPage(p) \/ ClearListFails(p) \/ Invalidate(p)
  BY <1>5, KeyChange DEF ClearAll, ClearListPage, ClearListFails, Invalidate, Del, redisVars,
                         history, writeHistory
<1> QED
  BY <1>2, <1>3, <1>4, <1>5 DEF Request, WriterStep

(* A read that moves to a record s: the parts of the invariant about it.   *)
LEMMA ReadChange ==
  ASSUME TypeOK, CoherenceInv, NEW r \in Readers, NEW s,
         rd' = [rd EXCEPT ![r] = s],
         UNCHANGED <<store, ver, diskVars, dirty>>,
         Coherent',
         \A q \in Readers \ {r} : lag'[q] = lag[q] /\ touched'[q] = touched[q],
         s.pc # "idle" => dirty \subseteq touched'[r],
         s.pc \in {"query", "fill", "exec"} /\ s.ver = ver =>
           \A w \in Plain \ (s.todo \cup dirty \cup lag'[r]) : w \in s.got <=> w \in store,
         s.pc \in {"hit", "query", "fill", "exec"} =>
           \A w \in Plain \ (s.todo \cup touched'[r]) : w \in s.got <=> w \in store
  PROVE  CoherenceInv'
<1>1. \A q \in Readers : rd'[q] = IF q = r THEN s ELSE rd[q]
  BY DEF TypeOK
<1>2. FreshFills'
  BY <1>1 DEF CoherenceInv, FreshFills
<1>3. DirtyTouched'
  BY <1>1 DEF CoherenceInv, DirtyTouched
<1>4. FreshReads' /\ LogCoherent'
  BY <1>1 DEF CoherenceInv, FreshReads, LogCoherent, diskVars
<1> QED
  BY <1>2, <1>3, <1>4 DEF CoherenceInv

(* The steps of a read.  Exec is where the version check is needed: the    *)
(* snapshot is current, so what the fill writes is what the store holds.   *)
LEMMA CoherenceReader ==
  ASSUME TypeOK, CoherenceInv, NEW r \in Readers, GetWords(r) \/ ReaderStep(r)
  PROVE  CoherenceInv'
<1>1. ASSUME UNCHANGED <<store, dict, dirty, stale>> PROVE Coherent'
  BY <1>1 DEF CoherenceInv, Coherent
<1>2. ASSUME ReadEnds(r), UNCHANGED <<store, ver, diskVars, dirty>>, Coherent'
      PROVE  CoherenceInv'
  <2>1. \A q \in Readers \ {r} : lag'[q] = lag[q] /\ touched'[q] = touched[q]
    BY <1>2 DEF ReadEnds, TypeOK
  <2>2. ReaderIdle.pc = "idle"
    BY DEF ReaderIdle
  <2> QED
    BY <1>2, <2>1, <2>2, ReadChange DEF ReadEnds
<1>3. rd[r] \in ReaderState /\ touched[r] \in SUBSET Words
  BY DEF TypeOK
<1>4. [ReaderIdle EXCEPT !.pc = "getver"].pc = "getver"
  BY DEF ReaderIdle
<1>5. CASE GetWords(r)
  <2>1. UNCHANGED <<store, dict, ver, diskVars, dirty, lag, stale>>
    BY <1>5 DEF GetWords, redisVars, writeHistory
  <2>2. CASE /\ rd' = [rd EXCEPT ![r] = [ReaderIdle EXCEPT !.pc = "getver"]]
             /\ touched' = [touched EXCEPT ![r] = dirty]
    <3>1. /\ \A q \in Readers \ {r} : touched'[q] = touched[q]
          /\ touched'[r] = dirty
      BY <2>2 DEF TypeOK
    <3> QED
      BY <1>1, <1>4, <2>1, <2>2, <3>1, ReadChange
  <2>3. CASE /\ dict # {}
             /\ rd' = [rd EXCEPT ![r] = [pc |-> "hit", ver |-> 0, todo |-> {},
                                         got |-> dict \ {Sentinel}]]
             /\ touched' = [touched EXCEPT ![r] = dirty \cup stale]
    <3>1. /\ \A q \in Readers \ {r} : touched'[q] = touched[q]
          /\ touched'[r] = dirty \cup stale
      BY <2>3 DEF TypeOK
    <3>2. \A w \in Plain \ ({} \cup touched'[r]) : w \in dict \ {Sentinel} <=> w \in store
      BY <2>3, <3>1 DEF CoherenceInv, Coherent, Plain
    <3> QED
      BY <1>1, <2>1, <2>3, <3>1, <3>2, ReadChange
  <2> QED
    BY <1>5, <2>2, <2>3 DEF GetWords
<1>6. CASE Hit(r)
  <2>1. UNCHANGED <<store, dict, ver, diskVars, dirty, stale>> /\ rd[r].pc = "hit"
    BY <1>6 DEF Hit, redisVars, writeHistory
  <2>2. CASE ReadEnds(r)
    BY <1>1, <1>2, <2>1, <2>2
  <2>3. CASE /\ rd' = [rd EXCEPT ![r] = [ReaderIdle EXCEPT !.pc = "getver"]]
             /\ UNCHANGED readHistory
    <3>1. dirty \subseteq touched[r]
      BY <2>1 DEF CoherenceInv, DirtyTouched
    <3> QED
      BY <1>1, <1>4, <2>1, <2>3, <3>1, ReadChange DEF readHistory
  <2> QED
    BY <1>6, <2>2, <2>3 DEF Hit
<1>7. CASE GetVersion(r)
  <2>1. PICK v \in Snapshots :
          rd' = [rd EXCEPT ![r] = [pc |-> "query", ver |-> v, todo |-> Words, got |-> {}]]
    BY <1>7 DEF GetVersion
  <2>2. /\ UNCHANGED <<store, dict, ver, diskVars, dirty, lag, touched, stale>>
        /\ rd[r].pc = "getver"
    BY <1>7 DEF GetVersion, redisVars, history, writeHistory, readHistory
  <2>3. dirty \subseteq touched[r]
    BY <2>2 DEF CoherenceInv, DirtyTouched
  <2> QED
    BY <1>1, <2>1, <2>2, <2>3, ReadChange DEF Plain
<1>8. CASE QueryPage(r)
  <2>1. PICK P \in SUBSET rd[r].todo \ {{}}, src \in QuerySources :
          /\ rd' = [rd EXCEPT ![r] =
                      [pc   |-> IF P = rd[r].todo THEN "fill" ELSE "query",
                       ver  |-> rd[r].ver,
                       todo |-> rd[r].todo \ P,
                       got  |-> rd[r].got \cup (src \cap P)]]
          /\ PageLags(r, P)
    BY <1>8 DEF QueryPage
  <2>2. UNCHANGED <<store, dict, ver, diskVars, dirty, stale>> /\ rd[r].pc = "query"
    BY <1>8 DEF QueryPage, redisVars, writeHistory
  <2>3. /\ \A q \in Readers \ {r} : lag'[q] = lag[q] /\ touched'[q] = touched[q]
        /\ lag'[r] = lag[r] \cup (P \cap Lagging)
        /\ touched'[r] = touched[r] \cup (P \cap Lagging)
    BY <2>1 DEF PageLags, TypeOK
  <2>4. dirty \subseteq touched'[r]
    BY <2>2, <2>3 DEF CoherenceInv, DirtyTouched
  <2>5. \A w \in P \ Lagging : w \in src <=> w \in store
    BY DEF QuerySources, Lagging, ChangedBy
  <2>6. rd[r].got \cap rd[r].todo = {} /\ P \subseteq rd[r].todo
    BY <2>1 DEF TypeOK
  <2>7. rd[r].ver = ver =>
          \A w \in Plain \ ((rd[r].todo \ P) \cup dirty \cup lag'[r]) :
             w \in rd[r].got \cup (src \cap P) <=> w \in store
    <3>1. SUFFICES ASSUME rd[r].ver = ver,
                          NEW w \in Plain \ ((rd[r].todo \ P) \cup dirty \cup lag'[r])
                   PROVE  w \in rd[r].got \cup (src \cap P) <=> w \in store
      OBVIOUS
    <3>2. CASE w \in P
      BY <2>3, <2>5, <2>6, <3>1, <3>2
    <3>3. CASE w \notin P
      BY <2>2, <2>3, <3>1, <3>3 DEF CoherenceInv, FreshFills
    <3> QED
      BY <3>2, <3>3
  <2>8. \A w \in Plain \ ((rd[r].todo \ P) \cup touched'[r]) :
           w \in rd[r].got \cup (src \cap P) <=> w \in store
    <3>1. SUFFICES ASSUME NEW w \in Plain \ ((rd[r].todo \ P) \cup touched'[r])
                   PROVE  w \in rd[r].got \cup (src \cap P) <=> w \in store
      OBVIOUS
    <3>2. CASE w \in P
      BY <2>3, <2>5, <2>6, <3>1, <3>2
    <3>3. CASE w \notin P
      BY <2>2, <2>3, <3>1, <3>3 DEF CoherenceInv, FreshReads
    <3> QED
      BY <3>2, <3>3
  <2> QED
    BY <1>1, <2>1, <2>2, <2>3, <2>4, <2>7, <2>8, ReadChange
<1>9. CASE QueryFails(r)
  BY <1>1, <1>2, <1>9 DEF QueryFails, redisVars, writeHistory
<1>10. CASE Watch(r)
  <2>1. UNCHANGED <<store, dict, ver, diskVars, dirty, stale>> /\ rd[r].pc = "fill"
    BY <1>10 DEF Watch, redisVars, writeHistory
  <2>2. CASE ReadEnds(r)
    BY <1>1, <1>2, <2>1, <2>2
  <2>3. CASE rd' = [rd EXCEPT ![r].pc = "exec"] /\ UNCHANGED readHistory
    <3>1. UNCHANGED <<lag, touched>>
      BY <2>3 DEF readHistory
    <3>2. dirty \subseteq touched[r]
      BY <2>1 DEF CoherenceInv, DirtyTouched
    <3>3. PICK s : s = [rd[r] EXCEPT !.pc = "exec"]
      OBVIOUS
    <3>4. s.ver = rd[r].ver /\ s.todo = rd[r].todo /\ s.got = rd[r].got /\ s.pc = "exec"
      BY <1>3, <3>3 DEF ReaderState
    <3>5. rd' = [rd EXCEPT ![r] = s]
      BY <2>3, <3>3
    <3>6. rd[r].ver = ver => \A w \in Plain \ (rd[r].todo \cup dirty \cup lag[r]) :
                                w \in rd[r].got <=> w \in store
      BY <2>1 DEF CoherenceInv, FreshFills
    <3>7. \A w \in Plain \ (rd[r].todo \cup touched[r]) : w \in rd[r].got <=> w \in store
      BY <2>1 DEF CoherenceInv, FreshReads
    <3> QED
      BY <1>1, <2>1, <3>1, <3>2, <3>4, <3>5, <3>6, <3>7, ReadChange
  <2> QED
    BY <1>10, <2>2, <2>3 DEF Watch
<1>11. CASE Exec(r)
  <2>1. UNCHANGED <<store, ver, diskVars, dirty>> /\ ReadEnds(r) /\ rd[r].pc = "exec"
    BY <1>11 DEF Exec, writeHistory
  <2>2. CASE UNCHANGED <<dict, stale>>
    BY <1>1, <1>2, <2>1, <2>2
  <2>3. CASE ExecAllowed(r) /\ SetMembers(rd[r].got) /\ stale' = lag[r]
    <3>1. rd[r].todo = {} /\ rd[r].ver = ver
      BY <2>1, <2>3 DEF TypeOK, ExecAllowed
    <3>2. \A w \in Plain \ (dirty \cup lag[r]) : w \in rd[r].got <=> w \in store
      BY <2>1, <3>1 DEF CoherenceInv, FreshFills
    <3>3. \A w \in Plain \ (dirty \cup stale') : w \in dict' <=> w \in store
      BY <2>3, <3>2 DEF SetMembers, Plain
    <3>4. Coherent'
      BY <2>1, <3>3 DEF Coherent
    <3> QED
      BY <1>2, <2>1, <3>4
  <2> QED
    BY <1>11, <2>2, <2>3 DEF Exec
<1> QED
  BY <1>5, <1>6, <1>7, <1>8, <1>9, <1>10, <1>11 DEF ReaderStep

(* Every step of the specification.                                        *)
LEMMA CoherenceStep == TypeOK /\ CoherenceInv /\ [Next]_vars => CoherenceInv'
<1> SUFFICES ASSUME TypeOK, CoherenceInv, [Next]_vars PROVE CoherenceInv'
  OBVIOUS
<1>1. CASE Expire \/ Replicate \/ UNCHANGED vars
  BY <1>1, KeyChange DEF Expire, Del, Replicate, vars, redisVars, history, writeHistory
<1> QED
  BY <1>1, CoherenceWriter, CoherenceReader, FsyncChange, CrashChange DEF Next

(* The cached set disagrees with the store on no words but those that wait *)
(* for a bump and those the lagging copy had wrong when a page of the fill *)
(* was read: no interleaving of fills, writes, clears, expiry, failures    *)
(* and crashes leaves another stale entry behind a bump (service.go:96).   *)
THEOREM CacheCoherent == Spec => []Coherent
<1>1. Coherent /\ CoherenceInv <=> CoherenceInv
  BY DEF CoherenceInv
<1> QED
  BY <1>1, CoherenceInit, CoherenceStep, TypeCorrect, PTL DEF Spec

(* Every answer of GetWordSet is right about every word that is neither    *)
(* being changed nor lagging in the copy, from the cache or from the       *)
(* store, however many pages the query takes.                              *)
THEOREM AnswersRegular == Spec => []RegularReads
<1>1. TypeOK /\ CoherenceInv => RegularReads
  BY DEF TypeOK, CoherenceInv, FreshReads, RegularReads
<1> QED
  BY <1>1, CoherenceInit, CoherenceStep, TypeCorrect, PTL DEF Spec

-----------------------------------------------------------------------------
(* Answered writes.                                                        *)

(* Initially no word is dirty.                                             *)
LEMMA DirtyPendingInit == Init => DirtyPending
  BY DEF Init, DirtyPending, WriterIdle

(* One request p moves to a record s; lost words stay lost, and the dirty  *)
(* ones that p leaves behind become so.                                    *)
LEMMA PendingChange ==
  ASSUME TypeOK, DirtyPending, NEW p \in Writers, NEW s, NEW W,
         wr' = [wr EXCEPT ![p] = s],
         s.pc \in {"idle", "list"} => s.changed = {},
         lost \subseteq lost',
         dirty' \subseteq dirty \cup W,
         (wr[p].changed \cup W) \cap dirty' \subseteq s.changed \cup lost'
  PROVE  DirtyPending'
<1>1. \A q \in Writers : wr'[q] = IF q = p THEN s ELSE wr[q]
  BY DEF TypeOK
<1>2. s.changed \subseteq Pending'
  BY <1>1 DEF Pending
<1>3. \A q \in Writers \ {p} : wr[q].changed \subseteq Pending'
  BY <1>1 DEF Pending
<1>4. ASSUME NEW w \in dirty' PROVE w \in Pending' \cup lost'
  <2>1. CASE w \in wr[p].changed \cup W
    BY <1>2, <1>4, <2>1
  <2>2. CASE w \notin wr[p].changed \cup W
    <3>1. w \in Pending \cup lost
      BY <1>4, <2>2 DEF DirtyPending
    <3>2. CASE w \in lost
      BY <3>2
    <3>3. CASE w \in Pending
      BY <1>3, <2>2, <3>3 DEF Pending
    <3> QED
      BY <3>1, <3>2, <3>3
  <2> QED
    BY <2>1, <2>2
<1>5. \A q \in Writers : wr'[q].pc \in {"idle", "list"} => wr'[q].changed = {}
  BY <1>1 DEF DirtyPending
<1> QED
  BY <1>4, <1>5 DEF DirtyPending

(* A word is dirty from the write of a request to its bump; only what is   *)
(* lost stays dirty without a request.                                     *)
LEMMA DirtyPendingStep == TypeOK /\ DirtyPending /\ [Next]_vars => DirtyPending'
<1> SUFFICES ASSUME TypeOK, DirtyPending, [Next]_vars PROVE DirtyPending'
  OBVIOUS
<1>0. WriterIdle.pc = "idle" /\ WriterIdle.changed = {}
  BY DEF WriterIdle
<1>1. ASSUME NEW p \in Writers, NEW w \in Words, NEW S \in SUBSET Words,
             StoreThenBump(p, w, S), ChangedBy(S) \subseteq {w}
      PROVE  DirtyPending'
  <2> DEFINE s == [WriterIdle EXCEPT !.pc = "bump", !.changed = {w}]
  <2>1. s.pc = "bump" /\ s.changed = {w}
    BY DEF WriterIdle
  <2>2. wr[p].pc = "idle" /\ dirty' = dirty \cup ChangedBy(S)
    BY <1>1 DEF StoreThenBump, StoreBecomes, Accept
  <2>3. wr[p].changed = {}
    BY <2>2 DEF DirtyPending
  <2>4. CASE wr' = [wr EXCEPT ![p] = s] /\ UNCHANGED lost
    <3> HIDE DEF s
    <3> QED
      BY <1>1, <2>1, <2>2, <2>3, <2>4, PendingChange
  <2>5. CASE NoBump({w}) /\ UNCHANGED wr
    BY <1>1, <2>2, <2>5 DEF DirtyPending, Pending, NoBump
  <2> QED
    BY <1>1, <2>4, <2>5 DEF StoreThenBump
<1>2. CASE \E p \in Writers, w \in Words : AddWord(p, w) \/ RemoveWord(p, w)
  <2>1. \A w \in Words : /\ store \cup {w} \in SUBSET Words
                         /\ store \ {w} \in SUBSET Words
                         /\ ChangedBy(store \cup {w}) \subseteq {w}
                         /\ ChangedBy(store \ {w}) \subseteq {w}
    BY DEF TypeOK, ChangedBy
  <2> QED
    BY <1>1, <1>2, <2>1 DEF AddWord, RemoveWord
<1>3. ASSUME NEW p \in Writers, BumpAndInvalidate(p) PROVE DirtyPending'
  <2>1. wr' = [wr EXCEPT ![p] = WriterIdle]
    BY <1>3 DEF BumpAndInvalidate, WriterEnds
  <2>2. CASE IncrAndDel
    <3>1. \A q \in Writers : wr'[q] = IF q = p THEN WriterIdle ELSE wr[q]
      BY <2>1 DEF TypeOK
    <3> QED
      BY <1>0, <2>2, <3>1 DEF IncrAndDel, DirtyPending
  <2>3. CASE UNCHANGED dirty /\ NoBump(wr[p].changed)
    BY <1>0, <2>1, <2>3, PendingChange DEF NoBump
  <2> QED
    BY <1>3, <2>2, <2>3 DEF BumpAndInvalidate
<1>4. ASSUME NEW p \in Writers, ClearAll(p) PROVE DirtyPending'
  <2> DEFINE s == [WriterIdle EXCEPT !.pc = "list", !.todo = Words]
  <2>1. s.pc = "list" /\ s.changed = {}
    BY DEF WriterIdle
  <2>2. wr' = [wr EXCEPT ![p] = s] /\ UNCHANGED <<dirty, lost>> /\ wr[p].pc = "idle"
    BY <1>4 DEF ClearAll, Accept, history, writeHistory
  <2>3. wr[p].changed = {}
    BY <2>2 DEF DirtyPending
  <2> HIDE DEF s
  <2> QED
    BY <2>1, <2>2, <2>3, PendingChange
<1>5. ASSUME NEW p \in Writers, ClearListPage(p) PROVE DirtyPending'
  <2>1. PICK P \in SUBSET wr[p].todo \ {{}}, src \in QuerySources :
          LET todo == wr[p].todo \ P
              got  == wr[p].got \cup (src \cap P)
              pc   == IF todo # {} THEN "list" ELSE IF got # {} THEN "batch" ELSE "del"
          IN  wr' = [wr EXCEPT ![p] = [wr[p] EXCEPT !.pc = pc, !.todo = todo, !.got = got]]
    BY <1>5 DEF ClearListPage
  <2>2. PICK s : /\ wr' = [wr EXCEPT ![p] = s]
                 /\ \E pc, todo, got :
                       s = [wr[p] EXCEPT !.pc = pc, !.todo = todo, !.got = got]
    BY <2>1
  <2>3. s.changed = wr[p].changed
    BY <2>2 DEF TypeOK, WriterState
  <2>4. wr[p].changed = {} /\ UNCHANGED <<dirty, lost>>
    BY <1>5 DEF ClearListPage, DirtyPending, history, writeHistory
  <2> QED
    BY <2>2, <2>3, <2>4, PendingChange
<1>6. ASSUME NEW p \in Writers, ClearListFails(p) PROVE DirtyPending'
  <2>1. /\ wr' = [wr EXCEPT ![p] = WriterIdle]
        /\ UNCHANGED <<dirty, lost>>
        /\ wr[p].changed = {}
    BY <1>6 DEF ClearListFails, WriterEnds, DirtyPending, history, writeHistory
  <2> QED
    BY <1>0, <2>1, PendingChange
<1>7. ASSUME NEW p \in Writers, BatchWriteItem(p) PROVE DirtyPending'
  <2>1. PICK B \in NextBatches(p) : \E P \in SUBSET B \ {{}} :
          LET changed == wr[p].changed \cup P
              pc      == IF B \ P = {} /\ wr[p].got \ B = {} THEN "del" ELSE "batch"
          IN  /\ StoreBecomes(store \ P)
              /\ \/ /\ wr' = [wr EXCEPT ![p] = [pc |-> pc, changed |-> changed,
                                                todo |-> B \ P, got |-> wr[p].got \ B]]
                    /\ UNCHANGED lost
                 \/ WriterEnds(p) /\ NoBump(changed)
    BY <1>7 DEF BatchWriteItem
  <2>2. PICK P \in SUBSET B \ {{}} :
          LET changed == wr[p].changed \cup P
              pc      == IF B \ P = {} /\ wr[p].got \ B = {} THEN "del" ELSE "batch"
          IN  /\ StoreBecomes(store \ P)
              /\ \/ /\ wr' = [wr EXCEPT ![p] = [pc |-> pc, changed |-> changed,
                                                todo |-> B \ P, got |-> wr[p].got \ B]]
                    /\ UNCHANGED lost
                 \/ WriterEnds(p) /\ NoBump(changed)
    BY <2>1
  <2>3. dirty' = dirty \cup ChangedBy(store \ P)
    BY <2>2 DEF StoreBecomes
  <2>4. ChangedBy(store \ P) \subseteq P
    BY DEF ChangedBy
  <2>5. CASE WriterEnds(p) /\ NoBump(wr[p].changed \cup P)
    BY <1>0, <2>3, <2>4, <2>5, PendingChange DEF WriterEnds, NoBump
  <2>6. ASSUME NEW s, wr' = [wr EXCEPT ![p] = s], s.pc \in {"del", "batch"},
               s.changed = wr[p].changed \cup P, UNCHANGED lost
        PROVE  DirtyPending'
    BY <2>3, <2>4, <2>6, PendingChange
  <2> QED
    BY <2>2, <2>5, <2>6
<1>8. ASSUME NEW p \in Writers, Invalidate(p) PROVE DirtyPending'
  <2>1. /\ wr' = [wr EXCEPT ![p] = WriterIdle]
        /\ UNCHANGED dirty
        /\ NoBump(wr[p].changed)
    BY <1>8 DEF Invalidate, WriterEnds
  <2> QED
    BY <1>0, <2>1, PendingChange DEF NoBump
<1>9. ASSUME UNCHANGED <<wr, dirty, lost>> PROVE DirtyPending'
  BY <1>9 DEF DirtyPending, Pending
<1>10. ASSUME NEW r \in Readers, GetWords(r) \/ ReaderStep(r)
       PROVE  UNCHANGED <<wr, dirty, lost>>
  BY <1>10 DEF ReaderStep, GetWords, Hit, GetVersion, QueryPage, QueryFails, Watch, Exec,
               history, writeHistory
<1>11. CASE Crash
  <2>1. dirty' = lost' /\ \A q \in Writers : wr'[q] = WriterIdle
    BY <1>11 DEF Crash
  <2> QED
    BY <1>0, <2>1 DEF DirtyPending
<1>12. CASE Expire \/ Replicate \/ Fsync \/ UNCHANGED vars
  BY <1>9, <1>12 DEF Expire, Replicate, Fsync, vars, history, writeHistory
<1> QED
  BY <1>2, <1>3, <1>4, <1>5, <1>6, <1>7, <1>8, <1>9, <1>10, <1>11, <1>12
     DEF Next, Request, WriterStep

(* A write that was answered is visible through the cache from then on,    *)
(* whatever fills were in flight, unless its bump was never made or the    *)
(* copy that the set was filled from was behind on the word                *)
(* (handler.go:28).                                                        *)
THEOREM WritesVisible == Spec => []AckedWritesVisible
<1>1. Coherent /\ DirtyPending => AckedWritesVisible
  BY DEF Coherent, DirtyPending, AckedWritesVisible
<1> QED
  BY <1>1, DirtyPendingInit, DirtyPendingStep, CacheCoherent, TypeCorrect, PTL DEF Spec
=============================================================================
