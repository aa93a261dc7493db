---------------------------- MODULE TieredCache ----------------------------
(***************************************************************************)
(* The cache of LanguageTool's answers: in every API process a small       *)
(* in-memory cache (lru.go) in front of the Redis all processes share      *)
(* (redis.go), joined by tiered.go and used by the check handlers          *)
(* (languagetool/handler.go, ws/conn.go): look in the first tier, then in  *)
(* the second and copy what is found into the first, else ask LanguageTool *)
(* and leave a goroutine to write both tiers, the second first.            *)
(*                                                                         *)
(* Keys meet only when the first tier is full and when a prefix of them is *)
(* cleared, so the module follows one of them; the others appear as        *)
(* evictions.  Every answer of LanguageTool has a number, the order in     *)
(* which they came.                                                        *)
(***************************************************************************)
EXTENDS Integers, Sequences, FiniteSets

CONSTANTS
    Processes,  \* API processes that share the Redis
    Slots,      \* per process: slots for a check request and the fill it leaves
    Prefix,     \* what the key is for: "lt:check" for checks over HTTP, "lt:ws"
                \* for those over a connection, "lt:languages"
    L1TTL,      \* time to live in the first tier (5 minutes)
    L2TTL,      \* time to live in the second tier (30 minutes)
    CallTime,   \* a request and a fill have returned or timed out in this time
    Disturbed,  \* do calls fail, keys get evicted and processes restart?
    MaxTime,    \* bound on the clock
    MaxAnswers, \* bound on the answers of LanguageTool
    MaxClears   \* bound on the calls of ClearCache

ASSUME TieredCacheAssumption ==
    /\ Prefix \in {"lt:check", "lt:ws", "lt:languages"}
    /\ L1TTL \in Nat \ {0} /\ L2TTL \in Nat \ {0} /\ CallTime \in Nat
    /\ Disturbed \in BOOLEAN
    /\ MaxTime \in Nat /\ MaxAnswers \in Nat /\ MaxClears \in Nat

VARIABLES
    now,       \* the clock
    l1,        \* the entry of the key in every process's first tier
    l2,        \* its entry in Redis
    call,      \* the check requests and fills in progress
    clear,     \* the ClearCache request in progress in every process
    clears,    \* the number of ClearCache requests so far
    born,      \* history: when each answer was given by LanguageTool
    settled,   \* history: answers those requests have to remove
    forgotten, \* history: answers removed by clears
    stored     \* history: answers that have been in Redis

tiers == <<l1, l2>>
clearVars == <<clear, clears, settled, forgotten>>
vars == <<now, l1, l2, call, clear, clears, born, settled, forgotten, stored>>

-----------------------------------------------------------------------------
Answers == 1..Len(born)

Entry(answer, exp) == [answer |-> answer, exp |-> exp]
NoEntry == Entry(0, 0)
Live(e) == e # NoEntry /\ now <= e.exp

(* A request or fill: when it began (or, once it has its answer, when it   *)
(* got it) and the answer.  "set2" and "set1" belong to the goroutine that *)
(* outlives the request.                                                   *)
Calls == Processes \X Slots
Process(c) == c[1]

Answered == {"backfill", "set2", "set1", "served"}

CallState == [pc : {"idle", "get2", "ask"} \cup Answered, at : Nat, answer : Nat]
CallIdle == [pc |-> "idle", at |-> 0, answer |-> 0]

ClearState == [pc : {"idle", "keys", "del"}, found : BOOLEAN]
ClearIdle == [pc |-> "idle", found |-> FALSE]

Becomes(c, pc, answer) ==
    call' = [call EXCEPT ![c] = [pc |-> pc, at |-> call[c].at, answer |-> answer]]

Served(c, answer) ==
    call' = [call EXCEPT ![c] = [pc |-> "served", at |-> now, answer |-> answer]]

Returns(c) == call' = [call EXCEPT ![c] = CallIdle]

Init ==
    /\ now = 0
    /\ l1 = [p \in Processes |-> NoEntry]
    /\ l2 = NoEntry
    /\ call = [c \in Calls |-> CallIdle]
    /\ clear = [p \in Processes |-> ClearIdle]
    /\ clears = 0
    /\ born = <<>>
    /\ settled = [p \in Processes |-> {}]
    /\ forgotten = {} /\ stored = {}

-----------------------------------------------------------------------------
(* LRUCache.Set: never longer than the tier's own time to live.            *)
Uncapped(ttl) == ttl   \* mutant: the caller's time to live as it is

Effective(ttl) == IF ttl <= 0 \/ ttl > L1TTL THEN L1TTL ELSE ttl

L1Set(p, answer, ttl) ==
    l1' = [l1 EXCEPT ![p] = Entry(answer, now + Effective(ttl))]

(* LRUCache.Get: an entry past its time is dropped, a live one keeps it.   *)
GetRenewed(p) ==   \* mutant: a hit makes the entry live longer
    IF Live(l1[p]) THEN Entry(l1[p].answer, now + L1TTL) ELSE NoEntry

GetKept(p) == IF Live(l1[p]) THEN l1[p] ELSE NoEntry

-----------------------------------------------------------------------------
(* A check request arrives and looks in the first tier.                    *)
Get(c) ==
    LET p == Process(c) IN
    /\ call[c].pc = "idle"
    /\ l1' = [l1 EXCEPT ![p] = GetKept(p)]
    /\ IF Live(l1[p]) THEN Served(c, l1[p].answer)
       ELSE call' = [call EXCEPT ![c] = [pc |-> "get2", at |-> now, answer |-> 0]]
    /\ UNCHANGED <<now, l2, clearVars, born, stored>>

(* It looks in Redis; an error counts as a miss.                           *)
GetL2(c) ==
    /\ call[c].pc = "get2"
    /\ \/ /\ Live(l2)
          /\ Becomes(c, "backfill", l2.answer)
          /\ settled' = [p \in Processes |-> settled[p] \ {l2.answer}]
       \/ /\ ~Live(l2) \/ Disturbed
          /\ Becomes(c, "ask", 0)
          /\ UNCHANGED settled
    /\ UNCHANGED <<now, tiers, clear, clears, born, forgotten, stored>>

Backfill(c) ==
    /\ call[c].pc = "backfill"
    /\ L1Set(Process(c), call[c].answer, L1TTL)
    /\ Served(c, call[c].answer)
    /\ UNCHANGED <<now, l2, clearVars, born, stored>>

(* LanguageTool answers, the request is served and a goroutine begins; or  *)
(* it fails and the request ends with an error.                            *)
Ask(c) ==
    /\ call[c].pc = "ask"
    /\ \/ /\ Len(born) < MaxAnswers
          /\ born' = Append(born, now)
          /\ call' = [call EXCEPT ![c] = [pc |-> "set2", at |-> now, answer |-> Len(born) + 1]]
       \/ Returns(c) /\ UNCHANGED born
    /\ UNCHANGED <<now, tiers, clearVars, stored>>

(* TieredCache.Set: Redis first, the first tier only after it confirmed.   *)
(* A call that fails or times out may have been applied, and go-redis      *)
(* repeats one whose answer it misses (MaxRetries, redis.go:31).           *)
RedisSet(c) ==
    /\ l2' = Entry(call[c].answer, now + L2TTL)
    /\ stored' = stored \cup {call[c].answer}

SetL2GoesOn(c) ==   \* mutant: the error of the second tier is ignored
    /\ call[c].pc = "set2"
    /\ RedisSet(c) \/ (Disturbed /\ UNCHANGED <<l2, stored>>)
    /\ Becomes(c, "set1", call[c].answer)
    /\ UNCHANGED <<now, l1, clearVars, born>>

SetL2(c) ==
    /\ call[c].pc = "set2"
    /\ \/ RedisSet(c) /\ Becomes(c, "set1", call[c].answer)
       \/ /\ Disturbed
          /\ RedisSet(c) \/ UNCHANGED <<l2, stored>>
          /\ Returns(c)
       \/ Disturbed /\ RedisSet(c) /\ UNCHANGED call
    /\ UNCHANGED <<now, l1, clearVars, born>>

SetL1(c) ==
    /\ call[c].pc = "set1"
    /\ L1Set(Process(c), call[c].answer, L2TTL)
    /\ Returns(c)
    /\ UNCHANGED <<now, l2, clearVars, born, stored>>

(* The request is filtered for its client and answered.                    *)
Finish(c) ==
    /\ call[c].pc = "served"
    /\ Returns(c)
    /\ UNCHANGED <<now, tiers, clearVars, born, stored>>

-----------------------------------------------------------------------------
(* ClearCache deletes the keys of its prefix from its process's first      *)
(* tier, asks Redis for those it has and deletes them.                     *)
Matched == Prefix = "lt:check"

(* settled starts with the answers that nobody else holds, no call that    *)
(* will write them and no other process; it loses those a call reads from  *)
(* Redis meanwhile.                                                        *)
Writing ==
    {call[c].answer : c \in {d \in Calls : call[d].pc \in {"backfill", "set2", "set1"}}}

ClearBegins(p) ==
    /\ clear[p].pc = "idle"
    /\ clears < MaxClears
    /\ clears' = clears + 1
    /\ clear' = [clear EXCEPT ![p] = [pc |-> "keys", found |-> FALSE]]
    /\ settled' = [settled EXCEPT ![p] =
                     Answers \ (Writing \cup {l1[q].answer : q \in Processes \ {p}})]
    /\ UNCHANGED <<now, l2, call, born, forgotten, stored>>

ClearEnds(p) ==
    /\ clear' = [clear EXCEPT ![p] = ClearIdle]
    /\ settled' = [settled EXCEPT ![p] = {}]

ClearL2Only(p) == ClearBegins(p) /\ UNCHANGED l1   \* mutant: Redis alone is cleared

ClearL1(p) ==
    /\ ClearBegins(p)
    /\ l1' = IF Matched THEN [l1 EXCEPT ![p] = NoEntry] ELSE l1

ClearKeys(p) ==
    /\ clear[p].pc = "keys"
    /\ clear' = [clear EXCEPT ![p] = [pc |-> "del", found |-> Matched /\ Live(l2)]]
    /\ UNCHANGED <<now, tiers, call, clears, born, settled, forgotten, stored>>

ClearDel(p) ==
    /\ clear[p].pc = "del"
    /\ l2' = IF clear[p].found THEN NoEntry ELSE l2
    /\ forgotten' = forgotten \cup settled[p]
    /\ ClearEnds(p)
    /\ UNCHANGED <<now, l1, call, clears, born, stored>>

(* An error of Redis ends the request with a 500.                          *)
ClearFails(p) ==
    /\ Disturbed
    /\ clear[p].pc # "idle"
    /\ l2' \in {l2} \cup IF clear[p].found THEN {NoEntry} ELSE {}
    /\ ClearEnds(p)
    /\ UNCHANGED <<now, l1, call, clears, born, forgotten, stored>>

-----------------------------------------------------------------------------
(* The environment.  Other keys push the entry out of a full first tier,   *)
(* Redis frees memory, and a process that restarts loses its first tier    *)
(* and the calls it was serving.                                           *)
EvictL1(p) ==
    /\ Disturbed
    /\ l1[p] # NoEntry
    /\ l1' = [l1 EXCEPT ![p] = NoEntry]
    /\ UNCHANGED <<now, l2, call, clearVars, born, stored>>

EvictL2 ==
    /\ Disturbed
    /\ l2 # NoEntry
    /\ l2' = NoEntry
    /\ UNCHANGED <<now, l1, call, clearVars, born, stored>>

Restart(p) ==
    /\ Disturbed
    /\ l1' = [l1 EXCEPT ![p] = NoEntry]
    /\ call' = [c \in Calls |-> IF Process(c) = p THEN CallIdle ELSE call[c]]
    /\ ClearEnds(p)
    /\ UNCHANGED <<now, l2, clears, born, forgotten, stored>>

(* Time passes, but no further than the calls in progress may take.  An    *)
(* entry of Redis disappears when its time is over.                        *)
Busy == {c \in Calls : call[c].pc \notin {"idle", "served"}}

Tick ==
    /\ now < MaxTime
    /\ \A c \in Busy : now < call[c].at + CallTime
    /\ now' = now + 1
    /\ l2' = IF now < l2.exp THEN l2 ELSE NoEntry
    /\ UNCHANGED <<l1, call, clearVars, born, stored>>

-----------------------------------------------------------------------------
CallStep(c) ==
    \/ Get(c)
    \/ GetL2(c)
    \/ Backfill(c)
    \/ Ask(c)
    \/ SetL2(c)
    \/ SetL1(c)
    \/ Finish(c)

ClearStep(p) == ClearL1(p) \/ ClearKeys(p) \/ ClearDel(p) \/ ClearFails(p)

Next ==
    \/ \E c \in Calls : CallStep(c)
    \/ \E p \in Processes : ClearStep(p) \/ EvictL1(p) \/ Restart(p)
    \/ EvictL2
    \/ Tick

Spec == Init /\ [][Next]_vars

-----------------------------------------------------------------------------
(* TypeOK: the variables have their types, and no entry lives longer than  *)
(* its tier allows, whoever wrote it (lru.go:62).                          *)
EntryState == [answer : Nat, exp : Nat]
Filled(e, ttl) == e.answer \in Answers /\ e.exp <= now + ttl

TypeOK ==
    /\ now \in Nat
    /\ l1 \in [Processes -> EntryState] /\ l2 \in EntryState
    /\ l2 = NoEntry \/ Filled(l2, L2TTL)
    /\ \A p \in Processes : l1[p] = NoEntry \/ Filled(l1[p], L1TTL)
    /\ call \in [Calls -> CallState]
    /\ \A c \in Calls :
         /\ call[c].at <= now
         /\ IF call[c].pc \in Answered THEN call[c].answer \in Answers
                                       ELSE call[c].answer = 0
    /\ clear \in [Processes -> ClearState]
    /\ clears \in Nat
    /\ born \in Seq(Nat) /\ \A n \in Answers : born[n] <= now
    /\ settled \in [Processes -> SUBSET Answers]
    /\ forgotten \subseteq Answers /\ stored \subseteq Answers

(* AnswersFresh: however often an answer is looked up, copied between the  *)
(* tiers and written late, what a request is served from the cache is not  *)
(* older than both times to live together with the time of the two calls   *)
(* that carried it: the write to Redis and the copy back.                  *)
MaxAge == L2TTL + L1TTL + 2 * CallTime

AnswersFresh ==
    \A c \in Calls : call[c].pc = "served" =>
        call[c].at - born[call[c].answer] <= MaxAge

(* Why: the ages of what calls carry and tiers hold, one call further back *)
(* from the moment a request is served each.                               *)
OnTime == \A c \in Busy : now <= call[c].at + CallTime

FreshCalls ==
    \A c \in Calls :
        /\ call[c].pc \in {"set2", "set1"} => call[c].at = born[call[c].answer]
        /\ call[c].pc = "backfill" =>
              call[c].at <= born[call[c].answer] + L2TTL + CallTime

FreshTiers ==
    /\ l2 # NoEntry => l2.exp <= born[l2.answer] + (L2TTL + CallTime)
    /\ \A p \in Processes :
         l1[p] # NoEntry => l1[p].exp <= born[l1[p].answer] + MaxAge

FreshInv == OnTime /\ FreshCalls /\ FreshTiers /\ AnswersFresh

(* ForgottenStay: an answer that was in the cache of the clearing process  *)
(* or in Redis, and that nobody was carrying from one to the other while   *)
(* the clear ran, is never served again (handler.go:157).                  *)
ForgottenStay ==
    /\ \A c \in Calls : call[c].pc # "served" => call[c].answer \notin forgotten
    /\ \A p \in Processes : Live(l1[p]) => l1[p].answer \notin forgotten
    /\ l2.answer \notin forgotten

(* Why: nobody carries a forgotten answer, nor one that a clear in         *)
(* progress has to remove; those are in no first tier, and in Redis only   *)
(* while the clear is going to delete the key.  Redis drops entries in     *)
(* time, so the key the clear does not find is not there.                  *)
ForgottenGone ==
    /\ \A c \in Calls : call[c].pc # "served" => call[c].answer \notin forgotten
    /\ \A p \in Processes : l1[p].answer \notin forgotten
    /\ l2.answer \notin forgotten

SettledHeld ==
    \A p \in Processes :
        /\ clear[p].pc = "idle" => settled[p] = {}
        /\ \A c \in Calls : call[c].pc # "served" => call[c].answer \notin settled[p]
        /\ \A q \in Processes : l1[q].answer \notin settled[p]
        /\ clear[p].pc = "del" /\ ~clear[p].found => l2.answer \notin settled[p]

Prompt == l2 # NoEntry => now <= l2.exp

ForgottenInv == ForgottenGone /\ SettledHeld /\ Prompt

(* RedisFirst: no process has in its first tier what was never in Redis,   *)
(* so no process serves itself what it could not share (tiered.go:43).     *)
RedisFirst == \A p \in Processes : l1[p] # NoEntry => l1[p].answer \in stored

(* Why: what a call writes to a first tier has been in Redis.              *)
StoredInv ==
    /\ RedisFirst
    /\ l2 # NoEntry => l2.answer \in stored
    /\ \A c \in Calls : call[c].pc \in {"backfill", "set1"} => call[c].answer \in stored
=============================================================================
