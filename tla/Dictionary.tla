----------------------------- MODULE Dictionary -----------------------------
(***************************************************************************)
(* The custom dictionary of one client: the words live in DynamoDB        *)
(* (store.go), a Redis set in front of them serves the grammar checks      *)
(* (cache.go), and Service (service.go) keeps the two together.  A write   *)
(* changes the store and then, in one Redis transaction, increments a      *)
(* version counter and deletes the set; a read that misses the set takes   *)
(* the version, queries the store page by page and lets a goroutine write  *)
(* the set back, only if the version is still the one it took.  Clients    *)
(* never share a key, so one client stands for all of them.                *)
(*                                                                         *)
(* A word is its lowercased form, the key both the table (sk) and the      *)
(* Redis set use.  Requests the validation rejects change nothing and are  *)
(* left out, as is the plain listing, which only queries the store.        *)
(***************************************************************************)
EXTENDS Integers, FiniteSets

CONSTANTS
    Words,        \* the words a client may store, lowercased
    Sentinel,     \* the member "__loaded__" that keeps the set non-empty
    Writers,      \* slots for requests that change the dictionary
    Readers,      \* slots for one GetWordSet call and its fill goroutine
    BatchSize,    \* delete requests per BatchWriteItem call (25)
    Ops,          \* the write operations in use: "add", "remove", "clear"
    Faults,       \* the failing calls, see the definition of AllFaults
    MaxRequests,  \* bound on the number of write requests
    MaxCrashes    \* bound on the number of crashes

AllOps == {"add", "remove", "clear"}

AllFaults ==
    {"redisGet",    \* SMEMBERS or GET fails or times out
     "redisFill",   \* the fill transaction fails or runs into its 2s limit
     "redisBump",   \* the invalidation of a write fails, applied or not
     "storeList",   \* a Query page fails
     "storeWrite",  \* a write is applied, at least in part, and answers an error
     "crash"}       \* the host goes down, and Redis loses its last second

ASSUME DictionaryAssumption ==
    /\ BatchSize \in Nat \ {0}
    /\ MaxRequests \in Nat /\ MaxCrashes \in Nat
    /\ Ops \subseteq AllOps
    /\ Faults \subseteq AllFaults

VARIABLES
    store,     \* the words in the DynamoDB table
    replica,   \* the copy an eventually consistent Query may be answered from
    dict,      \* the Redis set dict:<client>; {} is the absent key
    ttl,       \* the time to live of the key dict:<client>, if it has one
    ver,       \* the Redis counter dict:ver:<client>
    log,       \* what Redis will find in its append-only file after a crash
    crashes,   \* crashes so far
    requests,  \* write requests accepted so far
    wr,        \* the write requests in progress
    rd,        \* the reads and fills in progress
    dirty,     \* history: words changed since the last applied version bump
    lost,      \* history: those of them nobody is going to bump the version for
    lag,       \* history, per read: words its pages may have wrong, see QueryPage
    stale,     \* history: those of the fill that wrote the cached set
    touched    \* history, per read: words it may have wrong, see RegularReads

redisVars == <<dict, ttl, ver>>
diskVars == <<log, crashes>>
writeHistory == <<dirty, lost>>
readHistory == <<lag, touched>>
history == <<writeHistory, readHistory, stale>>
vars == <<store, replica, redisVars, diskVars, requests, wr, rd, history>>

-----------------------------------------------------------------------------
(* A write request: the words it has changed so far, the words of the      *)
(* current listing or batch still to go, and the listed words to delete.   *)
WriterState == [pc : {"idle", "bump", "list", "batch", "del"},
                changed : SUBSET Words, todo : SUBSET Words, got : SUBSET Words]
WriterIdle == [pc |-> "idle", changed |-> {}, todo |-> {}, got |-> {}]

(* A read: its version snapshot, the words no page has covered yet, and    *)
(* the words found.  From "fill" on GetWordSet has returned and the record *)
(* is that of the goroutine it left behind.                                *)
ReaderState == [pc : {"idle", "hit", "getver", "query", "fill", "exec"},
                ver : Nat, todo : SUBSET Words, got : SUBSET Words]
ReaderIdle == [pc |-> "idle", ver |-> 0, todo |-> {}, got |-> {}]

(* Where a page of a Query comes from: the code does not ask for           *)
(* consistent reads, so any page may be served by the lagging copy.        *)
QuerySources == {store, replica}

Init ==
    /\ store \in SUBSET Words
    /\ replica = store
    /\ dict = {}
    /\ ttl = "none"
    /\ ver = 0
    /\ log = [dict |-> {}, ttl |-> "none", ver |-> 0, dirty |-> {}, stale |-> {}]
    /\ crashes = 0
    /\ requests = 0
    /\ wr = [p \in Writers |-> WriterIdle]
    /\ rd = [r \in Readers |-> ReaderIdle]
    /\ dirty = {}
    /\ lost = {}
    /\ lag = [r \in Readers |-> {}]
    /\ stale = {}
    /\ touched = [r \in Readers |-> {}]

-----------------------------------------------------------------------------
(* History bookkeeping.  StoreBecomes(S) replaces the stored words and     *)
(* records the words it changes, since the last bump (dirty), since the    *)
(* bump before the last fsync (log.dirty) and during a read; NoBump(W)     *)
(* that no bump will be made for the words of W; ReadEnds(r) forgets what  *)
(* was recorded of a read.  Lagging are the words the copy is behind on.   *)
ChangedBy(S) == (store \ S) \cup (S \ store)
Lagging == ChangedBy(replica)

StoreBecomes(S) ==
    /\ store' = S
    /\ dirty' = dirty \cup ChangedBy(S)
    /\ log' = IF crashes < MaxCrashes
              THEN [log EXCEPT !.dirty = @ \cup ChangedBy(S)] ELSE log
    /\ touched' = [r \in Readers |->
                     IF rd[r].pc = "idle" THEN {} ELSE touched[r] \cup ChangedBy(S)]

NoBump(W) == lost' = lost \cup (W \cap dirty')

ReadEnds(r) ==
    /\ rd' = [rd EXCEPT ![r] = ReaderIdle]
    /\ lag' = [lag EXCEPT ![r] = {}]
    /\ touched' = [touched EXCEPT ![r] = {}]

-----------------------------------------------------------------------------
(* Writes.                                                                 *)

Accept(p) ==
    /\ wr[p].pc = "idle"
    /\ requests < MaxRequests
    /\ requests' = requests + 1

WriterEnds(p) == wr' = [wr EXCEPT ![p] = WriterIdle]

(* AddWord and RemoveWord up to the answer of the store.  If that is an    *)
(* error the request ends there, whether or not the item was written.      *)
StoreThenBump(p, w, S) ==
    /\ Accept(p)
    /\ StoreBecomes(S)
    /\ \/ /\ wr' = [wr EXCEPT ![p] = [WriterIdle EXCEPT !.pc = "bump", !.changed = {w}]]
          /\ UNCHANGED lost
       \/ "storeWrite" \in Faults /\ NoBump({w}) /\ UNCHANGED wr
    /\ UNCHANGED <<replica, redisVars, crashes, rd, lag, stale>>

AddWord(p, w) == "add" \in Ops /\ StoreThenBump(p, w, store \cup {w})

RemoveWord(p, w) == "remove" \in Ops /\ StoreThenBump(p, w, store \ {w})

(* The transaction INCR ver, DEL dict, and the end of the request, which   *)
(* only warns when the transaction fails.                                  *)
Del ==
    /\ dict' = {}
    /\ ttl' = "none"
    /\ stale' = {}

DelOnly ==         \* mutant: fills in flight are not told
    /\ Del
    /\ dirty' = {} /\ lost' = {}
    /\ UNCHANGED ver

IncrAndDel ==
    /\ ver' = ver + 1
    /\ Del
    /\ dirty' = {} /\ lost' = {}

BumpAndInvalidate(p) ==
    /\ wr[p].pc = "bump"
    /\ \/ IncrAndDel
       \/ /\ "redisBump" \in Faults
          /\ UNCHANGED <<redisVars, dirty, stale>>
          /\ NoBump(wr[p].changed)
    /\ WriterEnds(p)
    /\ UNCHANGED <<store, replica, diskVars, requests, rd, readHistory>>

(* ClearAll lists the words, deletes what it listed in batches, repeating  *)
(* a batch with what the table left unprocessed, then deletes the set.     *)
ClearAll(p) ==
    /\ "clear" \in Ops
    /\ Accept(p)
    /\ wr' = [wr EXCEPT ![p] = [WriterIdle EXCEPT !.pc = "list", !.todo = Words]]
    /\ UNCHANGED <<store, replica, redisVars, diskVars, rd, history>>

ClearListPage(p) ==
    /\ wr[p].pc = "list"
    /\ \E P \in SUBSET wr[p].todo \ {{}}, src \in QuerySources :
         LET todo == wr[p].todo \ P
             got  == wr[p].got \cup (src \cap P)
             pc   == IF todo # {} THEN "list" ELSE IF got # {} THEN "batch" ELSE "del"
         IN  wr' = [wr EXCEPT ![p] = [@ EXCEPT !.pc = pc, !.todo = todo, !.got = got]]
    /\ UNCHANGED <<store, replica, redisVars, diskVars, requests, rd, history>>

ClearListFails(p) ==
    /\ "storeList" \in Faults
    /\ wr[p].pc = "list"
    /\ WriterEnds(p)
    /\ UNCHANGED <<store, replica, redisVars, diskVars, requests, rd, history>>

(* The delete requests of the next call: those left unprocessed by the     *)
(* last one or, when there are none, a new batch.                          *)
NextBatches(p) ==
    IF wr[p].todo # {} THEN {wr[p].todo}
    ELSE {B \in SUBSET wr[p].got \ {{}} :
            \/ Cardinality(B) = BatchSize
            \/ B = wr[p].got /\ Cardinality(B) < BatchSize}

(* The table may process only part of a call; processing none of it        *)
(* changes nothing, so P is non-empty here.                                *)
BatchWriteItem(p) ==
    /\ wr[p].pc = "batch"
    /\ \E B \in NextBatches(p) : \E P \in SUBSET B \ {{}} :
         LET todo    == B \ P
             got     == wr[p].got \ B
             changed == wr[p].changed \cup P
             pc      == IF todo = {} /\ got = {} THEN "del" ELSE "batch"
         IN  /\ StoreBecomes(store \ P)
             /\ \/ /\ wr' = [wr EXCEPT ![p] = [pc |-> pc, changed |-> changed,
                                                todo |-> todo, got |-> got]]
                   /\ UNCHANGED lost
                \/ "storeWrite" \in Faults /\ WriterEnds(p) /\ NoBump(changed)
    /\ UNCHANGED <<replica, redisVars, crashes, requests, rd, lag, stale>>

Invalidate(p) ==
    /\ wr[p].pc = "del"
    /\ \/ Del
       \/ "redisBump" \in Faults /\ UNCHANGED <<dict, ttl, stale>>
    /\ UNCHANGED dirty /\ NoBump(wr[p].changed)
    /\ WriterEnds(p)
    /\ UNCHANGED <<store, replica, ver, diskVars, requests, rd, readHistory>>

-----------------------------------------------------------------------------
(* Reads: GetWordSet and the goroutine that fills the set.                 *)

(* GetWords asks for the members of the set.  An absent key, like an       *)
(* error, is a miss.                                                       *)
GetWords(r) ==
    /\ rd[r].pc = "idle"
    /\ \/ /\ dict # {}
          /\ rd' = [rd EXCEPT ![r] =
                      [pc |-> "hit", ver |-> 0, todo |-> {}, got |-> dict \ {Sentinel}]]
          /\ touched' = [touched EXCEPT ![r] = dirty \cup stale]
       \/ /\ dict = {} \/ "redisGet" \in Faults
          /\ rd' = [rd EXCEPT ![r] = [ReaderIdle EXCEPT !.pc = "getver"]]
          /\ touched' = [touched EXCEPT ![r] = dirty]
    /\ UNCHANGED <<store, replica, redisVars, diskVars, requests, wr, writeHistory, lag, stale>>

(* It then reads the version: the call returns the members it has, or      *)
(* drops them if reading the version fails.                                *)
Hit(r) ==
    /\ rd[r].pc = "hit"
    /\ \/ ReadEnds(r)
       \/ /\ "redisGet" \in Faults
          /\ rd' = [rd EXCEPT ![r] = [ReaderIdle EXCEPT !.pc = "getver"]]
          /\ UNCHANGED readHistory
    /\ UNCHANGED <<store, replica, redisVars, diskVars, requests, wr, writeHistory, stale>>

(* The snapshot of the version a miss takes before it queries the store;   *)
(* it is 0 when reading it fails.                                          *)
Snapshots == {ver} \cup IF "redisGet" \in Faults THEN {0} ELSE {}

GetVersion(r) ==
    /\ rd[r].pc = "getver"
    /\ \E v \in Snapshots :
         rd' = [rd EXCEPT ![r] =
                  [pc |-> "query", ver |-> v, todo |-> Words, got |-> {}]]
    /\ UNCHANGED <<store, replica, redisVars, diskVars, requests, wr, history>>

(* One page of the Query.  After the last one the call returns the words   *)
(* found and leaves the fill to a goroutine.  PageLags(r, P) records the   *)
(* words of the page that the copy is behind on.                           *)
PageLags(r, P) ==
    /\ lag' = [lag EXCEPT ![r] = @ \cup (P \cap Lagging)]
    /\ touched' = [touched EXCEPT ![r] = @ \cup (P \cap Lagging)]

QueryFirstPage(r) ==   \* mutant: LastEvaluatedKey is not followed
    /\ rd[r].pc = "query"
    /\ \E P \in SUBSET rd[r].todo \ {{}}, src \in QuerySources :
         /\ rd' = [rd EXCEPT ![r] =
                     [@ EXCEPT !.pc = "fill", !.todo = {}, !.got = src \cap P]]
         /\ PageLags(r, P)
    /\ UNCHANGED <<store, replica, redisVars, diskVars, requests, wr, writeHistory, stale>>

QueryPage(r) ==
    /\ rd[r].pc = "query"
    /\ \E P \in SUBSET rd[r].todo \ {{}}, src \in QuerySources :
         /\ rd' = [rd EXCEPT ![r] =
                     [pc   |-> IF P = rd[r].todo THEN "fill" ELSE "query",
                      ver  |-> rd[r].ver,
                      todo |-> rd[r].todo \ P,
                      got  |-> rd[r].got \cup (src \cap P)]]
         /\ PageLags(r, P)
    /\ UNCHANGED <<store, replica, redisVars, diskVars, requests, wr, writeHistory, stale>>

(* A failed Query ends the call with no words: checks go on unfiltered.    *)
QueryFails(r) ==
    /\ "storeList" \in Faults
    /\ rd[r].pc = "query"
    /\ ReadEnds(r)
    /\ UNCHANGED <<store, replica, redisVars, diskVars, requests, wr, writeHistory, stale>>

(* SetMembersIfVersion: under WATCH the goroutine compares the version     *)
(* with its snapshot and gives up if they differ.                          *)
VersionUnchanged(r) == ver = rd[r].ver

Watch(r) ==
    /\ rd[r].pc = "fill"
    /\ \/ /\ VersionUnchanged(r)
          /\ rd' = [rd EXCEPT ![r].pc = "exec"]
          /\ UNCHANGED readHistory
       \/ /\ ~VersionUnchanged(r) \/ "redisFill" \in Faults
          /\ ReadEnds(r)
    /\ UNCHANGED <<store, replica, redisVars, diskVars, requests, wr, writeHistory, stale>>

(* EXEC refuses the transaction when the watched counter was written since *)
(* Watch.  The counter only grows, so that is when it left the snapshot.   *)
ExecAnyway(r) == TRUE   \* mutant: no WATCH, the comparison alone guards the fill

ExecAllowed(r) == ver = rd[r].ver

(* DEL, SADD and EXPIRE.  The sentinel makes the set non-empty.            *)
SetMembersBare(members) ==      \* mutant: no sentinel
    /\ dict' = members
    /\ ttl' = "24h"

SetMembersForever(members) ==   \* mutant: no EXPIRE
    /\ dict' = members \cup {Sentinel}
    /\ ttl' = "none"

SetMembers(members) ==
    /\ dict' = members \cup {Sentinel}
    /\ ttl' = "24h"

Exec(r) ==
    /\ rd[r].pc = "exec"
    /\ \/ ExecAllowed(r) /\ SetMembers(rd[r].got) /\ stale' = lag[r]
       \/ /\ ~ExecAllowed(r) \/ "redisFill" \in Faults
          /\ UNCHANGED <<dict, ttl, stale>>
    /\ ReadEnds(r)
    /\ UNCHANGED <<store, replica, ver, diskVars, requests, wr, writeHistory>>

-----------------------------------------------------------------------------
(* The environment: Redis drops a key that carries a time to live, because *)
(* the 24 hours are over or to free memory (volatile-lru), and DynamoDB    *)
(* brings the lagging copy up to date, item by item.                       *)
Expire ==
    /\ ttl = "24h"
    /\ Del
    /\ UNCHANGED <<store, replica, ver, diskVars, requests, wr, rd, writeHistory, readHistory>>

Replicate ==
    /\ \E w \in Lagging :
         replica' = IF w \in store THEN replica \cup {w} ELSE replica \ {w}
    /\ UNCHANGED <<store, redisVars, diskVars, requests, wr, rd, history>>

(* Crashes.  Redis syncs its file about once a second; after a crash of    *)
(* the host, where the server runs too, it comes back with what was synced *)
(* and every request and goroutine is gone.  A restart of the server alone *)
(* is a crash right after Fsync.                                           *)
Fsync ==
    /\ "crash" \in Faults
    /\ crashes < MaxCrashes
    /\ log' = [dict |-> dict, ttl |-> ttl, ver |-> ver, dirty |-> dirty, stale |-> stale]
    /\ UNCHANGED <<store, replica, redisVars, crashes, requests, wr, rd, history>>

Crash ==
    /\ "crash" \in Faults
    /\ crashes < MaxCrashes
    /\ crashes' = crashes + 1
    /\ dict' = log.dict /\ ttl' = log.ttl /\ ver' = log.ver
    /\ dirty' = log.dirty /\ lost' = log.dirty /\ stale' = log.stale
    /\ wr' = [p \in Writers |-> WriterIdle]
    /\ rd' = [r \in Readers |-> ReaderIdle]
    /\ lag' = [r \in Readers |-> {}]
    /\ touched' = [r \in Readers |-> {}]
    /\ UNCHANGED <<store, replica, log, requests>>

-----------------------------------------------------------------------------
Request(p) == ClearAll(p) \/ \E w \in Words : AddWord(p, w) \/ RemoveWord(p, w)

WriterStep(p) ==
    \/ BumpAndInvalidate(p)
    \/ ClearListPage(p)
    \/ ClearListFails(p)
    \/ BatchWriteItem(p)
    \/ Invalidate(p)

ReaderStep(r) ==
    \/ Hit(r)
    \/ GetVersion(r)
    \/ QueryPage(r)
    \/ QueryFails(r)
    \/ Watch(r)
    \/ Exec(r)

Next ==
    \/ \E p \in Writers : Request(p) \/ WriterStep(p)
    \/ \E r \in Readers : GetWords(r) \/ ReaderStep(r)
    \/ Expire
    \/ Replicate
    \/ Fsync
    \/ Crash

(* Whoever has started goes on: every call of a request or a goroutine     *)
(* returns or runs into its timeout.  Clients owe nobody a request.  Redis *)
(* expires keys and DynamoDB converges.                                    *)
Fairness ==
    /\ \A p \in Writers : WF_vars(WriterStep(p))
    /\ \A r \in Readers : WF_vars(ReaderStep(r))
    /\ WF_vars(Expire)
    /\ WF_vars(Replicate)

Spec == Init /\ [][Next]_vars /\ Fairness

-----------------------------------------------------------------------------
(* TypeOK: the variables have their types.  A snapshot is never ahead of   *)
(* the counter, no word is both found and still to be read, and the set    *)
(* exists exactly while it carries a time to live: no fill leaves a key    *)
(* that never expires, or no key at all for an empty dictionary.           *)
TypeOK ==
    /\ store \in SUBSET Words
    /\ replica \in SUBSET Words
    /\ dict \in SUBSET (Words \cup {Sentinel})
    /\ ttl \in {"none", "24h"}
    /\ dict = {} <=> ttl = "none"
    /\ ver \in Nat
    /\ log \in [dict : SUBSET (Words \cup {Sentinel}), ttl : {"none", "24h"},
                ver : Nat, dirty : SUBSET Words, stale : SUBSET Words]
    /\ log.dict = {} <=> log.ttl = "none"
    /\ crashes \in 0..MaxCrashes
    /\ requests \in 0..MaxRequests
    /\ wr \in [Writers -> WriterState]
    /\ rd \in [Readers -> ReaderState]
    /\ \A r \in Readers :
         /\ rd[r].ver <= ver
         /\ rd[r].got \cap rd[r].todo = {}
         /\ rd[r].pc \in {"hit", "fill", "exec"} => rd[r].todo = {}
    /\ dirty \in SUBSET Words /\ lost \in SUBSET Words /\ stale \in SUBSET Words
    /\ lag \in [Readers -> SUBSET Words]
    /\ touched \in [Readers -> SUBSET Words]

(* A stored word that is spelt like the sentinel is always in the set and  *)
(* never in the answer of a hit (cache.go:47).  The properties claim       *)
(* nothing of that word, and that it disturbs no other.                    *)
Plain == Words \ {Sentinel}

(* Coherent: a word that no write has changed since the version was last   *)
(* bumped is in the cached set exactly when it is in the store, whatever   *)
(* fills were in flight, abandoned or late (service.go:96, the version     *)
(* check of SetMembersIfVersion).  Queries are eventually consistent       *)
(* (store.go:75), so a word is excepted, for as long as the set lives, if  *)
(* the copy was behind on it when the fill read its page.  A crash that    *)
(* takes bumps back makes their words dirty again, and none beyond those   *)
(* changed since the sync.                                                 *)
Coherent ==
    dict # {} => \A w \in Plain \ (dirty \cup stale) : w \in dict <=> w \in store

(* RegularReads: what GetWordSet answers about a word, from the set or     *)
(* from the store, is what the store says of it, unless the word changed   *)
(* while the call ran, its change had not yet been announced by a bump     *)
(* when the call began, or the copy was behind on it when its page was     *)
(* read, by this call or by the fill of the set it was answered from.      *)
RegularReads ==
    \A r \in Readers : rd[r].pc \in {"hit", "fill"} =>
        \A w \in Plain \ touched[r] : w \in rd[r].got <=> w \in store

(* Why these hold.  A fill that can still succeed, whose snapshot is the   *)
(* current version, has seen the store as it is, but for the words that    *)
(* are dirty and those its pages lagged behind on.  A read in progress     *)
(* counts the dirty words among the ones it need not get right, and has    *)
(* the others right as far as its pages go.                                *)
FreshFills ==
    \A r \in Readers : rd[r].pc \in {"query", "fill", "exec"} /\ rd[r].ver = ver =>
        \A w \in Plain \ (rd[r].todo \cup dirty \cup lag[r]) :
            w \in rd[r].got <=> w \in store

(* What a crash brings back errs on no words but those changed since and   *)
(* those the fill it keeps had wrong.                                      *)
LogCoherent ==
    crashes < MaxCrashes /\ log.dict # {} =>
        \A w \in Plain \ (log.dirty \cup log.stale) : w \in log.dict <=> w \in store

DirtyTouched == \A r \in Readers : rd[r].pc # "idle" => dirty \subseteq touched[r]

FreshReads ==
    \A r \in Readers : rd[r].pc \in {"hit", "query", "fill", "exec"} =>
        \A w \in Plain \ (rd[r].todo \cup touched[r]) : w \in rd[r].got <=> w \in store

CoherenceInv == Coherent /\ LogCoherent /\ FreshFills /\ DirtyTouched /\ FreshReads

(* AckedWritesVisible: from the moment the last request that changed a     *)
(* word is answered, the cached set agrees with the store on the word      *)
(* (handler.go:28), but for two kinds of words: those whose bump was never *)
(* made - it failed, the store answered an error, the request was a clear, *)
(* a crash took it back (lost) - and those the copy was behind on when the *)
(* set was filled (stale).  That it does not hold without each of the two  *)
(* exceptions is what LoadersDetectWrites and AddedWordsIgnored show.      *)
Pending == UNION {wr[p].changed : p \in Writers}

AckedWritesVisible ==
    dict # {} => \A w \in Plain \ (Pending \cup lost \cup stale) :
        w \in dict <=> w \in store

(* Why: a dirty word belongs to a request that has its bump still ahead of *)
(* it, or is lost.                                                         *)
DirtyPending ==
    /\ dirty \subseteq Pending \cup lost
    /\ \A p \in Writers : wr[p].pc \in {"idle", "list"} => wr[p].changed = {}

(* LoadersDetectWrites: a fill that the version check lets through has     *)
(* missed no write whose request is over, "on every write (add/remove/     *)
(* clear) so background loaders can detect concurrent writes"              *)
(* (cache.go:71).                                                          *)
LoadersDetectWrites ==
    \A r \in Readers : rd[r].pc = "exec" /\ ExecAllowed(r) =>
        \A w \in Plain \ (Pending \cup lag[r]) : w \in rd[r].got <=> w \in store

(* AddedWordsIgnored: once the request that added a word is answered, the  *)
(* set that grammar checks are filtered by has it: "Future grammar checks  *)
(* will ignore this word" (handler.go:28).                                 *)
AddedWordsIgnored ==
    dict # {} => \A w \in Plain \cap (store \ Pending) : w \in dict

(* EventuallyCoherent: when the writes are over, the cached set comes to   *)
(* agree with the store for good, whatever failed on the way: a lost       *)
(* invalidation, a set that a crash brought back or a fill from a lagging  *)
(* copy lasts no longer than the key lives, and no late fill restores it.  *)
EventuallyCoherent ==
    <>[](dict # {} => \A w \in Plain : w \in dict <=> w \in store)
=============================================================================
