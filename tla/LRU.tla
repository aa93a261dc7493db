-------------------------------- MODULE LRU --------------------------------
(***************************************************************************)
(* The in-memory cache of one API process (internal/cache/lru.go): a list  *)
(* of elements, the most recently used in front, an index from keys to     *)
(* elements, and the entries the elements carry.  The mutex makes each     *)
(* operation one step; Hit says what Get answers.                          *)
(***************************************************************************)
EXTENDS Integers, Sequences, SequencesExt, Functions, Selecting

CONSTANTS
    Keys, Values,
    Elements,  \* list elements the heap can give
    Capacity,  \* entries the cache holds (1000)
    OwnTTL     \* its own time to live (5 minutes)

ASSUME LRUAssumption ==
    /\ Capacity \in Nat \ {0}
    /\ OwnTTL \in Nat \ {0}

VARIABLES
    now, list, index, entry,
    latest  \* history: the key the last hit or write was for

cacheVars == <<list, index, entry, latest>>

NoMap == [x \in {} |-> x]

NoKey == <<>>

CacheInit == list = <<>> /\ index = NoMap /\ entry = NoMap /\ latest = NoKey

Found(k) == k \in DOMAIN index
At(k) == entry[index[k]]
Hit(k) == Found(k) /\ now <= At(k).expiresAt

(* What evict leaves when it is called for the elements out.               *)
ListKept(out) == list   \* mutant: evict forgets the list

ListWithout(out) == Select(list, {i \in DOMAIN list : list[i] \notin out})

IndexKept(out) == index   \* mutant: evict forgets the index

IndexWithout(out) == Restrict(index, DOMAIN index \ {entry[el].key : el \in out})
EntryWithout(out) == Restrict(entry, DOMAIN entry \ out)

Evict(out) ==
    /\ latest' = latest
    /\ list' = ListWithout(out)
    /\ index' = IndexWithout(out)
    /\ entry' = EntryWithout(out)

StaysPut(el) == list   \* mutant: a use does not count

ToFront(el) == <<el>> \o ListWithout({el})

Get(k) ==
    \/ /\ Hit(k)
       /\ list' = ToFront(index[k]) /\ latest' = k
       /\ UNCHANGED <<index, entry>>
    \/ Found(k) /\ ~Hit(k) /\ Evict({index[k]})
    \/ ~Found(k) /\ UNCHANGED cacheVars

(* The query of the time that is left also drops what is over.             *)
TTL(k) ==
    \/ Found(k) /\ At(k).expiresAt <= now /\ Evict({index[k]})
    \/ ~(Found(k) /\ At(k).expiresAt <= now) /\ UNCHANGED cacheVars

Effective(ttl) == IF ttl <= 0 \/ ttl > OwnTTL THEN OwnTTL ELSE ttl

Set(k, v, ttl) ==
    LET new == [key |-> k, value |-> v, expiresAt |-> now + Effective(ttl)]
        back == IF Len(list) >= Capacity THEN {Last(list)} ELSE {}
    IN
    /\ latest' = k
    /\ \/ /\ Found(k)
          /\ entry' = [entry EXCEPT ![index[k]] = new]
          /\ list' = ToFront(index[k])
          /\ UNCHANGED index
       \/ /\ ~Found(k)
          /\ \E el \in Elements \ DOMAIN entry :
               /\ list' = <<el>> \o ListWithout(back)
               /\ index' = [x \in DOMAIN IndexWithout(back) \cup {k} |->
                               IF x = k THEN el ELSE index[x]]
               /\ entry' = [x \in DOMAIN EntryWithout(back) \cup {el} |->
                               IF x = el THEN new ELSE entry[x]]

DeletePattern(K) == Evict({el \in DOMAIN entry : entry[el].key \in K})

-----------------------------------------------------------------------------
Entries == [key : Keys, value : Values, expiresAt : Nat]

CacheTypeOK ==
    /\ now \in Nat
    /\ DOMAIN index \subseteq Keys /\ DOMAIN entry \subseteq Elements
    /\ entry \in [DOMAIN entry -> Entries]
    /\ index \in [DOMAIN index -> DOMAIN entry]

(* The index finds exactly the elements of the list, each under the key it *)
(* carries, and no element is listed twice: evict and the two branches of  *)
(* Set change three structures, and one forgotten would leave a key that   *)
(* can never be cached again, or an element that is found but never        *)
(* evicted.                                                                *)
IndexAgrees ==
    /\ \A k \in DOMAIN index : entry[index[k]].key = k
    /\ {index[k] : k \in DOMAIN index} = ToSet(list)
    /\ ToSet(list) = DOMAIN entry
    /\ IsInjective(list)
    /\ Len(list) <= Capacity

(* The entries in the order of the list.                                   *)
Recent == [i \in DOMAIN list |-> entry[list[i]]]

TheRecency == INSTANCE Recency WITH entries <- Recent

(* Whatever the handlers do, the cache behaves as the bounded sequence of  *)
(* Recency: a hit or a write moves its key to the front, and only the      *)
(* least recently used entry makes room for a new one.                     *)
LeastRecentlyUsed == TheRecency!Spec
=============================================================================
