------------------------------ MODULE Recency ------------------------------
(***************************************************************************)
(* What the in-memory cache promises: a bounded sequence of entries, the   *)
(* most recently used first, one for a key.  A use moves an entry to the   *)
(* front, a new one pushes out the least recently used when there is no    *)
(* room, and entries go when their time is over or when they are cleared.  *)
(***************************************************************************)
EXTENDS Integers, Sequences, SequencesExt, Selecting

CONSTANTS Keys, Values, Capacity

VARIABLES
    now, entries,
    latest  \* the key the last hit or write was for

Entry == [key : Keys, value : Values, expiresAt : Nat]

HeldKeys == {e.key : e \in ToSet(entries)}
EntryOf(k) == CHOOSE e \in ToSet(entries) : e.key = k
Others(K) == Select(entries, {i \in DOMAIN entries : entries[i].key \notin K})

Init == entries = <<>> /\ latest = <<>>

Use(k) ==
    /\ k \in HeldKeys /\ now <= EntryOf(k).expiresAt
    /\ entries' = <<EntryOf(k)>> \o Others({k})
    /\ latest' = k

Outlive(k) ==
    /\ k \in HeldKeys /\ now >= EntryOf(k).expiresAt
    /\ entries' = Others({k}) /\ latest' = latest

Put(e) ==
    /\ e \in Entry /\ now < e.expiresAt
    /\ entries' = <<e>> \o
         IF e.key \in HeldKeys THEN Others({e.key})
         ELSE IF Len(entries) = Capacity THEN Front(entries) ELSE entries
    /\ latest' = e.key

Clear(K) == entries' = Others(K) /\ latest' = latest

Next ==
    \/ \E k \in Keys : Use(k) \/ Outlive(k)
    \/ Len(entries') > 0 /\ Put(entries'[1])
    \/ \E K \in SUBSET Keys : Clear(K)

Spec == Init /\ [][Next]_<<entries, latest>>
=============================================================================
