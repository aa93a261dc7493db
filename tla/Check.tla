------------------------------- MODULE Check -------------------------------
(***************************************************************************)
(* One API process answers spelling checks, over HTTP                      *)
(* (languagetool/handler.go Check) and over connections (ws/conn.go        *)
(* doCheck): look the text up in the in-memory cache (LRU) and in Redis,   *)
(* ask LanguageTool when neither has it, leave a goroutine to cache the    *)
(* answer, and take out the matches whose word is in the client's own      *)
(* dictionary (filter.go).  The two paths read the dictionary at different *)
(* moments.  Everybody shares the cache, nobody shares a dictionary.       *)
(*                                                                         *)
(* A text is a sequence of characters.  LanguageTool counts its offsets in *)
(* UTF-16 units, of which an astral character has two.                     *)
(***************************************************************************)
EXTENDS LRU, FiniteSets

CONSTANTS
    Requests,   \* slots for a request and the goroutine it leaves
    Clients,    \* client ids that may have a dictionary
    Anonymous,  \* a request without a client id
    Malformed,  \* a request whose client id is not a legal one
    Texts,
    Astral,     \* the characters outside the basic plane
    Lower,      \* what strings.ToLower makes of a character
    Spans,      \* per text, what LanguageTool flags: <<first character, length>>
    Words,      \* the dictionary words that matter
    MaxTime,    \* bound on the clock
    MaxChecks   \* bound on the requests

ASSUME CheckAssumption ==
    /\ Keys \subseteq {"http", "ws"} \X Texts
    /\ Texts \subseteq Seq(DOMAIN Lower)
    /\ \A t \in Texts : \A s \in Spans[t] :
         s[1] \in 1..Len(t) /\ s[2] \in Nat \ {0} /\ s[1] + s[2] - 1 \in 1..Len(t)
    /\ Anonymous \notin Clients /\ Malformed \notin Clients /\ Anonymous # Malformed
    /\ MaxTime \in Nat /\ MaxChecks \in Nat

VARIABLES
    request,   \* the requests being answered
    fill,      \* the goroutines that write an answer to the cache
    redis,     \* per key, the answer in Redis or Nothing
    checks,    \* the number of requests so far
    words,     \* the dictionaries
    always,    \* history: words in the dictionary all the time of a request
    ever       \* history: words in it at some time of the request

dictVars == <<words, always, ever>>
vars == <<now, cacheVars, request, fill, redis, checks, dictVars>>

-----------------------------------------------------------------------------
(* UTF-16 units before character i of the text.                            *)
Units(t, i) == (i - 1) + Cardinality({j \in 1..(i - 1) : t[j] \in Astral})

SpanMatch(t, s) ==
    [offset |-> Units(t, s[1]), length |-> Units(t, s[1] + s[2]) - Units(t, s[1])]

(* LanguageTool's answer.                                                  *)
Raw(t) == {SpanMatch(t, s) : s \in Spans[t]}

(* The runes the filter slices out, in lower case.                         *)
Slice(t, offset, length) == [i \in 1..length |-> Lower[t[offset + i]]]

Outside(t, m) == m.offset < 0 \/ m.offset + m.length > Len(t)

FilterMatches(t, ms, ws) ==
    {m \in ms : Outside(t, m) \/ Slice(t, m.offset, m.length) \notin ws}

ASSUME ValuesAssumption == \A t \in Texts : Raw(t) \in Values

Nothing == {[offset |-> -1, length |-> -1]}   \* no answer yet

-----------------------------------------------------------------------------
Idle == [pc |-> "idle", key |-> NoKey, client |-> Anonymous,
         found |-> Nothing, own |-> {}, blind |-> FALSE]

NoFill == [pc |-> "none", key |-> NoKey, value |-> Nothing]

Via(r) == request[r].key[1]
Text(r) == request[r].key[2]

Init ==
    /\ now = 0 /\ CacheInit
    /\ request = [r \in Requests |-> Idle]
    /\ fill = [r \in Requests |-> NoFill]
    /\ redis = [k \in Keys |-> Nothing]
    /\ checks = 0
    /\ words = [c \in Clients |-> {}]
    /\ always = [r \in Requests |-> {}]
    /\ ever = [r \in Requests |-> {}]

Becomes(r, pc, found) ==
    request' = [request EXCEPT ![r] = [@ EXCEPT !.pc = pc, !.found = found]]

(* After the look-up: an HTTP request goes on to the time to live or to    *)
(* LanguageTool, a check over a connection first to the dictionary.        *)
AfterHit(r) == IF Via(r) = "http" THEN "ttl" ELSE "words"
AfterMiss(r) == IF Via(r) = "http" THEN "ask" ELSE "words"

OwnWords(c) == IF c \in Clients THEN words[c] ELSE {}

(* Only the HTTP handler can see a malformed client id; a connection was   *)
(* checked when it authenticated.                                          *)
Arrive(r, k, c) ==
    /\ checks < MaxChecks /\ checks' = checks + 1
    /\ request[r] = Idle /\ fill[r] = NoFill
    /\ c = Malformed => k[1] = "http"
    /\ request' = [request EXCEPT ![r] = [Idle EXCEPT !.pc = "l1", !.key = k, !.client = c]]
    /\ always' = [always EXCEPT ![r] = OwnWords(c)]
    /\ ever' = [ever EXCEPT ![r] = OwnWords(c)]
    /\ UNCHANGED <<now, cacheVars, fill, redis, words>>

LookInL1(r) ==
    /\ request[r].pc = "l1"
    /\ Get(request[r].key)
    /\ IF Hit(request[r].key)
       THEN Becomes(r, AfterHit(r), At(request[r].key).value)
       ELSE Becomes(r, "l2", Nothing)
    /\ UNCHANGED <<now, fill, redis, checks, dictVars>>

(* In Redis.  A miss: nothing was stored, the call failed (which is logged *)
(* only), or the entry has expired, was cleared or had to make room; what  *)
(* Redis drops is not followed further.                                    *)
LookInL2(r) ==
    /\ request[r].pc = "l2"
    /\ \/ /\ redis[request[r].key] # Nothing
          /\ Becomes(r, "backfill", redis[request[r].key])
       \/ Becomes(r, AfterMiss(r), Nothing)
    /\ UNCHANGED <<now, cacheVars, fill, redis, checks, dictVars>>

Backfill(r) ==
    /\ request[r].pc = "backfill"
    /\ Set(request[r].key, request[r].found, OwnTTL)
    /\ Becomes(r, AfterHit(r), request[r].found)
    /\ UNCHANGED <<now, fill, redis, checks, dictVars>>

Returns(r) ==
    /\ request' = [request EXCEPT ![r] = Idle]
    /\ always' = [always EXCEPT ![r] = {}]
    /\ ever' = [ever EXCEPT ![r] = {}]
    /\ UNCHANGED words

(* The client id is looked at only after the cache.                        *)
Refuse(r) ==
    /\ request[r].pc \in {"ttl", "ask"} /\ request[r].client = Malformed
    /\ Returns(r)
    /\ UNCHANGED <<now, cacheVars, fill, redis, checks>>

AskTTL(r) ==
    /\ request[r].pc = "ttl" /\ request[r].client # Malformed
    /\ TTL(request[r].key)
    /\ Becomes(r, "words", request[r].found)
    /\ UNCHANGED <<now, fill, redis, checks, dictVars>>

(* LanguageTool answers, and a goroutine will cache a copy of the answer;  *)
(* or it fails and so does the request.                                    *)
Ask(r) ==
    /\ request[r].pc = "ask" /\ request[r].client # Malformed
    /\ \/ /\ \/ Via(r) = "http" /\ Becomes(r, "words", Raw(Text(r)))
             \/ /\ Via(r) # "http"
                /\ Becomes(r, "done", FilterMatches(Text(r), Raw(Text(r)), request[r].own))
          /\ fill' = [fill EXCEPT ![r] =
               [pc |-> "l2", key |-> request[r].key, value |-> Raw(Text(r))]]
          /\ UNCHANGED dictVars
       \/ Returns(r) /\ UNCHANGED fill
    /\ UNCHANGED <<now, cacheVars, redis, checks>>

(* GetWordSet: the client's words, or none when they cannot be read.  What *)
(* has been found by now is filtered.                                      *)
ReadWords(r) ==
    /\ request[r].pc = "words"
    /\ \E own \in {OwnWords(request[r].client), {}} :
         request' = [request EXCEPT ![r] = [@ EXCEPT
           !.own = own,
           !.blind = own # OwnWords(request[r].client),
           !.pc = IF request[r].found = Nothing THEN "ask" ELSE "done",
           !.found = IF request[r].found = Nothing THEN Nothing
                     ELSE FilterMatches(Text(r), request[r].found, own)]]
    /\ UNCHANGED <<now, cacheVars, fill, redis, checks, dictVars>>

Reply(r) ==
    /\ request[r].pc = "done"
    /\ Returns(r)
    /\ UNCHANGED <<now, cacheVars, fill, redis, checks>>

(* The goroutine: Redis first, and the in-memory cache only if that works. *)
SharedValue(r) ==   \* mutant: the goroutine reads the result being filtered
    IF request[r].found = Nothing THEN fill[r].value ELSE request[r].found

CopiedValue(r) == fill[r].value

FillL2(r) ==
    /\ fill[r].pc = "l2"
    /\ \/ /\ redis' = [redis EXCEPT ![fill[r].key] = CopiedValue(r)]
          /\ fill' = [fill EXCEPT ![r] = [@ EXCEPT !.pc = "l1"]]
       \/ /\ UNCHANGED redis
          /\ fill' = [fill EXCEPT ![r] = NoFill]
    /\ UNCHANGED <<now, cacheVars, request, checks, dictVars>>

FillL1(r) ==
    /\ fill[r].pc = "l1"
    /\ Set(fill[r].key, CopiedValue(r), OwnTTL + 1)
    /\ fill' = [fill EXCEPT ![r] = NoFill]
    /\ UNCHANGED <<now, request, redis, checks, dictVars>>

-----------------------------------------------------------------------------
(* ClearCache: the first tier loses the answers to checks over HTTP.       *)
ClearL1 ==
    /\ DeletePattern({k \in Keys : k[1] = "http"})
    /\ UNCHANGED <<now, request, fill, redis, checks, dictVars>>

AddWord(c, w) ==
    /\ w \notin words[c]
    /\ words' = [words EXCEPT ![c] = @ \cup {w}]
    /\ ever' = [r \in Requests |->
         IF request[r].client = c THEN ever[r] \cup {w} ELSE ever[r]]
    /\ UNCHANGED <<now, cacheVars, request, fill, redis, checks, always>>

RemoveWord(c, w) ==
    /\ w \in words[c]
    /\ words' = [words EXCEPT ![c] = @ \ {w}]
    /\ always' = [r \in Requests |->
         IF request[r].client = c THEN always[r] \ {w} ELSE always[r]]
    /\ UNCHANGED <<now, cacheVars, request, fill, redis, checks, ever>>

Tick ==
    /\ now < MaxTime
    /\ now' = now + 1
    /\ UNCHANGED <<cacheVars, request, fill, redis, checks, dictVars>>

Next ==
    \/ \E r \in Requests :
         \/ \E k \in Keys, c \in Clients \cup {Anonymous, Malformed} : Arrive(r, k, c)
         \/ LookInL1(r) \/ LookInL2(r) \/ Backfill(r) \/ Refuse(r) \/ AskTTL(r)
         \/ Ask(r) \/ ReadWords(r) \/ Reply(r) \/ FillL2(r) \/ FillL1(r)
    \/ ClearL1
    \/ \E c \in Clients, w \in Words : AddWord(c, w) \/ RemoveWord(c, w)
    \/ Tick

Spec == Init /\ [][Next]_vars

-----------------------------------------------------------------------------
Matches == UNION {Raw(t) : t \in Texts}

RequestState ==
    [pc : {"idle", "l1", "l2", "backfill", "ttl", "words", "ask", "done"},
     key : Keys \cup {NoKey}, client : Clients \cup {Anonymous, Malformed},
     found : (SUBSET Matches) \cup {Nothing}, own : SUBSET Words, blind : BOOLEAN]

FillState == [pc : {"none", "l2", "l1"}, key : Keys \cup {NoKey},
              value : (SUBSET Matches) \cup {Nothing}]

TypeOK ==
    /\ CacheTypeOK
    /\ request \in [Requests -> RequestState]
    /\ fill \in [Requests -> FillState]
    /\ redis \in [Keys -> (SUBSET Matches) \cup {Nothing}]
    /\ words \in [Clients -> SUBSET Words]
    /\ always \in [Requests -> SUBSET Words]
    /\ ever \in [Requests -> SUBSET Words]

(* A text in which LanguageTool's offsets and the filter's agree.          *)
Plain(t) == \A i \in 1..Len(t) : t[i] \notin Astral

SpanWord(t, s) == [i \in 1..s[2] |-> Lower[t[s[1] + i - 1]]]

(* Every answer is the client's own, whether it came from LanguageTool or  *)
(* out of a cache that another client's request filled: only matches of    *)
(* that text are reported, none whose word was in the client's dictionary  *)
(* all the while (unless the dictionary could not be read), and every one  *)
(* whose word never was.  For texts without astral characters; in others   *)
(* the filter looks up another word.                                       *)
AnswersOwn ==
    \A r \in Requests : request[r].pc = "done" =>
        /\ request[r].found \subseteq Raw(Text(r))
        /\ Plain(Text(r)) => \A s \in Spans[Text(r)] :
             /\ SpanWord(Text(r), s) \in always[r] /\ ~request[r].blind =>
                    SpanMatch(Text(r), s) \notin request[r].found
             /\ SpanWord(Text(r), s) \notin ever[r] =>
                    SpanMatch(Text(r), s) \in request[r].found
=============================================================================
