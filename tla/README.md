# ProofAPI in TLA+

TLA+ modules, TLC configurations and TLAPS proofs about the Go server in this
repository: a grammar-check API in front of LanguageTool, with a result cache,
a per-client dictionary and a WebSocket endpoint; and about the copy of yaml.v3
that `go.mod` puts in place of the library. Paths below are relative to
`src/`. `PROJECT.json` maps every definition to the lines it models and lists
runs, findings, hazards and theorems.

## 1. The system

| Part | Source | State it keeps | Operations |
|---|---|---|---|
| Dictionary service | `internal/dictionary/{service,cache,store,handler}.go` | words in DynamoDB; in Redis a set `dict:<client>` (24 h, never empty: it holds a sentinel) and a counter `dict:ver:<client>` without expiry | `AddWord`, `RemoveWord`, `ClearAll`, `GetWordSet` with a background fill, `ListWords` |
| Tiered result cache | `internal/cache/{tiered,lru,redis}.go` | per process an LRU of 1000 entries, 5 min each; in Redis one key per text and language, 30 min | `Get` with backfill, `Set`, `TTL`, `DeletePattern` |
| Check handlers | `internal/languagetool/handler.go`, `internal/ws/conn.go` | none of their own; goroutines that write the cache after the answer | `Check`, `Languages`, `ClearCache`, `doCheck` |
| Match filter | `internal/languagetool/filter.go` | none | `FilterMatches` |
| LanguageTool client | `internal/languagetool/client.go` | none | `Check`, `Languages`, `Ping` |
| WebSocket connection | `internal/ws/conn.go` | socket, buffered channel (64), context, debounce timer, pending message | `Run`, `readPump`, `writePump`, `scheduleCheck`, `doCheck`, `safeSend`, `cleanup` |
| WebSocket hub | `internal/ws/{hub,handler}.go` | map of connections, two atomic counters | `Register`, `Unregister`, `Stats`, `ServeWS` |
| Rate limiter | `internal/middleware/ratelimit.go` | map from address to window and count | one step per request, a purge every 5 min |
| Key, client id, CORS | `internal/middleware/{apikey,userid,cors}.go` | none | predicates on one request |
| Assembly | `cmd/api/main.go` | none | routing, health, shutdown |
| YAML reader | `vendor-local/yaml.v3/{scannerc,parserc,apic}.go` | a queue of tokens; indents, possible keys, flow levels; states, marks, tag handles | `yaml_parser_fetch_more_tokens`, `yaml_parser_parse` |
| YAML writer | `vendor-local/yaml.v3/{emitterc,encode}.go` | a queue of events, states, indents; column and what was written last | `yaml_emitter_emit`, `analyze_scalar`, `select_scalar_style`, one writer per style |
| Example client | `examples/react` | socket, sequence numbers | connect, send, reconnect |
| Deployment | `docker-compose.yml`, `nginx` | none | eviction policy and persistence of Redis |

How they interact. A check request, over HTTP or a connection, looks up the
tiered cache, asks LanguageTool on a miss, leaves a goroutine that writes the
cache, filters the matches by the word set of its client and answers. The word
set comes from Redis or, on a miss, from DynamoDB, in which case another
goroutine writes it to Redis. Dictionary writes go to DynamoDB first and then
invalidate the set. A connection's pumps, timer callbacks and `Run` share a
channel, a mutex, a context and a socket; `ServeWS` enters it in the hub and
takes it out when `Run` returns. The health endpoint reads the hub.

What is hard in it, and what correctness means:

* **Dictionary.** A fill writes back what it read some time ago, unguarded by any
  lock, while adds, removes and clears change the store and invalidate the set;
  either of the two calls of a write may fail; a clear works in batches that
  are retried; a query has pages, and may be answered from a lagging copy. Correct
  means: the set agrees with the store on every word that is neither being changed
  nor was read from a copy behind on it, a write that was answered and bumped is not
  hidden by the cache for another reason, and failures heal.
* **Tiered cache.** Lifetimes add up when entries are copied between tiers, a
  late write lands after a clear, processes hold copies of their own. Correct
  means: the age of an answer is bounded, cleared answers do not return, tiers
  are filled in order.
* **Connection.** Two goroutines, timer callbacks and a bounded channel whose
  ends stop at different times; a select that chooses at random. Correct means:
  the verdict comes first, the newest text gets its answer, the debounce never
  costs a call to LanguageTool, and everything ends.
* **Hub.** Counters changed and read one by one. Correct means: they count.
* **Rate limiter.** A clock read before the lock, a purge beside requests.
  Correct means: never more than two windows' worth in a window's time, and
  nobody is refused who did not use his limit.
* **LRU.** Three structures that must lose and gain the same entry.
* **Check handler.** One cache, shared by clients with different dictionaries,
  filled by goroutines that outlive the request; offsets in UTF-16 units against
  slices of runes. Correct means: everybody is answered about his own text, less
  his own words.
* **Process.** Shutdown waits for requests, but not for connections and not
  forever.
* **YAML reader.** Scanner and parser share a queue: the scanner runs ahead, a
  ':' reaches back into it to make a key of what is queued, blocks have no
  closing token but the column of what follows, and the parser pops its stacks
  without looking. Correct means: whatever the text, the stacks agree, and the
  events are those of a well-nested stream.
* **YAML writer.** What the analysis of a string lets through must be what the
  scanner's rules leave alone. Correct means: it reads back.

## 2. Modules

| Module | Models | Status |
|---|---|---|
| `Dictionary` | one client's store, lagging copy, cached set and version, with writers, readers and fills | checked and proved |
| `MCDictionary` | symmetry for TLC | |
| `DictionaryProofs` | theorems about `Dictionary` | proved |
| `TieredCache` | one key in the first tiers of several processes and in Redis, check requests, fills, clears, restarts | checked and proved |
| `MCTieredCache` | symmetry for TLC | |
| `TieredCacheProofs` | theorems about `TieredCache` | proved |
| `WsConn` | one connection from authentication to leaving the hub | checked and proved |
| `WsConnProofs` | theorems about `WsConn` | proved |
| `Hub` | the hub's map and counters, and health probes | proved, and checked in `Api` |
| `HubProofs` | theorems about `Hub` | proved |
| `RateLimit` | windows, the clock, the mutex and the purge | proved, and checked in `Api` |
| `Api` | `RateLimit` and `Hub` composed by the routes, the middleware, health and shutdown | checked and proved |
| `ApiProofs` | theorems about `RateLimit`; `Api` implements `RateLimit` and `Hub`, and what follows | proved |
| `Recency` | abstract: a bounded sequence, most recently used first | refined by `LRU` |
| `Selecting` | what stays of a sequence, without recursion | used by both |
| `LRU` | list, index and entries of `lru.go` | checked and proved in `Check` |
| `Check` | checks of several texts and clients, on `LRU` and Redis, with the filter | checked and proved |
| `MCCheck` | the texts, flagged words and symmetry for TLC | |
| `CheckProofs` | theorems about `Check` | proved |
| `YamlEvents` | abstract: well-nested event streams | refined by `YamlReader` |
| `YamlTokens` | the queue of tokens | |
| `YamlScanner` | lexemes to tokens | checked and proved in `YamlReader` |
| `YamlParser` | tokens to events | checked and proved in `YamlReader` |
| `YamlReader` | the two composed, their invariants, the refinement | checked and proved |
| `YamlReaderProofs` | lemmas about `YamlScanner`, theorems about `YamlReader`, for any text | proved |
| `MCYamlReader` | the texts for TLC | |
| `YamlScalars` | a string through emitter and scanner | checked and proved |
| `YamlScalarsProofs` | theorems about `YamlScalars`, for any string | proved |
| `MCYamlScalars` | the strings for TLC | |

### Dictionary

`store`, `replica` are the DynamoDB table and the copy an eventually consistent
`Query` may be answered from; `dict`, `ttl`, `ver` are the two Redis keys.
`wr` and `rd` hold one record per request in progress, with its program
counter. The names of the actions are those of the code:

| Actions | Code |
|---|---|
| `AddWord`, `RemoveWord` | service.go up to the answer of the store; an error of the store, applied or not, ends the request |
| `BumpAndInvalidate` | the transaction `INCR`, `DEL` of `IncrAndDel`; a failure is only logged |
| `ClearAll`, `ClearListPage`, `ClearListFails`, `BatchWriteItem`, `Invalidate` | store.go `ClearAll` page by page and call by call, unprocessed items retried, then `DEL` alone |
| `GetWords`, `Hit`, `GetVersion`, `QueryPage`, `QueryFails` | `GetWordSet` until it returns |
| `Watch`, `Exec` | `SetMembersIfVersion` in the goroutine: compare under `WATCH`, then `MULTI`/`EXEC` |
| `Expire`, `Replicate` | Redis drops keys with a time to live (24 h, or `volatile-lru`); DynamoDB converges |
| `Fsync`, `Crash` | `--appendonly yes` (`docker-compose.yml:30`): after a crash of the host, where the server runs too, Redis has what was last synced, and every request and goroutine is gone |

One client stands for all: no key is shared. A request whose HTTP client hangs
up has its context cancelled; that is one of the ways a call fails. The
constant `Faults` says which calls may fail. Each page of a `Query` is answered by
the table or by the copy (`QuerySources`), in every run and theorem, as the code
does not ask for consistent reads (`store.go:75`): a fill that takes the version
after a bump may still be answered without the word and stores that.

The properties except words on which the protocol can err, and history
variables say which those are. `dirty` and `log.dirty` are the words changed since
the last bump and since the bump that the file holds; `touched[r]` those changed
during a read, dirty when it began, or lagging; `lost` the dirty ones for which no
bump will come, as it failed, the request was a clear, or a crash took it back;
`lag[r]` the words the copy was behind on when read `r` got their page, and `stale`
the `lag` of the fill that wrote the set. A bump deletes the set and empties
`dirty`, `lost` and `stale`. What the exceptions cost is shown by `dict_lagging` and
`dict_clear_stale`, and that none of it lasts by `dict_eventual`. A crash may bring
back a set that a bump had deleted; the words changed since then are dirty again.
Crashes are bounded by `MaxCrashes`. A word spelt like the sentinel is in every
set and in no hit's answer (`cache.go:47`), and the handler does not refuse
it: the properties leave that one word out (`Plain`), not the behaviour; the theorems
allow it among `Words`, the runs do without.

### TieredCache

`l1[p]` is the key's entry in the first tier of process `p`, `l2` the one in
Redis, both with the time until which they live. Answers of LanguageTool are
numbered; `born` says when each was given. A call goes `Get`, `GetL2`,
`Backfill` or `Ask`, then as a goroutine `SetL2`, `SetL1`; a clear goes
`ClearL1`, `ClearKeys`, `ClearDel`. The recency list of `lru.go` is reduced
to `EvictL1`: which entry a full tier drops depends on other keys, so any
may be dropped at any time. `Check` and `Languages` in
`languagetool/handler.go` and `doCheck` in `ws/conn.go` use the cache with the
same calls in the same order, under keys of three prefixes; the constant
`Prefix` says which kind of key is followed, and `ClearCache` matches only
`lt:check`. Time is discrete, and
does not pass beyond what a call in progress may take (`CallTime`): the Redis
client's timeouts with three retries, 2 s for a fill, 30 s for LanguageTool are
all below the five minutes of the first tier. A restart loses the first tier
and the calls of its process; `main.go:91` says Redis is shared across restarts
and instances.

### WsConn

The actions are grouped by goroutine: `ReadAuth`, `ReadOther`, `ReadCheck`,
`ReadPumpSend`, `ReadPumpReturns` are `readPump`; `WriterTakes`,
`WriterWrites`, `PingFails`, `WriterSeesCancel`, `WritePumpReturns` are
`writePump`; `Fire`, `CallbackLock`, `CallbackLooks`, `CallbackReturns`,
`CallbackSend` are the debounce timer and `doCheck`; `CleanupStops`,
`CleanupCloses`, `Unregister` are `Run`, `cleanup` and the end of `ServeWS`. Checks
are numbered as they arrive, and each has its timer and callback: `armed` are the
timers that will fire, `Stop` is `Timer.Stop`, which comes too late for one that has
fired. A callback takes the text that is pending when it gets the mutex
(`CallbackLock`), looks it up in the cache with its client's words, and on a miss
calls LanguageTool (`CallbackLooks`); other callbacks come between these steps.
`asked[k]` is the history of what callback `k` has called LanguageTool with,
`overtaken` of the checks whose successor came before their timer had fired. What
the look-ups find is left open here and modelled in `Check`. The pong and the error
of an unusable message are one frame, `Reply`. Read deadlines, keepalive and
the peer's leaving are one event, `PeerFails`; write deadlines and failing
writes are the second alternatives of `WriterWrites` and `PingFails`.
`safeSend` is the operator `SafeSend`: room in the channel, or the context has
ended; the panic of a send on the closed channel is recovered from, and the
channel is only closed after the context ended.

### Hub

`Register` and `Unregister` are cut at every step another goroutine may see:
`Enter`, `CountTotal`, `CountActive`, `Leave`, `UncountActive`. `StatsLoads` is
one atomic load, in the order of `LoadOrder`.

### RateLimit and Api

`RateLimit` has one action per moment another request can come between:
`ReadClock` (`time.Now()` before the lock), then with the mutex `OpenWindow` or
`CountInWindow`; `Purge` is the ticker's goroutine. `Delay` bounds the time
between the two, as the mutex is held for a few instructions. `grants` and
`opener` are history. `Api` instantiates `Hub` with the requests as connections
and as probes, extends `RateLimit`, and adds the stage of each request:
`Preflight` (CORS, before the limiter), `Arrive` and `Decide` (limiter),
`Authorize` (key and client id, each route its own), `Upgrade`, `UpgradeFails`,
`Connected`, `Disconnected`, `Ping` and `HealthStats`, `Reply`; and the server:
`Signal`, `ShutdownReturns` inside `Exit`, `ListenFails`.

### LRU, Recency and Check

`list` holds elements, `index` maps keys to elements, `entry` elements to
entries, as in `lru.go`; `Get`, `TTL`, `Set` and `DeletePattern` are one action
each, since the mutex makes them so; what an action takes off the list it takes with
`Selecting!Select`. `IndexAgrees` relates the three;
`LeastRecentlyUsed` says that with `entries` read off the list every step is one
of `Recency`. In `Check` a request has a program counter. `LookInL1`,
`LookInL2`, `Backfill`, `AskTTL` are the calls of `TieredCache`, on the keys of
several texts; `Ask`, `ReadWords`, `Reply` and `Refuse` the handler's; `FillL2`,
`FillL1` the goroutine's. HTTP filters after the answer, a connection reads the
words before it asks, so `own` is read at different moments. `FilterMatches`,
`Slice` and `Outside` are `filter.go`; `Units` counts as LanguageTool does.
`always` and `ever` are history: the words in the dictionary all the time, or at
any time, of a request. `TieredCache` keeps what `Check` does without: several
processes, lifetimes in Redis, restarts, failing calls told apart.

### YamlTokens, YamlScanner, YamlParser, YamlReader, YamlEvents

The text is not there beforehand: `YamlScanner` draws the next lexeme (what
follows blanks, comments and breaks: an indicator, a scalar, a property, a
directive, with its column, whether it begins a line, and the break it eats)
when the scanner asks for one, from the sets `Kinds`, where `MayRead` says what
may follow what. `Fetch` is `yaml_parser_fetch_next_token`; the operators under
it have the names of the functions. They take and return the scanner's state as
a record, as one call of `Scan` may go through many of them. `YamlParser` has
one action per branch of the state machine; a call that takes two tokens stops in
between, because the scanner runs when the parser peeks, in a state named after
the token just taken (`"BLOCK_MAPPING_KEY?"`). `YamlReader!Nest` reads the state
stack as the frames of `YamlEvents`, and `WellNested` is the refinement. Tokens
carry only what the parser tells apart: the version and the handle. Comments,
marks and the bytes of scalars are left out.

### YamlScalars

Characters are given by names: those YAML gives a meaning, a letter, one that
cannot be printed, and `Others`. A carriage return and NEL are like the unprintable
one, as `is_printable` refuses them. A string goes through `SelectStyle` and `WriteAt`
(emitter), with the operators named after the functions, at the six places of
`Places`: root, value and item of block collections, inside a flow sequence, simple
key, and explicit key behind `?`. `CheckSimpleKey` decides which of the two a key is,
as `yaml_emitter_check_simple_key` does: one with line breaks, or longer than
`SimpleKeyMax` (128 in the code), is explicit and may be a block scalar. `StyleOf` is what `encode.go` asks for a Go string. No width is set there,
so lines are not wrapped. The emitter is one step (`Emit`): its loops look at a
character and its neighbours only, and are written as maps over the string. The
scanner's loops depend on what they have read and are steps: `phase` says which
loop runs, `index` and `column` are `parser.mark`, `result` is `s`, and
`whitespaces`, `leading_break`, `trailing_breaks`, `leading_blanks`, `indent`,
`max_indent` are the local variables of those names. One action reads one
character, or leaves a loop.

## 3. Runs

| Run | Question | Bounds |
|---|---|---|
| `dict_safety` | Under all operations, all failing calls, a lagging copy and a crash: does the cached set, does an answer, err on other words than those excepted, is an answered and bumped write hidden for another reason than a lagging copy? | 2 words, 2 writers, 1 reader, 2 requests, batches of one, 1 crash |
| `dict_eventual` | With failing reads, writes and bumps, clears and a lagging copy, does the cache come to agree when writes stop? | 1 word, 1 writer, 2 requests, 2 readers, 1 crash |
| `dict_clear_stale` (violated) | Does a fill detect every write that is over, clears too? | 1 word |
| `dict_lagging` (violated) | Does a set that is filled after an add was answered have the word? | 1 word, no faults |
| `tiered` | Age of served answers, finality of clears, order of the tiers. | 2 processes, 2 answers, 1 clear, time 0..6 with lifetimes 1 and 2 |
| `ws` | What the peer hears first, what LanguageTool is called with and how often, is the newest check answered, does shutdown complete, who can stay? | 4 messages, of them 2 checks, channel of 2, everything may fail |
| `ws_stuck_reader` (violated) | Does a dead connection always leave the hub? | 2 messages, 1 check, channel of 1 |
| `api` | Does the limit hold across windows and purges, is a refusal earned, do the counters count, is a health answer plausible, does the process end? | 3 requests of one address to any route, limit 1, window 2, delay 1, grace 1, time 0..5 |
| `check` | Is everybody answered his own, is the cache least-recently-used, do its structures agree? | 2 request slots, 3 requests, 3 keys over 2 texts, capacity 2, 1 client and anonymous and malformed ids, 1 word, time 0..2 |
| `yaml_read` | Do the scanner's blocks and keys and the parser's stacks agree, is no token taken that turns out to be a key, are the events well nested? | texts of 5 lexemes, 2 columns, flow depth 2, block depth 2 |
| `yaml_scalars` | Is every string read as it was written? Is the style stable? Do the scanner's loops end? | strings of 6 characters of 3, of 5 of 4, of 3 of 14, indents 2 and 4, 5 styles, 6 places, simple keys up to 4 characters |
| `yaml_marshal` (violated) | The same for strings of Go, without exceptions. | strings of 3 characters of 3, indent 4 |

Why these are enough. In the dictionary a wrong set takes one fill and one write
that overtake each other; the second request is the write that a fill may meet done,
in progress or not yet begun, and the one whose bump hides or repairs what the first
left. Two words let a change to one word be confused with another, show pages read
at different times, one from the table and one from the copy, and batches left half
done; one-element batches make every clear a sequence of calls. Reads meet only
through the set and the version, which writers, expiry and crashes change in the
same ways as a fill, but for what the fill writes; that two fills do not spoil each
other is what `dict_eventual` adds with a second reader, as far as lasting errors
go, and the theorems for any number. It has one word and leaves out removes, failing
lists and failing fills: a remove differs from an add in the value it writes, and a
call that fails before it has changed anything is one that never began. One crash is
what takes a bump back; a second would find no other kind of state. `TieredCache`
needs the time `MaxAge + 1` for its bound to be exceeded; with the bound lowered by
one TLC finds a violation, so the interesting histories do occur. In `WsConn` a
channel of two fills up after two answers. Two checks let the callbacks of both run
at once, the first with its own text or with that of the second; with the second's
text in its hands while the second's callback runs, a text is called with twice, and
with its own it may reach LanguageTool after its successor: TLC reaches both. The
other messages keep the reader sending. Three requests and a limit of one are what a
third window's worth takes, and it takes time until 5: with a window of two and a
delay of one the three may all be granted (at 0, 3 and 5, for instance), so
`AtMostTwice` has a third to speak about. At a limit of one the third comes more
than a whole window after the first, so the bound is not tight; that it holds where
it is, at higher limits, is what the theorem `TwiceTheLimit` adds. The delay lets a
request be counted at a time before a purge. A capacity of two with three keys
evicts, and lets a hit change who is evicted. In `yaml_read` any two of the twenty
lexemes start the text, then come those that end, separate or fill collections;
depth limits of two are reached, so that the errors there occur. Strings of five
reach the shortest ones that need look-ahead over several breaks; four characters
for simple keys put keys without breaks on both sides of the limit. Symmetry is used
only in runs that check safety. `CHECK_DEADLOCK FALSE` everywhere, since requests
are bounded: a finished instance has nothing left to do, and the question "is
anything stuck" is asked as liveness.

What the violated runs show (`PROJECT.json`, findings):

1. `dict_clear_stale`: `ClearAll` deletes the set without a bump
   (`service.go:73`), so a fill that read before the clear passes the version check and
   restores the cleared words, for up to 24 h. The comment at `cache.go:71` names
   clear among the writes that loaders detect.
2. `dict_lagging`: the query behind a fill may be answered by a copy that does not
   have the word yet (`store.go:75` does not ask for a consistent read), although
   the fill began after the add was answered and took the new version. The set
   without the word is kept for up to 24 h, and checks go on reporting it;
   `handler.go:28` promises the opposite.
3. `ws_stuck_reader`: the writer leaves on a failed write without ending the
   context; a reader that waits for room in the full channel waits forever, and
   the connection stays in the hub. `OnlyStuckStays` in `ws` shows that
   there is no other way to stay.
4. `yaml_marshal`: `write_literal_scalar` (`emitterc.go:1890`) writes the break
   behind the header together with the first line that is not empty. A string
   that begins with a break loses it: the value `"\n"` is written `|4+` and one break
   (`Marshal` indents by 4, `encode.go:60-63`), and reads back empty.

Seen while modelling, and visible in the models, but without a run:

* `ClearCache` deletes `lt:check:*`, and connections cache under `lt:ws:`
  (`conn.go:30`). With a `Prefix` other than the cleared one `ForgottenStay` of
  `tiered.cfg` fails.
* A backfill (`tiered.go:39`) gives five minutes to what Redis drops next
  second, though `lru.go:62` says the first tier never outlives Redis;
  `AnswersFresh` bounds by how much.
* A connection's texts may reach LanguageTool, and be answered, in another order than
  they were sent: between the mutex and the call lie the look-ups
  (`conn.go:238-259`). And a text may be checked twice, when the timer of its
  predecessor has fired but its callback does not have the mutex yet
  (`conn.go:211`); `CallsEarned` says that this is all. The client orders answers by
  `seqId`.
* After a refusal both cases of the writer's select are ready (`conn.go:196`),
  so the peer may not be told.
* The filter slices runes by offsets that count UTF-16 units, so after an
  astral character it looks up another word; `AnswersOwn` excludes such texts.
* `fetch_flow_collection_end` deletes the entry of the bracket from
  `simple_keys_by_tok` (`scannerc.go:983`), so the parser takes a flow
  collection before the ':' that makes it a key: `[?]:` gets its KEY behind the
  bracket, and `{? a}: x` is refused. `KeysInTime` shows that nothing but flow
  collections is taken too early.
* Where the key of a pair in a flow sequence is missing, the parser skips the
  token after it (`parserc.go:1004`), so `[? , a]` loses its comma.
* Block scalars that do not read back are named in `YamlScalars!Misread`: those that
  begin with a break or a tab (`encode_test.go:426` keeps the latter); those that
  begin with a space where the hint (`best_indent`) is not the indent; and folded
  ones with `Misfolded` breaks. write_folded_scalar writes a break twice, so that it is
  not folded, unless what follows is blank, but looks for what follows at the
  beginning of the string (`k := 0` at `emitterc.go:1946`). So a break before a blank,
  or several at the end, are written once too often (`a`, break, ` a`), and in a string
  that begins with a space a break between two lines that do not is written once and
  read as a space (` a`, break, `a`, break, `a`).

## 4. Fairness

Weak fairness for what the runtime and the timeouts guarantee: every goroutine
that can step does, a timer fires, a call answers or times out
(`Dictionary!Fairness`, `WsConn!Fairness`). Nothing is owed by clients: requests,
reads of a silent peer and leaving are unfair. Strong fairness only for sends on
the channel: Go serves waiting senders in the order they came, so one that
again and again finds room is served. `PingFails` is fair only when the socket
is gone: then a write fails sooner or later. `Expire` and `Replicate` are fair
since a key with a time to live goes away and DynamoDB converges.
`EventuallyCoherent` depends on `Expire`: a lost invalidation is repaired by
nothing else. The bound on requests is what lets "writes stop"; the property
says nothing of a dictionary written forever. In `Api` time and the purge go on
(`Background`), a request that read the clock gets the mutex (`Decide`), and `main`
returns from `Shutdown` (`Exit`); handlers, upgrades, connections and the signal
owe nothing, and that is why `ShutdownEnds` needs the deadline. `TieredCache`,
`Check` and the YAML modules are checked for safety only; `EndReached` is how
`yaml_read` asks, without fairness, whether the scanner comes to an end.

## 5. Proofs

`DictionaryProofs` proves, for any sets of words, writers and readers, any
batch size and any number of requests:

| Theorem | Statement |
|---|---|
| `TypeCorrect` | `Spec => []TypeOK` |
| `CacheCoherent` | `Spec => []Coherent` |
| `AnswersRegular` | `Spec => []RegularReads` |
| `WritesVisible` | `Spec => []AckedWritesVisible` |

They assume `DictionaryAssumption` alone: all operations, all faults, crashes and the
lagging copy are allowed.

The argument. `Coherent` is not inductive: whether a fill may write its words
depends on what it read before. `FreshFills` says of every fill whose snapshot
is the current version that it has seen the store as it is, but for dirty
words, words its pages lagged behind on (`lag`) and words still to be read. A write makes its word dirty, so it keeps
this; a bump empties `dirty` but moves the version past every snapshot, so no
fill is left to speak of; a snapshot can only equal the new version if taken
afterwards, since `TypeOK` keeps snapshots at or below the counter, which a crash
sets back only together with all fills. `Watch` and
`Exec` then copy a fresh fill into the set, and its `lag` becomes `stale`. `DirtyTouched` and `FreshReads` do
the same for what `GetWordSet` returns, relative to the words that were dirty
when it began or changed since. `LogCoherent` says of the file what `Coherent` says
of the set. Together they are `CoherenceInv`. For
`AckedWritesVisible` it remains that a dirty word belongs to a request with its
bump still ahead or is `lost` (`DirtyPending`). Each exception is needed: without
`stale` the lagging copy refutes it (`dict_lagging`), without `lost` a clear does
(`dict_clear_stale`).

`TieredCacheProofs` proves, for any sets of processes and calls, any lifetimes
and any bounds, with all disturbances:

| Theorem | Statement | Assumes, beside `TieredCacheAssumption` |
|---|---|---|
| `TypeCorrect` | `Spec => []TypeOK` | nothing |
| `RedisFirstHolds` | `Spec => []RedisFirst` | nothing |
| `AnswersFreshHolds` | `Spec => []AnswersFresh` | nothing |
| `ForgottenStayHolds` | `Spec => []ForgottenStay` | the prefix is the one cleared |

Each has an inductive invariant of its own in `TieredCache`. `FreshInv` adds up
the ages along the way of an answer: a fill carries the date of birth (`at`);
its write to Redis comes at most one `CallTime` later, so the entry there ends
within `L2TTL + CallTime` of the birth; a request that hits it began before
that, and copies it at most one more `CallTime` later, so the copy ends within
`MaxAge`. The guard of `Tick` is what makes calls end in time (`OnTime`), and it
stands for the timeouts of the code. `ForgottenInv` follows the answers a clear
will remove (`settled`): no call carries them, no first tier has them, and
between `ClearKeys` and `ClearDel` they are in Redis only if the key was found,
which needs `Prompt`, that Redis shows no entry past its time. Clears and the
environment only remove (`Removes`), so the proofs about them are one lemma.
For the keys of connections the conclusion is false. The
theorem says nothing of an answer that a fill or another process held when the
clear began: such an answer can come back.

`HubProofs` proves, for any connections and probes, `TypeCorrect`,
`CountsCorrect` (`Spec => []CountsAgree`) and `StatsCorrect`
(`Spec => []StatsPlausible`). The counters are cardinalities of the sets of
connections past the step that counts them; every action moves one connection
in or out of one set (`FS_AddElement`, `FS_RemoveElement`). What a probe loaded
first stays below what it loads next because `total` never falls.

`ApiProofs` proves of the limiter by itself, for any limit, window, delay,
addresses and requests, from `RateLimitAssumption`:

| Theorem | Statement |
|---|---|
| `TypeCorrect` | `LimiterSpec => []LimiterTypeOK` |
| `TwiceTheLimit` | `LimiterSpec => []AtMostTwice` |
| `WindowsApart` | `LimiterSpec => OpeningsApart` |
| `RefusalsJustified` | `LimiterSpec => RefusalsEarned` |

None is inductive: the map forgets windows, and dates them by a clock reading
that may be `Delay` old. `WindowInv` ties the map to the history: the window in
the map is the one `opener` names, dated at most `Delay` too early, with its
count (`Dated`); an address without a window has none that is not over
(`Forgotten`, where the purge would go wrong); and what was let through `Limit`
requests before a window opened is more than `Window - Delay` back (`Spread`).

It then proves, from `ApiAssumption` and the limiter's, that the process
implements the two modules it is made of:

| Theorem | Statement |
|---|---|
| `LimiterKept` | `Spec => LimiterSpec` |
| `HubKept` | `Spec => HubFacts!Spec`, requests as connections and as probes |
| `TypeServed` | `Spec => []TypeOK` |
| `TwiceTheLimitServed`, `WindowsApartServed`, `RefusalsServed` | the limiter's theorems, of `Api!Spec` |
| `CountsServed`, `HealthPlausible` | the hub's theorems, of `Api!Spec` |

A step of the process is a step of the limiter, of the hub, of both or of
neither; a request that a shutdown cuts off stutters in both. The rest follows from
the theorems about the parts. `TypeServed` has the agreement between the stage
of a request and what the parts hold of it, and needs an induction of its own.

`WsConnProofs` proves, for any number of messages and any capacity:

| Theorem | Statement |
|---|---|
| `TypeCorrect` | `Spec => []TypeOK` |
| `VerdictComesFirst` | `Spec => []VerdictFirst` |
| `CallsAreEarned` | `Spec => []CallsEarned` |

`VerdictFirst` is about what the peer heard; the invariant says where the verdict
is before: with the reader, at the head of the channel, or in the writer's
hand, and that nothing else is sent until it is on its way. For `CallsEarned` the
invariant (`CallsInv`) follows each timer: while it is armed, or was stopped by a
successor, its callback has not run; once it has fired the callback holds a text no
older than the timer's, as `pending` only grows, and has called before it waits and
never again.

`YamlReaderProofs` proves, for texts of any length, nesting and columns and any limits of the scanner, from `ScannerAssumption`:

| Theorem | Statement |
|---|---|
| `StackHolds` | `Spec => []StackOK`: the stack of states is empty exactly outside of documents, and the end of the document is at its bottom and nowhere else |
| `PopsSafe` | `Spec => [][Pops => states # <<>>]_vars` |
| `MarksKept` | `Spec => []MarksMatch` |
| `WellNestedHolds` | `Spec => WellNested`, the refinement of `YamlEvents` |
| `ReaderHolds` | `Spec => []ReaderOK`, the inductive invariant of scanner and parser together |
| `OpenerAtHandHolds` | `Spec => []OpenerAtHand` |
| `BlocksMatchHolds` | `Spec => []BlocksMatch` |
| `KeysIndexedHolds` | `Spec => []KeysIndexed` |
| `KeysInTimeHolds` | `Spec => []KeysInTime` |
| `EndReachedHolds` | `Spec => []EndReached` |
| `ReaderTypes` | `Spec => []TypeOK` |

Every action of the parser is one of five kinds: it stays, opens a collection,
calls, pops or fails (`ParseKind`, one lemma per group of actions). The stack is then
an induction over the kinds. `MarksInv` counts the marked states on the stack
(`Below`) and the current one apart, so that a push and a pop change the
count by what they move. For the refinement the abstract stack is the
concatenation of the frames of all states on the stack (`FlattenIs`: the fold of the
community module is the recursive function of a least counterexample), so that a
push appends frames and a pop uncovers them (`NestBelow`); the steps of the parser are
then sorted by what they do to the frames (`Turn`: rests, enters, fills, completes,
collects, ends, pairs), and each sort is a step of `YamlEvents` or a stutter.
These four need nothing of the scanner: they hold whatever it queues.

The others are about both, and none is inductive. `ReaderOK` is
`StackOK /\ ScannerOK /\ OpenerAtHand /\ BalanceOK`.

* `ScannerOK` is about the scanner between two steps (`Good`). The code keeps a
  simple key per flow level (`simple_keys`) and finds it by the token it stands
  for (`simple_keys_by_tok`); a level that was given up can keep its number, and
  an entry can outlive its key, so the two do not simply agree. `KeysOK` says what
  holds instead: the entry of a token that is still queued leads to the level of
  that token or to the outermost (`Leads`, from which `KeysIndexed`), numbers and
  positions rise with the levels (`Ordered`), and a block key that may still come
  is queued and found (`Waiting`). The danger is the entry of a key that was given
  up: another key saved at its level would leave the entry leading to the wrong
  token. `Resolved` excludes it, as so many tokens are queued behind that one that
  it is taken before the scanner fetches again; and `Behind`, by which no outer
  key can come any more, excludes that the scanner fetches on for the sake of an
  outer key at the head (`HeldQuiet`). `AtHand` says that a token released to the
  parser is not a key any more (`KeysInTime`).
* `StreamEnds` in `Good` is `EndReached`: at the end of the text the line of every
  key is passed (`AllPassed`), so that no head is held back any longer and fetching
  only fills the lookahead of three.
* `OpenerAtHand` has to be carried along: the first entry of a collection takes the
  head without looking, and what that changes in the blocks depends on its type.
* `BalanceOK` counts: the blocks the parser is in, counted on its stack as in
  `MarksInv`, with those the queue opens less those it ends, are the indents less
  that of the stream. A fetch changes queue and indents by the same (`Level`: `RollIndent`
  queues an opening token with the indent it adds, `UnrollIndent` an ending one for
  each indent it drops); a step of the parser that takes a token of weight 1, 0 or -1 changes its blocks by that
  (`Balanced`, one lemma per group of actions). It is why no BLOCK-END is
  ever without a block to end.

Its first half, about the scanner alone, follows the calls: one for each helper on what it
keeps (`Keeps`, `Sound`), on the keys (`KeysSaved`, `KeysRemoved`, `KeysPushed`,
`KeysPopped`, `KeysTaken`), on the indents (`RollFits`, `UnrollFits`), one for each
fetcher, and from them `FetchFits`, `LexemeGood`, `EndGood`, `ReleaseGood`,
`TakenGood`.

`CheckProofs` proves, for any keys, texts, words, clients, requests and
capacity, from `LRUAssumption`, `CheckAssumption` and `ValuesAssumption`:

| Theorem | Statement |
|---|---|
| `TypeCorrect` | `Spec => []TypeOK` |
| `AnswersOwnHolds` | `Spec => []AnswersOwn` |
| `IndexAgreesHolds` | `Spec => []IndexAgrees` |
| `LeastRecentlyUsedHolds` | `Spec => LeastRecentlyUsed`, the refinement of `Recency` |

The invariant: whatever is under a key, in either tier, in a goroutine or in a
request that has not filtered yet, is LanguageTool's answer to that key's text;
a filtered one is that answer less the words of a set that lies between `always`
and `ever`. `PlainSlices` is the lemma that in a text without astral
characters the filter's slice is the flagged word. `IndexAgrees` becomes inductive
with the elements not used yet (`ListInv`): a new element is on no list. For the
refinement `Selecting!Select` says what is left of a sequence by the positions
that stay, in ascending order; there is one such enumeration, so removing one
element from the list, and the entries read off the list, commute.

`YamlScalarsProofs` proves, for strings of any length over any alphabet that has the
characters with a meaning, in every style, at the six places, for any limit of simple
keys and for any indent from 2 to 9, from `OthersAssumption`, `ValuesAssumption`, `StylesAssumption` and
`IndentsAssumption`:

| Theorem | Statement |
|---|---|
| `TypeCorrect` | `Spec => []TypeOK`; nothing that cannot be printed is written unescaped |
| `StyleSettles` | `Spec => []Settles` |
| `ScannerAdvances` | `Spec => Advances`: no loop of the scanner runs for ever |
| `ScalarsReadBack` | `Spec => []ReadsBack` |

The argument has three parts.

* What is written. `Piece` is what stands for one character of the string: itself,
  twice, escaped, or with the indentation before it; it depends on the characters
  beside it alone. `TextIs` says that the text is what stands before the scalar, an
  opening, the pieces, a closing and what stands after, and where each of them begins
  (`Layout`); `FlattenSeq` is a fold, of which `FlattenIs` makes the recursive function
  that the induction (by the least counterexample) needs. From it each style gets
  what the scanner has in front of it (`PlainAhead`, `DoubleAhead`, `SingleAhead`,
  `BlockAhead`), with what the analysis allowed that style for: this is where
  `analyze_scalar` meets the scanner's rules.
* The types. `Sound` is `TypeOK` with what was asked for and written: the style is
  one the analysis grants (`Granted`), and granted styles are chosen again.
* What is read. `Reads` is the inductive invariant. It says for each style in which of
  a few states the scanner is, at which character k: inside a word, after blanks,
  after the first of two breaks that are one, after breaks and j characters into the
  indentation, past the end. In each, what was read, with what is still to be
  added by the rules of folding, is the first k - 1 characters of the string. There
  is a lemma for every way from one state to another, and at the end of the scalar
  the result is the string. Of a folded scalar `FoldsAgree` says that the break the
  emitter wrote twice is the one the scanner folds, which is so exactly without
  `Misfolded`: a first form of `Misread` missed the strings that begin with a space,
  which the proof brought to light and the run, with strings of six characters, shows.

The four theorems use nothing of the order in which strings are enumerated and no
bound of the run; `Misread` is a property of the string, the style and the place.

Only model-checked. Liveness (`EventuallyCoherent`, `LastCheckAnswered`,
`ShutdownCompletes`, `OnlyStuckStays`, `ShutdownEnds`) needs `ENABLED` of the fair
actions, which the prover does not reason about. Every invariant and every other
action property of a passing run is proved.

## 6. Not modelled

* Validation, decoding, formatting, logging and Swagger; configuration and the
  warm-up request in `main.go`. They keep no state.
* `ListWords` of the dictionary: a query whose answer goes to the client.
* The SDK's own repetition of a `PutItem` or of the bump transaction whose
  answer is lost; the fill's `WATCH` does not survive a reconnection,
  and repeated `SETEX` is in `TieredCache!SetL2`.
* Two processes on one dictionary are covered: nothing in it is per process.
* Redis losing its last second while the server lives on: in
  `docker-compose.yml` they share a host. With Redis on a host of its own a
  counter set back could meet a fill that knows its later value.
* Of the YAML library: keys of flow mappings (`emitterc.go:666-695`), which are
  simple or behind `?` like those of block mappings; decoding of bytes, comments and marks, the emitter's
  structure, folding by width, the conversion from and to Go values by
  reflection (`decode.go`, `encode.go`) and the tables of `resolve.go`. A text
  of lexemes is any sequence of them; not every one has only one spelling.
* The example client and deployment files.

## 7. Plan

1. The emitter's state machine, and that what it writes for a well-nested stream
   the reader reads as that stream; then the proof of that refinement.
2. `WsClient`: the peer of `WsConn` with its sequence numbers and reconnections.

There is no abstract dictionary for `Dictionary` to implement: a set of words, each
a regular register, whose reads may err only on words changed during the read or not
yet announced when it began, is what `RegularReads` says by itself.
