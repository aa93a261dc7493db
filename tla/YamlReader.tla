----------------------------- MODULE YamlReader -----------------------------
(* Reading a text: the parser peeks at tokens and the scanner fetches them.  The   *)
(* two share the queue, the scanner looks ahead of the parser, and a ':' reaches   *)
(* back into what the parser has not taken yet.                                    *)
EXTENDS YamlScanner, YamlParser

vars == <<queue, error, scanner, parVars>>

Init == QueueInit /\ ScannerInit /\ ParserInit

Next ==
    \/ Scan /\ UNCHANGED parVars
    \/ Parse /\ UNCHANGED scanner

Spec == Init /\ [][Next]_vars
-----------------------------------------------------------------------------
(* The frames of YamlEvents that a state of the parser stands for.  A state on the *)
(* stack has already counted the node it waits for.                                *)
ItemStates ==
    {"BLOCK_SEQUENCE_FIRST_ENTRY", "BLOCK_SEQUENCE_ENTRY", "BLOCK_SEQUENCE_ENTRY-",
     "INDENTLESS_SEQUENCE_ENTRY", "INDENTLESS_SEQUENCE_ENTRY-",
     "FLOW_SEQUENCE_FIRST_ENTRY", "FLOW_SEQUENCE_ENTRY", "FLOW_SEQUENCE_ENTRY[",
     "FLOW_SEQUENCE_ENTRY,"}

KeyStates ==
    {"BLOCK_MAPPING_FIRST_KEY", "BLOCK_MAPPING_KEY", "BLOCK_MAPPING_KEY?",
     "FLOW_MAPPING_FIRST_KEY", "FLOW_MAPPING_KEY", "FLOW_MAPPING_KEY{",
     "FLOW_MAPPING_KEY,", "FLOW_MAPPING_KEY?"}

ValueStates ==
    {"BLOCK_MAPPING_VALUE", "BLOCK_MAPPING_VALUE:", "FLOW_MAPPING_VALUE",
     "FLOW_MAPPING_VALUE:", "FLOW_MAPPING_EMPTY_VALUE"}

PairKeyStates == {"FLOW_SEQUENCE_ENTRY_MAPPING_KEY", "FLOW_SEQUENCE_ENTRY_MAPPING_END"}

PairValueStates == {"FLOW_SEQUENCE_ENTRY_MAPPING_VALUE", "FLOW_SEQUENCE_ENTRY_MAPPING_VALUE:"}

StreamStates ==
    {"STREAM_START", "IMPLICIT_DOCUMENT_START", "DOCUMENT_START", "DIRECTIVES",
     "DOCUMENT_CONTENT", "DOCUMENT_END", "NODE", "END"}

States ==
    ItemStates \cup KeyStates \cup ValueStates \cup PairKeyStates \cup PairValueStates
      \cup StreamStates

Frames(s) ==
    CASE s = "DOCUMENT_END"      -> <<"done">>
      [] s \in ItemStates        -> <<"item">>
      [] s \in KeyStates         -> <<"key">>
      [] s \in ValueStates       -> <<"value">>
      [] s \in PairKeyStates     -> <<"item", "key">>
      [] s \in PairValueStates   -> <<"item", "value">>
      [] OTHER                   -> <<>>

(* The frame that becomes this one when its node is complete.                      *)
Awaiting(frame) ==
    CASE frame = "done" -> "root"
      [] frame = "value" -> "key"
      [] frame = "key" -> "value"
      [] OTHER -> frame

Stacked == FlattenSeq([i \in 1..Len(states) |-> Frames(states[i])])

Nest ==
    IF state \in {"STREAM_START", "END"} THEN <<>>
    ELSE <<"stream">> \o
         IF state \in {"NODE", "DOCUMENT_CONTENT"}
         THEN [Stacked EXCEPT ![Len(Stacked)] = Awaiting(@)]
         ELSE Stacked \o Frames(state)

TheEvents == INSTANCE YamlEvents WITH nest <- Nest

(* Whatever the text, the events of the parser are those of a well-nested stream:  *)
(* it implements YamlEvents, each state it pushes standing for what it waits for.  *)
WellNested == TheEvents!WellNested
-----------------------------------------------------------------------------
(* Types, the stack of flow levels beside its counter, and the indents: they grow  *)
(* strictly from the -1 of the stream.                                             *)
TypeOK ==
    /\ tokens \in Seq([typ : TokenTypes, val : {"", "1.1", "1.2", "!", "!h!"}])
    /\ tokens_parsed \in Nat /\ marks \in Nat
    /\ token_available \in BOOLEAN
    /\ error \in {"none", "scanner", "parser"}
    /\ state \in States /\ states \in Seq(States)
    /\ tag_directives \subseteq (DefaultHandles \cup {"!h!"})
    /\ scanner.started =>
          /\ Len(scanner.simple_keys) = scanner.flow_level + 1
          /\ scanner.levels[1] = -1
          /\ \A i \in 2..Len(scanner.levels) : scanner.levels[i - 1] < scanner.levels[i]

Count(types) == Cardinality({i \in DOMAIN tokens : tokens[i].typ \in types})

(* How often the parser is at, or will come back to, one of these points.          *)
Open(points) == Cardinality({i \in 0..Len(states) : Append(states, state)[i + 1] \in points})

(* Past their first entry; an indentless sequence has no tokens of its own.        *)
BlockPoints ==
    {"BLOCK_SEQUENCE_ENTRY", "BLOCK_SEQUENCE_ENTRY-", "BLOCK_MAPPING_KEY",
     "BLOCK_MAPPING_KEY?", "BLOCK_MAPPING_VALUE", "BLOCK_MAPPING_VALUE:"}

(* The blocks the parser is in, with those whose tokens wait in the queue, are the *)
(* indents of the scanner: every block that a column opened is closed once.        *)
BlocksMatch ==
    error = "none" /\ scanner.started =>
       Open(BlockPoints) + Count(BlockStarts) - Count({"BLOCK-END"})
          = Len(scanner.levels) - 1

Openers ==
    [BLOCK_SEQUENCE_FIRST_ENTRY |-> "BLOCK-SEQUENCE-START",
     BLOCK_MAPPING_FIRST_KEY |-> "BLOCK-MAPPING-START",
     FLOW_SEQUENCE_FIRST_ENTRY |-> "FLOW-SEQUENCE-START",
     FLOW_MAPPING_FIRST_KEY |-> "FLOW-MAPPING-START"]

Unmarked ==
    StreamStates \cup DOMAIN Openers \cup {"INDENTLESS_SEQUENCE_ENTRY", "INDENTLESS_SEQUENCE_ENTRY-"}

(* parser.marks has one mark for every collection that is past its first entry:    *)
(* none is popped twice (the pop indexes the slice) and none is left behind.       *)
MarksMatch == error = "none" => marks = Open(States \ Unmarked)

(* The first entry of a collection takes the head of the queue without looking at  *)
(* it and, in a flow mapping, without asking whether there is one: it is there and *)
(* it is the token that opened the collection.                                     *)
OpenerAtHand == state \in DOMAIN Openers => token_available /\ Head(tokens).typ = Openers[state]

(* simple_keys_by_tok of a token still in the queue leads to a level that exists:  *)
(* fetch_more_tokens indexes simple_keys with it.                                  *)
KeysIndexed ==
    \A n \in DOMAIN scanner.by_tok :
       n >= tokens_parsed => scanner.by_tok[n] \in DOMAIN scanner.simple_keys

(* Past the end of the text the scanner only fills its lookahead: no key waits for *)
(* a ':' that cannot come, which would fetch STREAM-END for ever.                  *)
EndReached == Count({"STREAM-END"}) <= 3

(* "If a potential simple key is at the head position, we need to fetch the next   *)
(* token to disambiguate it": a ':' does not make a key of what the parser took,   *)
(* unless that is a flow collection.  The ':' of `[?]:` does, as leaving the flow  *)
(* has forgotten that the bracket may be a key.                                    *)
KeysInTime == ~scanner.late
=============================================================================
