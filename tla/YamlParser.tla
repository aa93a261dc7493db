----------------------------- MODULE YamlParser -----------------------------
(* parserc.go: the state machine that turns tokens into events.  A call of         *)
(* yaml_parser_parse may take several tokens, and the scanner runs whenever it     *)
(* peeks; so `state` holds parser.state between calls and, within a call, the      *)
(* point it has come to: "DIRECTIVES" and "NODE" for the functions of that name,   *)
(* and a name ending in an indicator where that indicator was just skipped.        *)
(* Comments and source marks are left out; `marks` counts the marks kept.          *)
EXTENDS YamlTokens

VARIABLES state,
          states,          \* the states to return to
          marks,           \* the length of parser.marks
          node,            \* the arguments and properties of the node being read
          tag_directives,  \* the handles known in this document
          version,         \* this document has a %YAML directive
          event            \* the type of the last event produced

parVars == <<state, states, marks, node, tag_directives, version, event>>

DefaultHandles == {"!", "!!"}

NoNode == [block |-> FALSE, indentless |-> FALSE, anchor |-> FALSE, tag |-> "none"]

ParserInit ==
    /\ state = "STREAM_START"
    /\ states = <<>>
    /\ marks = 0
    /\ node = NoNode
    /\ tag_directives = {}
    /\ version = FALSE
    /\ event = "none"

typ == Head(tokens).typ

Fail ==
    /\ error' = "parser"
    /\ UNCHANGED <<queue, state, states, node, tag_directives, version, event>>

(* parser.state = to, and the event of the call.                                   *)
Goes(to, ev) ==
    /\ state' = to
    /\ event' = ev
    /\ node' = NoNode
    /\ UNCHANGED <<error, version>>

(* The same for the state on top of the stack, which is popped.                    *)
Returns(ev) ==
    /\ Goes(states[Len(states)], ev)
    /\ states' = SubSeq(states, 1, Len(states) - 1)

(* Between two tokens of one call.                                                 *)
Within(point) ==
    /\ state' = point
    /\ UNCHANGED <<error, states, version, event, node, tag_directives>>

(* Push the state to return to and parse a node: the token is not taken.           *)
ParseNode(after, block, indentless) ==
    /\ Keep
    /\ state' = "NODE"
    /\ states' = Append(states, after)
    /\ node' = [NoNode EXCEPT !.block = block, !.indentless = indentless]
    /\ UNCHANGED <<error, marks, tag_directives, version, event>>

(* process_empty_scalar: a missing node is an empty scalar.                        *)
EmptyScalar(to) ==
    /\ Keep
    /\ Goes(to, "SCALAR")
    /\ UNCHANGED <<states, marks, tag_directives>>

(* ------------------------------------------------------------------ documents *)
StreamStart ==
    /\ state = "STREAM_START"
    /\ Peek({"STREAM-START"})
    /\ Skip
    /\ Goes("IMPLICIT_DOCUMENT_START", "STREAM-START")
    /\ UNCHANGED <<states, marks, tag_directives>>

Prologue == {"VERSION-DIRECTIVE", "TAG-DIRECTIVE", "DOCUMENT-START"}

ImplicitDocument ==
    /\ state = "IMPLICIT_DOCUMENT_START"
    /\ Peek(TokenTypes \ (Prologue \cup {"STREAM-END"}))
    /\ Keep
    /\ state' = "NODE"
    /\ event' = "DOCUMENT-START"
    /\ states' = Append(states, "DOCUMENT_END")
    /\ node' = [NoNode EXCEPT !.block = TRUE]
    /\ tag_directives' = tag_directives \cup DefaultHandles
    /\ UNCHANGED <<error, marks, version>>

ExtraDocumentEnd ==
    /\ state = "DOCUMENT_START"
    /\ Peek({"DOCUMENT-END"})
    /\ Skip
    /\ Within("DOCUMENT_START")
    /\ UNCHANGED marks

ExplicitDocument ==
    /\ \/ state = "IMPLICIT_DOCUMENT_START" /\ Peek(Prologue)
       \/ state = "DOCUMENT_START" /\ Peek(TokenTypes \ {"DOCUMENT-END", "STREAM-END"})
    /\ Keep
    /\ state' = "DIRECTIVES"
    /\ version' = FALSE
    /\ UNCHANGED <<error, states, marks, node, tag_directives, event>>

StreamEnd ==
    /\ state \in {"IMPLICIT_DOCUMENT_START", "DOCUMENT_START"}
    /\ Peek({"STREAM-END"})
    /\ Skip
    /\ Goes("END", "STREAM-END")
    /\ UNCHANGED <<states, marks, tag_directives>>

(* process_directives: one %YAML directive, and it must be 1.1; no handle twice.   *)
VersionDirective ==
    /\ state = "DIRECTIVES"
    /\ Peek({"VERSION-DIRECTIVE"})
    /\ IF version \/ Head(tokens).val # "1.1"
       THEN Fail /\ UNCHANGED marks
       ELSE /\ Skip
            /\ version' = TRUE
            /\ UNCHANGED <<error, state, states, marks, node, tag_directives, event>>

TagDirective ==
    /\ state = "DIRECTIVES"
    /\ Peek({"TAG-DIRECTIVE"})
    /\ IF Head(tokens).val \in tag_directives
       THEN Fail /\ UNCHANGED marks
       ELSE /\ Skip
            /\ tag_directives' = tag_directives \cup {Head(tokens).val}
            /\ UNCHANGED <<error, state, states, marks, node, version, event>>

DocumentStart ==
    /\ state = "DIRECTIVES"
    /\ Peek({"DOCUMENT-START"})
    /\ Skip
    /\ Goes("DOCUMENT_CONTENT", "DOCUMENT-START")
    /\ states' = Append(states, "DOCUMENT_END")
    /\ tag_directives' = tag_directives \cup DefaultHandles
    /\ UNCHANGED marks

NoDocumentStart ==
    /\ state = "DIRECTIVES"
    /\ Peek(TokenTypes \ Prologue)
    /\ Fail
    /\ UNCHANGED marks

DocumentContent ==
    /\ state = "DOCUMENT_CONTENT"
    /\ Keep
    /\ UNCHANGED <<marks, tag_directives>>
    /\ \/ /\ Peek(Prologue \cup {"DOCUMENT-END", "STREAM-END"})
          /\ Returns("SCALAR")
       \/ /\ Peek(TokenTypes \ (Prologue \cup {"DOCUMENT-END", "STREAM-END"}))
          /\ state' = "NODE"
          /\ node' = [NoNode EXCEPT !.block = TRUE]
          /\ UNCHANGED <<error, states, version, event>>

DocumentEnd ==
    /\ state = "DOCUMENT_END"
    /\ \/ Peek({"DOCUMENT-END"}) /\ Skip
       \/ Peek(TokenTypes \ {"DOCUMENT-END"}) /\ Keep
    /\ Goes("DOCUMENT_START", "DOCUMENT-END")
    /\ tag_directives' = {}
    /\ UNCHANGED <<states, marks>>

(* ----------------------------------------------------------------------- nodes *)
Bare == ~node.anchor /\ node.tag = "none"

(* An anchor and a tag, in either order and each at most once.                     *)
Property ==
    \/ Peek({"ANCHOR"}) /\ ~node.anchor
    \/ Peek({"TAG"}) /\ node.tag = "none"

NodeProperty ==
    /\ state = "NODE"
    /\ Property
    /\ Skip
    /\ node' = IF typ = "ANCHOR" THEN [node EXCEPT !.anchor = TRUE]
                                 ELSE [node EXCEPT !.tag = Head(tokens).val]
    /\ UNCHANGED <<error, state, states, marks, tag_directives, version, event>>

UndefinedTag == node.tag # "none" /\ node.tag # "!<>" /\ node.tag \notin tag_directives

(* The content of a node may begin: its properties were read and its tag resolved. *)
Content(types) ==
    /\ state = "NODE"
    /\ ~Property
    /\ ~UndefinedTag
    /\ Peek(types)

Alias ==
    /\ Content({"ALIAS"})
    /\ Bare
    /\ Skip
    /\ Returns("ALIAS")
    /\ UNCHANGED <<marks, tag_directives>>

ScalarKept ==
    /\ Content({"SCALAR"})
    /\ Skip
    /\ Goes(states[Len(states)], "SCALAR")
    /\ UNCHANGED <<states, marks, tag_directives>>

Scalar ==
    /\ Content({"SCALAR"})
    /\ Skip
    /\ Returns("SCALAR")
    /\ UNCHANGED <<marks, tag_directives>>

(* The token that opens a collection is left for the state that reads its first    *)
(* entry.  A flow node cannot be a block collection, and an indentless sequence is *)
(* one only as the key or the value of a block mapping.                            *)
Opening ==
    [FLOWSEQ   |-> [on |-> "FLOW-SEQUENCE-START", to |-> "FLOW_SEQUENCE_FIRST_ENTRY",
                    ev |-> "SEQUENCE-START"],
     FLOWMAP   |-> [on |-> "FLOW-MAPPING-START", to |-> "FLOW_MAPPING_FIRST_KEY",
                    ev |-> "MAPPING-START"],
     BLOCKSEQ  |-> [on |-> "BLOCK-SEQUENCE-START", to |-> "BLOCK_SEQUENCE_FIRST_ENTRY",
                    ev |-> "SEQUENCE-START"],
     BLOCKMAP  |-> [on |-> "BLOCK-MAPPING-START", to |-> "BLOCK_MAPPING_FIRST_KEY",
                    ev |-> "MAPPING-START"],
     INDENTLESS |-> [on |-> "BLOCK-ENTRY", to |-> "INDENTLESS_SEQUENCE_ENTRY",
                    ev |-> "SEQUENCE-START"]]

MayOpen(kind) ==
    CASE kind \in {"BLOCKSEQ", "BLOCKMAP"} -> node.block
      [] kind = "INDENTLESS"               -> node.indentless
      [] OTHER                             -> TRUE

CollectionSkips(kind) ==
    /\ Content({Opening[kind].on})
    /\ MayOpen(kind)
    /\ Skip
    /\ Goes(Opening[kind].to, Opening[kind].ev)
    /\ UNCHANGED <<states, marks, tag_directives>>

Collection(kind) ==
    /\ Content({Opening[kind].on})
    /\ MayOpen(kind)
    /\ Keep
    /\ Goes(Opening[kind].to, Opening[kind].ev)
    /\ UNCHANGED <<states, marks, tag_directives>>

NoContent ==
    /\ Content(TokenTypes \ {"SCALAR"})
    /\ ~(typ = "ALIAS" /\ Bare)
    /\ \A kind \in DOMAIN Opening : Opening[kind].on = typ => ~MayOpen(kind)

(* Properties without content belong to an empty scalar.                           *)
PropertiesOnly ==
    /\ NoContent
    /\ ~Bare
    /\ Keep
    /\ Returns("SCALAR")
    /\ UNCHANGED <<marks, tag_directives>>

NodeMissing ==
    /\ \/ NoContent /\ Bare
       \/ state = "NODE" /\ token_available /\ error = "none" /\ ~Property /\ UndefinedTag
    /\ Fail
    /\ UNCHANGED marks

(* ----------------------------------------------------------- block collections *)
(* The first entry takes the token that opened the collection and keeps its mark.  *)
First(from, to) ==
    /\ state = from
    /\ token_available /\ error = "none"
    /\ Skip
    /\ marks' = marks + 1
    /\ Within(to)

Opened ==
    \/ First("BLOCK_SEQUENCE_FIRST_ENTRY", "BLOCK_SEQUENCE_ENTRY")
    \/ First("BLOCK_MAPPING_FIRST_KEY", "BLOCK_MAPPING_KEY")
    \/ First("FLOW_SEQUENCE_FIRST_ENTRY", "FLOW_SEQUENCE_ENTRY[")
    \/ First("FLOW_MAPPING_FIRST_KEY", "FLOW_MAPPING_KEY{")

(* A collection ends: its token is taken, its mark and its state are popped.       *)
ClosesMarked(from, on, ev) ==
    /\ state \in from
    /\ Peek({on})
    /\ Skip
    /\ Returns(ev)
    /\ UNCHANGED <<marks, tag_directives>>

Closes(from, on, ev) ==
    /\ state \in from
    /\ Peek({on})
    /\ Skip
    /\ Returns(ev)
    /\ marks' = marks - 1
    /\ UNCHANGED tag_directives

(* Neither an entry nor the end: the mark of the collection goes into the error.   *)
Unexpected(from, expected) ==
    /\ state = from
    /\ Peek(TokenTypes \ expected)
    /\ Fail
    /\ marks' = marks - 1

(* An indicator is skipped; what follows it is a node, or the node is missing.     *)
Indicator(from, on, to) ==
    /\ state = from
    /\ Peek({on})
    /\ Skip
    /\ Within(to)
    /\ UNCHANGED marks

Follows(from, enders, block, indentless, after) ==
    /\ state = from
    /\ \/ Peek(TokenTypes \ enders) /\ ParseNode(after, block, indentless)
       \/ Peek(enders) /\ EmptyScalar(after)

BlockSequence ==
    \/ Indicator("BLOCK_SEQUENCE_ENTRY", "BLOCK-ENTRY", "BLOCK_SEQUENCE_ENTRY-")
    \/ Follows("BLOCK_SEQUENCE_ENTRY-", {"BLOCK-ENTRY", "BLOCK-END"}, TRUE, FALSE,
               "BLOCK_SEQUENCE_ENTRY")
    \/ Closes({"BLOCK_SEQUENCE_ENTRY"}, "BLOCK-END", "SEQUENCE-END")
    \/ Unexpected("BLOCK_SEQUENCE_ENTRY", {"BLOCK-ENTRY", "BLOCK-END"})

PairEnders == {"KEY", "VALUE", "BLOCK-END"}

IndentlessSwallows ==
    /\ state = "INDENTLESS_SEQUENCE_ENTRY"
    /\ Peek(TokenTypes \ {"BLOCK-ENTRY"})
    /\ Skip
    /\ Returns("SEQUENCE-END")
    /\ UNCHANGED <<marks, tag_directives>>

(* A sequence at the column of its key has no token of its own: whatever is not an *)
(* entry ends it and is left alone.                                                *)
IndentlessEnd ==
    /\ state = "INDENTLESS_SEQUENCE_ENTRY"
    /\ Peek(TokenTypes \ {"BLOCK-ENTRY"})
    /\ Keep
    /\ Returns("SEQUENCE-END")
    /\ UNCHANGED <<marks, tag_directives>>

IndentlessSequence ==
    \/ Indicator("INDENTLESS_SEQUENCE_ENTRY", "BLOCK-ENTRY", "INDENTLESS_SEQUENCE_ENTRY-")
    \/ Follows("INDENTLESS_SEQUENCE_ENTRY-", PairEnders \cup {"BLOCK-ENTRY"}, TRUE, FALSE,
               "INDENTLESS_SEQUENCE_ENTRY")
    \/ IndentlessEnd

BlockMappingKey ==
    \/ Indicator("BLOCK_MAPPING_KEY", "KEY", "BLOCK_MAPPING_KEY?")
    \/ Follows("BLOCK_MAPPING_KEY?", PairEnders, TRUE, TRUE, "BLOCK_MAPPING_VALUE")
    \/ Closes({"BLOCK_MAPPING_KEY"}, "BLOCK-END", "MAPPING-END")
    \/ Unexpected("BLOCK_MAPPING_KEY", {"KEY", "BLOCK-END"})

(* A value that no ':' announces is empty.                                         *)
NoValue(from, after) ==
    /\ state = from
    /\ Peek(TokenTypes \ {"VALUE"})
    /\ EmptyScalar(after)

BlockMappingValue ==
    \/ Indicator("BLOCK_MAPPING_VALUE", "VALUE", "BLOCK_MAPPING_VALUE:")
    \/ Follows("BLOCK_MAPPING_VALUE:", PairEnders, TRUE, TRUE, "BLOCK_MAPPING_KEY")
    \/ NoValue("BLOCK_MAPPING_VALUE", "BLOCK_MAPPING_KEY")

(* ------------------------------------------------------------ flow collections *)
(* An entry of a flow sequence: after '[' without, later with, a ',' before it.    *)
FlowSequence ==
    \/ Indicator("FLOW_SEQUENCE_ENTRY", "FLOW-ENTRY", "FLOW_SEQUENCE_ENTRY,")
    \/ Unexpected("FLOW_SEQUENCE_ENTRY", {"FLOW-ENTRY", "FLOW-SEQUENCE-END"})
    \/ Closes({"FLOW_SEQUENCE_ENTRY", "FLOW_SEQUENCE_ENTRY[", "FLOW_SEQUENCE_ENTRY,"},
              "FLOW-SEQUENCE-END", "SEQUENCE-END")
    \/ /\ state \in {"FLOW_SEQUENCE_ENTRY[", "FLOW_SEQUENCE_ENTRY,"}
       /\ \/ /\ Peek({"KEY"})
             /\ Skip
             /\ Goes("FLOW_SEQUENCE_ENTRY_MAPPING_KEY", "MAPPING-START")
             /\ UNCHANGED <<states, marks, tag_directives>>
          \/ /\ Peek(TokenTypes \ {"KEY", "FLOW-SEQUENCE-END"})
             /\ ParseNode("FLOW_SEQUENCE_ENTRY", FALSE, FALSE)

(* A pair written among the items of a flow sequence is a mapping of its own.      *)
(* Where its key is missing the token after it is skipped as well.                 *)
PairKeyEnders == {"VALUE", "FLOW-ENTRY", "FLOW-SEQUENCE-END"}

FlowPair ==
    \/ /\ state = "FLOW_SEQUENCE_ENTRY_MAPPING_KEY"
       /\ \/ /\ Peek(TokenTypes \ PairKeyEnders)
             /\ ParseNode("FLOW_SEQUENCE_ENTRY_MAPPING_VALUE", FALSE, FALSE)
          \/ /\ Peek(PairKeyEnders)
             /\ Skip
             /\ Goes("FLOW_SEQUENCE_ENTRY_MAPPING_VALUE", "SCALAR")
             /\ UNCHANGED <<states, marks, tag_directives>>
    \/ Indicator("FLOW_SEQUENCE_ENTRY_MAPPING_VALUE", "VALUE",
                 "FLOW_SEQUENCE_ENTRY_MAPPING_VALUE:")
    \/ Follows("FLOW_SEQUENCE_ENTRY_MAPPING_VALUE:", {"FLOW-ENTRY", "FLOW-SEQUENCE-END"},
               FALSE, FALSE, "FLOW_SEQUENCE_ENTRY_MAPPING_END")
    \/ NoValue("FLOW_SEQUENCE_ENTRY_MAPPING_VALUE", "FLOW_SEQUENCE_ENTRY_MAPPING_END")
    \/ /\ state = "FLOW_SEQUENCE_ENTRY_MAPPING_END"
       /\ Peek(TokenTypes)
       /\ Keep
       /\ Goes("FLOW_SEQUENCE_ENTRY", "MAPPING-END")
       /\ UNCHANGED <<states, marks, tag_directives>>

FlowMappingKey ==
    \/ Indicator("FLOW_MAPPING_KEY", "FLOW-ENTRY", "FLOW_MAPPING_KEY,")
    \/ Unexpected("FLOW_MAPPING_KEY", {"FLOW-ENTRY", "FLOW-MAPPING-END"})
    \/ Closes({"FLOW_MAPPING_KEY", "FLOW_MAPPING_KEY{", "FLOW_MAPPING_KEY,"},
              "FLOW-MAPPING-END", "MAPPING-END")
    \/ \E from \in {"FLOW_MAPPING_KEY{", "FLOW_MAPPING_KEY,"} :
          \/ Indicator(from, "KEY", "FLOW_MAPPING_KEY?")
          \/ /\ state = from
             /\ Peek(TokenTypes \ {"KEY", "FLOW-MAPPING-END"})
             /\ ParseNode("FLOW_MAPPING_EMPTY_VALUE", FALSE, FALSE)
    \/ Follows("FLOW_MAPPING_KEY?", {"VALUE", "FLOW-ENTRY", "FLOW-MAPPING-END"},
               FALSE, FALSE, "FLOW_MAPPING_VALUE")

FlowMappingValue ==
    \/ Indicator("FLOW_MAPPING_VALUE", "VALUE", "FLOW_MAPPING_VALUE:")
    \/ Follows("FLOW_MAPPING_VALUE:", {"FLOW-ENTRY", "FLOW-MAPPING-END"}, FALSE, FALSE,
               "FLOW_MAPPING_KEY")
    \/ NoValue("FLOW_MAPPING_VALUE", "FLOW_MAPPING_KEY")
    \/ /\ state = "FLOW_MAPPING_EMPTY_VALUE"
       /\ Peek(TokenTypes)
       /\ EmptyScalar("FLOW_MAPPING_KEY")

Parse ==
    \/ StreamStart \/ ImplicitDocument \/ ExtraDocumentEnd \/ ExplicitDocument
    \/ StreamEnd \/ VersionDirective \/ TagDirective \/ DocumentStart \/ NoDocumentStart
    \/ DocumentContent \/ DocumentEnd
    \/ NodeProperty \/ Alias \/ Scalar \/ (\E kind \in DOMAIN Opening : Collection(kind))
    \/ PropertiesOnly \/ NodeMissing
    \/ Opened \/ BlockSequence \/ IndentlessSequence \/ BlockMappingKey \/ BlockMappingValue
    \/ FlowSequence \/ FlowPair \/ FlowMappingKey \/ FlowMappingValue
=============================================================================
