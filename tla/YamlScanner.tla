---------------------------- MODULE YamlScanner -----------------------------
(* scannerc.go: how characters become tokens.  What the scanner reads next, after  *)
(* blanks, comments and line breaks, is a lexeme: an indicator, a scalar, a        *)
(* property or a directive, at a column, on a fresh line or not, with the breaks   *)
(* it spans or eats itself.  The lexemes are drawn as the scanner asks for them.   *)
(* Hard parts: a ':' makes a key of a token that was queued before it, and blocks  *)
(* have no closing indicator but the column of what follows.                       *)
EXTENDS YamlTokens, FiniteSets, SequencesExt, Functions

CONSTANTS Kinds,             \* bound: the lexemes a text may hold, first, second, ...
          MaxColumn,         \* bound: the columns at which lexemes begin
          KeyLimit,          \* how far a ':' may be from its key, in lexemes
          max_flow_level,
          max_indents

VARIABLES scanner      \* the fields of yaml_parser_t that only the scanner uses

Lexical ==
    [k \in {"---", "...", "%YAML", "%YAML 1.2", "%TAG", "[", "]", "{", "}", ",", "-",
            "?", ":", "*", "&", "!", "!h!", "|", "quoted", "plain"} |->
       CASE k = "---"       -> [typ |-> "DOCUMENT-START", val |-> ""]
         [] k = "..."       -> [typ |-> "DOCUMENT-END", val |-> ""]
         [] k = "%YAML"     -> [typ |-> "VERSION-DIRECTIVE", val |-> "1.1"]
         [] k = "%YAML 1.2" -> [typ |-> "VERSION-DIRECTIVE", val |-> "1.2"]
         [] k = "%TAG"      -> [typ |-> "TAG-DIRECTIVE", val |-> "!h!"]
         [] k = "["         -> [typ |-> "FLOW-SEQUENCE-START", val |-> ""]
         [] k = "]"         -> [typ |-> "FLOW-SEQUENCE-END", val |-> ""]
         [] k = "{"         -> [typ |-> "FLOW-MAPPING-START", val |-> ""]
         [] k = "}"         -> [typ |-> "FLOW-MAPPING-END", val |-> ""]
         [] k = ","         -> [typ |-> "FLOW-ENTRY", val |-> ""]
         [] k = "-"         -> [typ |-> "BLOCK-ENTRY", val |-> ""]
         [] k = "?"         -> [typ |-> "KEY", val |-> ""]
         [] k = ":"         -> [typ |-> "VALUE", val |-> ""]
         [] k = "*"         -> [typ |-> "ALIAS", val |-> ""]
         [] k = "&"         -> [typ |-> "ANCHOR", val |-> ""]
         [] k \in {"!", "!h!"} -> [typ |-> "TAG", val |-> k]
         [] OTHER           -> [typ |-> "SCALAR", val |-> ""]]

ASSUME ScannerAssumption ==
    /\ Kinds \in Seq(SUBSET DOMAIN Lexical)
    /\ MaxColumn \in Nat /\ KeyLimit \in Nat
    /\ max_flow_level \in Nat /\ max_indents \in Nat

Token(typ) == [typ |-> typ, val |-> ""]

NoKey == [possible |-> FALSE, required |-> FALSE, token_number |-> 0,
          passed |-> FALSE, index |-> 0, column |-> 0, flow |-> FALSE]

(* levels is parser.indents with parser.indent behind it; late notes a ':' whose   *)
(* key, other than a flow collection, the parser had taken already.                *)
ScannerInit ==
    scanner = [started |-> FALSE, ended |-> FALSE, last |-> "",
               column |-> 0, index |-> 0,
               levels |-> <<>>, flow_level |-> 0, simple_key_allowed |-> FALSE,
               simple_keys |-> <<>>, by_tok |-> << >>, late |-> FALSE]

(* The whole state as the fetchers see and leave it.                               *)
Current ==
    [started |-> scanner.started, ended |-> scanner.ended, last |-> scanner.last,
     column |-> scanner.column, index |-> scanner.index, levels |-> scanner.levels,
     flow_level |-> scanner.flow_level, simple_key_allowed |-> scanner.simple_key_allowed,
     simple_keys |-> scanner.simple_keys, by_tok |-> scanner.by_tok, late |-> scanner.late,
     tokens |-> tokens, parsed |-> tokens_parsed, error |-> error]

(* After an error nothing is read again.                                           *)
Becomes(s) ==
    /\ error' = s.error
    /\ UNCHANGED tokens_parsed
    /\ IF s.error # "none" THEN UNCHANGED <<tokens, scanner>>
       ELSE /\ tokens' = s.tokens
            /\ scanner' = [f \in DOMAIN scanner |-> s[f]]

indent(s) == Last(s.levels)

Failed(s) == [s EXCEPT !.error = "scanner"]

(* yaml_insert_token: pos counts from the head; a negative one means the end.      *)
InsertToken(s, pos, token) ==
    [s EXCEPT !.tokens = IF pos < 0 THEN Append(@, token) ELSE InsertAt(@, pos + 1, token)]

Put(s, token) == InsertToken(s, -1, token)

NextNumber(s) == s.parsed + Len(s.tokens)

Allow(s, allowed) == [s EXCEPT !.simple_key_allowed = allowed]

(* ---------------------------------------------------------------- simple keys *)
Forget(s, number) == [s EXCEPT !.by_tok = Restrict(@, DOMAIN @ \ {number})]

Enter(s, number, level) ==
    [s EXCEPT !.by_tok = [n \in DOMAIN @ \cup {number} |-> IF n = number THEN level ELSE s.by_tok[n]]]

Stale(s, key) == key.passed \/ key.index + KeyLimit < s.index

(* possible = FALSE; of the rest only the number is looked at again.                *)
GivenUp(key) == [NoKey EXCEPT !.token_number = key.token_number]

(* parser.simple_keys[i] = key.                                                     *)
WithKey(s, i, key) ==
    [s EXCEPT !.simple_keys = [j \in DOMAIN @ |-> IF j = i THEN key ELSE s.simple_keys[j]]]

(* A break in the text: for a key only this matters, that its line was passed.      *)
Passed(key) == [key EXCEPT !.passed = @ \/ key.possible]

Break(s) ==
    [s EXCEPT !.simple_keys = [i \in DOMAIN @ |-> Passed(s.simple_keys[i])]]

(* yaml_simple_key_is_valid: a key whose ':' can no longer come is given up, which *)
(* is an error where only a key may stand.                                         *)
Checked(s, i) ==
    LET key == s.simple_keys[i]
    IN IF ~key.possible \/ ~Stale(s, key) THEN s
       ELSE IF key.required THEN Failed(s)
       ELSE WithKey(s, i, GivenUp(key))

RemoveSimpleKey(s) ==
    LET top == Len(s.simple_keys)
        key == s.simple_keys[top]
    IN IF ~key.possible THEN s
       ELSE IF key.required THEN Failed(s)
       ELSE Forget(WithKey(s, top, GivenUp(key)), key.token_number)

SaveSimpleKey(s, token) ==
    LET key == [possible |-> TRUE,
                required |-> s.flow_level = 0 /\ indent(s) = s.column,
                token_number |-> NextNumber(s),
                passed |-> FALSE, index |-> s.index, column |-> s.column,
                flow |-> token.typ \in {"FLOW-SEQUENCE-START", "FLOW-MAPPING-START"}]
        free == RemoveSimpleKey(s)
        top == Len(s.simple_keys)
    IN IF ~s.simple_key_allowed THEN s
       ELSE Enter(WithKey(free, top, key), key.token_number, top)

(* ------------------------------------------------------------ flow and indents *)
IncreaseFlowLevel(s) ==
    LET key == [NoKey EXCEPT !.token_number = NextNumber(s)]
        deeper == [s EXCEPT !.simple_keys = Append(@, key), !.flow_level = @ + 1]
    IN IF deeper.flow_level > max_flow_level THEN Failed(deeper) ELSE deeper

DecreaseKept(s) ==
    IF s.flow_level = 0 THEN s
    ELSE [s EXCEPT !.flow_level = @ - 1, !.simple_keys = Front(@)]

DecreaseFlowLevel(s) ==
    IF s.flow_level = 0 THEN s
    ELSE Forget([s EXCEPT !.flow_level = @ - 1, !.simple_keys = Front(@)],
                Last(s.simple_keys).token_number)

(* roll_indent: a column deeper than the indent opens a block; its token goes      *)
(* before the token of that number, or to the end (number -1).                     *)
RollAgain(s, column, number, typ) ==
    LET pos == IF number > -1 THEN number - s.parsed ELSE number
        deeper == [s EXCEPT !.levels = Append(@, column)]
    IN IF s.flow_level > 0 \/ indent(s) > column THEN s
       ELSE IF Len(s.levels) > max_indents THEN Failed(deeper)
       ELSE InsertToken(deeper, pos, Token(typ))

RollIndent(s, column, number, typ) ==
    LET pos == IF number > -1 THEN number - s.parsed ELSE number
        deeper == [s EXCEPT !.levels = Append(@, column)]
    IN IF s.flow_level > 0 \/ indent(s) >= column THEN s
       ELSE IF Len(s.levels) > max_indents THEN Failed(deeper)
       ELSE InsertToken(deeper, pos, Token(typ))

(* unroll_indent: from the innermost on, every block deeper than the column ends.  *)
UnrollIndent(s, column) ==
    LET depth == CHOOSE n \in DOMAIN s.levels :
                    /\ s.levels[n] <= column
                    /\ \A m \in n + 1..Len(s.levels) : s.levels[m] > column
        ends == [i \in 1..(Len(s.levels) - depth) |-> Token("BLOCK-END")]
    IN IF s.flow_level > 0 THEN s
       ELSE [s EXCEPT !.levels = SubSeq(@, 1, depth), !.tokens = @ \o ends]

(* -------------------------------------------------------------------- fetchers *)
StreamStarted(s) ==
    Put([s EXCEPT !.levels = <<-1>>, !.simple_keys = <<NoKey>>, !.by_tok = << >>,
                  !.simple_key_allowed = TRUE, !.started = TRUE],
        Token("STREAM-START"))

(* fetch_stream_end, fetch_directive and fetch_document_indicator end all blocks.  *)
FetchOutside(s, token) == Put(Allow(RemoveSimpleKey(UnrollIndent(s, -1)), FALSE), token)

(* The end of the text is on a line of its own, so that no key waits beyond it.     *)
SameLine(s) == s

ForceNewLine(s) == IF s.column = 0 THEN s ELSE [Break(s) EXCEPT !.column = 0]

FetchFlowStart(s, token) ==
    LET saved == SaveSimpleKey(s, token)
    IN IF saved.error # "none" THEN saved
       ELSE Put(Allow(IncreaseFlowLevel(saved), TRUE), token)

FetchFlowEnd(s, token) == Put(Allow(DecreaseFlowLevel(RemoveSimpleKey(s)), FALSE), token)

(* fetch_flow_entry and fetch_block_scalar.                                        *)
FetchSeparator(s, token) == Put(Allow(RemoveSimpleKey(s), TRUE), token)

(* fetch_block_entry and fetch_key: in a block they stand only where a key may.    *)
FetchEntry(s, token, start, allowed) ==
    LET rolled == IF s.flow_level > 0 THEN s ELSE RollIndent(s, s.column, -1, start)
    IN IF s.flow_level = 0 /\ ~s.simple_key_allowed THEN Failed(s)
       ELSE Put(Allow(RemoveSimpleKey(rolled), allowed), token)

(* fetch_value.  After a simple key the KEY, and the start of the block if it      *)
(* opens one, are inserted before the tokens of the key.                           *)
FetchSimpleValue(s, key) ==
    LET keyed == InsertToken(s, key.token_number - s.parsed, Token("KEY"))
        rolled == RollIndent(keyed, key.column, key.token_number, "BLOCK-MAPPING-START")
        top == Len(s.simple_keys)
        taken == [WithKey(rolled, top, GivenUp(key)) EXCEPT
                    !.late = @ \/ (~key.flow /\ key.token_number < s.parsed)]
    IN Put(Allow(Forget(taken, key.token_number), FALSE), Token("VALUE"))

FetchComplexValue(s) ==
    IF s.flow_level > 0 THEN Put(Allow(s, FALSE), Token("VALUE"))
    ELSE IF ~s.simple_key_allowed THEN Failed(s)
    ELSE Put(Allow(RollIndent(s, s.column, -1, "BLOCK-MAPPING-START"), TRUE), Token("VALUE"))

FetchValue(s) ==
    LET checked == Checked(s, Len(s.simple_keys))
    IN IF checked.error # "none" THEN checked
       ELSE IF Last(checked.simple_keys).possible
            THEN FetchSimpleValue(checked, Last(checked.simple_keys))
            ELSE FetchComplexValue(checked)

(* fetch_anchor, fetch_tag, fetch_flow_scalar and fetch_plain_scalar.  A plain     *)
(* scalar eats the break after it, and a key may stand there, in a flow as well.   *)
FetchNode(s, lexeme) ==
    LET token == Lexical[lexeme.kind]
    IN Put(Allow(SaveSimpleKey(s, token), lexeme.kind = "plain" /\ lexeme.breaks > 0), token)

(* fetch_next_token dispatches on the character.                                   *)
Fetch(s, lexeme) ==
    LET kind == lexeme.kind
    IN CASE kind \in {"---", "...", "%YAML", "%YAML 1.2", "%TAG"} ->
              FetchOutside(s, Lexical[kind])
         [] kind \in {"[", "{"} -> FetchFlowStart(s, Lexical[kind])
         [] kind \in {"]", "}"} -> FetchFlowEnd(s, Lexical[kind])
         [] kind = "," -> FetchSeparator(s, Lexical[kind])
         [] kind = "-" -> FetchEntry(s, Lexical[kind], "BLOCK-SEQUENCE-START", TRUE)
         [] kind = "?" -> FetchEntry(s, Lexical[kind], "BLOCK-MAPPING-START", s.flow_level = 0)
         [] kind = ":" -> FetchValue(s)
         [] kind \in {"*", "&", "!", "!h!", "quoted", "plain"} -> FetchNode(s, lexeme)
         [] kind = "|" /\ s.flow_level = 0 -> FetchSeparator(s, Lexical[kind])
         [] OTHER -> Failed(s)

(* ---------------------------------------------------------------------- lexemes *)
Lexeme(i) == [kind : Kinds[i], fresh : BOOLEAN, column : 0..(MaxColumn + Len(Kinds)), breaks : {0, 1}]

FlowIndicators == {",", "?", "[", "]", "{", "}", ":"}

(* What may be the next lexeme of a text.  A directive and a block scalar take     *)
(* their line with them; a plain scalar goes on until something stops it.          *)
MayRead(s, x) ==
    /\ IF x.fresh THEN s.index > 0 /\ x.column <= MaxColumn
       ELSE x.column = s.column \/ (s.column = 0 /\ x.column <= MaxColumn)
    /\ x.kind \in {"---", "...", "%YAML", "%YAML 1.2", "%TAG"} => x.column = 0
    /\ CASE x.kind \in {"%YAML", "%YAML 1.2", "%TAG", "|"} -> x.breaks = 1
         [] x.kind \in {"quoted", "plain"} -> x.breaks \in {0, 1}
         [] OTHER -> x.breaks = 0
    /\ s.last = "plain" /\ ~x.fresh =>
          x.kind \in (IF s.flow_level > 0 THEN FlowIndicators ELSE {":"})
    /\ s.last = "plain, eaten" =>
          /\ ~x.fresh
          /\ s.flow_level = 0 => x.column <= indent(s) \/ x.kind \in {"---", "..."}
          /\ s.flow_level > 0 => x.kind \in FlowIndicators \cup {"---", "..."}

(* scan_to_next_token: a break lets a key begin, in a block.                       *)
Reach(s, x) ==
    [(IF x.fresh THEN Break(s) ELSE s) EXCEPT
              !.column = x.column,
              !.index = @ + 1,
              !.simple_key_allowed = @ \/ (x.fresh /\ s.flow_level = 0)]

(* The mark after the lexeme.                                                      *)
Pass(s, x) ==
    [(IF x.breaks > 0 THEN Break(s) ELSE s) EXCEPT
              !.column = IF x.breaks > 0 THEN 0 ELSE x.column + 1,
              !.last = IF x.kind # "plain" THEN ""
                       ELSE IF x.breaks > 0 THEN "plain, eaten" ELSE "plain"]

FetchNextToken ==
    \/ /\ ~scanner.started
       /\ Becomes(StreamStarted(Current))
    \/ /\ scanner.started /\ ~scanner.ended
       /\ scanner.index < Len(Kinds)
       /\ \E x \in Lexeme(scanner.index + 1) :
             /\ MayRead(scanner, x)
             /\ LET s == Reach(Current, x)
                IN Becomes(Pass(Fetch(UnrollIndent(s, x.column), x), x))
    \/ /\ scanner.started
       /\ Becomes(FetchOutside([ForceNewLine(Current) EXCEPT !.ended = TRUE],
                               Token("STREAM-END")))

(* fetch_more_tokens: two tokens of lookahead, and more while the head may yet     *)
(* turn out to be a key.                                                           *)
HeadAtOnce(s) == FALSE

HeadMayBeKey(s) ==
    tokens_parsed \in DOMAIN s.by_tok /\ s.simple_keys[s.by_tok[tokens_parsed]].possible

HeadChecked ==
    IF tokens_parsed \in DOMAIN scanner.by_tok
    THEN Checked(Current, scanner.by_tok[tokens_parsed]) ELSE Current

Scan ==
    /\ error = "none" /\ ~token_available
    /\ IF Len(tokens) < 3 \/ (HeadChecked.error = "none" /\ HeadMayBeKey(HeadChecked))
       THEN FetchNextToken /\ UNCHANGED token_available
       ELSE Becomes(HeadChecked) /\ token_available' = (HeadChecked.error = "none")
=============================================================================
