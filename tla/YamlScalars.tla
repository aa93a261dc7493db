---------------------------- MODULE YamlScalars -----------------------------
(* A string written as a scalar and read again: emitterc.go analyses it, selects a *)
(* style its contents allow where it stands, and writes it; scannerc.go reads it   *)
(* by the rules of that style.  Text is a sequence of characters, of which these   *)
(* stand for all: the blanks, the breaks ("LS" is one that is copied, not folded), *)
(* what is special in YAML, "a" for a letter and "ctl" for what cannot be printed. *)
(* encode.go never sets a width, so that lines are not wrapped.                    *)
EXTENDS Integers, Sequences, SequencesExt, FiniteSetsExt

CONSTANTS Others,       \* characters without a meaning that are not named below
          Values,       \* the strings to write
          Styles,       \* the styles a Node may ask for
          Indents,      \* the values of best_indent, from 2 to 9
          SimpleKeyMax  \* the longest string that is a simple key (128)

ASSUME IndentsAssumption == Indents \subseteq 2..9

ASSUME SimpleKeyAssumption == SimpleKeyMax \in Nat

ASSUME StylesAssumption == Styles \subseteq {"plain", "single", "double", "literal", "folded"}

VARIABLES value, asked, place, best_indent,   \* what to write, how and where
          chosen, text,                       \* the style it got and the text
          phase,                              \* where the scanner's loops are
          index, column,                      \* parser.mark
          result,                             \* what was read: s of the scan functions
          whitespaces, leading_break, trailing_breaks, leading_blanks,
          indent, max_indent, chomping        \* of a block scalar

input == <<value, asked, place, best_indent>>
output == <<chosen, text>>
mark == <<index, column>>
gap == <<whitespaces, leading_break, trailing_breaks, leading_blanks>>
block == <<indent, max_indent, chomping>>

vars == <<input, output, phase, mark, result, gap, block>>

Blank == {"space", "\t"}
Break == {"\n", "LS"}
Blankz == Blank \cup Break \cup {"z"}

(* Nothing plain begins with one of these (nor with a backquote).                  *)
Indicators ==
    {"#", "comma", "[", "]", "lbrace", "rbrace", "&", "*", "!", "|", ">", "'", "dquote", "%", "@"}

Digits == <<"1", "2", "3", "4", "5", "6", "7", "8", "9">>

(* "z" is none of them: it stands for the end of the text.                          *)
Characters ==
    Blank \cup Break \cup Indicators \cup Range(Digits) \cup Others \cup
    {"-", "?", ":", "+", "\\", "ctl", "a", "b", "n", "L", "t", "x", "01"}

ASSUME OthersAssumption == "z" \notin Others

ASSUME ValuesAssumption == Values \subseteq Seq(Characters)

Error == <<"error">>

(* The character at i, or "z" past the end (the reader's NUL).                     *)
At(s, i) == IF i \in DOMAIN s THEN s[i] ELSE "z"

Spaces(n) == [i \in 1..n |-> "space"]

(* ----------------------------------------------------------------- the emitter *)
(* Where the scalar stands: what is written around it, the scanner's indent, and   *)
(* whether flow_level and simple_key_context are set.                              *)
RootPlace == [before |-> <<>>, after |-> <<>>, parent |-> -1, flow |-> FALSE, key |-> FALSE]

FlowItemPlace == [before |-> <<"[">>, after |-> <<"]">>, parent |-> -1, flow |-> TRUE, key |-> FALSE]

ItemPlace ==
    [before |-> <<"-", "space">>, after |-> <<"-", "space", "b">>, parent |-> 0,
     flow |-> FALSE, key |-> FALSE]

KeyPlace == [before |-> <<>>, after |-> <<":", "space", "b">>, parent |-> -1, flow |-> FALSE, key |-> TRUE]

(* A key that is not simple stands behind "?", and its value on the next line.     *)
ExplicitKeyPlace ==
    [before |-> <<"?", "space">>, after |-> <<":", "space", "b">>, parent |-> 0,
     flow |-> FALSE, key |-> FALSE]

ValuePlace ==
    [before |-> <<"a", ":", "space">>, after |-> <<"b">>, parent |-> 0, flow |-> FALSE, key |-> FALSE]

Places == [root |-> RootPlace, flow |-> FlowItemPlace, item |-> ItemPlace, key |-> KeyPlace,
           explicit |-> ExplicitKeyPlace, value |-> ValuePlace]

(* The emitter's indent in it; in an item of a sequence only the "- " is skipped.  *)
Indent(where, best) ==
    CASE where = "item" -> 2
      [] where = "flow" -> 2 * best
      [] OTHER -> best

(* yaml_emitter_analyze_scalar: what stands in the way of each style.              *)
Has(v, chars) == \E i \in DOMAIN v : v[i] \in chars

(* yaml_emitter_check_simple_key, of a scalar without anchor and tag.              *)
CheckSimpleKey(v) == ~Has(v, Break) /\ Len(v) <= SimpleKeyMax

Followed(v, i) == At(v, i + 1) \in Blank \cup {"z"}

Preceded(v, i) == i = 1 \/ v[i - 1] \in Blankz

DocumentMark(v) == Len(v) >= 3 /\ SubSeq(v, 1, 3) = <<"-", "-", "-">>

Everywhere(v) ==
    \/ DocumentMark(v)
    \/ v[1] \in Indicators
    \/ v[1] = "-" /\ Followed(v, 1)
    \/ \E i \in 2..Len(v) : v[i] = "#" /\ Preceded(v, i)

NoColon(v) ==
    \/ Everywhere(v)
    \/ v[1] = "?" /\ Followed(v, 1)

BlockIndicators(v) ==
    \/ Everywhere(v)
    \/ v[1] = "?" /\ Followed(v, 1)
    \/ \E i \in DOMAIN v : v[i] = ":" /\ Followed(v, i)

FlowIndicators(v) ==
    \/ Everywhere(v)
    \/ Has(v, {"comma", "?", "[", "]", "lbrace", "rbrace", ":"})

Adjacent(v, left, right) == \E i \in 2..Len(v) : v[i - 1] \in left /\ v[i] \in right

Bounded(v) == Has(<<Head(v), Last(v)>>, {"space"} \cup Break)

PlainAllowed(v, flow) ==
    IF v = <<>> THEN ~flow
    ELSE /\ ~Bounded(v)
         /\ ~Has(v, Break \cup {"\t", "ctl"})
         /\ IF flow THEN ~FlowIndicators(v) ELSE ~BlockIndicators(v)

SingleQuotedAllowed(v) ==
    /\ ~Adjacent(v, Break, {"space"}) /\ ~Adjacent(v, {"space"}, Break)
    /\ ~Has(v, {"\t", "ctl"})

BlockUnprintable(v) ==
    /\ v # <<>>
    /\ Last(v) # "space"
    /\ ~Adjacent(v, {"space"}, Break)

BlockAllowed(v) ==
    /\ v # <<>>
    /\ Last(v) # "space"
    /\ ~Adjacent(v, {"space"}, Break)
    /\ ~Has(v, {"ctl"})

SingleFirst(v, style, where) ==
    LET at == Places[where]
        multiline == IF at.key /\ Has(v, Break) THEN "double" ELSE style
        single == IF multiline = "single" /\ ~SingleQuotedAllowed(v) THEN "double" ELSE multiline
        plain == IF single = "plain" /\ (~PlainAllowed(v, at.flow) \/ (v = <<>> /\ at.key))
                 THEN "single" ELSE single
    IN IF plain \in {"literal", "folded"} /\ (~BlockAllowed(v) \/ at.flow \/ at.key)
       THEN "double" ELSE plain

(* yaml_emitter_select_scalar_style: what is not allowed falls back, in this order.*)
SelectStyle(v, style, where) ==
    LET at == Places[where]
        multiline == IF at.key /\ Has(v, Break) THEN "double" ELSE style
        plain == IF multiline = "plain" /\ (~PlainAllowed(v, at.flow) \/ (v = <<>> /\ at.key))
                 THEN "single" ELSE multiline
        single == IF plain = "single" /\ ~SingleQuotedAllowed(v) THEN "double" ELSE plain
    IN IF single \in {"literal", "folded"} /\ (~BlockAllowed(v) \/ at.flow \/ at.key)
       THEN "double" ELSE single

(* stringv and node of encode.go: what breaks lines is to be literal, and what     *)
(* would be read as a number, a boolean and so on (resolved) is to be quoted.      *)
StyleOf(v, resolved, flow) ==
    IF Has(v, {"\n"}) THEN IF flow THEN "double" ELSE "literal"
    ELSE IF resolved THEN "double" ELSE "plain"

(* write_plain_scalar and write_single_quoted_scalar: a break that would be folded *)
(* is written twice, and a line begins at the margin; c is what v[i] is written as *)
(* if it breaks no line.                                                           *)
Unfolded(v, i, c, margin) ==
    IF v[i] \in Break
    THEN IF v[i] = "\n" /\ At(v, i - 1) \notin Break THEN <<"\n", "\n">> ELSE <<v[i]>>
    ELSE IF At(v, i - 1) \in Break THEN Spaces(margin) \o c ELSE c

WritePlain(v, margin) == FlattenSeq([i \in DOMAIN v |-> Unfolded(v, i, <<v[i]>>, margin)])

Doubled(c) == IF c = "'" THEN <<"'", "'">> ELSE <<c>>

WriteSingleQuoted(v, margin) ==
    <<"'">> \o FlattenSeq([i \in DOMAIN v |-> Unfolded(v, i, Doubled(v[i]), margin)]) \o <<"'">>

(* write_double_quoted_scalar.  A code is one character here.                      *)
Escape(c) ==
    CASE c = "\n" -> <<"\\", "n">> [] c = "LS" -> <<"\\", "L">>
      [] c = "\t" -> <<"\\", "t">> [] c = "ctl" -> <<"\\", "x", "01">>
      [] c \in {"dquote", "\\"} -> <<"\\", c>>
      [] OTHER -> <<c>>

WriteDoubleQuoted(v) == <<"dquote">> \o FlattenSeq([i \in DOMAIN v |-> Escape(v[i])]) \o <<"dquote">>

(* write_block_scalar_hints: the indentation when the first line does not show it, *)
(* and what becomes of the breaks at the end.                                      *)
Hints(v, best) ==
    (IF v[1] \in {"space"} \cup Break THEN <<Digits[best]>> ELSE <<>>) \o
    (IF Last(v) \notin Break THEN <<"-">>
     ELSE IF At(v, Len(v) - 1) \in Break \cup {"z"} THEN <<"+">> ELSE <<>>)

(* A line begins at the margin.  Only where it is the first of the scalar is the   *)
(* break after the hints written with it.                                          *)
LineStart(v, i, margin) ==
    IF i = 1 THEN <<"\n">> \o Spaces(margin)
    ELSE IF v[i - 1] \in Break THEN Spaces(margin) ELSE <<>>

WriteLiteral(v, margin) ==
    FlattenSeq([i \in DOMAIN v |->
       IF v[i] \in Break THEN <<v[i]>> ELSE LineStart(v, i, margin) \o <<v[i]>>])

(* leading_spaces of write_folded_scalar: the line of i begins with a blank.       *)
LineOfBlank(v, i) ==
    \E j \in 1..i : /\ v[j] \in Blank /\ (j = 1 \/ v[j - 1] \in Break)
                    /\ \A l \in j..(i - 1) : v[l] \notin Break

(* write_folded_scalar: the break after a line that does not begin with a blank is *)
(* written twice, unless the first that is no break from k on is blank, but k is 0.*)
Twice(v, i) ==
    /\ v[i] = "\n" /\ At(v, i - 1) \notin Break \cup {"z"} /\ ~LineOfBlank(v, i)
    /\ \E k \in DOMAIN v : v[k] \notin Blank \cup Break /\ \A l \in 1..(k - 1) : v[l] \in Break

WriteFolded(v, margin) ==
    FlattenSeq([i \in DOMAIN v |->
       IF v[i] \in Break THEN IF Twice(v, i) THEN <<"\n", v[i]>> ELSE <<v[i]>>
       ELSE LineStart(v, i, margin) \o <<v[i]>>])

Written(v, style, margin, best) ==
    CASE style = "plain"   -> WritePlain(v, margin)
      [] style = "single"  -> WriteSingleQuoted(v, margin)
      [] style = "double"  -> WriteDoubleQuoted(v)
      [] style = "literal" -> <<"|">> \o Hints(v, best) \o WriteLiteral(v, margin)
      [] style = "folded"  -> <<">">> \o Hints(v, best) \o WriteFolded(v, margin)

(* With what stands before and after it; in a block the next line is its own.      *)
WriteAt(v, style, where, best) ==
    LET scalar == Written(v, style, Indent(where, best), best)
        at == Places[where]
    IN at.before \o scalar \o
       (IF at.key \/ at.flow \/ (scalar # <<>> /\ Last(scalar) \in Break) THEN <<>> ELSE <<"\n">>)
       \o at.after

(* ----------------------------------------------------------------- the scanner *)
Where == Places[place]

(* The character the scanner is at, and the one after it.                          *)
Here == At(text, index)
There == At(text, index + 1)

(* skip and skip_line.                                                             *)
Skip(n) == index' = index + n /\ column' = column + n
SkipLine == index' = index + 1 /\ column' = 0

Finish(s) == phase' = "read" /\ result' = s

DocumentIndicator ==
    /\ column = 0
    /\ Here = "-" /\ There = "-" /\ At(text, index + 2) = "-" /\ At(text, index + 3) \in Blankz

(* How a scalar begins that is not quoted and not a block.                         *)
PlainBegins ==
    \/ Here \notin Blankz \cup Indicators \cup {"-", "?", ":"}
    \/ Here = "-" /\ There \notin Blankz
    \/ ~Where.flow /\ Here \in {"?", ":"} /\ There \notin Blankz

(* The indicators of a block scalar, in either order; the emitter writes neither   *)
(* blanks nor a comment after them.                                                *)
Signs == {"+", "-"}

HeaderEnd ==
    IF There \in Signs THEN IF At(text, index + 2) \in Range(Digits) THEN index + 3 ELSE index + 2
    ELSE IF There \in Range(Digits) THEN IF At(text, index + 2) \in Signs THEN index + 3 ELSE index + 2
    ELSE index + 1

Hinted(hints) == \E i \in (index + 1)..(HeaderEnd - 1) : At(text, i) \in hints

Increment == CHOOSE n \in DOMAIN Digits : Hinted({Digits[n]})

(* The blanks and breaks before the next character of a plain or quoted scalar:    *)
(* of blanks alone all are kept; of breaks one is a space, and of more the first   *)
(* is dropped.                                                                     *)
Joint ==
    IF ~leading_blanks THEN whitespaces
    ELSE IF leading_break # <<"\n">> THEN leading_break \o trailing_breaks
    ELSE IF trailing_breaks = <<>> THEN <<"space">> ELSE trailing_breaks

NoGap ==
    /\ whitespaces' = <<>> /\ leading_break' = <<>> /\ trailing_breaks' = <<>>
    /\ leading_blanks' = FALSE

(* What is left of the escapes the emitter writes.                                 *)
Unescape(letter) ==
    CASE letter = "n" -> "\n" [] letter = "L" -> "LS" [] letter = "t" -> "\t"
      [] letter = "x" -> "ctl" [] letter \in {"dquote", "\\"} -> letter

EscapeKnown ==
    \/ There \in {"n", "L", "t", "dquote", "\\"}
    \/ There = "x" /\ At(text, index + 2) = "01"
-----------------------------------------------------------------------------
Init ==
    /\ value \in Values
    /\ place \in DOMAIN Places /\ best_indent \in Indents
    /\ place = "key" => CheckSimpleKey(value)
    /\ place = "explicit" => ~CheckSimpleKey(value)
    /\ \/ asked \in Styles
       \/ \E resolved \in BOOLEAN : asked = StyleOf(value, resolved, Places[place].flow)
    /\ chosen = "none" /\ text = <<>> /\ phase = "asked"
    /\ index = 1 /\ column = 0 /\ result = <<>>
    /\ whitespaces = <<>> /\ leading_break = <<>> /\ trailing_breaks = <<>>
    /\ leading_blanks = FALSE
    /\ indent = 0 /\ max_indent = 0 /\ chomping = "clip"

(* The scanner goes on where the scalar begins.                                    *)
Emit ==
    /\ phase = "asked"
    /\ chosen' = SelectStyle(value, asked, place)
    /\ text' = WriteAt(value, chosen', place, best_indent)
    /\ phase' = "written"
    /\ Skip(Len(Where.before))
    /\ UNCHANGED <<input, result, gap, block>>

(* fetch_next_token.  A node that is missing is an empty scalar, and what is no    *)
(* scalar is an error here.                                                        *)
FetchPlain ==
    /\ phase = "written" /\ Here \notin {"'", "dquote"}
    /\ Here \notin {"|", ">"} \/ Where.flow
    /\ IF Here \in Blankz THEN Finish(<<>>)
       ELSE IF DocumentIndicator \/ ~PlainBegins THEN Finish(Error)
       ELSE phase' = "word" /\ UNCHANGED result
    /\ UNCHANGED <<input, output, mark, gap, block>>

FetchQuoted ==
    /\ phase = "written" /\ Here \in {"'", "dquote"}
    /\ phase' = (IF Here = "'" THEN "single" ELSE "double")
    /\ Skip(1)
    /\ UNCHANGED <<input, output, result, gap, block>>

FetchBlock ==
    /\ phase = "written" /\ Here \in {"|", ">"} /\ ~Where.flow
    /\ chomping' = (IF Hinted({"+"}) THEN "+" ELSE IF Hinted({"-"}) THEN "-" ELSE "clip")
    /\ indent' = (IF Hinted(Range(Digits)) THEN Max({Where.parent, 0}) + Increment ELSE 0)
    /\ IF At(text, HeaderEnd) \in Break
       THEN phase' = "breaks" /\ index' = HeaderEnd + 1 /\ column' = 0 /\ UNCHANGED result
       ELSE Finish(Error) /\ UNCHANGED mark
    /\ UNCHANGED <<input, output, gap, max_indent>>

(* scan_plain_scalar: what may end it in a word ...                                *)
EndsPlain ==
    \/ Here \in Blankz
    \/ Here = ":" /\ There \in Blankz
    \/ Where.flow /\ Here \in {"comma", "?", "[", "]", "lbrace", "rbrace"}

PlainCharacter ==
    /\ phase = "word" /\ ~EndsPlain
    /\ result' = result \o Joint \o <<Here>>
    /\ NoGap /\ Skip(1)
    /\ UNCHANGED <<input, output, phase, block>>

PlainUnended ==
    /\ phase = "word" /\ EndsPlain /\ Here \notin Blank \cup Break
    /\ phase' = "gap"
    /\ UNCHANGED <<input, output, mark, result, gap, block>>

PlainEnd ==
    /\ phase = "word" /\ EndsPlain /\ Here \notin Blank \cup Break
    /\ Finish(result)
    /\ UNCHANGED <<input, output, mark, gap, block>>

(* ... and after a gap.                                                            *)
PlainResume ==
    /\ phase = "gap" /\ Here \notin Blank \cup Break
    /\ IF \/ ~Where.flow /\ column < Where.parent + 1
          \/ DocumentIndicator \/ Here = "#"
       THEN Finish(result)
       ELSE phase' = "word" /\ UNCHANGED result
    /\ UNCHANGED <<input, output, mark, gap, block>>

(* The blanks and breaks between words, in scan_plain_scalar and scan_flow_scalar. *)
GapOf == [word |-> "gap", single |-> "single_gap", double |-> "double_gap"]

InGap == phase \in Range(GapOf)

ConsumeBlank ==
    /\ phase \in DOMAIN GapOf \/ InGap
    /\ Here \in Blank
    /\ IF phase = "gap" /\ leading_blanks /\ column < Where.parent + 1 /\ Here = "\t"
       THEN Finish(Error)
       ELSE phase' = (IF InGap THEN phase ELSE GapOf[phase]) /\ UNCHANGED result
    /\ whitespaces' = IF leading_blanks THEN whitespaces ELSE Append(whitespaces, Here)
    /\ Skip(1)
    /\ UNCHANGED <<input, output, leading_break, trailing_breaks, leading_blanks, block>>

ConsumeBreak ==
    /\ phase \in DOMAIN GapOf \/ InGap
    /\ Here \in Break
    /\ IF leading_blanks
       THEN trailing_breaks' = Append(trailing_breaks, Here) /\ UNCHANGED <<whitespaces, leading_break>>
       ELSE whitespaces' = <<>> /\ leading_break' = <<Here>> /\ UNCHANGED trailing_breaks
    /\ leading_blanks' = TRUE
    /\ phase' = (IF InGap THEN phase ELSE GapOf[phase])
    /\ SkipLine
    /\ UNCHANGED <<input, output, result, block>>

(* scan_flow_scalar.  The emitter writes no escaped break.                         *)
Quote == IF phase \in {"single", "single_gap"} THEN "'" ELSE "dquote"

ClosesQuoted == Here = Quote /\ ~(Quote = "'" /\ There = "'")

QuotedEnd ==
    /\ phase \in {"single", "double"} /\ (ClosesQuoted \/ Here = "z")
    /\ Finish(IF Here = "z" THEN Error ELSE result)
    /\ UNCHANGED <<input, output, mark, gap, block>>

QuotedCharacter ==
    /\ phase \in {"single", "double"} /\ Here \notin Blankz /\ ~ClosesQuoted
    /\ IF phase = "double" /\ Here = "\\"
       THEN IF EscapeKnown
            THEN /\ result' = Append(result, Unescape(There))
                 /\ Skip(IF There = "x" THEN 3 ELSE 2)
                 /\ UNCHANGED phase
            ELSE Finish(Error) /\ UNCHANGED mark
       ELSE /\ result' = Append(result, Here)
            /\ Skip(IF Here = Quote THEN 2 ELSE 1)
            /\ UNCHANGED phase
    /\ UNCHANGED <<input, output, gap, block>>

QuotedResume ==
    /\ phase \in {"single_gap", "double_gap"} /\ Here \notin Blank \cup Break
    /\ IF DocumentIndicator \/ Here = "z" THEN Finish(Error)
       ELSE phase' = (IF Quote = "'" THEN "single" ELSE "double") /\ result' = result \o Joint
    /\ NoGap
    /\ UNCHANGED <<input, output, mark, block>>

(* scan_block_scalar_breaks: indentation and empty lines.                          *)
Indenting == indent = 0 \/ column < indent

Indentation ==
    /\ phase = "breaks" /\ Indenting /\ Here = "space"
    /\ Skip(1)
    /\ UNCHANGED <<input, output, phase, result, gap, block>>

EmptyLine ==
    /\ phase = "breaks" /\ Here \in Break
    /\ max_indent' = Max({max_indent, column})
    /\ trailing_breaks' = Append(trailing_breaks, Here)
    /\ SkipLine
    /\ UNCHANGED <<input, output, phase, result, whitespaces, leading_break, leading_blanks,
                   indent, chomping>>

(* Without a hint the deepest of them, and more than the parent's, is the indent.  *)
Determined ==
    IF indent = 0 THEN Max({max_indent, column, Where.parent + 1, 1}) ELSE indent

(* scan_block_scalar: a line begins, folded to the one before unless one of them   *)
(* begins with a blank (leading_blanks, of the one before); else it is the end.    *)
BlockLine ==
    /\ phase = "breaks" /\ Here \notin Break /\ ~(Indenting /\ Here = "space")
    /\ IF Indenting /\ Here = "\t" THEN Finish(Error) /\ UNCHANGED <<gap, block>>
       ELSE /\ indent' = Determined
            /\ IF column = Determined /\ Here # "z"
               THEN LET folds == /\ At(text, Len(Where.before) + 1) = ">"
                                 /\ ~leading_blanks /\ Here \notin Blank
                                 /\ leading_break = <<"\n">>
                        joint == IF ~folds THEN leading_break
                                 ELSE IF trailing_breaks = <<>> THEN <<"space">> ELSE <<>>
                    IN /\ result' = result \o joint \o trailing_breaks
                       /\ phase' = "line"
               ELSE Finish(result \o (IF chomping = "-" THEN <<>> ELSE leading_break)
                                  \o (IF chomping = "+" THEN trailing_breaks ELSE <<>>))
            /\ leading_break' = <<>> /\ trailing_breaks' = <<>>
            /\ leading_blanks' = (Here \in Blank)
            /\ UNCHANGED <<whitespaces, max_indent, chomping>>
    /\ UNCHANGED <<input, output, mark>>

BlockCharacter ==
    /\ phase = "line" /\ Here \notin Break \cup {"z"}
    /\ result' = Append(result, Here)
    /\ Skip(1)
    /\ UNCHANGED <<input, output, phase, gap, block>>

(* read_line reads nothing at the end of the text.                                 *)
BlockLineEnd ==
    /\ phase = "line" /\ Here \in Break \cup {"z"}
    /\ IF Here = "z" THEN UNCHANGED <<mark, leading_break>> ELSE SkipLine /\ leading_break' = <<Here>>
    /\ phase' = "breaks" /\ max_indent' = 0
    /\ UNCHANGED <<input, output, result, whitespaces, trailing_breaks, leading_blanks,
                   indent, chomping>>

Plain == FetchPlain \/ PlainCharacter \/ PlainEnd \/ PlainResume

Quoted == FetchQuoted \/ QuotedCharacter \/ QuotedEnd \/ QuotedResume

Block == FetchBlock \/ Indentation \/ EmptyLine \/ BlockLine \/ BlockCharacter \/ BlockLineEnd

(* The scalar has become a token.                                                  *)
Done == phase = "read" /\ UNCHANGED vars

Next == Emit \/ Plain \/ Quoted \/ Block \/ ConsumeBlank \/ ConsumeBreak \/ Done

Spec == Init /\ [][Next]_vars
-----------------------------------------------------------------------------
(* Types; what cannot be printed is never in the text, which readerc.go refuses.   *)
TypeOK ==
    /\ phase \in {"asked", "written", "word", "gap", "single", "single_gap", "double",
                  "double_gap", "breaks", "line", "read"}
    /\ chosen \in {"none", "plain", "single", "double", "literal", "folded"}
    /\ text \in Seq(Characters \ {"ctl"})
    /\ index \in 1..(Len(text) + 1) /\ column \in 0..(index - 1)
    /\ result \in Seq(Characters) \cup {Error}
    /\ whitespaces \in Seq(Blank) /\ leading_break \in Seq(Break) /\ trailing_breaks \in Seq(Break)
    /\ leading_blanks \in BOOLEAN
    /\ indent \in Nat /\ max_indent \in Nat /\ chomping \in {"clip", "+", "-"}

(* Block scalars that do not read back as they were written: those that begin with *)
(* a break or a tab; those that begin with a space, where the hint is not the      *)
(* indent; and folded ones with breaks, from m to before k, after a line that does *)
(* not begin with a blank: if the first is written twice, yet not folded, because  *)
(* a blank or nothing comes after them; or, as no break is written twice in a      *)
(* scalar that begins with a space, if it is folded.                               *)
Misfolded(v, m, k) ==
    /\ m < k /\ \A i \in m..(k - 1) : v[i] \in Break
    /\ v[m] = "\n" /\ v[m - 1] \notin Break /\ ~LineOfBlank(v, m)
    /\ IF v[1] = "space" THEN At(v, k) \notin Blankz
       ELSE At(v, k) \in Blank \/ (k = Len(v) + 1 /\ k > m + 1)

Misread(v, style, where, best) ==
    /\ style \in {"literal", "folded"}
    /\ \/ v[1] \in Break \cup {"\t"}
       \/ v[1] = "space" /\ Indent(where, best) # best
       \/ /\ style = "folded"
          /\ \E m \in 2..Len(v), k \in 3..(Len(v) + 1) : Misfolded(v, m, k)

(* Every string is read as it was written, in every style a node may ask for, at   *)
(* every place it may stand: what analyze_scalar allows is what the scanner undoes.*)
ReadsBack ==
    phase = "read" /\ ~Misread(value, chosen, place, best_indent) => result = value

(* "The structure of the generated document will reflect the structure of the      *)
(* value itself" (Marshal): the same without exception, for strings of Go.         *)
ReadsBackAlways == phase = "read" => result = value

(* The scanner's loops end, whatever was written: a step that reads no character   *)
(* comes nearer to the next that does, or to the end of the scalar.  Of the loops  *)
(* within loops none is left but to go on behind it.                               *)
Stage ==
    CASE phase = "asked" -> 4
      [] phase = "written" -> 3
      [] phase = "breaks" -> IF Here = "z" THEN 1 ELSE 3
      [] phase \in Range(GapOf) \cup {"line"} -> 2
      [] phase \in DOMAIN GapOf -> 1
      [] phase = "read" -> 0

Advances == [][index' > index \/ (index' = index /\ Stage' < Stage)]_vars

(* A document that is read and written again keeps the style it was given: what    *)
(* select_scalar_style chose, it chooses when that is asked for.                   *)
Settles == phase = "read" => SelectStyle(value, chosen, place) = chosen
=============================================================================
