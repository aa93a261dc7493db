------------------------------ MODULE MCCheck ------------------------------
(* Two texts that differ in their astral character, the same two flagged   *)
(* words in both; checks of the first over HTTP and connections.           *)
EXTENDS Check

PlainText == <<"X", " ", "b">>
AstralText == <<"smile", "b">>

MCTexts == {PlainText, AstralText}
MCKeys == {<<"http", PlainText>>, <<"ws", PlainText>>, <<"http", AstralText>>}
MCLower == [c \in {"X", " ", "b", "smile"} |-> IF c = "X" THEN "x" ELSE c]
MCAstral == {"smile"}
MCSpans == (PlainText :> {<<1, 1>>, <<3, 1>>}) @@ (AstralText :> {<<2, 1>>})
MCWords == {<<"b">>}
MCValues == SUBSET Matches
MCSymmetry == Permutations(Elements) \cup Permutations(Requests)
=============================================================================
