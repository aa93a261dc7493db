----------------------------- MODULE YamlEvents -----------------------------
(* What a reader of YAML is promised: the events of a stream are well nested.  A   *)
(* frame of nest is one thing that was begun and not ended, with what it expects:  *)
(* "stream" a document, "root" the node of a document and "done" its end, "item"   *)
(* an item of a sequence, "key" and "value" the halves of a pair of a mapping.     *)
EXTENDS Naturals, Sequences

VARIABLES event, nest

evVars == <<event, nest>>

Top == nest[Len(nest)]

Replace(frame) == [nest EXCEPT ![Len(nest)] = frame]

Expects == nest # <<>> /\ Top \in {"root", "item", "key", "value"}

(* What the top frame expects once the node it waited for is complete.             *)
Filled(frame) ==
    CASE frame = "root"  -> "done"
      [] frame = "key"   -> "value"
      [] frame = "value" -> "key"
      [] OTHER           -> frame

Init == event = "none" /\ nest = <<>>

StreamStart ==
    /\ event = "none"
    /\ event' = "STREAM-START"
    /\ nest' = <<"stream">>

StreamEnd ==
    /\ nest = <<"stream">>
    /\ event' = "STREAM-END"
    /\ nest' = <<>>

DocumentStart ==
    /\ nest = <<"stream">>
    /\ event' = "DOCUMENT-START"
    /\ nest' = Append(nest, "root")

DocumentEnd ==
    /\ nest = <<"stream", "done">>
    /\ event' = "DOCUMENT-END"
    /\ nest' = <<"stream">>

Leaf ==
    /\ Expects
    /\ event' \in {"SCALAR", "ALIAS"}
    /\ nest' = Replace(Filled(Top))

(* Where a collection begins the frame above already expects what follows it.      *)
Begin(start, frame) ==
    /\ Expects
    /\ event' = start
    /\ nest' = Append(Replace(Filled(Top)), frame)

End(end, frame) ==
    /\ nest # <<>>
    /\ Top = frame
    /\ event' = end
    /\ nest' = SubSeq(nest, 1, Len(nest) - 1)

Step ==
    \/ StreamStart \/ StreamEnd \/ DocumentStart \/ DocumentEnd \/ Leaf
    \/ Begin("SEQUENCE-START", "item") \/ End("SEQUENCE-END", "item")
    \/ Begin("MAPPING-START", "key") \/ End("MAPPING-END", "key")

WellNested == Init /\ [][Step]_evVars
=============================================================================
