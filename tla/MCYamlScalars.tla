--------------------------- MODULE MCYamlScalars ----------------------------
(* Short strings of what breaks lines, shorter ones of everything, and those that   *)
(* begin like a document.  Six characters make three lines, the first with a blank. *)
EXTENDS YamlScalars

Strings(chars, n) == UNION {[1..k -> chars] : k \in 0..n}

MCValues ==
    Strings({"a", "space", "\n"}, 6)
      \cup Strings({"a", "space", "\n", "LS"}, 5)
      \cup Strings({"a", "space", "\n", "\t", "ctl", "'", "dquote", "\\", ":", "#", "-", "?", "comma", "["}, 3)
      \cup {<<"-", "-", "-">> \o s : s \in Strings({"a", "space", "\n"}, 2)}

LineValues == Strings({"a", "space", "\n"}, 3)
=============================================================================
