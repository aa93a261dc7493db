---------------------------- MODULE MCYamlReader ----------------------------
(* Texts of up to five lexemes: any two, then what fills and ends collections.      *)
EXTENDS YamlReader

All == DOMAIN Lexical

MCKinds ==
    <<All, All, {"[", "]", "{", "}", ",", "-", "?", ":", "plain", "!h!", "..."},
      {"]", "}", ",", "-", ":", "plain"}, {"]", "}", ":"}>>
=============================================================================
