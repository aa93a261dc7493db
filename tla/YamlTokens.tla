----------------------------- MODULE YamlTokens -----------------------------
(* The part of yaml_parser_t that the scanner and the parser share: the queue of   *)
(* tokens.  The scanner appends to it (and sometimes inserts into it), the parser  *)
(* takes from its head, and token_available says that the head may be taken.       *)
EXTENDS Naturals, Integers, Sequences

VARIABLES tokens,            \* the tokens scanned and not yet parsed
          tokens_parsed,     \* how many were parsed
          token_available,   \* the scanner has released the head of the queue
          error              \* "none", "scanner" or "parser": nothing follows an error

queue == <<tokens, tokens_parsed, token_available>>

BlockStarts == {"BLOCK-SEQUENCE-START", "BLOCK-MAPPING-START"}

TokenTypes ==
    {"STREAM-START", "STREAM-END", "VERSION-DIRECTIVE", "TAG-DIRECTIVE",
     "DOCUMENT-START", "DOCUMENT-END", "BLOCK-END", "BLOCK-ENTRY",
     "FLOW-SEQUENCE-START", "FLOW-SEQUENCE-END", "FLOW-MAPPING-START",
     "FLOW-MAPPING-END", "FLOW-ENTRY", "KEY", "VALUE", "ALIAS", "ANCHOR", "TAG",
     "SCALAR"} \cup BlockStarts

QueueInit ==
    /\ tokens = <<>>
    /\ tokens_parsed = 0
    /\ token_available = FALSE
    /\ error = "none"

(* peek_token: the parser looks only at a token the scanner has released.          *)
Peek(types) ==
    /\ error = "none"
    /\ token_available
    /\ Head(tokens).typ \in types

(* skip_token takes the head off the queue.                                        *)
Skip ==
    /\ tokens' = Tail(tokens)
    /\ tokens_parsed' = tokens_parsed + 1
    /\ token_available' = FALSE

Keep == UNCHANGED queue
=============================================================================
