--------------------------- MODULE MCMessageParser ---------------------------
(* The two halves of _parser in one run.  The reader is a function of the     *)
(* characters: it is compared with its reference on every short text, once,   *)
(* in the initial state.                                                      *)
EXTENDS MessageParser, TokenReader

CONSTANT MaxText     \* bound: the length of the texts

\* The tokens the parser acts on (parser.c 135-166, 308, 362) are those that are
\* written in a text outside comments, each classified by its own characters,
\* as long as no comment starts right after a character of a token.
TokensAsWritten ==
  Init => \A text \in UNION {[1 .. n -> Class] : n \in 0 .. MaxText} : AsWritten(text)
=============================================================================
