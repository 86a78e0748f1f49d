----------------------------- MODULE TokenReader -----------------------------
(***************************************************************************)
(* How _parser cuts the characters of a connection into tokens and decides *)
(* what each token is.  A character is known by its class, a token by the  *)
(* places of its characters in the text.                                   *)
(*                                                                         *)
(* ClassifiedAnyDots is a wrong form of Classified: the property is shown  *)
(* to fail when it takes its place.                                        *)
(***************************************************************************)
EXTENDS Naturals, Sequences, SequencesExt

Blank == {"space", "newline"}       \* space, tab and comma; \n and \r
\* letters are a-z, A-Z, _ and :; a mark is ; # or !; a sign is anything else
Wordly == {"digit", "letter", "dot", "sign"}
Class == Blank \cup Wordly \cup {"mark"}

NoFlags == [digit |-> 0, letter |-> 0, dot |-> 0, all |-> 0]

\* The local variables of _parser, and the tokens it has acted on.
Start == [token_state |-> "idle", token |-> <<>>, token_flags |-> NoFlags,
          place |-> 1, seen |-> {}]

ClassifiedAnyDots(flags) ==
  {k \in {"integer", "float", "command"} :
     \/ k = "integer" /\ flags.all = flags.digit
     \/ k = "float" /\ flags.all = flags.digit + flags.dot /\ flags.dot > 0
     \/ k = "command" /\ flags.all = flags.letter}
(* The tests on the counts (lines 166, 308 and 362); a token that passes none is *)
(* ignored, a negative number for one.                                         *)
Classified(flags) ==
  {k \in {"integer", "float", "command"} :
     \/ k = "integer" /\ flags.all = flags.digit
     \/ k = "float" /\ flags.all = flags.digit + 1 /\ flags.dot = 1
     \/ k = "command" /\ flags.all = flags.letter}

Count(flags, class) ==
  [f \in DOMAIN flags |-> IF f \in {class, "all"} THEN flags[f] + 1 ELSE flags[f]]

(* Inside a comment only the end of the line counts. *)
Skip(r, class) ==
  IF class = "newline" THEN [r EXCEPT !.token_state = "idle", !.token = <<>>] ELSE r

\* A mark starts a comment: the token under way is forgotten, its counts stay.
StartComment(r) == [r EXCEPT !.token_state = "comment", !.token = <<>>]

Finish(r) ==
  IF r.token = <<>> THEN r
  ELSE [r EXCEPT
         !.seen = @ \cup {<<Head(r.token), Last(r.token), k>> : k \in Classified(r.token_flags)},
         !.token = <<>>, !.token_flags = NoFlags]

Extend(r, class) ==
  [r EXCEPT !.token = Append(@, r.place), !.token_flags = Count(@, class)]

(* One round of the loop. *)
ReadCharacter(r, class) ==
  LET after == CASE r.token_state = "comment" -> Skip(r, class)
                 [] r.token_state = "idle" /\ class = "mark" -> StartComment(r)
                 [] r.token_state = "idle" /\ class \in Blank -> Finish(r)
                 [] r.token_state = "idle" /\ class \in Wordly -> Extend(r, class)
  IN  [after EXCEPT !.place = r.place + 1]

\* The loop: what it has after each character.
Rounds(text) ==
  LET after[n \in 0 .. Len(text)] ==
        IF n = 0 THEN Start ELSE ReadCharacter(after[n - 1], text[n])
  IN  after
Seen(text) == Rounds(text)[Len(text)].seen

-----------------------------------------------------------------------------
(* What the tokens of a text are, said of the text alone. *)

Commented(text, i) ==
  \E j \in 1 .. i : text[j] = "mark" /\ \A k \in j .. (i - 1) : text[k] # "newline"

\* A comment starts right after a character of a token.
Cuts(text) ==
  \E i \in 1 .. (Len(text) - 1) :
    text[i + 1] = "mark" /\ text[i] \in Wordly /\ ~Commented(text, i)

IsToken(text, i, j) ==
  /\ \A k \in i .. j : text[k] \in Wordly /\ ~Commented(text, k)
  /\ i > 1 => text[i - 1] \in Blank \/ Commented(text, i - 1)
  /\ text[j + 1] \in Blank

IsOfKind(word, kind) ==
  \/ kind = "integer" /\ ToSet(word) = {"digit"}
  \/ kind = "command" /\ ToSet(word) = {"letter"}
  \/ /\ kind = "float"
     /\ \E k \in DOMAIN word : word[k] = "dot" /\ ToSet(RemoveAt(word, k)) \subseteq {"digit"}

Written(text) ==
  {t \in (DOMAIN text) \X (DOMAIN text) \X {"integer", "float", "command"} :
     LET i == t[1]  j == t[2] IN
       i <= j /\ j < Len(text) /\ IsToken(text, i, j) /\ IsOfKind(SubSeq(text, i, j), t[3])}

(* The tokens acted on are those that are written in the text, as long as no *)
(* comment starts right after a character of a token.                        *)
AsWritten(text) == Cuts(text) \/ Seen(text) = Written(text)
=============================================================================
