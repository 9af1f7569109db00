----------------------------- MODULE Overrides -----------------------------
(***************************************************************************)
(* reflectStruct.go: how a text of a job's vars becomes the value of a     *)
(* field of a probe's configuration.  A field is a list of strings, cut    *)
(* out of the text by sliceTokenizer, or a scalar (number, duration,       *)
(* boolean or a pointer to one) that the text parses to or not.  A text is *)
(* a sequence of runes, of which the tokenizer tells four from the rest.   *)
(***************************************************************************)
EXTENDS Naturals, Sequences, FiniteSetsExt

Separator == ","
Blank == " "
Opening == "{"
Closing == "}"

Scanner == [tokens |-> <<>>, buf |-> <<>>, inBraces |-> FALSE, sepFound |-> FALSE]

(* Mutant: blanks after a separator are part of the next token.            *)
ReadRuneKeepsBlanks(s, ch) ==
    LET inside == ch = Opening \/ (s.inBraces /\ ch # Closing) IN
    IF s.sepFound
    THEN [s EXCEPT !.tokens = Append(@, s.buf), !.buf = <<ch>>, !.sepFound = FALSE]
    ELSE IF ch = Separator /\ ~inside
    THEN [s EXCEPT !.sepFound = TRUE, !.inBraces = inside]
    ELSE [s EXCEPT !.buf = Append(@, ch), !.inBraces = inside]

(* scan, rune by rune.  The first rune that is no blank after a separator  *)
(* is the unparsedRune: it opens the next token whatever it is, a brace    *)
(* that is not noticed or a separator that separates nothing.              *)
ReadRune(s, ch) ==
    LET inside == ch = Opening \/ (s.inBraces /\ ch # Closing) IN
    IF s.sepFound
    THEN IF ch = Blank THEN s
         ELSE [s EXCEPT !.tokens = Append(@, s.buf), !.buf = <<ch>>, !.sepFound = FALSE]
    ELSE IF ch = Separator /\ ~inside
    THEN [s EXCEPT !.sepFound = TRUE, !.inBraces = inside]
    ELSE [s EXCEPT !.buf = Append(@, ch), !.inBraces = inside]

Scanned(text) ==
    LET scan[i \in 0..Len(text)] ==
          IF i = 0 THEN Scanner ELSE ReadRune(scan[i - 1], text[i])
    IN scan

(* At the end what the buffer holds is a token, also when it is empty.     *)
Tokens(text) == LET s == Scanned(text)[Len(text)] IN Append(s.tokens, s.buf)

-----------------------------------------------------------------------------
(* What the tokenizer is meant to compute: the text cut at the separators  *)
(* outside braces, without the blanks after them and the empty element     *)
(* after the last one.                                                     *)
Outside(text, i) ==
    \A b \in 1..(i - 1) : text[b] = Opening => \E c \in (b + 1)..(i - 1) : text[c] = Closing

Cuts(text) == {i \in DOMAIN text : text[i] = Separator /\ Outside(text, i)}

(* An element is known by the cut before it, the first one by 0.  It goes  *)
(* from the first rune after that cut that is no blank to the next cut.    *)
NotBlank(text, c) == {i \in (c + 1)..Len(text) : text[i] # Blank}
Starts(text) == {0} \cup {c \in Cuts(text) : NotBlank(text, c) # {}}
Begin(text, c) == IF c = 0 THEN 1 ELSE Min(NotBlank(text, c))
End(text, c) == Min({i \in Cuts(text) \cup {Len(text) + 1} : i > c})
Element(text, c) == SubSeq(text, Begin(text, c), End(text, c) - 1)

Rank(text, c) == Cardinality({d \in Starts(text) : d < c})

Elements(text) ==
    [k \in 1..Cardinality(Starts(text)) |->
       Element(text, CHOOSE c \in Starts(text) : Rank(text, c) = k - 1)]

(* Every element after the first has runes and does not open a brace.      *)
Regular(text) ==
    \A c \in Starts(text) \ {0} : text[Begin(text, c)] \notin {Separator, Opening}

=============================================================================
