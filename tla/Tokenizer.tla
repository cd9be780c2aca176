------------------------------ MODULE Tokenizer ------------------------------
(* Characters to tokens: `tokenize' of config.rs.  A text is a sequence of    *)
(* characters.  Rejections differ only in wording and line; the line is kept. *)
EXTENDS Integers, Sequences, Functions

Space == " "
Newline == "\n"
Quote == "\""
Backslash == "\\"
Whitespace == {Space, Newline}
Structural == {"{", "}", "#"}

Text(value, quoted, line) == [kind |-> "text", text |-> value, quoted |-> quoted, line |-> line]
Brace(c, line) ==
  [kind |-> IF c = "{" THEN "open" ELSE "close", text |-> <<>>, quoted |-> FALSE, line |-> line]

\* What tokenize returns: the tokens, or the line of the error.
Tokens(tokens) == [error |-> 0, tokens |-> tokens]
ErrorAt(line) == [error |-> line, tokens |-> <<>>]
Prepend(token, result) ==
  IF result.error # 0 THEN result ELSE Tokens(<<token>> \o result.tokens)

\* The first position from i on whose character is in `stop', or one past the end.
Until(s, i, stop) ==
  LET at == {j \in i .. Len(s) : s[j] \in stop}
  IN IF at = {} THEN Len(s) + 1 ELSE CHOOSE j \in at : \A k \in at : j <= k

\* Mutant: looks at one backslash only, not at whether it is escaped.
ClosingQuoteNotAfterBackslash(s, i, escaped) ==
  LET ends == {j \in i .. Len(s) : s[j] = Quote /\ s[j - 1] # Backslash}
  IN IF ends = {} THEN 0 ELSE CHOOSE j \in ends : \A k \in ends : j <= k

\* The position of the quote that ends a string, or 0: a backslash escapes
\* the next character.
RECURSIVE ClosingQuote(_, _, _)
ClosingQuote(s, i, escaped) ==
  IF i > Len(s) THEN 0
  ELSE IF escaped THEN ClosingQuote(s, i + 1, FALSE)
  ELSE IF s[i] = Quote THEN i
  ELSE ClosingQuote(s, i + 1, s[i] = Backslash)

Invalid == "invalid"

\* serde_json on the inside of a quoted string.  A raw newline and an unknown
\* escape are invalid.
RECURSIVE Decode(_)
Decode(s) ==
  IF s = <<>> THEN <<>>
  ELSE IF s[1] # Backslash
  THEN <<IF s[1] = Newline THEN Invalid ELSE s[1]>> \o Decode(Tail(s))
  ELSE <<CASE s[2] = "n" -> Newline
           [] s[2] \in {Quote, Backslash} -> s[2]
           [] OTHER -> Invalid>> \o Decode(SubSeq(s, 3, Len(s)))

\* Mutant: the newline that ends a comment is read with it.
EndOfCommentSkipsNewline(s, i) == Until(s, i, {Newline}) + 1

\* Where reading goes on after a comment: at its newline, which still counts.
EndOfComment(s, i) == Until(s, i, {Newline})

RECURSIVE TokenizeFrom(_, _, _)
TokenizeFrom(s, i, line) ==
  IF i > Len(s) THEN Tokens(<<>>)
  ELSE IF s[i] \in Whitespace
  THEN TokenizeFrom(s, i + 1, IF s[i] = Newline THEN line + 1 ELSE line)
  ELSE IF s[i] = "#" THEN TokenizeFrom(s, EndOfComment(s, i), line)
  ELSE IF s[i] \in Structural
  THEN Prepend(Brace(s[i], line), TokenizeFrom(s, i + 1, line))
  ELSE IF s[i] = Quote
  THEN LET end == ClosingQuote(s, i + 1, FALSE)
           value == Decode(SubSeq(s, i + 1, end - 1))
       IN IF \/ end = 0
             \/ Invalid \in Range(value)
             \/ end < Len(s) /\ s[end + 1] \notin Whitespace \union Structural
          THEN ErrorAt(line)
          ELSE Prepend(Text(value, TRUE, line), TokenizeFrom(s, end + 1, line))
  ELSE LET end == Until(s, i, Whitespace \union Structural \union {Quote})
       IN IF end <= Len(s) /\ s[end] = Quote
          THEN ErrorAt(line)
          ELSE Prepend(Text(SubSeq(s, i, end - 1), FALSE, line), TokenizeFrom(s, end, line))

tokenize(s) == TokenizeFrom(s, 1, 1)
===============================================================================
