------------------------------ MODULE Geatafile ------------------------------
(* The configuration file: writing it, and the loop that watches it.          *)
(*                                                                            *)
(* `text' is what is being written, one piece at a time, at the level `kind'  *)
(* names: characters (Tokenizer), the directives of one site, the blocks of a *)
(* file (Configuration), or the blocks of the file a running server watches.  *)
EXTENDS Configuration, Tokenizer, SequencesExt, TLC

CONSTANTS
  Pieces,         \* the pieces a text of each kind is written from
  MaxPieces,      \* bound: pieces in a text of each kind
  Initial,        \* the file the server is started with
  Before, After   \* the tokens around the directives of a site

VARIABLES
  kind,      \* "characters", "directives", "blocks" or "watched"
  text,      \* the pieces written so far
  previous,  \* watch_config: the text last read
  active     \* State.config

vars == <<kind, text, previous, active>>

-----------------------------------------------------------------------------
\* Config::read, of a file written from these pieces.
Read(pieces) ==
  Parse(IF kind = "directives" THEN Before \o FlattenSeq(pieces) \o After ELSE FlattenSeq(pieces))

\* Config::parse on every file a server may be watching (@@ makes TLC build
\* the table once).
Parsed ==
  <<>> @@ [file \in BoundedSeq(Pieces["watched"], MaxPieces["watched"]) |->
             Parse(FlattenSeq(file))]

\* The server is started from a file that parses; `run' fails otherwise.
Init ==
  /\ kind \in DOMAIN Pieces
  /\ text = IF kind = "watched" THEN Initial ELSE <<>>
  /\ previous = text
  /\ active = Parsed[Initial]

Write ==
  /\ Len(text) < MaxPieces[kind]
  /\ \E piece \in Pieces[kind] : text' = Append(text, piece)
  /\ UNCHANGED <<kind, previous, active>>

\* The operator starts the file over; the server may read it half written.
Truncate ==
  /\ kind = "watched"
  /\ text' = <<>>
  /\ UNCHANGED <<kind, previous, active>>

\* Mutant: what was read is not remembered.
PollKeepsPrevious ==
  /\ kind = "watched" /\ text # previous
  /\ active' = IF Parsed[text].ok THEN Parsed[text] ELSE active
  /\ UNCHANGED <<kind, text, previous>>

\* watch_config: a changed text is remembered whether it parses or not, and a
\* rejected one keeps the sites that are served.  A failed read does nothing.
Poll ==
  /\ kind = "watched" /\ text # previous
  /\ previous' = text
  /\ active' = IF Parsed[text].ok THEN Parsed[text] ELSE active
  /\ UNCHANGED <<kind, text>>

Next == Write \/ Truncate \/ Poll

Spec == Init /\ [][Next]_vars /\ WF_vars(Poll)

-----------------------------------------------------------------------------
Shifted(tokens, lines) == [i \in DOMAIN tokens |-> [tokens[i] EXCEPT !.line = @ + lines]]

\* Whatever a text that tokenizes ends in (a comment, a word, a quoted string,
\* a brace), what follows on the next line is read as if it stood alone, its
\* tokens and its errors one line further for every line above: tokenize
\* counts each newline once, the one that ends a comment included.
LinesCompose ==
  kind = "characters" =>
    \A i \in DOMAIN text :
      LET above == tokenize(SubSeq(text, 1, i - 1))
          below == tokenize(SubSeq(text, i + 1, Len(text)))
          lines == Cardinality({j \in 1 .. i : text[j] = Newline})
      IN text[i] = Newline /\ above.error = 0 =>
           tokenize(text) = IF below.error # 0 THEN ErrorAt(below.error + lines)
                            ELSE Tokens(above.tokens \o Shifted(below.tokens, lines))

Escape(c) == IF c = Newline THEN <<Backslash, "n">>
             ELSE IF c \in {Quote, Backslash} THEN <<Backslash, c>> ELSE <<c>>

\* Any text can be written as one argument: escaped and quoted, tokenize gives
\* it back, braces, comment signs, quotes and backslashes in it included, also
\* directly before a brace.
QuotingKeepsText ==
  kind = "characters" =>
    LET quoted == <<Quote>> \o FlattenSeq([i \in DOMAIN text |-> Escape(text[i])]) \o <<Quote>>
    IN tokenize(quoted \o <<"}">>) = Tokens(<<Text(text, TRUE, 1), Brace("}", 1)>>)

\* A piece that is a directive, or a block, by itself.
Whole(piece) == kind = "directives" => Directives(piece) = <<piece>> /\ Accepts(piece)
Swap(pieces, i) == [pieces EXCEPT ![i] = pieces[i + 1], ![i + 1] = pieces[i]]

\* The order of the directives of a site and of the blocks of a file does not
\* matter: exchanging two neighbours gives the same configuration, or a
\* rejection both times.  A list of header names does not swallow the
\* directive after it, and a site may name a receiver defined below it.
OrderIsFree ==
  kind # "characters" =>
    \A i \in 1 .. Len(text) - 1 :
      Whole(text[i]) /\ Whole(text[i + 1]) => Read(text) = Read(Swap(text, i))

\* How many settings of a site a configuration has, or how many sites, payouts
\* and receivers a file gives.
Effects(config) ==
  IF kind = "directives"
  THEN LET site == CHOOSE s \in config.sites : TRUE
       IN 1 + Cardinality(DOMAIN site.settings)
  ELSE Cardinality(config.sites) + Cardinality(config.payouts)
         + Cardinality(DOMAIN Known(Blocks(FlattenSeq(text)), 1))
AllInEffect(config) == config.ok => Effects(config) = Len(text)

\* What is accepted has taken effect, all of it: as many settings as
\* directives were written, as many sites, payouts and receivers as blocks.
\* Nothing overrides an earlier setting silently.
NothingIsDropped ==
  kind # "characters" /\ (\A i \in DOMAIN text : Whole(text[i])) => AllInEffect(Read(text))

\* Once the operator stops editing, the server serves the file if it parses,
\* whatever was written, rejected or undone before: also when an edit is taken
\* back, so that the file again is one that was served earlier.
ReloadsSettle ==
  <>[][Poll]_vars => <>[](kind = "watched" /\ Parsed[text].ok => active = Parsed[text])
===============================================================================
