------------------------------- MODULE Parser -------------------------------
(***************************************************************************)
(* work_items/ai/parser.py: from what a model said to an analysis.  A text *)
(* is a sequence of tokens, each of which the code treats in one way:      *)
(*                                                                         *)
(*   open, close     braces                                                *)
(*   lbracket, rbracket   the brackets of an array                         *)
(*   quote           a double quote                                        *)
(*   backslash       what it is                                            *)
(*   fence           three backquotes                                      *)
(*   nl              a line break (all white space)                        *)
(*   word            letters, and not true, false or null                  *)
(*   number          a number between blanks                               *)
(*   literal         true, false or null between blanks                    *)
(*   fields          a blank and the members of an analysis, with values   *)
(*                   the schema takes: quotes in pairs, no brace           *)
(*                                                                         *)
(* Keys, colons and commas are left out, so any members in a row make an   *)
(* object, and any values in a row an array.                               *)
(***************************************************************************)
EXTENDS Integers, Sequences, FiniteSets, FiniteSetsExt

Tokens == {"open", "close", "lbracket", "rbracket", "quote", "backslash", "fence", "nl",
           "word", "number", "literal", "fields"}

None == <<"no text">>

-----------------------------------------------------------------------------
(* JSON, as json.loads has it: told from what stands where, by counting, and *)
(* not by the scanner below.                                                  *)

\* Behind an odd number of backslashes in a row.
Escaped(text, n) ==
  Cardinality({m \in 1 .. n - 1 : \A i \in m .. n - 1 : text[i] = "backslash"}) % 2 = 1

\* The quotes that open and close strings.
Quotes(text) == {n \in DOMAIN text : text[n] = "quote" /\ ~Escaped(text, n)}

\* Inside a string, its closing quote included.
InString(text, n) == Cardinality({q \in Quotes(text) : q < n}) % 2 = 1

Outside(text, token) == {n \in DOMAIN text : text[n] = token /\ ~InString(text, n)}

\* How many more of one token than of another there are up to the n-th.
Balance(text, opening, closing, n) ==
  Cardinality(Outside(text, opening) \cap (1 .. n))
    - Cardinality(Outside(text, closing) \cap (1 .. n))

\* How many braces, and how many brackets, are open behind the n-th token.
Depth(text, n) == Balance(text, "open", "close", n)

Brackets(text, n) == Balance(text, "lbracket", "rbracket", n)

Level(text, n) == Depth(text, n) + Brackets(text, n)

\* What the m-th token opens is what the n-th one stands in.
Encloses(text, m, n) ==
  /\ m < n /\ Level(text, m) = Level(text, n - 1)
  /\ \A k \in m .. n - 1 : Level(text, k) >= Level(text, m)

\* A brace closes a brace, a bracket a bracket, and members stand in an object.
Nested(text) ==
  /\ \A n \in Outside(text, "close") \cup Outside(text, "fields") :
       \E m \in Outside(text, "open") : Encloses(text, m, n)
  /\ \A n \in Outside(text, "rbracket") :
       \E m \in Outside(text, "lbracket") : Encloses(text, m, n)

\* What a string may hold: a line break is not among it, and a backslash escapes.
CharactersFit(text) ==
  \A n \in DOMAIN text : InString(text, n) =>
    /\ text[n] \notin {"nl", "fields"}
    /\ Escaped(text, n) => text[n] \in {"quote", "backslash"}

\* Outside strings stand values, members and line breaks, each where it may.
Structured(text) ==
  /\ \A n \in DOMAIN text :
       InString(text, n) \/ text[n] \notin {"backslash", "fence", "word"}
  /\ CharactersFit(text)
  /\ Nested(text)

JsonString(text) ==
  Len(text) > 1 /\ Quotes(text) = {1, Len(text)} /\ CharactersFit(text)

JsonObject(text) ==
  /\ text # <<>> /\ text[1] = "open"
  /\ \A n \in DOMAIN text : Depth(text, n) = 0 <=> n = Len(text)
  /\ Structured(text)

JsonArray(text) ==
  /\ text # <<>> /\ text[1] = "lbracket"
  /\ \A n \in DOMAIN text : Brackets(text, n) = 0 <=> n = Len(text)
  /\ Structured(text)

Json(text) ==
  \/ JsonObject(text) \/ JsonArray(text) \/ JsonString(text)
  \/ text \in {<<"number">>, <<"literal">>}

-----------------------------------------------------------------------------
(* The scanner.                                                            *)

\* str.strip.
strip(text) ==
  LET kept == {n \in DOMAIN text : text[n] # "nl"}
  IN  IF kept = {} THEN <<>> ELSE SubSeq(text, Min(kept), Max(kept))

\* What a brace outside a string adds to the depth.
Nesting(char) == IF char = "open" THEN 1 ELSE IF char = "close" THEN -1 ELSE 0

\* Mutant of Read: a backslash does not escape.
ReadUnescaped(s, char) ==
  [depth     |-> IF s.in_string THEN s.depth ELSE s.depth + Nesting(char),
   in_string |-> IF s.in_string THEN char # "quote" ELSE char = "quote",
   escaped   |-> s.escaped]

\* One turn of the loop of _first_json_object.
Read(s, char) ==
  [depth     |-> IF s.in_string THEN s.depth ELSE s.depth + Nesting(char),
   in_string |-> IF s.in_string THEN s.escaped \/ char # "quote" ELSE char = "quote",
   escaped   |-> IF s.in_string THEN ~s.escaped /\ char = "backslash" ELSE s.escaped]

ScanState == [depth : Int, in_string : BOOLEAN, escaped : BOOLEAN]

Start == [depth |-> 0, in_string |-> FALSE, escaped |-> FALSE]

\* The scanner's state after n turns, from a given start on.
Scan(text, start) ==
  LET scan[n \in start - 1 .. Len(text)] ==
        IF n < start THEN Start ELSE Read(scan[n - 1], text[n])
  IN  scan

Braces(text) == {n \in DOMAIN text : text[n] = "open"}

\* _first_json_object: the first balanced {...} span.
first_json_object(text) ==
  IF Braces(text) = {} THEN None
  ELSE LET start == Min(Braces(text))
           ends == {n \in start .. Len(text) : text[n] = "close" /\ Scan(text, start)[n].depth = 0}
       IN  IF ends = {} THEN None ELSE SubSeq(text, start, Min(ends))

\* The opening fence's line is skipped if it holds a language tag (isalpha(), which true,
\* false and null pass as well) or nothing.
AfterOpening(text) ==
  LET breaks == {n \in DOMAIN text : text[n] = "nl"}
      first_line == SubSeq(text, 1, Min(breaks) - 1)
      tag == first_line = <<"literal">> \/ \A n \in DOMAIN first_line : first_line[n] = "word"
  IN  IF breaks # {} /\ tag
        THEN SubSeq(text, Min(breaks) + 1, Len(text)) ELSE text

\* _strip_code_fence.
strip_code_fence(text) ==
  IF text = <<>> \/ Head(text) # "fence" THEN text
  ELSE LET inside == AfterOpening(Tail(text))
           closing == {n \in DOMAIN inside : inside[n] = "fence"}
       IN  strip(IF closing = {} THEN inside ELSE SubSeq(inside, 1, Max(closing) - 1))

\* _candidates, in order; None is passed over.
candidates(text) ==
  <<text, strip_code_fence(text), first_json_object(text),
    first_json_object(strip_code_fence(text))>>

\* _extract_json_object: the first candidate that json.loads takes; None stands for the
\* AIInvalidOutputError that is raised.
extract_json_object(raw) ==
  LET tries == candidates(strip(raw))
      good == {n \in DOMAIN tries : Json(strip(tries[n]))}
  IN  IF good = {} THEN None ELSE strip(tries[Min(good)])

\* AnalysisResult.model_validate: the analysis is among the object's own members.
Conforms(object) ==
  \E n \in DOMAIN object : object[n] = "fields" /\ Depth(object, n) = 1

-----------------------------------------------------------------------------
\* What is to be read: the object that starts at the first brace of a text, by the
\* grammar.
ObjectAtFirstBrace(text) ==
  LET spans == IF Braces(text) = {} THEN {}
               ELSE {o \in {SubSeq(text, Min(Braces(text)), n) : n \in DOMAIN text} :
                       JsonObject(o)}
  IN  IF spans = {} THEN None ELSE CHOOSE o \in spans : TRUE

\* A text as a whole, and what its fence holds.
WholeReadings(raw) == {strip(raw), strip_code_fence(strip(raw))}

=============================================================================
