------------------------------ MODULE JsonText ------------------------------
(***************************************************************************)
(* The JSON of an answer: how TraceDigest writes it (JsonOut.cpp) and how  *)
(* the MCP server finds it again in what a one-shot run printed            *)
(* (digest.ts).  A text is a sequence of characters; a letter stands for   *)
(* any character that JSON gives no meaning to, a digit for any number.    *)
(***************************************************************************)
EXTENDS Integers, Sequences, SequencesExt, FiniteSetsExt

Quote     == "\""
Backslash == "\\"
Newline   == "newline"

\* The values of JSON that the modes write.
Str(chars)   == [kind |-> "string", chars |-> chars]
Number       == [kind |-> "number"]
Arr(items)   == [kind |-> "array", items |-> items]
Obj(members) == [kind |-> "object", members |-> members]  \* <<[key, value], ...>>

-----------------------------------------------------------------------------
(* Writing.                                                                *)

MutQuotesOnly(chars) ==
  FlattenSeq([i \in DOMAIN chars |->
    IF chars[i] = Quote THEN <<Backslash, Quote>> ELSE <<chars[i]>>])
EscapeJson(chars) ==
  FlattenSeq([i \in DOMAIN chars |->
    CASE chars[i] \in {Quote, Backslash} -> <<Backslash, chars[i]>>
      [] chars[i] = Newline              -> <<Backslash, "n">>
      [] OTHER                           -> <<chars[i]>>])

InQuotes(chars) == <<Quote>> \o EscapeJson(chars) \o <<Quote>>

\* A writer: what it wrote, for each open object or array whether something is
\* in it, and whether a key waits for its value.
NewWriter == [buffer |-> <<>>, needsComma |-> <<>>, afterKey |-> FALSE]

MutSepKeepsKey(w) ==
  IF w.needsComma = <<>> THEN w
  ELSE [w EXCEPT !.buffer = IF Last(w.needsComma) THEN Append(@, ",") ELSE @,
                 !.needsComma[Len(w.needsComma)] = TRUE]
Sep(w) ==
  IF w.afterKey THEN [w EXCEPT !.afterKey = FALSE]
  ELSE IF w.needsComma = <<>> THEN w
  ELSE [w EXCEPT !.buffer = IF Last(w.needsComma) THEN Append(@, ",") ELSE @,
                 !.needsComma[Len(w.needsComma)] = TRUE]

Put(w, chars) == [w EXCEPT !.buffer = @ \o chars]

Begin(w, brace) ==
  LET v == Put(Sep(w), <<brace>>) IN [v EXCEPT !.needsComma = Append(@, FALSE)]

MutEndKeepsLevel(w, brace) == Put(w, <<brace>>)
End(w, brace) == [Put(w, <<brace>>) EXCEPT !.needsComma = Front(@)]

Key(w, chars) == [Put(Sep(w), InQuotes(chars) \o <<":">>) EXCEPT !.afterKey = TRUE]

\* How the modes use a writer: a value is begun, filled and ended.
RECURSIVE WriteValue(_, _)
WriteValue(w, value) ==
  CASE value.kind = "string" -> Put(Sep(w), InQuotes(value.chars))
    [] value.kind = "number" -> Put(Sep(w), <<"1">>)
    [] value.kind = "array"  -> End(FoldLeft(WriteValue, Begin(w, "["), value.items), "]")
    [] value.kind = "object" ->
         End(FoldLeft(LAMBDA v, m : WriteValue(Key(v, m.key), m.value), Begin(w, "{"), value.members),
             "}")

Text(value) == WriteValue(NewWriter, value).buffer

-----------------------------------------------------------------------------
(* Reading: JSON.parse.                                                    *)

NotJson == [kind |-> "not JSON"]
Bad     == [value |-> NotJson, next |-> 0]

At(text, i) == IF i \in DOMAIN text THEN text[i] ELSE "end"

RECURSIVE CharsFrom(_, _, _)
CharsFrom(text, i, read) ==
  CASE At(text, i) = Quote -> [value |-> Str(read), next |-> i + 1]
    [] At(text, i) = Backslash /\ At(text, i + 1) \in {Quote, Backslash} ->
         CharsFrom(text, i + 2, Append(read, text[i + 1]))
    [] At(text, i) = Backslash /\ At(text, i + 1) = "n" -> CharsFrom(text, i + 2, Append(read, Newline))
    [] At(text, i) \in {"end", Newline, Backslash} -> Bad
    [] OTHER -> CharsFrom(text, i + 1, Append(read, text[i]))

StringAt(text, i) == IF At(text, i) = Quote THEN CharsFrom(text, i + 1, <<>>) ELSE Bad

RECURSIVE ValueAt(_, _)
RECURSIVE ItemsAt(_, _, _)
RECURSIVE MembersAt(_, _, _)

ItemsAt(text, i, read) ==
  IF read = <<>> /\ At(text, i) = "]" THEN [value |-> Arr(read), next |-> i + 1]
  ELSE LET item == ValueAt(text, i)
           all  == Append(read, item.value)
       IN  CASE item = Bad -> Bad
             [] At(text, item.next) = "," -> ItemsAt(text, item.next + 1, all)
             [] At(text, item.next) = "]" -> [value |-> Arr(all), next |-> item.next + 1]
             [] OTHER -> Bad

MembersAt(text, i, read) ==
  IF read = <<>> /\ At(text, i) = "}" THEN [value |-> Obj(read), next |-> i + 1]
  ELSE LET key   == StringAt(text, i)
           value == IF key # Bad /\ At(text, key.next) = ":" THEN ValueAt(text, key.next + 1) ELSE Bad
           all   == Append(read, [key |-> key.value.chars, value |-> value.value])
       IN  CASE value = Bad -> Bad
             [] At(text, value.next) = "," -> MembersAt(text, value.next + 1, all)
             [] At(text, value.next) = "}" -> [value |-> Obj(all), next |-> value.next + 1]
             [] OTHER -> Bad

ValueAt(text, i) ==
  CASE At(text, i) = Quote -> StringAt(text, i)
    [] At(text, i) = "1"   -> [value |-> Number, next |-> i + 1]
    [] At(text, i) = "["   -> ItemsAt(text, i + 1, <<>>)
    [] At(text, i) = "{"   -> MembersAt(text, i + 1, <<>>)
    [] OTHER               -> Bad

JsonParse(text) ==
  LET read == ValueAt(text, 1) IN IF read.next = Len(text) + 1 THEN read.value ELSE NotJson

-----------------------------------------------------------------------------
(* The trailing object of an output.                                       *)

\* One character of the backward scan.
ScanBack(text, s, i) ==
  CASE s.escape   -> [s EXCEPT !.escape = FALSE]
    [] s.inString -> [s EXCEPT !.escape = text[i] = Backslash, !.inString = text[i] # Quote]
    [] OTHER -> [s EXCEPT !.inString = text[i] = Quote,
                          !.depth = CASE text[i] = "}" -> @ + 1
                                      [] text[i] = "{" -> @ - 1
                                      [] OTHER -> @,
                          !.start = IF text[i] = "{" /\ s.depth = 1 THEN i ELSE 0]

RECURSIVE StartOf(_, _, _)
StartOf(text, s, i) ==
  IF s.start # 0 \/ i = 0 THEN s.start ELSE StartOf(text, ScanBack(text, s, i), i - 1)

MutFirstBrace(text) ==
  LET braces == {i \in DOMAIN text : text[i] = "{"}
      closed == {i \in DOMAIN text : text[i] = "}"}
  IN  IF braces = {} \/ closed = {} THEN NotJson ELSE JsonParse(SubSeq(text, Min(braces), Max(closed)))
extractTrailingJson(text) ==
  LET whole  == JsonParse(text)
      closed == {i \in DOMAIN text : text[i] = "}"}
      end    == IF closed = {} THEN 0 ELSE Max(closed)
      start  == StartOf(text, [depth |-> 0, inString |-> FALSE, escape |-> FALSE, start |-> 0], end)
  IN  CASE whole.kind = "object" -> whole
        [] start = 0             -> NotJson
        [] OTHER                 -> JsonParse(SubSeq(text, start, end))
=============================================================================
