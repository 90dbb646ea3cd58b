---------------------------- MODULE MCToolCalls ----------------------------
(***************************************************************************)
(* ToolCalls with texts that are empty, one word, or hold a separator, and *)
(* outputs whose log lines and strings hold the braces and quotes that a   *)
(* search for the trailing object could trip over.                         *)
(***************************************************************************)
EXTENDS ToolCalls, JsonText

\* Numbers a client gives: the least the schema allows, and another.
MCPositive    == {1, 7}
MCNonnegative == {0, 7}

MCTexts  == {<<>>, <<"word">>, <<"two", " ", "words">>, <<"one", ",", "two">>}
MCRanges == {<<0, 1>>, <<2, 7>>}

Member(key, v) == [key |-> key, value |-> v]

MCValues == {
  Obj(<<>>),
  Obj(<<Member(<<"a">>, Number), Member(<<"b">>, Arr(<<Obj(<<>>), Arr(<<>>), Number>>))>>),
  Obj(<<Member(<<"a">>, Obj(<<Member(<<"{">>, Str(<<"}", "a">>))>>)), Member(<<>>, Str(<<"{">>))>>),
  Obj(<<Member(<<"a">>, Str(<<Quote, "a", Quote>>)), Member(<<"b">>, Number)>>),
  Obj(<<Member(<<"a">>, Str(<<"C", Backslash, "{">>)), Member(<<"b">>, Str(<<"a", Backslash>>))>>),
  Obj(<<Member(<<"a">>, Str(<<Newline, "{", Quote, "}">>)), Member(<<"b">>, Str(<<Newline>>))>>)}

MCBefore == {<<>>, <<"log">>, <<"{", "log", "}">>, <<Quote, "{">>, <<"}", Quote>>}
MCAfter  == {<<>>, <<"log", Quote, "{">>}

MCOutputs == {[before |-> b, value |-> v, after |-> a] : b \in MCBefore, v \in MCValues, a \in MCAfter}

\* What the theorem about the result of a run needs of the outputs.
ASSUME OutputsAreRead == OutputsRead
=============================================================================
