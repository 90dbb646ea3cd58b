--------------------------- MODULE MCCommandLine ----------------------------
(***************************************************************************)
(* CommandLine with a few processes, and argument vectors of every flag.   *)
(***************************************************************************)
EXTENDS CommandLine

MCArgvs ==
  { <<>>, <<"--force">>, <<"-n">>, <<"--pin">>, <<"--pin", "-f">>,
    <<"--name", "other">>, <<"--name=other", "--force">>, <<"-f", "--dry-run">>,
    <<"--help">>, <<"--force", "--bogus">> }

\* The file is not usable, or has these entries, some with more to them.
MCFound ==
  {FileOf(k) : k \in {"absent", "empty", "garbled", "list"}}
    \cup {[kind |-> "object", more |-> TRUE,
           servers |-> ("ue-trace" :> e @@ "other" :> o)] :
            e \in {NoEntry, [runs |-> "package", more |-> TRUE],
                   [runs |-> "package@version", more |-> FALSE],
                   [runs |-> "something", more |-> FALSE]},
            o \in {NoEntry, [runs |-> "something", more |-> TRUE]}}
=============================================================================
