------------------------------ MODULE ToolCalls ------------------------------
(***************************************************************************)
(* A call of a tool, from the arguments the client gives to the answer:    *)
(* the question the tool makes of them (Tools), its way to TraceDigest     *)
(* (Arguments) and back, over a daemon or as a one-shot run (OneShot).     *)
(***************************************************************************)
EXTENDS Tools, OneShot

VARIABLES tool,      \* the tool that is called
          question,  \* its arguments
          route      \* "daemon" or "one-shot"; "sent" once a run has its argv

callVars == <<tool, question, route>>
vars     == <<callVars, oneShotVars>>

Init ==
  /\ tool \in DOMAIN AllTools
  /\ question \in Askable[tool]
  /\ route \in {"daemon", "one-shot"}
  /\ OneShotInit

Mode == AllTools[tool].mode

\* What reaches TraceDigest.
Line    == IF route = "daemon" THEN daemonLine(question) ELSE buildBinaryArgv(question)
Arrived == Parse(Mode, Line, route)

\* HandleQuery: a mode that is not refused gives its answer.
DaemonAnswers == Valid(Mode, Arrived) /\ Mode # "compare"

\* runViaDaemon: what the registry makes of the daemon's reply; it may also fail
\* for reasons of its own.
ViaDaemon ==
  /\ route = "daemon" /\ promise = "pending"
  /\ Settle(IF DaemonAnswers THEN "result" ELSE "refused")
  /\ UNCHANGED <<callVars, child, accepted, whole, code, written, received, timer, killedFor>>

DaemonFails ==
  /\ route = "daemon" /\ promise = "pending"
  /\ Settle("daemon")
  /\ UNCHANGED <<callVars, child, accepted, whole, code, written, received, timer, killedFor>>

\* runBinary: the child gets its arguments, and nothing here looks at them again.
\* One that can read them may still find that it cannot load the trace.
RunBinary ==
  /\ route = "one-shot"
  /\ Spawn(Valid(Mode, Arrived))
  /\ tool' = "sent" /\ question' = NoArguments /\ route' = "sent"

NoBinary == route = "one-shot" /\ NotExecutable /\ UNCHANGED callVars

OfTheRun ==
  /\ SpawnError \/ Data \/ TimerFires \/ Close \/ Write \/ ExitOk \/ ExitFails \/ Dies
  /\ UNCHANGED callVars

Next == ViaDaemon \/ DaemonFails \/ RunBinary \/ NoBinary \/ OfTheRun

\* Whether a daemon's reply comes is the concern of DaemonRegistry.
Spec ==
  /\ Init /\ [][Next]_vars
  /\ WF_vars(RunBinary) /\ OneShotFairness

-----------------------------------------------------------------------------

\* The process and the pipe stay in their bounds.
TypeOK ==
  /\ child \in {"none", "failed", "running", "exited", "closed"}
  /\ code \in {-1, 0, 1} /\ written \in 0 .. MaxWritten /\ received \in 0 .. written
  /\ killedFor \subseteq {"timeout", "overflow"}
  /\ accepted \in BOOLEAN /\ whole \in BOOLEAN /\ timer \in BOOLEAN

\* Arguments without a space or a comma, where the daemon's line is cut; a text
\* that is required is not empty, for an empty one asks for nothing.
Plain ==
  /\ \A f \in (Texts \cap DOMAIN question) \ {"params"} : ToSet(question[f]) \cap Separators = {}
  /\ \A f \in AllTools[tool].needs \cap Texts : question[f] # <<>>

\* Every call that the tools' schemas allow is understood, by either route, and
\* each mode gets each argument as the client gave it: none is dropped by one of
\* the hand-written lists of flags, none is taken for a missing one, and one that
\* was not given has no value (digest.ts, Args.cpp).
AsAsked ==
  child = "none" /\ Plain =>
    /\ Valid(Mode, Arrived)
    /\ \A f \in Given(question) : Arrived[f] = question[f]
    /\ \A f \in Flags \ (Given(question) \cup {"channel", "view"}) : Arrived[f] = NotGiven[f]

\* Two calls of a tool whose results share a cache entry send the same arguments,
\* so the cache never hides an argument (the variants in tools.ts); the second
\* file of a comparison is the one exception, and a daemon compares nothing.
VariantsTellApart ==
  child = "none" /\ AllTools[tool].variant # NotCached =>
    \A other \in Askable[tool] :
      Variant(AllTools[tool], other) = Variant(AllTools[tool], question) =>
        \A f \in Flags \ {"file2"} :
          Parse(Mode, daemonLine(other), "daemon")[f] = Parse(Mode, daemonLine(question), "daemon")[f]

\* A value with a character that is written behind a backslash.
Escapes(v) == "\\" \in ToSet(Written(v))

\* What the search makes of the outputs of a child: it finds the value that was
\* written, or none, and none only where something stands around a value with an
\* escape.
OutputsRead ==
  \A p \in Outputs :
    /\ p.value # Nothing
    /\ Found(Output(p)) \in {p.value, Nothing}
    /\ (~Escapes(p.value) \/ p.before \o p.after = <<>>) => Found(Output(p)) = p.value

\* A one-shot run gives a result exactly when its child ended well, in time, and
\* printed no more than it may; the result is the object it printed, whatever
\* lines stand before it.  With lines around an object that holds an escape the
\* run may fail to find it, but never finds another (digest.ts, runBinary and
\* extractTrailingJson).
ResultIsOutput ==
  child = "closed" /\ promise # "not started" =>
    LET clean == code = 0 /\ killedFor = {} IN
    /\ clean => accepted /\ whole /\ received = written /\ written <= MaxStdout
    /\ "overflow" \in killedFor => written > MaxStdout
    /\ promise = "result" => clean /\ value = printed.value
    /\ clean /\ (~Escapes(printed.value) \/ printed.before \o printed.after = <<>>)
         => promise = "result"

\* A call by the one-shot route is answered even if its child hangs: the timer
\* kills it (digest.ts, runBinary).
RunsAnswered == (route = "one-shot") ~> (promise # "pending")
=============================================================================
