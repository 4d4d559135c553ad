------------------------ MODULE MCSudoshCommandLine ------------------------
(* Model-checking instance of SudoshCommandLine: one build of a plugin    *)
(* instance, ambient ANSIBLE_* values with and without a blank, and flag  *)
(* values with a quoted argument.                                         *)
EXTENDS SudoshCommandLine

MCLetters == {"k", "n"}

\* the documented default, and a cluster and a long flag each followed by
\* a quoted argument
MCFlagValues ==
    { <<Detect, Verbose>>, <<Short(<<"k", "n">>), Arg("ops"), Detect, Arg("ops")>> }

\* the same, with the argument "release 2" that holds a blank
MCFlagValuesBlank ==
    { <<Detect, Verbose>>,
      <<Short(<<"k", "n">>), Arg("release 2"), Detect, Arg("release 2")>> }

\* the blank-separated words of each text value
MCWords ==
    ("" :> <<>>) @@ ("/srv/my plays" :> <<"/srv/my", "plays">>)
    @@ ("release 2" :> <<"release", "2">>)

MCWordsOf == [v \in TextValues |-> IF v \in DOMAIN MCWords THEN MCWords[v] ELSE <<v>>]

\* options the host sets after the last build do not change the command
\* line already returned; the search leaves them out
MCBuiltFromCurrent == built.kind = "cmd" => opts = built.cfg
=============================================================================
