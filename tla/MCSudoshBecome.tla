--------------------------- MODULE MCSudoshBecome ---------------------------
(* Model-checking instance of SudoshBecome: the default executable and   *)
(* user, one password, and become_flags values chosen so that every      *)
(* branch of the flag handling is taken.                                 *)
EXTENDS SudoshBecome

\* -k and -n are sudo-style switches: keep credentials, non-interactive
MCLetters == {"k", "n"}

\* become_flags values: the empty string, the documented default, a lone
\* --ansible-verbose, a duplicated one, clusters that embed -n next to
\* another switch, a forced detection flag, and unbalanced quotes
MCFlagValues ==
    { <<>>, <<Detect, Verbose>>, <<Verbose>>, <<Verbose, Verbose>>,
      <<Short(<<"k", "n">>), NonInteractive>>,
      <<Short(<<"n">>), AnsibleForce>>, <<Short(<<"n", "k">>)>>, Malformed }

\* the same, with a cluster that repeats the non-interactive switch
MCFlagValuesRepeated == MCFlagValues \cup { <<Short(<<"n", "n">>)>> }
=============================================================================
