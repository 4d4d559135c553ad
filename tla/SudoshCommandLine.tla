-------------------------- MODULE SudoshCommandLine --------------------------
(***************************************************************************)
(* The command line build_become_command returns (lines 279-302), and the *)
(* words the remote shell splits it into.  The builder joins its parts    *)
(* with single blanks and quotes nothing; the shell then splits the line  *)
(* on every blank.                                                        *)
(*                                                                         *)
(* A text is a sequence of pieces: a word, or Blank.  A value the options *)
(* or the environment supply is given by its blank-separated words        *)
(* (WordsOf), so that "/srv/my plays" is <<"/srv/my", "plays">>.  A long  *)
(* flag or a cluster is the one word it spells, and the wrapped command of *)
(* _build_success_command is one piece: its quoting belongs to the shell  *)
(* plugin, not to this builder.                                           *)
(***************************************************************************)
EXTENDS SudoshBecome

CONSTANT WordsOf   \* the words of every text value an option or variable holds

Blank == " "

\* the texts of values: the option and environment values, the literals
\* the builder writes, and flag arguments
TextValues == ((ExeValues \cup UserValues) \ {None}) \cup EnvValues
              \cup ArgValues \cup {"sudosh", "root", "unknown"}

\* WordsOf[v] is a sequence of non-blank words, empty exactly for v = ""

\* "%s" % v: the words of a value with a blank between each two
Text(v) ==
    IF WordsOf[v] = <<>> THEN <<>>
    ELSE FlattenSeq([i \in DOMAIN WordsOf[v] |->
                        IF i = 1 THEN <<WordsOf[v][1]>> ELSE <<Blank, WordsOf[v][i]>>])

\* ' '.join(parts)
JoinWithBlanks(parts) ==
    FlattenSeq([i \in DOMAIN parts |->
                   IF i = 1 THEN parts[1] ELSE <<Blank>> \o parts[i]])

\* a flag token as text: a long flag is its name, a cluster a dash and its
\* letters, an argument the words of its text
TokenText(t) ==
    CASE t.form = "long"  -> <<t.name>>
      [] t.form = "short" -> <<FoldLeft(LAMBDA w, c : w \o c, "-", t.sw)>>
      [] t.form = "arg"   -> Text(t.name)

\* the tokens the code's all_flags list holds (Gone marks none)
FlagList(b) == SelectSeq(b.flags, LAMBDA t : t # Gone)

\* lines 225-240: 'KEY=%s' % value
AnnotationText(a) == <<a.key, "=">> \o Text(a.val)

\* line 288: flags_str = ' '.join(all_flags)
FlagsText(b) == JoinWithBlanks([i \in DOMAIN FlagList(b) |-> TokenText(FlagList(b)[i])])

\* lines 280-284: user_flag = '-u %s' % user, or '' without a user
UserFlagText(b) == IF b.user = "" THEN <<>> ELSE <<"-u", Blank>> \o Text(b.user)

Wrapped == "wrapped-command"

\* lines 287-302: the parts, the empty ones left out, joined by blanks
CommandLine(b) ==
    JoinWithBlanks(
        (IF b.envcmd THEN <<<<"env">>>> \o [i \in DOMAIN b.env |-> AnnotationText(b.env[i])]
                     ELSE <<>>)
        \o <<Text(b.exe)>>
        \o (IF FlagsText(b) # <<>> THEN <<FlagsText(b)>> ELSE <<>>)
        \o (IF UserFlagText(b) # <<>> THEN <<UserFlagText(b)>> ELSE <<>>)
        \o <<<<Wrapped>>>>)

-----------------------------------------------------------------------------
(* The remote shell's word splitting: a word is a maximal run of pieces   *)
(* that are not Blank, and the words keep the order of their starts.      *)
WordStarts(line) ==
    {i \in DOMAIN line : line[i] # Blank /\ (i = 1 \/ line[i - 1] = Blank)}

WordEnd(line, s) ==
    CHOOSE e \in s..Len(line) :
        /\ \A j \in s..e : line[j] # Blank
        /\ (e = Len(line) \/ line[e + 1] = Blank)

ShellWords(line) ==
    LET starts == WordStarts(line)
    IN  [k \in 1..Cardinality(starts) |->
            LET s == CHOOSE s \in starts : Cardinality({t \in starts : t <= s}) = k
            IN  SubSeq(line, s, WordEnd(line, s))]

(* The argument vector the builder means sudosh to receive (spec, steps 3 *)
(* and 7): env, one KEY=value per annotation, the executable, one        *)
(* argument per flag token, -u and the user, then the wrapped command.   *)
IntendedArgv(b) ==
    (IF b.envcmd THEN <<<<"env">>>> \o [i \in DOMAIN b.env |-> AnnotationText(b.env[i])]
                 ELSE <<>>)
    \o <<Text(b.exe)>>
    \o [i \in DOMAIN FlagList(b) |-> TokenText(FlagList(b)[i])]
    \o (IF b.user = "" THEN <<>> ELSE <<<<"-u">>, Text(b.user)>>)
    \o <<<<Wrapped>>>>

(* The command line is correctly escaped (spec, overview and step 3): the *)
(* shell that runs it hands env and sudosh exactly the arguments the      *)
(* builder assembled, each annotation, flag token and the user one word,  *)
(* whatever blanks the option values and the ANSIBLE_* variables hold     *)
(* (build_become_command joins its parts unquoted, lines 282-302).        *)
ArgvPreserved ==
    built.kind = "cmd" =>
        LET line == CommandLine(built) IN ShellWords(line) = IntendedArgv(built)

=============================================================================
