---------------------------- MODULE SudoshBecome ----------------------------
(***************************************************************************)
(* The sudosh become plugin (ansible_plugins/become/sudosh.py, class        *)
(* BecomeModule): the options the host resolves for it, the controller's    *)
(* environment it reads, and the state one plugin instance keeps between    *)
(* calls of build_become_command (self._id, self.success, self.prompt).     *)
(*                                                                         *)
(* Strings are abstracted to what the properties tell apart.  A flag token *)
(* produced by shlex.split is a record: a long flag "--name", or a short   *)
(* cluster "-" followed by a sequence of switch letters, or the argument  *)
(* of a flag (a token that does not begin with a dash, such as the text   *)
(* of a quoted substring).  The token Gone                                *)
(* stands for a token that the code deletes from the flag string or skips  *)
(* in the flag list; it contributes no word to the command line, exactly   *)
(* like the empty text or the missing list element it stands for.          *)
(***************************************************************************)
EXTENDS Naturals, Sequences, SequencesExt

CONSTANTS
    None,         \* an option that is unset (get_option returns None)
    Malformed,    \* a become_flags value with unbalanced quotes
    Absent,       \* an environment variable that is not set
    ExeValues,    \* values become_exe may take (strings, None)
    UserValues,   \* values become_user may take (strings, None)
    FlagValues,   \* become_flags values: shlex token sequences, None, Malformed
    PassValues,   \* values become_pass may take (strings, None)
    EnvValues,    \* values an ANSIBLE_* environment variable may hold
    Letters,      \* switch letters of short flag clusters
    ArgValues,    \* texts of flag arguments (tokens without a leading dash)
    Commands,     \* commands to escalate; "" is the empty command
    MaxBuilds     \* bound on the number of build_become_command calls

(* The long flags the plugin itself writes or inspects (lines 221-271). *)
LongNames == {"--ansible-detect", "--ansible-verbose", "--ansible-force",
              "--no-session-log", "--non-interactive"}

Long(nm) == [form |-> "long", name |-> nm, sw |-> <<>>]
Short(s) == [form |-> "short", name |-> "", sw |-> s]
Arg(v) == [form |-> "arg", name |-> v, sw |-> <<>>]
Gone == [form |-> "gone", name |-> "", sw |-> <<>>]

Token == [form : {"long"}, name : LongNames, sw : {<<>>}]
         \cup [form : {"short"}, name : {""}, sw : Seq(Letters)]
         \cup [form : {"arg"}, name : ArgValues, sw : {<<>>}]

Detect         == Long("--ansible-detect")
Verbose        == Long("--ansible-verbose")
AnsibleForce   == Long("--ansible-force")
NoSessionLog   == Long("--no-session-log")
NonInteractive == Long("--non-interactive")

(* The controller environment variables the builder reads (lines 230-240). *)
FixedKeys    == <<"ANSIBLE_MODULE_NAME", "ANSIBLE_TASK_UUID">>
OptionalKeys == <<"ANSIBLE_PLAYBOOK_DIR", "ANSIBLE_INVENTORY", "ANSIBLE_CONFIG">>
AmbientKeys  == ToSet(FixedKeys) \cup ToSet(OptionalKeys)

ASSUME ConstantsAssumption ==
    /\ None \notin STRING /\ Malformed \notin STRING /\ Absent \notin STRING
    /\ ExeValues \subseteq STRING \cup {None} /\ "sudosh" \in ExeValues \ {None}
    /\ UserValues \subseteq STRING \cup {None} /\ "root" \in UserValues \ {None}
    /\ FlagValues \subseteq Seq(Token) \cup {None, Malformed}
    /\ <<Detect, Verbose>> \in FlagValues
    /\ PassValues \subseteq STRING \cup {None} /\ None \in PassValues
    /\ EnvValues \subseteq STRING
    /\ Letters \subseteq STRING /\ ArgValues \subseteq STRING /\ Commands \subseteq STRING
    /\ MaxBuilds \in Nat

(* Python truthiness of a string option: None and "" are false; of      *)
(* become_flags: None and the empty string (no tokens) are false.         *)
Truthy(v) == v \notin {None, ""}
FlagsSet(f) == f \notin {None, <<>>}

(* Resolved options (DOCUMENTATION, options: and their defaults). *)
Options == [become_exe : ExeValues,
            become_user : UserValues,
            become_flags : FlagValues,
            become_pass : PassValues,
            sudosh_session_log : BOOLEAN,
            sudosh_detection_force : BOOLEAN,
            sudosh_detection_verbose : BOOLEAN]

DefaultOptions == [become_exe |-> "sudosh", become_user |-> "root",
                   become_flags |-> <<Detect, Verbose>>, become_pass |-> None,
                   sudosh_session_log |-> TRUE,
                   sudosh_detection_force |-> FALSE,
                   sudosh_detection_verbose |-> TRUE]

Environments == [AmbientKeys -> EnvValues \cup {Absent}]

(* An environment annotation KEY=value of the env prefix: its keys are    *)
(* the plugin's own and the ambient ones, its values the user, an ambient *)
(* value, or one of the literals the builder writes.                      *)
AnnotationKeys == {"ANSIBLE_BECOME_METHOD", "ANSIBLE_BECOME_USER"} \cup AmbientKeys
Annotation == [key : AnnotationKeys,
               val : EnvValues \cup (UserValues \ {None})
                     \cup {"sudosh", "root", "unknown"}]

(* Outcomes of a build: a command, the empty command returned unchanged,  *)
(* or the ValueError of shlex.split propagated to the caller.  A command  *)
(* keeps the options it was built from (cfg), a history field that no     *)
(* action reads.                                                          *)
Command == [kind : {"cmd"}, envcmd : BOOLEAN, env : Seq(Annotation),
            exe : ExeValues \ {None}, flags : Seq(Token \cup {Gone}),
            user : (UserValues \ {None}) \cup {""},
            wrapped : 1..MaxBuilds, cfg : Options]
NotBuilt  == [kind |-> "none"]
Unchanged == [kind |-> "unchanged"]
BuildError == [kind |-> "error"]

NoPrompt == 0   \* the class attribute prompt = '' of BecomeBase

VARIABLES
    opts,      \* the options the host has set on the plugin
    environ,   \* os.environ of the controller
    id,        \* self._id, regenerated by every build
    success,   \* self.success = 'BECOME-SUCCESS-<id>'; 0 before any build
    prompt,    \* self.prompt: NoPrompt or the id it is keyed by
    built      \* what the last build_become_command call returned

vars == <<opts, environ, id, success, prompt, built>>

-----------------------------------------------------------------------------
(* The steps of build_become_command, as operators of the options o and  *)
(* the environment e.                                                     *)

\* mutant of BecomeCmd: the fallback "or self.name" is dropped
BecomeCmdNoDefault(o) == o.become_exe

\* line 218: become_exe, or the plugin's name when it is unset or empty
BecomeCmd(o) == IF Truthy(o.become_exe) THEN o.become_exe ELSE "sudosh"

\* lines 233-234: os.environ.get(k, 'unknown')
EnvGet(e, k) == IF e[k] = Absent THEN "unknown" ELSE e[k]

\* lines 236-240: an optional annotation, written only if the value is truthy
EnvOpt(e, k) ==
    IF e[k] \notin {Absent, ""} THEN <<[key |-> k, val |-> e[k]]>> ELSE <<>>

\* lines 229-240: the fixed annotations, then the optional ones that are set
Annotations(o, e) ==
    << [key |-> "ANSIBLE_BECOME_METHOD", val |-> "sudosh"],
       [key |-> "ANSIBLE_BECOME_USER",
        val |-> IF Truthy(o.become_user) THEN o.become_user ELSE "root"],
       [key |-> "ANSIBLE_MODULE_NAME", val |-> EnvGet(e, "ANSIBLE_MODULE_NAME")],
       [key |-> "ANSIBLE_TASK_UUID", val |-> EnvGet(e, "ANSIBLE_TASK_UUID")] >>
    \o EnvOpt(e, "ANSIBLE_PLAYBOOK_DIR") \o EnvOpt(e, "ANSIBLE_INVENTORY")
    \o EnvOpt(e, "ANSIBLE_CONFIG")

\* line 221: become_flags, or the default when it is unset or empty
ResolvedFlags(o) ==
    IF FlagsSet(o.become_flags) THEN o.become_flags ELSE <<Detect, Verbose>>

\* mutant of UserFlags: flags.replace('--ansible-verbose', '', 1)
UserFlagsReplaceOnce(o) ==
    LET r == ResolvedFlags(o)
        i == IF r = Malformed THEN 0 ELSE SelectInSeq(r, LAMBDA t : t = Verbose)
    IN  IF o.sudosh_detection_verbose \/ i = 0 THEN r ELSE [r EXCEPT ![i] = Gone]

\* lines 248-252: flags.replace('--ansible-verbose', '') when verbose is off
UserFlags(o) ==
    IF o.sudosh_detection_verbose \/ ResolvedFlags(o) = Malformed
    THEN ResolvedFlags(o)
    ELSE ReplaceAll(ResolvedFlags(o), Verbose, Gone)

\* lines 243-255: the flags derived from the boolean options
SudoshFlags(o) ==
    (IF o.sudosh_detection_force THEN <<AnsibleForce>> ELSE <<>>)
    \o (IF o.sudosh_detection_verbose THEN <<Verbose>> ELSE <<>>)
    \o (IF o.sudosh_session_log THEN <<>> ELSE <<NoSessionLog>>)

\* lines 258-261: shlex.split of the user flags, then the derived flags
AllFlags(o) == UserFlags(o) \o SudoshFlags(o)

\* line 275: re.sub(r'^(-\w*)n(\w*.*)', r'\1\2', flag) deletes the last "n"
\* of the run of word characters after the dash, if there is one
StripN(sw) ==
    IF \E i \in DOMAIN sw : sw[i] = "n"
    THEN LET last == CHOOSE i \in DOMAIN sw :
                        sw[i] = "n" /\ \A j \in DOMAIN sw : j > i => sw[j] # "n"
         IN  RemoveAt(sw, last)
    ELSE sw

\* mutant of Reflag: a flag that embeds the switch is skipped whole
ReflagDropCluster(t) ==
    IF t = NonInteractive \/ (t.form = "short" /\ "n" \in ToSet(t.sw)) THEN Gone
    ELSE t

\* lines 270-276: one flag of the loop that drops non-interactive flags
Reflag(t) ==
    IF t \in {Short(<<"n">>), NonInteractive} THEN Gone
    ELSE IF t.form = "short" THEN Short(StripN(t.sw))
    ELSE t

\* lines 264-277: with a password the loop rewrites every flag
FinalFlags(o) ==
    IF Truthy(o.become_pass)
    THEN [i \in DOMAIN AllFlags(o) |-> Reflag(AllFlags(o)[i])]
    ELSE AllFlags(o)

\* lines 264-266: self.prompt is keyed by build n when a password is set
NewPrompt(o, n) == IF Truthy(o.become_pass) THEN n ELSE prompt

\* lines 280-302: the command line, with the wrapped command of
\* _build_success_command carrying the success marker of build n
BuiltCommand(o, e, n) ==
    [kind |-> "cmd",
     envcmd |-> Annotations(o, e) # <<>>,
     env |-> Annotations(o, e),
     exe |-> BecomeCmd(o),
     flags |-> FinalFlags(o),
     user |-> IF Truthy(o.become_user) THEN o.become_user ELSE "",
     wrapped |-> n,
     cfg |-> o]

-----------------------------------------------------------------------------
Init ==
    /\ opts = DefaultOptions
    /\ environ \in Environments
    /\ id = 0
    /\ success = 0
    /\ prompt = NoPrompt
    /\ built = NotBuilt

(* The host resolves the options of the next task (set_options). *)
SetOptions(o) ==
    /\ opts' = o
    /\ UNCHANGED <<environ, id, success, prompt, built>>

(* build_become_command(cmd, shell), lines 189-302.  BecomeBase's          *)
(* build_become_command (line 213) regenerates self._id and self.success  *)
(* first; the empty command is then returned unchanged (215-216); a       *)
(* malformed flag string raises from shlex.split (260) before the prompt  *)
(* is set; otherwise self.prompt is keyed by the new id when a password   *)
(* is set (265-266) and the command is returned.                          *)
BuildBecomeCommand(c) ==
    /\ id < MaxBuilds
    /\ id' = id + 1
    /\ success' = id + 1
    /\ UNCHANGED <<opts, environ>>
    /\ \/ /\ c = ""
          /\ built' = Unchanged
          /\ UNCHANGED prompt
       \/ /\ c # ""
          /\ UserFlags(opts) = Malformed
          /\ built' = BuildError
          /\ UNCHANGED prompt
       \/ /\ c # ""
          /\ UserFlags(opts) # Malformed
          /\ prompt' = NewPrompt(opts, id + 1)
          /\ built' = BuiltCommand(opts, environ, id + 1)

Next ==
    \/ \E o \in Options : SetOptions(o)
    \/ \E c \in Commands : BuildBecomeCommand(c)

Spec == Init /\ [][Next]_vars

-----------------------------------------------------------------------------
TypeOK ==
    /\ opts \in Options
    /\ environ \in Environments
    /\ id \in 0..MaxBuilds
    /\ success = id
    /\ prompt \in 0..id
    /\ built \in Command \cup {NotBuilt, Unchanged, BuildError}

-----------------------------------------------------------------------------
(* The non-interactive strip as the spec states it (spec section 9): in a *)
(* token made of a dash and switch letters every "n" is removed, and the  *)
(* token is dropped only if no letter is left.                            *)
SpecStrip(t) ==
    IF t = NonInteractive THEN Gone
    ELSE IF t.form = "short"
         THEN LET rest == SelectSeq(t.sw, LAMBDA x : x # "n")
              IN  IF rest = <<>> THEN Gone ELSE Short(rest)
    ELSE t

HasFlag(b, f) == \E i \in DOMAIN b.flags : b.flags[i] = f

(* With sudosh_detection_verbose off no --ansible-verbose reaches sudosh, *)
(* whatever become_flags holds; with it on, the flag is always passed     *)
(* (build_become_command, lines 248-252).                                 *)
VerboseFlagMatchesOption ==
    built.kind = "cmd" =>
        (HasFlag(built, Verbose) <=> built.cfg.sudosh_detection_verbose)

(* With a password set, the flag loop removes exactly the non-interactive *)
(* switches from every flag, as the spec's token scan does, and keeps all *)
(* other switches in order (build_become_command, lines 264-277).         *)
PasswordStripMatchesSpec ==
    (built.kind = "cmd" /\ Truthy(built.cfg.become_pass)) =>
        built.flags = [i \in DOMAIN AllFlags(built.cfg) |->
                          SpecStrip(AllFlags(built.cfg)[i])]

(* Spec sections 4.1 (step 6) and 5: the password-prompt mode is        *)
(* recorded against the identifier of the invocation whose build wrote   *)
(* it.  The last built command is in prompt mode, keyed by its own id,    *)
(* exactly when it was built with a password; one built without a         *)
(* password inherits no mode from an earlier build (lines 265-266 set     *)
(* self.prompt only when become_pass is set, and never clear it).         *)
PromptModeOfThisBuild ==
    built.kind = "cmd" =>
        prompt = IF Truthy(built.cfg.become_pass) THEN built.wrapped ELSE NoPrompt

(* Spec section 8: with sudosh_detection_force the built command carries  *)
(* --ansible-force exactly once, whether or not become_flags has it too   *)
(* (line 246 appends it unconditionally).                                 *)
ForceFlagExactlyOnce ==
    (built.kind = "cmd" /\ built.cfg.sudosh_detection_force) =>
        Cardinality({i \in DOMAIN built.flags : built.flags[i] = AnsibleForce}) = 1

(* Spec section 4.1: an empty become_flags configuration gives no flags   *)
(* segment, so only the flags the boolean options derive are passed      *)
(* (line 221 falls back to the default for an empty string).             *)
EmptyFlagsNoFlagSegment ==
    (built.kind = "cmd" /\ built.cfg.become_flags = <<>>) =>
        \A i \in DOMAIN built.flags :
            built.flags[i] \in ToSet(SudoshFlags(built.cfg)) \cup {Gone}

=============================================================================
