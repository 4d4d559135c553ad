---------------------------- MODULE SudoshSession ----------------------------
(***************************************************************************)
(* One escalated task: the sudosh process started with the command that    *)
(* build_become_command returned, and the host's become loop that reads    *)
(* its output and classifies it with the plugin's checks                   *)
(* (check_password_prompt, check_success, lines 304-344) and BecomeBase's  *)
(* substring checks against the fail/missing tuples (lines 185-187).       *)
(*                                                                         *)
(* An output line is the sequence of its blank-separated words.  Every     *)
(* marker the checks look for begins and ends at a word boundary of every  *)
(* line sudosh writes, so "marker in line" on bytes is "marker is a        *)
(* contiguous run of words of line" here; .lower() lowers each word.       *)
(*                                                                         *)
(* The host loop is Ansible's become state machine (awaiting_prompt,       *)
(* awaiting_escalation, ready_to_send): every iteration reads a chunk of   *)
(* whole lines, raises the flags of each line, then advances.  The sudosh  *)
(* binary is outside this repository; it is a process that may print a     *)
(* detection banner, prompts when sudoers asks for a password, reports the *)
(* authentication, and runs the wrapped command, which echoes the success  *)
(* marker first.                                                           *)
(***************************************************************************)
EXTENDS Naturals, Sequences, SequencesExt

CONSTANTS
    PassValues,      \* become_pass set or not (BOOLEAN values)
    NeedPassValues,  \* whether sudoers makes sudosh ask for a password
    PassOkValues,    \* whether the configured password is the right one
    VerboseValues,   \* whether --ansible-verbose reaches sudosh
    Sessions         \* what sudosh detects: "ansible" or "augment"

ASSUME SessionAssumption ==
    /\ PassValues \subseteq BOOLEAN /\ NeedPassValues \subseteq BOOLEAN
    /\ PassOkValues \subseteq BOOLEAN /\ VerboseValues \subseteq BOOLEAN
    /\ Sessions \subseteq {"ansible", "augment"}

(* The success marker of this build (self.success) and the prompt the     *)
(* plugin keyed by its id (self.prompt, line 266).                        *)
SuccessWord == "BECOME-SUCCESS-k1"
KeyedPrompt == <<"[sudosh", "via", "ansible,", "key=k1]", "password:">>

(* The lines the sudosh process writes. *)
PromptLine   == <<"[sudosh]", "Password:">>
AnsibleLine  == <<"sudosh:", "Ansible", "session", "detected">>
AugmentLine  == <<"sudosh:", "Augment", "session", "detected">>
AuthOkLine   == <<"sudosh:", "authentication", "successful">>
SorryLine    == <<"Sorry,", "try", "again.">>
AuthFailLine == <<"sudosh:", "authentication", "failed">>
MarkerLine   == <<SuccessWord>>
OutputLine   == <<"hello">>

Lines == {PromptLine, AnsibleLine, AugmentLine, AuthOkLine, SorryLine,
          AuthFailLine, MarkerLine, OutputLine}

(* bytes.lower() on the words that have capitals. *)
LowerCase == ("Password:" :> "password:") @@ ("Ansible" :> "ansible")
             @@ ("Augment" :> "augment") @@ ("Sorry," :> "sorry,")
             @@ (SuccessWord :> "become-success-k1")
LowerWord(w) == IF w \in DOMAIN LowerCase THEN LowerCase[w] ELSE w
Lower(l) == [i \in DOMAIN l |-> LowerWord(l[i])]

(* "m in l" for a marker m and a line l *)
Occurs(m, l) == m \in SubSeqs(l)

-----------------------------------------------------------------------------
(* The classifiers. *)

\* lines 186-187: the fail and missing tuples
Fail    == {<<"Sorry,", "try", "again.">>, <<"sudosh:", "authentication", "failed">>}
Missing == {<<"Sorry,", "a", "password", "is", "required", "to", "run", "sudosh">>,
            <<"sudosh:", "password", "required">>}

\* BecomeBase.check_password_prompt: a line that starts with self.prompt
BaseCheckPasswordPrompt(l) == IsPrefix(KeyedPrompt, l)

\* lines 311-316: the sudosh-specific prompt markers
SudoshPrompts == {<<"[sudosh]">>, <<"sudosh:">>, <<"Password:">>, <<"password:">>}

\* mutant of CheckPasswordPrompt: only the base check is kept
CheckPasswordPromptBaseOnly(l) == BaseCheckPasswordPrompt(l)

\* mutant of CheckPasswordPrompt: the b'sudosh:' marker is left out
CheckPasswordPromptNoColon(l) ==
    \/ BaseCheckPasswordPrompt(l)
    \/ \E p \in SudoshPrompts \ {<<"sudosh:">>} : Occurs(Lower(p), Lower(l))

\* lines 304-324: check_password_prompt, on one line of output
CheckPasswordPrompt(l) ==
    \/ BaseCheckPasswordPrompt(l)
    \/ \E p \in SudoshPrompts : Occurs(Lower(p), Lower(l))

\* BecomeBase.check_success: the success marker within the line
BaseCheckSuccess(l) == Occurs(<<SuccessWord>>, l)

\* lines 333-337: the sudosh-specific success indicators
SuccessIndicators == {<<"sudosh:", "Ansible", "session", "detected">>,
                      <<"sudosh:", "Augment", "session", "detected">>,
                      <<"sudosh:", "authentication", "successful">>}

\* lines 326-344: check_success, on one line of output
CheckSuccess(l) ==
    \/ BaseCheckSuccess(l)
    \/ \E s \in SuccessIndicators : Occurs(s, l)

\* BecomeBase.check_incorrect_password / check_missing_password
CheckIncorrectPassword(l) == \E f \in Fail : Occurs(f, l)
CheckMissingPassword(l)   == \E m \in Missing : Occurs(m, l)

-----------------------------------------------------------------------------
VARIABLES
    cfg,     \* the task: password set, sudoers, password right, banner, session
    spc,     \* where the sudosh process is
    chan,    \* lines sudosh has written that the host has not read yet
    stdin,   \* the password written to sudosh's stdin and not yet read
    ran,     \* the wrapped command has started
    leaked,  \* the wrapped command started with the password on its stdin
    hstate,  \* the host's become state, or its verdict
    flags,   \* the host's become_prompt/success/error/nopasswd flags
    pwsent   \* how many times the host wrote the password

vars == <<cfg, spc, chan, stdin, ran, leaked, hstate, flags, pwsent>>

\* the flags the host keeps across reads (prompt, success, error, nopasswd)
FlagNames == {"prompt", "success", "error", "nopasswd"}

NoFlags == [f \in FlagNames |-> FALSE]

(* BecomeBase.expect_prompt: self.prompt and become_pass.  The build sets *)
(* self.prompt exactly when become_pass is set (SudoshBecome).            *)
ExpectPrompt == cfg.pass

(* The flag one line raises, in the order the host tests them           *)
(* (Connection._examine_output: if / elif / elif / elif).                *)
Raised(l) ==
    IF ExpectPrompt /\ CheckPasswordPrompt(l) THEN "prompt"
    ELSE IF CheckSuccess(l) THEN "success"
    ELSE IF CheckIncorrectPassword(l) THEN "error"
    ELSE IF CheckMissingPassword(l) THEN "nopasswd"
    ELSE "none"

(* The flags after a chunk c: a flag is up when it was, or when a line of *)
(* c raises it.                                                            *)
ChunkFlags(fl, c) == [f \in FlagNames |-> fl[f] \/ \E i \in DOMAIN c : Raised(c[i]) = f]

(* mutant of AwaitPrompt: the state is not advanced after the password  *)
(* is written                                                              *)
AwaitPromptNoAdvance(st, fl) ==
    IF st = "awaiting_prompt" /\ fl.prompt
    THEN [st |-> st, fl |-> [fl EXCEPT !.prompt = FALSE], write |-> TRUE]
    ELSE IF st = "awaiting_prompt" /\ fl.success
    THEN [st |-> "awaiting_escalation", fl |-> fl, write |-> FALSE]
    ELSE [st |-> st, fl |-> fl, write |-> FALSE]

(* The awaiting_prompt step: answer a prompt with the password, or move   *)
(* on when escalation already succeeded.                                   *)
AwaitPrompt(st, fl) ==
    IF st = "awaiting_prompt" /\ fl.prompt
    THEN [st |-> "awaiting_escalation", fl |-> [fl EXCEPT !.prompt = FALSE],
          write |-> TRUE]
    ELSE IF st = "awaiting_prompt" /\ fl.success
    THEN [st |-> "awaiting_escalation", fl |-> fl, write |-> FALSE]
    ELSE [st |-> st, fl |-> fl, write |-> FALSE]

(* The awaiting_escalation step that follows it in the same iteration. *)
AwaitEscalation(r) ==
    IF r.st # "awaiting_escalation" THEN r
    ELSE IF r.fl.success
         THEN [r EXCEPT !.st = "ready_to_send", !.fl.success = FALSE]
    ELSE IF r.fl.error \/ r.fl.prompt THEN [r EXCEPT !.st = "incorrect"]
    ELSE IF r.fl.nopasswd THEN [r EXCEPT !.st = "missing"]
    ELSE r

Waiting == {"awaiting_prompt", "awaiting_escalation"}
Verdicts == {"ready_to_send", "incorrect", "missing"}

-----------------------------------------------------------------------------
Init ==
    /\ cfg \in [pass : PassValues, needpass : NeedPassValues,
                passok : PassOkValues, verbose : VerboseValues,
                session : Sessions]
    /\ spc = "start"
    /\ chan = <<>>
    /\ stdin = FALSE
    /\ ran = FALSE
    /\ leaked = FALSE
    /\ hstate = IF ExpectPrompt THEN "awaiting_prompt" ELSE "awaiting_escalation"
    /\ flags = NoFlags
    /\ pwsent = 0

HostVars == <<hstate, flags, pwsent>>

(* sudosh starts: it blocks an Augment session, and otherwise announces  *)
(* an Ansible session when --ansible-verbose is passed.                   *)
SudoshStart ==
    /\ spc = "start"
    /\ IF cfg.session = "augment"
       THEN spc' = "exited" /\ chan' = Append(chan, AugmentLine)
       ELSE /\ spc' = "auth"
            /\ chan' = IF cfg.verbose THEN Append(chan, AnsibleLine) ELSE chan
    /\ UNCHANGED <<cfg, stdin, ran, leaked, HostVars>>

(* sudosh asks for the password when sudoers wants one. *)
SudoshAuth ==
    /\ spc = "auth"
    /\ IF cfg.needpass
       THEN spc' = "await_pw" /\ chan' = Append(chan, PromptLine)
       ELSE spc' = "run" /\ chan' = chan
    /\ UNCHANGED <<cfg, stdin, ran, leaked, HostVars>>

(* sudosh reads the password from its stdin and checks it. *)
SudoshCheckPassword ==
    /\ spc = "await_pw"
    /\ stdin
    /\ stdin' = FALSE
    /\ IF cfg.passok
       THEN spc' = "run" /\ chan' = Append(chan, AuthOkLine)
       ELSE spc' = "exited" /\ chan' = chan \o <<SorryLine, AuthFailLine>>
    /\ UNCHANGED <<cfg, ran, leaked, HostVars>>

(* The wrapped command starts: it echoes the success marker, and its     *)
(* stdin is whatever is left on sudosh's.                                 *)
SudoshRun ==
    /\ spc = "run"
    /\ spc' = "output"
    /\ chan' = Append(chan, MarkerLine)
    /\ ran' = TRUE
    /\ leaked' = stdin
    /\ UNCHANGED <<cfg, stdin, HostVars>>

(* The command writes its output and sudosh exits. *)
SudoshOutput ==
    /\ spc = "output"
    /\ spc' = "exited"
    /\ chan' = Append(chan, OutputLine)
    /\ UNCHANGED <<cfg, stdin, ran, leaked, HostVars>>

(* The host's become state, flags and password write after examining the *)
(* first k unread lines and taking the awaiting_prompt and the            *)
(* awaiting_escalation steps.                                              *)
HostStep(k) == AwaitEscalation(AwaitPrompt(hstate, ChunkFlags(flags, SubSeq(chan, 1, k))))

(* One iteration of the host's become loop on a chunk of the first k      *)
(* unread lines; the password goes to sudosh's stdin.                     *)
HostRead ==
    /\ hstate \in Waiting
    /\ \E k \in 1..Len(chan) :
         /\ chan' = SubSeq(chan, k + 1, Len(chan))
         /\ hstate' = HostStep(k).st
         /\ flags' = HostStep(k).fl
         /\ pwsent' = IF HostStep(k).write THEN pwsent + 1 ELSE pwsent
         /\ stdin' = (stdin \/ HostStep(k).write)
    /\ UNCHANGED <<cfg, spc, ran, leaked>>

Next ==
    \/ SudoshStart \/ SudoshAuth \/ SudoshCheckPassword \/ SudoshRun
    \/ SudoshOutput \/ HostRead

(* The host's select loop reads whenever output is pending, and sudosh    *)
(* runs to its end unless it waits on stdin.                              *)
Fairness ==
    /\ WF_vars(HostRead)
    /\ WF_vars(SudoshStart) /\ WF_vars(SudoshAuth)
    /\ WF_vars(SudoshCheckPassword) /\ WF_vars(SudoshRun)
    /\ WF_vars(SudoshOutput)

Spec == Init /\ [][Next]_vars /\ Fairness

-----------------------------------------------------------------------------
(* The variables have their types, and the host writes the password at   *)
(* most once per task.                                                     *)
TypeOK ==
    /\ spc \in {"start", "auth", "await_pw", "run", "output", "exited"}
    /\ chan \in Seq(Lines)
    /\ stdin \in BOOLEAN /\ ran \in BOOLEAN /\ leaked \in BOOLEAN
    /\ hstate \in Waiting \cup Verdicts
    /\ flags \in [FlagNames -> BOOLEAN]
    /\ pwsent \in 0..1

(* The host decides that escalation succeeded only for a task whose       *)
(* wrapped command actually started (check_success and the prompt checks  *)
(* must not take a sudosh message for the success marker).                 *)
SuccessMeansCommandRan == hstate = "ready_to_send" => ran

(* Every task ends: the host reaches a verdict, or sudosh exits and the   *)
(* host has read all it wrote; host and sudosh never wait on each other   *)
(* (a prompt check that misses sudosh's prompt leaves both waiting).      *)
Termination == <>(hstate \in Verdicts \/ (spc = "exited" /\ chan = <<>>))

(* The refinement mapping: the host's verdict is pending while it waits,  *)
(* the command has started when the wrapped command ran, and the remote   *)
(* side is over when sudosh exited.                                       *)
Escalation == INSTANCE BecomeEscalation
                  WITH verdict <- IF hstate \in Waiting THEN "pending" ELSE hstate,
                       started <- ran,
                       over <- spc = "exited"

(* Spec section 4.2 and the fail tuple: a right password is never         *)
(* reported as an incorrect one.                                           *)
RightPasswordAccepted == cfg.passok => hstate # "incorrect"

(* The password is only ever read by sudosh's prompt, never by the        *)
(* escalated command.                                                      *)
NoPasswordLeak == ~leaked

=============================================================================
